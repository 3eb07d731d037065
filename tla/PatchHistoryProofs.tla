------------------------- MODULE PatchHistoryProofs -------------------------
(***************************************************************************)
(* Proof that LivePatch implements PatchStack, and that a function runs    *)
(* the version applied last, whenever the order of the patches can be told *)
(* from their addresses (Orderly).                                         *)
(***************************************************************************)
EXTENDS PatchHistory, LivePatchProofs

(* The cells of a patch that is mapped as a whole at B[p]. *)
Room(B, p) == B[p]..(B[p] + Size[p] - 1)

(* All segments of q fit at b, beside the first n patches of s. *)
FitsBeside(B, s, n, q, b) ==
  \A m \in 0..(Size[q] - 1) :
    /\ b + m \in (1..N) \ Busy
    /\ \A j \in 1..n : b + m \notin Room(B, s[j])

(* The patches of s are at increasing addresses, and what was free for any *)
(* patch once one of them was placed is above it.                          *)
Ascending(B, s) ==
  \A k \in 1..Len(s) :
    /\ \A j \in 1..Len(s) : j < k => B[s[j]] < B[s[k]]
    /\ \A q \in Patches, b \in 1..N : FitsBeside(B, s, k, q, b) => B[s[k]] < b

(* The last of the first n patches of s that replace f is s[k]; or none. *)
IsLatest(s, n, f, k) ==
  /\ f \in JumpSet(s[k])
  /\ \A j \in 1..n : f \in JumpSet(s[j]) => j <= k

NoneReplaces(s, n, f) == \A k \in 1..n : f \notin JumpSet(s[k])

(* v is the entry of f when the first n patches of s are applied. *)
LeadsTo(v, B, s, n, f) ==
  \/ NoneReplaces(s, n, f) /\ v = Original
  \/ \E k \in 1..n : IsLatest(s, n, f, k) /\ v = B[s[k]]

(* r redirects every function to the last patch of s that replaces it. *)
LatestOf(s, r) ==
  \A f \in Funcs :
    \/ NoneReplaces(s, Len(s), f) /\ r[f] = None
    \/ \E k \in 1..Len(s) : IsLatest(s, Len(s), f, k) /\ r[f] = s[k]

Distinct(s) == \A j, k \in 1..Len(s) : s[j] = s[k] => j = k

(* The loop over the func_jumps of the command has been past f. *)
Past(f) == \E j \in 1..Len(Jumps[cmd.p]) : j < i /\ Jumps[cmd.p][j] = f

Reverting == pc = "unjump" \/ (pc = "unload" /\ cmd.op = "revert")

(* The patches whose command went through are those that are mapped; a     *)
(* patch that is being applied is not one of them yet, one that is being   *)
(* reverted is the last of them.                                           *)
ListInv ==
  /\ order \in Seq(Patches)
  /\ Distinct(order)
  /\ \A q \in Patches :
       q # cmd.p \/ pc \notin {"mmap", "rollback", "link", "tune", "jump", "unload"} =>
         (Listed(q) <=> segs[q] # {})
  /\ pc \in PatchSteps \ {"prepare"} \/ (pc = "unload" /\ cmd.op = "patch") =>
       ~Listed(cmd.p)
  /\ pc \in {"link", "tune", "jump", "unload"} /\ cmd.dry => segs[cmd.p] = {}
  /\ pc = "unjump" => cmd.op = "revert"
  /\ Reverting => Listed(cmd.p)
  /\ cmd.op = "revert" /\ Listed(cmd.p) => order[Len(order)] = cmd.p
  /\ Stopped => \A q \in Patches : tuned[q] = Len(Jumps[q])
  /\ loaded = Libs

(* The order of the patches is the order of their addresses. *)
OrderInv ==
  /\ Ascending(base, order)
  /\ pc \in PlacedSteps => Ascending(base, Append(order, cmd.p))

(* Every function leads to the last patch, but for the func_jumps the      *)
(* command has been past.                                                  *)
CodeInv ==
  \A f \in Funcs :
    IF pc = "jump" /\ ~cmd.dry /\ Past(f) THEN code[f] = base[cmd.p]
    ELSE IF Reverting /\ (pc = "unjump" => Past(f))
    THEN LeadsTo(code[f], base, order, Len(order) - 1, f)
    ELSE LeadsTo(code[f], base, order, Len(order), f)

(* What the process saw when it ran last: the patches before the command,  *)
(* also when the command is through and the process is about to run.       *)
ViewInv ==
  /\ view.stack \in Seq(Patches)
  /\ Distinct(view.stack)
  /\ view.redirect \in [Funcs -> Patches \union {None}]
  /\ LatestOf(view.stack, view.redirect)
  /\ ~Stopped => view = [stack |-> order, redirect |-> Redirect]
  /\ \/ view.stack = order
     \/ pc = "resume" /\ order = Append(view.stack, cmd.p)
     \/ pc = "resume" /\ view.stack = Append(order, cmd.p)

HistoryInv == ListInv /\ OrderInv /\ CodeInv /\ ViewInv

(* What holds of LivePatch by itself when accesses of memory and of files  *)
(* succeed and nsb is not killed.                                          *)
Background == TypeInv /\ PlaceInv /\ JumpInv /\ RevertInv /\ WholeInv

-----------------------------------------------------------------------------
(* Sequences of patches.                                                   *)

(* Taking the last element off a sequence. *)
LEMMA RemoveLast ==
  ASSUME NEW s \in Seq(Patches), Len(s) > 0
  PROVE  /\ Stack!Without(s, Len(s)) \in Seq(Patches)
         /\ Len(Stack!Without(s, Len(s))) = Len(s) - 1
         /\ \A k \in 1..(Len(s) - 1) : Stack!Without(s, Len(s))[k] = s[k]
         /\ s = Append(Stack!Without(s, Len(s)), s[Len(s)])
<1> DEFINE t == Stack!Without(s, Len(s))
<1>1. /\ t \in Seq(Patches)
      /\ Len(t) = Len(s) - 1
      /\ \A k \in 1..(Len(s) - 1) : t[k] = s[k]
  <2>1. t = SubSeq(s, 1, Len(s) - 1)
    BY DEF Stack!Without
  <2>2. Len(s) \in Nat /\ s \in [1..Len(s) -> Patches]
    OBVIOUS
  <2>3. Len(t) = Len(s) - 1
    BY <2>1, <2>2
  <2>4. \A k \in 1..(Len(s) - 1) : t[k] = s[k]
    BY <2>1, <2>2
  <2>5. t \in Seq(Patches)
    BY <2>1, <2>2
  <2> QED
    BY <2>3, <2>4, <2>5, Zenon
<1> HIDE DEF t
<1>2. s = Append(t, s[Len(s)])
  <2>1. /\ Append(t, s[Len(s)]) \in Seq(Patches)
        /\ Len(Append(t, s[Len(s)])) = Len(s)
    BY <1>1
  <2>2. \A k \in 1..Len(s) : Append(t, s[Len(s)])[k] = s[k]
    BY <1>1
  <2> QED
    BY <2>1, <2>2
<1> QED
  BY <1>1, <1>2, Zenon DEF t

(* Adding one. *)
LEMMA AppendOne ==
  ASSUME NEW s \in Seq(Patches), NEW p \in Patches
  PROVE  /\ Append(s, p) \in Seq(Patches)
         /\ Len(Append(s, p)) = Len(s) + 1
         /\ Append(s, p)[Len(s) + 1] = p
         /\ \A k \in 1..Len(s) : Append(s, p)[k] = s[k]
OBVIOUS

(* What is true of the first n patches depends on them only. *)
LEMMA SameFront ==
  ASSUME NEW s \in Seq(Patches), NEW t \in Seq(Patches), NEW n \in Nat,
         NEW B, NEW D,
         \A k \in 1..n : t[k] = s[k] /\ D[t[k]] = B[s[k]]
  PROVE  /\ \A q, b : FitsBeside(D, t, n, q, b) <=> FitsBeside(B, s, n, q, b)
         /\ \A v, f : LeadsTo(v, B, s, n, f) <=> LeadsTo(v, D, t, n, f)
<1>1. \A j \in 1..n : Room(D, t[j]) = Room(B, s[j])
  BY Zenon DEF Room
<1>2. \A q, b : FitsBeside(D, t, n, q, b) <=> FitsBeside(B, s, n, q, b)
  BY <1>1, Zenon DEF FitsBeside
<1>3. \A f : NoneReplaces(s, n, f) <=> NoneReplaces(t, n, f)
  BY Zenon DEF NoneReplaces
<1>4. \A f : \A k \in 1..n : IsLatest(s, n, f, k) <=> IsLatest(t, n, f, k)
  BY Zenon DEF IsLatest
<1>5. \A v, f : LeadsTo(v, B, s, n, f) <=> LeadsTo(v, D, t, n, f)
  BY <1>3, <1>4, Zenon DEF LeadsTo
<1> QED
  BY <1>2, <1>5, Zenon

(* The first of the patches are in ascending order as all of them are, and *)
(* moving another patch does not matter.                                   *)
LEMMA AscendingFront ==
  ASSUME NEW s \in Seq(Patches), NEW t \in Seq(Patches), NEW B, NEW D,
         Len(t) <= Len(s),
         \A k \in 1..Len(t) : t[k] = s[k] /\ D[t[k]] = B[s[k]],
         Ascending(B, s)
  PROVE  Ascending(D, t)
<1> SUFFICES ASSUME NEW k \in 1..Len(t)
             PROVE  /\ \A j \in 1..Len(t) : j < k => D[t[j]] < D[t[k]]
                    /\ \A q \in Patches, b \in 1..N :
                         FitsBeside(D, t, k, q, b) => D[t[k]] < b
  BY Zenon DEF Ascending
<1>1. /\ k \in 1..Len(s) /\ k \in Nat
      /\ \A j \in 1..Len(t) : j \in 1..Len(s)
      /\ \A j \in 1..k : j \in 1..Len(t)
  OBVIOUS
<1>2. \A q, b : FitsBeside(D, t, k, q, b) <=> FitsBeside(B, s, k, q, b)
  BY <1>1, SameFront, Zenon
<1>3. /\ \A j \in 1..Len(s) : j < k => B[s[j]] < B[s[k]]
      /\ \A q \in Patches, b \in 1..N : FitsBeside(B, s, k, q, b) => B[s[k]] < b
  BY <1>1, Zenon DEF Ascending
<1> QED
  BY <1>1, <1>2, <1>3, Zenon

(* A patch that is placed in the lowest range it fits in is above all the  *)
(* others, and whatever fits beside it then is above it: when all have one *)
(* size, it would have fitted there too, and when the free cells are one   *)
(* range, so would it, up to its own place.                                *)
LEMMA AscendingAppend ==
  ASSUME NEW s \in Seq(Patches), NEW p \in Patches, NEW B \in [Patches -> 0..N],
         Ascending(B, s),
         B[p] \in 1..N,
         FitsBeside(B, s, Len(s), p, B[p]),
         \A c \in 1..N : FitsBeside(B, s, Len(s), p, c) => B[p] <= c,
         \/ \A q, r \in Patches : Size[q] = Size[r]
         \/ \A a, c \in (1..N) \ Busy : (a..c) \intersect Busy = {}
  PROVE  Ascending(B, Append(s, p))
<1> DEFINE t == Append(s, p)
           n == Len(s)
<1>1. /\ n \in Nat /\ t \in Seq(Patches) /\ Len(t) = n + 1 /\ t[n + 1] = p
      /\ \A k \in 1..n : t[k] = s[k]
  BY AppendOne
<1> HIDE DEF t
<1>2. N \in Nat /\ \A q \in Patches : Size[q] \in Nat /\ Size[q] > 0
  BY ConstantsAssumption
<1>3. \A k \in 1..n : s[k] \in Patches /\ B[s[k]] \in 0..N
  OBVIOUS
<1>4. ASSUME NEW q \in Patches, NEW b \in 1..N, FitsBeside(B, s, n, q, b)
      PROVE  \A k \in 1..n : B[s[k]] < b
  <2> SUFFICES ASSUME NEW k \in 1..n PROVE B[s[k]] < b
    BY Zenon
  <2>1. FitsBeside(B, s, k, q, b)
    <3>1. \A j \in 1..k : j \in 1..n
      OBVIOUS
    <3> QED
      BY <1>4, <3>1, Zenon DEF FitsBeside
  <2> QED
    BY <2>1, Zenon DEF Ascending
<1>5. ASSUME NEW q \in Patches, NEW b \in 1..N, FitsBeside(B, t, n + 1, q, b)
      PROVE  B[p] < b
  <2>1. /\ FitsBeside(B, s, n, q, b)
        /\ \A m \in 0..(Size[q] - 1) : b + m \notin Room(B, p)
    <3>1. \A j \in 1..n : j \in 1..(n + 1)
      OBVIOUS
    <3>2. n + 1 \in 1..(n + 1)
      BY <1>1
    <3> QED
      BY <1>1, <1>5, <3>1, <3>2, Zenon DEF FitsBeside
  <2>2. b # B[p]
    <3>1. 0 \in 0..(Size[q] - 1) /\ b + 0 = b
      BY <1>2
    <3>2. b \notin Room(B, p)
      BY <2>1, <3>1, Zenon
    <3> QED
      BY <1>2, <3>2 DEF Room
  <2>3. FitsBeside(B, s, n, p, b) => B[p] < b
    BY <2>2
  <2>4. CASE \A r, u \in Patches : Size[r] = Size[u]
    BY <2>1, <2>3, <2>4, Zenon DEF FitsBeside
  <2>5. CASE \A a, c \in (1..N) \ Busy : (a..c) \intersect Busy = {}
    <3> SUFFICES ASSUME b < B[p] PROVE FALSE
      BY <2>2
    <3>1. \A k \in 1..n : B[s[k]] < b
      BY <1>4, <2>1, Zenon
    <3>2. b \in (1..N) \ Busy /\ \A k \in 1..n : b \notin Room(B, s[k])
      <4>1. 0 \in 0..(Size[q] - 1) /\ b + 0 = b
        BY <1>2
      <4>2. b + 0 \in (1..N) \ Busy /\ \A k \in 1..n : b + 0 \notin Room(B, s[k])
        BY <2>1, <4>1, Zenon DEF FitsBeside
      <4> QED
        BY <4>1, <4>2, Zenon
    <3>3. ASSUME NEW k \in 1..n PROVE B[s[k]] + Size[s[k]] <= b
      <4>1. B[s[k]] \in Nat /\ Size[s[k]] \in Nat /\ B[s[k]] < b
        BY <1>2, <1>3, <3>1
      <4>2. b \notin Room(B, s[k])
        BY <3>2, Zenon
      <4> QED
        BY <1>2, <4>1, <4>2 DEF Room
    <3> DEFINE c == B[p] + (Size[p] - 1)
    <3>4. c \in (1..N) \ Busy
      <4>1. Size[p] - 1 \in 0..(Size[p] - 1)
        BY <1>2
      <4> QED
        BY <4>1, Zenon DEF FitsBeside
    <3>5. ASSUME NEW m \in 0..(Size[p] - 1)
          PROVE  b + m \in (1..N) \ Busy /\ \A j \in 1..n : b + m \notin Room(B, s[j])
      <4>1. b + m \in b..c /\ b + m \in 1..N
        BY <1>2, <3>4
      <4>2. b + m \notin Busy
        BY <2>5, <3>2, <3>4, <4>1, Zenon
      <4>3. \A j \in 1..n : b + m \notin Room(B, s[j])
        BY <1>2, <1>3, <3>3 DEF Room
      <4> QED
        BY <4>1, <4>2, <4>3, Zenon
    <3>6. FitsBeside(B, s, n, p, b)
      BY <3>5, Zenon DEF FitsBeside
    <3> QED
      BY <2>3, <3>6
  <2> QED
    BY <2>4, <2>5, Zenon
<1>6. \A k \in 1..n : B[s[k]] < B[p]
  BY <1>4, Zenon
<1> SUFFICES ASSUME NEW k \in 1..Len(t)
             PROVE  /\ \A j \in 1..Len(t) : j < k => B[t[j]] < B[t[k]]
                    /\ \A q \in Patches, b \in 1..N :
                         FitsBeside(B, t, k, q, b) => B[t[k]] < b
  BY Zenon DEF Ascending, t
<1>7. CASE k = n + 1
  <2>1. \A j \in 1..Len(t) : j < k => j \in 1..n
    BY <1>1, <1>7
  <2>2. t[k] = p
    BY <1>1, <1>7, Zenon
  <2>3. \A j \in 1..Len(t) : j < k => B[t[j]] < B[t[k]]
    BY <1>1, <1>6, <2>1, <2>2, Zenon
  <2> QED
    BY <1>5, <1>7, <2>2, <2>3, Zenon
<1>8. CASE k \in 1..n
  <2>1. \A j \in 1..Len(t) : j < k => j \in 1..n
    BY <1>1, <1>8
  <2>2. \A q, b : FitsBeside(B, t, k, q, b) <=> FitsBeside(B, s, k, q, b)
    <3>1. k \in Nat /\ \A j \in 1..k : j \in 1..n
      BY <1>8
    <3>2. \A j \in 1..k : t[j] = s[j]
      BY <1>1, <3>1, Zenon
    <3> QED
      BY <1>1, <3>1, <3>2, SameFront, Zenon
  <2>3. /\ t[k] = s[k]
        /\ \A j \in 1..n : j < k => B[s[j]] < B[s[k]]
        /\ \A q \in Patches, b \in 1..N : FitsBeside(B, s, k, q, b) => B[s[k]] < b
    BY <1>1, <1>8, Zenon DEF Ascending
  <2> QED
    BY <1>1, <2>1, <2>2, <2>3, Zenon
<1> QED
  BY <1>1, <1>7, <1>8

(* A patch that does not replace f does not matter for f. *)
LEMMA LeadsSkip ==
  ASSUME NEW s, NEW B, NEW v, NEW f, NEW n \in Nat \ {0}, f \notin JumpSet(s[n])
  PROVE  LeadsTo(v, B, s, n, f) <=> LeadsTo(v, B, s, n - 1, f)
<1>1. \A k : k \in 1..n <=> k \in 1..(n - 1) \/ k = n
  OBVIOUS
<1>2. NoneReplaces(s, n, f) <=> NoneReplaces(s, n - 1, f)
  BY <1>1, Zenon DEF NoneReplaces
<1>3. \A k : IsLatest(s, n, f, k) <=> IsLatest(s, n - 1, f, k)
  BY <1>1, Zenon DEF IsLatest
<1>4. \A k : IsLatest(s, n, f, k) => k # n
  BY Zenon DEF IsLatest
<1> QED
  BY <1>1, <1>2, <1>3, <1>4, Zenon DEF LeadsTo

(* A function that the last patch replaces leads to it. *)
LEMMA LeadsLast ==
  ASSUME NEW s, NEW B, NEW v, NEW f, NEW n \in Nat \ {0}, f \in JumpSet(s[n])
  PROVE  LeadsTo(v, B, s, n, f) <=> v = B[s[n]]
<1>1. n \in 1..n /\ \A k \in 1..n : k <= n
  OBVIOUS
<1>2. ~NoneReplaces(s, n, f)
  BY <1>1, Zenon DEF NoneReplaces
<1>3. IsLatest(s, n, f, n)
  BY <1>1, Zenon DEF IsLatest
<1>4. \A k \in 1..n : IsLatest(s, n, f, k) => k = n
  BY DEF IsLatest
<1> QED
  BY <1>1, <1>2, <1>3, <1>4, Zenon DEF LeadsTo

(* LatestOf says of a redirection what PatchStack computes. *)
LEMMA LatestIs ==
  ASSUME NEW s \in Seq(Patches), NEW r, LatestOf(s, r), NEW f \in Funcs
  PROVE  r[f] = Stack!Latest(s, f)
<1> DEFINE Replacing == {k \in 1..Len(s) : f \in [p \in Patches |-> JumpSet(p)][s[k]]}
<1>0. \A k : k \in Replacing <=> k \in 1..Len(s) /\ f \in JumpSet(s[k])
  OBVIOUS
<1>1. Stack!Latest(s, f) =
        IF Replacing = {} THEN None
        ELSE s[CHOOSE k \in Replacing : \A j \in Replacing : j <= k]
  BY Zenon DEF Stack!Latest
<1> HIDE DEF Replacing
<1>2. CASE NoneReplaces(s, Len(s), f) /\ r[f] = None
  <2>1. Replacing = {}
    BY <1>0, <1>2, Zenon DEF NoneReplaces
  <2> QED
    BY <1>1, <1>2, <2>1, Zenon
<1>3. ASSUME NEW k \in 1..Len(s), IsLatest(s, Len(s), f, k), r[f] = s[k]
      PROVE  r[f] = Stack!Latest(s, f)
  <2>1. k \in Replacing /\ \A j \in Replacing : j <= k
    BY <1>0, <1>3, Zenon DEF IsLatest
  <2>2. ASSUME NEW m \in Replacing, \A j \in Replacing : j <= m
        PROVE  m = k
    BY <1>0, <2>1, <2>2
  <2>3. (CHOOSE m \in Replacing : \A j \in Replacing : j <= m) = k
    <3> DEFINE c == CHOOSE m \in Replacing : \A j \in Replacing : j <= m
    <3>1. c \in Replacing /\ \A j \in Replacing : j <= c
      BY <2>1, Zenon
    <3> HIDE DEF c
    <3>2. c = k
      BY <2>2, <3>1, Zenon
    <3> QED
      BY <3>2, Zenon DEF c
  <2> QED
    BY <1>1, <1>3, <2>1, <2>3, Zenon
<1> QED
  BY <1>2, <1>3, Zenon DEF LatestOf

(* What an added patch changes: the functions it replaces. *)
LEMMA LatestAppend ==
  ASSUME NEW s \in Seq(Patches), NEW p \in Patches, NEW r, NEW z,
         LatestOf(s, r), LatestOf(Append(s, p), z), NEW f \in Funcs
  PROVE  z[f] = IF f \in JumpSet(p) THEN p ELSE r[f]
<1> DEFINE t == Append(s, p)
           n == Len(s) + 1
<1>1. /\ Len(t) = n /\ t[n] = p /\ n \in Nat \ {0} /\ t \in Seq(Patches)
      /\ \A k \in 1..(n - 1) : t[k] = s[k]
      /\ n - 1 = Len(s) /\ Len(s) \in Nat
  BY AppendOne
<1> HIDE DEF t, n
<1>2. \A k : k \in 1..n <=> k \in 1..(n - 1) \/ k = n
  BY <1>1
<1>3. \/ NoneReplaces(s, n - 1, f) /\ r[f] = None
      \/ \E k \in 1..(n - 1) : IsLatest(s, n - 1, f, k) /\ r[f] = s[k]
  BY <1>1, ZenonT(30) DEF LatestOf
<1>4. \/ NoneReplaces(t, n, f) /\ z[f] = None
      \/ \E k \in 1..n : IsLatest(t, n, f, k) /\ z[f] = t[k]
  BY <1>1, Zenon DEF LatestOf, t
<1>5. CASE f \in JumpSet(p)
  <2>1. n \in 1..n /\ f \in JumpSet(t[n])
    BY <1>1, <1>5
  <2>2. ~NoneReplaces(t, n, f)
    BY <2>1, Zenon DEF NoneReplaces
  <2>3. \A k \in 1..n : IsLatest(t, n, f, k) => k = n
    BY <1>1, <2>1 DEF IsLatest
  <2> QED
    BY <1>1, <1>4, <1>5, <2>2, <2>3, Zenon
<1>6. CASE f \notin JumpSet(p)
  <2>1. NoneReplaces(t, n, f) <=> NoneReplaces(s, n - 1, f)
    BY <1>1, <1>2, <1>6, Zenon DEF NoneReplaces
  <2>2. \A k \in 1..n : IsLatest(t, n, f, k) => k \in 1..(n - 1) /\ IsLatest(s, n - 1, f, k)
    BY <1>1, <1>2, <1>6, Zenon DEF IsLatest
  <2>3. \A j, k \in 1..(n - 1) : IsLatest(s, n - 1, f, k) /\ IsLatest(s, n - 1, f, j) => j = k
    BY <1>1 DEF IsLatest
  <2>4. \A k \in 1..(n - 1) : IsLatest(s, n - 1, f, k) => ~NoneReplaces(s, n - 1, f)
    BY Zenon DEF IsLatest, NoneReplaces
  <2> QED
    BY <1>1, <1>3, <1>4, <1>6, <2>1, <2>2, <2>3, <2>4, Zenon
<1> QED
  BY <1>5, <1>6, Zenon

-----------------------------------------------------------------------------
(* The list of applied patches.                                            *)

(* What Orderly says of the faults and of the commands. *)
LEMMA OrderlyCommands ==
  ASSUME Orderly
  PROVE  /\ {"munmap", "poke", "tune", "crash"} \intersect Faults = {}
         /\ \A c \in Commands : c.op = "revert" => ~c.dry
         /\ \A c \in Commands : c.mode = "plugin" => "mmap" \notin Faults
<1>1. {"munmap", "poke", "tune", "crash"} \intersect Faults = {}
  BY Zenon DEF Orderly
<1>2. \A c \in Commands : c.op = "revert" => ~c.dry
  BY Zenon DEF Orderly, Commands
<1>3. \A c \in Commands : c.mode = "plugin" => "plugin" \in Modes
  BY Zenon DEF Commands
<1> QED
  BY <1>1, <1>2, <1>3, Zenon DEF Orderly

(* The list changes only when a command is through. *)
LEMMA OrderKept ==
  ASSUME NextH, pc \notin {"jump", "unload"} \/ pc' # "resume"
  PROVE  order' = order /\ \A q : Listed(q)' <=> Listed(q)
BY Zenon DEF NextH, NextOrder, PatchDone, RevertDone, Listed

(* Then it gets the patch of the command, or loses it, its last one. *)
LEMMA OrderChange ==
  ASSUME ListInv, NextH
  PROVE  \/ order' = order
         \/ order' = Append(order, cmd.p) /\ pc = "jump" /\ pc' = "resume"
         \/ /\ order' = Stack!Without(order, Len(order))
            /\ Len(order) > 0 /\ order[Len(order)] = cmd.p
            /\ pc = "unload" /\ pc' = "resume"
<1>1. CASE RevertDone /\ Listed(cmd.p)
  <2>1. /\ order[Len(order)] = cmd.p /\ Distinct(order) /\ order \in Seq(Patches)
        /\ pc = "unload" /\ pc' = "resume"
    BY <1>1, Zenon DEF RevertDone, ListInv
  <2>2. Len(order) > 0 /\ \A k \in 1..Len(order) : order[k] = cmd.p => k = Len(order)
    BY <1>1, <2>1 DEF Listed, Distinct
  <2> QED
    BY <1>1, <2>1, <2>2, Zenon DEF NextH, NextOrder, PatchDone
<1> QED
  BY <1>1, Zenon DEF NextH, NextOrder, PatchDone

(* The process runs, or a command starts, stops it and lets it go. *)
LEMMA ListStartStop ==
  ASSUME Orderly, Background, ListInv, NextH,
         \/ ProcessStep \/ \E c \in Commands : Start(c)
         \/ Suspend \/ SuspendFails \/ Resume \/ PreparePatch
  PROVE  ListInv'
<1>1. /\ UNCHANGED <<segs, loaded>>
      /\ pc \in {"idle", "suspend", "resume", "prepare"}
  <2>1. CASE ProcessStep
    <3>1. PICK t \in Threads : Return(t) \/ \E f \in Funcs : Call(t, f)
      BY <2>1, Zenon DEF ProcessStep, Orderly
    <3> QED
      BY <3>1, Zenon DEF Call, Return, Stopped
  <2> QED
    BY <2>1, Zenon DEF Start, Suspend, SuspendFails, Resume, PreparePatch, process
<1>2. order' = order /\ \A q : Listed(q)' <=> Listed(q)
  BY <1>1, OrderKept, Zenon
<1>3. \A q \in Patches : Listed(q) <=> segs[q] # {}
  BY <1>1, Zenon DEF ListInv
<1>4. CASE ProcessStep
  <2>1. UNCHANGED <<pc, cmd, tuned>> /\ pc \in {"idle", "suspend"}
    BY <1>4, Zenon DEF ProcessStep, Call, Return, Dlclose, Dlopen, nsb, Stopped
  <2> QED
    BY <1>1, <1>2, <1>3, <2>1, Zenon DEF ListInv, Stopped, Reverting, PatchSteps
<1>5. CASE \E c \in Commands : Start(c)
  <2>1. pc = "idle" /\ pc' = "suspend"
    BY <1>5, Zenon DEF Start, Goto
  <2>2. cmd'.op = "revert" /\ Listed(cmd'.p) => order[Len(order)] = cmd'.p
    BY <2>1, Zenon DEF NextH, Orderly
  <2> QED
    BY <1>1, <1>2, <1>3, <2>1, <2>2, Zenon DEF ListInv, Stopped, Reverting, PatchSteps
<1>6. CASE SuspendFails \/ Resume
  <2>1. pc' = "idle" /\ cmd' = NoCommand
    BY <1>6, Zenon DEF SuspendFails, Resume, Exit, Goto
  <2> QED
    BY <1>1, <1>2, <1>3, <2>1, Zenon DEF ListInv, Stopped, Reverting, PatchSteps, NoCommand
<1>7. CASE Suspend
  <2>1. /\ pc' = IF cmd.op = "patch" THEN "prepare" ELSE "unjump"
        /\ cmd' = cmd /\ TargetFound
        /\ \A q \in Patches : tuned'[q] = Len(Jumps[q])
    BY <1>7, OrderlyCommands, Zenon DEF Suspend, Goto, tune_patch_func_jumps
  <2>2. cmd.p \in Patches /\ cmd.op \in {"patch", "revert"}
    BY <1>7, CommandFields, Zenon DEF Suspend, Background, TypeInv, TypeOK
  <2>3. pc' = "unjump" => cmd.op = "revert" /\ Listed(cmd.p)
    BY <1>3, <2>1, <2>2, Zenon DEF TargetFound
  <2> QED
    BY <1>1, <1>2, <1>3, <2>1, <2>3, Zenon DEF ListInv, Stopped, Reverting, PatchSteps
<1>8. CASE PreparePatch
  <2>1. /\ pc = "prepare" /\ UNCHANGED <<cmd, tuned>>
        /\ \/ pc' = "pin" /\ segs[cmd.p] = {}
           \/ pc' = "resume"
    BY <1>8, Zenon DEF PreparePatch, Goto, Fail, check_process
  <2>2. cmd.p \in Patches
    BY <2>1, CommandFields, Zenon DEF Background, TypeInv, TypeOK
  <2> QED
    BY <1>1, <1>2, <1>3, <2>1, <2>2, Zenon DEF ListInv, Stopped, Reverting, PatchSteps
<1> QED
  BY <1>4, <1>5, <1>6, <1>7, <1>8, Zenon

(* Loading a patch changes the mappings of this patch only, which is not   *)
(* in the list, and when it fails it leaves none.                          *)
LEMMA ListLoad ==
  ASSUME Orderly, Background, ListInv, NextH,
         \/ PinPatch \/ MmapManual \/ RollbackManual \/ MmapService
         \/ LinkPatch \/ TuneJumps
  PROVE  ListInv'
<1> DEFINE p == cmd.p
<1>1. /\ pc \in {"pin", "mmap", "rollback", "link", "tune"}
      /\ UNCHANGED <<cmd, loaded>>
      /\ pc' \in {"mmap", "rollback", "link", "tune", "jump", "unload", "resume"}
  BY Zenon DEF PinPatch, MmapManual, RollbackManual, MmapService, LinkPatch, TuneJumps,
         Goto, Fail, process
<1>2. order' = order /\ \A q : Listed(q)' <=> Listed(q)
  BY <1>1, OrderKept, Zenon
<1>3. p \in Patches /\ cmd.op = "patch" /\ ~Listed(p)
  BY <1>1, CommandFields, Zenon DEF Background, TypeInv, TypeOK, RevertInv, PatchSteps, ListInv
<1>4. \A q \in Patches \ {p} : segs'[q] = segs[q]
  <2>1. segs \in [Patches -> SUBSET Nat]
    BY Zenon DEF Background, TypeInv, TypeOK
  <2>2. CASE MmapManual \/ MmapService
    <3>1. PICK S : segs' = [segs EXCEPT ![p] = @ \union S]
      BY <2>2, PlaceMap, Zenon DEF Background
    <3> QED
      BY <1>3, <2>1, <3>1, Zenon
  <2>3. CASE RollbackManual
    BY <1>3, <2>1, <2>3, Zenon DEF RollbackManual
  <2>4. CASE PinPatch \/ LinkPatch \/ TuneJumps
    BY <2>4, Zenon DEF PinPatch, LinkPatch, TuneJumps, process
  <2> QED
    BY <2>2, <2>3, <2>4, Zenon
<1>5. ASSUME pc' = "resume" PROVE segs'[p] = {}
  <2>1. CASE PinPatch
    BY <2>1, Zenon DEF PinPatch, Background, PlaceInv
  <2>2. CASE RollbackManual
    <3>1. pc = "rollback" /\ i < 0 /\ segs' = segs /\ i \in Int
      BY <1>5, <2>2, Zenon DEF RollbackManual, Goto, Background, TypeInv, TypeOK
    <3> QED
      BY <3>1, SMTT(30) DEF Background, WholeInv
  <2>3. CASE MmapService
    <3>1. pc = "mmap" /\ cmd.mode = "plugin"
      BY <2>3, Zenon DEF MmapService
    <3>2. "mmap" \notin Faults
      BY <3>1, OrderlyCommands, Zenon DEF Background, TypeInv, TypeOK
    <3>3. segs' = segs
      BY <1>5, <2>3, <3>2, Zenon DEF MmapService, Goto
    <3>4. segs[p] = 0..(i - 1) /\ i = 0
      BY <3>1, Zenon DEF Background, WholeInv
    <3> QED
      BY <3>3, <3>4
  <2>4. ~(MmapManual \/ LinkPatch \/ TuneJumps)
    BY <1>5, Zenon DEF MmapManual, LinkPatch, TuneJumps, Goto, Fail
  <2> QED
    BY <2>1, <2>2, <2>3, <2>4, Zenon
<1>6. ASSUME pc' \in {"link", "tune", "jump", "unload"}, cmd.dry PROVE segs'[p] = {}
  <2>1. CASE PinPatch
    BY <2>1, Zenon DEF PinPatch, Background, PlaceInv
  <2>2. CASE LinkPatch \/ TuneJumps
    <3>1. segs' = segs /\ pc \in {"link", "tune"}
      BY <2>2, Zenon DEF LinkPatch, TuneJumps, process
    <3> QED
      BY <1>6, <3>1, Zenon DEF ListInv
  <2>3. ~(MmapManual \/ MmapService)
    BY <1>6, Zenon DEF MmapManual, MmapService, Background, WholeInv
  <2>4. ~RollbackManual
    BY <1>6, Zenon DEF RollbackManual, Goto
  <2> QED
    BY <2>1, <2>2, <2>3, <2>4, Zenon
<1>7. \A q \in Patches : tuned'[q] = Len(Jumps[q])
  <2>1. tuned \in [Patches -> 0..MaxJumps] /\ \A q \in Patches : tuned[q] = Len(Jumps[q])
    BY <1>1, Zenon DEF Background, TypeInv, TypeOK, ListInv, Stopped
  <2>2. tuned' = tuned \/ tuned' = [tuned EXCEPT ![p] = Len(Jumps[p])]
    BY OrderlyCommands, Zenon
    DEF PinPatch, MmapManual, RollbackManual, MmapService, LinkPatch, TuneJumps,
        tune_patch_func_jumps
  <2> QED
    BY <1>3, <2>1, <2>2, Zenon
<1> QED
  BY <1>1, <1>2, <1>3, <1>4, <1>5, <1>6, <1>7, Zenon DEF ListInv, Stopped, Reverting, PatchSteps

(* The jumps are written, or rewritten, and the segments unmapped: the     *)
(* list gets one more patch, or loses the last one.                        *)
LEMMA ListEnd ==
  ASSUME Orderly, Background, ListInv, NextH,
         ApplyJump \/ RevertJump \/ RevertJumpsDone \/ Unload
  PROVE  ListInv'
<1> DEFINE p == cmd.p
<1>1. /\ pc \in {"jump", "unjump", "unload"}
      /\ UNCHANGED <<cmd, loaded, tuned>>
  BY Zenon DEF ApplyJump, RevertJump, RevertJumpsDone, Unload, process
<1>2. /\ p \in Patches /\ cmd.op \in {"patch", "revert"} /\ cmd.dry \in BOOLEAN
      /\ cmd.op = "revert" => ~cmd.dry
      /\ segs \in [Patches -> SUBSET Nat]
  BY <1>1, CommandFields, OrderlyCommands, Zenon DEF Background, TypeInv, TypeOK
<1>3. order \in Seq(Patches) /\ Distinct(order)
  BY Zenon DEF ListInv
<1>4. CASE ApplyJump
  <2>1. /\ pc = "jump" /\ segs' = segs /\ pc' \in {"jump", "resume"}
        /\ cmd.op = "patch" /\ ~Listed(p)
        /\ ~cmd.dry => segs[p] # {}
        /\ cmd.dry => segs[p] = {}
    BY <1>4, Zenon DEF ApplyJump, Goto, Background, RevertInv, PatchSteps, ListInv, JumpInv
  <2>2. CASE pc' = "jump" \/ cmd.dry
    <3>1. order' = order /\ \A q : Listed(q)' <=> Listed(q)
      BY <2>1, <2>2, Zenon DEF NextH, NextOrder, PatchDone, RevertDone, Listed
    <3> QED
      BY <1>1, <2>1, <2>2, <3>1, Zenon DEF ListInv, Stopped, Reverting, PatchSteps
  <2>3. CASE pc' = "resume" /\ ~cmd.dry
    <3>1. order' = Append(order, p)
      BY <2>1, <2>3, Zenon DEF NextH, NextOrder, PatchDone
    <3>2. order' \in Seq(Patches) /\ \A q : Listed(q)' <=> Listed(q) \/ q = p
      BY <1>2, <1>3, <3>1, AppendOne DEF Listed
    <3>3. Distinct(order')
      BY <1>2, <1>3, <2>1, <3>1, AppendOne, SMTT(30) DEF Distinct, Listed
    <3> QED
      BY <1>1, <1>2, <2>1, <2>3, <3>2, <3>3, Zenon DEF ListInv, Stopped, Reverting, PatchSteps
  <2> QED
    BY <2>1, <2>2, <2>3, Zenon
<1>5. CASE RevertJump \/ RevertJumpsDone
  <2>1. pc = "unjump" /\ pc' \in {"unjump", "unload"} /\ segs' = segs
    BY <1>5, Zenon DEF RevertJump, RevertJumpsDone, Goto, process
  <2>2. order' = order /\ \A q : Listed(q)' <=> Listed(q)
    BY <2>1, OrderKept, Zenon
  <2> QED
    BY <1>1, <1>2, <2>1, <2>2, Zenon DEF ListInv, Stopped, Reverting, PatchSteps
<1>6. CASE Unload
  <2>1. /\ pc = "unload" /\ pc' \in {"unload", "resume"}
        /\ \A q \in Patches \ {p} : segs'[q] = segs[q]
        /\ pc' = "resume" => segs' = segs /\ segs[p] = {}
        /\ cmd.dry => segs[p] = {} /\ segs' = segs
    BY <1>2, <1>6, OrderlyCommands, Zenon DEF Unload, Goto, Fail, ListInv
  <2>2. CASE pc' = "unload" \/ cmd.op = "patch"
    <3>1. order' = order /\ \A q : Listed(q)' <=> Listed(q)
      BY <2>1, <2>2, Zenon DEF NextH, NextOrder, PatchDone, RevertDone, Listed
    <3> QED
      BY <1>1, <1>2, <2>1, <2>2, <3>1, Zenon DEF ListInv, Stopped, Reverting, PatchSteps
  <2>3. CASE pc' = "resume" /\ cmd.op = "revert"
    <3>1. Listed(p) /\ order[Len(order)] = p
      BY <2>1, <2>3, Zenon DEF ListInv, Reverting
    <3>2. Len(order) > 0 /\ \A k \in 1..Len(order) : order[k] = p => k = Len(order)
      BY <1>3, <3>1 DEF Listed, Distinct
    <3>3. order' = Stack!Without(order, Len(order))
      BY <2>1, <2>3, <3>1, <3>2, Zenon DEF NextH, NextOrder, PatchDone, RevertDone
    <3>4. /\ order' \in Seq(Patches) /\ Len(order') = Len(order) - 1
          /\ \A k \in 1..(Len(order) - 1) : order'[k] = order[k]
      BY <1>3, <3>2, <3>3, RemoveLast, Zenon
    <3>5. \A q : Listed(q)' <=> Listed(q) /\ q # p
      <4>1. /\ Len(order) \notin 1..(Len(order) - 1)
            /\ \A k : k \in 1..Len(order) <=> k \in 1..(Len(order) - 1) \/ k = Len(order)
        BY <1>3, <3>2
      <4> QED
        BY <3>1, <3>2, <3>4, <4>1, Zenon DEF Listed
    <3>6. Distinct(order')
      BY <1>3, <3>4 DEF Distinct
    <3> QED
      BY <1>1, <1>2, <2>1, <2>3, <3>4, <3>5, <3>6, Zenon DEF ListInv, Stopped, Reverting, PatchSteps
  <2> QED
    BY <1>2, <2>1, <2>2, <2>3, Zenon
<1> QED
  BY <1>4, <1>5, <1>6, Zenon

(* Every step keeps the list in step with the mappings. *)
LEMMA ListStep ==
  ASSUME Orderly, Background, ListInv, [NextH]_<<vars, order, view>>
  PROVE  ListInv'
<1>1. CASE UNCHANGED <<vars, order, view>>
  BY <1>1, Zenon DEF ListInv, Listed, Stopped, Reverting, vars, process, nsb
<1>2. CASE NextH
  <2>1. ~Crash
    BY OrderlyCommands, Zenon DEF Crash
  <2>2. Next
    BY <1>2, Zenon DEF NextH
  <2> QED
    BY <1>2, <2>1, <2>2, ListStartStop, ListLoad, ListEnd, Zenon DEF Next, NsbStep
<1> QED
  BY <1>1, <1>2, Zenon

-----------------------------------------------------------------------------
(* The order of the addresses.                                             *)

(* Before a patch is placed, the holes for it are where it fits beside all *)
(* applied patches.                                                        *)
LEMMA HolesBeside ==
  ASSUME Background, ListInv, pc = "pin", NEW b \in 1..N
  PROVE  b \in Holes(cmd.p) <=> FitsBeside(base, order, Len(order), cmd.p, b)
<1>1. order \in Seq(Patches) /\ \A q \in Patches : Listed(q) <=> segs[q] # {}
  BY Zenon DEF ListInv
<1>2. ASSUME NEW q \in Patches, segs[q] # {}
      PROVE  Cells(q) = Room(base, q)
  <2>1. segs[q] = 0..(Size[q] - 1)
    BY <1>2, Zenon DEF Background, WholeInv, InWork, Whole
  <2>2. base[q] \in Nat /\ Size[q] \in Nat
    BY ConstantsAssumption DEF Background, TypeInv, TypeOK
  <2>3. Cells(q) = {base[q] + k : k \in 0..(Size[q] - 1)}
    BY <2>1, Zenon DEF Cells
  <2>4. \A c \in base[q]..(base[q] + Size[q] - 1) :
          c - base[q] \in 0..(Size[q] - 1) /\ c = base[q] + (c - base[q])
    BY <2>2
  <2> QED
    BY <2>2, <2>3, <2>4 DEF Room
<1>3. ASSUME NEW q \in Patches, segs[q] = {}
      PROVE  Cells(q) = {}
  BY <1>3, Zenon DEF Cells
<1>4. \A c : c \in Occupied <=> c \in Busy \/ \E j \in 1..Len(order) : c \in Room(base, order[j])
  <2>1. \A j \in 1..Len(order) : order[j] \in Patches /\ segs[order[j]] # {}
    BY <1>1 DEF Listed
  <2>2. \A q \in Patches : segs[q] # {} => \E j \in 1..Len(order) : order[j] = q
    BY <1>1, Zenon DEF Listed
  <2>3. \A q \in Patches : \A c : c \in Cells(q) <=> segs[q] # {} /\ c \in Room(base, q)
    BY <1>2, <1>3, Zenon
  <2>4. \A c : c \in Occupied <=> c \in Busy \/ \E q \in Patches : c \in Cells(q)
    BY Zenon DEF Occupied
  <2> QED
    BY <2>1, <2>2, <2>3, <2>4, ZenonT(30)
<1> QED
  BY <1>4, Zenon DEF Holes, FitsBeside

(* A patch is placed above all others. *)
LEMMA OrderPin ==
  ASSUME Orderly, Background, ListInv, OrderInv, NextH, PinPatch
  PROVE  OrderInv'
<1> DEFINE p == cmd.p
<1>1. /\ pc = "pin" /\ cmd' = cmd /\ p \in Patches /\ ~Listed(p)
      /\ order \in Seq(Patches) /\ base \in [Patches -> 0..N]
      /\ Ascending(base, order)
  BY CommandFields, Zenon
  DEF PinPatch, Background, TypeInv, TypeOK, ListInv, OrderInv, PatchSteps
<1>2. order' = order
  BY <1>1, OrderKept, Zenon
<1>3. CASE base' = base /\ pc' = "resume"
  BY <1>1, <1>2, <1>3, Zenon DEF OrderInv, PlacedSteps
<1>4. ASSUME NEW b \in Holes(p), \A c \in Holes(p) : b <= c,
             base' = [base EXCEPT ![p] = b]
      PROVE  OrderInv'
  <2>1. \A j \in 1..Len(order) : order[j] # p
    BY <1>1, Zenon DEF Listed
  <2>2. /\ b \in 1..N
        /\ base' \in [Patches -> 0..N] /\ base'[p] = b
        /\ \A j \in 1..Len(order) : base'[order[j]] = base[order[j]]
    BY <1>1, <1>4, <2>1 DEF Holes
  <2>3. Ascending(base', order)
    <3>1. Len(order) <= Len(order)
      BY <1>1
    <3> QED
      BY <1>1, <2>2, <3>1, AscendingFront, Zenon
  <2>4. \A q, c : FitsBeside(base', order, Len(order), q, c)
                    <=> FitsBeside(base, order, Len(order), q, c)
    <3>1. Len(order) \in Nat
      BY <1>1
    <3> QED
      BY <1>1, <2>2, <3>1, SameFront, Zenon
  <2>5. \A c \in 1..N : c \in Holes(p) <=> FitsBeside(base', order, Len(order), p, c)
    BY <1>1, <2>4, HolesBeside, Zenon
  <2>6. /\ FitsBeside(base', order, Len(order), p, base'[p])
        /\ \A c \in 1..N : FitsBeside(base', order, Len(order), p, c) => base'[p] <= c
    BY <1>4, <2>2, <2>5, ZenonT(30)
  <2>7. Ascending(base', Append(order, p))
    BY <1>1, <2>2, <2>3, <2>6, AscendingAppend, ZenonT(30) DEF Orderly
  <2> QED
    BY <1>1, <1>2, <2>3, <2>7, Zenon DEF OrderInv
<1> QED
  BY <1>3, <1>4, Zenon DEF PinPatch, Goto, Fail

(* Every step keeps the list in the order of the addresses. *)
LEMMA OrderStep ==
  ASSUME Orderly, Background, ListInv, OrderInv, [NextH]_<<vars, order, view>>
  PROVE  OrderInv'
<1>1. order \in Seq(Patches) /\ Ascending(base, order)
  BY Zenon DEF ListInv, OrderInv
<1>2. CASE UNCHANGED <<vars, order, view>>
  BY <1>2, Zenon DEF OrderInv, vars, process, nsb
<1>3. ASSUME order' = order, base' = base,
             pc' \in PlacedSteps => pc \in PlacedSteps /\ cmd' = cmd
      PROVE  OrderInv'
  BY <1>3, Zenon DEF OrderInv
<1>4. ASSUME NextH, pc' # "resume", base' = base,
             pc' \in PlacedSteps => pc \in PlacedSteps /\ cmd' = cmd
      PROVE  OrderInv'
  BY <1>3, <1>4, OrderKept, Zenon
<1>5. CASE NextH /\ ProcessStep
  <2>1. UNCHANGED <<base, pc, cmd>> /\ pc \in {"idle", "suspend"}
    BY <1>5, Zenon DEF ProcessStep, Call, Return, Dlclose, Dlopen, nsb, Stopped
  <2> QED
    BY <1>4, <1>5, <2>1, Zenon
<1>6. CASE NextH /\ ((\E c \in Commands : Start(c)) \/ Suspend \/ SuspendFails \/ Resume
                     \/ RevertJump \/ RevertJumpsDone)
  <2>1. base' = base /\ pc' \in {"suspend", "prepare", "unjump", "unload", "idle"}
    BY <1>6, Zenon DEF Start, Suspend, SuspendFails, Resume, Exit, Goto, process,
                RevertJump, RevertJumpsDone
  <2>2. pc' # "resume" /\ pc' \notin PlacedSteps
    BY <2>1, Zenon DEF PlacedSteps
  <2> QED
    BY <1>4, <1>6, <2>1, <2>2, ZenonT(30)
<1>7. CASE NextH /\ (PreparePatch \/ MmapManual \/ RollbackManual \/ MmapService
                     \/ LinkPatch \/ TuneJumps)
  <2>1. /\ pc \in {"prepare", "mmap", "rollback", "link", "tune"}
        /\ UNCHANGED <<base, cmd>>
        /\ pc = "prepare" => pc' \in {"pin", "resume"}
    BY <1>7, Zenon
    DEF PreparePatch, MmapManual, RollbackManual, MmapService, LinkPatch, TuneJumps,
        Goto, Fail, process
  <2>2. order' = order
    BY <1>7, <2>1, OrderKept, Zenon
  <2>3. pc' \in PlacedSteps => pc \in PlacedSteps
    BY <2>1, Zenon DEF PlacedSteps
  <2> QED
    BY <1>3, <2>1, <2>2, <2>3, ZenonT(30)
<1>8. CASE NextH /\ (ApplyJump \/ Unload)
  <2>1. /\ pc \in {"jump", "unload"} /\ UNCHANGED <<base, cmd>>
        /\ pc' \in {pc, "resume"}
    BY <1>8, Zenon DEF ApplyJump, Unload, Goto, Fail
  <2>2. \/ order' = order
        \/ order' = Append(order, cmd.p) /\ pc = "jump" /\ pc' = "resume"
        \/ order' = Stack!Without(order, Len(order)) /\ Len(order) > 0 /\ pc' = "resume"
    BY <1>8, OrderChange, Zenon
  <2>3. CASE order' = order
    <3>1. pc' \in PlacedSteps => pc \in PlacedSteps
      BY <2>1, Zenon DEF PlacedSteps
    <3> QED
      BY <1>3, <2>1, <2>3, <3>1, Zenon
  <2>4. CASE pc' = "resume" /\ Ascending(base, order')
    BY <2>1, <2>4, Zenon DEF OrderInv, PlacedSteps
  <2>5. CASE order' = Append(order, cmd.p) /\ pc = "jump" /\ pc' = "resume"
    BY <2>4, <2>5, Zenon DEF OrderInv, PlacedSteps
  <2>6. CASE order' = Stack!Without(order, Len(order)) /\ Len(order) > 0 /\ pc' = "resume"
    <3>1. /\ order' \in Seq(Patches) /\ Len(order') = Len(order) - 1
          /\ \A k \in 1..(Len(order) - 1) : order'[k] = order[k]
      BY <1>1, <2>6, RemoveLast, Zenon
    <3>2. Len(order') <= Len(order) /\ \A k \in 1..Len(order') : order'[k] = order[k]
      BY <1>1, <3>1
    <3>3. Ascending(base, order')
      BY <1>1, <3>1, <3>2, AscendingFront, Zenon
    <3> QED
      BY <2>4, <2>6, <3>3, Zenon
  <2> QED
    BY <2>2, <2>3, <2>5, <2>6, Zenon
<1>9. ~Crash
  BY OrderlyCommands, Zenon DEF Crash
<1> QED
  <2>1. CASE NextH
    <3>1. Next
      BY <2>1, Zenon DEF NextH
    <3>2. CASE PinPatch
      BY <2>1, <3>2, OrderPin, Zenon
    <3> QED
      BY <1>5, <1>6, <1>7, <1>8, <1>9, <2>1, <3>1, <3>2, Zenon DEF Next, NsbStep
  <2> QED
    BY <1>2, <2>1, Zenon

-----------------------------------------------------------------------------
(* The entries of the functions.                                           *)

(* Between the loops every function leads to the last patch. *)
Settled == \A f \in Funcs : LeadsTo(code[f], base, order, Len(order), f)

(* That is what CodeInv says there. *)
LEMMA CodeSettled ==
  ASSUME CodeInv, ~Reverting, pc # "jump" \/ cmd.dry
  PROVE  Settled
BY Zenon DEF CodeInv, Settled

(* Steps that write no code and leave the list alone. *)
LEMMA CodeQuiet ==
  ASSUME ListInv, Settled, order' = order, code' = code,
         \A k \in 1..Len(order) : base'[order[k]] = base[order[k]],
         pc' \in {"jump", "unjump"} => i' = 1 \/ (pc' = "jump" /\ cmd'.dry),
         ~(pc' = "unload" /\ cmd'.op = "revert")
  PROVE  CodeInv'
<1>1. order \in Seq(Patches) /\ Len(order) \in Nat
  BY DEF ListInv
<1>2. \A f \in Funcs : LeadsTo(code'[f], base', order', Len(order'), f)
  BY <1>1, SameFront, Zenon DEF Settled
<1>3. i' = 1 => \A f : ~Past(f)'
  BY DEF Past
<1> QED
  BY <1>2, <1>3, Zenon DEF CodeInv, Reverting

(* Nothing is written before and after the two loops, and a patch that is  *)
(* placed is not in the list.                                              *)
LEMMA CodeStop ==
  ASSUME Orderly, Background, ListInv, CodeInv, NextH,
         \/ ProcessStep \/ \E c \in Commands : Start(c)
         \/ Suspend \/ SuspendFails \/ Resume \/ PreparePatch
         \/ PinPatch \/ MmapManual \/ RollbackManual \/ MmapService
         \/ LinkPatch \/ TuneJumps
  PROVE  CodeInv'
<1>1. /\ pc \in {"idle", "suspend", "resume", "prepare", "pin", "mmap", "rollback",
                 "link", "tune"}
      /\ code' = code
  <2>1. CASE ProcessStep
    <3>1. PICK t \in Threads : Return(t) \/ \E f \in Funcs : Call(t, f)
      BY <2>1, Zenon DEF ProcessStep, Orderly
    <3> QED
      BY <3>1, Zenon DEF Call, Return, Stopped
  <2> QED
    BY <2>1, Zenon
    DEF Start, Suspend, SuspendFails, Resume, PreparePatch, PinPatch, MmapManual,
        RollbackManual, MmapService, LinkPatch, TuneJumps, process
<1>2. order' = order
  BY <1>1, OrderKept, Zenon
<1>3. Settled
  BY <1>1, CodeSettled, Zenon DEF Reverting
<1>4. \A k \in 1..Len(order) : base'[order[k]] = base[order[k]]
  <2>1. CASE PinPatch
    <3>1. pc = "pin" /\ ~Listed(cmd.p) /\ order \in Seq(Patches)
      BY <2>1, Zenon DEF PinPatch, ListInv, PatchSteps
    <3>2. \A k \in 1..Len(order) : order[k] # cmd.p /\ order[k] \in Patches
      BY <3>1 DEF Listed
    <3>3. base \in [Patches -> 0..N]
      BY Zenon DEF Background, TypeInv, TypeOK
    <3> QED
      BY <2>1, <3>2, <3>3, Zenon DEF PinPatch
  <2>2. CASE ~PinPatch
    <3>1. base' = base
      BY <2>2, Zenon
      DEF ProcessStep, Call, Return, Dlclose, Dlopen, Start, Suspend, SuspendFails,
          Resume, PreparePatch, MmapManual, RollbackManual, MmapService, LinkPatch,
          TuneJumps, process
    <3> QED
      BY <3>1, Zenon
  <2> QED
    BY <2>1, <2>2, Zenon
<1>5. pc' \in {"jump", "unjump"} => i' = 1
  <2>1. CASE Suspend \/ TuneJumps
    BY <2>1, Zenon DEF Suspend, TuneJumps
  <2>2. CASE ProcessStep
    BY <1>1, <2>2, Zenon DEF ProcessStep, Call, Return, Dlclose, Dlopen, nsb
  <2> QED
    BY <2>1, <2>2, Zenon
    DEF Start, SuspendFails, Resume, PreparePatch, PinPatch, MmapManual, RollbackManual,
        MmapService, LinkPatch, Goto, Exit, Fail
<1>6. ~(pc' = "unload" /\ cmd'.op = "revert")
  <2>1. CASE LinkPatch
    <3>1. cmd' = cmd /\ cmd.op = "patch"
      BY <2>1, Zenon DEF LinkPatch, Background, RevertInv, PatchSteps
    <3> QED
      BY <3>1, Zenon
  <2>2. CASE ProcessStep
    BY <1>1, <2>2, Zenon DEF ProcessStep, Call, Return, Dlclose, Dlopen, nsb
  <2> QED
    BY <1>1, <2>1, <2>2, Zenon
    DEF Start, Suspend, SuspendFails, Resume, PreparePatch, PinPatch, MmapManual,
        RollbackManual, MmapService, TuneJumps, Goto, Exit, Fail
<1> QED
  BY <1>2, <1>1, <1>3, <1>4, <1>5, <1>6, CodeQuiet, Zenon

(* write_func_jump, one func_jump after the other, and their end. *)
LEMMA CodeApply ==
  ASSUME Orderly, Background, ListInv, CodeInv, NextH, ApplyJump
  PROVE  CodeInv'
<1> DEFINE p == cmd.p
<1>1. /\ pc = "jump" /\ p \in Patches /\ UNCHANGED <<base, cmd>>
      /\ order \in Seq(Patches) /\ Len(order) \in Nat /\ i \in Int /\ i >= 1
      /\ code \in [Funcs -> {Zeroed, Original} \union 1..N]
      /\ Jumps[p] \in Seq(Funcs) /\ tuned[p] = Len(Jumps[p]) /\ cmd.dry \in BOOLEAN
      /\ ~Reverting
  <2>1. pc = "jump" /\ UNCHANGED <<base, cmd>>
    BY Zenon DEF ApplyJump
  <2>2. p \in Patches /\ cmd.dry \in BOOLEAN
    BY <2>1, CommandFields, Zenon DEF Background, TypeInv, TypeOK
  <2>3. /\ i \in Int /\ i >= 1 /\ tuned[p] = Len(Jumps[p])
        /\ code \in [Funcs -> {Zeroed, Original} \union 1..N]
    BY <2>1, Zenon DEF Background, TypeInv, TypeOK, JumpInv
  <2>4. order \in Seq(Patches) /\ Len(order) \in Nat /\ Jumps[p] \in Seq(Funcs)
    BY <2>2, ConstantsAssumption DEF ListInv
  <2> QED
    BY <2>1, <2>2, <2>3, <2>4, Zenon DEF Reverting
<1>2. \A f \in Funcs : ~cmd.dry =>
        IF Past(f) THEN code[f] = base[p] ELSE LeadsTo(code[f], base, order, Len(order), f)
  BY <1>1, Zenon DEF CodeInv
<1>3. CASE cmd.dry
  <2>1. /\ code' = code /\ pc' \in {"jump", "resume"}
    BY <1>3, Zenon DEF ApplyJump, Goto
  <2>2. order' = order
    BY <1>1, <1>3, Zenon DEF NextH, NextOrder, PatchDone, RevertDone
  <2>3. Settled
    BY <1>1, <1>3, CodeSettled, Zenon
  <2> QED
    BY <1>1, <1>3, <2>1, <2>2, <2>3, CodeQuiet, Zenon
<1>4. CASE ~cmd.dry /\ i <= Len(Jumps[p])
  <2> DEFINE f == Jumps[p][i]
  <2>1. code' = [code EXCEPT ![f] = base[p]] /\ i' = i + 1 /\ pc' = "jump"
    BY <1>1, <1>4, OrderlyCommands DEF ApplyJump
  <2>2. order' = order
    BY <2>1, OrderKept, Zenon
  <2>3. f \in Funcs /\ i \in 1..Len(Jumps[p])
    BY <1>1, <1>4
  <2>4. \A g : Past(g)' <=> Past(g) \/ g = f
    <3>1. \A j \in 1..Len(Jumps[p]) : j < i' <=> j < i \/ j = i
      BY <1>1, <2>1, SMTT(30)
    <3> QED
      BY <1>1, <2>3, <3>1, Zenon DEF Past
  <2>5. \A g \in Funcs : code'[g] = IF g = f THEN base[p] ELSE code[g]
    BY <1>1, <2>1, <2>3, Zenon
  <2> QED
    BY <1>1, <1>2, <1>4, <2>1, <2>2, <2>4, <2>5, ZenonT(30) DEF CodeInv, Reverting
<1>5. CASE ~cmd.dry /\ i > Len(Jumps[p])
  <2>1. code' = code /\ pc' = "resume"
    BY <1>1, <1>5, SMTT(30) DEF ApplyJump, Goto
  <2>2. order' = Append(order, p)
    BY <1>1, <1>5, <2>1, Zenon DEF NextH, NextOrder, PatchDone
  <2> DEFINE n == Len(order) + 1
  <2>3. /\ order' \in Seq(Patches) /\ Len(order') = n /\ order'[n] = p
        /\ \A k \in 1..Len(order) : order'[k] = order[k]
        /\ n \in Nat \ {0} /\ n - 1 = Len(order)
    BY <1>1, <2>2, AppendOne
  <2> HIDE DEF n
  <2>4. ASSUME NEW f \in Funcs PROVE LeadsTo(code[f], base, order', n, f)
    <3>1. CASE f \in JumpSet(p)
      <4>1. Past(f)
        BY <1>1, <1>5, <3>1, SMTT(30) DEF Past, JumpSet
      <4>2. code[f] = base[order'[n]]
        BY <1>2, <1>5, <2>3, <4>1, Zenon
      <4> QED
        BY <2>3, <3>1, <4>2, LeadsLast, Zenon
    <3>2. CASE f \notin JumpSet(p)
      <4>1. ~Past(f)
        BY <3>2, Zenon DEF Past, JumpSet
      <4>2. LeadsTo(code[f], base, order, Len(order), f)
        BY <1>2, <1>5, <4>1, Zenon
      <4>3. LeadsTo(code[f], base, order', Len(order), f)
        BY <1>1, <2>3, <4>2, SameFront, ZenonT(30)
      <4>4. LeadsTo(code[f], base, order', n - 1, f)
        BY <2>3, <4>3, Zenon
      <4> QED
        BY <2>3, <3>2, <4>4, LeadsSkip, Zenon
    <3> QED
      BY <3>1, <3>2, Zenon
  <2> QED
    BY <1>1, <2>1, <2>3, <2>4, ZenonT(30) DEF CodeInv, Reverting
<1> QED
  BY <1>1, <1>3, <1>4, <1>5

(* find_previous_func_jump looks at addresses; as they ascend, the nearest *)
(* patch below the last one that replaces f is the one applied before it.  *)
LEMMA PreviousIsLatest ==
  ASSUME Background, ListInv, OrderInv, pc = "unjump", NEW f \in JumpSet(cmd.p)
  PROVE  /\ Previous(cmd.p, f) = {} => LeadsTo(Original, base, order, Len(order) - 1, f)
         /\ \A q \in Previous(cmd.p, f) :
              (\A r \in Previous(cmd.p, f) : base[r] <= base[q]) =>
                LeadsTo(base[q], base, order, Len(order) - 1, f)
<1> DEFINE p == cmd.p
           n == Len(order)
<1>1. /\ p \in Patches /\ order \in Seq(Patches) /\ Listed(p) /\ order[n] = p
      /\ base \in [Patches -> 0..N] /\ Ascending(base, order)
      /\ \A q \in Patches : tuned[q] = Len(Jumps[q])
      /\ \A q \in Patches : Listed(q) <=> segs[q] # {}
      /\ loaded = Libs
  <2>1. p \in Patches /\ base \in [Patches -> 0..N]
    BY CommandFields, Zenon DEF Background, TypeInv, TypeOK
  <2> QED
    BY <2>1, Zenon DEF ListInv, OrderInv, Reverting, Stopped
<1>2. n \in Nat \ {0} /\ \A k : k \in 1..n <=> k \in 1..(n - 1) \/ k = n
  BY <1>1, SMTT(30) DEF Listed
<1>3. \A k \in 1..n : order[k] \in Patches /\ base[order[k]] \in Nat
  BY <1>1, ConstantsAssumption, SMTT(30)
<1>4. \A j, k \in 1..n : j < k => base[order[j]] < base[order[k]]
  BY <1>1, Zenon DEF Ascending
<1>5. \A q \in Patches : segs[q] # {} => 0 \in segs[q]
  <2>1. \A q \in Patches : segs[q] # {} => segs[q] = 0..(Size[q] - 1)
    BY Zenon DEF Background, WholeInv, InWork, Whole
  <2>2. \A q \in Patches : Size[q] \in Nat \ {0}
    BY ConstantsAssumption, Zenon
  <2>3. \A q \in Patches : 0 \in 0..(Size[q] - 1)
    BY <2>2
  <2> QED
    BY <2>1, <2>3, Zenon
<1>6. ASSUME NEW q \in Patches
      PROVE  q \in Previous(p, f) <=>
               \E k \in 1..(n - 1) : q = order[k] /\ f \in JumpSet(order[k])
  <2>1. ASSUME q \in Previous(p, f)
        PROVE  \E k \in 1..(n - 1) : q = order[k] /\ f \in JumpSet(order[k])
    <3>1. segs[q] # {} /\ base[q] < base[p] /\ f \in JumpSet(q)
      BY <2>1, Zenon DEF Previous, JumpSet
    <3>2. PICK k \in 1..n : order[k] = q
      BY <1>1, <3>1, Zenon DEF Listed
    <3>3. k # n
      BY <1>1, <1>3, <1>2, <3>1, <3>2, SMTT(30)
    <3> QED
      BY <1>2, <3>1, <3>2, <3>3, Zenon
  <2>2. ASSUME NEW k \in 1..(n - 1), q = order[k], f \in JumpSet(q)
        PROVE  q \in Previous(p, f)
    <3>1. k \in 1..n /\ n \in 1..n /\ k < n
      BY <1>2
    <3>2. segs[q] # {} /\ 0 \in segs[q] /\ base[q] < base[p]
      BY <1>1, <1>4, <1>5, <2>2, <3>1, Zenon DEF Listed
    <3>3. Target[q] = Target[p] /\ Target[q] \in loaded
      <4>1. Lib[f] = Target[q] /\ Lib[f] = Target[p]
        BY <1>1, <2>2, ConstantsAssumption, Zenon
      <4>2. Target[q] \in Libs
        BY ConstantsAssumption, Zenon
      <4> QED
        BY <1>1, <4>1, <4>2, Zenon
    <3>4. PICK j \in 1..Len(Jumps[q]) : Jumps[q][j] = f
      BY <2>2, Zenon DEF JumpSet
    <3>5. HasAddress(q, j)
      <4>1. Len(Jumps[q]) \in Nat
        BY ConstantsAssumption, SMTT(30)
      <4>2. j <= tuned[q] + 1
        BY <1>1, <4>1, SMTT(30)
      <4> QED
        BY <3>2, <3>3, <4>2, Zenon DEF HasAddress
    <3> QED
      BY <3>2, <3>3, <3>4, <3>5, Zenon DEF Previous
  <2> QED
    BY <2>1, <2>2, Zenon
<1>7. ASSUME Previous(p, f) = {}
      PROVE  LeadsTo(Original, base, order, n - 1, f)
  <2>1. \A k \in 1..(n - 1) : f \notin JumpSet(order[k])
    BY <1>2, <1>3, <1>6, <1>7, Zenon
  <2> QED
    BY <2>1, Zenon DEF LeadsTo, NoneReplaces
<1>8. ASSUME NEW q \in Previous(p, f), \A r \in Previous(p, f) : base[r] <= base[q]
      PROVE  LeadsTo(base[q], base, order, n - 1, f)
  <2>1. PICK k \in 1..(n - 1) : q = order[k] /\ f \in JumpSet(order[k])
    <3>1. q \in Patches
      BY Zenon DEF Previous
    <3> QED
      BY <1>6, <3>1, Zenon
  <2>2. ASSUME NEW j \in 1..(n - 1), f \in JumpSet(order[j])
        PROVE  j <= k
    <3>1. j \in 1..n /\ k \in 1..n
      BY <1>2, Zenon
    <3>2. order[j] \in Previous(p, f)
      BY <1>3, <1>6, <2>2, <3>1, Zenon
    <3>3. base[order[j]] <= base[order[k]]
      BY <1>8, <2>1, <3>2, Zenon
    <3>4. k < j => base[order[k]] < base[order[j]]
      BY <1>4, <3>1, Zenon
    <3> QED
      BY <1>3, <3>1, <3>3, <3>4
  <2>3. IsLatest(order, n - 1, f, k)
    BY <2>1, <2>2, Zenon DEF IsLatest
  <2> QED
    BY <2>1, <2>3, Zenon DEF LeadsTo
<1> QED
  BY <1>7, <1>8, Zenon

(* revert_func_jump, one func_jump after the other. *)
LEMMA CodeRevert ==
  ASSUME Orderly, Background, ListInv, OrderInv, CodeInv, NextH, RevertJump
  PROVE  CodeInv'
<1> DEFINE p == cmd.p
           f == Jumps[p][i]
           n == Len(order)
<1>1. pc = "unjump" /\ pc' = "unjump" /\ i' = i + 1 /\ UNCHANGED <<base, cmd>>
  BY OrderlyCommands, Zenon DEF RevertJump
<1>2. /\ p \in Patches /\ i \in 1..Len(Jumps[p]) /\ f \in Funcs /\ f \in JumpSet(p)
      /\ code \in [Funcs -> {Zeroed, Original} \union 1..N] /\ ~cmd.dry
  <2>1. p \in Patches /\ ~cmd.dry
    BY <1>1, CommandFields, OrderlyCommands, Zenon DEF Background, TypeInv, TypeOK, ListInv
  <2>2. i \in 1..Len(Jumps[p]) /\ Jumps[p] \in Seq(Funcs)
    <3>1. Jumps[p] \in Seq(Funcs)
      BY <2>1, ConstantsAssumption, Zenon
    <3>2. i <= Len(Jumps[p])
      BY Zenon DEF RevertJump
    <3>3. i \in Int /\ i >= 1
      BY <1>1, Zenon DEF Background, TypeInv, TypeOK
    <3> QED
      BY <3>1, <3>2, <3>3
  <2> QED
    BY <2>1, <2>2, SMTT(30) DEF Background, TypeInv, TypeOK, JumpSet
<1>3. /\ order \in Seq(Patches) /\ n \in Nat \ {0} /\ order[n] = p
      /\ base \in [Patches -> 0..N] /\ base[p] >= 1
      /\ \A k \in 1..(n - 1) : order[k] \in Patches /\ base[order[k]] < base[p]
  <2>1. order \in Seq(Patches) /\ Listed(p) /\ order[n] = p /\ segs[p] # {}
    BY <1>1, <1>2, Zenon DEF ListInv, Reverting
  <2>2. base \in [Patches -> 0..N] /\ base[p] >= 1
    BY <1>2, <2>1, Zenon DEF Background, TypeInv, TypeOK, PlaceInv
  <2>3. n \in Nat \ {0}
    <3>1. n \in Nat
      BY <2>1
    <3>2. \E k \in 1..n : order[k] = p
      BY <2>1, Zenon DEF Listed
    <3> QED
      BY <3>1, <3>2
  <2>4. \A k \in 1..(n - 1) : order[k] \in Patches /\ base[order[k]] < base[p]
    <3>1. \A k \in 1..(n - 1) : k \in 1..n /\ n \in 1..n /\ k < n
      BY <2>3
    <3>2. \A k \in 1..n : order[k] \in Patches
      BY <2>1
    <3> QED
      BY <2>1, <3>1, <3>2, Zenon DEF OrderInv, Ascending
  <2> QED
    BY <2>1, <2>2, <2>3, <2>4, Zenon
<1>4. order' = order
  BY <1>1, OrderKept, Zenon
<1>5. \A g \in Funcs : IF Past(g) THEN LeadsTo(code[g], base, order, n - 1, g)
                       ELSE LeadsTo(code[g], base, order, n, g)
  BY <1>1, Zenon DEF CodeInv, Reverting
<1>6. \A g : Past(g)' <=> Past(g) \/ g = f
  <2>1. \A j \in 1..Len(Jumps[p]) : j < i' <=> j < i \/ j = i
    BY <1>1, <1>2
  <2> QED
    BY <1>1, <1>2, <2>1, Zenon DEF Past
<1>7. Past(f) <=> code[f] # base[p]
  <2>1. LeadsTo(code[f], base, order, n - 1, f) => code[f] # base[p]
    <3>1. Original # base[p] /\ \A k \in 1..(n - 1) : base[order[k]] # base[p]
      BY <1>2, <1>3, SMTT(30) DEF Original
    <3> QED
      BY <3>1, Zenon DEF LeadsTo
  <2>2. LeadsTo(code[f], base, order, n, f) => code[f] = base[p]
    <3>1. f \in JumpSet(order[n]) /\ n \in Nat \ {0}
      BY <1>2, <1>3, Zenon
    <3> HIDE DEF f, n
    <3>2. LeadsTo(code[f], base, order, n, f) <=> code[f] = base[order[n]]
      BY <3>1, LeadsLast, SMTT(30)
    <3> QED
      BY <1>3, <3>2, Zenon
  <2> QED
    BY <1>2, <1>5, <2>1, <2>2, Zenon
<1>8. /\ LeadsTo(code'[f], base, order, n - 1, f)
      /\ \A g \in Funcs \ {f} : code'[g] = code[g]
  <2>1. CASE code[f] # base[p]
    <3>1. code' = code
      BY <2>1, OrderlyCommands, ZenonT(30) DEF RevertJump
    <3> QED
      BY <1>2, <1>5, <1>7, <2>1, <3>1, Zenon
  <2>2. CASE code[f] = base[p]
    <3>1. tuned[p] = Len(Jumps[p]) /\ Target[p] \in loaded
      BY <1>1, <1>2, Zenon DEF RevertJump, Background, JumpInv
    <3>2. i <= tuned[p] /\ i <= tuned[p] + 1
      <4>1. i \in Int /\ i <= Len(Jumps[p]) /\ Len(Jumps[p]) \in Int
        BY <1>2
      <4> QED
        BY <3>1, <4>1
    <3>3. HasAddress(p, i)
      <4>1. 0 \in segs[p]
        <5>1. segs[p] # {}
          BY <1>1, <1>2, Zenon DEF ListInv, Reverting
        <5>2. segs[p] = 0..(Size[p] - 1)
          BY <1>1, <1>2, <5>1, Zenon DEF Background, WholeInv, InWork, Whole
        <5>3. Size[p] \in Nat \ {0}
          BY <1>2, ConstantsAssumption, Zenon
        <5> QED
          BY <5>2, <5>3
      <4> QED
        BY <3>1, <3>2, <4>1, Zenon DEF HasAddress
    <3>4. \/ \E q \in Previous(p, f) : /\ \A r \in Previous(p, f) : base[r] <= base[q]
                                       /\ code' = [code EXCEPT ![f] = base[q]]
          \/ Previous(p, f) = {} /\ code' = [code EXCEPT ![f] = Original]
      BY <1>2, <2>2, <3>2, <3>3, OrderlyCommands, Zenon DEF RevertJump
    <3>5. \E v : code' = [code EXCEPT ![f] = v] /\ LeadsTo(v, base, order, n - 1, f)
      BY <1>1, <1>2, <3>4, PreviousIsLatest, Zenon
    <3> QED
      BY <1>2, <3>5, Zenon
  <2> QED
    BY <2>1, <2>2, Zenon
<1> QED
  BY <1>1, <1>4, <1>5, <1>6, <1>8, Zenon DEF CodeInv, Reverting

(* After the loop, and after the last segment is unmapped. *)
LEMMA CodeUnload ==
  ASSUME Orderly, Background, ListInv, CodeInv, NextH, RevertJumpsDone \/ Unload
  PROVE  CodeInv'
<1> DEFINE p == cmd.p
           n == Len(order)
<1>1. /\ pc \in {"unjump", "unload"} /\ UNCHANGED <<base, cmd, code>>
      /\ p \in Patches /\ cmd.op \in {"patch", "revert"} /\ order \in Seq(Patches)
  <2>1. pc \in {"unjump", "unload"} /\ UNCHANGED <<base, cmd, code>>
    BY Zenon DEF RevertJumpsDone, Unload, process
  <2> QED
    BY <2>1, CommandFields, Zenon DEF Background, TypeInv, TypeOK, ListInv
<1>2. CASE Unload /\ cmd.op = "patch"
  <2>1. pc = "unload" /\ pc' \in {"unload", "resume"}
    BY <1>2, Zenon DEF Unload, Goto, Fail
  <2>2. order' = order
    BY <1>2, <2>1, Zenon DEF NextH, NextOrder, PatchDone, RevertDone
  <2>3. Settled
    BY <1>2, <2>1, CodeSettled, Zenon DEF Reverting
  <2> QED
    BY <1>1, <1>2, <2>1, <2>2, <2>3, CodeQuiet, Zenon
<1>3. ASSUME Reverting
      PROVE  n \in Nat \ {0} /\ order[n] = p /\ \A k \in 1..n : order[k] = p => k = n
  BY <1>1, <1>3 DEF ListInv, Reverting, Listed, Distinct
<1>4. CASE RevertJumpsDone
  <2>1. pc = "unjump" /\ pc' = "unload" /\ cmd.op = "revert" /\ i > Len(Jumps[p])
    <3>1. pc = "unjump" /\ pc' = "unload" /\ (Target[p] \notin loaded \/ i > Len(Jumps[p]))
      BY <1>4, Zenon DEF RevertJumpsDone, Goto
    <3>2. Target[p] \in loaded
      BY <1>1, ConstantsAssumption, Zenon DEF ListInv
    <3> QED
      BY <3>1, <3>2, Zenon DEF ListInv
  <2>2. order' = order
    BY <2>1, OrderKept, Zenon
  <2>3. n \in Nat \ {0} /\ order[n] = p
    BY <1>3, <2>1, Zenon DEF Reverting
  <2> HIDE DEF n
  <2>4. ASSUME NEW f \in Funcs PROVE LeadsTo(code[f], base, order, n - 1, f)
    <3>1. IF Past(f) THEN LeadsTo(code[f], base, order, n - 1, f)
          ELSE LeadsTo(code[f], base, order, n, f)
      BY <2>1, Zenon DEF CodeInv, Reverting, n
    <3>2. CASE Past(f)
      BY <3>1, <3>2, Zenon
    <3>3. CASE ~Past(f)
      <4>1. \A j \in 1..Len(Jumps[p]) : j < i
        BY <1>1, <2>1, ConstantsAssumption DEF Background, TypeInv, TypeOK
      <4>2. f \notin JumpSet(order[n])
        BY <2>3, <3>3, <4>1, Zenon DEF Past, JumpSet
      <4> QED
        BY <2>3, <3>1, <3>3, <4>2, LeadsSkip, Zenon
    <3> QED
      BY <3>2, <3>3, Zenon
  <2> QED
    BY <1>1, <2>1, <2>2, <2>4, Zenon DEF CodeInv, Reverting, n
<1>5. CASE Unload /\ cmd.op = "revert"
  <2>1. pc = "unload" /\ pc' \in {"unload", "resume"}
    BY <1>5, Zenon DEF Unload, Goto, Fail
  <2>2. \A f \in Funcs : LeadsTo(code[f], base, order, n - 1, f)
    BY <1>5, <2>1, Zenon DEF CodeInv, Reverting
  <2>3. CASE pc' = "unload"
    <3>1. order' = order
      BY <2>3, OrderKept, Zenon
    <3> QED
      BY <1>1, <1>5, <2>2, <2>3, <3>1, Zenon DEF CodeInv, Reverting
  <2>4. CASE pc' = "resume"
    <3>1. /\ Reverting
          /\ RevertDone
          /\ Listed(p)
      BY <1>1, <1>5, <2>1, <2>4, OrderlyCommands, ZenonT(30)
      DEF Reverting, RevertDone, Unload, Goto, Fail, ListInv
    <3>2. n \in Nat \ {0} /\ \A k \in 1..n : order[k] = p => k = n
      BY <1>3, <3>1, Zenon
    <3>3. order' = Stack!Without(order, n)
      BY <2>1, <3>1, <3>2, Zenon DEF NextH, NextOrder, PatchDone
    <3>4. /\ order' \in Seq(Patches) /\ Len(order') = n - 1 /\ n - 1 \in Nat
          /\ \A k \in 1..(n - 1) : order'[k] = order[k]
      <4>1. Len(order) > 0 /\ n - 1 \in Nat
        BY <3>2
      <4> QED
        BY <1>1, <3>3, <4>1, RemoveLast, Zenon
    <3>5. \A f \in Funcs : LeadsTo(code[f], base, order', n - 1, f)
      BY <1>1, <2>2, <3>4, SameFront, Zenon
    <3> QED
      BY <1>1, <2>4, <3>4, <3>5, Zenon DEF CodeInv, Reverting
  <2> QED
    BY <2>1, <2>3, <2>4, Zenon
<1> QED
  BY <1>1, <1>2, <1>4, <1>5, Zenon

(* Every step keeps functions leading to the patches of the list. *)
LEMMA CodeStep ==
  ASSUME Orderly, Background, ListInv, OrderInv, CodeInv, [NextH]_<<vars, order, view>>
  PROVE  CodeInv'
<1>1. CASE UNCHANGED <<vars, order, view>>
  BY <1>1, Zenon DEF CodeInv, Past, Reverting, vars, process, nsb
<1>2. CASE NextH
  <2>1. ~Crash
    BY OrderlyCommands, Zenon DEF Crash
  <2>2. Next
    BY <1>2, Zenon DEF NextH
  <2> QED
    BY <1>2, <2>1, <2>2, CodeStop, CodeApply, CodeRevert, CodeUnload, Zenon
    DEF Next, NsbStep
<1> QED
  BY <1>1, <1>2, Zenon

-----------------------------------------------------------------------------
(* What the process sees when it runs.                                     *)

(* Outside of the loops the redirections are those of the last patches. *)
LEMMA RedirectIsLatest ==
  ASSUME Background, ListInv, Settled, pc \in {"idle", "suspend", "resume"}
  PROVE  /\ Redirect \in [Funcs -> Patches \union {None}]
         /\ LatestOf(order, Redirect)
<1> DEFINE n == Len(order)
<1>1. \A k \in 1..n : order[k] \in Patches /\ 0 \in segs[order[k]] /\ base[order[k]] >= 1
  <2>1. \A k \in 1..n : order[k] \in Patches /\ segs[order[k]] # {}
    BY SMTT(30) DEF ListInv, Listed
  <2>2. \A q \in Patches : segs[q] # {} => segs[q] = 0..(Size[q] - 1) /\ base[q] >= 1
    BY Zenon DEF Background, WholeInv, InWork, Whole, PlaceInv
  <2>3. \A q \in Patches : 0 \in 0..(Size[q] - 1)
    <3>1. \A q \in Patches : Size[q] \in Nat \ {0}
      BY ConstantsAssumption, Zenon
    <3> QED
      BY <3>1
  <2> QED
    BY <2>1, <2>2, <2>3, Zenon
<1>2. \A q, r \in Patches : 0 \in segs[q] /\ 0 \in segs[r] /\ base[q] = base[r] => q = r
  BY Zenon DEF Background, PlaceInv
<1>3. ASSUME NEW f \in Funcs
      PROVE  \/ NoneReplaces(order, n, f) /\ Redirect[f] = None
             \/ \E k \in 1..n : IsLatest(order, n, f, k) /\ Redirect[f] = order[k]
  <2>1. Redirect[f] = IF code[f] = Original THEN None
                      ELSE CHOOSE p \in Patches : 0 \in segs[p] /\ base[p] = code[f]
    BY Zenon DEF Redirect
  <2>2. CASE NoneReplaces(order, n, f) /\ code[f] = Original
    BY <2>1, <2>2, Zenon
  <2>3. ASSUME NEW k \in 1..n, IsLatest(order, n, f, k), code[f] = base[order[k]]
        PROVE  Redirect[f] = order[k]
    <3>1. code[f] # Original
      BY <1>1, <2>3 DEF Original
    <3> DEFINE c == CHOOSE p \in Patches : 0 \in segs[p] /\ base[p] = code[f]
    <3>2. c \in Patches /\ 0 \in segs[c] /\ base[c] = code[f]
      BY <1>1, <2>3, Zenon
    <3> HIDE DEF c
    <3>3. c = order[k]
      BY <1>1, <1>2, <2>3, <3>2, Zenon
    <3> QED
      BY <2>1, <3>1, <3>3, Zenon DEF c
  <2> QED
    BY <2>2, <2>3, Zenon DEF Settled, LeadsTo
<1>4. Redirect \in [Funcs -> Patches \union {None}]
  <2> DEFINE e(f) == IF code[f] = Original THEN None
                     ELSE CHOOSE p \in Patches : 0 \in segs[p] /\ base[p] = code[f]
  <2>1. Redirect = [f \in Funcs |-> e(f)]
    BY Zenon DEF Redirect
  <2>2. \A f \in Funcs : Redirect[f] = e(f)
    BY <2>1, Zenon
  <2> HIDE DEF e
  <2>3. \A f \in Funcs : e(f) \in Patches \union {None}
    BY <1>1, <1>3, <2>2, Zenon
  <2> QED
    BY <2>1, <2>3, Zenon
<1> QED
  BY <1>3, <1>4, Zenon DEF LatestOf

(* Whatever lets the process run changes neither code nor mappings. *)
LEMMA RunsOn ==
  ASSUME Orderly, NextH, ~Stopped'
  PROVE  /\ pc \in {"idle", "suspend", "resume"}
         /\ UNCHANGED <<code, segs, base, order>>
         /\ Redirect' = Redirect
<1>1. ~Crash /\ Next
  BY OrderlyCommands, Zenon DEF Crash, NextH
<1>2. pc' \in {"idle", "suspend"}
  BY Zenon DEF Stopped
<1>3. CASE ProcessStep
  <2>1. PICK t \in Threads : Return(t) \/ \E f \in Funcs : Call(t, f)
    BY <1>3, Zenon DEF ProcessStep, Orderly
  <2>2. pc \in {"idle", "suspend"} /\ UNCHANGED <<code, segs, base>>
    BY <2>1, Zenon DEF Call, Return, Stopped
  <2> QED
    BY <2>2, OrderKept DEF Redirect
<1>4. CASE (\E c \in Commands : Start(c)) \/ SuspendFails \/ Resume
  <2>1. pc \in {"idle", "suspend", "resume"} /\ UNCHANGED <<code, segs, base>>
    BY <1>4, Zenon DEF Start, SuspendFails, Resume, process
  <2> QED
    BY <2>1, OrderKept DEF Redirect
<1> QED
  BY <1>1, <1>2, <1>3, <1>4, Zenon
  DEF Next, NsbStep, Suspend, PreparePatch, PinPatch, MmapManual, RollbackManual,
      MmapService, LinkPatch, TuneJumps, ApplyJump, Unload, RevertJump,
      RevertJumpsDone, Goto, Fail

(* While the process is stopped it sees nothing, and when it runs on, what *)
(* the command did.                                                        *)
LEMMA ViewStep ==
  ASSUME Orderly, Background, HistoryInv, [NextH]_<<vars, order, view>>
  PROVE  ViewInv'
<1>1. ListInv /\ ViewInv
  BY Zenon DEF HistoryInv
<1>2. CASE UNCHANGED <<vars, order, view>>
  <2>1. Redirect' = Redirect
    BY <1>2 DEF Redirect, vars, process
  <2>2. UNCHANGED <<pc, cmd, order, view>>
    BY <1>2, Zenon DEF vars, nsb
  <2> QED
    BY <1>1, <2>1, <2>2, Zenon DEF ViewInv, Stopped
<1>3. CASE NextH /\ Stopped'
  <2>1. view' = view
    BY <1>3, Zenon DEF NextH
  <2>2. pc # "resume"
    <3>1. ~Crash /\ Next
      BY <1>3, OrderlyCommands, Zenon DEF Crash, NextH
    <3>2. pc' \notin {"idle", "suspend"}
      BY <1>3, Zenon DEF Stopped
    <3> QED
      BY <3>1, <3>2, Zenon
      DEF Next, NsbStep, ProcessStep, Call, Return, Dlclose, Dlopen, Stopped, Start,
          Suspend, SuspendFails, Resume, PreparePatch, PinPatch, MmapManual,
          RollbackManual, MmapService, LinkPatch, TuneJumps, ApplyJump, Unload,
          RevertJump, RevertJumpsDone, Exit, Goto
  <2>3. view.stack = order
    BY <1>1, <2>2, Zenon DEF ViewInv
  <2>4. pc \in {"jump", "unload"} => cmd' = cmd
    <3>1. ~Crash /\ Next
      BY <1>3, OrderlyCommands, Zenon DEF Crash, NextH
    <3> QED
      BY <3>1, Zenon
      DEF Next, NsbStep, ProcessStep, Call, Return, Dlclose, Dlopen, Stopped, Start,
          Suspend, SuspendFails, Resume, PreparePatch, PinPatch, MmapManual,
          RollbackManual, MmapService, LinkPatch, TuneJumps, ApplyJump, Unload,
          RevertJump, RevertJumpsDone
  <2>5. \/ view.stack = order'
        \/ pc' = "resume" /\ order' = Append(view.stack, cmd'.p)
        \/ pc' = "resume" /\ view.stack = Append(order', cmd'.p)
    <3>1. CASE order' = order
      BY <2>3, <3>1, Zenon
    <3>2. CASE order' = Append(order, cmd.p) /\ pc = "jump" /\ pc' = "resume"
      BY <2>3, <2>4, <3>2, Zenon
    <3>3. CASE /\ order' = Stack!Without(order, Len(order))
               /\ Len(order) > 0 /\ order[Len(order)] = cmd.p
               /\ pc = "unload" /\ pc' = "resume"
      <4>1. order = Append(order', order[Len(order)])
        BY <1>1, <3>3, RemoveLast, Zenon DEF ListInv
      <4> QED
        BY <2>3, <2>4, <3>3, <4>1, Zenon
    <3> QED
      BY <1>1, <1>3, <3>1, <3>2, <3>3, OrderChange, Zenon
  <2> QED
    BY <1>1, <1>3, <2>1, <2>5, ZenonT(30) DEF ViewInv
<1>4. CASE NextH /\ ~Stopped'
  <2>1. view' = [stack |-> order', redirect |-> Redirect']
    BY <1>4, Zenon DEF NextH
  <2>2. /\ pc \in {"idle", "suspend", "resume"}
        /\ order' = order /\ Redirect' = Redirect
    BY <1>4, RunsOn, Zenon
  <2>3. Settled
    BY <2>2, CodeSettled, Zenon DEF HistoryInv, Reverting
  <2>4. Redirect \in [Funcs -> Patches \union {None}] /\ LatestOf(order, Redirect)
    BY <1>1, <2>2, <2>3, RedirectIsLatest, Zenon
  <2>5. view'.stack = order' /\ view'.redirect = Redirect
    BY <2>1, <2>2, Zenon
  <2>6. order' \in Seq(Patches) /\ Distinct(order')
    BY <1>1, <2>2, Zenon DEF ListInv
  <2> QED
    BY <2>1, <2>2, <2>4, <2>5, <2>6, Zenon DEF ViewInv
<1> QED
  BY <1>2, <1>3, <1>4, Zenon

-----------------------------------------------------------------------------
(* A process that is not patched. *)
LEMMA HistoryInit ==
  ASSUME InitH PROVE Background /\ HistoryInv
<1>1. Init
  BY Zenon DEF InitH
<1>2. Background
  <2>1. RevertInv /\ WholeInv
    BY <1>1, Zenon DEF Init, RevertInv, PatchSteps, WholeInv
  <2> QED
    BY <1>1, <2>1, TypeInit, PlaceInit, JumpInit, Zenon DEF Background
<1>3. /\ order = <<>> /\ pc = "idle" /\ cmd = NoCommand /\ loaded = Libs
      /\ segs = [p \in Patches |-> {}] /\ code = [f \in Funcs |-> Original]
      /\ view = [stack |-> <<>>, redirect |-> [f \in Funcs |-> None]]
  BY <1>1, Zenon DEF InitH, Init
<1>4. Len(order) = 0 /\ order \in Seq(Patches) /\ 1..Len(order) = {}
  BY <1>3, SMTT(30)
<1>5. ListInv
  BY <1>3, <1>4, Zenon DEF ListInv, Distinct, Listed, PatchSteps, Reverting, Stopped, NoCommand
<1>6. OrderInv
  BY <1>3, <1>4, Zenon DEF OrderInv, Ascending, PlacedSteps
<1>7. CodeInv
  BY <1>3, <1>4, Zenon DEF CodeInv, Reverting, LeadsTo, NoneReplaces
<1>8. ViewInv
  <2>1. \A f \in Funcs : code[f] = Original
    BY <1>3, Zenon
  <2>2. Redirect = [f \in Funcs |-> None]
    BY <2>1, Zenon DEF Redirect
  <2>3. view.stack = order /\ view.redirect = [f \in Funcs |-> None]
    BY <1>3, Zenon
  <2>4. LatestOf(view.stack, view.redirect)
    BY <1>4, <2>3, Zenon DEF LatestOf, NoneReplaces
  <2> QED
    BY <1>3, <1>4, <2>2, <2>3, <2>4, Zenon DEF ViewInv, Distinct
<1> QED
  BY <1>2, <1>5, <1>6, <1>7, <1>8, Zenon DEF HistoryInv

(* The invariant is inductive. *)
LEMMA HistoryStep ==
  ASSUME Orderly
  PROVE  Background /\ HistoryInv /\ [NextH]_<<vars, order, view>> =>
           (Background /\ HistoryInv)'
<1> SUFFICES ASSUME Background, HistoryInv, [NextH]_<<vars, order, view>>
             PROVE  Background' /\ HistoryInv'
  BY Zenon
<1>1. ListInv' /\ OrderInv' /\ CodeInv' /\ ViewInv'
  BY ListStep, OrderStep, CodeStep, ViewStep, Zenon DEF HistoryInv
<1>2. [Next]_vars
  BY Zenon DEF NextH
<1>3. /\ "poke" \notin Faults /\ "tune" \notin Faults /\ "crash" \notin Faults
      /\ "munmap" \notin Faults
      /\ "mmap" \notin Faults \/ "plugin" \notin Modes
  BY OrderlyCommands, Zenon DEF Orderly
<1>4. TypeInv' /\ PlaceInv' /\ JumpInv' /\ RevertInv' /\ WholeInv'
  BY <1>2, <1>3, TypeStep, PlaceStep, JumpStep, RevertStep, WholeStep, Zenon DEF Background
<1> QED
  BY <1>1, <1>4, Zenon DEF HistoryInv, Background

(* A step of nsb or of the process is, for what the process can see, a     *)
(* patch applied, the last one reverted, or nothing.                       *)
LEMMA ViewImplements ==
  ASSUME Orderly, Background, HistoryInv, ViewInv', [NextH]_<<vars, order, view>>
  PROVE  [Stack!Next]_<<view.stack, view.redirect>>
<1> DEFINE s == view.stack
           r == view.redirect
<1>0. ListInv /\ ViewInv
  BY Zenon DEF HistoryInv
<1>1. CASE view' = view
  BY <1>1, Zenon
<1>2. CASE view' # view
  <2>1. NextH /\ ~Stopped'
    BY <1>2, Zenon DEF NextH
  <2>2. /\ pc \in {"idle", "suspend", "resume"}
        /\ view' = [stack |-> order, redirect |-> Redirect]
    <3>1. view' = [stack |-> order', redirect |-> Redirect']
      BY <2>1, Zenon DEF NextH
    <3> QED
      BY <2>1, <3>1, RunsOn, Zenon
  <2>3. pc = "resume"
    <3>1. ASSUME pc \in {"idle", "suspend"} PROVE FALSE
      <4>1. ~Stopped
        BY <3>1, Zenon DEF Stopped
      <4>2. view = [stack |-> order, redirect |-> Redirect]
        BY <1>0, <4>1, Zenon DEF ViewInv
      <4> QED
        BY <1>2, <2>2, <4>2, Zenon
    <3> QED
      BY <2>2, <3>1, Zenon
  <2>4. cmd.p \in Patches
    BY <2>3, CommandFields, Zenon DEF Background, TypeInv, TypeOK
  <2>5. /\ s \in Seq(Patches) /\ LatestOf(s, r) /\ Distinct(s)
        /\ order \in Seq(Patches) /\ LatestOf(order, r') /\ Distinct(order)
        /\ r \in [Funcs -> Patches \union {None}]
        /\ r' \in [Funcs -> Patches \union {None}]
        /\ s' = order
    <3>1. s' = order
      BY <2>2, Zenon
    <3>2. /\ s' \in Seq(Patches) /\ LatestOf(s', r') /\ Distinct(s')
          /\ r' \in [Funcs -> Patches \union {None}]
      BY Zenon DEF ViewInv
    <3> QED
      BY <1>0, <3>1, <3>2, Zenon DEF ViewInv
  <2> HIDE DEF s, r
  <2>6. CASE s = order
    <3>1. \A f \in Funcs : r'[f] = r[f]
      BY <2>5, <2>6, LatestIs, Zenon
    <3>2. r' = r
      BY <2>5, <3>1
    <3> QED
      BY <2>5, <2>6, <3>2, Zenon DEF s, r
  <2>7. CASE order = Append(s, cmd.p)
    <3>1. \A f \in Funcs : r'[f] = IF f \in JumpSet(cmd.p) THEN cmd.p ELSE r[f]
      <4>1. LatestOf(Append(s, cmd.p), r')
        BY <2>5, <2>7, Zenon
      <4> QED
        BY <2>4, <2>5, <4>1, LatestAppend
    <3>2. r' = [f \in Funcs |->
                 IF f \in [p \in Patches |-> JumpSet(p)][cmd.p] THEN cmd.p ELSE r[f]]
      BY <2>4, <2>5, <3>1, Zenon
    <3>3. cmd.p \notin Stack!Applied(s)
      <4>1. \A k \in 1..Len(s) : s[k] # cmd.p
        BY <2>4, <2>5, <2>7, AppendOne DEF Distinct
      <4> QED
        BY <4>1, Zenon DEF Stack!Applied
    <3>4. Stack!Apply(cmd.p)
      BY <2>5, <2>7, <3>2, <3>3, Zenon DEF Stack!Apply, s, r
    <3> QED
      BY <2>4, <3>4, Zenon DEF Stack!Next
  <2>8. CASE s = Append(order, cmd.p)
    <3>1. /\ Len(s) \in 1..Len(s) /\ s[Len(s)] = cmd.p
          /\ order = Stack!Without(s, Len(s))
      <4>1. Len(s) > 0 /\ Len(s) \in 1..Len(s) /\ s[Len(s)] = cmd.p
        BY <2>4, <2>5, <2>8, AppendOne
      <4>2. /\ Stack!Without(s, Len(s)) \in Seq(Patches)
            /\ Len(Stack!Without(s, Len(s))) = Len(s) - 1
            /\ \A k \in 1..(Len(s) - 1) : Stack!Without(s, Len(s))[k] = s[k]
        BY <2>5, <4>1, RemoveLast, Zenon
      <4>3. Len(order) = Len(s) - 1 /\ \A k \in 1..(Len(s) - 1) : order[k] = s[k]
        BY <2>4, <2>5, <2>8, AppendOne, SMTT(30)
      <4> QED
        BY <2>5, <4>1, <4>2, <4>3, SMTT(30)
    <3>2. \A f \in Funcs : r[f] = IF f \in JumpSet(cmd.p) THEN cmd.p ELSE r'[f]
      <4>1. LatestOf(Append(order, cmd.p), r)
        BY <2>5, <2>8, Zenon
      <4> QED
        BY <2>4, <2>5, <4>1, LatestAppend
    <3>3. \A f \in Funcs : r'[f] # cmd.p
      <4>1. \A k \in 1..Len(order) : order[k] # cmd.p
        BY <2>4, <2>5, <2>8, AppendOne, SMTT(30) DEF Distinct
      <4>2. None # cmd.p
        BY <2>4, ConstantsAssumption, Zenon
      <4>3. LatestOf(order, r')
        BY <2>5, Zenon
      <4>4. \A f \in Funcs : \/ r'[f] = None
                             \/ \E k \in 1..Len(order) : r'[f] = order[k]
        BY <4>3, Zenon DEF LatestOf
      <4> QED
        BY <4>1, <4>2, <4>4, Zenon
    <3>4. r' = [f \in Funcs |-> IF r[f] = cmd.p THEN Stack!Latest(order, f) ELSE r[f]]
      <4>1. \A f \in Funcs : r'[f] = Stack!Latest(order, f)
        BY <2>5, LatestIs, Zenon
      <4>2. \A f \in Funcs : r'[f] = IF r[f] = cmd.p THEN Stack!Latest(order, f) ELSE r[f]
        BY <3>2, <3>3, <4>1, Zenon
      <4> QED
        BY <2>5, <4>2, Zenon
    <3>5. Stack!Revert(cmd.p)
      <4>1. \E k \in 1..Len(s) : s[k] = cmd.p /\ s' = Stack!Without(s, k)
        BY <2>5, <3>1, Zenon
      <4>2. r' = [f \in Funcs |-> IF r[f] = cmd.p THEN Stack!Latest(s', f) ELSE r[f]]
        BY <2>5, <3>4, Zenon
      <4> QED
        BY <4>1, <4>2, Zenon DEF Stack!Revert, Stack!Without, s, r
    <3> QED
      BY <2>4, <3>5, ZenonT(30) DEF Stack!Next
  <2> QED
    BY <1>0, <2>6, <2>7, <2>8, Zenon DEF ViewInv, s
<1> QED
  BY <1>1, <1>2, Zenon

(* AtomicForTheProcess: when the order of the patches can be told from     *)
(* their addresses, what the process sees of nsb is PatchStack: whole      *)
(* patches applied and reverted in one step, whatever nsb does in between, *)
(* and nothing at all of a command that fails.                             *)
THEOREM ImplementsPatchStack ==
  ASSUME Orderly
  PROVE  SpecH => AtomicForTheProcess
<1>1. InitH => Stack!Init
  BY DEF InitH, Stack!Init
<1>2. /\ Background /\ HistoryInv /\ [NextH]_<<vars, order, view>> /\ (Background /\ HistoryInv)'
      => [Stack!Next]_<<view.stack, view.redirect>>
  BY ViewImplements, Zenon DEF HistoryInv
<1>3. InitH => Background /\ HistoryInv
  BY HistoryInit, Zenon
<1> QED
  BY <1>1, <1>2, <1>3, HistoryStep, PTL DEF SpecH, AtomicForTheProcess, Stack!Spec

(* LatestPatchRuns: then a function runs, whenever the process runs, the   *)
(* version of the patch applied last among those that replace it and are   *)
(* still applied: find_previous_func_jump goes by addresses and finds the  *)
(* one that was applied before.                                            *)
THEOREM RunsLatestPatch ==
  ASSUME Orderly
  PROVE  SpecH => []LatestPatchRuns
<1>1. Background /\ HistoryInv => LatestPatchRuns
  <2> SUFFICES ASSUME HistoryInv, ~Stopped, NEW f \in Funcs
               PROVE  Redirect[f] = Stack!Latest(order, f)
    BY ZenonT(30) DEF LatestPatchRuns
  <2>1. /\ order \in Seq(Patches) /\ LatestOf(view.stack, view.redirect)
        /\ view = [stack |-> order, redirect |-> Redirect]
    BY Zenon DEF HistoryInv, ViewInv, ListInv
  <2>2. LatestOf(order, Redirect)
    <3>1. view.stack = order /\ view.redirect = Redirect
      BY <2>1, Zenon
    <3> QED
      BY <2>1, <3>1, Zenon
  <2> QED
    BY <2>1, <2>2, LatestIs, Zenon
<1>2. InitH => Background /\ HistoryInv
  BY HistoryInit, Zenon
<1> QED
  BY <1>1, <1>2, HistoryStep, PTL DEF SpecH

(* CheckReportsApplied: then what "nsb check" finds while no command is    *)
(* under way is a patch that is linked and none of whose functions runs    *)
(* its original code.                                                      *)
THEOREM CheckFindsAppliedPatches ==
  ASSUME Orderly
  PROVE  SpecH => []CheckReportsApplied
<1>1. Background /\ HistoryInv => CheckReportsApplied
  <2> SUFFICES ASSUME Background, HistoryInv, ~Stopped,
                      NEW p \in Patches, segs[p] # {}
               PROVE  bound[p] /\ \A f \in JumpSet(p) : code[f] # Original
    BY Zenon DEF CheckReportsApplied, check_process
  <2>1. pc \in {"idle", "suspend"}
    BY Zenon DEF Stopped, Background, TypeInv, TypeOK
  <2>2. bound[p]
    BY <2>1, Zenon DEF Background, WholeInv, InWork, Whole
  <2>3. Settled
    BY <2>1, CodeSettled, Zenon DEF HistoryInv, Reverting
  <2>4. PICK j \in 1..Len(order) : order[j] = p
    BY <2>1, Zenon DEF HistoryInv, ListInv, Listed
  <2>5. \A k \in 1..Len(order) : base[order[k]] >= 1
    BY <2>1, SMTT(30) DEF HistoryInv, ListInv, Listed, Background, PlaceInv
  <2>6. JumpSet(p) \subseteq Funcs
    BY ConstantsAssumption, SMTT(30) DEF JumpSet
  <2>7. ASSUME NEW f \in JumpSet(p) PROVE code[f] # Original
    <3>1. ~NoneReplaces(order, Len(order), f)
      BY <2>4, Zenon DEF NoneReplaces
    <3>2. PICK k \in 1..Len(order) : code[f] = base[order[k]]
      BY <2>3, <2>6, <3>1, Zenon DEF Settled, LeadsTo
    <3>3. base[order[k]] >= 1
      BY <2>5, Zenon
    <3> QED
      BY <3>2, <3>3, SMTT(30) DEF Original
  <2> QED
    BY <2>2, <2>7, Zenon
<1>2. InitH => Background /\ HistoryInv
  BY HistoryInit, Zenon
<1> QED
  BY <1>1, <1>2, HistoryStep, PTL DEF SpecH
=============================================================================
