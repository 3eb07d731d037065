--------------------------- MODULE ThreadStopProofs ---------------------------
(***************************************************************************)
(* Proofs about ThreadStop, for any number of threads and tries: what      *)
(* process_suspend promises when it returns, and when it sleeps.           *)
(*                                                                         *)
(* The argument: a thread at the end of the list that is seized means that *)
(* the whole list is seized (ListInv), so nothing that the last walk of    *)
(* /proc/<pid>/task returned can exit, so readdir passed over nothing      *)
(* (WalkInv), so every thread of the process is in the list.               *)
(***************************************************************************)
EXTENDS ThreadStop, SequenceTheorems, TLAPS

Dead == \A t \in Tids : task[t] # "run"

Positions == 1..Len(threads)

(* The list has no thread twice; what is seized comes before what is not;  *)
(* seized threads are held until the process is killed, and only they are. *)
ListInv ==
  /\ \A m, n \in Positions : threads[m].pid = threads[n].pid => m = n
  /\ \A m, n \in Positions : m < n /\ threads[n].seized => threads[m].seized
  /\ \A n \in Positions : task[threads[n].pid] # "none"
  /\ \A n \in Positions : threads[n].seized => Dead \/ threads[n].pid \in held
  /\ \A t \in held : /\ task[t] = "run"
                     /\ \E n \in Positions : threads[n].pid = t /\ threads[n].seized

(* What nsb has established at each of its steps. *)
StepInv ==
  /\ pc # "off" => try < Tries
  /\ pc # "collect" => walk = {}
  /\ pc = "collect" => \A t \in walk : \E n \in Positions : threads[n].pid = t
  /\ pc = "infect" => \A n \in Positions : n < k => threads[n].seized
  /\ pc \in {"check", "caught"} => \A t \in Tids : task[t] = "run" => t \in held
  /\ pc = "check" => \A n \in Positions : n < k => threads[n].pid \notin inside
  /\ pc = "caught" => \A n \in Positions : threads[n].pid \notin inside
  /\ pc \in {"off", "sleep"} => held = {}

(* Threads are created in order, and a walk that meets seized threads only *)
(* has passed over none.                                                   *)
WalkInv ==
  /\ \A t, u \in Tids : t < u /\ task[u] # "none" => task[t] # "none"
  /\ pc = "collect" /\ (\A n \in Positions : threads[n].seized) /\ ~Dead =>
       \A s \in walk, t \in Entries : t <= s => t \in walk

IInv == TypeOK /\ ListInv /\ StepInv /\ WalkInv

-----------------------------------------------------------------------------
(* The list is a sequence: its positions are numbers, its elements records. *)
LEMMA ListElements ==
  ASSUME TypeOK
  PROVE  /\ Len(threads) \in Nat
         /\ \A n \in Positions : /\ threads[n] \in [pid : Tids, seized : BOOLEAN]
                                 /\ threads[n].pid \in Tids
                                 /\ threads[n].seized \in BOOLEAN
<1> DEFINE R == [pid : Tids, seized : BOOLEAN]
<1>1. threads \in Seq(R)
  BY DEF TypeOK
<1> HIDE DEF R
<1>2. Len(threads) \in Nat /\ \A n \in Positions : threads[n] \in R
  BY <1>1, ElementOfSeq, LenProperties DEF Positions
<1> QED
  BY <1>2 DEF R

(* A process that runs, and no nsb. *)
LEMMA IInvInit == Init => IInv
<1> SUFFICES ASSUME Init PROVE IInv
  OBVIOUS
<1>1. TypeOK
  <2>1. threads \in Seq([pid : Tids, seized : BOOLEAN])
    BY EmptySeq DEF Init
  <2>2. task \in [Tids -> {"none", "run", "zombie", "gone"}]
    BY DEF Init
  <2>3. k \in Nat \ {0} /\ try \in 0..Tries
    BY BoundsAssumption DEF Init
  <2> QED
    BY <2>1, <2>2, <2>3, Zenon DEF Init, TypeOK
<1>2. Positions = {}
  BY DEF Init, Positions
<1>3. ListInv /\ StepInv
  BY <1>2 DEF Init, ListInv, StepInv
<1>4. WalkInv
  BY BoundsAssumption DEF Init, WalkInv, Tids, Leader
<1> QED
  BY <1>1, <1>3, <1>4 DEF IInv

-----------------------------------------------------------------------------
(* The steps of the process.  Once every thread is held only SIGKILL is    *)
(* left.                                                                   *)
LEMMA ProcessMove ==
  ASSUME IInv, NEW t \in Tids, Move(t)
  PROVE  IInv'
<1>1. /\ UNCHANGED <<task, jobstop, held, pc, threads, walk, k, try, ret>>
      /\ task[t] = "run" /\ t \notin held
      /\ inside' \in SUBSET Tids
  BY DEF Move, Runs, nsb, IInv, TypeOK
<1>2. pc \notin {"check", "caught"}
  BY <1>1 DEF IInv, StepInv
<1> QED
  BY <1>1, <1>2
  DEF IInv, TypeOK, ListInv, StepInv, WalkInv, Positions, Entries, Dead

LEMMA ProcessExitThread ==
  ASSUME IInv, NEW t \in Tids, ExitThread(t)
  PROVE  IInv'
<1>1. /\ UNCHANGED <<jobstop, held, pc, threads, walk, k, try, ret>>
      /\ task[t] = "run" /\ t \notin held
      /\ inside' \in SUBSET Tids
      /\ task' \in [Tids -> {"none", "run", "zombie", "gone"}]
      /\ task'[t] \in {"zombie", "gone"}
      /\ \A u \in Tids \ {t} : task'[u] = task[u]
  BY DEF ExitThread, Runs, nsb, IInv, TypeOK
<1>2. pc \notin {"check", "caught"}
  BY <1>1 DEF IInv, StepInv
<1>3. Len(threads) \in Nat /\ \A n \in Positions : threads[n].pid \in Tids
  BY ListElements DEF IInv
<1>4. TypeOK' /\ StepInv'
  BY <1>1, <1>2 DEF IInv, TypeOK, StepInv, Positions
<1>5. ListInv'
  <2>1. Dead => Dead'
    BY <1>1 DEF Dead
  <2> QED
    BY <1>1, <1>3, <2>1 DEF IInv, TypeOK, ListInv, Positions
<1>6. WalkInv'
  <2>1. ~Dead' => ~Dead
    BY <1>1 DEF Dead
  <2>2. \A u \in Entries' : u \in Entries
    BY <1>1 DEF Entries
  <2> QED
    BY <1>1, <2>1, <2>2 DEF IInv, WalkInv, Positions
<1> QED
  BY <1>4, <1>5, <1>6 DEF IInv

(* A new thread comes after all that a walk has returned. *)
LEMMA ProcessClone ==
  ASSUME IInv, NEW t \in Tids, NEW u \in Tids, Clone(t, u)
  PROVE  IInv'
<1>1. /\ UNCHANGED <<inside, jobstop, held, pc, threads, walk, k, try, ret>>
      /\ task[t] = "run" /\ t \notin held
      /\ task[u] = "none"
      /\ \A v \in 1..(u - 1) : task[v] # "none"
      /\ task' \in [Tids -> {"none", "run", "zombie", "gone"}]
      /\ task'[u] = "run"
      /\ \A v \in Tids \ {u} : task'[v] = task[v]
  BY DEF Clone, Runs, nsb, IInv, TypeOK
<1>2. pc \notin {"check", "caught"}
  BY <1>1 DEF IInv, StepInv
<1>3. /\ Len(threads) \in Nat
      /\ \A n \in Positions : threads[n].pid \in Tids /\ threads[n].seized \in BOOLEAN
      /\ ~Dead
  BY <1>1, ListElements DEF IInv, Dead
<1>4. TypeOK' /\ StepInv'
  BY <1>1, <1>2 DEF IInv, TypeOK, StepInv, Positions
<1>5. ListInv'
  BY <1>1, <1>3 DEF IInv, TypeOK, ListInv, Positions
<1>6. WalkInv'
  <2>1. \A v, w \in Tids : v < w /\ task'[w] # "none" => task'[v] # "none"
    BY <1>1, BoundsAssumption DEF IInv, WalkInv, Tids
  <2>2. ASSUME pc = "collect", \A n \in Positions : threads[n].seized,
               NEW s \in walk, NEW v \in Entries', v <= s
        PROVE  v \in walk
    <3>1. s \in Tids /\ task[s] # "none"
      BY <2>2, <1>3 DEF IInv, TypeOK, StepInv, ListInv
    <3>2. v # u
      BY <1>1, <2>2, <3>1, BoundsAssumption DEF IInv, WalkInv, Tids
    <3>3. v \in Entries
      BY <1>1, <2>2, <3>2 DEF Entries
    <3> QED
      BY <1>3, <2>2, <3>3 DEF IInv, WalkInv
  <2> QED
    BY <1>1, <2>1, <2>2 DEF WalkInv, Positions
<1> QED
  BY <1>4, <1>5, <1>6 DEF IInv

LEMMA ProcessKill ==
  ASSUME IInv, Kill
  PROVE  IInv'
<1>1. /\ UNCHANGED <<jobstop, pc, threads, walk, k, try, ret>>
      /\ inside' = {} /\ held' = {}
      /\ task' \in [Tids -> {"none", "run", "zombie", "gone"}]
      /\ \A t \in Tids : /\ task'[t] # "run"
                         /\ task'[t] = "none" <=> task[t] = "none"
  BY DEF Kill, nsb, IInv, TypeOK
<1>2. Len(threads) \in Nat /\ \A n \in Positions : threads[n].pid \in Tids
  BY ListElements DEF IInv
<1>3. Dead'
  BY <1>1 DEF Dead
<1> QED
  BY <1>1, <1>2, <1>3
  DEF IInv, TypeOK, ListInv, StepInv, WalkInv, Positions

LEMMA ProcessReap ==
  ASSUME IInv, Reap
  PROVE  IInv'
<1>1. /\ UNCHANGED <<inside, jobstop, held, pc, threads, walk, k, try, ret>>
      /\ task' \in [Tids -> {"none", "run", "zombie", "gone"}]
      /\ \A t \in Tids : /\ task[t] # "run" /\ task'[t] # "run"
                         /\ task'[t] = "none" <=> task[t] = "none"
  BY BoundsAssumption, Zenon DEF Reap, nsb, IInv, TypeOK
<1>2. Len(threads) \in Nat /\ \A n \in Positions : threads[n].pid \in Tids
  BY ListElements DEF IInv
<1>3. Dead' /\ held = {}
  BY <1>1 DEF Dead, IInv, TypeOK, ListInv
<1> QED
  BY <1>1, <1>2, <1>3
  DEF IInv, TypeOK, ListInv, StepInv, WalkInv, Positions

LEMMA ProcessKeepsIInv ==
  ASSUME IInv, ProcessStep
  PROVE  IInv'
<1>1. CASE SigStopCont
  BY <1>1
  DEF SigStopCont, nsb, IInv, TypeOK, ListInv, StepInv, WalkInv, Positions, Entries, Dead
<1> QED
  BY <1>1, ProcessMove, ProcessExitThread, ProcessClone, ProcessKill, ProcessReap
  DEF ProcessStep

-----------------------------------------------------------------------------
(* collect_thread adds at most one thread, at the tail, and not seized. *)
LEMMA CollectThread ==
  ASSUME TypeOK, NEW t \in Tids
  PROVE  \/ t \in Listed /\ collect_thread(t) = threads
         \/ /\ t \notin Listed
            /\ collect_thread(t) \in Seq([pid : Tids, seized : BOOLEAN])
            /\ Len(collect_thread(t)) = Len(threads) + 1
            /\ \A n \in Positions : collect_thread(t)[n] = threads[n]
            /\ collect_thread(t)[Len(threads) + 1] = [pid |-> t, seized |-> FALSE]
<1> DEFINE R == [pid : Tids, seized : BOOLEAN]
           r == [pid |-> t, seized |-> FALSE]
<1>1. threads \in Seq(R) /\ r \in R
  BY DEF TypeOK
<1> HIDE DEF R, r
<1>2. /\ Append(threads, r) \in Seq(R)
      /\ Len(Append(threads, r)) = Len(threads) + 1
      /\ \A n \in Positions : Append(threads, r)[n] = threads[n]
      /\ Append(threads, r)[Len(threads) + 1] = r
  BY <1>1, AppendProperties DEF Positions
<1>3. collect_thread(t) = IF t \in Listed THEN threads ELSE Append(threads, r)
  BY DEF collect_thread, r
<1> QED
  BY <1>2, <1>3, Zenon DEF R, r

(* One more entry: when all that is listed is seized, nothing returned by  *)
(* this walk is gone, so readdir returns the next entry.                   *)
LEMMA NsbCollectNext ==
  ASSUME IInv, CollectNext
  PROVE  IInv'
<1>1. PICK t \in Beyond :
        /\ MaySkip \/ \A s \in Beyond : t <= s
        /\ threads' = collect_thread(t)
        /\ walk' = walk \union {t}
        /\ pc = "collect" /\ pc' = "collect"
        /\ UNCHANGED <<task, inside, jobstop, held, k, try, ret>>
  BY DEF CollectNext, process
<1>2. t \in Tids /\ t \in Entries /\ task[t] # "none"
  BY DEF Beyond, Entries
<1>3. /\ Len(threads) \in Nat
      /\ \A n \in Positions : threads[n].pid \in Tids /\ threads[n].seized \in BOOLEAN
  BY ListElements DEF IInv
<1>4. Dead' <=> Dead
  BY <1>1 DEF Dead
<1>5. CASE t \in Listed /\ threads' = threads
  <2>1. TypeOK' /\ ListInv'
    BY <1>1, <1>2, <1>4, <1>5 DEF IInv, TypeOK, ListInv, Positions
  <2>2. StepInv'
    BY <1>1, <1>5 DEF IInv, StepInv, Listed, Positions
  <2>3. ASSUME \A n \in Positions : threads[n].seized, ~Dead,
               NEW s \in walk', NEW u \in Entries, u <= s
        PROVE  u \in walk'
    <3>1. ~MaySkip
      <4>1. ASSUME NEW w \in walk
            PROVE  w \in Entries
        <5>1. PICK n \in Positions : threads[n].pid = w
          BY <1>1 DEF IInv, StepInv
        <5> QED
          BY <1>3, <2>3, <5>1 DEF IInv, ListInv, Entries
      <4> QED
        BY <4>1 DEF MaySkip
    <3>2. \A w \in walk, v \in Entries : v <= w => v \in walk
      BY <1>1, <2>3 DEF IInv, WalkInv
    <3>3. CASE s \in walk
      BY <1>1, <2>3, <3>2, <3>3
    <3>4. CASE s = t /\ u \notin walk
      <4>1. u \in Beyond
        BY <3>2, <3>4, BoundsAssumption DEF Beyond, IInv, TypeOK, Tids, Entries
      <4>2. t <= u
        BY <1>1, <3>1, <4>1
      <4> QED
        BY <1>1, <1>2, <2>3, <3>4, <4>2 DEF Tids, Entries
    <3> QED
      BY <1>1, <3>3, <3>4
  <2>4. WalkInv'
    BY <1>1, <1>4, <1>5, <2>3 DEF IInv, WalkInv, Positions, Entries
  <2> QED
    BY <2>1, <2>2, <2>4 DEF IInv
<1>6. CASE /\ t \notin Listed
           /\ threads' \in Seq([pid : Tids, seized : BOOLEAN])
           /\ Len(threads') = Len(threads) + 1
           /\ \A n \in Positions : threads'[n] = threads[n]
           /\ threads'[Len(threads) + 1] = [pid |-> t, seized |-> FALSE]
  <2> DEFINE l == Len(threads) + 1
  <2>1. /\ Positions' = Positions \union {l} /\ l \in Positions'
        /\ threads'[l].pid = t /\ ~threads'[l].seized
        /\ \A n \in Positions : threads[n].pid # t
        /\ \A n \in Positions : n < l /\ n # l /\ threads'[n] = threads[n]
    BY <1>3, <1>6 DEF Positions, Listed
  <2> HIDE DEF l
  <2>2. TypeOK'
    BY <1>1, <1>2, <1>6 DEF IInv, TypeOK
  <2>3. ListInv'
    <3>1. \A m, n \in Positions' : threads'[m].pid = threads'[n].pid => m = n
      BY <2>1 DEF IInv, ListInv
    <3>2. \A m, n \in Positions' : m < n /\ threads'[n].seized => threads'[m].seized
      BY <1>3, <2>1 DEF IInv, ListInv, Positions
    <3>3. \A n \in Positions' : task'[threads'[n].pid] # "none"
      BY <1>1, <1>2, <2>1 DEF IInv, ListInv
    <3>4. \A n \in Positions' : threads'[n].seized => Dead' \/ threads'[n].pid \in held'
      BY <1>1, <1>4, <2>1 DEF IInv, ListInv
    <3> QED
      BY <1>1, <2>1, <3>1, <3>2, <3>3, <3>4 DEF IInv, ListInv
  <2>4. StepInv'
    BY <1>1, <2>1 DEF IInv, StepInv
  <2>5. WalkInv'
    BY <1>1, <2>1 DEF IInv, WalkInv
  <2> QED
    BY <2>2, <2>3, <2>4, <2>5 DEF IInv
<1> QED
  BY <1>1, <1>2, <1>5, <1>6, CollectThread, Zenon DEF IInv

(* The end of a walk: the last thread is seized, so all are, and no entry  *)
(* is beyond the walk.                                                     *)
LEMMA NsbCollectDone ==
  ASSUME IInv, CollectDone
  PROVE  IInv'
<1>1. /\ UNCHANGED <<task, inside, jobstop, held, threads, try, ret>>
      /\ pc = "collect" /\ walk' = {} /\ k' = 1
      /\ walk # {} /\ (Beyond = {} \/ MaySkip)
      /\ pc' = IF process_needs_seize THEN "infect" ELSE "check"
  BY DEF CollectDone, Goto, process
<1>2. /\ Len(threads) \in Nat
      /\ \A n \in Positions : threads[n].pid \in Tids /\ threads[n].seized \in BOOLEAN
      /\ \A n \in Positions : ~(n < 1)
  BY ListElements DEF IInv, Positions
<1>3. TypeOK' /\ ListInv' /\ WalkInv'
  BY <1>1 DEF IInv, TypeOK, ListInv, WalkInv, Positions, Dead
<1>4. ASSUME ~process_needs_seize, NEW t \in Tids, task[t] = "run"
      PROVE  t \in held
  <2>1. threads # <<>> /\ threads[Len(threads)].seized
    BY <1>4 DEF process_needs_seize
  <2>2. Len(threads) \in Positions /\ \A n \in Positions : n < Len(threads) \/ n = Len(threads)
    BY <1>2, <2>1, EmptySeq DEF Positions, IInv, TypeOK
  <2>3. \A n \in Positions : threads[n].seized
    BY <2>1, <2>2 DEF IInv, ListInv
  <2>4. ~Dead
    BY <1>4 DEF Dead
  <2>5. ASSUME NEW w \in walk
        PROVE  w \in Entries /\ w \in held
    <3>1. PICK n \in Positions : threads[n].pid = w
      BY <1>1 DEF IInv, StepInv
    <3> QED
      BY <1>2, <2>3, <2>4, <3>1 DEF IInv, ListInv, Entries
  <2>6. t \notin Beyond
    BY <1>1, <2>5 DEF MaySkip
  <2>7. t \in Entries
    BY <1>4 DEF Entries
  <2>8. PICK s \in walk : ~(s < t)
    BY <2>6, <2>7 DEF Beyond
  <2>9. t <= s
    BY <2>8, BoundsAssumption DEF IInv, TypeOK, Tids
  <2>10. t \in walk
    BY <1>1, <2>3, <2>4, <2>7, <2>9 DEF IInv, WalkInv
  <2> QED
    BY <2>5, <2>10
<1>5. StepInv'
  BY <1>1, <1>2, <1>4 DEF IInv, StepInv, Positions
<1> QED
  BY <1>3, <1>5 DEF IInv

-----------------------------------------------------------------------------
(* Deleting from the list closes the gap. *)
LEMMA WithoutElements ==
  ASSUME TypeOK, NEW c \in Positions
  PROVE  /\ Without(c) \in Seq([pid : Tids, seized : BOOLEAN])
         /\ Len(Without(c)) = Len(threads) - 1
         /\ \A n \in 1..(Len(threads) - 1) :
              Without(c)[n] = threads[IF n < c THEN n ELSE n + 1]
<1> DEFINE R == [pid : Tids, seized : BOOLEAN]
           before == SubSeq(threads, 1, c - 1)
           after == SubSeq(threads, c + 1, Len(threads))
<1>1. threads \in Seq(R) /\ Len(threads) \in Nat /\ c \in 1..Len(threads)
  BY LenProperties DEF TypeOK, Positions
<1> HIDE DEF R
<1>2. /\ before \in Seq(R) /\ Len(before) = c - 1
      /\ \A n \in 1..(c - 1) : before[n] = threads[n]
  BY <1>1, SubSeqProperties
<1>3. /\ after \in Seq(R) /\ Len(after) = Len(threads) - c
      /\ \A n \in 1..(Len(threads) - c) : after[n] = threads[c + n]
  BY <1>1, SubSeqProperties
<1> HIDE DEF before, after
<1>4. /\ before \o after \in Seq(R)
      /\ Len(before \o after) = Len(threads) - 1
  <2>1. /\ before \o after \in Seq(R)
        /\ Len(before \o after) = Len(before) + Len(after)
    BY <1>2, <1>3, ConcatProperties, Zenon
  <2> QED
    BY <1>1, <1>2, <1>3, <2>1
<1>5. ASSUME NEW n \in 1..(Len(threads) - 1)
      PROVE  (before \o after)[n] = threads[IF n < c THEN n ELSE n + 1]
  <2>1. (before \o after)[n] = IF n <= c - 1 THEN before[n] ELSE after[n - (c - 1)]
    BY <1>1, <1>2, <1>3, ConcatProperties
  <2>2. CASE n < c
    BY <1>1, <1>2, <2>1, <2>2
  <2>3. CASE ~(n < c)
    <3>1. n - (c - 1) \in 1..(Len(threads) - c) /\ c + (n - (c - 1)) = n + 1
      BY <1>1, <2>3
    <3> QED
      BY <1>1, <1>3, <2>1, <2>3, <3>1
  <2> QED
    BY <2>2, <2>3, Zenon
<1> QED
  BY <1>4, <1>5, Zenon DEF Without, R, before, after

(* task_infect holds a thread that runs, or drops one that does not, or    *)
(* ends the catch.                                                         *)
LEMMA NsbInfectThread ==
  ASSUME IInv, InfectThread
  PROVE  IInv'
<1>1. /\ pc = "infect" /\ k \in Positions /\ k \in Nat
      /\ UNCHANGED <<task, inside, jobstop, walk, try>>
      /\ walk = {} /\ try < Tries
      /\ \A n \in Positions : n < k => threads[n].seized
  BY DEF InfectThread, IInv, StepInv, TypeOK, Positions
<1>2. /\ Len(threads) \in Nat
      /\ \A n \in Positions : /\ threads[n] \in [pid : Tids, seized : BOOLEAN]
                              /\ threads[n].pid \in Tids
                              /\ threads[n].seized \in BOOLEAN
  BY ListElements DEF IInv
<1>3. PICK r \in StopResults(threads[k].pid) :
        \/ /\ r = "ALIVE"
           /\ threads' = [threads EXCEPT ![k].seized = TRUE]
           /\ held' = held \union {threads[k].pid}
           /\ k' = k + 1
           /\ UNCHANGED <<pc, ret>>
        \/ /\ r \in {"ZOMBIE", "DEAD"}
           /\ threads' = Without(k)
           /\ UNCHANGED <<held, k, pc, ret>>
        \/ /\ r \in {"STOPPED", "error"}
           /\ pc' = "cure"
           /\ ret' = "fail"
           /\ UNCHANGED <<threads, held, k>>
  BY DEF InfectThread, Goto
<1>4. /\ r = "ALIVE" => task[threads[k].pid] = "run"
      /\ r \in {"ZOMBIE", "DEAD"} => task[threads[k].pid] # "run"
  <2>1. task[threads[k].pid] \in {"run", "zombie", "gone"}
    BY <1>1, <1>2 DEF IInv, TypeOK, ListInv
  <2>2. CASE task[threads[k].pid] = "run"
    BY <2>2 DEF StopResults
  <2>3. CASE task[threads[k].pid] = "zombie"
    BY <2>3 DEF StopResults
  <2>4. CASE task[threads[k].pid] = "gone"
    BY <2>4 DEF StopResults
  <2> QED
    BY <2>1, <2>2, <2>3, <2>4
<1>5. Dead' <=> Dead
  BY <1>1 DEF Dead
<1>6. (\A t, u \in Tids : t < u /\ task[u] # "none" => task[t] # "none")'
  BY <1>1 DEF IInv, WalkInv
<1>7. CASE r = "ALIVE"
  <2>1. /\ threads' = [threads EXCEPT ![k] = [threads[k] EXCEPT !.seized = TRUE]]
        /\ held' = held \union {threads[k].pid} /\ k' = k + 1
        /\ UNCHANGED <<pc, ret>>
    BY <1>3, <1>7
  <2>2. /\ threads' \in Seq([pid : Tids, seized : BOOLEAN])
        /\ Len(threads') = Len(threads)
        /\ Positions' = Positions
        /\ \A n \in Positions : n # k => threads'[n] = threads[n]
        /\ threads'[k].pid = threads[k].pid /\ threads'[k].seized
    <3> DEFINE R == [pid : Tids, seized : BOOLEAN]
               e == [threads[k] EXCEPT !.seized = TRUE]
    <3>1. e \in R /\ e.pid = threads[k].pid /\ e.seized
      BY <1>1, <1>2, Zenon
    <3>2. threads \in Seq(R) /\ threads' = [threads EXCEPT ![k] = e] /\ k \in 1..Len(threads)
      BY <1>1, <2>1 DEF IInv, TypeOK, Positions
    <3> HIDE DEF R, e
    <3>3. /\ threads' \in Seq(R) /\ Len(threads') = Len(threads)
          /\ \A n \in 1..Len(threads) : threads'[n] = IF n = k THEN e ELSE threads[n]
      BY <3>1, <3>2, ExceptSeq
    <3> QED
      BY <3>1, <3>2, <3>3 DEF R, Positions
  <2>3. \A n \in Positions : threads'[n].pid = threads[n].pid
    BY <2>2
  <2>4. TypeOK'
    BY <1>1, <1>2, <2>1, <2>2 DEF IInv, TypeOK
  <2>5. ListInv'
    <3>1. \A m, n \in Positions' : m < n /\ threads'[n].seized => threads'[m].seized
      BY <1>1, <1>2, <2>2 DEF IInv, ListInv, Positions
    <3> QED
      BY <1>1, <1>4, <1>5, <1>7, <2>1, <2>2, <2>3, <3>1 DEF IInv, ListInv
  <2>6. StepInv'
    <3>1. \A n \in Positions' : n < k' => threads'[n].seized
      BY <1>1, <1>2, <2>1, <2>2 DEF Positions
    <3> QED
      BY <1>1, <2>1, <3>1 DEF StepInv
  <2> QED
    BY <1>1, <1>6, <2>1, <2>4, <2>5, <2>6 DEF IInv, WalkInv
<1>8. CASE r \in {"ZOMBIE", "DEAD"}
  <2> DEFINE at(n) == IF n < k THEN n ELSE n + 1
  <2>1. threads' = Without(k) /\ UNCHANGED <<held, k, pc, ret>>
    BY <1>3, <1>8
  <2>2. /\ threads' \in Seq([pid : Tids, seized : BOOLEAN])
        /\ Len(threads') = Len(threads) - 1
        /\ \A n \in Positions' : threads'[n] = threads[at(n)] /\ at(n) \in Positions
    <3>1. /\ threads' \in Seq([pid : Tids, seized : BOOLEAN])
          /\ Len(threads') = Len(threads) - 1
          /\ \A n \in 1..(Len(threads) - 1) : threads'[n] = threads[at(n)]
      BY <1>1, <2>1, WithoutElements, Zenon DEF IInv
    <3>2. \A n \in 1..(Len(threads) - 1) : at(n) \in Positions
      BY <1>1, <1>2 DEF Positions
    <3> QED
      BY <3>1, <3>2 DEF Positions
  <2>3. /\ \A m, n \in Positions' : /\ at(m) = at(n) => m = n
                                    /\ m < n => at(m) < at(n)
        /\ \A n \in Positions' : n < k => at(n) < k
        /\ \A m \in Positions \ {k} : \E n \in Positions' : at(n) = m
    <3>1. ASSUME NEW m \in Positions, m # k
          PROVE  \E n \in Positions' : at(n) = m
      <4>1. CASE m < k
        BY <1>1, <1>2, <2>2, <3>1, <4>1 DEF Positions
      <4>2. CASE m > k
        <5>1. m - 1 \in Positions' /\ at(m - 1) = m
          BY <1>1, <1>2, <2>2, <3>1, <4>2 DEF Positions
        <5> QED
          BY <5>1
      <4> QED
        BY <1>1, <1>2, <3>1, <4>1, <4>2 DEF Positions
    <3> QED
      BY <1>1, <1>2, <2>2, <3>1 DEF Positions
  <2> HIDE DEF at
  <2>4. TypeOK'
    BY <1>1, <2>1, <2>2 DEF IInv, TypeOK
  <2>5. ListInv'
    <3>1. ASSUME NEW t \in held
          PROVE  \E n \in Positions' : threads'[n].pid = t /\ threads'[n].seized
      <4>1. PICK m \in Positions : threads[m].pid = t /\ threads[m].seized
        BY <3>1 DEF IInv, ListInv
      <4>2. m # k
        BY <1>4, <1>8, <3>1, <4>1 DEF IInv, ListInv
      <4> QED
        BY <2>2, <2>3, <4>1, <4>2
    <3>2. \A m, n \in Positions' : threads'[m].pid = threads'[n].pid => m = n
      BY <2>2, <2>3 DEF IInv, ListInv
    <3>3. \A m, n \in Positions' : m < n /\ threads'[n].seized => threads'[m].seized
      BY <2>2, <2>3 DEF IInv, ListInv
    <3>4. task' = task /\ held' = held
      BY <1>1, <2>1
    <3>5. ASSUME NEW n \in Positions'
          PROVE  /\ task[threads'[n].pid] # "none"
                 /\ threads'[n].seized => Dead \/ threads'[n].pid \in held
      BY <2>2 DEF IInv, ListInv
    <3>6. \A t \in held : task[t] = "run"
      BY DEF IInv, ListInv
    <3> QED
      BY <1>5, <3>1, <3>2, <3>3, <3>4, <3>5, <3>6 DEF ListInv
  <2>6. StepInv'
    BY <1>1, <2>1, <2>2, <2>3, Zenon DEF StepInv
  <2> QED
    BY <1>1, <1>6, <2>1, <2>4, <2>5, <2>6 DEF IInv, WalkInv
<1>9. CASE r \in {"STOPPED", "error"}
  <2>1. pc' = "cure" /\ ret' = "fail" /\ UNCHANGED <<threads, held, k>>
    BY <1>3, <1>9
  <2> QED
    BY <1>1, <1>5, <1>6, <2>1, Zenon
    DEF IInv, TypeOK, ListInv, StepInv, WalkInv, Positions
<1> QED
  BY <1>3, <1>7, <1>8, <1>9

-----------------------------------------------------------------------------
(* The steps that leave the list alone. *)
LEMMA NsbKeepsList ==
  ASSUME IInv,
         \/ Run \/ Sleep \/ CollectFails \/ InfectDone
         \/ CheckStack \/ CheckStackDone \/ Release
  PROVE  IInv'
<1>1. /\ UNCHANGED <<task, inside, jobstop, held, threads>>
      /\ walk' = {}
      /\ Len(threads) \in Nat
  BY ListElements
  DEF Run, Sleep, CollectFails, InfectDone, CheckStack, CheckStackDone, Release,
      process, IInv, StepInv
<1>2. TypeOK'
  <2>1. k' \in Nat \ {0}
    BY DEF Run, Sleep, CollectFails, InfectDone, CheckStack, CheckStackDone, Release,
           IInv, TypeOK
  <2>2. try' \in 0..Tries
    BY BoundsAssumption
    DEF Run, Sleep, CollectFails, InfectDone, CheckStack, CheckStackDone, Release,
        IInv, TypeOK
  <2>3. /\ pc' \in {"collect", "check", "caught", "cure"}
        /\ ret' \in {"ok", "again", "fail"}
    BY DEF Run, Sleep, CollectFails, InfectDone, CheckStack, CheckStackDone, Release,
           Goto, IInv, TypeOK
  <2> QED
    BY <1>1, <2>1, <2>2, <2>3 DEF IInv, TypeOK
<1>3. ListInv' /\ WalkInv'
  BY <1>1 DEF IInv, ListInv, WalkInv, Positions, Dead
<1>4. StepInv'
  <2>1. CASE Run \/ Sleep \/ CollectFails \/ InfectDone \/ Release
    <3>1. pc' \in {"collect", "cure"} /\ try' < Tries
      BY <2>1, BoundsAssumption
      DEF Run, Sleep, CollectFails, InfectDone, Release, Goto, IInv, StepInv
    <3> QED
      BY <1>1, <3>1 DEF StepInv
  <2>2. CASE CheckStack
    <3>1. /\ pc = "check" /\ try' = try
          /\ \/ threads[k].pid \notin inside /\ k' = k + 1 /\ pc' = "check"
             \/ pc' = "cure"
      BY <2>2 DEF CheckStack, Goto
    <3>2. ASSUME pc' = "check", NEW n \in Positions', n < k'
          PROVE  threads'[n].pid \notin inside'
      <4>1. n \in Positions /\ (n < k \/ n = k)
        BY <1>1, <3>1, <3>2 DEF IInv, TypeOK, Positions
      <4> QED
        BY <1>1, <3>1, <3>2, <4>1 DEF IInv, StepInv
    <3> QED
      BY <1>1, <3>1, <3>2 DEF IInv, StepInv
  <2>3. CASE CheckStackDone
    <3>1. pc = "check" /\ pc' = "caught" /\ try' = try /\ k > Len(threads)
      BY <2>3 DEF CheckStackDone, Goto
    <3>2. \A n \in Positions : n < k
      BY <1>1, <3>1 DEF IInv, TypeOK, Positions
    <3> QED
      BY <1>1, <3>1, <3>2 DEF IInv, StepInv, Positions
  <2> QED
    BY <2>1, <2>2, <2>3
<1> QED
  BY <1>2, <1>3, <1>4 DEF IInv

(* process_cure_threads frees the first thread and drops it. *)
LEMMA NsbCureThread ==
  ASSUME IInv, CureThread
  PROVE  IInv'
<1>1. /\ pc = "cure" /\ threads # <<>>
      /\ UNCHANGED <<task, inside, jobstop, pc, walk, k, try, ret>>
      /\ threads' = Tail(threads)
      /\ held' = IF threads[1].seized THEN held \ {threads[1].pid} ELSE held
  BY DEF CureThread
<1>2. /\ Len(threads) \in Nat
      /\ \A n \in Positions : threads[n].pid \in Tids /\ threads[n].seized \in BOOLEAN
  BY ListElements DEF IInv
<1>3. /\ threads' \in Seq([pid : Tids, seized : BOOLEAN])
      /\ Len(threads') = Len(threads) - 1 /\ Len(threads) >= 1
      /\ \A n \in 1..(Len(threads) - 1) : threads'[n] = threads[n + 1]
  <2> DEFINE R == [pid : Tids, seized : BOOLEAN]
  <2>1. threads \in Seq(R)
    BY DEF IInv, TypeOK
  <2> HIDE DEF R
  <2>2. /\ Tail(threads) \in Seq(R) /\ Len(Tail(threads)) = Len(threads) - 1
        /\ \A n \in 1..Len(Tail(threads)) : Tail(threads)[n] = threads[n + 1]
    BY <1>1, <2>1, HeadTailProperties
  <2>3. Len(threads) # 0
    BY <1>1, <2>1, EmptySeq
  <2> QED
    BY <1>1, <1>2, <2>2, <2>3 DEF R
<1>4. /\ 1 \in Positions
      /\ \A n \in Positions' : /\ n + 1 \in Positions /\ n + 1 # 1 /\ 1 < n + 1
                               /\ threads'[n] = threads[n + 1]
      /\ \A m, n \in Positions' : /\ m < n => m + 1 < n + 1
                                  /\ m + 1 = n + 1 => m = n
      /\ \A m \in Positions \ {1} : \E n \in Positions' : m = n + 1
  <2>1. ASSUME NEW m \in Positions, m # 1
        PROVE  m - 1 \in Positions' /\ m = (m - 1) + 1
    BY <1>2, <1>3, <2>1 DEF Positions
  <2>2. \A m \in Positions \ {1} : \E n \in Positions' : m = n + 1
    BY <2>1
  <2>3. Positions' = 1..(Len(threads) - 1) /\ 1 \in Positions
    BY <1>2, <1>3 DEF Positions
  <2>4. ASSUME NEW n \in Positions'
        PROVE  /\ n + 1 \in Positions /\ n + 1 # 1 /\ 1 < n + 1
               /\ threads'[n] = threads[n + 1]
    BY <1>2, <1>3, <2>3 DEF Positions
  <2>5. ASSUME NEW m \in Positions', NEW n \in Positions'
        PROVE  (m < n => m + 1 < n + 1) /\ (m + 1 = n + 1 => m = n)
    BY <1>2, <2>3
  <2> QED
    BY <2>2, <2>3, <2>4, <2>5
<1>5. TypeOK' /\ StepInv' /\ WalkInv'
  BY <1>1, <1>3 DEF IInv, TypeOK, StepInv, WalkInv
<1>6. ListInv'
  <2>1. \A m, n \in Positions' : threads'[m].pid = threads'[n].pid => m = n
    BY <1>4 DEF IInv, ListInv
  <2>2. \A m, n \in Positions' : m < n /\ threads'[n].seized => threads'[m].seized
    BY <1>4 DEF IInv, ListInv
  <2>3. ASSUME NEW n \in Positions'
        PROVE  task'[threads'[n].pid] # "none"
    <3>1. threads'[n] = threads[n + 1] /\ n + 1 \in Positions /\ task' = task
      BY <1>1, <1>4, Zenon
    <3>2. task[threads[n + 1].pid] # "none"
      BY <3>1 DEF IInv, ListInv
    <3> QED
      BY <3>1, <3>2
  <2>4. ASSUME NEW n \in Positions', threads'[n].seized, ~Dead'
        PROVE  threads'[n].pid \in held'
    <3>1. ~Dead /\ threads[n + 1].seized /\ n + 1 \in Positions /\ n + 1 # 1
      BY <1>1, <1>4, <2>4, Zenon DEF Dead
    <3>2. threads[n + 1].pid \in held /\ threads[n + 1].pid # threads[1].pid
      BY <1>4, <3>1 DEF IInv, ListInv
    <3> QED
      BY <1>1, <1>4, <3>2, Zenon
  <2>5. ASSUME NEW t \in held'
        PROVE  /\ task'[t] = "run"
               /\ \E n \in Positions' : threads'[n].pid = t /\ threads'[n].seized
    <3>1. t \in held /\ (threads[1].seized => t # threads[1].pid)
      BY <1>1, <2>5
    <3>2. PICK m \in Positions : threads[m].pid = t /\ threads[m].seized
      BY <3>1 DEF IInv, ListInv
    <3>3. m # 1
      BY <3>1, <3>2
    <3>4. PICK n \in Positions' : m = n + 1
      BY <1>4, <3>3
    <3>5. threads'[n].pid = t /\ threads'[n].seized
      BY <1>4, <3>2, <3>4
    <3>6. task' = task /\ task[t] = "run"
      BY <1>1, <3>1 DEF IInv, ListInv
    <3> QED
      BY <3>5, <3>6
  <2> QED
    BY <2>1, <2>2, <2>3, <2>4, <2>5 DEF ListInv
<1> QED
  BY <1>5, <1>6 DEF IInv

(* process_cure_threads ends with nobody held: with the list, or with a    *)
(* seized thread that was killed, and then all were.                       *)
LEMMA NsbCureDone ==
  ASSUME IInv, CureDone
  PROVE  IInv'
<1>1. /\ pc = "cure" /\ UNCHANGED <<task, inside, jobstop, held, walk, k, ret>>
      /\ \/ threads = <<>>
         \/ threads # <<>> /\ threads[1].seized /\ task[threads[1].pid] # "run"
      /\ \/ pc' = "sleep" /\ threads' = threads /\ try + 1 < Tries
         \/ pc' = "off" /\ threads' = <<>>
      /\ try' = try + 1
  BY DEF CureDone, Goto, process
<1>2. Len(threads) \in Nat /\ threads \in Seq([pid : Tids, seized : BOOLEAN])
  BY ListElements DEF IInv, TypeOK
<1>3. held = {}
  <2>1. CASE threads = <<>>
    <3>1. Positions = {}
      BY <2>1, EmptySeq DEF Positions
    <3> QED
      BY <3>1 DEF IInv, ListInv
  <2>2. CASE threads # <<>> /\ threads[1].seized /\ task[threads[1].pid] # "run"
    <3>1. 1 \in Positions
      BY <1>2, <2>2, EmptySeq DEF Positions
    <3>2. Dead
      BY <2>2, <3>1 DEF IInv, ListInv
    <3> QED
      BY <3>2 DEF IInv, TypeOK, ListInv, Dead
  <2> QED
    BY <1>1, <2>1, <2>2
<1>4. try' \in 0..Tries
  BY <1>1, BoundsAssumption DEF IInv, TypeOK, StepInv
<1>5. CASE pc' = "sleep" /\ threads' = threads /\ try + 1 < Tries
  BY <1>1, <1>3, <1>4, <1>5
  DEF IInv, TypeOK, ListInv, StepInv, WalkInv, Positions, Dead
<1>6. CASE pc' = "off" /\ threads' = <<>>
  <2>1. threads' \in Seq([pid : Tids, seized : BOOLEAN]) /\ Positions' = {}
    BY <1>6, EmptySeq DEF Positions
  <2> QED
    BY <1>1, <1>3, <1>4, <1>6, <2>1
    DEF IInv, TypeOK, ListInv, StepInv, WalkInv
<1> QED
  BY <1>1, <1>5, <1>6

-----------------------------------------------------------------------------
LEMMA IInvStep == IInv /\ [Next]_vars => IInv'
<1>1. ASSUME IInv, UNCHANGED vars
      PROVE  IInv'
  BY <1>1, ZenonT(60)
  DEF vars, process, nsb, IInv, TypeOK, ListInv, StepInv, WalkInv, Positions, Entries, Dead
<1> QED
  BY <1>1, ProcessKeepsIInv, NsbCollectNext, NsbCollectDone, NsbInfectThread,
     NsbKeepsList, NsbCureThread, NsbCureDone
  DEF Next, NsbStep

(* The state of ThreadStop is typed. *)
THEOREM ThreadStopTyped == Spec => []TypeOK
BY IInvInit, IInvStep, PTL DEF Spec, IInv

(* SafeWhenCaught: when process_suspend returns success all threads of the *)
(* process are held and none is in the code to change, however many        *)
(* threads are cloned, exit or are killed while nsb walks, stops and       *)
(* checks them one after the other.                                        *)
THEOREM StoppedAtSafePoint == Spec => []SafeWhenCaught
<1>1. IInv => SafeWhenCaught
  BY DEF IInv, TypeOK, StepInv, ListInv, SafeWhenCaught
<1> QED
  BY <1>1, IInvInit, IInvStep, PTL DEF Spec

(* FreedBeforeRetry: process_suspend holds no thread while it sleeps       *)
(* before another try.                                                     *)
THEOREM FreedWhileWaiting == Spec => []FreedBeforeRetry
<1>1. IInv => FreedBeforeRetry
  BY DEF IInv, StepInv, FreedBeforeRetry
<1> QED
  BY <1>1, IInvInit, IInvStep, PTL DEF Spec
=============================================================================
