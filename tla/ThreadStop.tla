------------------------------ MODULE ThreadStop ------------------------------
(***************************************************************************)
(* How nsb stops a process at a safe point: process_suspend of             *)
(* patcher/process.c, with process_catch, process_infect and process_cure, *)
(* one thread at a time, while threads that are not stopped yet run, start *)
(* other threads and exit.  LivePatch takes all of it for the one step     *)
(* Suspend; SafeWhenCaught is what that step relies on.                    *)
(*                                                                         *)
(* Threads are numbered in the order they are created, which is the order  *)
(* the kernel lists them in /proc/<pid>/task; thread 1 is the leader.      *)
(***************************************************************************)
EXTENDS Integers, Sequences

CONSTANTS
  MaxTid,     \* bound on the threads the process ever creates
  Tries       \* times process_suspend tries to catch the process

ASSUME BoundsAssumption == MaxTid \in Nat \ {0} /\ Tries \in Nat \ {0}

VARIABLES
  (* the process *)
  task,       \* task[t]: "none" before it is created, "run", "zombie", "gone"
  inside,     \* threads with a frame in the code that the patch changes
  jobstop,    \* the process was stopped by a signal, not by nsb
  held,       \* threads stopped by nsb's ptrace
  (* nsb *)
  pc,         \* the step nsb is about to take, "off" when it is not running
  threads,    \* ctx->threads: records of pid and seized
  walk,       \* entries of /proc/<pid>/task that readdir returned so far
  k,          \* cursor in threads
  try,        \* catches that failed
  ret         \* what process_catch returns when all are cured

process == <<task, inside, jobstop, held>>
nsb == <<pc, threads, walk, k, try, ret>>
vars == <<process, nsb>>

Tids == 1..MaxTid
Leader == 1

Goto(label) == pc' = label

-----------------------------------------------------------------------------
(* The process. *)

Runs(t) == task[t] = "run" /\ t \notin held /\ ~jobstop

(* A thread enters or leaves the code that the patch changes. *)
Move(t) ==
  /\ Runs(t)
  /\ inside' = IF t \in inside THEN inside \ {t} ELSE inside \union {t}
  /\ UNCHANGED <<task, jobstop, held, nsb>>

(* A thread is created, up to MaxTid of them in all. *)
Clone(t, u) ==
  /\ Runs(t)
  /\ task[u] = "none"
  /\ \A v \in 1..(u - 1) : task[v] # "none"
  /\ task' = [task EXCEPT ![u] = "run"]
  /\ UNCHANGED <<inside, jobstop, held, nsb>>

(* The leader stays listed as a zombie when it exits. *)
ExitThread(t) ==
  /\ Runs(t)
  /\ task' = [task EXCEPT ![t] = IF t = Leader THEN "zombie" ELSE "gone"]
  /\ inside' = inside \ {t}
  /\ UNCHANGED <<jobstop, held, nsb>>

(* SIGKILL ends stopped threads too; the parent collects the zombie. *)
Kill ==
  /\ \E t \in Tids : task[t] = "run"
  /\ task' = [t \in Tids |-> IF task[t] = "none" THEN "none"
                             ELSE IF t = Leader THEN "zombie" ELSE "gone"]
  /\ inside' = {}
  /\ held' = {}
  /\ UNCHANGED <<jobstop, nsb>>

Reap ==
  /\ task[Leader] = "zombie"
  /\ \A t \in Tids : task[t] # "run"
  /\ task' = [task EXCEPT ![Leader] = "gone"]
  /\ UNCHANGED <<inside, jobstop, held, nsb>>

SigStopCont ==
  /\ \E t \in Tids : task[t] = "run"
  /\ jobstop' = ~jobstop
  /\ UNCHANGED <<task, inside, held, nsb>>

ProcessStep ==
  \/ \E t \in Tids : Move(t) \/ ExitThread(t)
  \/ \E t, u \in Tids : Clone(t, u)
  \/ Kill \/ Reap \/ SigStopCont

-----------------------------------------------------------------------------
(* process_infect: list the threads, stop the listed, until nothing new.   *)

(* Wrong process_suspend: the count of an earlier command is kept. *)
RunKeepsCount ==
  /\ pc = "off"
  /\ Goto("collect")
  /\ walk' = {}
  /\ UNCHANGED <<process, threads, k, try, ret>>

Run ==
  /\ pc = "off"
  /\ Goto("collect")
  /\ try' = 0
  /\ walk' = {}
  /\ UNCHANGED <<process, threads, k, ret>>

Listed == {threads[j].pid : j \in 1..Len(threads)}

(* Wrong collect_thread: threads found later are put at the head. *)
CollectAtHead(t) ==
  IF t \in Listed THEN threads
  ELSE <<[pid |-> t, seized |-> FALSE]>> \o threads

(* collect_thread: a thread that is not in the list is added at its tail.  *)
collect_thread(t) ==
  IF t \in Listed THEN threads
  ELSE Append(threads, [pid |-> t, seized |-> FALSE])

Entries == {t \in Tids : task[t] \in {"run", "zombie"}}

Beyond == {t \in Entries : \A s \in walk : s < t}

(* readdir goes by position: it may pass over entries when one that it     *)
(* returned earlier is gone.                                               *)
MaySkip == \E s \in walk : s \notin Entries

CollectNext ==
  /\ pc = "collect"
  /\ \E t \in Beyond :
       /\ MaySkip \/ \A s \in Beyond : t <= s
       /\ threads' = collect_thread(t)
       /\ walk' = walk \union {t}
  /\ UNCHANGED <<process, pc, k, try, ret>>

(* Wrong process_needs_seize: it does not see what is seized. *)
NeedsSeizeAlways == TRUE

(* process_needs_seize looks at the last thread of the list only. *)
process_needs_seize ==
  threads = <<>> \/ ~threads[Len(threads)].seized

CollectDone ==
  /\ pc = "collect"
  /\ walk # {} /\ (Beyond = {} \/ MaySkip)
  /\ walk' = {}
  /\ Goto(IF process_needs_seize THEN "infect" ELSE "check")
  /\ k' = 1
  /\ UNCHANGED <<process, threads, try, ret>>

(* opendir fails when the process is gone. *)
CollectFails ==
  /\ pc = "collect"
  /\ walk = {} /\ Entries = {}
  /\ Goto("cure")
  /\ ret' = "fail"
  /\ UNCHANGED <<process, threads, walk, k, try>>

(* compel_stop_task, of libcompel.  What it says of a thread that nsb has  *)
(* stopped already, or of one that is gone, depends on its version.        *)
StopResults(t) ==
  CASE task[t] = "zombie" -> {"ZOMBIE"}
    [] task[t] = "gone" -> {"DEAD", "error"}
    [] task[t] = "run" /\ jobstop /\ t \notin held -> {"STOPPED"}
    [] task[t] = "run" /\ t \in held -> {"ALIVE", "error"}
    [] OTHER -> {"ALIVE"}

Without(n) == SubSeq(threads, 1, n - 1) \o SubSeq(threads, n + 1, Len(threads))

(* task_infect, for the thread at the cursor.  Its errno # -ESRCH is true  *)
(* of every errno: any error ends process_infect.                          *)
InfectThread ==
  /\ pc = "infect"
  /\ k <= Len(threads)
  /\ \E r \in StopResults(threads[k].pid) :
       \/ /\ r = "ALIVE"
          /\ threads' = [threads EXCEPT ![k].seized = TRUE]
          /\ held' = held \union {threads[k].pid}
          /\ k' = k + 1
          /\ UNCHANGED <<pc, ret>>
       \/ /\ r \in {"ZOMBIE", "DEAD"}
          /\ threads' = Without(k)
          /\ UNCHANGED <<held, k, pc, ret>>
       \/ /\ r \in {"STOPPED", "error"}
          /\ Goto("cure")
          /\ ret' = "fail"
          /\ UNCHANGED <<threads, held, k>>
  /\ UNCHANGED <<task, inside, jobstop, walk, try>>

InfectDone ==
  /\ pc = "infect"
  /\ k > Len(threads)
  /\ Goto("collect")
  /\ UNCHANGED <<process, threads, walk, k, try, ret>>

-----------------------------------------------------------------------------
(* process_catch after process_infect. *)

(* task_check_stack, for the thread at the cursor: a frame in the code     *)
(* that changes, or a stack that cannot be unwound now, asks for a retry.  *)
(* Anything else that fails (also process_get_target_info) ends nsb.       *)
CheckStack ==
  /\ pc = "check"
  /\ k <= Len(threads)
  /\ \/ /\ task[threads[k].pid] = "run"
        /\ threads[k].pid \notin inside
        /\ k' = k + 1
        /\ UNCHANGED <<pc, ret>>
     \/ /\ Goto("cure")
        /\ ret' \in {"again", "fail"}
        /\ UNCHANGED k
  /\ UNCHANGED <<process, threads, walk, try>>

CheckStackDone ==
  /\ pc = "check"
  /\ k > Len(threads)
  /\ Goto("caught")
  /\ UNCHANGED <<process, threads, walk, k, try, ret>>

(* The command does its work, then process_resume. *)
Release ==
  /\ pc = "caught"
  /\ Goto("cure")
  /\ ret' = "ok"
  /\ UNCHANGED <<process, threads, walk, k, try>>

(* Wrong process_cure_threads: the first thread is left stopped. *)
CureKeepsFirst ==
  /\ pc = "cure"
  /\ threads # <<>>
  /\ threads' = Tail(threads)
  /\ held' = IF Len(threads) > 1 /\ threads[1].pid = Leader THEN held
             ELSE held \ {threads[1].pid}
  /\ UNCHANGED <<task, inside, jobstop, pc, walk, k, try, ret>>

(* process_cure_threads, for the first thread of the list. *)
CureThread ==
  /\ pc = "cure"
  /\ threads # <<>>
  /\ ~threads[1].seized \/ task[threads[1].pid] = "run"
  /\ threads' = Tail(threads)
  /\ held' = IF threads[1].seized THEN held \ {threads[1].pid} ELSE held
  /\ UNCHANGED <<task, inside, jobstop, pc, walk, k, try, ret>>

(* process_suspend: sleep and try again, or give up.  The loop of          *)
(* process_cure_threads ends with the list, or where compel_resume_task    *)
(* fails because the process was killed.                                   *)
CureDone ==
  /\ pc = "cure"
  /\ \/ threads = <<>>
     \/ threads # <<>> /\ threads[1].seized /\ task[threads[1].pid] # "run"
  /\ IF ret = "again" /\ try + 1 < Tries
     THEN /\ Goto("sleep")
          /\ UNCHANGED threads
     ELSE /\ Goto("off")
          /\ threads' = <<>>
  /\ try' = try + 1
  /\ UNCHANGED <<process, walk, k, ret>>

Sleep ==
  /\ pc = "sleep"
  /\ Goto("collect")
  /\ UNCHANGED <<process, threads, walk, k, try, ret>>

-----------------------------------------------------------------------------
Init ==
  /\ task = [t \in Tids |-> IF t = Leader THEN "run" ELSE "none"]
  /\ inside = {}
  /\ jobstop = FALSE
  /\ held = {}
  /\ pc = "off"
  /\ threads = <<>>
  /\ walk = {}
  /\ k = 1
  /\ try = 0
  /\ ret = "ok"

(* The steps nsb takes by itself once it runs. *)
NsbStep ==
  \/ CollectNext \/ CollectDone \/ CollectFails
  \/ InfectThread \/ InfectDone
  \/ CheckStack \/ CheckStackDone \/ Release
  \/ CureThread \/ CureDone \/ Sleep

Next == Run \/ NsbStep \/ ProcessStep

Spec == Init /\ [][Next]_vars

(* nsb is never kept from running.  Of the process nothing is assumed but  *)
(* that it creates at most MaxTid threads.                                 *)
FairSpec == Spec /\ WF_vars(NsbStep)

-----------------------------------------------------------------------------
(* The values the variables take. *)
TypeOK ==
  /\ task \in [Tids -> {"none", "run", "zombie", "gone"}]
  /\ inside \in SUBSET Tids
  /\ jobstop \in BOOLEAN
  /\ held \in SUBSET Tids
  /\ pc \in {"off", "collect", "infect", "check", "caught", "cure", "sleep"}
  /\ threads \in Seq([pid : Tids, seized : BOOLEAN])
  /\ walk \in SUBSET Tids
  /\ k \in Nat \ {0}
  /\ try \in 0..Tries
  /\ ret \in {"ok", "again", "fail"}

(* README.md, "After the process is stopped (i.e. all its threads are      *)
(* stopped), nsb checks all stacks": when process_suspend returns success  *)
(* every living thread is held by nsb and none is in the code to change,   *)
(* whatever was cloned, exited or was killed on the way.                   *)
SafeWhenCaught ==
  pc = "caught" =>
    \A t \in Tids : task[t] = "run" => t \in held /\ t \notin inside

(* README.md, "Otherwise nsb frees all process threads, waits for a short  *)
(* time, and stops them again": while process_suspend sleeps no thread is  *)
(* held, so that threads can leave the code that is to change.             *)
FreedBeforeRetry == pc = "sleep" => held = {}

(* process_suspend comes to an end, unless the leader is a zombie, for a   *)
(* process that creates finitely many threads: the loop of process_infect  *)
(* has no bound of its own, and follows a process that goes on cloning     *)
(* faster than it is stopped.                                              *)
SuspendEnds ==
  pc = "collect" ~> pc \in {"caught", "off"} \/ task[Leader] = "zombie"

(* process_infect, "Process %d is considered dead": process_suspend comes  *)
(* to an end when there is nothing left to stop.                           *)
DeadProcessNoticed == pc = "collect" ~> pc \in {"caught", "off"}
=============================================================================
