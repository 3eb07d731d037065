------------------------------- MODULE Service -------------------------------
(***************************************************************************)
(* The plugin: how nsb brings libnsb_service into a stopped process, talks *)
(* to it and takes it out again (patcher/service.c, plugins/service.c and  *)
(* the dlopen and dlclose calls of patcher/process.c), over the runs of    *)
(* several nsb processes, any of which may fail or be killed half way.     *)
(*                                                                         *)
(* What one nsb leaves in the process is met by the next: the library with *)
(* its two sockets, connections that wait in the backlog, the scratch page *)
(* that remote calls are written to, file descriptors, mapped segments.    *)
(*                                                                         *)
(* The thread that nsb calls functions in runs only during such a call, so *)
(* a remote call is one step.  The number of an nsb names its connection.  *)
(***************************************************************************)
EXTENDS Integers, Sequences, Functions

CONSTANTS
  MaxNsb,    \* bound on the number of nsb runs
  Backlog,   \* the backlog of listen_sock, 1 in the code
  Faults,    \* what may go wrong, of FaultKinds
  None

FaultKinds ==
  {"link", "scratch", "lock", "dlopen", "listen", "collect", "connect", "send",
   "exec", "needed", "mmap", "munmap", "answer", "recv", "relocate", "dlclose",
   "crash"}

ASSUME ServiceAssumption ==
  /\ MaxNsb \in Nat
  /\ Backlog \in Nat
  /\ Faults \subseteq FaultKinds
  /\ None \notin 1..MaxNsb

VARIABLES
  (* the process *)
  alive,     \* it was not killed by what it was made to run
  lib,       \* the library: see NoLibrary
  segs,      \* mapped segments of the patch, which has two
  held,      \* a stopped thread holds a lock that dlopen takes
  left,      \* what it holds of the nsb that runs or ran last: see NothingLeft
  (* the connections *)
  requests,  \* requests[c]: sent by nsb c, not yet received
  answers,   \* answers[c]: sent to nsb c, not yet received
  open,      \* connections whose nsb end is open
  (* nsb *)
  pc,        \* its next step, "idle" when no nsb runs
  me,        \* the number of the nsb that runs or ran last
  op,        \* its command
  page,      \* its scratch page: "none", "mapped", or "bad"
  handle,    \* dlopen returned a handle
  loaded,    \* service.loaded
  call,      \* the request it is in
  ret,       \* what the command is going to return, or returned
  (* for the properties only *)
  orphan,    \* an nsb ended while its connection was in the backlog
  hit,       \* 0 until this nsb meets a fault; every fault changes it
  blind      \* this nsb failed to receive an answer

process == <<alive, lib, segs, held, left>>
wires == <<requests, answers, open>>
nsb == <<pc, me, op, page, handle, loaded, call, ret>>
history == <<orphan, hit, blind>>
vars == <<process, wires, nsb, history>>

Segments == {0, 1}
Calls == {"needed", "mmap", "munmap"}

(* refs: dlopen calls not undone; listening: the constructor bound         *)
(* listen_sock; backlog: connections that wait to be accepted; cmd_sock:   *)
(* the one that requests are read from.                                    *)
NoLibrary == [refs |-> 0, listening |-> FALSE, backlog |-> <<>>, cmd_sock |-> None]

(* ref: a dlopen not undone; scratch: the page that remote calls are       *)
(* written to; fd: the descriptor of the patch file.                       *)
NothingLeft == [ref |-> FALSE, scratch |-> FALSE, fd |-> FALSE]

-----------------------------------------------------------------------------
Goto(label) == pc' = label

(* Every error of a command ends in process_resume. *)
Fail(label) == Goto(label) /\ ret' = "fail"

Hit == hit' = IF hit = 1 THEN 2 ELSE 1

Fault(kind) == kind \in Faults /\ Hit

(* A remote call: its code is written to the scratch page and run. *)
Reachable == alive /\ page = "mapped"
CanReach == Reachable /\ UNCHANGED hit
CannotReach == (~Reachable /\ UNCHANGED hit) \/ Fault("exec")

(* A new nsb, from the start to the end of process_suspend, which finds    *)
(* what the command is about.  The threads may have been stopped anywhere, *)
(* in the dynamic linker or the allocator too.                             *)
Start ==
  /\ pc = "idle"
  /\ me < MaxNsb
  /\ alive
  /\ me' = me + 1
  /\ op' \in {"patch"} \union (IF segs # {} THEN {"revert"} ELSE {})
  /\ held' \in {FALSE, "lock" \in Faults}
  /\ left' = NothingLeft
  /\ ret' = "ok"
  /\ hit' = 0
  /\ blind' = FALSE
  /\ Goto("link")
  /\ UNCHANGED <<alive, lib, segs, wires, page, handle, loaded, call, orphan>>

(* process_link.  A failed mmap returns -errno, which is compared with     *)
(* MAP_FAILED: only EPERM is noticed.                                      *)
process_link ==
  /\ pc = "link"
  /\ \/ /\ page' = "mapped"
        /\ left' = [left EXCEPT !.scratch = TRUE]
        /\ Goto(IF op = "patch" THEN "dlopen" ELSE "unmap")
        /\ UNCHANGED <<ret, hit>>
     \/ /\ Fault("link")
        /\ Fail("resume")
        /\ UNCHANGED <<page, left>>
     \/ /\ Fault("scratch")
        /\ page' = "bad"
        /\ Goto(IF op = "patch" THEN "dlopen" ELSE "unmap")
        /\ UNCHANGED <<left, ret>>
  /\ UNCHANGED <<alive, lib, segs, held, wires, me, op, handle, loaded, call,
                 orphan, blind>>

(* process_find_patch, then the dlopen call of process_inject_service.     *)
(* The constructor of the library runs on the first dlopen only, and its   *)
(* result is lost.  The call does not return while a stopped thread holds  *)
(* a lock it needs.                                                        *)
InjectService ==
  /\ pc = "dlopen"
  /\ \/ /\ segs # {}
        /\ Fail("resume")
        /\ UNCHANGED <<lib, left, handle, hit>>
     \/ /\ segs = {}
        /\ Reachable
        /\ ~held
        /\ \/ /\ lib' = [lib EXCEPT !.refs = @ + 1,
                                    !.listening = @ \/ lib.refs = 0]
              /\ UNCHANGED hit
           \/ /\ lib.refs = 0
              /\ Fault("listen")
              /\ lib' = [lib EXCEPT !.refs = 1]
        /\ left' = [left EXCEPT !.ref = TRUE]
        /\ handle' = TRUE
        /\ Goto("collect")
        /\ UNCHANGED ret
     \/ /\ segs = {}
        /\ CannotReach \/ Fault("dlopen")
        /\ Fail("resume")
        /\ UNCHANGED <<lib, left, handle>>
  /\ UNCHANGED <<alive, segs, held, wires, me, op, page, loaded, call, orphan, blind>>

service_collect_vmas ==
  /\ pc = "collect"
  /\ \/ Goto("connect") /\ UNCHANGED <<ret, hit>>
     \/ Fault("collect") /\ Fail("resume")
  /\ UNCHANGED <<process, wires, me, op, page, handle, loaded, call, orphan, blind>>

(* service_local_connect: blocks while the backlog is full. *)
service_local_connect ==
  /\ pc = "connect"
  /\ \/ /\ lib.listening
        /\ Len(lib.backlog) <= Backlog
        /\ lib' = [lib EXCEPT !.backlog = Append(@, me)]
        /\ open' = open \union {me}
        /\ Goto("accept")
        /\ UNCHANGED <<ret, hit>>
     \/ /\ (~lib.listening /\ UNCHANGED hit) \/ Fault("connect")
        /\ Fail("resume")
        /\ UNCHANGED <<lib, open>>
  /\ UNCHANGED <<alive, segs, held, left, requests, answers, me, op, page, handle,
                 loaded, call, orphan, blind>>

(* Wrong nsb_service_accept: a connection left by an earlier nsb is kept. *)
AcceptKeepsOld(l) ==
  [l EXCEPT !.cmd_sock = IF @ = None THEN Head(l.backlog) ELSE @,
            !.backlog = Tail(@)]

(* nsb_service_accept drops the connection the library had and takes the   *)
(* one that has waited longest.                                            *)
nsb_service_accept(l) ==
  [l EXCEPT !.cmd_sock = Head(l.backlog), !.backlog = Tail(@)]

service_remote_accept ==
  /\ pc = "accept"
  /\ \/ /\ CanReach
        /\ lib' = nsb_service_accept(lib)
        /\ requests' = [c \in 1..MaxNsb |->
                          IF c = lib.cmd_sock THEN <<>> ELSE requests[c]]
        /\ loaded' = TRUE
        /\ call' = "needed"
        /\ Goto("send")
        /\ UNCHANGED ret
     \/ /\ CannotReach
        /\ Fail("resume")
        /\ UNCHANGED <<lib, requests, loaded, call>>
  /\ UNCHANGED <<alive, segs, held, left, answers, open, me, op, page, handle,
                 orphan, blind>>

-----------------------------------------------------------------------------
(* A request: send it, run the library, receive the answer.                *)

nsb_service_send_request ==
  /\ pc = "send"
  /\ \/ /\ requests' = [requests EXCEPT ![me] = Append(@, call)]
        /\ Goto("run")
        /\ UNCHANGED <<ret, hit>>
     \/ /\ Fault("send")
        /\ Fail("resume")
        /\ UNCHANGED requests
  /\ UNCHANGED <<process, answers, open, me, op, page, handle, loaded, call,
                 orphan, blind>>

(* The handlers of the library: the segments they leave mapped, whether    *)
(* the descriptor stays open, and the result they answer with.             *)
nsb_service_cmd_needed_list ==
  {<<segs, left.fd, "ok">>} \union
  (IF "needed" \in Faults THEN {<<segs, left.fd, "fail">>} ELSE {})

(* Wrong nsb_service_cmd_mmap: a failed mapping is not an error. *)
MmapIgnoresError ==
  {<<Segments, FALSE, "ok">>, <<{0}, FALSE, "ok">>}

(* The descriptor is closed when both segments are mapped.  When mapping   *)
(* nr fails, the loop back unmaps the ones from nr down to 1.              *)
nsb_service_cmd_mmap ==
  {<<Segments, FALSE, "ok">>} \union
  (IF "mmap" \in Faults
   THEN {<<segs \union ((0..(nr - 1)) \ (1..nr)), TRUE, "fail">> : nr \in 0..1}
   ELSE {})

nsb_service_cmd_munmap ==
  {<<{}, left.fd, "ok">>} \union
  (IF "munmap" \in Faults
   THEN {<<segs \ (0..(nr - 1)), left.fd, "fail">> : nr \in 0..1}
   ELSE {})

nsb_do_handle_cmd(rq) ==
  CASE rq = "needed" -> nsb_service_cmd_needed_list
    [] rq = "mmap" -> nsb_service_cmd_mmap
    [] rq = "munmap" -> nsb_service_cmd_munmap

Answered(c, rq, result) ==
  [answers EXCEPT ![c] = Append(@, [to |-> rq, ret |-> result])]

(* Wrong nsb_handle_command: an error is returned and not answered. *)
HandleSilentError(c, rq) ==
  \E result \in nsb_do_handle_cmd(rq) :
    /\ segs' = result[1]
    /\ left' = [left EXCEPT !.fd = result[2]]
    /\ answers' = IF result[3] = "ok" THEN Answered(c, rq, "ok") ELSE answers
    /\ Goto("recv")
    /\ UNCHANGED <<alive, ret, hit>>

(* Wrong nsb_handle_command: an error is answered twice. *)
HandleAnswersTwice(c, rq) ==
  \E result \in nsb_do_handle_cmd(rq) :
    /\ segs' = result[1]
    /\ left' = [left EXCEPT !.fd = result[2]]
    /\ answers' = [answers EXCEPT ![c] = @ \o <<[to |-> rq, ret |-> "ok"],
                                                [to |-> rq, ret |-> result[3]]>>]
    /\ Goto("recv")
    /\ UNCHANGED <<alive, ret, hit>>

(* nsb_handle_command: the answer may be lost after the work is done.  If  *)
(* the other end is closed the process also gets a SIGPIPE.                *)
nsb_handle_command(c, rq) ==
  \E result \in nsb_do_handle_cmd(rq) :
    /\ segs' = result[1]
    /\ left' = [left EXCEPT !.fd = result[2]]
    /\ \/ /\ c \in open
          /\ answers' = Answered(c, rq, result[3])
          /\ Goto("recv")
          /\ IF result[3] = "ok" THEN UNCHANGED hit ELSE Hit
          /\ UNCHANGED <<alive, ret>>
       \/ /\ c \notin open
          /\ alive' \in BOOLEAN
          /\ Fail("resume")
          /\ UNCHANGED <<answers, hit>>
       \/ /\ Fault("answer")
          /\ Fail("resume")
          /\ UNCHANGED <<alive, answers>>

(* service_run: nsb_service_run takes one request without waiting.  If     *)
(* there is none it returns at once and answers nothing; if the other end  *)
(* is closed it restores a signal frame that was never filled in.          *)
service_run ==
  LET c == lib.cmd_sock IN
  /\ pc = "run"
  /\ \/ /\ CannotReach
        /\ Fail("resume")
        /\ UNCHANGED <<alive, segs, left, requests, answers>>
     \/ /\ Reachable
        /\ requests[c] # <<>>
        /\ requests' = [requests EXCEPT ![c] = Tail(@)]
        /\ nsb_handle_command(c, Head(requests[c]))
     \/ /\ CanReach
        /\ requests[c] = <<>>
        /\ alive' = (c \in open)
        /\ IF alive' THEN Goto("recv") /\ UNCHANGED ret ELSE Fail("resume")
        /\ UNCHANGED <<segs, left, requests, answers>>
  /\ UNCHANGED <<lib, held, open, me, op, page, handle, loaded, call, orphan, blind>>

(* What the caller of the request does with its result. *)
After(result) ==
  \/ result = "fail" /\ Fail("resume")
  \/ result = "ok" /\ call = "needed" /\ Goto("transfer") /\ UNCHANGED ret
  \/ result = "ok" /\ call = "mmap" /\ Goto("relocate") /\ UNCHANGED ret
  \/ result = "ok" /\ call = "munmap" /\ Goto("resume") /\ UNCHANGED ret

(* nsb_service_receive_response blocks.  Its errors are stored in an       *)
(* unsigned variable and never seen: the answer is then whatever the stack *)
(* holds, and the real one stays in the queue.                             *)
nsb_service_receive_response ==
  /\ pc = "recv"
  /\ \/ /\ answers[me] # <<>>
        /\ answers' = [answers EXCEPT ![me] = Tail(@)]
        /\ After(Head(answers[me]).ret)
        /\ UNCHANGED <<hit, blind>>
     \/ /\ Fault("recv")
        /\ blind' = TRUE
        /\ \E result \in {"ok", "fail"} : After(result)
        /\ UNCHANGED answers
  /\ UNCHANGED <<process, requests, open, me, op, page, handle, loaded, call, orphan>>

(* After the needed list: the symbols are resolved, then the descriptor of *)
(* the patch file is sent.                                                 *)
send_fd ==
  /\ pc = "transfer"
  /\ \/ /\ requests' = [requests EXCEPT ![me] = Append(@, "fd")]
        /\ Goto("receive_fd")
        /\ UNCHANGED <<ret, hit>>
     \/ /\ Fault("send")
        /\ Fail("resume")
        /\ UNCHANGED requests
  /\ UNCHANGED <<process, answers, open, me, op, page, handle, loaded, call,
                 orphan, blind>>

(* nsb_service_receive_fd blocks until there is a message. *)
nsb_service_receive_fd ==
  LET c == lib.cmd_sock IN
  /\ pc = "receive_fd"
  /\ \/ /\ CanReach
        /\ requests[c] # <<>>
        /\ requests' = [requests EXCEPT ![c] = Tail(@)]
        /\ left' = [left EXCEPT !.fd = TRUE]
        /\ call' = "mmap"
        /\ Goto("send")
        /\ UNCHANGED ret
     \/ /\ CannotReach
        /\ Fail("resume")
        /\ UNCHANGED <<requests, left, call>>
  /\ UNCHANGED <<alive, lib, segs, held, answers, open, me, op, page, handle, loaded,
                 orphan, blind>>

(* The rest of apply_dyn_binpatch: when linking fails the patch is         *)
(* unmapped, by the library.                                               *)
ApplyPatch ==
  /\ pc = "relocate"
  /\ \/ Goto("resume") /\ UNCHANGED <<call, ret, hit>>
     \/ Fault("relocate") /\ call' = "munmap" /\ Fail("send")
  /\ UNCHANGED <<process, wires, me, op, page, handle, loaded, orphan, blind>>

(* revert does without the library: patch_unload, by system calls. *)
process_munmap_dl_map ==
  /\ pc = "unmap"
  /\ \/ segs' = {} /\ Goto("resume") /\ UNCHANGED <<ret, hit>>
     \/ Fault("munmap") /\ Fail("resume") /\ segs' \in {segs, segs \ {0}}
  /\ UNCHANGED <<alive, lib, held, left, wires, me, op, page, handle, loaded, call,
                 orphan, blind>>

-----------------------------------------------------------------------------
(* process_resume.                                                         *)

(* The nsb process is gone; the kernel closes its end of the connection.   *)
Exit ==
  /\ Goto("idle")
  /\ page' = "none"
  /\ handle' = FALSE
  /\ loaded' = FALSE
  /\ open' = open \ {me}
  /\ answers' = [answers EXCEPT ![me] = <<>>]
  /\ orphan' = (orphan \/ me \in Range(lib.backlog))
  /\ UNCHANGED <<me, op, call>>

(* service_stop, when there is a handle. *)
service_stop ==
  /\ pc = "resume"
  /\ loaded' = FALSE
  /\ open' = open \ {me}
  /\ Goto(IF handle THEN "dlclose" ELSE "unlink")
  /\ UNCHANGED <<process, requests, answers, me, op, page, handle, call, ret, history>>

(* process_call_dlclose.  The last one runs the destructor of the library, *)
(* which closes its sockets.  An error here ends process_resume.           *)
process_call_dlclose ==
  /\ pc = "dlclose"
  /\ \/ /\ CanReach
        /\ IF lib.refs > 1
           THEN /\ lib' = [lib EXCEPT !.refs = @ - 1]
                /\ UNCHANGED <<requests, orphan>>
           ELSE /\ lib' = NoLibrary
                /\ requests' = [c \in 1..MaxNsb |-> <<>>]
                /\ orphan' = FALSE
        /\ left' = [left EXCEPT !.ref = FALSE]
        /\ handle' = FALSE
        /\ Goto("unlink")
        /\ UNCHANGED <<answers, open, me, op, page, loaded, call, ret>>
     \/ /\ CannotReach \/ Fault("dlclose")
        /\ ret' = "fail"
        /\ Exit
        /\ UNCHANGED <<lib, left, requests>>
  /\ UNCHANGED <<alive, segs, held, blind>>

(* Wrong process_resume: process_unlink does not unmap the page. *)
UnlinkKeepsPage ==
  /\ pc = "unlink"
  /\ Exit
  /\ UNCHANGED <<process, requests, ret, hit, blind>>

(* process_unlink and process_cure. *)
process_unlink ==
  /\ pc = "unlink"
  /\ \/ page = "none" /\ UNCHANGED <<left, ret, hit>>
     \/ CanReach /\ left' = [left EXCEPT !.scratch = FALSE] /\ UNCHANGED ret
     \/ page # "none" /\ CannotReach /\ ret' = "fail" /\ UNCHANGED left
  /\ Exit
  /\ UNCHANGED <<alive, lib, segs, held, requests, blind>>

(* nsb is killed between two steps.  The threads run on from where they    *)
(* were stopped.                                                           *)
Crash ==
  /\ "crash" \in Faults
  /\ pc # "idle"
  /\ Hit
  /\ ret' = "crash"
  /\ Exit
  /\ UNCHANGED <<process, requests, blind>>

-----------------------------------------------------------------------------
Init ==
  /\ alive = TRUE
  /\ lib = NoLibrary
  /\ segs = {}
  /\ held = FALSE
  /\ left = NothingLeft
  /\ requests = [c \in 1..MaxNsb |-> <<>>]
  /\ answers = [c \in 1..MaxNsb |-> <<>>]
  /\ open = {}
  /\ pc = "idle"
  /\ me = 0
  /\ op = "patch"
  /\ page = "none"
  /\ handle = FALSE
  /\ loaded = FALSE
  /\ call = "needed"
  /\ ret = "ok"
  /\ orphan = FALSE
  /\ hit = 0
  /\ blind = FALSE

NsbStep ==
  \/ process_link \/ InjectService \/ service_collect_vmas
  \/ service_local_connect \/ service_remote_accept
  \/ nsb_service_send_request \/ service_run \/ nsb_service_receive_response
  \/ send_fd \/ nsb_service_receive_fd \/ ApplyPatch \/ process_munmap_dl_map
  \/ service_stop \/ process_call_dlclose \/ process_unlink

Next == Start \/ NsbStep \/ Crash

(* nsb runs until it returns or waits.  No fault has to happen: one is not *)
(* to end a wait.                                                          *)
Spec == Init /\ [][Next]_vars /\ WF_vars(NsbStep /\ UNCHANGED hit)

-----------------------------------------------------------------------------
(* The values the variables take: one nsb runs at a time, and the library  *)
(* holds no more connections than its backlog allows.                      *)
TypeOK ==
  /\ alive \in BOOLEAN
  /\ lib \in [refs : 0..MaxNsb, listening : BOOLEAN, backlog : Seq(1..MaxNsb),
              cmd_sock : 1..MaxNsb \union {None}]
  /\ Len(lib.backlog) <= Backlog + 1
  /\ segs \subseteq Segments
  /\ held \in BOOLEAN
  /\ left \in [ref : BOOLEAN, scratch : BOOLEAN, fd : BOOLEAN]
  /\ requests \in [1..MaxNsb -> Seq(Calls \union {"fd"})]
  /\ answers \in [1..MaxNsb -> Seq([to : Calls, ret : {"ok", "fail"}])]
  /\ \A c \in 1..MaxNsb : Len(requests[c]) <= 1 /\ Len(answers[c]) <= 3
  /\ open \subseteq {me}
  /\ me \in 0..MaxNsb
  /\ page \in {"none", "mapped", "bad"}
  /\ {handle, loaded, orphan, blind} \subseteq BOOLEAN
  /\ ret \in {"ok", "fail", "crash"}
  /\ hit \in 0..2

(* nsb_service_accept gives the library the connection of the nsb that is  *)
(* running it, whatever earlier runs left in cmd_sock and in the backlog,  *)
(* unless one of them ended before its connection was accepted.            *)
OwnConnection == loaded /\ ~orphan => lib.cmd_sock = me

(* nsb_service_receive_response returns the answer to the request that was *)
(* sent last, never one of an earlier request, unless it failed before.    *)
AnswerMatches ==
  pc = "recv" /\ answers[me] # <<>> /\ ~blind => Head(answers[me]).to = call

(* nsb links and redirects code only into a patch that is mapped: an "ok"  *)
(* from service_mmap_dlm means that both segments are there, unless an     *)
(* answer could not be received.                                           *)
LinksWhatIsMapped == pc = "relocate" /\ ~blind => segs = Segments

(* A command that returns success leaves nothing of its own in the         *)
(* process: no reference to the library, no scratch page, no descriptor,   *)
(* unless an answer could not be received.                                 *)
LeavesNoTrace ==
  pc = "idle" /\ ret = "ok" /\ ~blind =>
    left = NothingLeft

(* The library never takes the emergency_sigreturn path, which would kill  *)
(* the process, unless some nsb ended before its connection was accepted.  *)
ProcessSurvives == ~orphan => alive

(* A command that meets no failure succeeds, whatever killed or failed     *)
(* commands left behind, with three exceptions: the patch is mapped        *)
(* already, the library stayed loaded without a socket to connect to, or   *)
(* a connection was orphaned in its backlog.                               *)
WorksAfterFailures ==
  pc = "idle" /\ ret = "fail" /\ hit = 0 =>
    \/ op = "patch" /\ segs # {}
    \/ lib.refs > 0 /\ ~lib.listening
    \/ orphan

(* nsb never waits for ever in connect, in recv or in a remote call: every *)
(* command ends, unless a thread was stopped while it held a lock that     *)
(* dlopen needs or a connection was orphaned in the backlog.               *)
CommandEnds == pc # "idle" ~> pc = "idle" \/ held \/ orphan
=============================================================================
