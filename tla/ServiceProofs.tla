---------------------------- MODULE ServiceProofs ----------------------------
(***************************************************************************)
(* Proofs about Service, for any number of nsb runs, any backlog and any   *)
(* set of faults: what a connection, an answer and the result of a command *)
(* mean, whatever killed or failed runs have left in the process.          *)
(***************************************************************************)
EXTENDS Service, SequenceTheorems, TLAPS

(* The steps before, during and after the exchange with the library. *)
Talking == {"send", "run", "recv", "transfer", "receive_fd", "relocate"}
Ending == {"resume", "dlclose", "unlink"}
Before == {"idle", "link", "dlopen", "collect", "connect", "accept"}
Steps == Before \union Talking \union {"unmap"} \union Ending

(* References to the library that earlier runs have left. *)
Others == IF handle THEN lib.refs - 1 ELSE lib.refs

(* How many answers this nsb can have been sent before its next request. *)
Stage == CASE call = "needed" -> 0 [] call = "mmap" -> 1 [] call = "munmap" -> 2

PcInv ==
  /\ pc \in Steps
  /\ call \in Calls
  /\ op \in {"patch", "revert"}
  /\ pc # "idle" => me >= 1
  /\ pc = "idle" => ~handle /\ ~loaded /\ page = "none"
  /\ pc \in {"link", "dlopen", "unmap", "unlink"} => ~handle
  /\ pc \in {"collect", "connect", "accept", "dlclose"} \union Talking => handle
  /\ pc \in {"dlopen", "collect", "connect", "accept"} \union Talking => op = "patch"
  /\ pc \in {"dlopen", "unmap"} => page # "none"
  /\ pc \in {"transfer", "receive_fd"} => call = "needed"
  /\ pc = "relocate" => call = "mmap"
  /\ pc = "link" => page = "none"

(* The library lives as long as someone holds a reference, and a           *)
(* connection that was orphaned shows that someone does.                   *)
LibInv ==
  /\ lib.refs <= me
  /\ pc \in {"link", "dlopen"} => lib.refs < me
  /\ handle => lib.refs >= 1 /\ page = "mapped"
  /\ lib.refs = 0 => ~lib.listening /\ lib.backlog = <<>>
  /\ orphan => Others >= 1
  /\ ~orphan => alive

(* Connections. *)
SocketInv ==
  /\ pc = "accept" => lib.backlog # <<>>
  /\ ~orphan => \/ lib.backlog = <<>>
                \/ lib.backlog = <<me>> /\ pc \in {"accept"} \union Ending
  /\ loaded => pc \in {"resume"} \union Talking
  /\ pc \in Talking => loaded /\ lib.cmd_sock \in 1..MaxNsb
  /\ loaded /\ ~orphan => lib.cmd_sock = me
  /\ pc \in {"recv", "transfer", "receive_fd", "relocate"} => lib.cmd_sock = me
  /\ pc \in {"send", "run"} /\ call # "needed" => lib.cmd_sock = me
  /\ pc \in {"accept"} \union Talking => me \in open
  /\ pc \notin {"accept", "resume"} \union Talking => open = {}

(* Requests and answers. *)
WireInv ==
  /\ \A c \in 1..MaxNsb : c > me => requests[c] = <<>>
  /\ pc \in (Before \ {"idle"}) \union {"send", "recv", "transfer", "relocate"} =>
       requests[me] = <<>>
  /\ pc = "run" => requests[me] = <<call>>
  /\ pc = "receive_fd" => requests[me] = <<"fd">>
  /\ \A c \in 1..MaxNsb :
       \/ requests[c] \in {<<>>, <<"needed">>}
       \/ c = lib.cmd_sock /\ (c = me \/ pc \notin Talking)
  /\ \A c \in 1..MaxNsb : c # me \/ pc \in Before => answers[c] = <<>>
  /\ pc \in {"send", "run"} => Len(answers[me]) <= Stage
  /\ pc \in {"recv", "transfer", "receive_fd", "relocate"} => Len(answers[me]) <= Stage + 1
  /\ pc \notin {"idle", "recv"} /\ ~blind => answers[me] = <<>>
  /\ pc = "recv" /\ ~blind =>
       \E r \in {"ok", "fail"} :
         /\ answers[me] = <<[to |-> call, ret |-> r]>>
         /\ r = "ok" \/ hit # 0
         /\ call = "mmap" /\ r = "ok" => segs = Segments /\ ~left.fd

(* What the command leaves, and why it fails. *)
ResultInv ==
  /\ pc = "relocate" /\ ~blind => segs = Segments
  /\ ret = "ok" /\ ~blind /\ left.fd => pc \in {"send", "run", "recv"} /\ call = "mmap"
  /\ pc \in {"send", "run", "recv"} /\ call = "munmap" => ret = "fail"
  /\ pc # "idle" => /\ left.ref <=> handle
                    /\ left.scratch <=> page = "mapped"
                    /\ ret # "crash"
  /\ pc = "idle" /\ ret = "ok" /\ ~blind => left = NothingLeft
  /\ page = "bad" \/ blind => hit # 0
  /\ handle /\ hit = 0 /\ ~lib.listening => Others >= 1
  /\ ret = "fail" /\ hit = 0 =>
       /\ pc \in {"idle"} \union Ending
       /\ \/ op = "patch" /\ segs # {}
          \/ Others >= 1 /\ ~lib.listening
          \/ orphan

IInv == TypeOK /\ PcInv /\ LibInv /\ SocketInv /\ WireInv /\ ResultInv

-----------------------------------------------------------------------------
Answers == [to : Calls, ret : {"ok", "fail"}]

(* The types, one by one. *)
LEMMA Types ==
  ASSUME TypeOK
  PROVE  /\ alive \in BOOLEAN /\ held \in BOOLEAN /\ handle \in BOOLEAN
         /\ loaded \in BOOLEAN /\ orphan \in BOOLEAN /\ blind \in BOOLEAN
         /\ lib.refs \in Nat /\ lib.refs <= MaxNsb /\ lib.listening \in BOOLEAN
         /\ lib.backlog \in Seq(1..MaxNsb) /\ Len(lib.backlog) \in Nat
         /\ left.ref \in BOOLEAN /\ left.scratch \in BOOLEAN /\ left.fd \in BOOLEAN
         /\ requests \in [1..MaxNsb -> Seq(Calls \union {"fd"})]
         /\ answers \in [1..MaxNsb -> Seq(Answers)]
         /\ \A c \in 1..MaxNsb : /\ Len(requests[c]) \in Nat /\ Len(requests[c]) <= 1
                                 /\ Len(answers[c]) \in Nat /\ Len(answers[c]) <= 3
         /\ me \in Nat /\ me <= MaxNsb /\ MaxNsb \in Nat
         /\ hit \in 0..2
<1>1. /\ alive \in BOOLEAN /\ held \in BOOLEAN /\ handle \in BOOLEAN
      /\ loaded \in BOOLEAN /\ orphan \in BOOLEAN /\ blind \in BOOLEAN
      /\ left.ref \in BOOLEAN /\ left.scratch \in BOOLEAN /\ left.fd \in BOOLEAN
      /\ lib.listening \in BOOLEAN
  BY Zenon DEF TypeOK
<1>2. /\ lib.refs \in Nat /\ lib.refs <= MaxNsb
      /\ me \in Nat /\ me <= MaxNsb /\ MaxNsb \in Nat
      /\ hit \in 0..2
  BY ServiceAssumption DEF TypeOK
<1>3. lib.backlog \in Seq(1..MaxNsb) /\ Len(lib.backlog) \in Nat
  BY LenProperties, Zenon DEF TypeOK
<1>4. /\ requests \in [1..MaxNsb -> Seq(Calls \union {"fd"})]
      /\ answers \in [1..MaxNsb -> Seq(Answers)]
  BY Zenon DEF TypeOK, Answers
<1>5. \A c \in 1..MaxNsb : /\ Len(requests[c]) \in Nat /\ Len(requests[c]) <= 1
                           /\ Len(answers[c]) \in Nat /\ Len(answers[c]) <= 3
  BY <1>4, LenProperties, Zenon DEF TypeOK
<1> QED
  BY <1>1, <1>2, <1>3, <1>4, <1>5, Zenon

LEMMA HitFacts ==
  ASSUME TypeOK, Hit
  PROVE  hit' \in 0..2 /\ hit' # 0
BY DEF Hit, TypeOK

(* A process that no nsb has touched. *)
LEMMA IInvInit == Init => IInv
<1> SUFFICES ASSUME Init PROVE IInv
  BY Zenon
<1>1. TypeOK
  <2>1. /\ <<>> \in Seq(1..MaxNsb) /\ <<>> \in Seq(Calls \union {"fd"})
        /\ <<>> \in Seq([to : Calls, ret : {"ok", "fail"}]) /\ Len(<<>>) = 0
    BY EmptySeq, Zenon
  <2>2. /\ lib \in [refs : 0..MaxNsb, listening : BOOLEAN, backlog : Seq(1..MaxNsb),
                    cmd_sock : 1..MaxNsb \union {None}]
        /\ Len(lib.backlog) <= Backlog + 1
    <3>1. 0 \in 0..MaxNsb /\ 0 <= Backlog + 1
      BY ServiceAssumption
    <3> QED
      BY <2>1, <3>1, Zenon DEF Init, NoLibrary
  <2>3. /\ requests \in [1..MaxNsb -> Seq(Calls \union {"fd"})]
        /\ answers \in [1..MaxNsb -> Seq([to : Calls, ret : {"ok", "fail"}])]
        /\ \A c \in 1..MaxNsb : Len(requests[c]) <= 1 /\ Len(answers[c]) <= 3
    BY <2>1 DEF Init
  <2>4. /\ me \in 0..MaxNsb /\ hit \in 0..2 /\ open \subseteq {me}
        /\ left \in [ref : BOOLEAN, scratch : BOOLEAN, fd : BOOLEAN]
    BY ServiceAssumption DEF Init, NothingLeft
  <2> QED
    BY <2>2, <2>3, <2>4, Zenon DEF Init, TypeOK
<1>2. PcInv
  BY Zenon DEF Init, PcInv, Steps, Before, Talking, Calls
<1>3. LibInv
  BY DEF Init, LibInv, NoLibrary, Others
<1>4. SocketInv
  BY Zenon DEF Init, SocketInv, NoLibrary, Talking
<1>5. WireInv
  BY Zenon DEF Init, WireInv, Before
<1>6. ResultInv
  BY Zenon DEF Init, ResultInv, NothingLeft
<1> QED
  BY <1>1, <1>2, <1>3, <1>4, <1>5, <1>6, Zenon DEF IInv

-----------------------------------------------------------------------------
(* A command that fails goes to process_resume: by a fault, or with one of *)
(* the three excuses of WorksAfterFailures.                                *)
LEMMA CommandFails ==
  ASSUME IInv, pc \in {"link", "dlopen", "collect", "connect", "accept", "unmap"}
                      \union Talking,
         pc' = "resume", ret' = "fail",
         UNCHANGED <<lib, held, open, me, op, page, handle, loaded, call, orphan>>,
         alive' \in BOOLEAN, ~orphan => alive',
         segs' \subseteq Segments,
         left' \in [ref : BOOLEAN, scratch : BOOLEAN, fd : BOOLEAN],
         left'.ref = left.ref, left'.scratch = left.scratch,
         requests' \in [1..MaxNsb -> Seq(Calls \union {"fd"})],
         answers' \in [1..MaxNsb -> Seq([to : Calls, ret : {"ok", "fail"}])],
         \A c \in 1..MaxNsb : /\ Len(requests'[c]) <= 1 /\ Len(answers'[c]) <= 3
                              /\ c > me => requests'[c] = <<>>
                              /\ requests'[c] \in {<<>>, <<"needed">>} \/ c = lib.cmd_sock
                              /\ c # me => answers'[c] = <<>>,
         ~blind' => answers'[me] = <<>>,
         hit' \in 0..2, blind' \in BOOLEAN, blind' => hit' # 0,
         \/ hit' # 0
         \/ /\ hit' = hit
            /\ \/ op = "patch" /\ segs' # {}
               \/ Others >= 1 /\ ~lib.listening
               \/ orphan
  PROVE  IInv'
<1>1. TypeOK'
  BY Zenon DEF IInv, TypeOK
<1>2. PcInv'
  BY Zenon DEF IInv, PcInv, Steps, Before, Talking, Ending
<1>3. LibInv'
  BY Zenon DEF IInv, LibInv, Others
<1>4. SocketInv'
  BY Zenon DEF IInv, SocketInv, Talking, Ending
<1>5. WireInv'
  BY Zenon DEF WireInv, Before, Talking
<1>6. ResultInv'
  BY Zenon DEF IInv, PcInv, ResultInv, Others, Talking, Ending
<1> QED
  BY <1>1, <1>2, <1>3, <1>4, <1>5, <1>6, Zenon DEF IInv

(* The same when nothing else changes. *)
LEMMA PlainFailure ==
  ASSUME IInv, pc \in {"link", "dlopen", "collect", "connect", "accept", "unmap",
                       "send", "run", "transfer", "receive_fd"},
         pc' = "resume", ret' = "fail",
         UNCHANGED <<process, wires, me, op, page, handle, loaded, call, orphan, blind>>,
         \/ Hit
         \/ /\ hit' = hit
            /\ \/ op = "patch" /\ segs # {}
               \/ Others >= 1 /\ ~lib.listening
               \/ ~alive
               \/ hit # 0
  PROVE  IInv'
<1>1. /\ UNCHANGED <<alive, lib, segs, held, left, requests, answers, open>>
      /\ UNCHANGED <<me, op, page, handle, loaded, call, orphan, blind>>
  BY Zenon DEF process, wires
<1>2. /\ \A c \in 1..MaxNsb : /\ c > me => requests[c] = <<>>
                              /\ requests[c] \in {<<>>, <<"needed">>} \/ c = lib.cmd_sock
                              /\ c # me => answers[c] = <<>>
      /\ ~blind => answers[me] = <<>>
      /\ ~orphan => alive
      /\ blind => hit # 0
  BY Zenon DEF IInv, WireInv, LibInv, ResultInv
<1>3. TypeOK
  BY Zenon DEF IInv
<1>4. Hit => hit' \in 0..2 /\ hit' # 0
  BY <1>3, HitFacts, Zenon
<1>5. hit' \in 0..2
  BY <1>3, <1>4, Zenon DEF TypeOK
<1>6. /\ alive' \in BOOLEAN /\ segs' \subseteq Segments
      /\ left' \in [ref : BOOLEAN, scratch : BOOLEAN, fd : BOOLEAN]
      /\ requests' \in [1..MaxNsb -> Seq(Calls \union {"fd"})]
      /\ answers' \in [1..MaxNsb -> Seq([to : Calls, ret : {"ok", "fail"}])]
      /\ blind' \in BOOLEAN
  BY <1>1, <1>3, Zenon DEF TypeOK
<1>7. /\ \A c \in 1..MaxNsb : /\ Len(requests'[c]) <= 1 /\ Len(answers'[c]) <= 3
                              /\ c > me => requests'[c] = <<>>
                              /\ requests'[c] \in {<<>>, <<"needed">>} \/ c = lib.cmd_sock
                              /\ c # me => answers'[c] = <<>>
      /\ ~blind' => answers'[me] = <<>>
      /\ ~orphan => alive'
      /\ left'.ref = left.ref /\ left'.scratch = left.scratch
  BY <1>1, <1>2, <1>3 DEF TypeOK
<1>8. blind' => hit' # 0
  BY <1>1, <1>2, <1>4
<1>9. pc \in {"link", "dlopen", "collect", "connect", "accept", "unmap"} \union Talking
  BY Zenon DEF Talking
<1>10. \/ hit' # 0
       \/ /\ hit' = hit
          /\ \/ op = "patch" /\ segs' # {}
             \/ Others >= 1 /\ ~lib.listening
             \/ orphan
  BY <1>1, <1>2, <1>4, Zenon
<1> QED
  BY <1>1, <1>5, <1>6, <1>7, <1>8, <1>9, <1>10, CommandFails, Zenon

(* Without a fault a remote call fails only in a process that is dead. *)
LEMMA CannotReachFault ==
  ASSUME IInv, CannotReach, pc \in {"dlopen", "accept"} \union Talking
  PROVE  Hit \/ (hit' = hit /\ (~alive \/ hit # 0))
<1>1. page \in {"mapped", "bad"}
  BY Zenon DEF IInv, TypeOK, PcInv, LibInv, Talking
<1>2. page = "bad" => hit # 0
  BY Zenon DEF IInv, ResultInv
<1> QED
  BY <1>1, <1>2, Zenon DEF CannotReach, Reachable, Fault

-----------------------------------------------------------------------------
LEMMA StepStart ==
  ASSUME IInv, Start
  PROVE  IInv'
<1>1. /\ pc = "idle" /\ pc' = "link" /\ me < MaxNsb /\ alive /\ me' = me + 1
      /\ op' \in {"patch", "revert"} /\ held' \in BOOLEAN /\ left' = NothingLeft
      /\ ret' = "ok" /\ hit' = 0 /\ blind' = FALSE
      /\ UNCHANGED <<alive, lib, segs, requests, answers, open, page, handle, loaded,
                     call, orphan>>
  <2>1. op' \in {"patch", "revert"}
    BY Zenon DEF Start
  <2>2. held' \in BOOLEAN
    <3>1. held' \in {FALSE, "lock" \in Faults}
      BY Zenon DEF Start
    <3>2. ("lock" \in Faults) \in BOOLEAN
      OBVIOUS
    <3> QED
      BY <3>1, <3>2, Zenon
  <2> QED
    BY <2>1, <2>2, Zenon DEF Start, Goto, wires
<1>2. /\ me \in Nat /\ MaxNsb \in Nat /\ lib.refs \in Nat /\ handle \in BOOLEAN
      /\ orphan \in BOOLEAN /\ open = {} /\ ~handle /\ page = "none" /\ ~loaded
  BY <1>1, Types, Zenon DEF IInv, PcInv, SocketInv, Talking
<1>3. TypeOK'
  <2>1. me' \in 0..MaxNsb /\ hit' \in 0..2
    BY <1>1, <1>2
  <2>2. left' \in [ref : BOOLEAN, scratch : BOOLEAN, fd : BOOLEAN]
    BY <1>1, Zenon DEF NothingLeft
  <2> QED
    BY <1>1, <1>2, <2>1, <2>2, Zenon DEF IInv, TypeOK
<1>4. PcInv'
  BY <1>1, <1>2 DEF IInv, PcInv, Steps, Before, Talking, Ending
<1>5. LibInv'
  BY <1>1, <1>2 DEF IInv, LibInv, Others
<1>6. SocketInv'
  BY <1>1, <1>2, Zenon DEF IInv, SocketInv, Talking, Ending
<1>7. WireInv'
  <2>1. me' \in 1..MaxNsb /\ me' > me /\ \A c \in 1..MaxNsb : c > me' => c > me
    BY <1>1, <1>2
  <2>2. requests[me'] = <<>> /\ \A c \in 1..MaxNsb : answers[c] = <<>>
    BY <1>1, <2>1, Zenon DEF IInv, WireInv, Before
  <2> QED
    BY <1>1, <2>1, <2>2, Zenon DEF IInv, WireInv, Before, Talking
<1>8. ResultInv'
  BY <1>1, <1>2, Zenon DEF IInv, ResultInv, NothingLeft
<1> QED
  BY <1>3, <1>4, <1>5, <1>6, <1>7, <1>8, Zenon DEF IInv

LEMMA Step_process_link ==
  ASSUME IInv, process_link
  PROVE  IInv'
<1>1. CASE Fault("link") /\ Fail("resume") /\ UNCHANGED <<page, left>>
  <2>1. /\ pc = "link" /\ pc' = "resume" /\ ret' = "fail" /\ Hit
        /\ UNCHANGED <<process, wires, me, op, page, handle, loaded, call, orphan, blind>>
    BY <1>1, Zenon DEF process_link, Fault, Fail, Goto, process
  <2> QED
    BY <2>1, PlainFailure, Zenon
<1>2. CASE /\ pc' \in {"dlopen", "unmap"} /\ ret' = ret
           /\ \/ page' = "mapped" /\ left' = [left EXCEPT !.scratch = TRUE] /\ hit' = hit
              \/ page' = "bad" /\ left' = left /\ Hit
           /\ pc' = "dlopen" => op = "patch"
  <2>1. /\ pc = "link"
        /\ UNCHANGED <<alive, lib, segs, held, requests, answers, open, me, op, handle,
                       loaded, call, orphan, blind>>
    BY Zenon DEF process_link, wires
  <2>2. /\ hit' \in 0..2 /\ (hit' = hit \/ hit' # 0)
        /\ page' = "bad" => hit' # 0
        /\ page' \in {"mapped", "bad"}
    BY <1>2, HitFacts, Zenon DEF IInv, TypeOK
  <2>3. /\ left' \in [ref : BOOLEAN, scratch : BOOLEAN, fd : BOOLEAN]
        /\ left'.ref = left.ref /\ left'.fd = left.fd
        /\ left'.scratch <=> page' = "mapped"
    <3>1. left \in [ref : BOOLEAN, scratch : BOOLEAN, fd : BOOLEAN] /\ ~left.scratch
      BY <2>1, Zenon DEF IInv, TypeOK, PcInv, ResultInv
    <3> QED
      BY <1>2, <3>1, Zenon
  <2>4. TypeOK'
    BY <1>2, <2>1, <2>2, <2>3, Zenon DEF IInv, TypeOK
  <2>5. PcInv'
    BY <1>2, <2>1, <2>2, Zenon DEF IInv, PcInv, Steps, Before, Talking, Ending
  <2>6. LibInv' /\ SocketInv' /\ WireInv'
    BY <1>2, <2>1, <2>2, Zenon
    DEF IInv, PcInv, LibInv, SocketInv, WireInv, Others, Before, Talking, Ending
  <2>7. ResultInv'
    BY <1>2, <2>1, <2>2, <2>3, Zenon DEF IInv, PcInv, ResultInv, Others, Ending
  <2> QED
    BY <2>4, <2>5, <2>6, <2>7, Zenon DEF IInv
<1> QED
  BY <1>1, <1>2, Zenon DEF process_link, Fault, Fail, Goto

LEMMA StepInjectService ==
  ASSUME IInv, InjectService
  PROVE  IInv'
<1>1. /\ pc = "dlopen" /\ op = "patch" /\ ~handle
      /\ UNCHANGED <<alive, segs, held, requests, answers, open, me, op, page, loaded,
                     call, orphan, blind>>
  BY Zenon DEF InjectService, wires, IInv, PcInv
<1>2. CASE /\ pc' = "resume" /\ ret' = "fail" /\ UNCHANGED <<lib, left, handle>>
           /\ (segs # {} /\ hit' = hit) \/ CannotReach \/ Fault("dlopen")
  <2>1. Hit \/ (hit' = hit /\ ((op = "patch" /\ segs # {}) \/ ~alive \/ hit # 0))
    BY <1>1, <1>2, CannotReachFault, Zenon DEF Fault
  <2> QED
    BY <1>1, <1>2, <2>1, PlainFailure, Zenon DEF process, wires
<1>3. CASE /\ Reachable /\ pc' = "collect" /\ ret' = ret /\ handle' = TRUE
           /\ left' = [left EXCEPT !.ref = TRUE]
           /\ \/ /\ lib' = [lib EXCEPT !.refs = @ + 1,
                                       !.listening = @ \/ lib.refs = 0]
                 /\ hit' = hit
              \/ /\ lib.refs = 0
                 /\ Hit
                 /\ lib' = [lib EXCEPT !.refs = 1]
  <2>1. /\ lib.refs \in Nat /\ lib.refs < me /\ me \in Nat /\ me <= MaxNsb /\ MaxNsb \in Nat
        /\ lib.listening \in BOOLEAN /\ hit \in 0..2 /\ orphan \in BOOLEAN
        /\ page = "mapped" /\ alive
    BY <1>1, <1>3, Types, Zenon DEF IInv, LibInv, Reachable
  <2>2. /\ lib' \in [refs : 0..MaxNsb, listening : BOOLEAN, backlog : Seq(1..MaxNsb),
                     cmd_sock : 1..MaxNsb \union {None}]
        /\ lib'.refs = lib.refs + 1
        /\ lib'.backlog = lib.backlog /\ lib'.cmd_sock = lib.cmd_sock
        /\ lib'.listening \/ lib.refs >= 1 \/ hit' # 0
        /\ hit' \in 0..2
    <3>1. lib \in [refs : 0..MaxNsb, listening : BOOLEAN, backlog : Seq(1..MaxNsb),
                   cmd_sock : 1..MaxNsb \union {None}] /\ lib.refs + 1 \in 0..MaxNsb
      BY <2>1 DEF IInv, TypeOK
    <3>2. CASE /\ lib' = [lib EXCEPT !.refs = @ + 1, !.listening = @ \/ lib.refs = 0]
               /\ hit' = hit
      <4> DEFINE heard == lib.listening \/ lib.refs = 0
      <4>1. heard \in BOOLEAN /\ (heard \/ lib.refs >= 1)
        BY <2>1
      <4>2. lib' = [[lib EXCEPT !.refs = lib.refs + 1] EXCEPT !.listening = heard]
        BY <3>2, Zenon
      <4> HIDE DEF heard
      <4> QED
        BY <2>1, <3>1, <3>2, <4>1, <4>2, Zenon
    <3>3. CASE lib.refs = 0 /\ Hit /\ lib' = [lib EXCEPT !.refs = 1]
      <4>1. hit' \in 0..2 /\ hit' # 0
        BY <3>3, HitFacts, Zenon DEF IInv
      <4>2. 1 \in 0..MaxNsb /\ lib.refs + 1 = 1
        BY <2>1, <3>3
      <4>3. lib' = [lib EXCEPT !.refs = 1]
        BY <3>3, Zenon
      <4> QED
        BY <3>1, <4>1, <4>2, <4>3, Zenon
    <3> QED
      BY <1>3, <3>2, <3>3, Zenon
  <2>3. /\ left' \in [ref : BOOLEAN, scratch : BOOLEAN, fd : BOOLEAN]
        /\ left'.ref /\ left'.fd = left.fd /\ left'.scratch = left.scratch
    BY <1>3, Zenon DEF IInv, TypeOK
  <2>4. hit' = hit \/ hit' # 0
    BY <1>3, HitFacts, Zenon DEF IInv
  <2>5. TypeOK'
    BY <1>1, <1>3, <2>2, <2>3, Zenon DEF IInv, TypeOK
  <2>6. PcInv'
    BY <1>1, <1>3, <2>1, Zenon DEF IInv, PcInv, Steps, Before, Talking, Ending
  <2>7. LibInv'
    BY <1>1, <1>3, <2>1, <2>2 DEF IInv, LibInv, Others
  <2>8. SocketInv' /\ WireInv'
    BY <1>1, <1>3, <2>2, Zenon DEF IInv, SocketInv, WireInv, Before, Talking, Ending
  <2>9. ResultInv'
    BY <1>1, <1>3, <2>1, <2>2, <2>3, <2>4 DEF IInv, ResultInv, Others, Ending
  <2> QED
    BY <2>5, <2>6, <2>7, <2>8, <2>9, Zenon DEF IInv
<1> QED
  BY <1>2, <1>3, Zenon DEF InjectService, Fault, Fail, Goto

LEMMA Step_service_collect_vmas ==
  ASSUME IInv, service_collect_vmas
  PROVE  IInv'
<1>1. /\ pc = "collect"
      /\ UNCHANGED <<process, wires, me, op, page, handle, loaded, call, orphan, blind>>
      /\ \/ pc' = "connect" /\ UNCHANGED <<ret, hit>>
         \/ Hit /\ pc' = "resume" /\ ret' = "fail"
  BY Zenon DEF service_collect_vmas, Fault, Fail, Goto
<1>2. CASE pc' = "connect" /\ UNCHANGED <<ret, hit>>
  <2>1. UNCHANGED <<alive, lib, segs, held, left, requests, answers, open>>
    BY <1>1, Zenon DEF process, wires
  <2>2. TypeOK'
    BY <1>1, <1>2, <2>1, ZenonT(60) DEF IInv, TypeOK
  <2>3. PcInv'
    BY <1>1, <1>2, <2>1, Zenon DEF IInv, PcInv, Steps, Before, Talking, Ending
  <2>4. LibInv' /\ SocketInv' /\ WireInv' /\ ResultInv'
    BY <1>1, <1>2, <2>1
    DEF IInv, LibInv, SocketInv, WireInv, ResultInv, Others, Before, Talking, Ending
  <2> QED
    BY <2>2, <2>3, <2>4, Zenon DEF IInv
<1> QED
  BY <1>1, <1>2, PlainFailure, Zenon

(* A connection waits behind those that earlier runs have left. *)
LEMMA Step_service_local_connect ==
  ASSUME IInv, service_local_connect
  PROVE  IInv'
<1>1. /\ pc = "connect" /\ handle /\ op = "patch"
      /\ UNCHANGED <<alive, segs, held, left, requests, answers, me, op, page, handle,
                     loaded, call, orphan, blind>>
  BY Zenon DEF service_local_connect, IInv, PcInv
<1>2. CASE /\ pc' = "resume" /\ ret' = "fail" /\ UNCHANGED <<lib, open>>
           /\ (~lib.listening /\ UNCHANGED hit) \/ Fault("connect")
  <2>1. Hit \/ (hit' = hit /\ ((Others >= 1 /\ ~lib.listening) \/ hit # 0))
    BY <1>1, <1>2, Zenon DEF Fault, IInv, ResultInv
  <2> QED
    BY <1>1, <1>2, <2>1, PlainFailure, Zenon DEF process, wires
<1>3. CASE /\ lib.listening /\ Len(lib.backlog) <= Backlog
           /\ lib' = [lib EXCEPT !.backlog = Append(@, me)]
           /\ open' = open \union {me} /\ pc' = "accept" /\ UNCHANGED <<ret, hit>>
  <2>1. /\ lib.backlog \in Seq(1..MaxNsb) /\ Len(lib.backlog) \in Nat /\ me \in 1..MaxNsb
        /\ orphan \in BOOLEAN /\ Backlog \in Nat
    BY <1>1, Types, ServiceAssumption DEF IInv, PcInv
  <2>2. /\ Append(lib.backlog, me) \in Seq(1..MaxNsb)
        /\ Len(Append(lib.backlog, me)) = Len(lib.backlog) + 1
    BY <2>1, AppendProperties
  <2>3. Append(lib.backlog, me) # <<>> /\ Len(Append(lib.backlog, me)) <= Backlog + 1
    <3>1. Len(Append(lib.backlog, me)) # 0
      BY <2>1, <2>2
    <3> QED
      BY <1>3, <2>1, <2>2, <3>1, EmptySeq
  <2>4. /\ lib' \in [refs : 0..MaxNsb, listening : BOOLEAN, backlog : Seq(1..MaxNsb),
                     cmd_sock : 1..MaxNsb \union {None}]
        /\ lib'.refs = lib.refs /\ lib'.listening = lib.listening
        /\ lib'.backlog = Append(lib.backlog, me)
    BY <1>3, <2>2, Zenon DEF IInv, TypeOK
  <2>5. ~orphan => lib'.backlog = <<me>>
    <3>1. ~orphan => lib.backlog = <<>>
      BY <1>1, Zenon DEF IInv, SocketInv, Ending
    <3>2. Append(<<>>, me) = <<me>>
      OBVIOUS
    <3> QED
      BY <2>4, <3>1, <3>2, Zenon
  <2>6. TypeOK'
    BY <1>1, <1>3, <2>3, <2>4, Zenon DEF IInv, TypeOK
  <2>7. PcInv'
    BY <1>1, <1>3, Zenon DEF IInv, PcInv, Steps, Before, Talking, Ending
  <2>8. LibInv'
    <3>1. lib.refs # 0
      BY <1>3, Zenon DEF IInv, LibInv
    <3> QED
      BY <1>1, <1>3, <2>4, <3>1, Zenon DEF IInv, LibInv, Others
  <2>9. SocketInv'
    BY <1>1, <1>3, <2>3, <2>4, <2>5, Zenon DEF IInv, SocketInv, Talking, Ending
  <2>10. WireInv'
    <3>1. lib'.cmd_sock = lib.cmd_sock
      BY <1>3, Zenon DEF IInv, TypeOK
    <3> QED
      BY <1>1, <1>3, <3>1, Zenon DEF IInv, WireInv, Before, Talking
  <2>11. ResultInv'
    BY <1>1, <1>3, <2>4, Zenon DEF IInv, ResultInv, Others, Ending
  <2> QED
    BY <2>6, <2>7, <2>8, <2>9, <2>10, <2>11, Zenon DEF IInv
<1> QED
  BY <1>2, <1>3, Zenon DEF service_local_connect, Fail, Goto

(* nsb_service_accept takes the one that has waited longest: it is the one *)
(* of this nsb when none was orphaned.                                     *)
LEMMA Step_service_remote_accept ==
  ASSUME IInv, service_remote_accept
  PROVE  IInv'
<1>1. /\ pc = "accept" /\ handle /\ op = "patch"
      /\ UNCHANGED <<alive, segs, held, left, answers, open, me, op, page, handle,
                     orphan, blind>>
  BY Zenon DEF service_remote_accept, IInv, PcInv
<1>2. CASE /\ CannotReach /\ pc' = "resume" /\ ret' = "fail"
           /\ UNCHANGED <<lib, requests, loaded, call>>
  <2>1. Hit \/ (hit' = hit /\ (~alive \/ hit # 0))
    BY <1>1, <1>2, CannotReachFault, Zenon
  <2> QED
    BY <1>1, <1>2, <2>1, PlainFailure, Zenon DEF process, wires
<1>3. CASE /\ CanReach /\ lib' = nsb_service_accept(lib)
           /\ requests' = [c \in 1..MaxNsb |->
                             IF c = lib.cmd_sock THEN <<>> ELSE requests[c]]
           /\ loaded' = TRUE /\ call' = "needed" /\ pc' = "send" /\ ret' = ret
  <2>1. /\ lib.backlog \in Seq(1..MaxNsb) /\ lib.backlog # <<>>
        /\ me \in 1..MaxNsb /\ orphan \in BOOLEAN /\ hit' = hit
        /\ Len(lib.backlog) \in Nat /\ Len(lib.backlog) <= Backlog + 1 /\ Backlog \in Nat
    BY <1>1, <1>3, Types, ServiceAssumption DEF IInv, TypeOK, PcInv, SocketInv, CanReach
  <2>2. /\ Head(lib.backlog) \in 1..MaxNsb
        /\ Tail(lib.backlog) \in Seq(1..MaxNsb)
        /\ Len(Tail(lib.backlog)) = Len(lib.backlog) - 1
    BY <2>1, HeadTailProperties, Zenon
  <2>3. Len(Tail(lib.backlog)) <= Backlog + 1
    BY <2>1, <2>2
  <2>4. /\ lib' \in [refs : 0..MaxNsb, listening : BOOLEAN, backlog : Seq(1..MaxNsb),
                     cmd_sock : 1..MaxNsb \union {None}]
        /\ lib'.refs = lib.refs /\ lib'.listening = lib.listening
        /\ lib'.backlog = Tail(lib.backlog) /\ lib'.cmd_sock = Head(lib.backlog)
    BY <1>3, <2>2, Zenon DEF IInv, TypeOK, nsb_service_accept
  <2>5. ~orphan => lib'.backlog = <<>> /\ lib'.cmd_sock = me
    <3>1. ~orphan => lib.backlog = <<me>>
      BY <2>1, Zenon DEF IInv, SocketInv
    <3>2. Tail(<<me>>) = <<>> /\ Head(<<me>>) = me
      OBVIOUS
    <3> QED
      BY <2>4, <3>1, <3>2, Zenon
  <2>6. /\ requests' \in [1..MaxNsb -> Seq(Calls \union {"fd"})]
        /\ \A c \in 1..MaxNsb : /\ Len(requests'[c]) <= 1
                                /\ requests[c] = <<>> => requests'[c] = <<>>
    <3>1. <<>> \in Seq(Calls \union {"fd"}) /\ Len(<<>>) = 0
      BY EmptySeq, Zenon
    <3> QED
      BY <1>3, <3>1, Types DEF IInv
  <2>7. TypeOK'
    BY <1>1, <1>3, <2>1, <2>3, <2>4, <2>6, Zenon DEF IInv, TypeOK
  <2>8. PcInv'
    BY <1>1, <1>3, Zenon DEF IInv, PcInv, Steps, Before, Talking, Ending, Calls
  <2>9. LibInv'
    <3>1. lib.refs # 0
      BY <2>1, Zenon DEF IInv, LibInv
    <3> QED
      BY <1>1, <1>3, <2>4, <3>1, Zenon DEF IInv, LibInv, Others
  <2>10. SocketInv'
    BY <1>1, <1>3, <2>2, <2>4, <2>5, Zenon DEF IInv, SocketInv, Talking, Ending
  <2>11. WireInv'
    <3>1. answers[me] = <<>> /\ requests[me] = <<>> /\ Len(<<>>) = 0
      BY <1>1, <2>1, Zenon DEF IInv, WireInv, Before
    <3>2. Stage' = 0
      BY <1>3, Zenon DEF Stage
    <3> QED
      BY <1>1, <1>3, <2>1, <2>6, <3>1, <3>2 DEF IInv, WireInv, Before
  <2>12. ResultInv'
    BY <1>1, <1>3, <2>1, <2>4, Zenon DEF IInv, ResultInv, Others, Ending
  <2> QED
    BY <2>7, <2>8, <2>9, <2>10, <2>11, <2>12, Zenon DEF IInv
<1> QED
  BY <1>2, <1>3, Zenon DEF service_remote_accept, Fail, Goto

-----------------------------------------------------------------------------
LEMMA Single ==
  \A s, x : s = <<x>> => s # <<>> /\ Len(s) = 1 /\ Head(s) = x /\ Tail(s) = <<>>
OBVIOUS

LEMMA Step_nsb_service_send_request ==
  ASSUME IInv, nsb_service_send_request
  PROVE  IInv'
<1>1. /\ pc = "send"
      /\ UNCHANGED <<process, answers, open, me, op, page, handle, loaded, call, orphan,
                     blind>>
  BY Zenon DEF nsb_service_send_request
<1>2. CASE Hit /\ pc' = "resume" /\ ret' = "fail" /\ requests' = requests
  BY <1>1, <1>2, PlainFailure, Zenon DEF wires
<1>3. CASE /\ requests' = [requests EXCEPT ![me] = Append(@, call)]
           /\ pc' = "run" /\ UNCHANGED <<ret, hit>>
  <2>1. /\ UNCHANGED <<alive, lib, segs, held, left>>
        /\ me \in 1..MaxNsb /\ call \in Calls /\ requests[me] = <<>>
        /\ requests \in [1..MaxNsb -> Seq(Calls \union {"fd"})]
    <3>1. UNCHANGED <<alive, lib, segs, held, left>>
      BY <1>1, Zenon DEF process
    <3>2. /\ me \in 1..MaxNsb /\ call \in Calls
          /\ requests \in [1..MaxNsb -> Seq(Calls \union {"fd"})]
      BY <1>1, Types DEF IInv, PcInv
    <3>3. requests[me] = <<>>
      BY <1>1, Zenon DEF IInv, WireInv
    <3> QED
      BY <3>1, <3>2, <3>3, Zenon
  <2>2. /\ Append(<<>>, call) = <<call>> /\ Len(<<call>>) = 1
        /\ <<call>> \in Seq(Calls \union {"fd"})
    BY <2>1
  <2>3. /\ requests' \in [1..MaxNsb -> Seq(Calls \union {"fd"})]
        /\ requests'[me] = <<call>>
        /\ \A c \in 1..MaxNsb : c # me => requests'[c] = requests[c]
    BY <1>3, <2>1, <2>2, Zenon
  <2>4. TypeOK'
    <3>1. \A c \in 1..MaxNsb : Len(requests[c]) <= 1 /\ Len(answers[c]) <= 3
      BY Types, Zenon DEF IInv
    <3>2. ASSUME NEW c \in 1..MaxNsb
          PROVE  Len(requests'[c]) <= 1
      <4>1. CASE c = me
        <5>1. requests'[c] = <<call>>
          BY <2>3, <4>1, Zenon
        <5>2. Len(requests'[c]) = 1
          BY <5>1, Single, Zenon
        <5> QED
          BY <5>2
      <4>2. CASE c # me
        BY <2>3, <3>1, <4>2, Zenon
      <4> QED
        BY <4>1, <4>2, Zenon
    <3> QED
      BY <1>1, <1>3, <2>1, <2>3, <3>1, <3>2, ZenonT(60) DEF IInv, TypeOK
  <2>5. PcInv'
    BY <1>1, <1>3, Zenon DEF IInv, PcInv, Steps, Before, Talking, Ending
  <2>6. LibInv' /\ SocketInv'
    BY <1>1, <1>3, <2>1, Zenon DEF IInv, LibInv, SocketInv, Others, Talking, Ending
  <2>7. WireInv'
    <3>1. call # "needed" => lib.cmd_sock = me
      BY <1>1, Zenon DEF IInv, SocketInv
    <3>2. Stage' = Stage
      BY <1>1, Zenon DEF Stage
    <3>3. \A c \in 1..MaxNsb : c # me => /\ c > me => requests[c] = <<>>
                                         /\ requests[c] \in {<<>>, <<"needed">>}
                                         /\ answers[c] = <<>>
      BY <1>1, Zenon DEF IInv, WireInv, Talking
    <3>4. Len(answers[me]) <= Stage /\ (~blind => answers[me] = <<>>)
      BY <1>1, Zenon DEF IInv, WireInv
    <3>5. ASSUME NEW c \in 1..MaxNsb
          PROVE  /\ c > me => requests'[c] = <<>>
                 /\ requests'[c] \in {<<>>, <<"needed">>} \/ (c = lib.cmd_sock /\ c = me)
      <4>1. CASE c = me
        <5>1. ~(c > me)
          BY <4>1
        <5>2. requests'[c] = <<call>>
          BY <2>3, <4>1, Zenon
        <5>3. call = "needed" => requests'[c] = <<"needed">>
          BY <5>2, Zenon
        <5> QED
          BY <3>1, <4>1, <5>1, <5>3, Zenon
      <4>2. CASE c # me
        BY <2>3, <3>3, <4>2, Zenon
      <4> QED
        BY <4>1, <4>2, Zenon
    <3> QED
      BY <1>1, <1>3, <2>1, <2>3, <3>2, <3>3, <3>4, <3>5, Zenon DEF WireInv, Before, Talking
  <2>8. ResultInv'
    BY <1>1, <1>3, <2>1, Zenon DEF IInv, ResultInv, Others, Ending
  <2> QED
    BY <2>4, <2>5, <2>6, <2>7, <2>8, Zenon DEF IInv
<1> QED
  BY <1>2, <1>3, Zenon DEF nsb_service_send_request, Fault, Fail, Goto

LEMMA Triple ==
  \A t, a, b, c : t = <<a, b, c>> => t[1] = a /\ t[2] = b /\ t[3] = c
OBVIOUS

(* The handlers: an "ok" for a mapping means both segments, and only that  *)
(* handler touches the descriptor.                                         *)
LEMMA HandlerResults ==
  ASSUME TypeOK, NEW rq \in Calls, NEW result \in nsb_do_handle_cmd(rq)
  PROVE  /\ result[1] \subseteq Segments /\ result[2] \in BOOLEAN
         /\ result[3] \in {"ok", "fail"}
         /\ rq # "mmap" => result[2] = left.fd
         /\ rq = "mmap" /\ result[3] = "ok" => result[1] = Segments /\ result[2] = FALSE
<1>1. segs \subseteq {0, 1} /\ left.fd \in BOOLEAN
  BY Types, Zenon DEF TypeOK, Segments
<1>2. CASE rq = "needed"
  <2>1. result \in nsb_service_cmd_needed_list
    BY <1>2, Zenon DEF nsb_do_handle_cmd
  <2>2. result = <<segs, left.fd, "ok">> \/ result = <<segs, left.fd, "fail">>
    BY <2>1, Zenon DEF nsb_service_cmd_needed_list
  <2>3. result[1] = segs /\ result[2] = left.fd /\ result[3] \in {"ok", "fail"}
    <3>1. CASE result = <<segs, left.fd, "ok">>
      BY <3>1, Triple, Zenon
    <3>2. CASE result = <<segs, left.fd, "fail">>
      BY <3>2, Triple, Zenon
    <3> QED
      BY <2>2, <3>1, <3>2, Zenon
  <2> QED
    BY <1>1, <1>2, <2>3, Zenon DEF Segments
<1>3. CASE rq = "mmap"
  <2>1. result \in nsb_service_cmd_mmap
    BY <1>3, Zenon DEF nsb_do_handle_cmd
  <2>2. \/ result = <<{0, 1}, FALSE, "ok">>
        \/ \E nr \in 0..1 : result = <<segs \union ((0..(nr - 1)) \ (1..nr)), TRUE, "fail">>
    BY <2>1, Zenon DEF nsb_service_cmd_mmap, Segments
  <2>3. \A nr \in 0..1 : segs \union ((0..(nr - 1)) \ (1..nr)) \subseteq {0, 1}
    BY <1>1
  <2>4. \/ result[1] = {0, 1} /\ result[2] = FALSE /\ result[3] = "ok"
        \/ result[1] \subseteq {0, 1} /\ result[2] = TRUE /\ result[3] = "fail"
    <3>1. CASE result = <<{0, 1}, FALSE, "ok">>
      BY <3>1, Triple, Zenon
    <3>2. ASSUME NEW nr \in 0..1,
                 result = <<segs \union ((0..(nr - 1)) \ (1..nr)), TRUE, "fail">>
          PROVE  result[1] \subseteq {0, 1} /\ result[2] = TRUE /\ result[3] = "fail"
      <4>1. /\ result[1] = segs \union ((0..(nr - 1)) \ (1..nr))
            /\ result[2] = TRUE /\ result[3] = "fail"
        BY <3>2, Triple, Zenon
      <4> QED
        BY <2>3, <4>1, Zenon
    <3> QED
      BY <2>2, <3>1, <3>2, Zenon
  <2> QED
    BY <1>3, <2>4, Zenon DEF Segments
<1>4. CASE rq = "munmap"
  <2>1. result \in nsb_service_cmd_munmap
    BY <1>4, Zenon DEF nsb_do_handle_cmd
  <2>2. \/ result = <<{}, left.fd, "ok">>
        \/ \E nr \in 0..1 : result = <<segs \ (0..(nr - 1)), left.fd, "fail">>
    BY <2>1, Zenon DEF nsb_service_cmd_munmap
  <2>3. result[1] \subseteq segs /\ result[2] = left.fd /\ result[3] \in {"ok", "fail"}
    <3>1. CASE result = <<{}, left.fd, "ok">>
      <4>1. result[1] = {} /\ result[2] = left.fd /\ result[3] = "ok"
        BY <3>1, Triple, Zenon
      <4> QED
        BY <4>1, Zenon
    <3>2. ASSUME NEW nr \in 0..1, result = <<segs \ (0..(nr - 1)), left.fd, "fail">>
          PROVE  result[1] \subseteq segs /\ result[2] = left.fd /\ result[3] = "fail"
      <4>1. /\ result[1] = segs \ (0..(nr - 1))
            /\ result[2] = left.fd /\ result[3] = "fail"
        BY <3>2, Triple, Zenon
      <4> QED
        BY <4>1, Zenon
    <3> QED
      BY <2>2, <3>1, <3>2, Zenon
  <2> QED
    BY <1>1, <1>4, <2>3, Zenon DEF Segments
<1> QED
  BY <1>2, <1>3, <1>4, Zenon DEF Calls

(* The request that the library takes is one it has a handler for. *)
LEMMA TakeRequest ==
  ASSUME IInv, pc \in {"run", "receive_fd"},
         requests[lib.cmd_sock] # <<>>,
         requests' = [requests EXCEPT ![lib.cmd_sock] = Tail(@)]
  PROVE  /\ requests' \in [1..MaxNsb -> Seq(Calls \union {"fd"})]
         /\ \A c \in 1..MaxNsb :
              /\ requests'[c] = <<>> \/ (c # lib.cmd_sock /\ requests'[c] = requests[c])
              /\ Len(requests'[c]) <= 1
         /\ requests'[lib.cmd_sock] = <<>>
         /\ pc = "run" => Head(requests[lib.cmd_sock]) \in Calls
<1> DEFINE c == lib.cmd_sock
<1>1. c \in 1..MaxNsb /\ me \in 1..MaxNsb /\ call \in Calls
  BY Types DEF IInv, SocketInv, PcInv, Talking
<1>2. \E x : requests[c] = <<x>> /\ (pc = "run" => x \in Calls)
  <2>1. CASE c = me
    BY <2>1, Zenon DEF IInv, WireInv, PcInv
  <2>2. CASE c # me
    BY <1>1, <2>2, Zenon DEF IInv, WireInv, Talking, Calls
  <2> QED
    BY <2>1, <2>2, Zenon
<1>3. PICK x : requests[c] = <<x>> /\ (pc = "run" => x \in Calls)
  BY <1>2, Zenon
<1>4. Head(requests[c]) = x /\ Tail(requests[c]) = <<>>
  BY <1>3, Single, Zenon
<1>5. requests' = [requests EXCEPT ![c] = <<>>]
  BY <1>4, Zenon
<1>6. requests \in [1..MaxNsb -> Seq(Calls \union {"fd"})] /\ <<>> \in Seq(Calls \union {"fd"})
  BY Types DEF IInv
<1> HIDE DEF c
<1>7. requests' \in [1..MaxNsb -> Seq(Calls \union {"fd"})]
  BY <1>1, <1>5, <1>6, Zenon
<1>8. \A d \in 1..MaxNsb : requests'[d] = IF d = c THEN <<>> ELSE requests[d]
  BY <1>1, <1>5, <1>6, Zenon
<1>9. \A d \in 1..MaxNsb : Len(requests'[d]) <= 1
  <2>1. Len(<<>>) <= 1 /\ \A d \in 1..MaxNsb : Len(requests[d]) <= 1
    BY Types, EmptySeq DEF IInv
  <2> QED
    BY <1>8, <2>1, Zenon
<1> QED
  BY <1>1, <1>3, <1>4, <1>7, <1>8, <1>9, Zenon DEF c

(* The library works for the nsb that runs it, or one that is gone. *)
LEMMA Step_nsb_handle_command ==
  ASSUME IInv, pc = "run",
         UNCHANGED <<lib, held, open, me, op, page, handle, loaded, call, orphan, blind>>,
         Reachable, requests[lib.cmd_sock] # <<>>,
         requests' = [requests EXCEPT ![lib.cmd_sock] = Tail(@)],
         nsb_handle_command(lib.cmd_sock, Head(requests[lib.cmd_sock]))
  PROVE  IInv'
<1> DEFINE c == lib.cmd_sock
           rq == Head(requests[c])
<1>1. /\ requests' \in [1..MaxNsb -> Seq(Calls \union {"fd"})]
      /\ \A d \in 1..MaxNsb :
           /\ requests'[d] = <<>> \/ (d # c /\ requests'[d] = requests[d])
           /\ Len(requests'[d]) <= 1
      /\ requests'[c] = <<>>
      /\ rq \in Calls
  BY TakeRequest, Zenon
<1>2. PICK result \in nsb_do_handle_cmd(rq) :
        /\ segs' = result[1]
        /\ left' = [left EXCEPT !.fd = result[2]]
        /\ \/ /\ c \in open
              /\ answers' = Answered(c, rq, result[3])
              /\ pc' = "recv"
              /\ IF result[3] = "ok" THEN UNCHANGED hit ELSE Hit
              /\ UNCHANGED <<alive, ret>>
           \/ /\ c \notin open
              /\ alive' \in BOOLEAN
              /\ pc' = "resume" /\ ret' = "fail"
              /\ UNCHANGED <<answers, hit>>
           \/ /\ Hit
              /\ pc' = "resume" /\ ret' = "fail"
              /\ UNCHANGED <<alive, answers>>
  BY Zenon DEF nsb_handle_command, Fail, Goto, Fault
<1>3. /\ result[1] \subseteq Segments /\ result[2] \in BOOLEAN
      /\ result[3] \in {"ok", "fail"}
      /\ rq # "mmap" => result[2] = left.fd
      /\ rq = "mmap" /\ result[3] = "ok" => result[1] = Segments /\ result[2] = FALSE
  BY <1>1, HandlerResults, Zenon DEF IInv
<1>4. /\ left' \in [ref : BOOLEAN, scratch : BOOLEAN, fd : BOOLEAN]
      /\ left'.ref = left.ref /\ left'.scratch = left.scratch /\ left'.fd = result[2]
  <2>1. left \in [ref : BOOLEAN, scratch : BOOLEAN, fd : BOOLEAN]
    BY Zenon DEF IInv, TypeOK
  <2> QED
    BY <1>2, <1>3, <2>1, Zenon
<1>5. /\ me \in 1..MaxNsb /\ c \in 1..MaxNsb /\ me \in open /\ open \subseteq {me}
      /\ requests[me] = <<call>> /\ call \in Calls
      /\ ~orphan => c = me
      /\ orphan \in BOOLEAN /\ alive
  <2>1. me \in 1..MaxNsb /\ call \in Calls /\ orphan \in BOOLEAN
    BY Types DEF IInv, PcInv
  <2>2. c \in 1..MaxNsb /\ me \in open /\ (~orphan => c = me)
    BY Zenon DEF IInv, SocketInv, Talking
  <2>3. open \subseteq {me}
    BY Zenon DEF IInv, TypeOK
  <2>4. requests[me] = <<call>>
    BY Zenon DEF IInv, WireInv
  <2>5. alive
    BY Zenon DEF Reachable
  <2> QED
    BY <2>1, <2>2, <2>3, <2>4, <2>5, Zenon
<1>6. answers \in [1..MaxNsb -> Seq(Answers)] /\ \A d \in 1..MaxNsb : Len(answers[d]) <= 3
  BY Types, Zenon DEF IInv
<1>7. \A d \in 1..MaxNsb : /\ d > me => requests'[d] = <<>>
                           /\ requests'[d] \in {<<>>, <<"needed">>} \/ d = c
                           /\ d # me => answers[d] = <<>>
  BY <1>1, Zenon DEF IInv, WireInv
<1> HIDE DEF c, rq
<1>8. CASE /\ pc' = "resume" /\ ret' = "fail" /\ answers' = answers
           /\ \/ c \notin open /\ alive' \in BOOLEAN /\ hit' = hit
              \/ Hit /\ alive' = alive
  <2>1. hit' = hit \/ hit' # 0
    BY <1>8, HitFacts, Zenon DEF IInv
  <2>2. hit' \in 0..2
    BY <1>8, HitFacts, Zenon DEF IInv, TypeOK
  <2>3. ~orphan => alive'
    BY <1>5, <1>8, Zenon DEF IInv, LibInv
  <2>4. hit' # 0 \/ (hit' = hit /\ orphan)
    BY <1>5, <1>8, HitFacts, Zenon DEF IInv
  <2>5. /\ ~blind => answers[me] = <<>>
        /\ blind => hit # 0
        /\ blind \in BOOLEAN
    BY Types, Zenon DEF IInv, WireInv, ResultInv
  <2>6. alive' \in BOOLEAN
    BY <1>8, Types, Zenon DEF IInv
  <2>7. segs' \subseteq Segments
    BY <1>2, <1>3, Zenon
  <2>8. pc \in {"link", "dlopen", "collect", "connect", "accept", "unmap"} \union Talking
    BY Zenon DEF Talking
  <2> QED
    BY <1>1, <1>4, <1>6, <1>7, <1>8, <2>1, <2>2, <2>3, <2>4, <2>5, <2>6, <2>7, <2>8,
       CommandFails, Zenon
    DEF c, Answers
<1>9. CASE /\ c \in open /\ answers' = Answered(c, rq, result[3]) /\ pc' = "recv"
           /\ IF result[3] = "ok" THEN hit' = hit ELSE Hit
           /\ alive' = alive /\ ret' = ret
  <2> DEFINE answer == [to |-> call, ret |-> result[3]]
  <2>1. c = me
    BY <1>5, <1>9, Zenon
  <2>2. rq = call
    <3>1. rq = Head(requests[me])
      BY <2>1, Zenon DEF rq
    <3> QED
      BY <1>5, <3>1, Single, Zenon
  <2>3. answer \in Answers
    BY <1>3, <1>5, Zenon DEF Answers
  <2>4. answers' = [answers EXCEPT ![me] = Append(answers[me], answer)]
    BY <1>9, <2>1, <2>2, Zenon DEF Answered
  <2>5. /\ Stage \in 0..2 /\ Stage' = Stage
        /\ Len(answers[me]) \in Nat /\ Len(answers[me]) <= Stage
        /\ ~blind => answers[me] = <<>>
    BY <1>5, Types DEF IInv, WireInv, Stage, Calls
  <2> HIDE DEF answer
  <2>6. /\ answers'[me] = Append(answers[me], answer)
        /\ \A d \in 1..MaxNsb : d # me => answers'[d] = answers[d]
    BY <1>5, <1>6, <2>4, Zenon
  <2>7. /\ Append(answers[me], answer) \in Seq(Answers)
        /\ Len(Append(answers[me], answer)) = Len(answers[me]) + 1
    BY <1>5, <1>6, <2>3, AppendProperties
  <2>8. answers' \in [1..MaxNsb -> Seq(Answers)]
    BY <1>5, <1>6, <2>4, <2>7, Zenon
  <2>9. Len(answers'[me]) <= Stage + 1
    BY <2>5, <2>6, <2>7
  <2>10. \A d \in 1..MaxNsb : Len(answers'[d]) <= 3
    BY <1>6, <2>5, <2>6, <2>9
  <2>11. ~blind => answers'[me] = <<answer>>
    <3>1. Append(<<>>, answer) = <<answer>>
      OBVIOUS
    <3> QED
      BY <2>5, <2>6, <3>1, Zenon
  <2>12. hit' \in 0..2 /\ (hit' = hit \/ hit' # 0) /\ (result[3] = "ok" \/ hit' # 0)
    BY <1>9, HitFacts, Zenon DEF IInv, TypeOK
  <2>13. TypeOK'
    BY <1>1, <1>2, <1>3, <1>4, <1>9, <2>8, <2>10, <2>12, Zenon DEF IInv, TypeOK, Answers
  <2>14. PcInv'
    BY <1>9, Zenon DEF IInv, PcInv, Steps, Before, Talking, Ending
  <2>15. LibInv' /\ SocketInv'
    BY <1>9, <2>1, Zenon DEF IInv, LibInv, SocketInv, Others, Talking, Ending, c
  <2>16. WireInv'
    <3>1. ~blind => \E r \in {"ok", "fail"} :
            /\ answers'[me] = <<[to |-> call, ret |-> r]>>
            /\ r = "ok" \/ hit' # 0
            /\ call = "mmap" /\ r = "ok" => segs' = Segments /\ ~left'.fd
      BY <1>2, <1>3, <1>4, <2>2, <2>11, <2>12, Zenon DEF answer
    <3>2. requests'[me] = <<>>
      BY <1>1, <2>1, Zenon
    <3>3. \A d \in 1..MaxNsb : d # me => answers'[d] = <<>>
      BY <1>7, <2>6, Zenon
    <3> QED
      BY <1>7, <1>9, <2>1, <2>5, <2>9, <3>1, <3>2, <3>3, Zenon DEF WireInv, Before, c
  <2>17. ResultInv'
    BY <1>3, <1>4, <1>9, <2>2, <2>12, Zenon DEF IInv, ResultInv, Others, Ending
  <2> QED
    BY <2>13, <2>14, <2>15, <2>16, <2>17, Zenon DEF IInv
<1> QED
  BY <1>2, <1>8, <1>9, Zenon

LEMMA Step_service_run ==
  ASSUME IInv, service_run
  PROVE  IInv'
<1>1. /\ pc = "run"
      /\ UNCHANGED <<lib, held, open, me, op, page, handle, loaded, call, orphan, blind>>
  BY Zenon DEF service_run
<1>2. CASE /\ CannotReach /\ pc' = "resume" /\ ret' = "fail"
           /\ UNCHANGED <<alive, segs, left, requests, answers>>
  <2>1. Hit \/ (hit' = hit /\ (~alive \/ hit # 0))
    BY <1>1, <1>2, CannotReachFault, Zenon DEF Talking
  <2> QED
    BY <1>1, <1>2, <2>1, PlainFailure, Zenon DEF process, wires
<1>3. CASE /\ Reachable /\ requests[lib.cmd_sock] # <<>>
           /\ requests' = [requests EXCEPT ![lib.cmd_sock] = Tail(@)]
           /\ nsb_handle_command(lib.cmd_sock, Head(requests[lib.cmd_sock]))
  BY <1>1, <1>3, Step_nsb_handle_command, Zenon
(* Nothing to read: the connection is one of an nsb that is gone. *)
<1>4. CASE /\ CanReach /\ requests[lib.cmd_sock] = <<>>
           /\ alive' = (lib.cmd_sock \in open)
           /\ IF alive' THEN pc' = "recv" /\ ret' = ret ELSE pc' = "resume" /\ ret' = "fail"
           /\ UNCHANGED <<segs, left, requests, answers>>
  <2>1. lib.cmd_sock # me
    <3>1. requests[me] = <<call>>
      BY <1>1, Zenon DEF IInv, WireInv
    <3>2. requests[me] # <<>>
      BY <3>1, Single, Zenon
    <3> QED
      BY <1>4, <3>2, Zenon
  <2>2. orphan /\ lib.cmd_sock \notin open
    BY <1>1, <2>1, Zenon DEF IInv, TypeOK, SocketInv, Talking
  <2>3. ~alive' /\ alive' \in BOOLEAN
    <3>1. alive' = (lib.cmd_sock \in open) /\ ~(lib.cmd_sock \in open)
      BY <1>4, <2>2, Zenon
    <3>2. (lib.cmd_sock \in open) \in BOOLEAN
      OBVIOUS
    <3>3. ~alive'
      BY <3>1, Zenon
    <3>4. alive' \in BOOLEAN
      BY <3>1, <3>2, Zenon
    <3> QED
      BY <3>3, <3>4, Zenon
  <2>4. pc' = "resume" /\ ret' = "fail" /\ hit' = hit
    BY <1>4, <2>3, Zenon DEF CanReach
  <2>5. /\ \A c \in 1..MaxNsb : /\ c > me => requests[c] = <<>>
                                /\ requests[c] \in {<<>>, <<"needed">>} \/ c = lib.cmd_sock
                                /\ c # me => answers[c] = <<>>
        /\ ~blind => answers[me] = <<>>
        /\ blind => hit # 0
    BY <1>1, Zenon DEF IInv, WireInv, ResultInv
  <2>6. /\ segs \subseteq Segments /\ blind \in BOOLEAN /\ hit \in 0..2
        /\ left \in [ref : BOOLEAN, scratch : BOOLEAN, fd : BOOLEAN]
        /\ requests \in [1..MaxNsb -> Seq(Calls \union {"fd"})]
        /\ answers \in [1..MaxNsb -> Seq([to : Calls, ret : {"ok", "fail"}])]
        /\ \A c \in 1..MaxNsb : Len(requests[c]) <= 1 /\ Len(answers[c]) <= 3
    BY Zenon DEF IInv, TypeOK
  <2>7. pc \in {"link", "dlopen", "collect", "connect", "accept", "unmap"} \union Talking
    BY <1>1, Zenon DEF Talking
  <2> QED
    BY <1>1, <1>4, <2>2, <2>3, <2>4, <2>5, <2>6, <2>7, CommandFails, Zenon
<1> QED
  BY <1>2, <1>3, <1>4, Zenon DEF service_run, Fail, Goto

(* The answer is taken as it is, or lost. *)
LEMMA Step_nsb_service_receive_response ==
  ASSUME IInv, nsb_service_receive_response
  PROVE  IInv'
<1>1. /\ pc = "recv"
      /\ UNCHANGED <<alive, lib, segs, held, left, requests, open, me, op, page, handle,
                     loaded, call, orphan>>
  BY Zenon DEF nsb_service_receive_response, process
<1>2. PICK result \in {"ok", "fail"} :
        /\ After(result)
        /\ \/ /\ answers[me] # <<>> /\ result = Head(answers[me]).ret
              /\ answers' = [answers EXCEPT ![me] = Tail(@)] /\ UNCHANGED <<hit, blind>>
           \/ Hit /\ blind' = TRUE /\ answers' = answers
  <2>1. me \in 1..MaxNsb /\ answers[me] \in Seq(Answers)
    BY <1>1, Types DEF IInv, PcInv
  <2>2. answers[me] # <<>> => Head(answers[me]) \in Answers
    BY <2>1, HeadTailProperties, Zenon
  <2>3. answers[me] # <<>> => Head(answers[me]).ret \in {"ok", "fail"}
    BY <2>2, Zenon DEF Answers
  <2> QED
    BY <2>3, Zenon DEF nsb_service_receive_response, Fault
<1>3. /\ me \in 1..MaxNsb /\ Stage \in 0..2 /\ Stage' = Stage
      /\ answers \in [1..MaxNsb -> Seq(Answers)] /\ answers[me] \in Seq(Answers)
      /\ Len(answers[me]) \in Nat /\ Len(answers[me]) <= Stage + 1
      /\ blind \in BOOLEAN
  BY <1>1, Types DEF IInv, PcInv, WireInv, Stage, Calls
<1>4. /\ answers' \in [1..MaxNsb -> Seq(Answers)]
      /\ Len(answers'[me]) <= Stage + 1
      /\ \A c \in 1..MaxNsb : c # me => answers'[c] = answers[c]
  <2>1. CASE answers' = answers
    BY <1>3, <2>1, Zenon
  <2>2. CASE answers[me] # <<>> /\ answers' = [answers EXCEPT ![me] = Tail(@)]
    <3>1. /\ Tail(answers[me]) \in Seq(Answers)
          /\ Len(Tail(answers[me])) = Len(answers[me]) - 1
      BY <1>3, <2>2, HeadTailProperties, Zenon
    <3>2. answers'[me] = Tail(answers[me])
      BY <1>3, <2>2, Zenon
    <3>3. Len(answers'[me]) <= Stage + 1
      BY <1>3, <3>1, <3>2
    <3> QED
      BY <1>3, <2>2, <3>1, <3>3, Zenon
  <2> QED
    BY <1>2, <2>1, <2>2, Zenon
<1>5. \A c \in 1..MaxNsb : Len(answers'[c]) <= 3 /\ (c # me => answers'[c] = <<>>)
  <2>1. \A c \in 1..MaxNsb : Len(answers[c]) <= 3 /\ (c # me => answers[c] = <<>>)
    BY Types, Zenon DEF IInv, WireInv
  <2>2. Len(answers'[me]) <= 3
    <3> DEFINE n == Len(answers'[me])
    <3>1. n \in Nat
      BY <1>3, <1>4, LenProperties, Zenon
    <3> HIDE DEF n
    <3>2. n <= Stage + 1
      BY <1>4, Zenon DEF n
    <3>3. n <= 3
      BY <1>3, <3>1, <3>2
    <3> QED
      BY <3>3, Zenon DEF n
  <2> QED
    BY <1>4, <2>1, <2>2, Zenon
<1>6. ~blind' => /\ answers'[me] = <<>>
                 /\ result = "ok" \/ hit' # 0
                 /\ call = "mmap" /\ result = "ok" => segs = Segments /\ ~left.fd
  <2> SUFFICES ASSUME ~blind'
               PROVE  /\ answers'[me] = <<>>
                      /\ result = "ok" \/ hit' # 0
                      /\ call = "mmap" /\ result = "ok" => segs = Segments /\ ~left.fd
    BY Zenon
  <2>1. /\ ~blind /\ hit' = hit /\ result = Head(answers[me]).ret
        /\ answers' = [answers EXCEPT ![me] = Tail(@)]
    BY <1>2
  <2>2. PICK r \in {"ok", "fail"} :
          /\ answers[me] = <<[to |-> call, ret |-> r]>>
          /\ r = "ok" \/ hit # 0
          /\ call = "mmap" /\ r = "ok" => segs = Segments /\ ~left.fd
    BY <1>1, <2>1, Zenon DEF IInv, WireInv
  <2>3. Head(answers[me]) = [to |-> call, ret |-> r] /\ Tail(answers[me]) = <<>>
    BY <2>2, Single, Zenon
  <2>4. result = r
    BY <2>1, <2>3
  <2>5. answers'[me] = <<>>
    BY <1>3, <2>1, <2>3, Zenon
  <2> QED
    BY <2>1, <2>2, <2>4, <2>5, Zenon
<1>7. /\ hit' \in 0..2 /\ (hit' = hit \/ hit' # 0) /\ blind' \in BOOLEAN
      /\ blind' => hit' # 0
      /\ blind => blind'
  <2>1. blind => hit # 0
    BY Zenon DEF IInv, ResultInv
  <2>2. hit \in 0..2 /\ (Hit => hit' \in 0..2 /\ hit' # 0)
    BY HitFacts, Zenon DEF IInv, TypeOK
  <2>3. CASE UNCHANGED <<hit, blind>>
    BY <1>3, <2>1, <2>2, <2>3, Zenon
  <2>4. CASE Hit /\ blind' = TRUE
    BY <2>2, <2>4, Zenon
  <2> QED
    BY <1>2, <2>3, <2>4, Zenon
<1>8. /\ answers' \in [1..MaxNsb -> Seq([to : Calls, ret : {"ok", "fail"}])]
      /\ requests' = requests
  BY <1>1, <1>4, Zenon DEF Answers
<1>9. CASE pc' = "resume" /\ ret' = "fail" /\ (result = "fail" \/ ret = "fail")
  <2>1. hit' # 0
    <3>1. ret = "fail" => hit # 0
      BY <1>1, Zenon DEF IInv, ResultInv, Ending
    <3>2. result = "fail" => hit' # 0
      BY <1>6, <1>7, Zenon
    <3> QED
      BY <1>7, <1>9, <3>1, <3>2, Zenon
  <2>2. /\ \A c \in 1..MaxNsb : /\ Len(requests[c]) <= 1
                                /\ c > me => requests[c] = <<>>
                                /\ requests[c] \in {<<>>, <<"needed">>} \/ c = lib.cmd_sock
        /\ ~orphan => alive
    BY Zenon DEF IInv, TypeOK, WireInv, LibInv
  <2>3. /\ alive \in BOOLEAN /\ segs \subseteq Segments
        /\ left \in [ref : BOOLEAN, scratch : BOOLEAN, fd : BOOLEAN]
        /\ requests \in [1..MaxNsb -> Seq(Calls \union {"fd"})]
    BY Zenon DEF IInv, TypeOK
  <2>4. pc \in {"link", "dlopen", "collect", "connect", "accept", "unmap"} \union Talking
    BY <1>1, Zenon DEF Talking
  <2> QED
    BY <1>1, <1>5, <1>6, <1>7, <1>8, <1>9, <2>1, <2>2, <2>3, <2>4, CommandFails, Zenon
<1>10. CASE /\ result = "ok" /\ ret' = ret
            /\ \/ pc' = "transfer" /\ call = "needed"
               \/ pc' = "relocate" /\ call = "mmap"
  <2>1. TypeOK'
    <3>1. {handle, loaded, orphan, blind'} \subseteq BOOLEAN
      BY <1>7, Types, Zenon DEF IInv
    <3>2. \A c \in 1..MaxNsb : Len(requests[c]) <= 1
      BY Types, Zenon DEF IInv
    <3> QED
      BY <1>1, <1>5, <1>7, <1>8, <1>10, <3>1, <3>2, ZenonT(60) DEF IInv, TypeOK
  <2>2. PcInv'
    BY <1>1, <1>10, Zenon DEF IInv, PcInv, Steps, Before, Talking, Ending
  <2>3. LibInv' /\ SocketInv'
    BY <1>1, <1>10, Zenon DEF IInv, LibInv, SocketInv, Others, Talking, Ending
  <2>4. WireInv'
    BY <1>1, <1>3, <1>4, <1>5, <1>6, <1>8, <1>10, Zenon DEF IInv, WireInv, Before, Talking
  <2>5. ResultInv'
    BY <1>1, <1>6, <1>7, <1>10, Zenon DEF IInv, ResultInv, Others, Ending
  <2> QED
    BY <2>1, <2>2, <2>3, <2>4, <2>5, Zenon DEF IInv
<1> QED
  <2>1. call = "munmap" => ret = "fail"
    BY <1>1, Zenon DEF IInv, ResultInv
  <2> QED
    BY <1>2, <1>9, <1>10, <2>1, Zenon DEF After, Fail, Goto

-----------------------------------------------------------------------------
LEMMA Step_send_fd ==
  ASSUME IInv, send_fd
  PROVE  IInv'
<1>1. /\ pc = "transfer"
      /\ UNCHANGED <<process, answers, open, me, op, page, handle, loaded, call, orphan,
                     blind>>
  BY Zenon DEF send_fd
<1>2. CASE Hit /\ pc' = "resume" /\ ret' = "fail" /\ requests' = requests
  BY <1>1, <1>2, PlainFailure, Zenon DEF wires
<1>3. CASE /\ requests' = [requests EXCEPT ![me] = Append(@, "fd")]
           /\ pc' = "receive_fd" /\ UNCHANGED <<ret, hit>>
  <2>1. /\ UNCHANGED <<alive, lib, segs, held, left>>
        /\ me \in 1..MaxNsb /\ requests[me] = <<>> /\ lib.cmd_sock = me
        /\ requests \in [1..MaxNsb -> Seq(Calls \union {"fd"})]
    <3>1. UNCHANGED <<alive, lib, segs, held, left>>
      BY <1>1, Zenon DEF process
    <3>2. me \in 1..MaxNsb /\ requests \in [1..MaxNsb -> Seq(Calls \union {"fd"})]
      BY <1>1, Types, SMTT(30) DEF IInv, PcInv
    <3>3. requests[me] = <<>>
      BY <1>1, Zenon DEF IInv, WireInv
    <3>4. lib.cmd_sock = me
      BY <1>1, Zenon DEF IInv, SocketInv
    <3> QED
      BY <3>1, <3>2, <3>3, <3>4, Zenon
  <2>2. Append(<<>>, "fd") = <<"fd">> /\ <<"fd">> \in Seq(Calls \union {"fd"})
    OBVIOUS
  <2>3. /\ requests' \in [1..MaxNsb -> Seq(Calls \union {"fd"})]
        /\ requests'[me] = <<"fd">>
        /\ \A c \in 1..MaxNsb : c # me => requests'[c] = requests[c]
    BY <1>3, <2>1, <2>2, Zenon
  <2>4. TypeOK'
    <3>1. Len(requests'[me]) = 1
      BY <2>3, Single, Zenon
    <3>2. \A c \in 1..MaxNsb : Len(requests[c]) <= 1 /\ Len(answers[c]) <= 3
      BY Types, Zenon DEF IInv
    <3>3. ASSUME NEW c \in 1..MaxNsb
          PROVE  Len(requests'[c]) <= 1
      <4>1. CASE c = me
        <5>1. Len(requests'[c]) = 1
          BY <3>1, <4>1, Zenon
        <5> QED
          BY <5>1
      <4>2. CASE c # me
        BY <2>3, <3>2, <4>2, Zenon
      <4> QED
        BY <4>1, <4>2, Zenon
    <3> QED
      BY <1>1, <1>3, <2>1, <2>3, <3>2, <3>3, ZenonT(60) DEF IInv, TypeOK
  <2>5. PcInv'
    BY <1>1, <1>3, Zenon DEF IInv, PcInv, Steps, Before, Talking, Ending
  <2>6. LibInv' /\ SocketInv'
    BY <1>1, <1>3, <2>1, Zenon DEF IInv, LibInv, SocketInv, Others, Talking, Ending
  <2>7. WireInv'
    <3>1. Stage' = Stage
      BY <1>1, Zenon DEF Stage
    <3>2. \A c \in 1..MaxNsb : c # me => /\ c > me => requests[c] = <<>>
                                         /\ requests[c] \in {<<>>, <<"needed">>}
                                         /\ answers[c] = <<>>
      BY <1>1, Zenon DEF IInv, WireInv, Talking
    <3>3. Len(answers[me]) <= Stage + 1 /\ (~blind => answers[me] = <<>>)
      BY <1>1, Zenon DEF IInv, WireInv
    <3>4. \A c \in 1..MaxNsb :
            /\ c > me => requests'[c] = <<>>
            /\ requests'[c] \in {<<>>, <<"needed">>} \/ (c = lib.cmd_sock /\ c = me)
      BY <2>1, <2>3, <3>2, Types DEF IInv
    <3> QED
      BY <1>1, <1>3, <2>1, <2>3, <3>1, <3>2, <3>3, <3>4, Zenon DEF WireInv, Before, Talking
  <2>8. ResultInv'
    BY <1>1, <1>3, <2>1, Zenon DEF IInv, ResultInv, Others, Ending
  <2> QED
    BY <2>4, <2>5, <2>6, <2>7, <2>8, Zenon DEF IInv
<1> QED
  BY <1>2, <1>3, Zenon DEF send_fd, Fault, Fail, Goto

LEMMA Step_nsb_service_receive_fd ==
  ASSUME IInv, nsb_service_receive_fd
  PROVE  IInv'
<1>1. /\ pc = "receive_fd" /\ lib.cmd_sock = me /\ call = "needed"
      /\ UNCHANGED <<alive, lib, segs, held, answers, open, me, op, page, handle, loaded,
                     orphan, blind>>
  BY Zenon DEF nsb_service_receive_fd, IInv, SocketInv, PcInv
<1>2. CASE CannotReach /\ pc' = "resume" /\ ret' = "fail" /\ UNCHANGED <<requests, left, call>>
  <2>1. Hit \/ (hit' = hit /\ (~alive \/ hit # 0))
    BY <1>1, <1>2, CannotReachFault, Zenon DEF Talking
  <2> QED
    BY <1>1, <1>2, <2>1, PlainFailure, Zenon DEF process, wires
<1>3. CASE /\ CanReach /\ requests[lib.cmd_sock] # <<>>
           /\ requests' = [requests EXCEPT ![lib.cmd_sock] = Tail(@)]
           /\ left' = [left EXCEPT !.fd = TRUE]
           /\ call' = "mmap" /\ pc' = "send" /\ ret' = ret
  <2>1. /\ requests' \in [1..MaxNsb -> Seq(Calls \union {"fd"})]
        /\ \A c \in 1..MaxNsb :
             /\ requests'[c] = <<>> \/ (c # me /\ requests'[c] = requests[c])
             /\ Len(requests'[c]) <= 1
        /\ requests'[me] = <<>>
    BY <1>1, <1>3, TakeRequest, Zenon
  <2>2. /\ left' \in [ref : BOOLEAN, scratch : BOOLEAN, fd : BOOLEAN]
        /\ left'.ref = left.ref /\ left'.scratch = left.scratch
    BY <1>3, Zenon DEF IInv, TypeOK
  <2>3. hit' = hit
    BY <1>3, Zenon DEF CanReach
  <2>4. TypeOK'
    <3>1. \A c \in 1..MaxNsb : Len(answers[c]) <= 3
      BY Types, Zenon DEF IInv
    <3> QED
      BY <1>1, <1>3, <2>1, <2>2, <2>3, <3>1, Zenon DEF IInv, TypeOK
  <2>5. PcInv'
    BY <1>1, <1>3, Zenon DEF IInv, PcInv, Steps, Before, Talking, Ending, Calls
  <2>6. LibInv' /\ SocketInv'
    BY <1>1, <1>3, Zenon DEF IInv, LibInv, SocketInv, Others, Talking, Ending
  <2>7. WireInv'
    <3>1. Stage' = 1 /\ Stage = 0
      BY <1>1, <1>3, Zenon DEF Stage
    <3> QED
      BY <1>1, <1>3, <2>1, <3>1 DEF IInv, WireInv, Before, Talking
  <2>8. ResultInv'
    BY <1>1, <1>3, <2>2, <2>3, Zenon DEF IInv, ResultInv, Others, Ending
  <2> QED
    BY <2>4, <2>5, <2>6, <2>7, <2>8, Zenon DEF IInv
<1> QED
  BY <1>2, <1>3, Zenon DEF nsb_service_receive_fd, Fail, Goto

LEMMA StepApplyPatch ==
  ASSUME IInv, ApplyPatch
  PROVE  IInv'
<1>1. /\ pc = "relocate" /\ call = "mmap"
      /\ UNCHANGED <<alive, lib, segs, held, left, requests, answers, open, me, op, page,
                     handle, loaded, orphan, blind>>
      /\ \/ pc' = "resume" /\ UNCHANGED <<call, ret, hit>>
         \/ Hit /\ call' = "munmap" /\ pc' = "send" /\ ret' = "fail"
  BY Zenon DEF ApplyPatch, IInv, PcInv, process, wires, Fault, Fail, Goto
<1>2. hit' \in 0..2 /\ (hit' = hit \/ hit' # 0)
  BY <1>1, HitFacts, Zenon DEF IInv, TypeOK
<1>3. TypeOK'
  BY <1>1, <1>2, ZenonT(60) DEF IInv, TypeOK
<1>4. PcInv'
  BY <1>1, Zenon DEF IInv, PcInv, Steps, Before, Talking, Ending, Calls
<1>5. LibInv' /\ SocketInv'
  BY <1>1, Zenon DEF IInv, LibInv, SocketInv, Others, Talking, Ending
<1>6. WireInv'
  <2>1. Stage = 1 /\ (call' = "munmap" => Stage' = 2)
    BY <1>1, Zenon DEF Stage
  <2>2. \A c \in 1..MaxNsb : /\ c > me => requests[c] = <<>>
                             /\ requests[c] \in {<<>>, <<"needed">>}
                             /\ c # me => answers[c] = <<>>
    BY <1>1, Zenon DEF IInv, WireInv, Talking
  <2>3. /\ requests[me] = <<>> /\ Len(answers[me]) <= 2
        /\ ~blind => answers[me] = <<>>
    <3>1. /\ requests[me] = <<>> /\ Len(answers[me]) <= Stage + 1
          /\ ~blind => answers[me] = <<>>
      BY <1>1, Zenon DEF IInv, WireInv
    <3>2. Stage + 1 = 2
      BY <2>1
    <3> QED
      BY <3>1, <3>2, Zenon
  <2> QED
    BY <1>1, <2>1, <2>2, <2>3, Zenon DEF WireInv, Before, Talking
<1>7. ResultInv'
  BY <1>1, <1>2, HitFacts, Zenon DEF IInv, ResultInv, Others, Ending
<1> QED
  BY <1>3, <1>4, <1>5, <1>6, <1>7, Zenon DEF IInv

LEMMA Step_process_munmap_dl_map ==
  ASSUME IInv, process_munmap_dl_map
  PROVE  IInv'
<1>1. /\ pc = "unmap" /\ pc' = "resume" /\ segs' \subseteq Segments
      /\ UNCHANGED <<alive, lib, held, left, requests, answers, open, me, op, page, handle,
                     loaded, call, orphan, blind>>
      /\ UNCHANGED <<ret, hit>> \/ (Hit /\ ret' = "fail")
  BY Zenon DEF process_munmap_dl_map, IInv, TypeOK, wires, Fault, Fail, Goto
<1>2. hit' \in 0..2 /\ (hit' = hit \/ hit' # 0) /\ (Hit => hit' # 0)
  BY <1>1, HitFacts, Zenon DEF IInv, TypeOK
<1>3. TypeOK'
  BY <1>1, <1>2, ZenonT(60) DEF IInv, TypeOK
<1>4. PcInv'
  BY <1>1, Zenon DEF IInv, PcInv, Steps, Before, Talking, Ending
<1>5. LibInv' /\ SocketInv'
  BY <1>1, Zenon DEF IInv, LibInv, SocketInv, Others, Talking, Ending
<1>6. WireInv'
  BY <1>1, Zenon DEF IInv, WireInv, Before, Talking
<1>7. ResultInv'
  BY <1>1, <1>2, Zenon DEF IInv, ResultInv, Others, Ending
<1> QED
  BY <1>3, <1>4, <1>5, <1>6, <1>7, Zenon DEF IInv

LEMMA Step_service_stop ==
  ASSUME IInv, service_stop
  PROVE  IInv'
<1>1. /\ pc = "resume" /\ pc' = IF handle THEN "dlclose" ELSE "unlink"
      /\ loaded' = FALSE /\ open' = open \ {me}
      /\ UNCHANGED <<alive, lib, segs, held, left, requests, answers, me, op, page, handle,
                     call, ret, orphan, hit, blind>>
  BY Zenon DEF service_stop, process, history, Goto
<1>2. open' = {}
  BY <1>1, Zenon DEF IInv, TypeOK
<1>3. TypeOK'
  BY <1>1, <1>2, ZenonT(30) DEF IInv, TypeOK
<1>4. PcInv'
  BY <1>1, Zenon DEF IInv, PcInv, Steps, Before, Talking, Ending
<1>5. LibInv' /\ SocketInv'
  BY <1>1, <1>2, Zenon DEF IInv, LibInv, SocketInv, Others, Talking, Ending
<1>6. WireInv'
  BY <1>1, Zenon DEF IInv, WireInv, Before, Talking
<1>7. ResultInv'
  BY <1>1, Zenon DEF IInv, ResultInv, Others, Ending
<1> QED
  BY <1>3, <1>4, <1>5, <1>6, <1>7, Zenon DEF IInv

-----------------------------------------------------------------------------
(* The end of an nsb, however it comes: its connection, if it still waits, *)
(* becomes the orphan.                                                     *)
LEMMA ExitKeepsIInv ==
  ASSUME IInv, pc # "idle", Exit,
         UNCHANGED <<alive, lib, segs, held, requests, blind>>,
         left' \in [ref : BOOLEAN, scratch : BOOLEAN, fd : BOOLEAN],
         ret' \in {"ok", "fail", "crash"},
         hit' \in 0..2, hit' = hit \/ hit' # 0,
         ret' = "ok" /\ ~blind => left' = NothingLeft,
         ret' = "fail" /\ hit' = 0 => ret = "fail" \/ ~alive
  PROVE  IInv'
<1>1. /\ pc' = "idle" /\ page' = "none" /\ handle' = FALSE /\ loaded' = FALSE
      /\ open' = open \ {me} /\ answers' = [answers EXCEPT ![me] = <<>>]
      /\ orphan' = (orphan \/ me \in Range(lib.backlog))
      /\ UNCHANGED <<me, op, call>>
  BY Zenon DEF Exit, Goto
<1>2. /\ me \in 1..MaxNsb /\ open \subseteq {me} /\ orphan \in BOOLEAN /\ handle \in BOOLEAN
      /\ lib.refs \in Nat /\ answers \in [1..MaxNsb -> Seq(Answers)]
      /\ \A c \in 1..MaxNsb : Len(answers[c]) <= 3 /\ Len(requests[c]) <= 1
      /\ blind \in BOOLEAN
  <2>1. me >= 1 /\ open \subseteq {me}
    BY Zenon DEF IInv, TypeOK, PcInv
  <2> QED
    BY <2>1, Types DEF IInv
<1>3. open' = {}
  BY <1>1, <1>2, Zenon
<1>4. orphan' \in BOOLEAN /\ (orphan => orphan')
  <2>1. (orphan \/ me \in Range(lib.backlog)) \in BOOLEAN
    BY Zenon
  <2>2. orphan' \in BOOLEAN
    BY <1>1, <2>1, Zenon
  <2>3. orphan => orphan'
    BY <1>1, Zenon
  <2> QED
    BY <2>2, <2>3, Zenon
<1>5. orphan' => lib.refs >= 1
  <2>1. CASE orphan
    BY <1>2, <2>1, Zenon DEF IInv, LibInv, Others
  <2>2. CASE me \in Range(lib.backlog)
    <3>1. lib.backlog # <<>>
      BY <2>2 DEF Range
    <3> QED
      BY <1>2, <3>1 DEF IInv, LibInv
  <2> QED
    BY <1>1, <2>1, <2>2, Zenon
<1>6. ~orphan' => lib.backlog = <<>>
  <2> SUFFICES ASSUME ~orphan' PROVE lib.backlog = <<>>
    BY Zenon
  <2>1. ~orphan /\ me \notin Range(lib.backlog)
    BY <1>1, Zenon
  <2>2. lib.backlog = <<me>> => me \in Range(lib.backlog)
    BY DEF Range
  <2> QED
    BY <2>1, <2>2, Zenon DEF IInv, SocketInv
<1>7. \A c \in 1..MaxNsb : answers'[c] = <<>>
  BY <1>1, <1>2, Zenon DEF IInv, WireInv
<1>8. TypeOK'
  <2>1. /\ answers' \in [1..MaxNsb -> Seq([to : Calls, ret : {"ok", "fail"}])]
        /\ \A c \in 1..MaxNsb : Len(answers'[c]) <= 3
    <3>1. <<>> \in Seq(Answers) /\ Len(<<>>) <= 3
      BY EmptySeq
    <3> QED
      BY <1>1, <1>2, <1>7, <3>1, Zenon DEF Answers
  <2>2. {handle', loaded', orphan', blind'} \subseteq BOOLEAN
    BY <1>1, <1>2, <1>4, Zenon
  <2> QED
    BY <1>1, <1>2, <1>3, <2>1, <2>2, Zenon DEF IInv, TypeOK
<1>9. PcInv'
  BY <1>1, Zenon DEF IInv, PcInv, Steps, Before, Talking, Ending
<1>10. LibInv'
  BY <1>1, <1>4, <1>5, Zenon DEF IInv, LibInv, Others
<1>11. SocketInv'
  BY <1>1, <1>3, <1>6, Zenon DEF SocketInv, Talking
<1>12. WireInv'
  BY <1>1, <1>7, Zenon DEF IInv, WireInv, Before, Talking
<1>13. ResultInv'
  <2>1. ret' = "fail" /\ hit' = 0 => \/ op = "patch" /\ segs # {}
                                     \/ lib.refs >= 1 /\ ~lib.listening
                                     \/ orphan'
    <3> SUFFICES ASSUME ret' = "fail", hit' = 0
                 PROVE  \/ op = "patch" /\ segs # {}
                        \/ lib.refs >= 1 /\ ~lib.listening
                        \/ orphan'
      BY Zenon
    <3>1. CASE ~alive
      BY <1>4, <3>1, Zenon DEF IInv, LibInv
    <3>2. CASE ret = "fail"
      <4>1. Others >= 1 => lib.refs >= 1
        BY <1>2 DEF Others
      <4> QED
        BY <1>4, <3>2, <4>1, Zenon DEF IInv, ResultInv
    <3> QED
      BY <3>1, <3>2, Zenon
  <2>2. NothingLeft.fd = FALSE
    BY Zenon DEF NothingLeft
  <2>3. blind => hit' # 0
    BY Zenon DEF IInv, ResultInv
  <2> QED
    BY <1>1, <2>1, <2>2, <2>3, Zenon DEF ResultInv, Others
<1> QED
  BY <1>8, <1>9, <1>10, <1>11, <1>12, <1>13, Zenon DEF IInv

LEMMA NothingLeftIs ==
  ASSUME NEW l \in [ref : BOOLEAN, scratch : BOOLEAN, fd : BOOLEAN],
         ~l.ref, ~l.scratch, ~l.fd
  PROVE  l = NothingLeft
BY Zenon DEF NothingLeft

(* The last reference takes everything with it that earlier runs left. *)
LEMMA Step_process_call_dlclose ==
  ASSUME IInv, process_call_dlclose
  PROVE  IInv'
<1>1. pc = "dlclose" /\ handle /\ page = "mapped" /\ UNCHANGED <<alive, segs, held, blind>>
  BY Zenon DEF process_call_dlclose, IInv, PcInv, LibInv
<1>2. CASE /\ CannotReach \/ Fault("dlclose")
           /\ ret' = "fail" /\ Exit /\ UNCHANGED <<lib, left, requests>>
  <2>1. Hit \/ (hit' = hit /\ ~alive)
    BY <1>1, <1>2, Zenon DEF CannotReach, Reachable, Fault
  <2>2. hit' \in 0..2 /\ (hit' = hit \/ hit' # 0) /\ (hit' = 0 => ~alive)
    BY <2>1, HitFacts, Zenon DEF IInv, TypeOK
  <2>3. left \in [ref : BOOLEAN, scratch : BOOLEAN, fd : BOOLEAN]
    BY Zenon DEF IInv, TypeOK
  <2> QED
    BY <1>1, <1>2, <2>2, <2>3, ExitKeepsIInv, Zenon
<1>3. CASE /\ CanReach
           /\ \/ /\ lib.refs > 1 /\ lib' = [lib EXCEPT !.refs = @ - 1]
                 /\ UNCHANGED <<requests, orphan>>
              \/ /\ ~(lib.refs > 1) /\ lib' = NoLibrary
                 /\ requests' = [c \in 1..MaxNsb |-> <<>>] /\ orphan' = FALSE
           /\ left' = [left EXCEPT !.ref = FALSE] /\ handle' = FALSE /\ pc' = "unlink"
           /\ UNCHANGED <<answers, open, me, op, page, loaded, call, ret>>
  <2>1. /\ lib.refs \in Nat /\ lib.refs >= 1 /\ lib.refs <= me /\ me \in 1..MaxNsb
        /\ MaxNsb \in Nat /\ Backlog \in Nat
        /\ open = {} /\ ~loaded /\ hit' = hit
    BY <1>1, <1>3, Types, ServiceAssumption
    DEF IInv, PcInv, LibInv, SocketInv, Talking, CanReach
  <2>2. /\ left' \in [ref : BOOLEAN, scratch : BOOLEAN, fd : BOOLEAN]
        /\ ~left'.ref /\ left'.scratch = left.scratch /\ left'.fd = left.fd
    BY <1>3, Zenon DEF IInv, TypeOK
  <2>3. CASE lib.refs > 1 /\ lib' = [lib EXCEPT !.refs = @ - 1] /\ UNCHANGED <<requests, orphan>>
    <3>1. /\ lib' \in [refs : 0..MaxNsb, listening : BOOLEAN, backlog : Seq(1..MaxNsb),
                       cmd_sock : 1..MaxNsb \union {None}]
          /\ lib'.refs = lib.refs - 1 /\ lib'.listening = lib.listening
          /\ lib'.backlog = lib.backlog /\ lib'.cmd_sock = lib.cmd_sock
      <4>1. lib \in [refs : 0..MaxNsb, listening : BOOLEAN, backlog : Seq(1..MaxNsb),
                     cmd_sock : 1..MaxNsb \union {None}] /\ lib.refs - 1 \in 0..MaxNsb
        BY <2>1, <2>3 DEF IInv, TypeOK
      <4> QED
        BY <2>3, <4>1, Zenon
    <3>2. Others' = Others
      BY <1>1, <1>3, <3>1, Zenon DEF Others
    <3>3. TypeOK'
      BY <1>1, <1>3, <2>1, <2>2, <2>3, <3>1, Zenon DEF IInv, TypeOK
    <3>4. PcInv'
      BY <1>1, <1>3, Zenon DEF IInv, PcInv, Steps, Before, Talking, Ending
    <3>5. LibInv'
      BY <1>1, <1>3, <2>1, <2>3, <3>1, <3>2 DEF IInv, LibInv
    <3>6. SocketInv'
      BY <1>1, <1>3, <2>1, <2>3, <3>1, Zenon DEF IInv, SocketInv, Talking, Ending
    <3>7. WireInv'
      BY <1>1, <1>3, <2>3, <3>1, Zenon DEF IInv, WireInv, Before, Talking
    <3>8. ResultInv'
      BY <1>1, <1>3, <2>1, <2>2, <2>3, <3>1, <3>2, Zenon DEF IInv, ResultInv, Ending
    <3> QED
      BY <3>3, <3>4, <3>5, <3>6, <3>7, <3>8, Zenon DEF IInv
  <2>4. CASE /\ ~(lib.refs > 1) /\ lib' = NoLibrary
             /\ requests' = [c \in 1..MaxNsb |-> <<>>] /\ orphan' = FALSE
    <3>1. Others = 0 /\ ~orphan /\ alive
      BY <1>1, <2>1, <2>4 DEF Others, IInv, LibInv
    <3>2. /\ lib' \in [refs : 0..MaxNsb, listening : BOOLEAN, backlog : Seq(1..MaxNsb),
                       cmd_sock : 1..MaxNsb \union {None}]
          /\ lib'.refs = 0 /\ ~lib'.listening /\ lib'.backlog = <<>> /\ Len(lib'.backlog) = 0
      <4>1. <<>> \in Seq(1..MaxNsb) /\ Len(<<>>) = 0 /\ 0 \in 0..MaxNsb
        BY <2>1, EmptySeq
      <4> QED
        BY <2>4, <4>1, Zenon DEF NoLibrary
    <3>3. /\ requests' \in [1..MaxNsb -> Seq(Calls \union {"fd"})]
          /\ \A c \in 1..MaxNsb : Len(requests'[c]) <= 1 /\ requests'[c] = <<>>
      <4>1. <<>> \in Seq(Calls \union {"fd"}) /\ Len(<<>>) <= 1
        BY EmptySeq
      <4> QED
        BY <2>4, <4>1, Zenon
    <3>4. TypeOK'
      <4>1. {handle', loaded', orphan', blind'} \subseteq BOOLEAN
        BY <1>1, <1>3, <2>4, Types, Zenon DEF IInv
      <4>2. Len(lib'.backlog) <= Backlog + 1
        BY <2>1, <3>2
      <4>3. \A c \in 1..MaxNsb : Len(answers[c]) <= 3
        BY Types, Zenon DEF IInv
      <4> QED
        BY <1>1, <1>3, <2>1, <2>2, <3>2, <3>3, <4>1, <4>2, <4>3, Zenon DEF IInv, TypeOK
    <3>5. PcInv'
      BY <1>1, <1>3, Zenon DEF IInv, PcInv, Steps, Before, Talking, Ending
    <3>6. LibInv'
      BY <1>1, <1>3, <2>1, <2>4, <3>1, <3>2 DEF IInv, LibInv
    <3>7. SocketInv'
      BY <1>1, <1>3, <2>1, <2>4, <3>2, Zenon DEF SocketInv, Talking, Ending
    <3>8. WireInv'
      BY <1>1, <1>3, <2>1, <3>3, Zenon DEF IInv, WireInv, Before, Talking
    <3>9. ResultInv'
      BY <1>1, <1>3, <2>1, <2>2, <2>4, <3>1 DEF IInv, ResultInv, Ending
    <3> QED
      BY <3>4, <3>5, <3>6, <3>7, <3>8, <3>9, Zenon DEF IInv
  <2> QED
    BY <1>3, <2>3, <2>4, Zenon
<1> QED
  BY <1>2, <1>3, Zenon DEF process_call_dlclose, Goto

LEMMA Step_process_unlink ==
  ASSUME IInv, process_unlink
  PROVE  IInv'
<1>1. /\ pc = "unlink" /\ Exit /\ UNCHANGED <<alive, lib, segs, held, requests, blind>>
  BY Zenon DEF process_unlink
<1>2. /\ left \in [ref : BOOLEAN, scratch : BOOLEAN, fd : BOOLEAN]
      /\ hit \in 0..2 /\ page \in {"none", "mapped", "bad"}
      /\ ret \in {"ok", "fail", "crash"} /\ ~left.ref
      /\ left.scratch <=> page = "mapped"
      /\ ret = "ok" /\ ~blind => ~left.fd
      /\ page = "bad" => hit # 0
  BY <1>1, Zenon DEF IInv, TypeOK, PcInv, ResultInv
<1>3. CASE page = "none" /\ UNCHANGED <<left, ret, hit>>
  <2>1. ret = "ok" /\ ~blind => left = NothingLeft
    BY <1>2, <1>3, NothingLeftIs, Zenon
  <2> QED
    BY <1>1, <1>2, <1>3, <2>1, ExitKeepsIInv, Zenon
<1>4. CASE CanReach /\ left' = [left EXCEPT !.scratch = FALSE] /\ ret' = ret
  <2>1. /\ left' \in [ref : BOOLEAN, scratch : BOOLEAN, fd : BOOLEAN]
        /\ ~left'.ref /\ ~left'.scratch /\ left'.fd = left.fd
    BY <1>2, <1>4, Zenon
  <2>2. ret = "ok" /\ ~blind => left' = NothingLeft
    BY <1>2, <2>1, NothingLeftIs, Zenon
  <2>3. hit' = hit
    BY <1>4, Zenon DEF CanReach
  <2> QED
    BY <1>1, <1>2, <1>4, <2>1, <2>2, <2>3, ExitKeepsIInv, Zenon
<1>5. CASE page # "none" /\ CannotReach /\ ret' = "fail" /\ left' = left
  <2>1. Hit \/ (hit' = hit /\ (~alive \/ hit # 0))
    BY <1>2, <1>5, Zenon DEF CannotReach, Reachable, Fault
  <2>2. hit' \in 0..2 /\ (hit' = hit \/ hit' # 0) /\ (hit' = 0 => ~alive)
    BY <1>2, <2>1, HitFacts, Zenon DEF IInv
  <2> QED
    BY <1>1, <1>2, <1>5, <2>2, ExitKeepsIInv, Zenon
<1> QED
  BY <1>3, <1>4, <1>5, Zenon DEF process_unlink

LEMMA StepCrash ==
  ASSUME IInv, Crash
  PROVE  IInv'
<1>1. /\ pc # "idle" /\ Exit /\ ret' = "crash" /\ hit' \in 0..2 /\ hit' # 0
      /\ UNCHANGED <<alive, lib, segs, held, left, requests, blind>>
  BY HitFacts, Zenon DEF Crash, IInv, process
<1>2. left \in [ref : BOOLEAN, scratch : BOOLEAN, fd : BOOLEAN]
  BY Zenon DEF IInv, TypeOK
<1> QED
  BY <1>1, <1>2, ExitKeepsIInv, Zenon

LEMMA IInvStep ==
  ASSUME IInv, [Next]_vars
  PROVE  IInv'
<1>1. CASE UNCHANGED vars
  <2>1. UNCHANGED <<alive, lib, segs, held, left, requests, answers, open, pc, me, op, page,
                    handle, loaded, call, ret, orphan, hit, blind>>
    BY <1>1, Zenon DEF vars, process, wires, nsb, history
  <2>2. TypeOK'
    BY <2>1, ZenonT(30) DEF IInv, TypeOK
  <2>3. PcInv'
    BY <2>1, Zenon DEF IInv, PcInv
  <2>4. LibInv' /\ SocketInv'
    BY <2>1 DEF IInv, LibInv, SocketInv, Others
  <2>5. WireInv'
    <3>1. Stage' = Stage
      BY <2>1, Zenon DEF Stage
    <3> QED
      BY <2>1, <3>1, Zenon DEF IInv, WireInv
  <2>6. ResultInv'
    BY <2>1, Zenon DEF IInv, ResultInv, Others
  <2> QED
    BY <2>2, <2>3, <2>4, <2>5, <2>6, Zenon DEF IInv
<1>2. CASE NsbStep
  BY <1>2, Step_process_link, StepInjectService, Step_service_collect_vmas,
     Step_service_local_connect, Step_service_remote_accept,
     Step_nsb_service_send_request, Step_service_run,
     Step_nsb_service_receive_response, Step_send_fd, Step_nsb_service_receive_fd,
     StepApplyPatch, Step_process_munmap_dl_map, Step_service_stop,
     Step_process_call_dlclose, Step_process_unlink, Zenon
  DEF NsbStep
<1> QED
  BY <1>1, <1>2, StepStart, StepCrash, Zenon DEF Next

LEMMA IInvAlways == Spec => []IInv
<1>1. IInv /\ [Next]_vars => IInv'
  BY IInvStep, Zenon
<1> QED
  BY IInvInit, <1>1, PTL DEF Spec

-----------------------------------------------------------------------------
(* One nsb runs at a time, at most one of its requests is under way, and   *)
(* listen_sock holds no more connections than listen() allows.             *)
THEOREM ServiceTyped == Spec => []TypeOK
<1>1. IInv => TypeOK
  BY Zenon DEF IInv
<1> QED
  BY IInvAlways, <1>1, PTL

(* nsb_service_accept gives the library the connection of the nsb that     *)
(* runs it, unless an earlier one ended while its own waited.              *)
THEOREM AcceptsOwnConnection == Spec => []OwnConnection
<1>1. IInv => OwnConnection
  BY Zenon DEF IInv, SocketInv, OwnConnection
<1> QED
  BY IInvAlways, <1>1, PTL

(* nsb_service_receive_response returns the answer to the last request.    *)
THEOREM AnswersMatchRequests == Spec => []AnswerMatches
<1>1. ASSUME IInv PROVE AnswerMatches
  <2> SUFFICES ASSUME pc = "recv", ~blind PROVE Head(answers[me]).to = call
    BY Zenon DEF AnswerMatches
  <2>1. PICK r \in {"ok", "fail"} : answers[me] = <<[to |-> call, ret |-> r]>>
    BY <1>1, Zenon DEF IInv, WireInv
  <2>2. Head(answers[me]) = [to |-> call, ret |-> r]
    BY <2>1, Single, Zenon
  <2> QED
    BY <2>2
<1> QED
  BY IInvAlways, <1>1, PTL

(* apply_dyn_binpatch links only a patch whose segments are all mapped.    *)
THEOREM LinksMappedPatch == Spec => []LinksWhatIsMapped
<1>1. IInv => LinksWhatIsMapped
  BY Zenon DEF IInv, ResultInv, LinksWhatIsMapped
<1> QED
  BY IInvAlways, <1>1, PTL

(* process_resume has undone all that a successful command did to call     *)
(* functions in the process.                                               *)
THEOREM SuccessLeavesNoTrace == Spec => []LeavesNoTrace
<1>1. IInv => LeavesNoTrace
  BY Zenon DEF IInv, ResultInv, LeavesNoTrace
<1> QED
  BY IInvAlways, <1>1, PTL

(* Only a connection orphaned in the backlog leads the library to          *)
(* emergency_sigreturn, or to an answer that raises SIGPIPE.               *)
THEOREM LibraryKillsNobody == Spec => []ProcessSurvives
<1>1. IInv => ProcessSurvives
  BY Zenon DEF IInv, LibInv, ProcessSurvives
<1> QED
  BY IInvAlways, <1>1, PTL

(* Without a fault of its own a command fails only where an earlier run    *)
(* left a mapped patch, a library that does not listen, or an orphan.      *)
THEOREM FaultlessCommandsWork == Spec => []WorksAfterFailures
<1>1. ASSUME IInv PROVE WorksAfterFailures
  <2>1. pc = "idle" => Others = lib.refs
    BY <1>1, Zenon DEF IInv, PcInv, Others
  <2>2. lib.refs \in Nat
    BY <1>1, Types, Zenon DEF IInv
  <2> QED
    BY <1>1, <2>1, <2>2 DEF IInv, ResultInv, WorksAfterFailures
<1> QED
  BY IInvAlways, <1>1, PTL
=============================================================================
