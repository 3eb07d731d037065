--------------------------- MODULE StackCheckProofs ---------------------------
(***************************************************************************)
(* Proofs about StackCheck, for any layout of functions and patches that   *)
(* meets its assumptions, any number of threads and stacks of any depth:   *)
(* what process_check_stack looked at is all there is on the stacks.       *)
(***************************************************************************)
EXTENDS StackCheck, SequenceTheorems, TLAPS

Typed ==
  /\ loaded \in SUBSET Patches
  /\ code \in [Funcs -> Patches \union {Orig}]
  /\ \A f \in Funcs : code[f] # Orig => f \in Changes(code[f]) /\ code[f] \in loaded
  /\ pc # "off" => patch \in Patches /\ op \in {"apply", "revert"}

InBody(ip) == \E b \in Bodies : Within(ip, b)

(* The innermost frame is in some code, what a signal interrupted too, and *)
(* the outermost frame, which the backtrace leaves out, is in Main.        *)
StackOK(s) ==
  /\ s \in Seq(Int) /\ s # <<>>
  /\ InBody(s[1])
  /\ \A n \in 1..Len(s) : s[n] = SigReturn => n < Len(s) /\ InBody(s[n + 1])
  /\ s[Len(s)] \in Main.start..End(Main)

(* What may be on a stack while the functions have the code they have. *)
Allowed(ip) ==
  /\ \A f \in Funcs : code[f] # Orig => ~(Func[f].start < ip /\ ip < End(Func[f]))
  /\ \A p \in Patches \ loaded : ~(Patch[p].start <= ip /\ ip < Patch[p].end)

StacksInv ==
  /\ stack \in [Threads -> Seq(Int)]
  /\ \A t \in Threads : StackOK(stack[t])
  /\ \A t \in Threads : \A n \in 1..Len(stack[t]) : Allowed(stack[t][n])

(* What process_check_stack found holds until the command has done its work. *)
Checked ==
  \A t \in Threads : \A n \in 1..(Len(stack[t]) - 1) :
    IF op = "apply"
    THEN \A f \in Changes(patch) :
           ~(Func[f].start < stack[t][n] /\ stack[t][n] < End(Func[f]))
    ELSE ~(Patch[patch].start <= stack[t][n] /\ stack[t][n] <= Patch[patch].end)

IInv == Typed /\ StacksInv /\ (pc = "caught" => Checked)

-----------------------------------------------------------------------------
(* Stacks as sequences. *)
LEMMA StackElements ==
  ASSUME NEW s \in Seq(Int), s # <<>>
  PROVE  /\ Len(s) \in Nat /\ Len(s) >= 1
         /\ \A n \in 1..Len(s) : s[n] \in Int
         /\ Head(s) = s[1]
         /\ Tail(s) \in Seq(Int) /\ Len(Tail(s)) = Len(s) - 1
         /\ \A n \in 1..(Len(s) - 1) : Tail(s)[n] = s[n + 1]
<1>1. Len(s) \in Nat /\ Len(s) # 0 /\ \A n \in 1..Len(s) : s[n] \in Int
  BY ElementOfSeq, LenProperties, EmptySeq
<1>2. /\ Head(s) = s[1]
      /\ Tail(s) \in Seq(Int) /\ Len(Tail(s)) = Len(s) - 1
      /\ \A n \in 1..Len(Tail(s)) : Tail(s)[n] = s[n + 1]
  BY HeadTailProperties
<1> QED
  BY <1>1, <1>2

LEMMA SeveralFrames ==
  ASSUME NEW l \in Nat, l >= 1, l # 1
  PROVE  l \in 2..l /\ l + 1 \in 3..(l + 1) /\ (l + 1) - 1 = l
OBVIOUS

LEMMA TopReplaced ==
  ASSUME NEW s \in Seq(Int), s # <<>>, NEW x \in Int
  PROVE  LET u == <<x>> \o Tail(s)
         IN  /\ u \in Seq(Int) /\ Len(u) = Len(s)
             /\ u[1] = x /\ \A n \in 2..Len(s) : u[n] = s[n]
<1> DEFINE u == <<x>> \o Tail(s)
<1>1. <<x>> \in Seq(Int) /\ Len(<<x>>) = 1 /\ <<x>>[1] = x
  OBVIOUS
<1>2. /\ u \in Seq(Int) /\ Len(u) = 1 + Len(Tail(s))
      /\ \A n \in 1..(1 + Len(Tail(s))) : u[n] = IF n <= 1 THEN <<x>>[n] ELSE Tail(s)[n - 1]
  BY <1>1, StackElements, ConcatProperties
<1> HIDE DEF u
<1>3. Len(u) = Len(s) /\ u[1] = x
  BY <1>1, <1>2, StackElements
<1>4. ASSUME NEW n \in 2..Len(s)
      PROVE  u[n] = s[n]
  <2>1. n - 1 \in 1..(Len(s) - 1) /\ (n - 1) + 1 = n /\ ~(n <= 1) /\ n \in 1..Len(s)
    BY StackElements
  <2> QED
    BY <1>2, <2>1, StackElements
<1> QED
  BY <1>2, <1>3, <1>4 DEF u

LEMMA TwoPushed ==
  ASSUME NEW s \in Seq(Int), NEW x \in Int, NEW y \in Int
  PROVE  LET u == <<x, y>> \o s
         IN  /\ u \in Seq(Int) /\ Len(u) = Len(s) + 2
             /\ u[1] = x /\ u[2] = y
             /\ \A n \in 3..(Len(s) + 2) : u[n] = s[n - 2]
<1> DEFINE u == <<x, y>> \o s
<1>1. /\ <<x, y>> \in Seq(Int) /\ Len(<<x, y>>) = 2
      /\ <<x, y>>[1] = x /\ <<x, y>>[2] = y
      /\ Len(s) \in Nat
  BY LenProperties
<1>2. /\ u \in Seq(Int) /\ Len(u) = 2 + Len(s)
      /\ \A n \in 1..(2 + Len(s)) : u[n] = IF n <= 2 THEN <<x, y>>[n] ELSE s[n - 2]
  BY <1>1, ConcatProperties
<1> HIDE DEF u
<1>3. u[1] = x /\ u[2] = y
  BY <1>1, <1>2
<1>4. ASSUME NEW n \in 3..(Len(s) + 2)
      PROVE  u[n] = s[n - 2]
  BY <1>1, <1>2, SMTT(30)
<1>5. Len(u) = Len(s) + 2
  BY <1>1, <1>2
<1> QED
  BY <1>2, <1>3, <1>4, <1>5 DEF u

(* do_backtrace: all frames but the outermost. *)
LEMMA BacktraceElements ==
  ASSUME NEW s \in Seq(Int), s # <<>>, NEW unwind
  PROVE  \A n \in 1..(Len(s) - 1) : s[n] \in Range(do_backtrace(s, unwind).calls)
<1>1. Len(s) \in Nat /\ Len(s) >= 1 /\ \A n \in 1..Len(s) : s[n] \in Int
  BY StackElements
<1>2. /\ SubSeq(s, 1, Len(s) - 1) \in Seq(Int)
      /\ Len(SubSeq(s, 1, Len(s) - 1)) = Len(s) - 1
      /\ \A n \in 1..(Len(s) - 1) : SubSeq(s, 1, Len(s) - 1)[n] = s[n]
  <2> DEFINE c == Len(s) - 1
  <2>1. c \in Int /\ c >= 0 /\ \A n \in 1..c : s[n] \in Int
    BY <1>1
  <2> HIDE DEF c
  <2>2. /\ SubSeq(s, 1, c) \in Seq(Int)
        /\ Len(SubSeq(s, 1, c)) = IF 1 <= c THEN c - 1 + 1 ELSE 0
        /\ \A n \in 1..(c - 1 + 1) : SubSeq(s, 1, c)[n] = s[1 + n - 1]
    BY <2>1, SubSeqProperties
  <2>3. Len(SubSeq(s, 1, c)) = c /\ \A n \in 1..c : SubSeq(s, 1, c)[n] = s[n]
    BY <2>1, <2>2
  <2> QED
    BY <2>2, <2>3 DEF c
<1>3. do_backtrace(s, unwind).calls = SubSeq(s, 1, Len(s) - 1)
  BY DEF do_backtrace
<1> QED
  BY <1>1, <1>2, <1>3, LenProperties, Zenon DEF Range

-----------------------------------------------------------------------------
(* Layout. *)
LEMMA BodyFacts ==
  /\ Main \in Bodies
  /\ \A f \in Funcs : Func[f] \in Bodies
  /\ \A p \in Patches : \A f \in Changes(p) : Patch[p].funcs[f] \in Bodies
  /\ \A b \in Bodies : b.start \in Int /\ b.size \in Nat /\ b.size >= 1 /\ End(b) \in Int
  /\ \A b \in Bodies : Within(b.start, b)
<1>1. /\ Main \in Bodies
      /\ \A f \in Funcs : Func[f] \in Bodies
      /\ \A p \in Patches : \A f \in Changes(p) : Patch[p].funcs[f] \in Bodies
  BY DEF Bodies, BodiesOf
<1> QED
  BY <1>1, LayoutAssumption DEF End, Within

(* The next address after one in a body is in the body or at its end. *)
LEMMA NextAddress ==
  ASSUME NEW b \in Bodies, NEW ip \in Int, Within(ip, b)
  PROVE  b.start <= ip /\ ip < End(b) /\ ip + 1 <= End(b)
BY BodyFacts DEF Within, End

(* A function starts at an address that may be on any stack. *)
LEMMA StartAllowed ==
  ASSUME Typed, NEW b \in Bodies,
         \A p \in Patches \ loaded : b \in OtherCode(p)
  PROVE  Allowed(b.start) /\ b.start # SigReturn
<1>1. /\ b.start \in Int /\ End(b) \in Int /\ b.start < End(b)
      /\ \A f \in Funcs : Func[f].start \in Int /\ End(Func[f]) \in Int
  BY BodyFacts DEF End
<1>2. ASSUME NEW f \in Funcs
      PROVE  ~(Func[f].start < b.start /\ b.start < End(Func[f]))
  <2>1. CASE b = Func[f]
    BY <1>1, <2>1
  <2>2. CASE b # Func[f]
    <3>1. End(b) <= Func[f].start \/ End(Func[f]) <= b.start
      BY <2>2, LayoutAssumption
    <3> QED
      BY <1>1, <3>1
  <2> QED
    BY <2>1, <2>2
<1>3. ASSUME NEW p \in Patches \ loaded
      PROVE  ~(Patch[p].start <= b.start /\ b.start < Patch[p].end)
  <2>1. /\ Patch[p].start \in Int /\ Patch[p].end \in Int
        /\ End(b) < Patch[p].start \/ Patch[p].end <= b.start
    BY PatchAssumption
  <2> QED
    BY <1>1, <2>1
<1>4. b.start # SigReturn
  BY <1>1, SigReturnAssumption
<1> QED
  BY <1>2, <1>3, <1>4 DEF Allowed

(* So is the address after an instruction that is executed, because that   *)
(* is not the first of a function that was changed.                        *)
LEMMA AfterAllowed ==
  ASSUME Typed, NEW ip \in Int, Allowed(ip), NEW b \in Bodies, Within(ip, b),
         \A f \in Funcs : code[f] # Orig => ip # Func[f].start
  PROVE  Allowed(ip + 1) /\ ip + 1 # SigReturn
<1>1. /\ b.start \in Int /\ End(b) \in Int
      /\ b.start <= ip /\ ip < End(b) /\ ip + 1 <= End(b)
  BY BodyFacts, NextAddress
<1>2. ASSUME NEW f \in Funcs, code[f] # Orig
      PROVE  ~(Func[f].start < ip + 1 /\ ip + 1 < End(Func[f]))
  <2>1. Func[f].start \in Int /\ End(Func[f]) \in Int
    BY BodyFacts
  <2>2. ip # Func[f].start /\ ~(Func[f].start < ip /\ ip < End(Func[f]))
    BY <1>2 DEF Allowed
  <2> QED
    BY <2>1, <2>2
<1>3. ASSUME NEW p \in Patches \ loaded
      PROVE  ~(Patch[p].start <= ip + 1 /\ ip + 1 < Patch[p].end)
  <2>1. Patch[p].start \in Int /\ Patch[p].end \in Int
    BY PatchAssumption
  <2>2. ~(Patch[p].start <= ip /\ ip < Patch[p].end)
    BY <1>3 DEF Allowed
  <2>3. CASE b \in BodiesOf(p)
    <3>1. Patch[p].start <= b.start
      BY <2>3, PatchAssumption
    <3> QED
      BY <1>1, <2>1, <2>2, <3>1
  <2>4. CASE b \in OtherCode(p)
    <3>1. End(b) < Patch[p].start \/ Patch[p].end <= b.start
      BY <2>4, PatchAssumption
    <3> QED
      BY <1>1, <2>1, <2>2, <3>1
  <2> QED
    BY <2>3, <2>4 DEF Bodies, OtherCode
<1>4. ip + 1 # SigReturn
  BY <1>1, SigReturnAssumption
<1> QED
  BY <1>2, <1>3, <1>4 DEF Allowed

(* A thread with one frame is in Main, not at its end. *)
LEMMA OutermostFrame ==
  ASSUME NEW s, StackOK(s), Len(s) = 1
  PROVE  /\ Within(s[1], Main)
         /\ s[1] + 1 \in Main.start..End(Main)
         /\ \A f \in Funcs : s[1] # Func[f].start
<1>1. /\ Main \in Bodies
      /\ Main.start \in Int /\ Main.size \in Nat /\ End(Main) = Main.start + Main.size
      /\ s[1] \in Main.start..End(Main)
      /\ s[1] # End(Main)
  BY BodyFacts, LayoutAssumption DEF StackOK, InBody, End
<1>2. Within(s[1], Main) /\ s[1] + 1 \in Main.start..End(Main) /\ s[1] \in Int
  BY <1>1 DEF Within
<1>3. ASSUME NEW f \in Funcs, s[1] = Func[f].start
      PROVE  FALSE
  <2>1. /\ End(Main) <= Func[f].start \/ End(Func[f]) <= Main.start
        /\ Func[f].start \in Int /\ Func[f].size \in Nat /\ Func[f].size >= 1
    BY <1>1, BodyFacts, LayoutAssumption
  <2> QED
    BY <1>1, <1>2, <1>3, <2>1 DEF End, Within
<1> QED
  BY <1>2, <1>3

-----------------------------------------------------------------------------
(* The steps of the threads.  What each leaves on its stack is well formed *)
(* and allowed.                                                            *)
LEMMA StackReplaced ==
  ASSUME IInv, Running, NEW t \in Threads, NEW u, SetStack(t, u),
         StackOK(u), \A n \in 1..Len(u) : Allowed(u[n])
  PROVE  IInv'
<1>1. /\ stack \in [Threads -> Seq(Int)]
      /\ stack' = [stack EXCEPT ![t] = u]
      /\ UNCHANGED <<code, loaded, pc, op, patch, try, ret>>
      /\ pc # "caught"
  BY DEF IInv, StacksInv, SetStack, nsb, Running
<1>2. stack'[t] = u /\ \A v \in Threads \ {t} : stack'[v] = stack[v]
  BY <1>1
<1>3. stack' \in [Threads -> Seq(Int)]
  BY <1>1 DEF StackOK
<1>4. \A ip : Allowed(ip)' <=> Allowed(ip)
  BY <1>1 DEF Allowed
<1>5. \A v \in Threads : StackOK(stack'[v])
  BY <1>2 DEF IInv, StacksInv
<1>6. \A v \in Threads : \A n \in 1..Len(stack'[v]) : Allowed(stack'[v][n])
  BY <1>2 DEF IInv, StacksInv
<1>7. StacksInv'
  BY <1>1, <1>3, <1>5, <1>6 DEF StacksInv, StackOK, InBody, Allowed
<1>8. Typed'
  BY <1>1 DEF IInv, Typed
<1> QED
  BY <1>1, <1>7, <1>8 DEF IInv

LEMMA JumpsOf ==
  ASSUME IInv, NEW t \in Threads
  PROVE  /\ stack[t] \in Seq(Int) /\ stack[t] # <<>> /\ Ip(t) = stack[t][1]
         /\ Ip(t) \in Int /\ InBody(Ip(t)) /\ Allowed(Ip(t))
         /\ Len(stack[t]) \in Nat /\ Len(stack[t]) >= 1
         /\ Jumps(t) = {} => \A f \in Funcs : code[f] # Orig => Ip(t) # Func[f].start
<1>1. /\ stack[t] \in Seq(Int) /\ stack[t] # <<>> /\ InBody(stack[t][1])
      /\ \A n \in 1..Len(stack[t]) : Allowed(stack[t][n])
  BY DEF IInv, StacksInv, StackOK
<1>2. /\ Ip(t) = stack[t][1] /\ stack[t][1] \in Int
      /\ Len(stack[t]) \in Nat /\ Len(stack[t]) >= 1
  BY <1>1, StackElements DEF Ip
<1> QED
  BY <1>1, <1>2 DEF Jumps

(* A jump leads to the start of a function of a loaded patch; any other    *)
(* instruction is followed by the next.                                    *)
LEMMA ThreadStepInstruction ==
  ASSUME IInv, NEW t \in Threads, Step(t)
  PROVE  IInv'
<1> DEFINE s == stack[t]
<1>1. /\ s \in Seq(Int) /\ s # <<>> /\ Ip(t) = s[1] /\ s[1] \in Int
      /\ Len(s) \in Nat /\ Len(s) >= 1 /\ Running /\ Typed /\ Allowed(s[1])
      /\ Jumps(t) = {} => \A f \in Funcs : code[f] # Orig => s[1] # Func[f].start
  BY JumpsOf DEF Step, IInv
<1>2. StackOK(s) /\ \A n \in 1..Len(s) : Allowed(s[n])
  BY DEF IInv, StacksInv
<1> HIDE DEF s
<1>3. ASSUME NEW x \in Int, InBody(x), Allowed(x), x # SigReturn,
             Len(s) = 1 => x \in Main.start..End(Main),
             SetStack(t, <<x>> \o Tail(s))
      PROVE  IInv'
  <2> DEFINE u == <<x>> \o Tail(s)
  <2>1. /\ u \in Seq(Int) /\ Len(u) = Len(s)
        /\ u[1] = x /\ \A n \in 2..Len(s) : u[n] = s[n]
    BY <1>1, <1>3, TopReplaced
  <2>2. SetStack(t, u)
    BY <1>3
  <2> HIDE DEF u
  <2>3. u # <<>>
    BY <1>1, <2>1, EmptySeq
  <2>4. ASSUME NEW n \in 1..Len(u)
        PROVE  Allowed(u[n])
    <3>1. n = 1 \/ (n \in 2..Len(s) /\ n \in 1..Len(s))
      BY <1>1, <2>1
    <3> QED
      BY <1>2, <1>3, <2>1, <3>1
  <2>5. ASSUME NEW n \in 1..Len(u), u[n] = SigReturn
        PROVE  n < Len(u) /\ InBody(u[n + 1])
    <3>1. n \in 2..Len(s) /\ n \in 1..Len(s) /\ n + 1 > 2
      BY <1>1, <1>3, <2>1, <2>5
    <3>2. n < Len(s) /\ InBody(s[n + 1])
      BY <1>2, <2>1, <2>5, <3>1 DEF StackOK
    <3>3. n + 1 \in 2..Len(s)
      BY <1>1, <3>1, <3>2
    <3> QED
      BY <2>1, <3>2, <3>3
  <2>6. u[Len(u)] \in Main.start..End(Main)
    <3>1. CASE Len(s) = 1
      BY <1>3, <2>1, <3>1
    <3>2. CASE Len(s) # 1
      <4>1. Len(s) \in 2..Len(s)
        BY <1>1, <3>2, SeveralFrames, Zenon
      <4>2. u[Len(u)] = s[Len(s)]
        BY <2>1, <4>1
      <4> QED
        BY <1>2, <4>2 DEF StackOK
    <3> QED
      BY <3>1, <3>2
  <2>7. StackOK(u)
    BY <1>3, <2>1, <2>3, <2>5, <2>6 DEF StackOK
  <2> QED
    BY <1>1, <2>2, <2>4, <2>7, StackReplaced
<1>4. ASSUME NEW f \in Jumps(t),
             SetStack(t, <<Patch[code[f]].funcs[f].start>> \o Tail(s))
      PROVE  IInv'
  <2> DEFINE b == Patch[code[f]].funcs[f]
  <2>1. /\ f \in Funcs /\ code[f] \in loaded /\ code[f] \in Patches
        /\ f \in Changes(code[f]) /\ s[1] = Func[f].start
    BY <1>1, <1>4 DEF Jumps, Typed
  <2>2. b \in Bodies /\ b \in BodiesOf(code[f]) /\ b.start \in Int /\ InBody(b.start)
    BY <2>1, BodyFacts DEF BodiesOf, InBody
  <2>3. \A p \in Patches \ loaded : b \in OtherCode(p)
    BY <2>1, <2>2 DEF OtherCode
  <2>4. Allowed(b.start) /\ b.start # SigReturn
    BY <1>1, <2>2, <2>3, StartAllowed
  <2>5. Len(s) # 1
    BY <1>2, <2>1, OutermostFrame
  <2> QED
    BY <1>3, <1>4, <2>2, <2>4, <2>5
<1>5. ASSUME Jumps(t) = {}, NEW b \in Bodies, Within(s[1], b), Within(s[1] + 1, b),
             SetStack(t, <<s[1] + 1>> \o Tail(s))
      PROVE  IInv'
  <2>1. Allowed(s[1] + 1) /\ s[1] + 1 # SigReturn /\ s[1] + 1 \in Int
    BY <1>1, <1>5, AfterAllowed
  <2>2. InBody(s[1] + 1)
    BY <1>5 DEF InBody
  <2>3. Len(s) = 1 => s[1] + 1 \in Main.start..End(Main)
    BY <1>2, OutermostFrame
  <2> QED
    BY <1>3, <1>5, <2>1, <2>2, <2>3
<1> QED
  BY <1>1, <1>4, <1>5, Zenon DEF Step, s

(* The return address is allowed because the call is not the first         *)
(* instruction of a function that was changed.                             *)
LEMMA ThreadCall ==
  ASSUME IInv, NEW t \in Threads, Call(t)
  PROVE  IInv'
<1> DEFINE s == stack[t]
<1>1. /\ s \in Seq(Int) /\ s # <<>> /\ Ip(t) = s[1] /\ s[1] \in Int
      /\ Len(s) \in Nat /\ Len(s) >= 1 /\ Running /\ Typed /\ Allowed(s[1])
      /\ \A f \in Funcs : code[f] # Orig => s[1] # Func[f].start
  BY JumpsOf DEF Call, IInv
<1>2. StackOK(s) /\ \A n \in 1..Len(s) : Allowed(s[n])
  BY DEF IInv, StacksInv
<1>3. PICK f \in Funcs : SetStack(t, <<Func[f].start, s[1] + 1>> \o Tail(s))
  BY <1>1 DEF Call
<1> HIDE DEF s
<1> DEFINE x == Func[f].start
           y == s[1] + 1
           u == <<x, y>> \o Tail(s)
<1>4. /\ u \in Seq(Int) /\ Len(u) = Len(s) + 1 /\ u[1] = x /\ u[2] = y
      /\ \A n \in 3..(Len(s) + 1) : u[n] = s[n - 1]
  <2>1. x \in Int /\ y \in Int
    BY <1>1, BodyFacts
  <2> HIDE DEF x, y
  <2>2. /\ Tail(s) \in Seq(Int) /\ Len(Tail(s)) = Len(s) - 1
        /\ \A n \in 1..(Len(s) - 1) : Tail(s)[n] = s[n + 1]
    BY <1>1, StackElements
  <2>3. /\ u \in Seq(Int) /\ Len(u) = Len(Tail(s)) + 2 /\ u[1] = x /\ u[2] = y
        /\ \A n \in 3..(Len(Tail(s)) + 2) : u[n] = Tail(s)[n - 2]
    BY <2>1, <2>2, TwoPushed, SMTT(30)
  <2> HIDE DEF u
  <2>4. ASSUME NEW n \in 3..(Len(s) + 1)
        PROVE  u[n] = s[n - 1]
    <3>1. n - 2 \in 1..(Len(s) - 1) /\ (n - 2) + 1 = n - 1 /\ n \in 3..(Len(Tail(s)) + 2)
      BY <1>1, <2>2
    <3> QED
      BY <2>2, <2>3, <3>1
  <2> QED
    BY <1>1, <2>2, <2>3, <2>4
<1>5. SetStack(t, u)
  BY <1>3
<1> HIDE DEF u
<1>6. Allowed(x) /\ x # SigReturn /\ InBody(x)
  <2>1. \A p \in Patches \ loaded : Func[f] \in OtherCode(p)
    BY DEF OtherCode
  <2> QED
    BY <1>1, <2>1, BodyFacts, StartAllowed DEF InBody
<1>7. Allowed(y) /\ y # SigReturn
  <2>1. PICK b \in Bodies : Within(s[1], b)
    BY <1>2 DEF StackOK, InBody
  <2> QED
    BY <1>1, <2>1, AfterAllowed
<1>8. Len(s) = 1 => y \in Main.start..End(Main)
  BY <1>2, OutermostFrame
<1> HIDE DEF x, y
<1>9. ASSUME NEW n \in 1..Len(u)
      PROVE  \/ n = 1 /\ u[n] = x
             \/ n = 2 /\ u[n] = y
             \/ n \in 3..(Len(s) + 1) /\ u[n] = s[n - 1] /\ n - 1 \in 2..Len(s)
  BY <1>1, <1>4, SMTT(30)
<1>10. \A n \in 1..Len(u) : Allowed(u[n])
  BY <1>1, <1>2, <1>6, <1>7, <1>9
<1>11. ASSUME NEW n \in 1..Len(u), u[n] = SigReturn
       PROVE  n < Len(u) /\ InBody(u[n + 1])
  <2>1. n \in 3..(Len(s) + 1) /\ s[n - 1] = SigReturn /\ n - 1 \in 1..Len(s)
    BY <1>1, <1>6, <1>7, <1>9, <1>11
  <2>2. n - 1 < Len(s) /\ InBody(s[(n - 1) + 1])
    BY <1>2, <2>1 DEF StackOK
  <2>3. n + 1 \in 3..(Len(s) + 1) /\ (n + 1) - 1 = (n - 1) + 1 /\ n < Len(u)
    <3>1. Len(s) \in Nat /\ Len(u) = Len(s) + 1
      BY <1>1, <1>4
    <3>2. n \in 3..(Len(s) + 1) /\ n - 1 < Len(s)
      BY <2>1, <2>2
    <3> QED
      BY <3>1, <3>2
  <2>4. u[n + 1] = s[(n + 1) - 1]
    BY <1>4, <2>3
  <2> QED
    BY <2>2, <2>3, <2>4
<1>12. u[Len(u)] \in Main.start..End(Main)
  <2>1. CASE Len(s) = 1
    <3>1. u[Len(u)] = y
      BY <1>4, <2>1
    <3> QED
      BY <1>8, <2>1, <3>1
  <2>2. CASE Len(s) # 1
    <3>1. Len(s) + 1 \in 3..(Len(s) + 1) /\ (Len(s) + 1) - 1 = Len(s)
      BY <1>1, <2>2, SeveralFrames, Zenon
    <3>2. u[Len(u)] = s[Len(s)]
      BY <1>4, <3>1
    <3> QED
      BY <1>2, <3>2 DEF StackOK
  <2> QED
    BY <2>1, <2>2
<1>13. StackOK(u)
  <2>1. u # <<>>
    BY <1>1, <1>4, EmptySeq
  <2> QED
    BY <1>4, <1>6, <1>11, <1>12, <2>1 DEF StackOK
<1> QED
  BY <1>1, <1>5, <1>10, <1>13, StackReplaced

(* What is left when frames are popped. *)
LEMMA FramesPopped ==
  ASSUME NEW s, StackOK(s), NEW d \in Nat, d < Len(s), InBody(s[d + 1]),
         \A n \in 1..Len(s) : Allowed(s[n]),
         NEW u \in Seq(Int), Len(u) = Len(s) - d,
         \A n \in 1..(Len(s) - d) : u[n] = s[n + d]
  PROVE  StackOK(u) /\ \A n \in 1..Len(u) : Allowed(u[n])
<1>1. Len(s) \in Nat
  BY StackElements DEF StackOK
<1>2. ASSUME NEW n \in 1..Len(u)
      PROVE  u[n] = s[n + d] /\ n + d \in 1..Len(s)
  <2>1. n \in 1..(Len(s) - d) /\ n + d \in 1..Len(s)
    BY <1>1
  <2> QED
    BY <2>1, Zenon
<1>3. u # <<>>
  <2>1. Len(u) # 0
    BY <1>1
  <2> QED
    BY <2>1, EmptySeq
<1>4. InBody(u[1])
  <2>1. 1 \in 1..Len(u) /\ 1 + d = d + 1
    BY <1>1
  <2> QED
    BY <1>2, <2>1
<1>5. ASSUME NEW n \in 1..Len(u), u[n] = SigReturn
      PROVE  n < Len(u) /\ InBody(u[n + 1])
  <2>1. n + d < Len(s) /\ InBody(s[(n + d) + 1])
    BY <1>2, <1>5, Zenon DEF StackOK
  <2>2. n < Len(u) /\ n + 1 \in 1..Len(u) /\ (n + 1) + d = (n + d) + 1
    BY <1>1, <2>1
  <2>3. u[n + 1] = s[(n + 1) + d]
    BY <1>2, <2>2
  <2> QED
    BY <2>1, <2>2, <2>3
<1>6. u[Len(u)] \in Main.start..End(Main)
  <2>1. Len(u) \in 1..Len(u) /\ Len(u) + d = Len(s)
    BY <1>1
  <2>2. u[Len(u)] = s[Len(s)]
    BY <1>2, <2>1, Zenon
  <2> QED
    BY <2>2 DEF StackOK
<1> QED
  BY <1>2, <1>3, <1>4, <1>5, <1>6, Zenon DEF StackOK

LEMMA ThreadReturn ==
  ASSUME IInv, NEW t \in Threads, Return(t)
  PROVE  IInv'
<1> DEFINE s == stack[t]
<1>1. /\ s \in Seq(Int) /\ s # <<>> /\ StackOK(s) /\ Running
      /\ \A n \in 1..Len(s) : Allowed(s[n])
      /\ Len(s) > 1
  BY DEF Return, IInv, StacksInv, StackOK
<1>2. \/ InBody(s[2]) /\ SetStack(t, Tail(s))
      \/ s[2] = SigReturn /\ SetStack(t, Tail(Tail(s)))
  BY DEF Return, InBody
<1> HIDE DEF s
<1>3. /\ Len(s) \in Nat
      /\ Tail(s) \in Seq(Int) /\ Len(Tail(s)) = Len(s) - 1
      /\ \A n \in 1..(Len(s) - 1) : Tail(s)[n] = s[n + 1]
  BY <1>1, StackElements
<1>4. CASE InBody(s[2]) /\ SetStack(t, Tail(s))
  <2>1. InBody(s[1 + 1]) /\ 1 \in Nat /\ 1 < Len(s)
    BY <1>1, <1>3, <1>4
  <2>2. StackOK(Tail(s)) /\ \A n \in 1..Len(Tail(s)) : Allowed(Tail(s)[n])
    BY <1>1, <1>3, <2>1, FramesPopped, Zenon
  <2> QED
    BY <1>1, <1>4, <2>2, StackReplaced, Zenon
<1>5. CASE s[2] = SigReturn /\ SetStack(t, Tail(Tail(s)))
  <2> DEFINE r == Tail(s)
             u == Tail(r)
  <2>1. 2 < Len(s) /\ InBody(s[2 + 1]) /\ 2 \in Nat
    <3>1. 2 \in 1..Len(s)
      BY <1>1, <1>3
    <3> QED
      BY <1>1, <1>5, <3>1 DEF StackOK
  <2>2. r \in Seq(Int) /\ r # <<>> /\ Len(r) = Len(s) - 1
    <3>1. Len(r) # 0
      BY <1>3, <2>1
    <3> QED
      BY <1>3, <3>1, EmptySeq, Zenon
  <2>3. /\ u \in Seq(Int) /\ Len(u) = Len(r) - 1
        /\ \A n \in 1..(Len(r) - 1) : u[n] = r[n + 1]
    BY <2>2, StackElements
  <2>4. SetStack(t, u)
    BY <1>5
  <2> HIDE DEF u
  <2>5. Len(u) = Len(s) - 2
    BY <1>3, <2>2, <2>3
  <2>6. ASSUME NEW n \in 1..(Len(s) - 2)
        PROVE  u[n] = s[n + 2]
    <3>1. /\ n \in 1..(Len(r) - 1) /\ n + 1 \in 1..(Len(s) - 1)
          /\ (n + 1) + 1 = n + 2
      BY <1>3, <2>2
    <3>2. u[n] = r[n + 1] /\ r[n + 1] = s[(n + 1) + 1]
      BY <1>3, <2>3, <3>1
    <3> QED
      BY <3>1, <3>2
  <2>7. StackOK(u) /\ \A n \in 1..Len(u) : Allowed(u[n])
    BY <1>1, <2>1, <2>3, <2>5, <2>6, FramesPopped, Zenon
  <2> QED
    BY <1>1, <2>4, <2>7, StackReplaced
<1> QED
  BY <1>2, <1>4, <1>5

LEMMA ThreadSignal ==
  ASSUME IInv, NEW t \in Threads, Signal(t)
  PROVE  IInv'
<1> DEFINE s == stack[t]
           u == <<Main.start, SigReturn>> \o s
<1>1. /\ s \in Seq(Int) /\ s # <<>> /\ StackOK(s) /\ Running /\ Typed
      /\ \A n \in 1..Len(s) : Allowed(s[n])
      /\ SetStack(t, u)
  BY DEF Signal, IInv, StacksInv, StackOK
<1> HIDE DEF s
<1>2. Len(s) \in Nat /\ Len(s) >= 1
  BY <1>1, StackElements
<1>3. /\ u \in Seq(Int) /\ Len(u) = Len(s) + 2
      /\ u[1] = Main.start /\ u[2] = SigReturn
      /\ \A n \in 3..(Len(s) + 2) : u[n] = s[n - 2]
  <2>1. Main.start \in Int /\ SigReturn \in Int
    BY BodyFacts, SigReturnAssumption
  <2> QED
    BY <1>1, <2>1, TwoPushed
<1> HIDE DEF u
<1>4. Allowed(Main.start) /\ Main.start # SigReturn /\ InBody(Main.start)
  <2>1. \A p \in Patches \ loaded : Main \in OtherCode(p)
    BY DEF OtherCode
  <2> QED
    BY <1>1, <2>1, BodyFacts, StartAllowed DEF InBody
<1>5. Allowed(SigReturn)
  <2>1. ASSUME NEW f \in Funcs
        PROVE  ~(Func[f].start < SigReturn /\ SigReturn < End(Func[f]))
    <3>1. /\ SigReturn \notin Func[f].start..End(Func[f])
          /\ SigReturn \in Int /\ Func[f].start \in Int /\ End(Func[f]) \in Int
      BY BodyFacts, SigReturnAssumption
    <3> QED
      BY <3>1
  <2>2. ASSUME NEW p \in Patches
        PROVE  ~(Patch[p].start <= SigReturn /\ SigReturn < Patch[p].end)
    <3>1. /\ SigReturn \notin Patch[p].start..(Patch[p].end - 1)
          /\ SigReturn \in Int /\ Patch[p].start \in Int /\ Patch[p].end \in Int
      BY PatchAssumption, SigReturnAssumption
    <3> QED
      BY <3>1
  <2> QED
    BY <2>1, <2>2 DEF Allowed
<1>6. ASSUME NEW n \in 1..Len(u)
      PROVE  \/ n = 1 /\ u[n] = Main.start
             \/ n = 2 /\ u[n] = SigReturn
             \/ n \in 3..(Len(s) + 2) /\ u[n] = s[n - 2] /\ n - 2 \in 1..Len(s)
  BY <1>2, <1>3
<1>7. \A n \in 1..Len(u) : Allowed(u[n])
  BY <1>1, <1>4, <1>5, <1>6, Zenon
<1>8. ASSUME NEW n \in 1..Len(u), u[n] = SigReturn
      PROVE  n < Len(u) /\ InBody(u[n + 1])
  <2>1. CASE n = 2
    <3>1. 3 \in 3..(Len(s) + 2) /\ 3 - 2 = 1 /\ 2 + 1 = 3 /\ 2 < Len(u)
      BY <1>2, <1>3
    <3>2. u[3] = s[3 - 2]
      BY <1>3, <3>1
    <3> QED
      BY <1>1, <2>1, <3>1, <3>2 DEF StackOK
  <2>2. CASE n # 2
    <3>1. n \in 3..(Len(s) + 2) /\ s[n - 2] = SigReturn /\ n - 2 \in 1..Len(s)
      BY <1>4, <1>6, <1>8, <2>2
    <3>2. n - 2 < Len(s) /\ InBody(s[(n - 2) + 1])
      BY <1>1, <3>1 DEF StackOK
    <3>3. n + 1 \in 3..(Len(s) + 2) /\ (n + 1) - 2 = (n - 2) + 1 /\ n < Len(u)
      BY <1>2, <1>3, <3>1, <3>2, SMTT(30)
    <3>4. u[n + 1] = s[(n + 1) - 2]
      BY <1>3, <3>3
    <3> QED
      BY <3>2, <3>3, <3>4
  <2> QED
    BY <2>1, <2>2
<1>9. u[Len(u)] \in Main.start..End(Main)
  <2>1. Len(s) + 2 \in 3..(Len(s) + 2) /\ (Len(s) + 2) - 2 = Len(s)
    BY <1>2
  <2>2. u[Len(u)] = s[Len(s)]
    BY <1>3, <2>1
  <2> QED
    BY <1>1, <2>2 DEF StackOK
<1>10. StackOK(u)
  <2>1. u # <<>>
    BY <1>2, <1>3, EmptySeq
  <2> QED
    BY <1>3, <1>4, <1>8, <1>9, <2>1 DEF StackOK
<1> QED
  BY <1>1, <1>7, <1>10, StackReplaced

-----------------------------------------------------------------------------
(* process_check_stack: when it succeeds for every thread, all frames but  *)
(* the outermost are outside of what the command changes.                  *)
LEMMA CheckedWhenOk ==
  ASSUME IInv, NEW unwind,
         \A t \in Threads : task_check_stack(t, unwind[t]) = "ok"
  PROVE  Checked
<1> SUFFICES ASSUME NEW t \in Threads, NEW n \in 1..(Len(stack[t]) - 1)
             PROVE  IF op = "apply"
                    THEN \A f \in Changes(patch) :
                           ~(Func[f].start < stack[t][n] /\ stack[t][n] < End(Func[f]))
                    ELSE ~(/\ Patch[patch].start <= stack[t][n]
                           /\ stack[t][n] <= Patch[patch].end)
  BY DEF Checked
<1> DEFINE bt == do_backtrace(stack[t], unwind[t])
           hit == IF op = "apply" THEN jumps_check_backtrace(patch, bt.calls)
                  ELSE patch_check_backtrace(patch, bt.calls)
<1>1. stack[t][n] \in Range(bt.calls)
  BY BacktraceElements DEF IInv, StacksInv, StackOK
<1>2. (IF bt.err = "ok" /\ hit THEN "EAGAIN" ELSE bt.err) = "ok"
  BY DEF task_check_stack
<1> HIDE DEF bt
<1>3. ~hit
  BY <1>2
<1>4. CASE op = "apply"
  BY <1>1, <1>3, <1>4
  DEF jumps_check_backtrace, backtrace_check_func, bt_check_range, End
<1>5. CASE op # "apply"
  BY <1>1, <1>3, <1>5
  DEF patch_check_backtrace, backtrace_check_range, bt_check_range
<1> QED
  BY <1>4, <1>5

LEMMA NsbOutside ==
  ASSUME IInv, Start \/ process_check_stack \/ Retry \/ UNCHANGED vars
  PROVE  IInv'
<1>1. UNCHANGED <<stack, code, loaded>>
  BY DEF Start, process_check_stack, Retry, vars, process
<1>2. StacksInv'
  BY <1>1 DEF IInv, StacksInv, Allowed, StackOK, InBody
<1>3. CASE Start
  BY <1>1, <1>2, <1>3 DEF Start, IInv, Typed
<1>4. CASE process_check_stack
  <2>1. /\ pc = "check" /\ UNCHANGED <<op, patch>>
        /\ pc' \in {"caught", "wait", "off"}
        /\ pc' = "caught" =>
             \E unwind \in [Threads -> Unwinds] :
               \A t \in Threads : task_check_stack(t, unwind[t]) = "ok"
    BY <1>4 DEF process_check_stack
  <2>2. pc' = "caught" => Checked
    BY <2>1, CheckedWhenOk
  <2> QED
    BY <1>1, <1>2, <2>1, <2>2 DEF IInv, Typed, Checked
<1>5. CASE Retry
  BY <1>1, <1>2, <1>5 DEF Retry, IInv, Typed
<1>6. CASE UNCHANGED vars
  BY <1>1, <1>2, <1>6 DEF vars, nsb, IInv, Typed, Checked
<1> QED
  BY <1>3, <1>4, <1>5, <1>6

(* The outermost frame is outside of every function and patch. *)
LEMMA OutermostAllowed ==
  ASSUME NEW ip \in Main.start..End(Main)
  PROVE  /\ \A f \in Funcs : ~(Func[f].start < ip /\ ip < End(Func[f]))
         /\ \A p \in Patches : ~(Patch[p].start <= ip /\ ip < Patch[p].end)
<1>1. Main \in Bodies /\ Main.start \in Int /\ End(Main) \in Int
  BY BodyFacts
<1>2. ASSUME NEW f \in Funcs
      PROVE  ~(Func[f].start < ip /\ ip < End(Func[f]))
  <2>1. /\ Func[f].start \in Int /\ End(Func[f]) \in Int
        /\ End(Main) <= Func[f].start \/ End(Func[f]) <= Main.start
    BY <1>1, BodyFacts, LayoutAssumption
  <2> QED
    BY <1>1, <2>1
<1>3. ASSUME NEW p \in Patches
      PROVE  ~(Patch[p].start <= ip /\ ip < Patch[p].end)
  <2>1. /\ Patch[p].start \in Int /\ Patch[p].end \in Int
        /\ End(Main) < Patch[p].start \/ Patch[p].end <= Main.start
    BY PatchAssumption DEF OtherCode
  <2> QED
    BY <1>1, <2>1
<1> QED
  BY <1>2, <1>3

(* A frame is the outermost or one that was looked at. *)
LEMMA FrameSplit ==
  ASSUME IInv, NEW t \in Threads, NEW n \in 1..Len(stack[t])
  PROVE  \/ n \in 1..(Len(stack[t]) - 1)
         \/ stack[t][n] \in Main.start..End(Main)
<1>1. StackOK(stack[t]) /\ Len(stack[t]) \in Nat
  BY StackElements DEF IInv, StacksInv, StackOK
<1>2. n \in 1..(Len(stack[t]) - 1) \/ n = Len(stack[t])
  BY <1>1
<1> QED
  BY <1>1, <1>2 DEF StackOK

(* apply_func_jumps: the functions that get a jump are on no stack. *)
LEMMA NsbApply ==
  ASSUME IInv, Apply
  PROVE  IInv'
<1>1. /\ pc = "caught" /\ op = "apply" /\ pc' = "off" /\ stack' = stack
      /\ loaded' = loaded \union {patch} /\ patch \in Patches
      /\ code' = [f \in Funcs |-> IF f \in Changes(patch) THEN patch ELSE code[f]]
      /\ Checked
  BY DEF Apply, IInv, Typed
<1>2. Typed'
  BY <1>1 DEF IInv, Typed
<1>3. ASSUME NEW t \in Threads, NEW n \in 1..Len(stack[t])
      PROVE  Allowed(stack[t][n])'
  <2> DEFINE ip == stack[t][n]
  <2>1. ASSUME NEW f \in Funcs, code'[f] # Orig
        PROVE  ~(Func[f].start < ip /\ ip < End(Func[f]))
    <3>1. CASE f \in Changes(patch)
      BY <1>1, <1>3, <3>1, FrameSplit, OutermostAllowed DEF Checked
    <3>2. CASE f \notin Changes(patch)
      BY <1>1, <2>1, <3>2 DEF IInv, StacksInv, Allowed
    <3> QED
      BY <3>1, <3>2
  <2>2. ASSUME NEW p \in Patches \ loaded'
        PROVE  ~(Patch[p].start <= ip /\ ip < Patch[p].end)
    BY <1>1 DEF IInv, StacksInv, Allowed
  <2> QED
    BY <1>1, <2>1, <2>2 DEF Allowed
<1>4. StacksInv'
  BY <1>1, <1>3 DEF IInv, StacksInv, StackOK, InBody
<1> QED
  BY <1>1, <1>2, <1>4 DEF IInv

(* revert_dyn_binpatch: a function gets the jump of another loaded patch,  *)
(* or its code; the patch that goes is on no stack.                        *)
LEMMA NsbRevert ==
  ASSUME IInv, Revert
  PROVE  IInv'
<1>1. /\ pc = "caught" /\ op = "revert" /\ op # "apply" /\ pc' = "off" /\ stack' = stack
      /\ loaded' = loaded \ {patch} /\ patch \in Patches
      /\ code' = [f \in Funcs |-> revert_func_jump(patch, f)]
      /\ Checked /\ Typed
  BY DEF Revert, IInv, Typed
<1>2. ASSUME NEW f \in Funcs
      PROVE  /\ code'[f] \in Patches \union {Orig}
             /\ code'[f] # Orig => /\ f \in Changes(code'[f]) /\ code'[f] \in loaded'
                                   /\ code[f] # Orig
  <2>1. code'[f] = revert_func_jump(patch, f)
    BY <1>1
  <2>2. code[f] = patch => f \in Changes(patch)
    BY <1>1, PatchAssumption DEF Typed
  <2>3. CASE code[f] = patch
    <3> DEFINE before == {q \in loaded : f \in Changes(q) /\ Patch[q].start < Patch[patch].start}
    <3>1. code'[f] = IF before = {} THEN Orig
                     ELSE CHOOSE q \in before : \A r \in before : Patch[r].start <= Patch[q].start
      BY <2>1, <2>2, <2>3 DEF revert_func_jump, find_previous_func_jump
    <3>2. before \in SUBSET Patches
      BY <1>1 DEF Typed
    <3>3. before # {} => \E q \in before : \A r \in before : Patch[r].start <= Patch[q].start
      BY <3>2, PatchAssumption, Zenon
    <3>4. code'[f] = Orig \/ code'[f] \in before
      BY <3>1, <3>3
    <3>5. \A q \in before : /\ q \in Patches /\ q \in loaded /\ f \in Changes(q)
                            /\ q # patch
      BY <1>1, <3>2, PatchAssumption, SMTT(30)
    <3>6. code[f] # Orig
      BY <1>1, <2>3, PatchAssumption
    <3> HIDE DEF before
    <3> QED
      BY <1>1, <3>4, <3>5, <3>6
  <2>4. CASE code[f] # patch
    <3>1. code'[f] = code[f]
      BY <2>1, <2>4 DEF revert_func_jump
    <3> QED
      BY <1>1, <2>4, <3>1 DEF Typed
  <2> QED
    BY <2>3, <2>4
<1>3. Typed'
  BY <1>1, <1>2 DEF Typed
<1>4. ASSUME NEW t \in Threads, NEW n \in 1..Len(stack[t])
      PROVE  Allowed(stack[t][n])'
  <2> DEFINE ip == stack[t][n]
  <2>1. ASSUME NEW f \in Funcs, code'[f] # Orig
        PROVE  ~(Func[f].start < ip /\ ip < End(Func[f]))
    BY <1>2, <2>1 DEF IInv, StacksInv, Allowed
  <2>2. ASSUME NEW p \in Patches \ loaded'
        PROVE  ~(Patch[p].start <= ip /\ ip < Patch[p].end)
    <3>1. CASE p = patch
      <4>1. CASE n \in 1..(Len(stack[t]) - 1)
        <5>1. ~(Patch[p].start <= ip /\ ip <= Patch[p].end)
          BY <1>1, <3>1, <4>1 DEF Checked
        <5>2. ip \in Int /\ Patch[p].end \in Int
          BY StackElements, PatchAssumption DEF IInv, StacksInv, StackOK
        <5> QED
          BY <5>1, <5>2
      <4>2. CASE ip \in Main.start..End(Main)
        BY <4>2, OutermostAllowed
      <4> QED
        BY <4>1, <4>2, FrameSplit
    <3>2. CASE p # patch
      BY <1>1, <3>2 DEF IInv, StacksInv, Allowed
    <3> QED
      BY <3>1, <3>2
  <2> QED
    BY <1>1, <2>1, <2>2 DEF Allowed
<1>5. StacksInv'
  BY <1>1, <1>4 DEF IInv, StacksInv, StackOK, InBody
<1> QED
  BY <1>1, <1>3, <1>5 DEF IInv

-----------------------------------------------------------------------------
LEMMA IInvInit == Init => IInv
<1> SUFFICES ASSUME Init PROVE IInv
  OBVIOUS
<1> DEFINE s == <<Main.start>>
<1>1. Typed
  BY DEF Init, Typed
<1>2. /\ Main \in Bodies /\ Main.start \in Int /\ End(Main) \in Int
      /\ Main.start <= End(Main) /\ InBody(Main.start)
  BY BodyFacts DEF End, InBody
<1>3. s \in Seq(Int) /\ s # <<>> /\ Len(s) = 1 /\ s[1] = Main.start
  BY <1>2
<1>4. Allowed(Main.start) /\ Main.start # SigReturn
  <2>1. \A p \in Patches \ loaded : Main \in OtherCode(p)
    BY DEF OtherCode
  <2> QED
    BY <1>1, <1>2, <2>1, StartAllowed
<1> HIDE DEF s
<1>5. Main.start \in Main.start..End(Main) /\ \A n \in 1..Len(s) : n = 1
  BY <1>2, <1>3
<1>6. StackOK(s) /\ \A n \in 1..Len(s) : Allowed(s[n])
  BY <1>2, <1>3, <1>4, <1>5 DEF StackOK
<1>7. stack = [t \in Threads |-> s]
  BY DEF Init, s
<1>8. StacksInv
  BY <1>3, <1>6, <1>7, Zenon DEF StacksInv
<1> QED
  BY <1>1, <1>8 DEF Init, IInv

LEMMA IInvStep == IInv /\ [Next]_vars => IInv'
BY ThreadStepInstruction, ThreadCall, ThreadReturn, ThreadSignal,
   NsbOutside, NsbApply, NsbRevert
DEF Next, NsbStep, ThreadStep

LEMMA StackRange ==
  ASSUME IInv, NEW t \in Threads, NEW ip \in Range(stack[t])
  PROVE  Allowed(ip)
<1>1. stack[t] \in Seq(Int)
  BY DEF IInv, StacksInv
<1>2. PICK n \in 1..Len(stack[t]) : ip = stack[t][n]
  BY <1>1, LenProperties DEF Range
<1> QED
  BY <1>2 DEF IInv, StacksInv

(* NoOldFrames: from the check of the stacks until a function gets its     *)
(* code back, no thread returns into the body that a jump replaced, though *)
(* the outermost frame is not looked at, return addresses may lie after    *)
(* the end of a function, and signals arrive at any instruction.           *)
THEOREM OldBodiesUnused == Spec => []NoOldFrames
<1>1. IInv => NoOldFrames
  BY StackRange DEF NoOldFrames, Allowed, End
<1> QED
  BY <1>1, IInvInit, IInvStep, PTL DEF Spec

(* NoUnmappedFrames: no jump and no return address leads into a patch that *)
(* was taken out.                                                          *)
THEOREM UnmappedPatchesUnused == Spec => []NoUnmappedFrames
<1>1. IInv => NoUnmappedFrames
  <2> SUFFICES ASSUME IInv, NEW p \in Patches \ loaded
               PROVE  /\ \A f \in Funcs : code[f] # p
                      /\ \A t \in Threads : \A ip \in Range(stack[t]) :
                           ~(Patch[p].start <= ip /\ ip < Patch[p].end)
    BY DEF NoUnmappedFrames
  <2>1. \A f \in Funcs : code[f] # p
    BY PatchAssumption DEF IInv, Typed
  <2> QED
    BY <2>1, StackRange DEF Allowed
<1> QED
  BY <1>1, IInvInit, IInvStep, PTL DEF Spec
=============================================================================
