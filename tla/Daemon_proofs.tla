---------------------------- MODULE Daemon_proofs ----------------------------
(***************************************************************************)
(* Proofs about Daemon, for any managers in either mode and any number of  *)
(* events.  What the threads of scanbd have before them are sequences of   *)
(* steps of any length; the inductive invariant IInv says which shape they *)
(* have, that sane_mutex is with the thread that is inside a stop or a     *)
(* start, and what a session that has scanbd to itself may rely on.        *)
(***************************************************************************)
EXTENDS Daemon, FiniteSetTheorems, FunctionTheorems, SequenceTheorems, TLAPS

-----------------------------------------------------------------------------
(* The inductive invariant                                                 *)

Holding == {"stopping", "starting"}

\* The steps of s at which sane_mutex is locked and not unlocked yet.
HeldSteps(s) == {i \in DOMAIN s : s[i] \in Holding}
Held(s) == Cardinality(HeldSteps(s))

\* What main has before it ends with the mark of a handler or with the start
\* of the last thread; the handler of TERM returns only where exit was called;
\* a stop that is under way is first unless TERM or the start-up is below it.
MainShape(s, ended) ==
  /\ s # <<>> => s[Len(s)] \in Signal \cup {"udev_start"}
  /\ \A i \in 1..Len(s) : s[i] = "udev_start" => i = Len(s)
  /\ ~ended => \A i \in 1..Len(s) : s[i] = "TERM" => i > 1 /\ s[i - 1] = "exit"
  /\ \/ \E i \in 1..Len(s) : s[i] \in {"TERM", "udev_start"}
     \/ \A i \in 2..Len(s) : s[i] # "stopping"

\* The other two threads do one thing after the other.
OtherShape(s) == /\ \A i \in 2..Len(s) : s[i] # "stopping"
                 /\ \A i \in 1..Len(s) : s[i] = "reply" => i = Len(s)

ShapeInv ==
  /\ MainShape(todo["main"], exited)
  /\ \A t \in {"dbus", "udev"} : OtherShape(todo[t])
  /\ calls = <<>> => \A i \in 1..Len(todo["dbus"]) : todo["dbus"][i] # "reply"

\* Only the owner of sane_mutex is where it is locked, and it has locked it
\* at least as often as it will unlock it.
LockInv ==
  /\ \A t \in Thread : t # owner => HeldSteps(todo[t]) = {}
  /\ owner \in Thread => Held(todo[owner]) <= depth

\* A session that has scanbd to itself: nobody else has anything to do.
Alone(m) ==
  /\ todo["main"] = <<>> /\ todo["udev"] = <<>>
  /\ pending = {} /\ events = 0
  /\ \A n \in Manager : Active(n) => n = m

SessionInv ==
  \A m \in undisturbed :
    /\ mpc[m] = "acquiring" =>
         /\ Alone(m)
         /\ calls = <<[from |-> m, method |-> "acquire"]>>
         /\ todo["dbus"] \in {<<>>, <<"stop", "reply">>, <<"stopping", "reply">>,
                              <<"reply">>}
         /\ todo["dbus"] = <<"reply">> => ~polling
    /\ mpc[m] \in {"fork", "saned"} =>
         Alone(m) /\ calls = <<>> /\ todo["dbus"] = <<>> /\ ~polling

\* exit ends the polling; an event is an event that happened.
EndInv == (exited => ~polling) /\ events <= used

IInv == TypeOK /\ ShapeInv /\ LockInv /\ SessionInv /\ EndInv

-----------------------------------------------------------------------------
(* Sequences of steps                                                      *)

\* What the gate puts in the place of the first step.
Gives(x, steps) == \/ steps = <<>>
                   \/ steps = <<"stopping">> /\ x = "stop"
                   \/ steps = <<"stop", "starting">> /\ x = "start"

\* Two steps, one after the other.
LEMMA PairOfSteps ==
  ASSUME NEW a \in Step, NEW b \in Step
  PROVE  <<a>> \o <<b>> = <<a, b>>
<1> DEFINE r == <<a>> \o <<b>>
<1>1. r \in Seq(Step) /\ Len(r) = 2 /\ r[1] = a /\ r[2] = b
  OBVIOUS
<1> HIDE DEF r
<1>2. r = <<r[1], r[2]>>
  BY <1>1
<1> QED BY <1>1, <1>2 DEF r

\* The steps of a sequence stay steps.
LEMMA GivesType ==
  ASSUME NEW s \in Seq(Step), s # <<>>, NEW steps, Gives(Head(s), steps)
  PROVE  /\ Tail(s) \in Seq(Step)
         /\ steps \in Seq(Step)
         /\ steps \o Tail(s) \in Seq(Step)
<1>1. Tail(s) \in Seq(Step)
  BY HeadTailProperties
<1>2. <<>> \in Seq(Step) /\ <<"stopping">> \in Seq(Step)
      /\ <<"stop", "starting">> \in Seq(Step)
  BY DEF Step
<1>3. steps \in Seq(Step)
  BY <1>2 DEF Gives
<1> QED BY <1>1, <1>3, ConcatProperties

\* The first step replaced, main still has what main can have before it.
LEMMA GivesMain ==
  ASSUME NEW s \in Seq(Step), s # <<>>, NEW x, MainShape(s, x),
         NEW steps, Gives(Head(s), steps), Head(s) \notin {"TERM", "exit"}
  PROVE  MainShape(steps \o Tail(s), x)
<1> DEFINE r == steps \o Tail(s)
<1>1. CASE steps = <<>>
  <2>1. Len(r) = Len(s) - 1 /\ \A i \in 1..Len(r) : r[i] = s[i + 1]
    BY <1>1
  <2>2. Len(s) \in Nat \ {0} /\ r \in Seq(Step) /\ Head(s) = s[1]
    BY GivesType
  <2> HIDE DEF r
  <2>3. r # <<>> => r[Len(r)] \in Signal \cup {"udev_start"}
    BY <2>1, <2>2 DEF MainShape
  <2>4. \A i \in 1..Len(r) : r[i] = "udev_start" => i = Len(r)
    BY <2>1, <2>2 DEF MainShape
  <2>5. ~x => \A i \in 1..Len(r) : r[i] = "TERM" => i > 1 /\ r[i - 1] = "exit"
    <3> SUFFICES ASSUME ~x, NEW i \in 1..Len(r), r[i] = "TERM"
                 PROVE  i > 1 /\ r[i - 1] = "exit"
      OBVIOUS
    <3>1. i + 1 \in 1..Len(s) /\ s[i + 1] = "TERM"
      BY <2>1, <2>2
    <3>2. s[i] = "exit" /\ i # 1
      BY <3>1, <2>2 DEF MainShape
    <3> QED BY <3>2, <2>1, <2>2
  <2>6. \/ \E i \in 1..Len(r) : r[i] \in {"TERM", "udev_start"}
        \/ \A i \in 2..Len(r) : r[i] # "stopping"
    <3>1. CASE \A i \in 2..Len(s) : s[i] # "stopping"
      BY <3>1, <2>1, <2>2
    <3>2. ASSUME NEW j \in 1..Len(s), s[j] \in {"TERM", "udev_start"}
          PROVE  <2>6!1 \/ r = <<>>
      <4>1. CASE j = 1
        BY <3>2, <4>1, <2>1, <2>2 DEF MainShape
      <4>2. CASE j > 1
        <5>1. j - 1 \in 1..Len(r) /\ r[j - 1] = s[j]
          BY <4>2, <2>1, <2>2
        <5> QED BY <5>1, <3>2
      <4> QED BY <4>1, <4>2
    <3> QED BY <3>1, <3>2 DEF MainShape
  <2> QED BY <2>3, <2>4, <2>5, <2>6 DEF MainShape, r
<1>2. CASE steps # <<>>
  <2>1. /\ r \in Seq(Step) /\ Head(s) = s[1] /\ Len(s) \in Nat \ {0}
        /\ s[1] \in {"stop", "start"}
    BY <1>2, GivesType DEF Gives
  <2>2. PICK n \in 0..1 :
          /\ Len(r) = Len(s) + n
          /\ r[1] \in {"stop", "stopping"}
          /\ n = 1 => r[2] = "starting"
          /\ \A i \in 2..Len(s) : r[i + n] = s[i]
    <3>1. CASE steps = <<"stopping">>
      <4>1. Len(r) = Len(s) /\ r[1] = "stopping" /\ \A i \in 2..Len(s) : r[i + 0] = s[i]
        BY <3>1
      <4> QED BY <4>1
    <3>2. CASE steps = <<"stop", "starting">>
      <4>1. /\ Len(r) = Len(s) + 1 /\ r[1] = "stop" /\ r[2] = "starting"
            /\ \A i \in 2..Len(s) : r[i + 1] = s[i]
        BY <3>2
      <4> QED BY <4>1
    <3> QED BY <1>2, <3>1, <3>2 DEF Gives
  <2> HIDE DEF r
  <2>3. Len(s) > 1
    BY <2>1 DEF MainShape, Signal
  <2>4. ASSUME NEW i \in 1..Len(r)
        PROVE  \/ i = 1 \/ (i = 2 /\ n = 1)
               \/ i - n \in 2..Len(s) /\ r[i] = s[i - n]
    BY <2>1, <2>2, <2>3
  <2>5. \A i \in 2..Len(s) : i + n \in 2..Len(r)
    BY <2>1, <2>2
  <2>6. r[Len(r)] \in Signal \cup {"udev_start"}
    BY <2>1, <2>2, <2>3 DEF MainShape
  <2>7. \A i \in 1..Len(r) : r[i] = "udev_start" => i = Len(r)
    <3> SUFFICES ASSUME NEW i \in 1..Len(r), r[i] = "udev_start" PROVE i = Len(r)
      OBVIOUS
    <3>1. i - n \in 2..Len(s) /\ s[i - n] = "udev_start"
      BY <2>2, <2>4
    <3>2. i - n = Len(s)
      BY <3>1, <2>1 DEF MainShape
    <3> QED BY <3>2, <2>1, <2>2
  <2>8. ~x => \A i \in 1..Len(r) : r[i] = "TERM" => i > 1 /\ r[i - 1] = "exit"
    <3> SUFFICES ASSUME ~x, NEW i \in 1..Len(r), r[i] = "TERM"
                 PROVE  i > 1 /\ r[i - 1] = "exit"
      OBVIOUS
    <3>1. i - n \in 2..Len(s) /\ s[i - n] = "TERM"
      BY <2>2, <2>4
    <3>2. s[i - n - 1] = "exit" /\ i - n - 1 \in 1..Len(s)
      BY <3>1, <2>1, <2>2 DEF MainShape
    <3>3. i - n - 1 # 1
      BY <3>2, <2>1
    <3>4. r[(i - n - 1) + n] = s[i - n - 1] /\ (i - n - 1) + n = i - 1
      <4> DEFINE k == i - n - 1
      <4>1. k \in 2..Len(s)
        BY <3>2, <3>3
      <4>2. r[k + n] = s[k]
        BY <4>1, <2>2
      <4> QED BY <4>2
    <3> QED BY <3>1, <3>2, <3>4, <2>1, <2>2
  <2>9. \/ \E i \in 1..Len(r) : r[i] \in {"TERM", "udev_start"}
        \/ \A i \in 2..Len(r) : r[i] # "stopping"
    <3>1. CASE \A i \in 2..Len(s) : s[i] # "stopping"
      BY <3>1, <2>1, <2>2, <2>4
    <3>2. ASSUME NEW j \in 1..Len(s), s[j] \in {"TERM", "udev_start"}
          PROVE  <2>9!1
      <4>1. j \in 2..Len(s)
        BY <3>2, <2>1
      <4> QED BY <4>1, <3>2, <2>2, <2>5, SMTT(30)
    <3> QED BY <3>1, <3>2 DEF MainShape
  <2> QED BY <2>6, <2>7, <2>8, <2>9 DEF MainShape, r
<1> QED BY <1>1, <1>2

\* The same for the other threads.
LEMMA GivesOther ==
  ASSUME NEW s \in Seq(Step), s # <<>>, OtherShape(s),
         NEW steps, Gives(Head(s), steps)
  PROVE  /\ OtherShape(steps \o Tail(s))
         /\ \A i \in 1..Len(steps \o Tail(s)) : (steps \o Tail(s))[i] = "reply"
              => \E j \in 1..Len(s) : s[j] = "reply"
<1>1. CASE steps = <<>>
  BY <1>1 DEF OtherShape
<1>2. CASE steps = <<"stopping">> /\ Head(s) = "stop"
  BY <1>2 DEF OtherShape
<1>3. CASE steps = <<"stop", "starting">> /\ Head(s) = "start"
  BY <1>3 DEF OtherShape
<1> QED BY <1>1, <1>2, <1>3 DEF Gives

-----------------------------------------------------------------------------
(* How often sane_mutex is held                                            *)

\* A sequence whose end is s holds what s holds from there on.
LEMMA HeldEnd ==
  ASSUME NEW s \in Seq(Step), NEW r \in Seq(Step), NEW k \in Nat,
         Len(r) = Len(s) + k, \A i \in 1..Len(s) : r[i + k] = s[i]
  PROVE  /\ IsFiniteSet(HeldSteps(r)) /\ IsFiniteSet(HeldSteps(s))
         /\ Cardinality(HeldSteps(r) \ (1..k)) = Held(s)
         /\ Held(s) \in Nat
         /\ Held(s) = 0 <=> HeldSteps(s) = {}
<1> DEFINE end == HeldSteps(r) \ (1..k)
           f == [i \in HeldSteps(s) |-> i + k]
<1>1. IsFiniteSet(HeldSteps(r)) /\ IsFiniteSet(HeldSteps(s))
  <2>1. HeldSteps(r) \in SUBSET (1..Len(r)) /\ HeldSteps(s) \in SUBSET (1..Len(s))
    BY DEF HeldSteps
  <2>2. IsFiniteSet(1..Len(r)) /\ IsFiniteSet(1..Len(s))
    BY FS_Interval
  <2> QED BY <2>1, <2>2, FS_Subset
<1>2. f \in Bijection(HeldSteps(s), end)
  <2>1. \A i \in HeldSteps(s) : i \in 1..Len(s) /\ i + k \in end
    BY DEF HeldSteps
  <2>2. ASSUME NEW j \in end PROVE \E i \in HeldSteps(s) : i + k = j
    <3>1. j \in 1..Len(r) /\ j > k /\ r[j] \in Holding
      BY DEF HeldSteps
    <3>2. j - k \in 1..Len(s) /\ s[j - k] = r[j] /\ (j - k) + k = j
      <4>1. j - k \in 1..Len(s) /\ (j - k) + k = j
        BY <3>1
      <4> QED BY <4>1
    <3> QED BY <3>1, <3>2 DEF HeldSteps
  <2>3. f \in [HeldSteps(s) -> end]
    BY <2>1
  <2>4. \A a, b \in HeldSteps(s) : f[a] = f[b] => a = b
    BY <2>1
  <2>5. \A j \in end : \E i \in HeldSteps(s) : f[i] = j
    BY <2>2
  <2> HIDE DEF f, end
  <2> QED BY <2>3, <2>4, <2>5, Fun_IsBij
<1>3. ExistsBijection(HeldSteps(s), end)
  BY <1>2 DEF ExistsBijection
<1>4. Cardinality(end) = Held(s)
  BY <1>1, <1>3, FS_Bijection DEF Held
<1> QED BY <1>1, <1>4, FS_CardinalityType, FS_EmptySet DEF Held

\* What the first step adds to the rest.
LEMMA HeldFirst ==
  ASSUME NEW s \in Seq(Step), s # <<>>
  PROVE  /\ Tail(s) \in Seq(Step)
         /\ Held(Tail(s)) \in Nat /\ Held(s) \in Nat
         /\ Held(s) = 0 <=> HeldSteps(s) = {}
         /\ Held(Tail(s)) = 0 <=> HeldSteps(Tail(s)) = {}
         /\ Head(s) \in Holding => Held(s) = Held(Tail(s)) + 1
         /\ Head(s) \notin Holding => Held(s) = Held(Tail(s))
<1>1. /\ Tail(s) \in Seq(Step) /\ Len(s) = Len(Tail(s)) + 1 /\ Head(s) = s[1]
      /\ \A i \in 1..Len(Tail(s)) : s[i + 1] = Tail(s)[i]
  BY HeadTailProperties
<1>2. /\ IsFiniteSet(HeldSteps(s)) /\ Held(Tail(s)) \in Nat
      /\ Cardinality(HeldSteps(s) \ (1..1)) = Held(Tail(s))
      /\ Held(Tail(s)) = 0 <=> HeldSteps(Tail(s)) = {}
  BY <1>1, HeldEnd, 1 \in Nat
<1>3. Held(s) \in Nat /\ (Held(s) = 0 <=> HeldSteps(s) = {})
  BY <1>2, FS_CardinalityType, FS_EmptySet DEF Held
<1>4. 1 \in HeldSteps(s) <=> Head(s) \in Holding
  BY <1>1, 1 \in DOMAIN s DEF HeldSteps
<1>5. 1..1 = {1}
  OBVIOUS
<1>6. Cardinality(HeldSteps(s) \ {1}) = IF 1 \in HeldSteps(s) THEN Held(s) - 1 ELSE Held(s)
  BY <1>2, FS_RemoveElement DEF Held
<1> QED BY <1>1, <1>2, <1>3, <1>4, <1>5, <1>6

\* What main or another thread holds when its first step is replaced.
LEMMA HeldGives ==
  ASSUME NEW s \in Seq(Step), s # <<>>, NEW steps, Gives(Head(s), steps)
  PROVE  LET r == steps \o Tail(s) IN
         /\ Held(r) \in Nat /\ Held(s) \in Nat
         /\ Held(s) = 0 <=> HeldSteps(s) = {}
         /\ Held(r) = 0 <=> HeldSteps(r) = {}
         /\ steps = <<>> /\ Head(s) \in Holding => Held(s) = Held(r) + 1
         /\ steps = <<>> /\ Head(s) \notin Holding => Held(s) = Held(r)
         /\ steps # <<>> => Held(r) = Held(s) + 1
<1> DEFINE r == steps \o Tail(s)
<1>1. r \in Seq(Step) /\ Tail(s) \in Seq(Step)
  BY GivesType
<1>2. CASE steps = <<>>
  <2>1. r = Tail(s)
    BY <1>1, <1>2
  <2> QED BY <2>1, <1>2, HeldFirst
<1>3. CASE steps = <<"stopping">> /\ Head(s) = "stop"
  <2>1. r # <<>> /\ Tail(r) = Tail(s) /\ Head(r) = "stopping"
    BY <1>1, <1>3
  <2>2. Held(r) = Held(Tail(s)) + 1 /\ Held(r) \in Nat /\ (Held(r) = 0 <=> HeldSteps(r) = {})
    BY <2>1, <1>1, HeldFirst DEF Holding
  <2>3. Held(s) = Held(Tail(s)) /\ Held(s) \in Nat /\ (Held(s) = 0 <=> HeldSteps(s) = {})
    BY <1>3, HeldFirst DEF Holding
  <2>4. steps # <<>>
    BY <1>3
  <2> QED BY <2>2, <2>3, <2>4
<1>4. CASE steps = <<"stop", "starting">> /\ Head(s) = "start"
  <2> DEFINE q == <<"starting">> \o Tail(s)
  <2>1. q \in Seq(Step) /\ q # <<>> /\ Tail(q) = Tail(s) /\ Head(q) = "starting"
    <3>1. <<"starting">> \in Seq(Step)
      BY DEF Step
    <3>2. q \in Seq(Step)
      BY <3>1, <1>1, ConcatProperties
    <3> QED BY <3>2, <1>1
  <2>2. r # <<>> /\ Tail(r) = q /\ Head(r) = "stop"
    BY <1>1, <1>4
  <2>3. Held(q) = Held(Tail(s)) + 1 /\ Held(q) \in Nat
    BY <2>1, HeldFirst DEF Holding
  <2>4. Held(r) = Held(q) /\ Held(r) \in Nat /\ (Held(r) = 0 <=> HeldSteps(r) = {})
    BY <2>2, <1>1, HeldFirst DEF Holding
  <2>5. Held(s) = Held(Tail(s)) /\ Held(s) \in Nat /\ (Held(s) = 0 <=> HeldSteps(s) = {})
    BY <1>4, HeldFirst DEF Holding
  <2>6. steps # <<>>
    BY <1>4
  <2> QED BY <2>3, <2>4, <2>5, <2>6
<1> QED BY <1>2, <1>3, <1>4 DEF Gives

-----------------------------------------------------------------------------
(* What a step of a thread does to the mutex and to what the threads have  *)
(* before them                                                             *)

OwnerType == owner \in Thread \cup {None} /\ depth \in Nat /\ (owner = None <=> depth = 0)
TodoType == todo \in [Thread -> Seq(Step)]

\* The first step of t is replaced, and the mutex goes with it.
Pops(t, steps) ==
  /\ todo[t] # <<>> /\ ~exited /\ UNCHANGED exited
  /\ Gives(Head(todo[t]), steps) /\ Then(t, steps)
  /\ Head(todo[t]) # "exit"
  /\ \/ Head(todo[t]) # "reply" /\ UNCHANGED calls
     \/ Head(todo[t]) = "reply" /\ t = "dbus"
  /\ \/ steps # <<>> /\ Lock(t)
     \/ steps = <<>> /\ Head(todo[t]) \in Holding /\ Unlock(t)
     \/ steps = <<>> /\ Head(todo[t]) \notin Holding /\ UNCHANGED <<owner, depth>>

\* Such a step leaves every thread with a sequence of steps.
LEMMA PopsType ==
  ASSUME TypeOK, NEW t \in Thread, NEW steps, Pops(t, steps)
  PROVE  /\ TodoType' /\ todo'[t] = steps \o Tail(todo[t])
         /\ \A u \in Thread : u # t => todo'[u] = todo[u]
<1>1. todo[t] \in Seq(Step) /\ todo[t] # <<>>
  BY DEF TypeOK, Pops
<1>2. steps \o Tail(todo[t]) \in Seq(Step)
  BY <1>1, GivesType DEF Pops
<1> QED BY <1>2 DEF TypeOK, TodoType, Pops, Then

\* The handler of TERM does not return: exit comes before.
LEMMA TermStays ==
  ASSUME TypeOK, ShapeInv, ~exited, todo["main"] # <<>>
  PROVE  Head(todo["main"]) # "TERM"
<1>1. todo["main"] \in Seq(Step)
  BY DEF TypeOK, Thread
<1>2. 1 \in 1..Len(todo["main"]) /\ Head(todo["main"]) = todo["main"][1]
  BY <1>1
<1> QED BY <1>2 DEF ShapeInv, MainShape

\* Such a step keeps the shape of what the threads have before them.
LEMMA PopsShape ==
  ASSUME TypeOK, ShapeInv, NEW t \in Thread, NEW steps, Pops(t, steps)
  PROVE  ShapeInv'
<1> DEFINE s == todo[t]
           r == steps \o Tail(todo[t])
<1>1. /\ s \in Seq(Step) /\ s # <<>> /\ Gives(Head(s), steps)
      /\ \A u \in Thread : todo'[u] = IF u = t THEN r ELSE todo[u]
  BY PopsType DEF TypeOK, Pops
<1>2. CASE t = "main"
  <2>1. MainShape(r, exited)
    BY <1>1, <1>2, TermStays, GivesMain DEF Pops, ShapeInv
  <2>2. UNCHANGED <<exited, calls>>
    BY <1>2 DEF Pops
  <2> HIDE DEF r
  <2> QED BY <1>1, <1>2, <2>1, <2>2 DEF ShapeInv, Thread
<1>3. CASE t \in {"dbus", "udev"}
  <2>1. OtherShape(s)
    BY <1>3 DEF ShapeInv
  <2>2. OtherShape(r) /\ \A i \in 1..Len(r) : r[i] = "reply" => \E j \in 1..Len(s) : s[j] = "reply"
    BY <1>1, <2>1, GivesOther
  <2>3. ASSUME t = "dbus", calls' = <<>> PROVE \A i \in 1..Len(r) : r[i] # "reply"
    <3>1. CASE Head(s) # "reply"
      <4>1. calls = <<>>
        BY <2>3, <3>1 DEF Pops
      <4> QED BY <4>1, <2>2, <2>3 DEF ShapeInv
    <3>2. CASE Head(s) = "reply"
      <4>1. steps = <<>>
        BY <3>2 DEF Pops, Gives
      <4>2. Head(s) = s[1] /\ 1 \in 1..Len(s)
        BY <1>1
      <4>3. Len(s) = 1
        BY <4>2, <2>1, <3>2 DEF OtherShape
      <4>4. Tail(s) = <<>>
        <5>1. Tail(s) \in Seq(Step) /\ Len(Tail(s)) = 0
          BY <1>1, <4>3, HeadTailProperties
        <5> QED BY <5>1, EmptySeq
      <4>5. r = <<>>
        BY <4>1, <4>4
      <4> HIDE DEF r
      <4> QED BY <4>5
    <3> QED BY <3>1, <3>2
  <2>4. UNCHANGED exited
    BY DEF Pops
  <2>5. t # "dbus" => UNCHANGED calls
    BY DEF Pops
  <2> HIDE DEF r, s
  <2> QED BY <1>1, <1>3, <2>2, <2>3, <2>4, <2>5 DEF ShapeInv, Thread
<1> QED BY <1>2, <1>3 DEF Thread

\* Such a step keeps the mutex with the thread that is inside it.
LEMMA PopsLock ==
  ASSUME TypeOK, LockInv, NEW t \in Thread, NEW steps, Pops(t, steps)
  PROVE  LockInv' /\ OwnerType'
<1> DEFINE s == todo[t]
           r == steps \o Tail(todo[t])
<1>1. /\ s \in Seq(Step) /\ s # <<>> /\ Gives(Head(s), steps)
      /\ \A u \in Thread : todo'[u] = IF u = t THEN r ELSE todo[u]
  BY PopsType DEF TypeOK, Pops
<1>2. /\ Held(r) \in Nat /\ Held(s) \in Nat
      /\ Held(s) = 0 <=> HeldSteps(s) = {}
      /\ Held(r) = 0 <=> HeldSteps(r) = {}
      /\ steps = <<>> /\ Head(s) \in Holding => Held(s) = Held(r) + 1
      /\ steps = <<>> /\ Head(s) \notin Holding => Held(s) = Held(r)
      /\ steps # <<>> => Held(r) = Held(s) + 1
  BY <1>1, HeldGives
<1>3. /\ owner \in Thread \cup {None} /\ depth \in Nat /\ None \notin Thread
      /\ owner = None <=> depth = 0
  BY NoneAssumption DEF TypeOK
<1>4. /\ \A u \in Thread : u # owner => HeldSteps(todo[u]) = {}
      /\ owner \in Thread => Held(todo[owner]) <= depth
  BY DEF LockInv
<1> HIDE DEF r, s
<1>5. CASE steps # <<>> /\ Lock(t)
  <2>1. owner' = t /\ depth' = depth + 1 /\ owner \in {None, t}
    BY <1>5 DEF Lock, CanLock
  <2>2. Held(s) <= depth
    BY <2>1, <1>2, <1>3, <1>4, SMTT(30) DEF s
  <2>3. Held(todo'[t]) <= depth'
    BY <2>1, <2>2, <1>1, <1>2, <1>3, <1>5
  <2>4. \A u \in Thread : u # t => HeldSteps(todo'[u]) = {}
    BY <2>1, <1>1, <1>3, <1>4
  <2> QED BY <2>1, <2>3, <2>4, <1>3 DEF LockInv, OwnerType
<1>6. CASE steps = <<>> /\ Head(s) \in Holding /\ Unlock(t)
  <2>1. owner = t
    BY <1>2, <1>4, <1>6, SMTT(30) DEF s
  <2>2. Held(s) <= depth /\ Held(s) = Held(r) + 1
    BY <2>1, <1>2, <1>4, <1>6 DEF s
  <2>3. depth' = depth - 1 /\ owner' = IF depth = 1 THEN None ELSE t
    BY <2>1, <1>6 DEF Unlock
  <2>4. Held(todo'[t]) <= depth' /\ (depth' = 0 => HeldSteps(todo'[t]) = {})
    BY <2>2, <2>3, <1>1, <1>2, <1>3
  <2>5. \A u \in Thread : u # t => HeldSteps(todo'[u]) = {}
    BY <2>1, <1>1, <1>4
  <2>6. depth' \in Nat
    BY <2>2, <2>3, <1>2, <1>3
  <2> QED BY <2>1, <2>3, <2>4, <2>5, <2>6, <1>3 DEF LockInv, OwnerType
<1>7. CASE steps = <<>> /\ Head(s) \notin Holding /\ UNCHANGED <<owner, depth>>
  BY <1>1, <1>2, <1>3, <1>4, <1>7 DEF LockInv, OwnerType, s
<1> QED BY <1>5, <1>6, <1>7 DEF Pops, s

-----------------------------------------------------------------------------
(* The steps of stop_sane_threads, start_sane_threads, get_sane_devices    *)

\* What the session invariant reads besides what the threads have before them
\* and the pollers.
sessionVars == <<mpc, undisturbed, pending, events>>

\* While main or the udev thread has something to do no session is alone.
LEMMA NobodyAlone ==
  ASSUME SessionInv, NEW t \in {"main", "udev"}, todo[t] # <<>>,
         UNCHANGED <<mpc, undisturbed>>
  PROVE  SessionInv'
BY DEF SessionInv, Alone

\* The D-Bus thread ends its stop with no pollers left.
LEMMA DbusStopSession ==
  ASSUME TypeOK, SessionInv, UNCHANGED sessionVars, UNCHANGED calls,
         NEW steps, Pops("dbus", steps),
         steps = <<>> /\ Head(todo["dbus"]) \in {"stop", "stopping"} => ~polling',
         Head(todo["dbus"]) # "reply"
  PROVE  SessionInv'
<1> SUFFICES ASSUME NEW m \in undisturbed, mpc[m] \in {"acquiring", "fork", "saned"}
             PROVE  /\ mpc[m] = "acquiring"
                    /\ Alone(m)'
                    /\ todo'["dbus"] \in {<<>>, <<"stop", "reply">>, <<"stopping", "reply">>,
                                          <<"reply">>}
                    /\ todo'["dbus"] = <<"reply">> => ~polling'
  BY DEF SessionInv, sessionVars, Alone, Active
<1>1. todo["dbus"] # <<>>
  BY DEF Pops
<1>2. mpc[m] = "acquiring" /\ Alone(m)
  BY <1>1 DEF SessionInv
<1>3. /\ todo["dbus"] \in {<<"stop", "reply">>, <<"stopping", "reply">>}
      /\ todo["dbus"] \in Seq(Step)
  BY <1>1, <1>2 DEF SessionInv, TypeOK, Thread
<1>4. todo'["dbus"] = steps \o Tail(todo["dbus"])
  BY PopsType DEF Thread
<1>5. Alone(m)'
  <2>1. todo'["main"] = todo["main"] /\ todo'["udev"] = todo["udev"]
    BY PopsType DEF Thread
  <2> QED BY <1>2, <2>1 DEF Alone, sessionVars, Active
<1>6. Tail(todo["dbus"]) = <<"reply">> /\ Head(todo["dbus"]) \in {"stop", "stopping"}
  <2>1. CASE todo["dbus"] = <<"stop", "reply">>
    BY <2>1
  <2>2. CASE todo["dbus"] = <<"stopping", "reply">>
    BY <2>2
  <2> QED BY <1>3, <2>1, <2>2
<1>7. CASE steps = <<>>
  <2>1. todo'["dbus"] = <<"reply">> /\ ~polling'
    BY <1>4, <1>6, <1>7
  <2> QED BY <2>1, <1>2, <1>5
<1>8. CASE steps = <<"stopping">>
  <2>0. <<"stopping">> \o <<"reply">> = <<"stopping", "reply">>
    BY PairOfSteps DEF Step
  <2>1. todo'["dbus"] = <<"stopping", "reply">>
    BY <1>4, <1>6, <1>8, <2>0
  <2>2. <<"stopping", "reply">> # <<"reply">>
    OBVIOUS
  <2> QED BY <2>1, <2>2, <1>2, <1>5
<1> QED BY <1>6, <1>7, <1>8 DEF Pops, Gives

\* Every step of a stop, a start or a look for devices keeps the invariant.
LEMMA GateStepInv ==
  ASSUME IInv, NEW t \in Thread, GateStep(t)
  PROVE  IInv'
<1>1. TypeOK /\ ShapeInv /\ LockInv /\ SessionInv /\ EndInv
  BY DEF IInv
<1>2. PICK steps :
        /\ Pops(t, steps) /\ UNCHANGED <<calls, sessionVars, procVars, present, missed, pid, used>>
        /\ steps = <<>> /\ Head(todo[t]) \in {"stop", "stopping"} => ~polling'
        /\ Head(todo[t]) \in {"stop", "stopping", "start", "starting", "rescan"}
        /\ polling' \in BOOLEAN /\ known' \in BOOLEAN /\ action' \in BOOLEAN
  <2> USE <1>1 DEF Pops, Gives, GateFrame, plugVars, mgrVars, procVars, gateVars, sessionVars,
                   At, Holding, TypeOK
  <2>1. CASE StopNothing(t)
    <3>1. Pops(t, <<>>)
      BY <2>1 DEF StopNothing
    <3> QED BY <2>1, <3>1 DEF StopNothing
  <2>2. CASE StopLock(t)
    <3>1. Pops(t, <<"stopping">>) /\ <<"stopping">> # <<>>
      BY <2>2 DEF StopLock
    <3> QED BY <2>2, <3>1 DEF StopLock
  <2>3. CASE StopJoin(t)
    <3>1. Pops(t, <<>>)
      BY <2>3 DEF StopJoin
    <3> QED BY <2>3, <3>1 DEF StopJoin
  <2>4. CASE StartIdle(t)
    <3>1. Pops(t, <<>>)
      BY <2>4 DEF StartIdle
    <3> QED BY <2>4, <3>1 DEF StartIdle
  <2>5. CASE StartAgain(t)
    <3>1. Pops(t, <<"stop", "starting">>) /\ <<"stop", "starting">> # <<>>
      BY <2>5 DEF StartAgain
    <3> QED BY <2>5, <3>1 DEF StartAgain
  <2>6. CASE Starting(t)
    <3>1. Pops(t, <<>>)
      BY <2>6 DEF Starting
    <3> QED BY <2>6, <3>1 DEF Starting
  <2>7. CASE Rescan(t)
    <3>1. Pops(t, <<>>)
      BY <2>7 DEF Rescan
    <3> QED BY <2>7, <3>1 DEF Rescan
  <2> QED BY <2>1, <2>2, <2>3, <2>4, <2>5, <2>6, <2>7, GateStep(t) DEF GateStep
<1>3. ShapeInv' /\ LockInv' /\ OwnerType' /\ TodoType'
  BY <1>1, <1>2, PopsType, PopsShape, PopsLock
<1>4. TypeOK'
  BY <1>1, <1>2, <1>3 DEF TypeOK, OwnerType, TodoType, procVars, sessionVars
<1>5. EndInv'
  BY <1>1, <1>2 DEF EndInv, Pops, sessionVars
<1>6. SessionInv'
  <2>1. CASE t \in {"main", "udev"}
    BY <1>1, <1>2, <2>1, NobodyAlone DEF Pops, sessionVars
  <2>2. CASE t = "dbus"
    BY <1>1, <1>2, <2>2, DbusStopSession
  <2> QED BY <2>1, <2>2 DEF Thread
<1> QED BY <1>3, <1>4, <1>5, <1>6 DEF IInv

-----------------------------------------------------------------------------
(* The other steps of the threads of scanbd                                *)

\* A step of main that leaves the mutex and the polling alone.
LEMMA MainPopInv ==
  ASSUME IInv, Pops("main", <<>>), Head(todo["main"]) \notin Holding,
         UNCHANGED <<polling, known, action, calls, sessionVars, present, missed, pid, used>>,
         pidfile' \in {"none", "empty", "written"}, alive' \subseteq {"dbus", "udev"}
  PROVE  IInv'
<1>1. TypeOK /\ ShapeInv /\ LockInv /\ SessionInv /\ EndInv
  BY DEF IInv
<1>2. ShapeInv' /\ LockInv' /\ OwnerType' /\ TodoType'
  BY <1>1, PopsType, PopsShape, PopsLock DEF Thread
<1>3. TypeOK'
  BY <1>1, <1>2 DEF TypeOK, OwnerType, TodoType, sessionVars, Pops
<1>4. EndInv' /\ SessionInv'
  BY <1>1, NobodyAlone DEF EndInv, Pops, sessionVars
<1> QED BY <1>2, <1>3, <1>4 DEF IInv

\* The start-up and the return of a handler.
LEMMA MainStepInv ==
  ASSUME IInv,
         \/ CreatePid \/ WritePid \/ \E t \in {"dbus", "udev"} : StartThread(t)
         \/ \E s \in Signal : HandlerReturns(s)
  PROVE  IInv'
<1> USE DEF Pops, Gives, At, Holding, GateFrame, plugVars, mgrVars, procVars, gateVars,
            sessionVars
<1>1. TypeOK
  BY DEF IInv
<1>2. CASE CreatePid
  BY <1>1, <1>2, MainPopInv DEF CreatePid, TypeOK
<1>3. CASE WritePid
  BY <1>1, <1>3, MainPopInv DEF WritePid, TypeOK
<1>4. ASSUME NEW t \in {"dbus", "udev"}, StartThread(t) PROVE IInv'
  BY <1>1, <1>4, MainPopInv DEF StartThread, StartOf, TypeOK
<1>5. ASSUME NEW s \in Signal, HandlerReturns(s) PROVE IInv'
  BY <1>1, <1>5, MainPopInv DEF HandlerReturns, Signal, TypeOK
<1> QED BY <1>2, <1>3, <1>4, <1>5

\* exit leaves everything where it is.
LEMMA ExitInv ==
  ASSUME IInv, Exit
  PROVE  IInv'
<1>1. TypeOK /\ ShapeInv /\ LockInv /\ SessionInv /\ EndInv
  BY DEF IInv
<1>2. UNCHANGED <<todo, owner, depth, known, calls, sessionVars, action, present, missed, pid, used>>
      /\ exited' /\ ~polling' /\ todo["main"] # <<>>
  BY DEF Exit, plugVars, mgrVars, sessionVars, At
<1>3. TypeOK'
  BY <1>1, <1>2, Exit DEF TypeOK, Exit, sessionVars
<1>4. ShapeInv'
  BY <1>1, <1>2 DEF ShapeInv, MainShape
<1>5. LockInv' /\ EndInv'
  BY <1>1, <1>2 DEF LockInv, EndInv, sessionVars
<1>6. SessionInv'
  BY <1>1, <1>2, NobodyAlone DEF sessionVars
<1> QED BY <1>3, <1>4, <1>5, <1>6 DEF IInv

\* A thread that is joined has nothing before it any more, and keeps what it
\* has locked.
LEMMA JoinInv ==
  ASSUME IInv, NEW t \in {"dbus", "udev"}, JoinThread(t)
  PROVE  IInv'
<1>1. TypeOK /\ ShapeInv /\ LockInv /\ SessionInv /\ EndInv
  BY DEF IInv
<1> DEFINE mid == [todo EXCEPT !["main"] = <<>> \o Tail(@)]
           s == todo["main"]
<1>2. /\ s \in Seq(Step) /\ s # <<>> /\ ~exited /\ Gives(Head(s), <<>>)
      /\ Head(s) \in {"dbus_join", "udev_join"}
  BY <1>1 DEF JoinThread, TypeOK, Thread, At, JoinOf, Gives
<1>3. <<>> \o Tail(s) = Tail(s) /\ Tail(s) \in Seq(Step)
  BY <1>2, HeadTailProperties, ConcatEmptySeq
<1>4. /\ todo' \in [Thread -> Seq(Step)]
      /\ todo'["main"] = <<>> \o Tail(s) /\ todo'[t] = <<>>
      /\ \A u \in Thread : u \notin {"main", t} => todo'[u] = todo[u]
  <2>1. todo \in [Thread -> Seq(Step)] /\ t # "main" /\ t \in Thread /\ "main" \in Thread
    BY <1>1 DEF TypeOK, Thread
  <2>2. todo' = [todo EXCEPT ![t] = <<>>, !["main"] = Tail(s)]
    BY <2>1 DEF JoinThread
  <2>3. <<>> \in Seq(Step)
    OBVIOUS
  <2> HIDE DEF s
  <2> QED BY <2>1, <2>2, <2>3, <1>3
<1>5. UNCHANGED <<exited, owner, depth, polling, known, action, calls, sessionVars, present,
                  missed, pid, used, pidfile>> /\ alive' \subseteq {"dbus", "udev"}
  BY <1>1 DEF JoinThread, plugVars, mgrVars, gateVars, sessionVars, TypeOK
<1>6. TypeOK'
  BY <1>1, <1>4, <1>5 DEF TypeOK, sessionVars
<1>7. ShapeInv'
  <2>1. MainShape(<<>> \o Tail(s), exited)
    BY <1>1, <1>2, GivesMain DEF ShapeInv
  <2>2. OtherShape(<<>>) /\ Len(<<>>) = 0
    BY DEF OtherShape
  <2> HIDE DEF s
  <2> QED BY <1>1, <1>4, <1>5, <2>1, <2>2 DEF ShapeInv, Thread
<1>8. LockInv'
  <2>1. HeldSteps(<<>>) = {} /\ Held(<<>>) = 0
    <3>1. HeldSteps(<<>>) = {}
      BY DEF HeldSteps
    <3> QED BY <3>1, FS_EmptySet DEF Held
  <2>2. Held(<<>> \o Tail(s)) = Held(s) /\ Held(s) \in Nat
        /\ (HeldSteps(s) = {} => HeldSteps(<<>> \o Tail(s)) = {})
    BY <1>2, HeldGives DEF Holding
  <2>3. ASSUME NEW u \in Thread
        PROVE  /\ HeldSteps(todo[u]) = {} => HeldSteps(todo'[u]) = {}
               /\ Held(todo'[u]) = Held(todo[u]) \/ Held(todo'[u]) = 0
    BY <1>4, <2>1, <2>2
  <2>4. depth \in Nat
    BY <1>1 DEF TypeOK
  <2> QED BY <1>1, <1>5, <2>3, <2>4 DEF LockInv
<1>9. EndInv' /\ SessionInv'
  BY <1>1, <1>2, <1>5, NobodyAlone DEF EndInv, sessionVars
<1> QED BY <1>6, <1>7, <1>8, <1>9 DEF IInv

\* Nothing that is put before a thread is held yet.
LEMMA HeldBefore ==
  ASSUME NEW s \in Seq(Step), NEW p \in Seq(Step), \A i \in 1..Len(p) : p[i] \notin Holding
  PROVE  /\ Held(p \o s) = Held(s)
         /\ HeldSteps(s) = {} => HeldSteps(p \o s) = {}
<1> DEFINE r == p \o s
<1>1. /\ r \in Seq(Step) /\ Len(p) \in Nat /\ Len(r) = Len(s) + Len(p)
      /\ \A i \in 1..Len(s) : r[i + Len(p)] = s[i]
      /\ \A i \in 1..Len(p) : r[i] \notin Holding
  <2>1. ASSUME NEW i \in 1..Len(p) PROVE r[i] \notin Holding
    <3>1. r[i] = p[i]
      OBVIOUS
    <3> QED BY <3>1
  <2> HIDE DEF Holding
  <2> QED BY <2>1, ConcatProperties
<1> HIDE DEF r
<1>2. HeldSteps(r) \ (1..Len(p)) = HeldSteps(r)
  <2>1. ASSUME NEW i \in HeldSteps(r), i \in 1..Len(p) PROVE FALSE
    <3>1. r[i] \in Holding
      BY DEF HeldSteps
    <3> QED BY <3>1, <2>1, <1>1
  <2> QED BY <2>1
<1>3. Held(r) = Held(s) /\ (Held(s) = 0 <=> HeldSteps(s) = {}) /\ IsFiniteSet(HeldSteps(r))
  <2>1. /\ IsFiniteSet(HeldSteps(r)) /\ (Held(s) = 0 <=> HeldSteps(s) = {})
        /\ Cardinality(HeldSteps(r) \ (1..Len(p))) = Held(s)
    BY <1>1, HeldEnd
  <2> QED BY <2>1, <1>2 DEF Held
<1> QED BY <1>3, FS_EmptySet DEF r, Held

\* The steps of a handler and its mark.
LEMMA HandlerSteps ==
  ASSUME NEW s \in Signal
  PROVE  LET p == Handler(s) \o <<s>> IN
         /\ p \in Seq(Step) /\ Len(p) \in 2..5 /\ p[Len(p)] = s
         /\ \A i \in 1..Len(p) : /\ p[i] \notin Holding \cup {"udev_start"}
                                 /\ p[i] \in Signal => i = Len(p)
         /\ s = "TERM" => p[Len(p) - 1] = "exit"
<1>1. CASE s = "HUP"
  BY <1>1 DEF Handler, Step, Signal, Holding
<1>2. CASE s = "USR1"
  BY <1>2 DEF Handler, Step, Signal, Holding
<1>3. CASE s = "USR2"
  BY <1>3 DEF Handler, Step, Signal, Holding
<1>4. CASE s = "TERM"
  BY <1>4 DEF Handler, Step, Signal, Holding
<1> QED BY <1>1, <1>2, <1>3, <1>4 DEF Signal

\* A handler that is put before main: it masks those that are there already,
\* but not the handler of TERM and not the start-up.
LEMMA DeliverShape ==
  ASSUME TypeOK, ShapeInv, NEW s \in Signal, s \notin Masked
  PROVE  MainShape(Handler(s) \o <<s>> \o todo["main"], exited)
<1> DEFINE m == todo["main"]
           p == Handler(s) \o <<s>>
           r == p \o m
<1>1. m \in Seq(Step) /\ MainShape(m, exited) /\ Len(m) \in Nat
  BY DEF ShapeInv, TypeOK, Thread
<1>2. /\ p \in Seq(Step) /\ Len(p) \in 2..5 /\ p[Len(p)] = s
      /\ \A i \in 1..Len(p) : /\ p[i] \notin Holding \cup {"udev_start"}
                              /\ p[i] \in Signal => i = Len(p)
      /\ s = "TERM" => p[Len(p) - 1] = "exit"
  BY HandlerSteps
<1>3. s # "TERM" => \A i \in 1..Len(m) : m[i] \in Signal => m[i] = "TERM"
  <2> SUFFICES ASSUME s # "TERM", NEW i \in 1..Len(m), m[i] \in Signal, m[i] # "TERM"
               PROVE  FALSE
    OBVIOUS
  <2>1. InSeq(m[i], m)
    BY <1>1 DEF InSeq
  <2>2. s \in SigMask(m[i])
    BY DEF SigMask, Signal
  <2> QED BY <2>1, <2>2 DEF Masked
<1> HIDE DEF m, p
<1>4. /\ r \in Seq(Step) /\ Len(r) = Len(p) + Len(m)
      /\ \A i \in 1..Len(p) : r[i] = p[i]
      /\ \A i \in 1..Len(m) : r[i + Len(p)] = m[i]
  BY <1>1, <1>2, ConcatProperties
<1> HIDE DEF r
<1>5. ASSUME NEW i \in 1..Len(r), i \notin 1..Len(p)
      PROVE  i - Len(p) \in 1..Len(m) /\ r[i] = m[i - Len(p)]
  <2>1. i - Len(p) \in 1..Len(m) /\ (i - Len(p)) + Len(p) = i
    BY <1>1, <1>2, <1>4, <1>5
  <2> QED BY <2>1, <1>4
<1>6. r[Len(r)] \in Signal \cup {"udev_start"}
  <2>1. CASE Len(m) = 0
    BY <1>2, <1>4, <2>1
  <2>2. CASE Len(m) > 0
    <3>1. m[Len(m)] \in Signal \cup {"udev_start"} /\ r[Len(m) + Len(p)] = m[Len(m)]
      BY <1>1, <1>4, <2>2 DEF MainShape
    <3> QED BY <3>1, <1>1, <1>2, <1>4
  <2> QED BY <2>1, <2>2, <1>1
<1>7. \A i \in 1..Len(r) : r[i] = "udev_start" => i = Len(r)
  <2> SUFFICES ASSUME NEW i \in 1..Len(r), r[i] = "udev_start" PROVE i = Len(r)
    OBVIOUS
  <2>1. i \notin 1..Len(p)
    BY <1>2, <1>4
  <2>2. i - Len(p) = Len(m)
    BY <2>1, <1>1, <1>5 DEF MainShape
  <2> QED BY <2>2, <1>1, <1>2, <1>4
<1>8. ~exited => \A i \in 1..Len(r) : r[i] = "TERM" => i > 1 /\ r[i - 1] = "exit"
  <2> SUFFICES ASSUME ~exited, NEW i \in 1..Len(r), r[i] = "TERM"
               PROVE  i > 1 /\ r[i - 1] = "exit"
    OBVIOUS
  <2>1. CASE i \in 1..Len(p)
    <3>1. p[i] = "TERM"
      BY <2>1, <1>4
    <3>2. i = Len(p) /\ s = "TERM"
      BY <3>1, <2>1, <1>2 DEF Signal
    <3>3. i - 1 \in 1..Len(p) /\ p[i - 1] = "exit"
      BY <3>2, <1>2
    <3> QED BY <3>3, <1>4, <2>1
  <2>2. CASE i \notin 1..Len(p)
    <3> DEFINE j == i - Len(p)
    <3>1. j \in 1..Len(m) /\ m[j] = "TERM"
      BY <2>2, <1>5
    <3>2. j > 1 /\ m[j - 1] = "exit"
      BY <3>1, <1>1 DEF MainShape
    <3>3. j - 1 \in 1..Len(m)
      BY <3>1, <3>2, <1>1
    <3>4. r[(j - 1) + Len(p)] = "exit"
      BY <3>2, <3>3, <1>4
    <3>5. (j - 1) + Len(p) = i - 1 /\ i > 1
      BY <3>2, <1>2
    <3> QED BY <3>4, <3>5
  <2> QED BY <2>1, <2>2
<1>9. \/ \E i \in 1..Len(r) : r[i] \in {"TERM", "udev_start"}
      \/ \A i \in 2..Len(r) : r[i] # "stopping"
  <2>1. CASE s = "TERM"
    <3>1. Len(p) \in 1..Len(p) /\ Len(p) \in 1..Len(r)
      <4>1. Len(p) \in 2..5 /\ Len(r) = Len(p) + Len(m) /\ Len(m) \in Nat
        BY <1>1, <1>2, <1>4
      <4> HIDE DEF r
      <4> QED BY <4>1
    <3>2. r[Len(p)] = "TERM"
      BY <2>1, <3>1, <1>2, <1>4
    <3> QED BY <3>1, <3>2
  <2>2. CASE Len(m) = 0
    <3>1. ASSUME NEW i \in 2..Len(r) PROVE r[i] # "stopping"
      <4>1. i \in 1..Len(p)
        BY <2>2, <1>2, <1>4
      <4> QED BY <4>1, <1>2, <1>4 DEF Holding
    <3> QED BY <3>1
  <2>3. CASE s # "TERM" /\ Len(m) > 0
    <3>1. m[Len(m)] \in {"TERM", "udev_start"} /\ Len(m) \in 1..Len(m)
      BY <2>3, <1>1, <1>3 DEF MainShape
    <3>2. r[Len(m) + Len(p)] = m[Len(m)] /\ Len(m) + Len(p) \in 1..Len(r)
      BY <3>1, <1>1, <1>2, <1>4
    <3> QED BY <3>1, <3>2
  <2> QED BY <2>1, <2>2, <2>3, <1>1
<1>10. MainShape(r, exited)
  BY <1>6, <1>7, <1>8, <1>9 DEF MainShape
<1> QED BY <1>10 DEF r, p, m

\* A signal is delivered to main.
LEMMA DeliverInv ==
  ASSUME IInv, NEW s \in Signal, Deliver(s)
  PROVE  IInv'
<1>1. TypeOK /\ ShapeInv /\ LockInv /\ SessionInv /\ EndInv
  BY DEF IInv
<1> DEFINE m == todo["main"]
           p == Handler(s) \o <<s>>
<1>2. m \in Seq(Step) /\ p \in Seq(Step) /\ p \o m \in Seq(Step)
      /\ \A i \in 1..Len(p) : p[i] \notin Holding
  BY <1>1, HandlerSteps, ConcatProperties DEF TypeOK, Thread
<1> HIDE DEF p
<1>3. /\ todo' \in [Thread -> Seq(Step)] /\ todo'["main"] = p \o m
      /\ \A u \in Thread : u # "main" => todo'[u] = todo[u]
  <2>1. todo' = [todo EXCEPT !["main"] = p \o m]
    BY DEF Deliver, p
  <2> QED BY <1>1, <1>2, <2>1 DEF TypeOK, Thread
<1>4. /\ pending' = pending \ {s} /\ s \in pending
      /\ UNCHANGED <<procVars, gateVars, known, plugVars, calls, mgrVars, used>>
  BY DEF Deliver
<1>5. TypeOK'
  BY <1>1, <1>3, <1>4 DEF TypeOK, procVars, gateVars, plugVars, mgrVars
<1>6. ShapeInv'
  <2>1. MainShape(p \o m, exited)
    BY <1>1, DeliverShape DEF Deliver, p
  <2> HIDE DEF m
  <2> QED BY <1>1, <1>3, <1>4, <2>1 DEF ShapeInv, Thread, procVars
<1>7. LockInv'
  <2>1. Held(p \o m) = Held(m) /\ (HeldSteps(m) = {} => HeldSteps(p \o m) = {})
    BY <1>2, HeldBefore
  <2>2. ASSUME NEW u \in Thread
        PROVE  /\ HeldSteps(todo[u]) = {} => HeldSteps(todo'[u]) = {}
               /\ Held(todo'[u]) = Held(todo[u])
    BY <1>3, <2>1
  <2> QED BY <1>1, <1>4, <2>2 DEF LockInv, gateVars
<1>8. SessionInv'
  BY <1>1, <1>4 DEF SessionInv, Alone, mgrVars
<1>9. EndInv'
  BY <1>1, <1>4 DEF EndInv, procVars, gateVars, plugVars
<1> QED BY <1>5, <1>6, <1>7, <1>8, <1>9 DEF IInv

\* A thread that waits for work receives some.
LEMMA ReceivesLock ==
  ASSUME TypeOK, LockInv, NEW t \in Thread, NEW p \in Seq(Step), todo[t] = <<>>,
         \A i \in 1..Len(p) : p[i] \notin Holding,
         todo' = [todo EXCEPT ![t] = p], UNCHANGED <<owner, depth>>
  PROVE  LockInv' /\ TodoType' /\ todo'[t] = p
         /\ \A u \in Thread : u # t => todo'[u] = todo[u]
<1>1. /\ todo' \in [Thread -> Seq(Step)] /\ todo'[t] = p
      /\ \A u \in Thread : u # t => todo'[u] = todo[u]
  BY DEF TypeOK
<1>2. HeldSteps(p) = {} /\ HeldSteps(<<>>) = {}
  BY DEF HeldSteps
<1>3. ASSUME NEW u \in Thread PROVE HeldSteps(todo'[u]) = HeldSteps(todo[u])
  BY <1>1, <1>2
<1> QED BY <1>1, <1>3 DEF LockInv, TodoType, Held

\* A method call is dispatched.
LEMMA DispatchInv ==
  ASSUME IInv, Dispatch
  PROVE  IInv'
<1>1. TypeOK /\ ShapeInv /\ LockInv /\ SessionInv /\ EndInv
  BY DEF IInv
<1>2. PICK x \in {"stop", "start"} :
        /\ todo' = [todo EXCEPT !["dbus"] = <<x>> \o <<"reply">>]
        /\ Head(calls).method = "acquire" => x = "stop"
  BY DEF Dispatch, Method
<1>3. /\ <<x>> \o <<"reply">> = <<x, "reply">> /\ <<x, "reply">> \in Seq(Step)
      /\ \A i \in 1..Len(<<x, "reply">>) : <<x, "reply">>[i] \notin Holding
  BY PairOfSteps DEF Step, Holding
<1>4. /\ UNCHANGED <<procVars, gateVars, known, pending, plugVars, calls, mgrVars, used>>
      /\ todo["dbus"] = <<>> /\ calls # <<>>
  BY DEF Dispatch, Ready
<1>5. /\ LockInv' /\ TodoType' /\ todo'["dbus"] = <<x, "reply">>
      /\ \A u \in Thread : u # "dbus" => todo'[u] = todo[u]
  <2>1. todo' = [todo EXCEPT !["dbus"] = <<x, "reply">>]
    BY <1>2, <1>3
  <2> QED BY <1>1, <1>3, <1>4, <2>1, ReceivesLock DEF gateVars, Thread
<1>6. TypeOK'
  BY <1>1, <1>4, <1>5 DEF TypeOK, TodoType, procVars, gateVars, plugVars, mgrVars
<1>7. ShapeInv'
  <2>1. OtherShape(<<x, "reply">>)
    BY DEF OtherShape
  <2> QED BY <1>1, <1>4, <1>5, <2>1 DEF ShapeInv, Thread, procVars
<1>8. SessionInv'
  <2> SUFFICES ASSUME NEW m \in undisturbed, mpc[m] \in {"acquiring", "fork", "saned"}
               PROVE  /\ mpc[m] = "acquiring" /\ Alone(m)' /\ calls' = calls
                      /\ todo'["dbus"] = <<"stop", "reply">>
    <3>1. <<"stop", "reply">> # <<"reply">>
      OBVIOUS
    <3> QED BY <1>1, <1>4, <3>1 DEF SessionInv, mgrVars
  <2>1. mpc[m] = "acquiring" /\ Alone(m) /\ calls = <<[from |-> m, method |-> "acquire"]>>
    BY <1>1, <1>4 DEF SessionInv
  <2>2. x = "stop"
    BY <1>2, <2>1
  <2> QED BY <1>4, <1>5, <2>1, <2>2 DEF Alone, Active, plugVars, mgrVars, Thread
<1>9. EndInv'
  BY <1>1, <1>4 DEF EndInv, procVars, gateVars, plugVars
<1> QED BY <1>5, <1>6, <1>7, <1>8, <1>9 DEF IInv

\* A hotplug event is handled.
LEMMA ReceiveDeviceInv ==
  ASSUME IInv, ReceiveDevice
  PROVE  IInv'
<1>1. TypeOK /\ ShapeInv /\ LockInv /\ SessionInv /\ EndInv
  BY DEF IInv
<1>2. /\ Hotplug \in Seq(Step) /\ \A i \in 1..Len(Hotplug) : Hotplug[i] \notin Holding
      /\ OtherShape(Hotplug)
  BY DEF Hotplug, Step, Holding, OtherShape
<1>3. /\ UNCHANGED <<procVars, gateVars, known, pending, present, missed, calls, mgrVars, used>>
      /\ todo["udev"] = <<>> /\ events > 0 /\ events' = events - 1
      /\ todo' = [todo EXCEPT !["udev"] = Hotplug]
  BY DEF ReceiveDevice, Ready
<1>4. /\ LockInv' /\ TodoType' /\ todo'["udev"] = Hotplug
      /\ \A u \in Thread : u # "udev" => todo'[u] = todo[u]
  BY <1>1, <1>2, <1>3, ReceivesLock DEF gateVars, Thread
<1>5. events' \in 0..MaxEvents
  BY <1>1, <1>3, BoundAssumption DEF TypeOK
<1>6. TypeOK'
  BY <1>1, <1>3, <1>4, <1>5 DEF TypeOK, TodoType, procVars, gateVars, mgrVars
<1>7. ShapeInv'
  BY <1>1, <1>2, <1>3, <1>4 DEF ShapeInv, Thread, procVars
<1>8. SessionInv'
  BY <1>1, <1>3 DEF SessionInv, Alone, TypeOK, mgrVars
<1>9. EndInv'
  BY <1>1, <1>3, <1>5 DEF EndInv, TypeOK, procVars, gateVars
<1> QED BY <1>4, <1>6, <1>7, <1>8, <1>9 DEF IInv

\* The reply to a method call, which its caller may still wait for.
LEMMA ReplyInv ==
  ASSUME IInv, Reply
  PROVE  IInv'
<1>1. TypeOK /\ ShapeInv /\ LockInv /\ SessionInv /\ EndInv
  BY DEF IInv
<1> DEFINE s == todo["dbus"]
           call == Head(calls)
<1>2. /\ s \in Seq(Step) /\ s # <<>> /\ Head(s) = "reply"
      /\ UNCHANGED <<procVars, gateVars, known, pending, plugVars, pid, undisturbed, used>>
      /\ calls' = Tail(calls)
  BY <1>1 DEF Reply, At, TypeOK, Thread
<1>3. Pops("dbus", <<>>)
  BY <1>2 DEF Reply, Pops, Gives, Holding, At, procVars, gateVars
<1>4. ShapeInv' /\ LockInv' /\ OwnerType' /\ TodoType'
  BY <1>1, <1>3, PopsType, PopsShape, PopsLock DEF Thread
<1>5. calls # <<>>
  BY <1>1, <1>2, 1 \in 1..Len(s) DEF ShapeInv
<1>6. /\ call.from \in DbusManager /\ call.method \in {"acquire", "release"}
      /\ calls' \in Seq([from : DbusManager, method : {"acquire", "release"}])
  <2> DEFINE C == [from : DbusManager, method : {"acquire", "release"}]
  <2>1. calls \in Seq(C)
    BY <1>1 DEF TypeOK
  <2> HIDE DEF C
  <2>2. call \in C /\ Tail(calls) \in Seq(C)
    BY <2>1, <1>5, HeadTailProperties
  <2> QED BY <2>2, <1>2 DEF C
<1>7. \/ mpc' = mpc
      \/ mpc[call.from] = Waits(call.method) /\ mpc' = [mpc EXCEPT ![call.from] = Goes(call.method)]
  BY DEF Reply
<1>8. mpc' \in [Manager -> {"idle", "acquiring", "fork", "saned", "releasing", "done", "lost"}]
  BY <1>1, <1>6, <1>7 DEF TypeOK, Goes
<1>9. TypeOK'
  BY <1>1, <1>2, <1>4, <1>6, <1>8 DEF TypeOK, TodoType, procVars, gateVars, plugVars
<1>10. SessionInv'
  <2> SUFFICES ASSUME NEW m \in undisturbed, mpc'[m] \in {"acquiring", "fork", "saned"}
               PROVE  /\ mpc'[m] = "fork" /\ Alone(m)' /\ calls' = <<>> /\ todo'["dbus"] = <<>>
                      /\ ~polling'
    BY <1>2 DEF SessionInv
  <2>0. m \in Manager /\ call.from \in Manager
    BY <1>1, <1>6 DEF TypeOK, Manager
  <2>1. mpc[m] \in {"acquiring", "fork", "saned"}
    BY <1>1, <1>6, <1>7, <2>0 DEF TypeOK, Waits, Goes
  <2>2. /\ mpc[m] = "acquiring" /\ Alone(m) /\ calls = <<[from |-> m, method |-> "acquire"]>>
        /\ s \in {<<"stop", "reply">>, <<"stopping", "reply">>, <<"reply">>}
        /\ s = <<"reply">> => ~polling
    BY <1>1, <1>2, <2>1 DEF SessionInv
  <2>3. s = <<"reply">> /\ ~polling
    BY <1>2, <2>2
  <2>4. todo' = [todo EXCEPT !["dbus"] = <<>> \o Tail(s)] /\ Tail(s) = <<>>
    BY <2>3 DEF Reply, Then
  <2>5. todo'["dbus"] = <<>> /\ todo'["main"] = todo["main"] /\ todo'["udev"] = todo["udev"]
    BY <1>1, <2>4 DEF TypeOK, Thread
  <2>6. calls' = <<>> /\ call.from = m /\ call.method = "acquire"
    BY <1>2, <2>2
  <2>7. mpc' = [mpc EXCEPT ![m] = "fork"]
    BY <2>2, <2>6 DEF Reply, Waits, Goes
  <2>8. mpc'[m] = "fork" /\ \A n \in Manager : n # m => mpc'[n] = mpc[n]
    BY <1>1, <2>0, <2>7 DEF TypeOK
  <2> QED BY <1>2, <2>2, <2>3, <2>5, <2>6, <2>8 DEF Alone, Active, plugVars, gateVars
<1>11. EndInv'
  BY <1>1, <1>2 DEF EndInv, procVars, gateVars, plugVars
<1> QED BY <1>4, <1>9, <1>10, <1>11 DEF IInv

-----------------------------------------------------------------------------
(* The managers and the world around scanbd                                *)

\* Whoever does not run in scanbd leaves the threads and the mutex alone, and
\* takes no call away.
LEMMA OutsideInv ==
  ASSUME IInv, UNCHANGED <<todo, exited, owner, depth, polling>>,
         calls' = <<>> => calls = <<>>, events' <= used', TypeOK', SessionInv'
  PROVE  IInv'
<1>1. ShapeInv'
  BY DEF IInv, ShapeInv
<1>2. LockInv' /\ EndInv'
  BY DEF IInv, LockInv, EndInv
<1> QED BY <1>1, <1>2 DEF IInv

\* A call is a call of the manager that makes it.
LEMMA CallType ==
  ASSUME TypeOK, NEW m \in DbusManager, NEW method \in {"acquire", "release"},
         Call(m, method)
  PROVE  /\ calls' \in Seq([from : DbusManager, method : {"acquire", "release"}])
         /\ mpc' \in [Manager -> {"idle", "acquiring", "fork", "saned", "releasing",
                                  "done", "lost"}]
         /\ calls' = <<>> => calls = <<>>
         /\ \A n \in Manager : n # m => mpc'[n] = mpc[n]
         /\ mpc'[m] = IF Named THEN Waits(method) ELSE Goes(method)
<1> DEFINE C == [from : DbusManager, method : {"acquire", "release"}]
<1>1. calls \in Seq(C) /\ [from |-> m, method |-> method] \in C
  BY DEF TypeOK
<1> HIDE DEF C
<1>2. /\ Append(calls, [from |-> m, method |-> method]) \in Seq(C)
      /\ Append(calls, [from |-> m, method |-> method]) # <<>>
  BY <1>1, AppendProperties
<1>3. calls' \in Seq(C) /\ (calls' = <<>> => calls = <<>>)
  BY <1>1, <1>2 DEF Call
<1>4. m \in Manager /\ mpc' = [mpc EXCEPT ![m] = IF Named THEN Waits(method) ELSE Goes(method)]
  BY DEF Call, Manager
<1> QED BY <1>3, <1>4 DEF TypeOK, C, Waits, Goes

\* A session begins, alone if all is calm.
LEMMA BeginDbusInv ==
  ASSUME IInv, NEW m \in Manager, BeginDbus(m)
  PROVE  IInv'
<1>1. TypeOK /\ ShapeInv /\ LockInv /\ SessionInv /\ EndInv
  BY DEF IInv
<1>2. /\ m \in DbusManager /\ mpc[m] = "idle" /\ Call(m, "acquire")
      /\ undisturbed' = (IF Calm THEN {m} ELSE {})
      /\ UNCHANGED <<todo, procVars, gateVars, known, plugVars, pending, pid, used>>
  BY DEF BeginDbus, MgrFrame
<1>3. TypeOK'
  BY <1>1, <1>2, CallType DEF TypeOK, procVars, gateVars, plugVars
<1>4. SessionInv'
  <2> SUFFICES ASSUME Calm
               PROVE  /\ Alone(m)' /\ todo'["dbus"] = <<>>
                      /\ \/ mpc'[m] = "acquiring"
                            /\ calls' = <<[from |-> m, method |-> "acquire"]>>
                         \/ mpc'[m] = "fork" /\ calls' = <<>> /\ ~polling'
    <3>1. <<>> # <<"reply">>
      OBVIOUS
    <3> QED BY <1>2, <3>1 DEF SessionInv
  <2>1. /\ \A t \in Thread : todo[t] = <<>>
        /\ pending = {} /\ events = 0 /\ calls = <<>>
        /\ \A n \in Manager : ~Active(n)
    BY DEF Calm
  <2>2. \A n \in Manager : Active(n)' => n = m
    BY <1>1, <1>2, <2>1, CallType DEF Active
  <2>3. Alone(m)' /\ todo'["dbus"] = <<>>
    BY <1>2, <2>1, <2>2 DEF Alone, Thread, plugVars
  <2>4. CASE Named
    <3>1. mpc'[m] = "acquiring"
      BY <1>1, <1>2, <2>4, CallType DEF Waits
    <3>2. calls' = <<[from |-> m, method |-> "acquire"]>>
      BY <1>2, <2>1, <2>4 DEF Call
    <3> QED BY <2>3, <3>1, <3>2
  <2>5. CASE ~Named
    <3>1. mpc'[m] = "fork" /\ calls' = <<>>
      BY <1>1, <1>2, <2>1, <2>5, CallType DEF Goes, Call
    <3>2. exited
      BY <2>1, <2>5 DEF Named, InSeq, Thread
    <3>3. ~polling'
      BY <3>2, <1>1, <1>2 DEF EndInv, gateVars
    <3> QED BY <2>3, <3>1, <3>3
  <2> QED BY <2>4, <2>5
<1>5. calls' = <<>> => calls = <<>>
  BY <1>1, <1>2, CallType
<1> QED BY <1>2, <1>3, <1>4, <1>5, <1>1, OutsideInv DEF procVars, gateVars, plugVars, EndInv

\* A manager goes on, runs into the timeout or dies.
LEMMA ManagerInv ==
  ASSUME IInv, NEW m \in Manager, MgrStep(m) \/ MgrTerminated(m) \/ BeginSignal(m)
  PROVE  IInv'
<1>1. /\ TypeOK /\ ShapeInv /\ LockInv /\ SessionInv /\ EndInv
      /\ used \in 0..MaxEvents /\ events \in Nat /\ events <= used
  BY BoundAssumption DEF IInv, EndInv, TypeOK
<1>2. MaxEvents \in Nat
  BY BoundAssumption
<1>3. CASE Timeout(m)
  <2>1. /\ mpc[m] \in {"acquiring", "releasing"} /\ undisturbed' = undisturbed \ {m}
        /\ mpc' = [mpc EXCEPT ![m] = IF mpc[m] = "acquiring" THEN "fork" ELSE "done"]
        /\ UNCHANGED <<todo, procVars, gateVars, known, plugVars, pending, calls, pid, used>>
    BY <1>1, <1>3 DEF Timeout, MgrFrame, TypeOK
  <2>2. \A n \in Manager : n # m => mpc'[n] = mpc[n]
    BY <1>1, <2>1 DEF TypeOK
  <2>3. TypeOK'
    BY <1>1, <2>1 DEF TypeOK, procVars, gateVars, plugVars
  <2>4. ASSUME NEW n \in undisturbed, n # m
        PROVE  mpc[n] \notin {"acquiring", "fork", "saned"}
    BY <1>1, <2>1, <2>4 DEF SessionInv, Alone, Active
  <2>5. SessionInv'
    BY <1>1, <2>1, <2>2, <2>4 DEF SessionInv, TypeOK, Manager
  <2> QED BY <2>1, <2>3, <2>5, <1>1, OutsideInv DEF procVars, gateVars, plugVars, EndInv
<1>4. CASE Fork(m)
  <2>1. /\ mpc[m] = "fork" /\ (used' = used \/ Happens)
        /\ \E x \in {"saned", "lost"} : mpc' = [mpc EXCEPT ![m] = x]
        /\ UNCHANGED <<todo, procVars, gateVars, known, plugVars, pending, calls, pid, undisturbed>>
    BY <1>4 DEF Fork, MgrFrame
  <2>2. mpc'[m] \in {"saned", "lost"} /\ \A n \in Manager : n # m => mpc'[n] = mpc[n]
    BY <1>1, <2>1 DEF TypeOK
  <2>3. TypeOK'
    BY <1>1, <1>2, <2>1 DEF TypeOK, procVars, gateVars, plugVars, Happens
  <2>4. SessionInv'
    BY <1>1, <2>1, <2>2 DEF SessionInv, TypeOK, Manager, Alone, Active, plugVars, gateVars
  <2> QED BY <1>2, <2>1, <2>3, <2>4, <1>1, OutsideInv DEF procVars, gateVars, plugVars, Happens
<1>5. CASE SanedEnds(m)
  <2>1. /\ mpc[m] = "saned"
        /\ UNCHANGED <<todo, procVars, gateVars, known, plugVars, pid, undisturbed, used>>
        /\ pending' \in SUBSET Signal
    BY <1>1, <1>5 DEF SanedEnds, MgrFrame, TypeOK, Signal
  <2>2. /\ TypeOK' /\ (calls' = <<>> => calls = <<>>)
        /\ mpc'[m] \in {"releasing", "done"} /\ \A n \in Manager : n # m => mpc'[n] = mpc[n]
    <3>1. CASE m \in DbusManager /\ Call(m, "release")
      BY <1>1, <2>1, <3>1, CallType DEF TypeOK, procVars, gateVars, plugVars, Waits, Goes
    <3>2. CASE mpc' = [mpc EXCEPT ![m] = "done"] /\ UNCHANGED calls
      BY <1>1, <2>1, <3>2 DEF TypeOK, procVars, gateVars, plugVars
    <3> QED BY <1>5, <3>1, <3>2 DEF SanedEnds
  <2>3. SessionInv'
    <3>1. ASSUME NEW n \in undisturbed, n # m
          PROVE  mpc[n] \notin {"acquiring", "fork", "saned"}
      BY <1>1, <2>1, <3>1 DEF SessionInv, Alone, Active
    <3> QED BY <1>1, <2>1, <2>2, <3>1 DEF SessionInv, TypeOK, Manager
  <2> QED BY <2>1, <2>2, <2>3, <1>1, OutsideInv DEF procVars, gateVars, plugVars, EndInv
<1>6. CASE MgrTerminated(m)
  <2>1. /\ Happens /\ mpc' = [mpc EXCEPT ![m] = "lost"]
        /\ UNCHANGED <<todo, procVars, gateVars, known, plugVars, pending, calls, pid, undisturbed>>
    BY <1>6 DEF MgrTerminated, MgrFrame
  <2>2. mpc'[m] = "lost" /\ \A n \in Manager : n # m => mpc'[n] = mpc[n]
    BY <1>1, <2>1 DEF TypeOK
  <2>3. TypeOK'
    BY <1>1, <1>2, <2>1 DEF TypeOK, procVars, gateVars, plugVars, Happens
  <2>4. SessionInv'
    BY <1>1, <2>1, <2>2 DEF SessionInv, TypeOK, Manager, Alone, Active, plugVars, gateVars
  <2> QED BY <1>2, <2>1, <2>3, <2>4, <1>1, OutsideInv DEF procVars, gateVars, plugVars, Happens
<1>7. CASE BeginSignal(m)
  <2>1. /\ m \in SignalManager /\ mpc' = [mpc EXCEPT ![m] = "fork"] /\ undisturbed' = {}
        /\ pid' \subseteq SignalManager /\ pending' \in SUBSET Signal
        /\ UNCHANGED <<todo, procVars, gateVars, known, plugVars, calls, used>>
    BY <1>1, <1>7 DEF BeginSignal, MgrFrame, TypeOK, Signal
  <2>2. TypeOK' /\ SessionInv'
    BY <1>1, <2>1 DEF TypeOK, SessionInv, procVars, gateVars, plugVars
  <2> QED BY <2>1, <2>2, <1>1, OutsideInv DEF procVars, gateVars, plugVars, EndInv
<1> QED BY <1>3, <1>4, <1>5, <1>6, <1>7 DEF MgrStep

\* Buttons, plugs and signals.
LEMMA WorldInv ==
  ASSUME IInv, ActionStarts \/ ActionEnds \/ Plug \/ \E s \in Signal : Kill(s)
  PROVE  IInv'
<1>1. /\ TypeOK /\ SessionInv /\ used \in 0..MaxEvents /\ MaxEvents \in Nat
      /\ events \in Nat /\ events <= used
  BY BoundAssumption DEF IInv, EndInv, TypeOK
<1>2. Happens => used' \in 0..MaxEvents /\ used' = used + 1
  BY <1>1 DEF Happens
<1> USE DEF procVars, gateVars, plugVars, mgrVars
<1>3. CASE ActionStarts \/ ActionEnds
  <2>1. /\ UNCHANGED <<todo, polling, mpc, undisturbed, pending, events, calls, exited, owner, depth,
                       alive, pidfile, present, missed, pid, known>>
        /\ action' \in BOOLEAN /\ (Happens \/ used' = used)
    BY <1>3 DEF ActionStarts, ActionEnds
  <2>2. TypeOK'
    BY <1>1, <1>2, <2>1 DEF TypeOK
  <2>3. SessionInv'
    BY <1>1, <2>1 DEF SessionInv, Alone, Active
  <2> QED BY <1>1, <1>2, <2>1, <2>2, <2>3, OutsideInv
<1>4. CASE Plug
  <2>1. events' \in 0..MaxEvents /\ events' <= used'
    BY <1>1, <1>2, <1>4 DEF Plug
  <2>2. TypeOK'
    BY <1>1, <1>2, <1>4, <2>1 DEF Plug, TypeOK
  <2>3. SessionInv'
    BY <1>4 DEF Plug, SessionInv
  <2> QED BY <2>1, <2>2, <2>3, <1>4, OutsideInv DEF Plug
<1>5. ASSUME NEW s \in Signal, Kill(s) PROVE IInv'
  <2>1. TypeOK' /\ SessionInv'
    BY <1>1, <1>2, <1>5 DEF Kill, TypeOK, SessionInv
  <2> QED BY <1>1, <1>2, <2>1, <1>5, OutsideInv DEF Kill
<1> QED BY <1>3, <1>4, <1>5

-----------------------------------------------------------------------------
(* The theorems                                                            *)

\* scanbd begins with the start-up before main, and nothing else.
LEMMA InitInv == Init => IInv
<1> SUFFICES ASSUME Init PROVE IInv
  OBVIOUS
<1>1. /\ todo["main"] = Startup /\ todo["dbus"] = <<>> /\ todo["udev"] = <<>>
      /\ Startup \in Seq(Step) /\ Len(Startup) = 6
  BY DEF Init, Thread, Startup, Step
<1>2. TypeOK
  <2>1. todo \in [Thread -> Seq(Step)]
    BY <1>1 DEF Init, Thread
  <2>2. /\ owner \in Thread \cup {None} /\ depth \in Nat /\ (owner = None <=> depth = 0)
        /\ used \in 0..MaxEvents /\ events \in 0..MaxEvents
    BY BoundAssumption DEF Init
  <2>3. calls \in Seq([from : DbusManager, method : {"acquire", "release"}])
    BY DEF Init
  <2>4. mpc \in [Manager -> {"idle", "acquiring", "fork", "saned", "releasing", "done", "lost"}]
    BY DEF Init
  <2> QED BY <2>1, <2>2, <2>3, <2>4 DEF Init, TypeOK
<1>3. ShapeInv
  <2>1. MainShape(Startup, exited)
    BY DEF MainShape, Startup
  <2>2. OtherShape(<<>>) /\ Len(<<>>) = 0
    BY DEF OtherShape
  <2> QED BY <1>1, <2>1, <2>2 DEF ShapeInv
<1>4. LockInv
  <2>1. HeldSteps(Startup) = {} /\ HeldSteps(<<>>) = {}
    BY DEF HeldSteps, Startup, Holding
  <2> QED BY <1>1, <2>1, NoneAssumption DEF LockInv, Init, Thread
<1>5. SessionInv /\ EndInv
  BY DEF Init, SessionInv, EndInv
<1> QED BY <1>2, <1>3, <1>4, <1>5 DEF IInv

\* Every step keeps the invariant.
LEMMA NextInv == IInv /\ [Next]_vars => IInv'
<1> SUFFICES ASSUME IInv, [Next]_vars PROVE IInv'
  OBVIOUS
<1>1. CASE System
  <2>1. ASSUME NEW t \in Thread, GateStep(t) PROVE IInv'
    BY <2>1, GateStepInv
  <2>2. CASE MainStep
    BY <2>2, MainStepInv, ExitInv, JoinInv DEF MainStep
  <2>3. CASE Dispatch \/ Reply \/ ReceiveDevice
    BY <2>3, DispatchInv, ReplyInv, ReceiveDeviceInv
  <2>4. ASSUME NEW s \in Signal, Deliver(s) PROVE IInv'
    BY <2>4, DeliverInv
  <2>5. ASSUME NEW m \in Manager, MgrStep(m) PROVE IInv'
    BY <2>5, ManagerInv
  <2>6. CASE ActionEnds
    BY <2>6, WorldInv
  <2> QED BY <1>1, <2>1, <2>2, <2>3, <2>4, <2>5, <2>6 DEF System
<1>2. CASE Environment
  BY <1>2, BeginDbusInv, ManagerInv, WorldInv DEF Environment
<1>3. CASE UNCHANGED vars
  BY <1>3 DEF vars, procVars, gateVars, plugVars, mgrVars, IInv, TypeOK, ShapeInv, LockInv,
              SessionInv, EndInv, Alone, Active
<1> QED BY <1>1, <1>2, <1>3 DEF Next

\* However many managers there are and whatever happens, the threads of scanbd
\* stay in the steps of their handlers, and sane_mutex belongs to whoever has
\* locked it and not unlocked it as often.
THEOREM Inductive == Spec => []IInv
<1> QED BY InitInv, NextInv, PTL DEF Spec

\* Every variable keeps its type; sane_mutex has an owner exactly while it is
\* locked (pthread_mutex_unlock by a thread that is not the owner cannot be).
THEOREM TypeCorrect == Spec => []TypeOK
<1>1. IInv => TypeOK
  BY DEF IInv
<1> QED BY <1>1, Inductive, PTL

\* scanbm starts saned when its call has returned (scanbd.c:444-449): a
\* session that had scanbd to itself then has the scanner to itself.
THEOREM SessionSafe == Spec => []SessionHasScanner
<1>1. IInv => SessionHasScanner
  BY DEF IInv, SessionInv, SessionHasScanner
<1> QED BY <1>1, Inductive, PTL

\* A thread of scanbd is in one stop_sane_threads at a time: the masks of the
\* handlers see to it in main, after the start-up and before TERM
\* (scanbd.c:219, 241, 253), and the loops of the other threads.
THEOREM StopsDoNotNest == Spec => []NoNestedStop
<1>1. IInv => NoNestedStop
  <2> SUFFICES ASSUME IInv, NEW t \in Thread,
                      ~(t = "main" /\ (Terminating \/ InSeq("udev_start", todo["main"])))
               PROVE  Cardinality({i \in DOMAIN todo[t] : todo[t][i] = "stopping"}) <= 1
    BY DEF NoNestedStop
  <2>1. todo[t] \in Seq(Step)
    BY DEF IInv, TypeOK
  <2>2. \A i \in 2..Len(todo[t]) : todo[t][i] # "stopping"
    <3>1. CASE t = "main"
      BY <2>1, <3>1 DEF IInv, ShapeInv, MainShape, Terminating, InSeq
    <3>2. CASE t \in {"dbus", "udev"}
      BY <3>2 DEF IInv, ShapeInv, OtherShape
    <3> QED BY <3>1, <3>2 DEF Thread
  <2> DEFINE S == {i \in DOMAIN todo[t] : todo[t][i] = "stopping"}
  <2>3. S \subseteq {1}
    BY <2>1, <2>2
  <2> HIDE DEF S
  <2>4. IsFiniteSet({1}) /\ Cardinality({1}) = 1
    BY FS_Singleton
  <2>5. Cardinality(S) <= 1
    BY <2>3, <2>4, FS_Subset
  <2> QED BY <2>5 DEF S
<1> QED BY <1>1, Inductive, PTL
=============================================================================
