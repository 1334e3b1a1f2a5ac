------------------------- MODULE SanePolling_proofs -------------------------
(***************************************************************************)
(* Proofs about SanePolling, for any controllers, any number of scanners   *)
(* and actions, and any answers of the SANE library.  The inductive        *)
(* invariant IInv says who is inside which mutex at which place of the     *)
(* code; the safety invariants follow from it.  One lemma per action shows *)
(* that it preserves IInv.                                                 *)
(***************************************************************************)
EXTENDS SanePolling, TLAPS

-----------------------------------------------------------------------------
(* Mutual exclusion                                                        *)

\* A controller inside sane_mutex owns it as often as the code locked it, and
\* no other controller is inside.
LEMMA SoleHolder ==
  ASSUME IInv, NEW c \in Controller, HoldsSane(c)
  PROVE  /\ saneOwner = c /\ saneDepth = Depth(c)
         /\ \A d \in Controller : d # c => ~HoldsSane(d)
  BY ControllerAssumption DEF IInv, SaneDiscipline

\* A controller outside that finds sane_mutex free finds nobody inside.
LEMMA NoHolder ==
  ASSUME IInv, NEW c \in Controller, ~HoldsSane(c), SaneFree(c)
  PROVE  /\ saneOwner = None /\ saneDepth = 0
         /\ \A d \in Controller : ~HoldsSane(d)
  BY ControllerAssumption DEF IInv, SaneDiscipline, SaneFree

\* Who sleeps on the st->cv of any slot keeps sane_mutex: while a controller
\* is inside sane_mutex and at no such wait, nobody sleeps there.
LEMMA NoSleepers ==
  ASSUME IInv, NEW c \in Controller, HoldsSane(c),
         cpc[c] \notin {"stop_wait", "trig_wait"}
  PROVE  \A i \in Slot : cvWaiters[i] = {}
<1>1. ASSUME NEW i \in Slot, NEW d \in cvWaiters[i] PROVE FALSE
  <2>1. d \in Controller /\ cpc[d] \in {"stop_wait", "trig_wait"}
    BY DEF IInv, TypeOK, SleeperAtWait
  <2>2. HoldsSane(d)
    BY <2>1 DEF HoldsSane, SanePcs, InnerStopPcs, StopPcs, TrigPcs
  <2> QED BY <2>1, <2>2, SoleHolder
<1> QED BY <1>1

\* No controller is inside the mutex of a slot whose poller has a pending
\* cancellation: the stop that requested it has left the mutex and keeps the
\* others out of sane_mutex.
LEMMA NotHeld ==
  ASSUME IInv, NEW i \in Slot, Alive(i), cancelReq[i]
  PROVE  \A c \in Controller : ~HoldsDev(c, i)
<1>1. SUFFICES ASSUME NEW c \in Controller, HoldsDev(c, i) PROVE FALSE
  OBVIOUS
<1>2. HoldsSane(c)
  BY <1>1 DEF HoldsDev, HoldsSane, SanePcs, InnerStopPcs, StopPcs, TrigPcs
<1>3. saneOwner = c
  BY <1>2, SoleHolder
<1>4. (cpc[c] \in InnerStopPcs /\ i < idx[c]) \/ cpc[c] = "stop_join"
  BY <1>3 DEF IInv, CancelPending
<1> QED BY <1>1, <1>4 DEF HoldsDev, InnerStopPcs, StopPcs, IInv, TypeOK, Slot

\* A step into undefined behaviour changes nothing but ub.
LEMMA UndefinedStep ==
  ASSUME IInv, NEW why \in {"slot", "handle", "sane_down"}, Undefined(why)
  PROVE  IInv'
<1> USE DEF IInv, Undefined, saneVars, listVars, ctlVars, devVars, actVars,
            pollVars, cancelVars, runVars
<1>1. TypeOK'
  BY DEF TypeOK
<1>2. SaneDiscipline' /\ SaneFacts'
  BY DEF SaneDiscipline, SaneFacts, HoldsSane, Depth
<1>3. DevDiscipline' /\ SleeperAtWait'
  BY DEF DevDiscipline, SleeperAtWait, HoldsDev
<1>4. CancelPending' /\ PollerFacts'
  BY DEF CancelPending, PollerFacts, Alive
<1>5. TriggeredOptionValid' /\ NoLostWakeup'
  BY DEF TriggeredOptionValid, NoLostWakeup
<1> QED BY <1>1, <1>2, <1>3, <1>4, <1>5

-----------------------------------------------------------------------------
(* Controllers                                                             *)

\* A call of stop_sane_threads, from a signal, a D-Bus call or a hotplug event.
LEMMA StopCallStep ==
  ASSUME IInv, NEW c \in Controller, StopCall(c)
  PROVE  IInv'
<1> USE ControllerAssumption, BoundsAssumption DEF IInv, TypeOK, StopCall, At,
    Goto, CtlFrame, saneVars, listVars, actVars, devVars, cancelVars,
    pollVars, runVars
<1>1. \E r \in {"idle", "rescan", "sane_exit"} : ret' = [ret EXCEPT ![c] = r]
  OBVIOUS
<1>2. TypeOK'
  BY <1>1 DEF CtlPc, StopPcs, TrigPcs, PollPc, Action
<1>3. SaneDiscipline'
  BY DEF SaneDiscipline, HoldsSane, Depth, SanePcs, InnerStopPcs, StopPcs,
      TrigPcs
<1>4. SaneFacts'
  BY DEF SaneFacts, InnerStopPcs, StopPcs
<1>5. DevDiscipline'
  BY DEF DevDiscipline, HoldsDev
<1>6. SleeperAtWait'
  BY DEF SleeperAtWait
<1>7. CancelPending'
  BY DEF CancelPending, InnerStopPcs, StopPcs, Alive
<1>8. PollerFacts' /\ TriggeredOptionValid' /\ NoLostWakeup'
  BY DEF PollerFacts, TriggeredOptionValid, NoLostWakeup, Alive
<1> QED BY <1>2, <1>3, <1>4, <1>5, <1>6, <1>7, <1>8

\* stop_sane_threads without an array: the early return.
LEMMA StopNothingStep ==
  ASSUME IInv, NEW c \in Controller, StopNothing(c)
  PROVE  IInv'
<1> USE ControllerAssumption, BoundsAssumption DEF IInv, TypeOK, StopNothing,
    At, Goto, SaneFree, StopReturn, CtlFrame, saneVars, listVars, actVars,
    devVars, cancelVars, pollVars, runVars
<1>1. ret[c] \in {"idle", "rescan", "sane_exit", "start_alloc"}
  OBVIOUS
<1>2. TypeOK'
  BY <1>1 DEF CtlPc, StopPcs, TrigPcs, PollPc, Action
<1>3. SaneDiscipline'
  BY <1>1, SMTT(20) DEF SaneDiscipline, HoldsSane, Depth, SanePcs,
      InnerStopPcs, StopPcs, TrigPcs
<1>4. SaneFacts'
  BY <1>1, SMTT(20) DEF SaneFacts, InnerStopPcs, StopPcs
<1>5. DevDiscipline'
  BY <1>1 DEF DevDiscipline, HoldsDev
<1>6. SleeperAtWait'
  BY DEF SleeperAtWait
<1>7. CancelPending'
  BY DEF CancelPending, InnerStopPcs, StopPcs, Alive
<1>8. PollerFacts' /\ TriggeredOptionValid' /\ NoLostWakeup'
  BY DEF PollerFacts, TriggeredOptionValid, NoLostWakeup, Alive
<1> QED BY <1>2, <1>3, <1>4, <1>5, <1>6, <1>7, <1>8

\* stop_sane_threads enters sane_mutex, for the second time inside start.
LEMMA StopLockStep ==
  ASSUME IInv, NEW c \in Controller, StopLock(c)
  PROVE  IInv'
<1> USE ControllerAssumption, BoundsAssumption DEF IInv, TypeOK, StopLock, At,
    Goto, SaneFree, LockSane, CtlFrame, listVars, actVars, devVars,
    cancelVars, pollVars, runVars
<1>1. saneDepth' \in 0..2
  BY SoleHolder, NoHolder DEF HoldsSane, Depth, SanePcs, InnerStopPcs,
      StopPcs, TrigPcs
<1>2. TypeOK'
  BY <1>1 DEF CtlPc, StopPcs, TrigPcs, PollPc, Action
<1>3. SaneDiscipline'
  BY SMTT(20) DEF SaneDiscipline, HoldsSane, Depth, SanePcs, InnerStopPcs,
      StopPcs, TrigPcs
<1>4. SaneFacts'
  BY DEF SaneFacts, InnerStopPcs, StopPcs
<1>5. DevDiscipline'
  BY DEF DevDiscipline, HoldsDev
<1>6. SleeperAtWait'
  BY DEF SleeperAtWait
<1>7. CancelPending'
  BY DEF CancelPending, InnerStopPcs, StopPcs, Alive
<1>8. PollerFacts' /\ TriggeredOptionValid' /\ NoLostWakeup'
  BY DEF PollerFacts, TriggeredOptionValid, NoLostWakeup, Alive
<1> QED BY <1>2, <1>3, <1>4, <1>5, <1>6, <1>7, <1>8

\* stop_sane_threads enters the mutex of the next slot.
LEMMA StopLockDevStep ==
  ASSUME IInv, NEW c \in Controller, StopLockDev(c)
  PROVE  IInv'
<1> USE ControllerAssumption, BoundsAssumption DEF IInv, TypeOK, StopLockDev,
    At, Goto, SetDev, CtlFrame, saneVars, listVars, actVars, cancelVars,
    pollVars, runVars
<1>1. TypeOK'
  BY DEF CtlPc, StopPcs, TrigPcs, PollPc, Action
<1>2. SaneDiscipline'
  BY DEF SaneDiscipline, HoldsSane, Depth, SanePcs, InnerStopPcs, StopPcs,
      TrigPcs
<1>3. SaneFacts'
  BY DEF SaneFacts, InnerStopPcs, StopPcs
<1>4. DevDiscipline'
  BY DEF DevDiscipline, HoldsDev
<1>5. SleeperAtWait'
  BY DEF SleeperAtWait
<1>6. CancelPending'
  BY DEF CancelPending, InnerStopPcs, StopPcs, Alive
<1>7. PollerFacts' /\ TriggeredOptionValid' /\ NoLostWakeup'
  BY DEF PollerFacts, TriggeredOptionValid, NoLostWakeup, Alive
<1> QED BY <1>1, <1>2, <1>3, <1>4, <1>5, <1>6, <1>7

\* stop_sane_threads goes to sleep: an action is active.
LEMMA StopWaitStep ==
  ASSUME IInv, NEW c \in Controller, StopWait(c)
  PROVE  IInv'
<1> USE ControllerAssumption, BoundsAssumption DEF IInv, TypeOK, StopWait, At,
    Goto, SetDev, CtlFrame, saneVars, listVars, cancelVars, pollVars, runVars
<1>1. TypeOK'
  BY DEF CtlPc, StopPcs, TrigPcs, PollPc, Action
<1>2. SaneDiscipline'
  BY DEF SaneDiscipline, HoldsSane, Depth, SanePcs, InnerStopPcs, StopPcs,
      TrigPcs
<1>3. SaneFacts'
  BY DEF SaneFacts, InnerStopPcs, StopPcs
<1>4. DevDiscipline'
  BY DEF DevDiscipline, HoldsDev
<1>5. SleeperAtWait'
  BY DEF SleeperAtWait
<1>6. CancelPending'
  BY DEF CancelPending, InnerStopPcs, StopPcs, Alive
<1>7. NoLostWakeup'
  BY DEF NoLostWakeup
<1>8. PollerFacts' /\ TriggeredOptionValid'
  BY DEF PollerFacts, TriggeredOptionValid, Alive
<1> QED BY <1>1, <1>2, <1>3, <1>4, <1>5, <1>6, <1>7, <1>8

\* stop_sane_threads is back from pthread_cond_wait.
LEMMA StopWakeStep ==
  ASSUME IInv, NEW c \in Controller, StopWake(c)
  PROVE  IInv'
<1> USE ControllerAssumption, BoundsAssumption DEF IInv, TypeOK, StopWake, At,
    Goto, SetDev, CtlFrame, saneVars, listVars, actVars, cancelVars, pollVars,
    runVars
<1>1. TypeOK'
  BY DEF CtlPc, StopPcs, TrigPcs, PollPc, Action
<1>2. SaneDiscipline'
  BY DEF SaneDiscipline, HoldsSane, Depth, SanePcs, InnerStopPcs, StopPcs,
      TrigPcs
<1>3. SaneFacts'
  BY DEF SaneFacts, InnerStopPcs, StopPcs
<1>4. DevDiscipline'
  BY DEF DevDiscipline, HoldsDev
<1>5. SleeperAtWait'
  BY DEF SleeperAtWait
<1>6. CancelPending'
  BY DEF CancelPending, InnerStopPcs, StopPcs, Alive
<1>7. PollerFacts' /\ TriggeredOptionValid' /\ NoLostWakeup'
  BY DEF PollerFacts, TriggeredOptionValid, NoLostWakeup, Alive
<1> QED BY <1>1, <1>2, <1>3, <1>4, <1>5, <1>6, <1>7

\* No action is active: stop_sane_threads leaves the slot's mutex.
LEMMA StopUnlockDevStep ==
  ASSUME IInv, NEW c \in Controller, StopUnlockDev(c)
  PROVE  IInv'
<1> USE ControllerAssumption, BoundsAssumption DEF IInv, TypeOK,
    StopUnlockDev, At, Goto, SetDev, CtlFrame, saneVars, listVars, actVars,
    cancelVars, pollVars, runVars
<1>1. TypeOK'
  BY DEF CtlPc, StopPcs, TrigPcs, PollPc, Action
<1>2. SaneDiscipline'
  BY DEF SaneDiscipline, HoldsSane, Depth, SanePcs, InnerStopPcs, StopPcs,
      TrigPcs
<1>3. SaneFacts'
  BY DEF SaneFacts, InnerStopPcs, StopPcs
<1>4. DevDiscipline'
  BY DEF DevDiscipline, HoldsDev
<1>5. SleeperAtWait'
  BY DEF SleeperAtWait
<1>6. CancelPending'
  BY DEF CancelPending, InnerStopPcs, StopPcs, Alive
<1>7. PollerFacts' /\ TriggeredOptionValid' /\ NoLostWakeup'
  BY DEF PollerFacts, TriggeredOptionValid, NoLostWakeup, Alive
<1> QED BY <1>1, <1>2, <1>3, <1>4, <1>5, <1>6, <1>7

\* pthread_cancel: the request stays attributed to this stop.
LEMMA StopCancelStep ==
  ASSUME IInv, NEW c \in Controller, StopCancel(c)
  PROVE  IInv'
<1> USE ControllerAssumption, BoundsAssumption DEF IInv, TypeOK, StopCancel,
    At, Goto, Alive, saneVars, listVars, actVars, devVars, runVars
<1>1. idx[c] < MaxDevices /\ idx[c] \in Slot /\ idx[c] + 1 \in 0..MaxDevices
  BY DEF SaneFacts, Slot
<1>2. HoldsSane(c)
  BY DEF HoldsSane, Depth, SanePcs, InnerStopPcs, StopPcs, TrigPcs
<1>3. saneOwner = c
  BY <1>2, SoleHolder
<1>4. TypeOK'
  BY <1>1 DEF CtlPc, StopPcs, TrigPcs, PollPc, Action
<1>5. SaneDiscipline'
  BY DEF SaneDiscipline, HoldsSane, Depth, SanePcs, InnerStopPcs, StopPcs,
      TrigPcs
<1>6. SaneFacts'
  BY DEF SaneFacts, InnerStopPcs, StopPcs
<1>7. DevDiscipline'
  BY DEF DevDiscipline, HoldsDev
<1>8. SleeperAtWait'
  BY DEF SleeperAtWait
<1>9. CancelPending'
  <2> SUFFICES ASSUME NEW j \in Slot, Alive(j)', cancelReq'[j]
               PROVE  \/ cpc'[c] \in InnerStopPcs /\ j < idx'[c]
                      \/ cpc'[c] = "stop_join"
    BY <1>3 DEF CancelPending
  <2>1. CASE j = idx[c]
    BY <1>1, <2>1 DEF InnerStopPcs, StopPcs
  <2>2. CASE j # idx[c]
    <3>1. j < idx[c]
      BY <1>3, <2>2 DEF CancelPending
    <3> QED BY <1>1, <3>1 DEF InnerStopPcs, StopPcs, Slot
  <2> QED BY <2>1, <2>2
<1>10. PollerFacts' /\ TriggeredOptionValid' /\ NoLostWakeup'
  BY DEF PollerFacts, TriggeredOptionValid, NoLostWakeup
<1> QED BY <1>4, <1>5, <1>6, <1>7, <1>8, <1>9, <1>10

\* The second loop of stop_sane_threads begins.
LEMMA StopAllCancelledStep ==
  ASSUME IInv, NEW c \in Controller, StopAllCancelled(c)
  PROVE  IInv'
<1> USE ControllerAssumption, BoundsAssumption DEF IInv, TypeOK,
    StopAllCancelled, At, Goto, CtlFrame, saneVars, listVars, actVars,
    devVars, cancelVars, pollVars, runVars
<1>1. TypeOK'
  BY DEF CtlPc, StopPcs, TrigPcs, PollPc, Action
<1>2. SaneDiscipline'
  BY DEF SaneDiscipline, HoldsSane, Depth, SanePcs, InnerStopPcs, StopPcs,
      TrigPcs
<1>3. SaneFacts'
  BY DEF SaneFacts, InnerStopPcs, StopPcs
<1>4. DevDiscipline'
  BY DEF DevDiscipline, HoldsDev
<1>5. SleeperAtWait'
  BY DEF SleeperAtWait
<1>6. CancelPending'
  BY DEF CancelPending, InnerStopPcs, StopPcs, Alive
<1>7. PollerFacts' /\ TriggeredOptionValid' /\ NoLostWakeup'
  BY DEF PollerFacts, TriggeredOptionValid, NoLostWakeup, Alive
<1> QED BY <1>1, <1>2, <1>3, <1>4, <1>5, <1>6, <1>7

\* pthread_join and the cleanup of a slot: nobody sleeps on its st->cv.
LEMMA StopJoinStep ==
  ASSUME IInv, NEW c \in Controller, StopJoin(c)
  PROVE  IInv'
<1> USE ControllerAssumption, BoundsAssumption DEF IInv, TypeOK, StopJoin, At,
    saneVars, listVars, runVars
<1>1. idx[c] \in 0..MaxDevices /\ idx[c] < MaxDevices
  OBVIOUS
<1>2. idx[c] \in Slot /\ idx[c] + 1 \in 0..MaxDevices
  <2> HIDE DEF StopJoin, TypeOK
  <2> QED BY <1>1 DEF Slot
<1>3. HoldsSane(c)
  BY DEF HoldsSane, Depth, SanePcs, InnerStopPcs, StopPcs, TrigPcs
<1>4. \A d \in Controller : d # c => cpc[d] \notin SanePcs
  BY <1>3, SoleHolder DEF HoldsSane
<1>5. \A i \in Slot : cvWaiters[i] = {}
  BY <1>3, NoSleepers
<1>6. TypeOK'
  BY <1>2 DEF CtlPc, StopPcs, TrigPcs, PollPc, Action
<1>7. SaneFacts'
  BY <1>2, <1>4 DEF SaneFacts, InnerStopPcs, StopPcs, SanePcs, TrigPcs
<1>8. DevDiscipline'
  BY DEF DevDiscipline, HoldsDev
<1>9. SleeperAtWait'
  BY DEF SleeperAtWait
<1>10. CancelPending'
  BY DEF CancelPending, InnerStopPcs, StopPcs, Alive
<1>11. PollerFacts'
  BY DEF PollerFacts, Alive
<1>12. TriggeredOptionValid'
  BY DEF TriggeredOptionValid
<1>13. NoLostWakeup'
  BY <1>5 DEF NoLostWakeup
<1>14. SaneDiscipline'
  BY DEF SaneDiscipline, HoldsSane, Depth
<1> QED BY <1>6, <1>7, <1>8, <1>9, <1>10, <1>11, <1>12, <1>13, <1>14

\* The array is freed: no poller is left, and every other controller is outside.
LEMMA StopFreeStep ==
  ASSUME IInv, NEW c \in Controller, StopFree(c)
  PROVE  IInv'
<1> USE ControllerAssumption, BoundsAssumption DEF IInv, TypeOK, StopFree, At,
    Goto, UnlockSane, StopReturn, Alive, actVars, devVars, cancelVars, runVars
<1>1. HoldsSane(c)
  BY DEF HoldsSane, Depth, SanePcs, InnerStopPcs, StopPcs, TrigPcs
<1>2. /\ saneOwner = c /\ saneDepth = Depth(c)
       /\ \A d \in Controller : d # c => ~HoldsSane(d)
  BY <1>1, SoleHolder
<1>3. /\ saneDepth' \in 0..2 /\ saneOwner' \in {None, c}
       /\ ret[c] \in {"idle", "rescan", "sane_exit", "start_alloc"}
  BY <1>2 DEF Depth
<1>4. \A d \in Controller : d # c => cpc[d] \notin SanePcs
  BY <1>2 DEF HoldsSane
<1>5. TypeOK'
  BY <1>3 DEF CtlPc, StopPcs, TrigPcs, PollPc, Action
<1>6. SaneDiscipline'
  BY DEF SaneDiscipline, HoldsSane, Depth, SanePcs, InnerStopPcs, StopPcs,
      TrigPcs
<1>7. SaneFacts'
  BY <1>2, <1>3, <1>4 DEF SaneFacts, InnerStopPcs, StopPcs, HoldsSane,
      SanePcs, TrigPcs
<1>8. DevDiscipline'
  <2>1. \A i \in Slot : devOwner[i] # Poller
    BY DEF DevDiscipline, Alive
  <2>2. \A i \in Slot : ~HoldsDev(c, i)'
    BY <1>3 DEF HoldsDev
  <2>3. \A i \in Slot : ~HoldsDev(c, i)
    BY DEF HoldsDev
  <2> QED BY <2>1, <2>2, <2>3 DEF DevDiscipline, HoldsDev
<1>9. SleeperAtWait'
  BY DEF SleeperAtWait
<1>10. CancelPending'
  BY DEF CancelPending, InnerStopPcs, StopPcs
<1>11. PollerFacts'
  BY DEF PollerFacts
<1>12. NoLostWakeup'
  BY DEF NoLostWakeup
<1>13. TriggeredOptionValid'
  BY DEF TriggeredOptionValid
<1> QED BY <1>5, <1>6, <1>7, <1>8, <1>9, <1>10, <1>11, <1>12, <1>13

\* A call of start_sane_threads.
LEMMA StartCallStep ==
  ASSUME IInv, NEW c \in Controller, StartCall(c)
  PROVE  IInv'
<1> USE ControllerAssumption, BoundsAssumption DEF IInv, TypeOK, StartCall,
    At, Goto, CtlFrame, saneVars, listVars, actVars, devVars, cancelVars,
    pollVars, runVars
<1>1. TypeOK'
  BY DEF CtlPc, StopPcs, TrigPcs, PollPc, Action
<1>2. SaneDiscipline'
  BY DEF SaneDiscipline, HoldsSane, Depth, SanePcs, InnerStopPcs, StopPcs,
      TrigPcs
<1>3. SaneFacts'
  BY DEF SaneFacts, InnerStopPcs, StopPcs
<1>4. DevDiscipline'
  BY DEF DevDiscipline, HoldsDev
<1>5. SleeperAtWait'
  BY DEF SleeperAtWait
<1>6. CancelPending'
  BY DEF CancelPending, InnerStopPcs, StopPcs, Alive
<1>7. PollerFacts' /\ TriggeredOptionValid' /\ NoLostWakeup'
  BY DEF PollerFacts, TriggeredOptionValid, NoLostWakeup, Alive
<1> QED BY <1>1, <1>2, <1>3, <1>4, <1>5, <1>6, <1>7

\* start_sane_threads enters sane_mutex and stops what is running.
LEMMA StartLockStep ==
  ASSUME IInv, NEW c \in Controller, StartLock(c)
  PROVE  IInv'
<1> USE ControllerAssumption, BoundsAssumption DEF IInv, TypeOK, StartLock,
    At, Goto, SaneFree, LockSane, CtlFrame, listVars, actVars, devVars,
    cancelVars, pollVars, runVars
<1>1. ~HoldsSane(c)
  BY DEF HoldsSane, Depth, SanePcs, InnerStopPcs, StopPcs, TrigPcs
<1>2. /\ saneOwner = None /\ saneDepth = 0
       /\ \A d \in Controller : ~HoldsSane(d)
  BY <1>1, NoHolder
<1>3. TypeOK'
  <2>1. saneDepth' \in 0..2 /\ saneOwner' = c
    BY <1>2
  <2> QED BY <2>1 DEF CtlPc, StopPcs
<1>4. SaneDiscipline'
  <2>1. \A d \in Controller : HoldsSane(d)' <=> d = c
    BY <1>2 DEF HoldsSane, SanePcs
  <2>2. saneOwner' = c /\ saneDepth' = 1
    BY <1>2
  <2>3. cpc'[c] \notin InnerStopPcs
    BY DEF InnerStopPcs, StopPcs
  <2>4. \A d \in Controller : cpc'[d] \notin StopPcs => ret'[d] = "idle"
    <3>1. \A d \in Controller : cpc[d] \notin StopPcs => ret[d] = "idle"
      BY DEF SaneDiscipline
    <3>2. ret[c] = "idle"
      BY <3>1 DEF StopPcs
    <3>3. cpc'[c] = "start_alloc" => ret'[c] = ret[c]
      OBVIOUS
    <3>4. cpc'[c] \in {"start_alloc", "stop_lock"}
      OBVIOUS
    <3>5. \A d \in Controller : d # c => cpc'[d] = cpc[d] /\ ret'[d] = ret[d]
      OBVIOUS
    <3> HIDE DEF StartLock
    <3> QED BY <3>1, <3>2, <3>3, <3>4, <3>5 DEF StopPcs
  <2> QED BY ControllerAssumption, <2>1, <2>2, <2>3, <2>4 DEF SaneDiscipline, Depth
<1>5. SaneFacts'
  BY DEF SaneFacts, InnerStopPcs, StopPcs
<1>6. DevDiscipline'
  BY DEF DevDiscipline, HoldsDev
<1>7. SleeperAtWait'
  BY DEF SleeperAtWait
<1>8. CancelPending'
  BY DEF CancelPending, InnerStopPcs, StopPcs, Alive
<1>9. PollerFacts' /\ TriggeredOptionValid' /\ NoLostWakeup'
  BY DEF PollerFacts, TriggeredOptionValid, NoLostWakeup, Alive
<1> QED BY <1>3, <1>4, <1>5, <1>6, <1>7, <1>8, <1>9

\* start_sane_threads without devices: the early exit through cleanup.
LEMMA StartNoDevicesStep ==
  ASSUME IInv, NEW c \in Controller, StartNoDevices(c)
  PROVE  IInv'
<1> USE ControllerAssumption, BoundsAssumption DEF IInv, TypeOK,
    StartNoDevices, At, Goto, UnlockSane, CtlFrame, listVars, actVars,
    devVars, cancelVars, pollVars, runVars
<1>1. HoldsSane(c) /\ Depth(c) = 1
  BY DEF HoldsSane, Depth, SanePcs, InnerStopPcs, StopPcs, TrigPcs
<1>2. /\ saneOwner = c /\ saneDepth = 1
       /\ \A d \in Controller : d # c => ~HoldsSane(d)
  BY <1>1, SoleHolder
<1>3. TypeOK'
  BY <1>2 DEF CtlPc, StopPcs, TrigPcs, PollPc, Action
<1>4. SaneDiscipline'
  BY DEF SaneDiscipline, HoldsSane, Depth, SanePcs, InnerStopPcs, StopPcs,
      TrigPcs
<1>5. SaneFacts'
  BY DEF SaneFacts, InnerStopPcs, StopPcs
<1>6. DevDiscipline'
  BY DEF DevDiscipline, HoldsDev
<1>7. SleeperAtWait'
  BY DEF SleeperAtWait
<1>8. CancelPending'
  BY <1>2 DEF CancelPending, InnerStopPcs, StopPcs, Alive, HoldsSane, SanePcs
<1>9. PollerFacts' /\ TriggeredOptionValid' /\ NoLostWakeup'
  BY DEF PollerFacts, TriggeredOptionValid, NoLostWakeup, Alive
<1> QED BY <1>3, <1>4, <1>5, <1>6, <1>7, <1>8, <1>9

\* A new array: its slots are fresh, for nobody is in or asleep on an old one.
LEMMA StartAllocStep ==
  ASSUME IInv, NEW c \in Controller, StartAlloc(c)
  PROVE  IInv'
<1> USE ControllerAssumption, BoundsAssumption DEF IInv, TypeOK, StartAlloc,
    At, Goto, UnlockSane, runVars
<1>1. HoldsSane(c) /\ Depth(c) = 1
  BY DEF HoldsSane, Depth, SanePcs, InnerStopPcs, StopPcs, TrigPcs
<1>2. /\ saneOwner = c /\ saneDepth = 1
       /\ \A d \in Controller : d # c => ~HoldsSane(d)
  BY <1>1, SoleHolder
<1>3. numDevices \in 1..MaxDevices /\ slots = 0
  BY DEF SaneFacts
<1>4. \A i \in Slot : ~Alive(i)
  BY <1>3 DEF PollerFacts, Slot
<1>5. \A i \in Slot : cvWaiters[i] = {}
  BY <1>1, NoSleepers
<1>6. /\ cpc[c] = "start_alloc" /\ cpc'[c] = "idle"
       /\ \A d \in Controller : d # c => cpc'[d] = cpc[d]
       /\ UNCHANGED <<ret, idx, arg>> /\ slots' = numDevices
  OBVIOUS
<1>7. TypeOK'
  <2>1. saneOwner' = None /\ saneDepth' = 0
    BY <1>2
  <2>2. slots' \in 0..MaxDevices
    BY <1>3
  <2>3. cpc' \in [Controller -> CtlPc]
    BY DEF CtlPc
  <2>4. /\ ppc' \in [Slot -> PollPc] /\ devOwner' \in [Slot -> Controller \cup {None, Poller}]
        /\ handle' \in [Slot -> {"closed", "open", "stale"}]
    BY DEF PollPc
  <2>5. /\ si' \in [Slot -> 0..MaxActions] /\ nopts' \in [Slot -> 0..MaxActions]
        /\ option' \in [Slot -> Action \cup {-1}]
    OBVIOUS
  <2>6. /\ cancelable' \in [Slot -> BOOLEAN] /\ cancelReq' \in [Slot -> BOOLEAN]
        /\ triggered' \in [Slot -> BOOLEAN]
    OBVIOUS
  <2>7. saneWaiters' = {}
    OBVIOUS
  <2>8. UNCHANGED <<numDevices, saneUp, ret, idx, arg, cvWaiters, script, orphan, ub>>
    OBVIOUS
  <2> HIDE DEF StartAlloc
  <2> QED BY <2>1, <2>2, <2>3, <2>4, <2>5, <2>6, <2>7, <2>8
<1>8. SaneDiscipline'
  BY DEF SaneDiscipline, HoldsSane, Depth, SanePcs, InnerStopPcs, StopPcs,
      TrigPcs
<1>9. SaneFacts'
  <2>1. \A d \in Controller : cpc'[d] \notin SanePcs
    <3>1. \A d \in Controller : d # c => cpc[d] \notin SanePcs
      BY <1>2 DEF HoldsSane
    <3> HIDE DEF StartAlloc
    <3> QED BY <1>6, <3>1 DEF SanePcs, InnerStopPcs, StopPcs, TrigPcs
  <2>2. \A d \in Controller : cpc'[d] = "stop_lock" => ret'[d] # "start_alloc"
    BY <1>2, <1>6 DEF HoldsSane
  <2> HIDE DEF StartAlloc
  <2> QED BY <2>1, <2>2 DEF SaneFacts, SanePcs, InnerStopPcs, StopPcs, TrigPcs
<1>10. DevDiscipline'
  <2>1. \A d \in Controller, i \in Slot : ~HoldsDev(d, i)' /\ ~HoldsDev(d, i)
    <3>1. \A d \in Controller : d # c => cpc[d] \notin SanePcs
      BY <1>2 DEF HoldsSane
    <3> HIDE DEF StartAlloc
    <3> QED BY <1>6, <3>1 DEF HoldsDev, SanePcs, InnerStopPcs, StopPcs, TrigPcs
  <2>2. \A i \in Slot : devOwner[i] = None
    <3>1. \A i \in Slot : devOwner[i] # Poller
      BY <1>4 DEF DevDiscipline, Alive
    <3>2. \A i \in Slot : devOwner[i] \notin Controller
      BY <2>1 DEF DevDiscipline
    <3> QED BY <3>1, <3>2
  <2>3. \A i \in Slot : devOwner'[i] = None
    BY <2>2
  <2>4. \A i \in Slot : ppc'[i] \in {"none", "dead", "lock"}
    BY <1>4 DEF Alive
  <2> QED BY <2>1, <2>3, <2>4 DEF DevDiscipline
<1>11. SleeperAtWait'
  BY DEF SleeperAtWait
<1>12. CancelPending'
  BY <1>2, <1>4 DEF CancelPending, InnerStopPcs, StopPcs, Alive, HoldsSane,
      SanePcs
<1>13. PollerFacts'
  BY <1>3, <1>4 DEF PollerFacts, Alive
<1>14. TriggeredOptionValid'
  BY DEF TriggeredOptionValid
<1>15. NoLostWakeup'
  BY <1>5 DEF NoLostWakeup
<1> QED BY <1>7, <1>8, <1>9, <1>10, <1>11, <1>12, <1>13, <1>14, <1>15

\* SIGHUP: sane_exit invalidates the handles of pollers that still run.
LEMMA SaneExitStep ==
  ASSUME IInv, NEW c \in Controller, SaneExit(c)
  PROVE  IInv'
<1> USE ControllerAssumption, BoundsAssumption DEF IInv, TypeOK, SaneExit, At,
    Goto, saneVars, actVars, devVars, cancelVars, runVars
<1>1. TypeOK'
  BY DEF CtlPc, StopPcs, TrigPcs, PollPc, Action
<1>2. SaneDiscipline'
  BY DEF SaneDiscipline, HoldsSane, Depth, SanePcs, InnerStopPcs, StopPcs,
      TrigPcs
<1>3. SaneFacts'
  BY DEF SaneFacts, InnerStopPcs, StopPcs
<1>4. DevDiscipline'
  BY DEF DevDiscipline, HoldsDev
<1>5. SleeperAtWait'
  BY DEF SleeperAtWait
<1>6. CancelPending'
  BY DEF CancelPending, InnerStopPcs, StopPcs, Alive
<1>7. PollerFacts'
  BY DEF PollerFacts, Alive
<1>8. TriggeredOptionValid' /\ NoLostWakeup'
  BY DEF TriggeredOptionValid, NoLostWakeup
<1> QED BY <1>1, <1>2, <1>3, <1>4, <1>5, <1>6, <1>7, <1>8

\* SIGHUP: sane_init.
LEMMA SaneInitStep ==
  ASSUME IInv, NEW c \in Controller, SaneInit(c)
  PROVE  IInv'
<1> USE ControllerAssumption, BoundsAssumption DEF IInv, TypeOK, SaneInit, At,
    Goto, saneVars, actVars, devVars, cancelVars, pollVars, runVars
<1>1. TypeOK'
  BY DEF CtlPc, StopPcs, TrigPcs, PollPc, Action
<1>2. SaneDiscipline'
  BY DEF SaneDiscipline, HoldsSane, Depth, SanePcs, InnerStopPcs, StopPcs,
      TrigPcs
<1>3. SaneFacts'
  BY DEF SaneFacts, InnerStopPcs, StopPcs
<1>4. DevDiscipline'
  BY DEF DevDiscipline, HoldsDev
<1>5. SleeperAtWait'
  BY DEF SleeperAtWait
<1>6. CancelPending'
  BY DEF CancelPending, InnerStopPcs, StopPcs, Alive
<1>7. PollerFacts' /\ TriggeredOptionValid' /\ NoLostWakeup'
  BY DEF PollerFacts, TriggeredOptionValid, NoLostWakeup, Alive
<1> QED BY <1>1, <1>2, <1>3, <1>4, <1>5, <1>6, <1>7

\* get_sane_devices counts the devices anew, without a look at the pollers.
LEMMA GetSaneDevicesStep ==
  ASSUME IInv, NEW c \in Controller, GetSaneDevices(c)
  PROVE  IInv'
<1> USE ControllerAssumption, BoundsAssumption DEF IInv, TypeOK,
    GetSaneDevices, At, Goto, SaneFree, actVars, devVars, cancelVars,
    pollVars, runVars
<1>1. TypeOK'
  BY DEF CtlPc, StopPcs, TrigPcs, PollPc, Action
<1>2. SaneDiscipline'
  BY DEF SaneDiscipline, HoldsSane, Depth, SanePcs, InnerStopPcs, StopPcs,
      TrigPcs
<1>3. SaneFacts'
  BY DEF SaneFacts, InnerStopPcs, StopPcs
<1>4. DevDiscipline'
  BY DEF DevDiscipline, HoldsDev
<1>5. SleeperAtWait'
  BY DEF SleeperAtWait
<1>6. CancelPending'
  BY DEF CancelPending, InnerStopPcs, StopPcs, Alive
<1>7. NoLostWakeup'
  BY DEF NoLostWakeup
<1>8. PollerFacts' /\ TriggeredOptionValid'
  BY DEF PollerFacts, TriggeredOptionValid, Alive
<1> QED BY <1>1, <1>2, <1>3, <1>4, <1>5, <1>6, <1>7, <1>8

\* A call of sane_trigger_action with any two numbers.
LEMMA TrigCallStep ==
  ASSUME IInv, NEW c \in Controller, TrigCall(c)
  PROVE  IInv'
<1> USE ControllerAssumption, BoundsAssumption DEF IInv, TypeOK, TrigCall, At,
    Goto, CtlFrame, saneVars, listVars, actVars, devVars, cancelVars,
    pollVars, runVars
<1>1. TypeOK'
  BY DEF CtlPc, StopPcs, TrigPcs, PollPc, Action
<1>2. SaneDiscipline'
  BY DEF SaneDiscipline, HoldsSane, Depth, SanePcs, InnerStopPcs, StopPcs,
      TrigPcs
<1>3. SaneFacts'
  BY DEF SaneFacts, InnerStopPcs, StopPcs
<1>4. DevDiscipline'
  BY DEF DevDiscipline, HoldsDev
<1>5. SleeperAtWait'
  BY DEF SleeperAtWait
<1>6. CancelPending'
  BY DEF CancelPending, InnerStopPcs, StopPcs, Alive
<1>7. PollerFacts' /\ TriggeredOptionValid' /\ NoLostWakeup'
  BY DEF PollerFacts, TriggeredOptionValid, NoLostWakeup, Alive
<1> QED BY <1>1, <1>2, <1>3, <1>4, <1>5, <1>6, <1>7

\* sane_trigger_action with a device number out of range.
LEMMA TrigNoDeviceStep ==
  ASSUME IInv, NEW c \in Controller, TrigNoDevice(c)
  PROVE  IInv'
<1> USE ControllerAssumption, BoundsAssumption DEF IInv, TypeOK, TrigNoDevice,
    At, Goto, SaneFree, TrigReturn, CtlFrame, NoArg, saneVars, listVars,
    actVars, devVars, cancelVars, pollVars, runVars
<1>1. TypeOK'
  BY DEF CtlPc, StopPcs, TrigPcs, PollPc, Action
<1>2. SaneDiscipline'
  BY DEF SaneDiscipline, HoldsSane, Depth, SanePcs, InnerStopPcs, StopPcs,
      TrigPcs
<1>3. SaneFacts'
  BY DEF SaneFacts, InnerStopPcs, StopPcs
<1>4. DevDiscipline'
  BY DEF DevDiscipline, HoldsDev
<1>5. SleeperAtWait'
  BY DEF SleeperAtWait
<1>6. CancelPending'
  BY DEF CancelPending, InnerStopPcs, StopPcs, Alive
<1>7. PollerFacts' /\ TriggeredOptionValid' /\ NoLostWakeup'
  BY DEF PollerFacts, TriggeredOptionValid, NoLostWakeup, Alive
<1> QED BY <1>1, <1>2, <1>3, <1>4, <1>5, <1>6, <1>7

\* sane_trigger_action enters sane_mutex.
LEMMA TrigLockStep ==
  ASSUME IInv, NEW c \in Controller, TrigLock(c)
  PROVE  IInv'
<1> USE ControllerAssumption, BoundsAssumption DEF IInv, TypeOK, TrigLock, At,
    Goto, SaneFree, LockSane, CtlFrame, listVars, actVars, devVars,
    cancelVars, pollVars, runVars
<1>1. ~HoldsSane(c)
  BY DEF HoldsSane, Depth, SanePcs, InnerStopPcs, StopPcs, TrigPcs
<1>2. saneOwner = None /\ saneDepth = 0
  BY <1>1, NoHolder
<1>3. TypeOK'
  BY <1>2 DEF CtlPc, StopPcs, TrigPcs, PollPc, Action
<1>4. SaneDiscipline'
  BY DEF SaneDiscipline, HoldsSane, Depth, SanePcs, InnerStopPcs, StopPcs,
      TrigPcs
<1>5. SaneFacts'
  BY DEF SaneFacts, InnerStopPcs, StopPcs
<1>6. DevDiscipline'
  BY DEF DevDiscipline, HoldsDev
<1>7. SleeperAtWait'
  BY DEF SleeperAtWait
<1>8. CancelPending'
  BY DEF CancelPending, InnerStopPcs, StopPcs, Alive
<1>9. PollerFacts' /\ TriggeredOptionValid' /\ NoLostWakeup'
  BY DEF PollerFacts, TriggeredOptionValid, NoLostWakeup, Alive
<1> QED BY <1>3, <1>4, <1>5, <1>6, <1>7, <1>8, <1>9

\* Nothing is polled: the trigger sleeps on sane_cv and lets sane_mutex go.
LEMMA TrigAwaitThreadsStep ==
  ASSUME IInv, NEW c \in Controller, TrigAwaitThreads(c)
  PROVE  IInv'
<1> USE ControllerAssumption, BoundsAssumption DEF IInv, TypeOK,
    TrigAwaitThreads, At, Goto, UnlockSane, CtlFrame, listVars, actVars,
    devVars, cancelVars, pollVars, runVars
<1>1. HoldsSane(c) /\ Depth(c) = 1
  BY DEF HoldsSane, Depth, SanePcs, InnerStopPcs, StopPcs, TrigPcs
<1>2. /\ saneOwner = c /\ saneDepth = 1
       /\ \A d \in Controller : d # c => ~HoldsSane(d)
  BY <1>1, SoleHolder
<1>3. TypeOK'
  BY <1>2 DEF CtlPc, StopPcs, TrigPcs, PollPc, Action
<1>4. SaneDiscipline'
  BY DEF SaneDiscipline, HoldsSane, Depth, SanePcs, InnerStopPcs, StopPcs,
      TrigPcs
<1>5. SaneFacts'
  BY DEF SaneFacts, InnerStopPcs, StopPcs
<1>6. DevDiscipline'
  BY DEF DevDiscipline, HoldsDev
<1>7. SleeperAtWait'
  BY DEF SleeperAtWait
<1>8. CancelPending'
  BY <1>2 DEF CancelPending, InnerStopPcs, StopPcs, Alive, HoldsSane, SanePcs
<1>9. NoLostWakeup'
  BY DEF NoLostWakeup
<1>10. PollerFacts' /\ TriggeredOptionValid'
  BY DEF PollerFacts, TriggeredOptionValid, Alive
<1> QED BY <1>3, <1>4, <1>5, <1>6, <1>7, <1>8, <1>9, <1>10

\* The trigger is back from sane_cv.
LEMMA TrigThreadsWakeStep ==
  ASSUME IInv, NEW c \in Controller, TrigThreadsWake(c)
  PROVE  IInv'
<1> USE ControllerAssumption, BoundsAssumption DEF IInv, TypeOK,
    TrigThreadsWake, At, Goto, SaneFree, LockSane, CtlFrame, listVars,
    actVars, devVars, cancelVars, pollVars, runVars
<1>1. ~HoldsSane(c)
  BY DEF HoldsSane, Depth, SanePcs, InnerStopPcs, StopPcs, TrigPcs
<1>2. saneOwner = None /\ saneDepth = 0
  BY <1>1, NoHolder
<1>3. TypeOK'
  BY <1>2 DEF CtlPc, StopPcs, TrigPcs, PollPc, Action
<1>4. SaneDiscipline'
  BY DEF SaneDiscipline, HoldsSane, Depth, SanePcs, InnerStopPcs, StopPcs,
      TrigPcs
<1>5. SaneFacts'
  BY DEF SaneFacts, InnerStopPcs, StopPcs
<1>6. DevDiscipline'
  BY DEF DevDiscipline, HoldsDev
<1>7. SleeperAtWait'
  BY DEF SleeperAtWait
<1>8. CancelPending'
  BY DEF CancelPending, InnerStopPcs, StopPcs, Alive
<1>9. PollerFacts' /\ TriggeredOptionValid' /\ NoLostWakeup'
  BY DEF PollerFacts, TriggeredOptionValid, NoLostWakeup, Alive
<1> QED BY <1>3, <1>4, <1>5, <1>6, <1>7, <1>8, <1>9

\* The trigger enters the slot's mutex.
LEMMA TrigLockDevStep ==
  ASSUME IInv, NEW c \in Controller, TrigLockDev(c)
  PROVE  IInv'
<1> USE ControllerAssumption, BoundsAssumption DEF IInv, TypeOK, TrigLockDev,
    At, Goto, SetDev, CtlFrame, saneVars, listVars, actVars, cancelVars,
    pollVars, runVars
<1>1. TypeOK'
  BY DEF CtlPc, StopPcs, TrigPcs, PollPc, Action
<1>2. SaneDiscipline'
  BY DEF SaneDiscipline, HoldsSane, Depth, SanePcs, InnerStopPcs, StopPcs,
      TrigPcs
<1>3. SaneFacts'
  BY DEF SaneFacts, InnerStopPcs, StopPcs
<1>4. DevDiscipline'
  BY DEF DevDiscipline, HoldsDev
<1>5. SleeperAtWait'
  BY DEF SleeperAtWait
<1>6. CancelPending'
  BY DEF CancelPending, InnerStopPcs, StopPcs, Alive
<1>7. PollerFacts' /\ TriggeredOptionValid' /\ NoLostWakeup'
  BY DEF PollerFacts, TriggeredOptionValid, NoLostWakeup, Alive
<1> QED BY <1>1, <1>2, <1>3, <1>4, <1>5, <1>6, <1>7

\* No such action: both mutexes are released.
LEMMA TrigNoActionStep ==
  ASSUME IInv, NEW c \in Controller, TrigNoAction(c)
  PROVE  IInv'
<1> USE ControllerAssumption, BoundsAssumption DEF IInv, TypeOK, TrigNoAction,
    At, Goto, SetDev, UnlockSane, TrigReturn, CtlFrame, NoArg, listVars,
    actVars, cancelVars, pollVars, runVars
<1>1. HoldsSane(c) /\ Depth(c) = 1
  BY DEF HoldsSane, Depth, SanePcs, InnerStopPcs, StopPcs, TrigPcs
<1>2. /\ saneOwner = c /\ saneDepth = 1
       /\ \A d \in Controller : d # c => ~HoldsSane(d)
  BY <1>1, SoleHolder
<1>3. saneOwner' = None /\ saneDepth' = 0
  BY <1>2
<1>4. arg' \in [Controller -> [dev : 0..MaxDevices, action : 0..MaxActions]]
  OBVIOUS
<1>5. TypeOK'
  <2>1. cpc' \in [Controller -> CtlPc]
    BY DEF CtlPc
  <2>2. devOwner' \in [Slot -> Controller \cup {None, Poller}]
    OBVIOUS
  <2> QED BY <1>3, <1>4, <2>1, <2>2
<1>6. SaneDiscipline'
  BY <1>2 DEF SaneDiscipline, HoldsSane, Depth, SanePcs, InnerStopPcs,
      StopPcs, TrigPcs
<1>7. SaneFacts'
  BY DEF SaneFacts, InnerStopPcs, StopPcs
<1>8. DevDiscipline'
  BY DEF DevDiscipline, HoldsDev
<1>9. SleeperAtWait'
  BY DEF SleeperAtWait
<1>10. CancelPending'
  BY <1>2 DEF CancelPending, InnerStopPcs, StopPcs, Alive, HoldsSane, SanePcs
<1>11. PollerFacts' /\ TriggeredOptionValid' /\ NoLostWakeup'
  BY DEF PollerFacts, TriggeredOptionValid, NoLostWakeup, Alive
<1> QED BY <1>5, <1>6, <1>7, <1>8, <1>9, <1>10, <1>11

\* An action is active: the trigger sleeps on st->cv, with sane_mutex.
LEMMA TrigWaitStep ==
  ASSUME IInv, NEW c \in Controller, TrigWait(c)
  PROVE  IInv'
<1> USE ControllerAssumption, BoundsAssumption DEF IInv, TypeOK, TrigWait, At,
    Goto, SetDev, TrigChecked, CtlFrame, saneVars, listVars, cancelVars,
    pollVars, runVars
<1>1. TypeOK'
  <2>1. cpc' \in [Controller -> CtlPc]
    BY DEF CtlPc, TrigPcs
  <2>2. /\ devOwner' \in [Slot -> Controller \cup {None, Poller}]
        /\ cvWaiters' \in [Slot -> SUBSET Controller]
    OBVIOUS
  <2> QED BY <2>1, <2>2
<1>2. SaneDiscipline'
  BY DEF SaneDiscipline, HoldsSane, Depth, SanePcs, InnerStopPcs, StopPcs,
      TrigPcs
<1>3. SaneFacts'
  BY DEF SaneFacts, InnerStopPcs, StopPcs
<1>4. DevDiscipline'
  BY DEF DevDiscipline, HoldsDev
<1>5. SleeperAtWait'
  BY DEF SleeperAtWait
<1>6. CancelPending'
  BY DEF CancelPending, InnerStopPcs, StopPcs, Alive
<1>7. NoLostWakeup'
  BY DEF NoLostWakeup
<1>8. PollerFacts' /\ TriggeredOptionValid'
  BY DEF PollerFacts, TriggeredOptionValid, Alive
<1> QED BY <1>1, <1>2, <1>3, <1>4, <1>5, <1>6, <1>7, <1>8

\* The trigger is back from st->cv.
LEMMA TrigWakeStep ==
  ASSUME IInv, NEW c \in Controller, TrigWake(c)
  PROVE  IInv'
<1> USE ControllerAssumption, BoundsAssumption DEF IInv, TypeOK, TrigWake, At,
    Goto, SetDev, CtlFrame, saneVars, listVars, actVars, cancelVars, pollVars,
    runVars
<1>1. TypeOK'
  BY DEF CtlPc, StopPcs, TrigPcs, PollPc, Action
<1>2. SaneDiscipline'
  BY DEF SaneDiscipline, HoldsSane, Depth, SanePcs, InnerStopPcs, StopPcs,
      TrigPcs
<1>3. SaneFacts'
  BY DEF SaneFacts, InnerStopPcs, StopPcs
<1>4. DevDiscipline'
  BY DEF DevDiscipline, HoldsDev
<1>5. SleeperAtWait'
  BY DEF SleeperAtWait
<1>6. CancelPending'
  BY DEF CancelPending, InnerStopPcs, StopPcs, Alive
<1>7. PollerFacts' /\ TriggeredOptionValid' /\ NoLostWakeup'
  BY DEF PollerFacts, TriggeredOptionValid, NoLostWakeup, Alive
<1> QED BY <1>1, <1>2, <1>3, <1>4, <1>5, <1>6, <1>7

\* The action is triggered: its number was compared with a list that is still there.
LEMMA TrigSetStep ==
  ASSUME IInv, NEW c \in Controller, TrigSet(c)
  PROVE  IInv'
<1> USE ControllerAssumption, BoundsAssumption DEF IInv, TypeOK, TrigSet, At,
    Goto, SetDev, UnlockSane, TrigReturn, TrigChecked, CtlFrame, NoArg,
    listVars, cancelVars, pollVars, runVars
<1>1. HoldsSane(c) /\ Depth(c) = 1
  BY DEF HoldsSane, Depth, SanePcs, InnerStopPcs, StopPcs, TrigPcs
<1>2. /\ saneOwner = c /\ saneDepth = 1
       /\ \A d \in Controller : d # c => ~HoldsSane(d)
  BY <1>1, SoleHolder
<1>3. saneOwner' = None /\ saneDepth' = 0
  BY <1>2
<1>4. arg' \in [Controller -> [dev : 0..MaxDevices, action : 0..MaxActions]]
  OBVIOUS
<1>5. arg[c].dev \in Slot
  BY DEF SaneFacts, Slot
<1>6. arg[c].action \in 0..(nopts[arg[c].dev] - 1)
  BY <1>5 DEF SaneFacts
<1>7. arg[c].action \in Action
  BY <1>5, <1>6 DEF Action
<1>8. TypeOK'
  <2>1. cpc' \in [Controller -> CtlPc]
    BY DEF CtlPc
  <2>2. devOwner' \in [Slot -> Controller \cup {None, Poller}]
    OBVIOUS
  <2>3. triggered' \in [Slot -> BOOLEAN] /\ option' \in [Slot -> Action \cup {-1}]
    BY <1>5, <1>7
  <2>4. cvWaiters' \in [Slot -> SUBSET Controller]
    BY <1>5
  <2> QED BY <1>3, <1>4, <2>1, <2>2, <2>3, <2>4
<1>9. SaneDiscipline'
  BY DEF SaneDiscipline, HoldsSane, Depth, SanePcs, InnerStopPcs, StopPcs,
      TrigPcs
<1>10. SaneFacts'
  BY DEF SaneFacts, InnerStopPcs, StopPcs
<1>11. DevDiscipline'
  BY DEF DevDiscipline, HoldsDev
<1>12. SleeperAtWait'
  BY DEF SleeperAtWait
<1>13. CancelPending'
  BY <1>2 DEF CancelPending, InnerStopPcs, StopPcs, Alive, HoldsSane, SanePcs
<1>14. TriggeredOptionValid'
  BY <1>5, <1>6 DEF TriggeredOptionValid
<1>15. NoLostWakeup'
  BY DEF NoLostWakeup
<1>16. PollerFacts'
  BY DEF PollerFacts, Alive
<1> QED BY <1>8, <1>9, <1>10, <1>11, <1>12, <1>13, <1>14, <1>15, <1>16

-----------------------------------------------------------------------------
(* Pollers and scripts                                                     *)

\* The poller enters its mutex for the first time.
LEMMA PollLockStep ==
  ASSUME IInv, NEW i \in Slot, PollLock(i)
  PROVE  IInv'
<1> USE ControllerAssumption, BoundsAssumption DEF IInv, TypeOK, PollLock,
    PollerAt, GotoP, SetDev, PollFrame, saneVars, listVars, ctlVars, actVars,
    cancelVars, runVars
<1>1. TypeOK'
  BY DEF CtlPc, StopPcs, TrigPcs, PollPc, Action
<1>2. DevDiscipline'
  BY DEF DevDiscipline, HoldsDev
<1>3. CancelPending'
  BY DEF CancelPending, InnerStopPcs, StopPcs, Alive
<1>4. PollerFacts'
  BY DEF PollerFacts, Alive
<1>5. SaneDiscipline' /\ SaneFacts' /\ SleeperAtWait'
      /\ TriggeredOptionValid' /\ NoLostWakeup'
  BY DEF SaneDiscipline, SaneFacts, SleeperAtWait, TriggeredOptionValid,
      NoLostWakeup, HoldsSane, Depth
<1> QED BY <1>1, <1>2, <1>3, <1>4, <1>5

\* The first open and the list of actions: nobody has seen an older list.
LEMMA PollOpenStep ==
  ASSUME IInv, NEW i \in Slot, PollOpen(i)
  PROVE  IInv'
<1> USE ControllerAssumption, BoundsAssumption DEF IInv, TypeOK, PollOpen,
    PollerAt, GotoP, SetDev, Exit, PollFrame, saneVars, listVars, ctlVars,
    actVars, runVars
<1>1. nopts[i] = 0
  BY DEF PollerFacts
<1>2. TypeOK'
  <2>1. ppc' \in [Slot -> PollPc]
    <3>1. \E pc \in {"head", "dead"} : ppc' = [ppc EXCEPT ![i] = pc]
      OBVIOUS
    <3> QED BY <3>1 DEF PollPc
  <2>2. devOwner' \in [Slot -> Controller \cup {None, Poller}]
    OBVIOUS
  <2>3. handle' \in [Slot -> {"closed", "open", "stale"}]
    OBVIOUS
  <2>4. nopts' \in [Slot -> 0..MaxActions]
    OBVIOUS
  <2>5. si' \in [Slot -> 0..MaxActions]
    OBVIOUS
  <2>6. cancelable' \in [Slot -> BOOLEAN]
    OBVIOUS
  <2> QED BY <2>1, <2>2, <2>3, <2>4, <2>5, <2>6
<1>3. SaneFacts'
  <2>1. \A j \in Slot : nopts'[j] # nopts[j] => nopts[j] = 0
    BY <1>1
  <2>2. \A c \in Controller : arg[c].dev < MaxDevices => arg[c].dev \in Slot
    BY DEF Slot
  <2> QED BY <2>1, <2>2 DEF SaneFacts
<1>4. DevDiscipline'
  BY DEF DevDiscipline, HoldsDev
<1>5. CancelPending'
  BY DEF CancelPending, InnerStopPcs, StopPcs, Alive
<1>6. PollerFacts'
  BY DEF PollerFacts, Alive
<1>7. TriggeredOptionValid'
  BY <1>1 DEF TriggeredOptionValid
<1>8. SaneDiscipline' /\ SleeperAtWait' /\ NoLostWakeup'
  BY DEF SaneDiscipline, SleeperAtWait, NoLostWakeup, HoldsSane, Depth
<1> QED BY <1>2, <1>3, <1>4, <1>5, <1>6, <1>7, <1>8

\* The head of the poll loop: cancellation, or a new round.
LEMMA PollHeadStep ==
  ASSUME IInv, NEW i \in Slot, PollHead(i)
  PROVE  IInv'
<1> USE ControllerAssumption, BoundsAssumption DEF IInv, TypeOK, PollHead,
    PollerAt, GotoP, SetDev, Exit, PollFrame, saneVars, listVars, ctlVars,
    actVars, runVars
<1>1. TypeOK'
  <2>1. ppc' \in [Slot -> PollPc]
    BY DEF PollPc
  <2>2. devOwner' \in [Slot -> Controller \cup {None, Poller}]
    OBVIOUS
  <2>3. si' \in [Slot -> 0..MaxActions]
    <3>1. si' = [si EXCEPT ![i] = 0]
      OBVIOUS
    <3> QED BY <3>1
  <2>4. cancelable' \in [Slot -> BOOLEAN]
    OBVIOUS
  <2> QED BY <2>1, <2>2, <2>3, <2>4
<1>2. DevDiscipline'
  BY SMTT(20) DEF DevDiscipline, HoldsDev
<1>3. CancelPending'
  BY DEF CancelPending, InnerStopPcs, StopPcs, Alive
<1>4. PollerFacts'
  BY DEF PollerFacts, Alive
<1>5. SaneDiscipline' /\ SaneFacts' /\ SleeperAtWait'
      /\ TriggeredOptionValid' /\ NoLostWakeup'
  BY DEF SaneDiscipline, SaneFacts, SleeperAtWait, TriggeredOptionValid,
      NoLostWakeup, HoldsSane, Depth
<1> QED BY <1>1, <1>2, <1>3, <1>4, <1>5

\* One option is read and compared.
LEMMA PollOptionStep ==
  ASSUME IInv, NEW i \in Slot, PollOption(i)
  PROVE  IInv'
<1> USE ControllerAssumption, BoundsAssumption DEF IInv, TypeOK, PollOption,
    PollerAt, GotoP, PollFrame, saneVars, listVars, ctlVars, runVars
<1>1. si[i] \in Action /\ si[i] + 1 \in 0..MaxActions
  BY DEF Action
<1>2. TypeOK'
  <2>1. ppc' \in [Slot -> PollPc]
    BY DEF PollPc
  <2>2. si' \in [Slot -> 0..MaxActions]
    BY <1>1
  <2>3. cancelable' \in [Slot -> BOOLEAN]
    OBVIOUS
  <2>4. triggered' \in [Slot -> BOOLEAN]
    OBVIOUS
  <2>5. option' \in [Slot -> Action \cup {-1}]
    BY <1>1 DEF Action
  <2>6. cvWaiters' \in [Slot -> SUBSET Controller]
    OBVIOUS
  <2> QED BY <2>1, <2>2, <2>3, <2>4, <2>5, <2>6
<1>3. DevDiscipline'
  BY DEF DevDiscipline, HoldsDev
<1>4. SleeperAtWait'
  BY SMTT(20) DEF SleeperAtWait
<1>5. CancelPending'
  BY DEF CancelPending, InnerStopPcs, StopPcs, Alive
<1>6. PollerFacts'
  BY DEF PollerFacts, Alive
<1>7. TriggeredOptionValid'
  BY DEF TriggeredOptionValid
<1>8. NoLostWakeup'
  BY DEF NoLostWakeup
<1>9. SaneDiscipline' /\ SaneFacts'
  BY DEF SaneDiscipline, SaneFacts, HoldsSane, Depth
<1> QED BY <1>2, <1>3, <1>4, <1>5, <1>6, <1>7, <1>8, <1>9

\* The device is closed and the mutex left for the script.
LEMMA PollFireStep ==
  ASSUME IInv, NEW i \in Slot, PollFire(i)
  PROVE  IInv'
<1> USE ControllerAssumption, BoundsAssumption DEF IInv, TypeOK, PollFire,
    PollerAt, GotoP, SetDev, PollFrame, saneVars, listVars, ctlVars, actVars,
    cancelVars, runVars
<1>1. TypeOK'
  <2>1. ppc' \in [Slot -> PollPc]
    <3>1. \E pc \in {"prep", "finish"} : ppc' = [ppc EXCEPT ![i] = pc]
      OBVIOUS
    <3> QED BY <3>1 DEF PollPc
  <2>2. devOwner' \in [Slot -> Controller \cup {None, Poller}]
    OBVIOUS
  <2>3. handle' \in [Slot -> {"closed", "open", "stale"}]
    OBVIOUS
  <2> QED BY <2>1, <2>2, <2>3
<1>2. DevDiscipline'
  BY DEF DevDiscipline, HoldsDev
<1>3. CancelPending'
  BY DEF CancelPending, InnerStopPcs, StopPcs, Alive
<1>4. PollerFacts'
  BY DEF PollerFacts, Alive
<1>5. SaneDiscipline' /\ SaneFacts' /\ SleeperAtWait'
      /\ TriggeredOptionValid' /\ NoLostWakeup'
  BY DEF SaneDiscipline, SaneFacts, SleeperAtWait, TriggeredOptionValid,
      NoLostWakeup, HoldsSane, Depth
<1> QED BY <1>1, <1>2, <1>3, <1>4, <1>5

\* The script is forked.
LEMMA PollForkStep ==
  ASSUME IInv, NEW i \in Slot, PollFork(i)
  PROVE  IInv'
<1> USE ControllerAssumption, BoundsAssumption DEF IInv, TypeOK, PollFork,
    PollerAt, GotoP, PollFrame, saneVars, listVars, ctlVars, actVars, devVars,
    cancelVars
<1>1. TypeOK'
  <2>1. ppc' \in [Slot -> PollPc]
    <3>1. \E pc \in {"script", "finish"} : ppc' = [ppc EXCEPT ![i] = pc]
      OBVIOUS
    <3> QED BY <3>1 DEF PollPc
  <2>2. script' \in [Slot -> BOOLEAN]
    OBVIOUS
  <2> QED BY <2>1, <2>2
<1>2. DevDiscipline'
  BY DEF DevDiscipline, HoldsDev
<1>3. CancelPending'
  BY SMTT(20) DEF CancelPending, InnerStopPcs, StopPcs, Alive
<1>4. PollerFacts'
  BY DEF PollerFacts, Alive
<1>5. SaneDiscipline' /\ SaneFacts' /\ SleeperAtWait'
      /\ TriggeredOptionValid' /\ NoLostWakeup'
  BY DEF SaneDiscipline, SaneFacts, SleeperAtWait, TriggeredOptionValid,
      NoLostWakeup, HoldsSane, Depth
<1> QED BY <1>1, <1>2, <1>3, <1>4, <1>5

\* The script has ended.
LEMMA PollWaitpidStep ==
  ASSUME IInv, NEW i \in Slot, PollWaitpid(i)
  PROVE  IInv'
<1> USE ControllerAssumption, BoundsAssumption DEF IInv, TypeOK, PollWaitpid,
    PollerAt, GotoP, PollFrame, saneVars, listVars, ctlVars, actVars, devVars,
    cancelVars, runVars
<1>1. TypeOK'
  BY DEF CtlPc, StopPcs, TrigPcs, PollPc, Action
<1>2. DevDiscipline'
  BY DEF DevDiscipline, HoldsDev
<1>3. CancelPending'
  BY DEF CancelPending, InnerStopPcs, StopPcs, Alive
<1>4. PollerFacts'
  BY DEF PollerFacts, Alive
<1>5. SaneDiscipline' /\ SaneFacts' /\ SleeperAtWait'
      /\ TriggeredOptionValid' /\ NoLostWakeup'
  BY DEF SaneDiscipline, SaneFacts, SleeperAtWait, TriggeredOptionValid,
      NoLostWakeup, HoldsSane, Depth
<1> QED BY <1>1, <1>2, <1>3, <1>4, <1>5

\* The action is over: everybody asleep on st->cv is woken.
LEMMA PollFinishStep ==
  ASSUME IInv, NEW i \in Slot, PollFinish(i)
  PROVE  IInv'
<1> USE ControllerAssumption, BoundsAssumption DEF IInv, TypeOK, PollFinish,
    PollerAt, GotoP, PollFrame, saneVars, listVars, ctlVars, cancelVars,
    runVars
<1>1. TypeOK'
  BY DEF CtlPc, StopPcs, TrigPcs, PollPc, Action
<1>2. DevDiscipline'
  BY DEF DevDiscipline, HoldsDev
<1>3. SleeperAtWait'
  BY DEF SleeperAtWait
<1>4. CancelPending'
  BY DEF CancelPending, InnerStopPcs, StopPcs, Alive
<1>5. PollerFacts'
  BY DEF PollerFacts, Alive
<1>6. TriggeredOptionValid'
  BY DEF TriggeredOptionValid
<1>7. NoLostWakeup'
  BY DEF NoLostWakeup
<1>8. SaneDiscipline' /\ SaneFacts'
  BY DEF SaneDiscipline, SaneFacts, HoldsSane, Depth
<1> QED BY <1>1, <1>2, <1>3, <1>4, <1>5, <1>6, <1>7, <1>8

\* Back into the mutex after the settle time.
LEMMA PollSettleStep ==
  ASSUME IInv, NEW i \in Slot, PollSettle(i)
  PROVE  IInv'
<1> USE ControllerAssumption, BoundsAssumption DEF IInv, TypeOK, PollSettle,
    PollerAt, GotoP, SetDev, PollFrame, saneVars, listVars, ctlVars, actVars,
    cancelVars, runVars
<1>1. TypeOK'
  BY DEF CtlPc, StopPcs, TrigPcs, PollPc, Action
<1>2. DevDiscipline'
  BY DEF DevDiscipline, HoldsDev
<1>3. CancelPending'
  BY DEF CancelPending, InnerStopPcs, StopPcs, Alive
<1>4. PollerFacts'
  BY DEF PollerFacts, Alive
<1>5. SaneDiscipline' /\ SaneFacts' /\ SleeperAtWait'
      /\ TriggeredOptionValid' /\ NoLostWakeup'
  BY DEF SaneDiscipline, SaneFacts, SleeperAtWait, TriggeredOptionValid,
      NoLostWakeup, HoldsSane, Depth
<1> QED BY <1>1, <1>2, <1>3, <1>4, <1>5

\* The device is opened again after the script.
LEMMA PollReopenStep ==
  ASSUME IInv, NEW i \in Slot, PollReopen(i)
  PROVE  IInv'
<1> USE ControllerAssumption, BoundsAssumption DEF IInv, TypeOK, PollReopen,
    PollerAt, GotoP, SetDev, Exit, PollFrame, saneVars, listVars, ctlVars,
    actVars, runVars
<1>1. si[i] < nopts[i]
  BY DEF PollerFacts
<1>2. si[i] + 1 \in 0..MaxActions
  BY <1>1
<1>3. TypeOK'
  <2>1. ppc' \in [Slot -> PollPc]
    <3>1. \E pc \in {"option", "dead"} : ppc' = [ppc EXCEPT ![i] = pc]
      OBVIOUS
    <3> QED BY <3>1 DEF PollPc
  <2>2. devOwner' \in [Slot -> Controller \cup {None, Poller}]
    OBVIOUS
  <2>3. handle' \in [Slot -> {"closed", "open", "stale"}]
    OBVIOUS
  <2>4. si' \in [Slot -> 0..MaxActions]
    BY <1>2
  <2>5. cancelable' \in [Slot -> BOOLEAN]
    OBVIOUS
  <2> QED BY <2>1, <2>2, <2>3, <2>4, <2>5
<1>4. DevDiscipline'
  BY DEF DevDiscipline, HoldsDev
<1>5. CancelPending'
  BY DEF CancelPending, InnerStopPcs, StopPcs, Alive
<1>6. PollerFacts'
  <2>1. \A j \in Slot : Alive(j)' => Alive(j)
    BY DEF Alive
  <2>2. \A j \in Slot : j # i => /\ ppc'[j] = ppc[j] /\ si'[j] = si[j]
                                 /\ handle'[j] = handle[j]
    OBVIOUS
  <2>3. ppc'[i] \in {"option", "dead"}
    OBVIOUS
  <2> QED BY <2>1, <2>2, <2>3 DEF PollerFacts
<1>7. SaneDiscipline' /\ SaneFacts' /\ SleeperAtWait'
      /\ TriggeredOptionValid' /\ NoLostWakeup'
  BY DEF SaneDiscipline, SaneFacts, SleeperAtWait, TriggeredOptionValid,
      NoLostWakeup, HoldsSane, Depth
<1> QED BY <1>3, <1>4, <1>5, <1>6, <1>7

\* The end of a round: the mutex is left.
LEMMA PollPauseStep ==
  ASSUME IInv, NEW i \in Slot, PollPause(i)
  PROVE  IInv'
<1> USE ControllerAssumption, BoundsAssumption DEF IInv, TypeOK, PollPause,
    PollerAt, GotoP, SetDev, PollFrame, saneVars, listVars, ctlVars, actVars,
    cancelVars, runVars
<1>1. TypeOK'
  BY DEF CtlPc, StopPcs, TrigPcs, PollPc, Action
<1>2. DevDiscipline'
  BY DEF DevDiscipline, HoldsDev
<1>3. CancelPending'
  BY DEF CancelPending, InnerStopPcs, StopPcs, Alive
<1>4. PollerFacts'
  BY DEF PollerFacts, Alive
<1>5. SaneDiscipline' /\ SaneFacts' /\ SleeperAtWait'
      /\ TriggeredOptionValid' /\ NoLostWakeup'
  BY DEF SaneDiscipline, SaneFacts, SleeperAtWait, TriggeredOptionValid,
      NoLostWakeup, HoldsSane, Depth
<1> QED BY <1>1, <1>2, <1>3, <1>4, <1>5

\* The next round: the mutex is entered.
LEMMA PollResumeStep ==
  ASSUME IInv, NEW i \in Slot, PollResume(i)
  PROVE  IInv'
<1> USE ControllerAssumption, BoundsAssumption DEF IInv, TypeOK, PollResume,
    PollerAt, GotoP, SetDev, PollFrame, saneVars, listVars, ctlVars, actVars,
    cancelVars, runVars
<1>1. TypeOK'
  BY DEF CtlPc, StopPcs, TrigPcs, PollPc, Action
<1>2. DevDiscipline'
  BY DEF DevDiscipline, HoldsDev
<1>3. CancelPending'
  BY DEF CancelPending, InnerStopPcs, StopPcs, Alive
<1>4. PollerFacts'
  BY DEF PollerFacts, Alive
<1>5. SaneDiscipline' /\ SaneFacts' /\ SleeperAtWait'
      /\ TriggeredOptionValid' /\ NoLostWakeup'
  BY DEF SaneDiscipline, SaneFacts, SleeperAtWait, TriggeredOptionValid,
      NoLostWakeup, HoldsSane, Depth
<1> QED BY <1>1, <1>2, <1>3, <1>4, <1>5

\* Cancellation: the cleanup handler unlocks a mutex no controller holds.
LEMMA PollCancelledStep ==
  ASSUME IInv, NEW i \in Slot, PollCancelled(i)
  PROVE  IInv'
<1> USE ControllerAssumption, BoundsAssumption DEF IInv, TypeOK,
    PollCancelled, GotoP, SetDev, Exit, PollFrame, saneVars, listVars,
    ctlVars, actVars
<1>1. Alive(i)
  BY DEF Alive
<1>2. \A c \in Controller : ~HoldsDev(c, i)
  BY <1>1, NotHeld
<1>3. TypeOK'
  BY DEF CtlPc, StopPcs, TrigPcs, PollPc, Action
<1>4. DevDiscipline'
  BY <1>2 DEF DevDiscipline, HoldsDev
<1>5. CancelPending'
  BY DEF CancelPending, InnerStopPcs, StopPcs, Alive
<1>6. PollerFacts'
  BY DEF PollerFacts, Alive
<1>7. SaneDiscipline' /\ SaneFacts' /\ SleeperAtWait'
      /\ TriggeredOptionValid' /\ NoLostWakeup'
  BY DEF SaneDiscipline, SaneFacts, SleeperAtWait, TriggeredOptionValid,
      NoLostWakeup, HoldsSane, Depth
<1> QED BY <1>3, <1>4, <1>5, <1>6, <1>7

\* A script ends.
LEMMA ScriptEndsStep ==
  ASSUME IInv, NEW i \in Slot, ScriptEnds(i)
  PROVE  IInv'
<1> USE ControllerAssumption, BoundsAssumption DEF IInv, TypeOK, ScriptEnds,
    PollFrame, saneVars, listVars, ctlVars, actVars, devVars, cancelVars,
    pollVars
<1>1. TypeOK'
  <2>1. script' \in [Slot -> BOOLEAN] /\ orphan' \in [Slot -> BOOLEAN]
    OBVIOUS
  <2> QED BY <2>1
<1>2. PollerFacts'
  BY DEF PollerFacts, Alive
<1>3. SaneDiscipline' /\ SaneFacts' /\ DevDiscipline' /\ SleeperAtWait'
      /\ CancelPending' /\ TriggeredOptionValid' /\ NoLostWakeup'
  BY DEF SaneDiscipline, SaneFacts, DevDiscipline, SleeperAtWait,
      CancelPending, TriggeredOptionValid, NoLostWakeup, HoldsSane, Depth,
      HoldsDev, Alive
<1> QED BY <1>1, <1>2, <1>3

-----------------------------------------------------------------------------
(* The invariant                                                           *)

\* main enters the system with no poller, no lock held and no call under way.
LEMMA InitIInv == Init => IInv
<1> SUFFICES ASSUME Init PROVE IInv
  OBVIOUS
<1> USE ControllerAssumption, BoundsAssumption DEF Init
<1>1. TypeOK
  BY DEF TypeOK, CtlPc, PollPc, NoArg
<1>2. SaneDiscipline /\ SaneFacts
  BY DEF SaneDiscipline, SaneFacts, HoldsSane, Depth, SanePcs, InnerStopPcs,
         StopPcs, TrigPcs
<1>3. DevDiscipline /\ SleeperAtWait
  BY DEF DevDiscipline, SleeperAtWait, HoldsDev
<1>4. CancelPending /\ PollerFacts
  BY DEF CancelPending, PollerFacts, Alive
<1>5. TriggeredOptionValid /\ NoLostWakeup
  BY DEF TriggeredOptionValid, NoLostWakeup
<1> QED BY <1>1, <1>2, <1>3, <1>4, <1>5 DEF IInv

\* Every step of stop_sane_threads preserves the invariant.
LEMMA StopStepIInv ==
  ASSUME IInv, NEW c \in Controller, StopStep(c)
  PROVE  IInv'
<1>1. CASE StopNothing(c)
  BY <1>1, StopNothingStep
<1>2. CASE StopLock(c)
  BY <1>2, StopLockStep
<1>3. CASE StopLockDev(c)
  BY <1>3, StopLockDevStep
<1>4. CASE StopWait(c)
  BY <1>4, StopWaitStep
<1>5. CASE StopWake(c)
  BY <1>5, StopWakeStep
<1>6. CASE StopUnlockDev(c)
  BY <1>6, StopUnlockDevStep
<1>7. CASE StopCancel(c)
  BY <1>7, StopCancelStep
<1>8. CASE StopAllCancelled(c)
  BY <1>8, StopAllCancelledStep
<1>9. CASE StopJoin(c)
  BY <1>9, StopJoinStep
<1>10. CASE StopFree(c)
  BY <1>10, StopFreeStep
<1>11. CASE StopBadSlot(c)
  BY <1>11, UndefinedStep DEF StopBadSlot
<1>12. CASE StopBadHandle(c)
  BY <1>12, UndefinedStep DEF StopBadHandle
<1> QED BY <1>1, <1>2, <1>3, <1>4, <1>5, <1>6, <1>7, <1>8, <1>9, <1>10, <1>11,
    <1>12 DEF StopStep

\* Every step of start_sane_threads preserves the invariant.
LEMMA StartStepIInv ==
  ASSUME IInv, NEW c \in Controller, StartStep(c)
  PROVE  IInv'
<1>1. CASE StartLock(c)
  BY <1>1, StartLockStep
<1>2. CASE StartNoDevices(c)
  BY <1>2, StartNoDevicesStep
<1>3. CASE StartAlloc(c)
  BY <1>3, StartAllocStep
<1> QED BY <1>1, <1>2, <1>3 DEF StartStep

\* Every step of the reload and the rescan preserves the invariant.
LEMMA RescanStepIInv ==
  ASSUME IInv, NEW c \in Controller, RescanStep(c)
  PROVE  IInv'
<1>1. CASE SaneExit(c)
  BY <1>1, SaneExitStep
<1>2. CASE SaneInit(c)
  BY <1>2, SaneInitStep
<1>3. CASE GetSaneDevices(c)
  BY <1>3, GetSaneDevicesStep
<1>4. CASE RescanWhileDown(c)
  BY <1>4, UndefinedStep DEF RescanWhileDown
<1> QED BY <1>1, <1>2, <1>3, <1>4 DEF RescanStep

\* Every step of sane_trigger_action preserves the invariant.
LEMMA TrigStepIInv ==
  ASSUME IInv, NEW c \in Controller, TrigStep(c)
  PROVE  IInv'
<1>1. CASE TrigNoDevice(c)
  BY <1>1, TrigNoDeviceStep
<1>2. CASE TrigLock(c)
  BY <1>2, TrigLockStep
<1>3. CASE TrigAwaitThreads(c)
  BY <1>3, TrigAwaitThreadsStep
<1>4. CASE TrigThreadsWake(c)
  BY <1>4, TrigThreadsWakeStep
<1>5. CASE TrigLockDev(c)
  BY <1>5, TrigLockDevStep
<1>6. CASE TrigNoAction(c)
  BY <1>6, TrigNoActionStep
<1>7. CASE TrigWait(c)
  BY <1>7, TrigWaitStep
<1>8. CASE TrigWake(c)
  BY <1>8, TrigWakeStep
<1>9. CASE TrigSet(c)
  BY <1>9, TrigSetStep
<1>10. CASE TrigBadSlot(c)
  BY <1>10, UndefinedStep DEF TrigBadSlot
<1> QED BY <1>1, <1>2, <1>3, <1>4, <1>5, <1>6, <1>7, <1>8, <1>9, <1>10 DEF
    TrigStep

\* Every step of the calls preserves the invariant.
LEMMA CallIInv ==
  ASSUME IInv, NEW c \in Controller, Call(c)
  PROVE  IInv'
<1>1. CASE StopCall(c)
  BY <1>1, StopCallStep
<1>2. CASE StartCall(c)
  BY <1>2, StartCallStep
<1>3. CASE TrigCall(c)
  BY <1>3, TrigCallStep
<1> QED BY <1>1, <1>2, <1>3 DEF Call

\* Every step of sane_poll preserves the invariant.
LEMMA PollStepIInv ==
  ASSUME IInv, NEW i \in Slot, PollStep(i)
  PROVE  IInv'
<1>1. CASE PollLock(i)
  BY <1>1, PollLockStep
<1>2. CASE PollOpen(i)
  BY <1>2, PollOpenStep
<1>3. CASE PollHead(i)
  BY <1>3, PollHeadStep
<1>4. CASE PollOption(i)
  BY <1>4, PollOptionStep
<1>5. CASE PollFire(i)
  BY <1>5, PollFireStep
<1>6. CASE PollFork(i)
  BY <1>6, PollForkStep
<1>7. CASE PollWaitpid(i)
  BY <1>7, PollWaitpidStep
<1>8. CASE PollFinish(i)
  BY <1>8, PollFinishStep
<1>9. CASE PollSettle(i)
  BY <1>9, PollSettleStep
<1>10. CASE PollReopen(i)
  BY <1>10, PollReopenStep
<1>11. CASE PollPause(i)
  BY <1>11, PollPauseStep
<1>12. CASE PollResume(i)
  BY <1>12, PollResumeStep
<1>13. CASE PollCancelled(i)
  BY <1>13, PollCancelledStep
<1>14. CASE PollBadHandle(i)
  BY <1>14, UndefinedStep DEF PollBadHandle
<1>15. CASE PollWhileDown(i)
  BY <1>15, UndefinedStep DEF PollWhileDown
<1> QED BY <1>1, <1>2, <1>3, <1>4, <1>5, <1>6, <1>7, <1>8, <1>9, <1>10, <1>11,
    <1>12, <1>13, <1>14, <1>15 DEF PollStep

\* A step that changes nothing.
LEMMA StutterIInv == IInv /\ UNCHANGED vars => IInv'
<1> SUFFICES ASSUME IInv, UNCHANGED vars PROVE IInv'
  OBVIOUS
<1> USE DEF IInv, vars, saneVars, listVars, ctlVars, devVars, actVars,
            pollVars, cancelVars, runVars
<1>1. TypeOK'
  BY DEF TypeOK
<1>2. SaneDiscipline' /\ SaneFacts'
  BY DEF SaneDiscipline, SaneFacts, HoldsSane, Depth
<1>3. DevDiscipline' /\ SleeperAtWait'
  BY DEF DevDiscipline, SleeperAtWait, HoldsDev
<1>4. CancelPending' /\ PollerFacts'
  BY DEF CancelPending, PollerFacts, Alive
<1>5. TriggeredOptionValid' /\ NoLostWakeup'
  BY DEF TriggeredOptionValid, NoLostWakeup
<1> QED BY <1>1, <1>2, <1>3, <1>4, <1>5

\* The locking discipline of sane.c is kept by every thread at every step,
\* whatever the controllers call and whatever a rescan finds.
THEOREM Inductive == Spec => []IInv
<1>1. Init => IInv
  BY InitIInv
<1>2. IInv /\ [Next]_vars => IInv'
  <2> SUFFICES ASSUME IInv, [Next]_vars PROVE IInv'
    OBVIOUS
  <2>1. ASSUME NEW c \in Controller, Call(c) \/ CtlStep(c) PROVE IInv'
    BY <2>1, StopStepIInv, StartStepIInv, RescanStepIInv, TrigStepIInv, CallIInv
    DEF CtlStep
  <2>2. ASSUME NEW i \in Slot, PollStep(i) \/ ScriptEnds(i) PROVE IInv'
    BY <2>2, PollStepIInv, ScriptEndsStep
  <2>3. CASE UNCHANGED vars
    BY <2>3, StutterIInv
  <2> QED BY <2>1, <2>2, <2>3 DEF Next
<1> QED BY <1>1, <1>2, PTL DEF Spec

\* Every variable of sane.c keeps its range: sane_mutex is never locked more
\* than twice, no loop index of stop_sane_threads and no option index of a
\* poller leaves its array.
THEOREM TypeCorrect == Spec => []TypeOK
<1>1. IInv => TypeOK
  BY DEF IInv
<1> QED BY <1>1, Inductive, PTL

\* The cleanup handler of sane_poll (sane.c:257-265) never takes st->mutex
\* away from a controller.
THEOREM CleanupSafe == Spec => []CleanupUnlockHarmless
<1>1. IInv => CleanupUnlockHarmless
  <2> SUFFICES ASSUME IInv, NEW i \in Slot, Alive(i), cancelReq[i]
               PROVE  devOwner[i] \notin Controller
    BY DEF CleanupUnlockHarmless
  <2>1. \A c \in Controller : ~HoldsDev(c, i)
    BY NotHeld
  <2> QED BY <2>1 DEF IInv, DevDiscipline
<1> QED BY <1>1, Inductive, PTL

\* assert(st->triggered_option < st->num_of_options_with_scripts)
\* (sane.c:877) cannot fail, whichever thread triggered the action.
THEOREM TriggeredOptionSafe == Spec => []TriggeredOptionValid
<1>1. IInv => TriggeredOptionValid
  BY DEF IInv
<1> QED BY <1>1, Inductive, PTL

\* While sane_poll waits for a script its own handle is closed (sane.c:1024).
THEOREM OwnScriptSafe == Spec => []OwnScriptHasDevice
<1>1. IInv => OwnScriptHasDevice
  BY DEF IInv, PollerFacts, OwnScriptHasDevice
<1> QED BY <1>1, Inductive, PTL

\* No wakeup of stop_sane_threads or sane_trigger_action is lost.
THEOREM WakeupSafe == Spec => []NoLostWakeup
<1>1. IInv => NoLostWakeup
  BY DEF IInv
<1> QED BY <1>1, Inductive, PTL
=============================================================================
