---------------------------- MODULE SanePolling ----------------------------
(***************************************************************************)
(* The polling engine of scanbd (src/scanbd/sane.c).  One poller thread    *)
(* per scanner reads the scanner's options in a loop and runs the script   *)
(* of an action when a value changes or when an action is triggered from   *)
(* outside.  Controller threads (the main thread in its signal handlers,   *)
(* the D-Bus thread, the udev thread and the short-lived trigger threads)  *)
(* stop and start the pollers, rescan the devices and trigger actions.     *)
(* The threads share the array sane_poll_threads and synchronise on        *)
(* sane_mutex/sane_cv and, per array slot, on st->mutex/st->cv.            *)
(*                                                                         *)
(* A step is what a thread does between two points where another thread    *)
(* can see or disturb it.  Undefined behaviour (an index outside the       *)
(* array, a freed slot, a dead handle) ends the behaviour: ub names it.    *)
(***************************************************************************)
EXTENDS Integers, FiniteSets

CONSTANTS
  Controller,   \* the threads that call into sane.c
  Ops,          \* what each of them may call
  MaxDevices,   \* bound on the scanners the SANE library can report
  MaxActions,   \* bound on num_of_options_with_scripts
  Counts,       \* the numbers of scanners a rescan may find
  OpenErrors,   \* what sane_open may answer instead of SANE_STATUS_GOOD
  None,         \* nobody owns the mutex
  Poller        \* owner of a slot's mutex: the poller of that slot

Operation == {"stop", "start", "refresh", "hup", "trigger"}

ASSUME ControllerAssumption ==
  /\ None \notin Controller /\ Poller \notin Controller /\ None # Poller
  /\ Ops \in [Controller -> SUBSET Operation]

ASSUME BoundsAssumption ==
  /\ MaxDevices \in Nat \ {0}
  /\ MaxActions \in Nat \ {0}
  /\ Counts \in SUBSET (0..MaxDevices) /\ Counts # {}
  /\ OpenErrors \in SUBSET {"denied", "busy"}

Slot == 0..(MaxDevices - 1)
Action == 0..(MaxActions - 1)
NoArg == [dev |-> 0, action |-> 0]

VARIABLES
  saneOwner,    \* owner of sane_mutex, a recursive mutex
  saneDepth,    \* how often the owner has locked it
  saneWaiters,  \* controllers asleep on sane_cv
  numDevices,   \* num_devices
  slots,        \* length of the array sane_poll_threads, 0 when it is NULL
  saneUp,       \* between sane_init and sane_exit
  cpc,          \* where each controller is
  ret,          \* where stop_sane_threads returns to
  idx,          \* the loop variable i of stop_sane_threads
  arg,          \* the arguments of sane_trigger_action
  devOwner,     \* owner of st->mutex
  cvWaiters,    \* controllers asleep on st->cv
  triggered,    \* st->triggered
  option,       \* st->triggered_option
  ppc,          \* where each poller is
  si,           \* the poller's loop variable si
  nopts,        \* st->num_of_options_with_scripts
  handle,       \* st->h: closed (NULL), open, or stale after sane_exit
  cancelable,   \* the poller's cancel state is PTHREAD_CANCEL_ENABLE
  cancelReq,    \* pthread_cancel was called for the poller
  script,       \* the script forked by the poller is running
  orphan,       \* a script whose poller was cancelled is running
  ub            \* the undefined behaviour the program ran into, if any

saneVars == <<saneOwner, saneDepth, saneWaiters>>
listVars == <<numDevices, slots, saneUp>>
ctlVars  == <<cpc, ret, idx, arg>>
actVars  == <<cvWaiters, triggered, option>>
devVars  == <<devOwner, actVars>>
cancelVars == <<cancelable, cancelReq>>
pollVars == <<ppc, si, nopts, handle, cancelVars>>
runVars  == <<script, orphan>>
vars == <<saneVars, listVars, ctlVars, devVars, pollVars, runVars, ub>>

StopPcs == {"stop_lock", "stop_dev", "stop_test", "stop_wait",
            "stop_cancel", "stop_join"}
TrigPcs == {"trig_lock", "trig_threads", "trig_swait", "trig_test",
            "trig_wait", "trig_retest"}
CtlPc == {"idle", "start_lock", "start_alloc", "rescan", "sane_exit",
          "sane_init"} \cup StopPcs \cup TrigPcs
PollPc == {"none", "lock", "open", "head", "option", "fire", "prep",
           "script", "finish", "settle", "reopen", "sleep", "dead"}

Alive(i) == ppc[i] \notin {"none", "dead"}

(***************************************************************************)
(* main has called sane_init and get_sane_devices and is about to call     *)
(* start_sane_threads; no other thread exists that is in sane.c.           *)
(***************************************************************************)
Init ==
  /\ saneOwner = None /\ saneDepth = 0 /\ saneWaiters = {}
  /\ numDevices \in Counts /\ slots = 0 /\ saneUp = TRUE
  /\ cpc = [c \in Controller |-> "idle"]
  /\ ret = [c \in Controller |-> "idle"]
  /\ idx = [c \in Controller |-> 0]
  /\ arg = [c \in Controller |-> NoArg]
  /\ devOwner = [i \in Slot |-> None]
  /\ cvWaiters = [i \in Slot |-> {}]
  /\ triggered = [i \in Slot |-> FALSE]
  /\ option = [i \in Slot |-> -1]
  /\ ppc = [i \in Slot |-> "none"]
  /\ si = [i \in Slot |-> 0]
  /\ nopts = [i \in Slot |-> 0]
  /\ handle = [i \in Slot |-> "closed"]
  /\ cancelable = [i \in Slot |-> FALSE]
  /\ cancelReq = [i \in Slot |-> FALSE]
  /\ script = [i \in Slot |-> FALSE]
  /\ orphan = [i \in Slot |-> FALSE]
  /\ ub = "none"

-----------------------------------------------------------------------------
(* Helpers                                                                 *)

At(c, pc) == cpc[c] = pc /\ ub = "none"
Goto(c, pc) == cpc' = [cpc EXCEPT ![c] = pc]

SaneFree(c) == saneOwner \in {None, c}
LockSane(c) == saneOwner' = c /\ saneDepth' = saneDepth + 1
UnlockSane == /\ saneDepth' = saneDepth - 1
              /\ saneOwner' = IF saneDepth = 1 THEN None ELSE saneOwner

\* What most controller steps, and what all poller steps, leave alone.
CtlFrame == UNCHANGED <<listVars, pollVars, runVars, ub>>
PollFrame == UNCHANGED <<saneVars, listVars, ctlVars, ub>>

\* Locals have no value once their function returns.
StopReturn(c) == /\ Goto(c, ret[c])
                 /\ ret' = [ret EXCEPT ![c] = "idle"]
                 /\ idx' = [idx EXCEPT ![c] = 0]
TrigReturn(c) == /\ Goto(c, "idle")
                 /\ arg' = [arg EXCEPT ![c] = NoArg]

SetDev(i, owner) == devOwner' = [devOwner EXCEPT ![i] = owner]

\* The program's state is beyond the C standard: nothing after it counts.
Undefined(why) ==
  /\ ub' = why
  /\ UNCHANGED <<saneVars, listVars, ctlVars, devVars, pollVars, runVars>>

-----------------------------------------------------------------------------
(* stop_sane_threads, entered from a signal, a D-Bus call, device_added or *)
(* device_removed, SIGHUP, or start_sane_threads (nested).                 *)

StopCall(c) ==
  /\ At(c, "idle")
  /\ \/ "stop" \in Ops[c] /\ ret' = [ret EXCEPT ![c] = "idle"]
     \/ "refresh" \in Ops[c] /\ ret' = [ret EXCEPT ![c] = "rescan"]
     \/ "hup" \in Ops[c] /\ ret' = [ret EXCEPT ![c] = "sane_exit"]
  /\ Goto(c, "stop_lock")
  /\ UNCHANGED <<saneVars, idx, arg, devVars>> /\ CtlFrame

StopNothing(c) ==
  /\ At(c, "stop_lock") /\ SaneFree(c) /\ slots = 0
  /\ StopReturn(c)
  /\ UNCHANGED <<saneVars, arg, devVars>> /\ CtlFrame

StopLock(c) ==
  /\ At(c, "stop_lock") /\ SaneFree(c) /\ slots # 0
  /\ LockSane(c)
  /\ idx' = [idx EXCEPT ![c] = 0]
  /\ Goto(c, "stop_dev")
  /\ UNCHANGED <<saneWaiters, ret, arg, devVars>> /\ CtlFrame

StopLockDev(c) ==
  /\ At(c, "stop_dev") /\ idx[c] < numDevices /\ idx[c] < slots
  /\ devOwner[idx[c]] = None
  /\ SetDev(idx[c], c)
  /\ Goto(c, "stop_test")
  /\ UNCHANGED <<saneVars, ret, idx, arg, actVars>> /\ CtlFrame

\* An action is active: pthread_cond_wait releases only the slot's mutex.
StopWait(c) ==
  LET i == idx[c] IN
  /\ At(c, "stop_test") /\ triggered[i]
  /\ SetDev(i, None)
  /\ cvWaiters' = [cvWaiters EXCEPT ![i] = @ \cup {c}]
  /\ Goto(c, "stop_wait")
  /\ UNCHANGED <<saneVars, ret, idx, arg, triggered, option>> /\ CtlFrame

StopWake(c) ==
  LET i == idx[c] IN
  /\ At(c, "stop_wait") /\ c \notin cvWaiters[i] /\ devOwner[i] = None
  /\ SetDev(i, c)
  /\ Goto(c, "stop_test")
  /\ UNCHANGED <<saneVars, ret, idx, arg, actVars>> /\ CtlFrame

\* Mutant: the slot's mutex is not unlocked before pthread_cancel.
StopUnlockDevLeaks(c) ==
  /\ At(c, "stop_test") /\ ~triggered[idx[c]]
  /\ Goto(c, "stop_cancel")
  /\ UNCHANGED <<saneVars, ret, idx, arg, devVars>> /\ CtlFrame

StopUnlockDev(c) ==
  /\ At(c, "stop_test") /\ ~triggered[idx[c]]
  /\ SetDev(idx[c], None)
  /\ Goto(c, "stop_cancel")
  /\ UNCHANGED <<saneVars, ret, idx, arg, actVars>> /\ CtlFrame

StopCancel(c) ==
  LET i == idx[c] IN
  /\ At(c, "stop_cancel")
  /\ cancelReq' = [cancelReq EXCEPT ![i] = Alive(i)]
  /\ idx' = [idx EXCEPT ![c] = i + 1]
  /\ Goto(c, "stop_dev")
  /\ UNCHANGED <<saneVars, listVars, ret, arg, devVars, ppc, si, nopts, handle,
                 cancelable, runVars, ub>>

StopAllCancelled(c) ==
  /\ At(c, "stop_dev") /\ idx[c] >= numDevices
  /\ idx' = [idx EXCEPT ![c] = 0]
  /\ Goto(c, "stop_join")
  /\ UNCHANGED <<saneVars, ret, arg, devVars>> /\ CtlFrame

\* Mutant: the scanner is not closed for the poller that has been joined.
StopJoinKeepsOpen(c) ==
  LET i == idx[c] IN
  /\ At(c, "stop_join") /\ i < numDevices /\ i < slots /\ ppc[i] = "dead"
  /\ handle[i] # "stale"
  /\ nopts' = [nopts EXCEPT ![i] = 0]
  /\ ppc' = [ppc EXCEPT ![i] = "none"]
  /\ triggered' = [triggered EXCEPT ![i] = FALSE]
  /\ option' = [option EXCEPT ![i] = -1]
  /\ cancelReq' = [cancelReq EXCEPT ![i] = FALSE]
  /\ idx' = [idx EXCEPT ![c] = i + 1]
  /\ UNCHANGED <<saneVars, listVars, cpc, ret, arg, devOwner, cvWaiters, si,
                 handle, cancelable, runVars, ub>>

\* pthread_join returns; the handle is closed and the slot's lists are freed.
StopJoin(c) ==
  LET i == idx[c] IN
  /\ At(c, "stop_join") /\ i < numDevices /\ i < slots /\ ppc[i] = "dead"
  /\ handle[i] # "stale"
  /\ handle' = [handle EXCEPT ![i] = "closed"]
  /\ nopts' = [nopts EXCEPT ![i] = 0]
  /\ ppc' = [ppc EXCEPT ![i] = "none"]
  /\ triggered' = [triggered EXCEPT ![i] = FALSE]
  /\ option' = [option EXCEPT ![i] = -1]
  /\ cancelReq' = [cancelReq EXCEPT ![i] = FALSE]
  /\ idx' = [idx EXCEPT ![c] = i + 1]
  /\ UNCHANGED <<saneVars, listVars, cpc, ret, arg, devOwner, cvWaiters, si,
                 cancelable, runVars, ub>>

StopFree(c) ==
  /\ At(c, "stop_join") /\ idx[c] >= numDevices
  /\ \A i \in Slot : ~Alive(i)
  /\ slots' = 0
  /\ ppc' = [i \in Slot |-> "none"]
  /\ saneWaiters' = {}
  /\ UnlockSane
  /\ StopReturn(c)
  /\ UNCHANGED <<numDevices, saneUp, arg, devVars, si, nopts, handle,
                 cancelVars, runVars, ub>>

\* With more devices than threads the loop runs past the array; with fewer, a
\* poller is neither cancelled nor joined and lives on in a freed slot.
StopBadSlot(c) ==
  /\ \/ At(c, "stop_dev") /\ idx[c] < numDevices /\ idx[c] >= slots
     \/ At(c, "stop_join") /\ idx[c] >= numDevices /\ \E i \in Slot : Alive(i)
  /\ Undefined("slot")

\* A handle that sane_exit has closed is closed again.
StopBadHandle(c) ==
  /\ At(c, "stop_join") /\ idx[c] < numDevices /\ idx[c] < slots
  /\ ppc[idx[c]] = "dead" /\ handle[idx[c]] = "stale"
  /\ Undefined("handle")

-----------------------------------------------------------------------------
(* start_sane_threads                                                      *)

StartCall(c) ==
  /\ At(c, "idle") /\ "start" \in Ops[c]
  /\ Goto(c, "start_lock")
  /\ UNCHANGED <<saneVars, ret, idx, arg, devVars>> /\ CtlFrame

\* Mutant: running pollers are not stopped before the new array is made.
StartLockOver(c) ==
  /\ At(c, "start_lock") /\ SaneFree(c)
  /\ LockSane(c)
  /\ Goto(c, "start_alloc")
  /\ UNCHANGED <<saneWaiters, ret, idx, arg, devVars>> /\ CtlFrame

StartLock(c) ==
  /\ At(c, "start_lock") /\ SaneFree(c)
  /\ LockSane(c)
  /\ IF slots # 0
     THEN ret' = [ret EXCEPT ![c] = "start_alloc"] /\ Goto(c, "stop_lock")
     ELSE UNCHANGED ret /\ Goto(c, "start_alloc")
  /\ UNCHANGED <<saneWaiters, idx, arg, devVars>> /\ CtlFrame

StartNoDevices(c) ==
  /\ At(c, "start_alloc") /\ numDevices = 0
  /\ UnlockSane
  /\ Goto(c, "idle")
  /\ UNCHANGED <<saneWaiters, ret, idx, arg, devVars>> /\ CtlFrame

StartAlloc(c) ==
  LET fresh(f, v) == [i \in Slot |-> IF i < numDevices THEN v ELSE f[i]] IN
  /\ At(c, "start_alloc") /\ numDevices # 0
  /\ slots' = numDevices
  /\ ppc' = fresh(ppc, "lock")
  /\ si' = fresh(si, 0)
  /\ nopts' = fresh(nopts, 0)
  /\ handle' = fresh(handle, "closed")
  /\ cancelable' = fresh(cancelable, FALSE)
  /\ cancelReq' = fresh(cancelReq, FALSE)
  /\ triggered' = fresh(triggered, FALSE)
  /\ option' = fresh(option, -1)
  /\ devOwner' = fresh(devOwner, None)
  /\ saneWaiters' = {}
  /\ UnlockSane
  /\ Goto(c, "idle")
  /\ UNCHANGED <<numDevices, saneUp, ret, idx, arg, cvWaiters, runVars, ub>>

-----------------------------------------------------------------------------
(* sig_hup_handler between stop and start, and get_sane_devices            *)

SaneExit(c) ==
  /\ At(c, "sane_exit")
  /\ saneUp' = FALSE
  /\ handle' = [i \in Slot |-> IF handle[i] = "open" THEN "stale" ELSE handle[i]]
  /\ Goto(c, "sane_init")
  /\ UNCHANGED <<saneVars, numDevices, slots, ret, idx, arg, devVars, ppc, si,
                 nopts, cancelVars, runVars, ub>>

SaneInit(c) ==
  /\ At(c, "sane_init")
  /\ saneUp' = TRUE
  /\ Goto(c, "rescan")
  /\ UNCHANGED <<saneVars, numDevices, slots, ret, idx, arg, devVars, pollVars,
                 runVars, ub>>

GetSaneDevices(c) ==
  /\ At(c, "rescan") /\ SaneFree(c) /\ saneUp
  /\ \/ numDevices' \in Counts /\ saneWaiters' = {}
     \/ numDevices' = 0 /\ 0 \in Counts /\ UNCHANGED saneWaiters
  /\ Goto(c, "start_lock")
  /\ UNCHANGED <<saneOwner, saneDepth, slots, saneUp, ret, idx, arg, devVars,
                 pollVars, runVars, ub>>

\* Another thread rescans between sane_exit and sane_init.
RescanWhileDown(c) ==
  /\ At(c, "rescan") /\ SaneFree(c) /\ ~saneUp
  /\ Undefined("sane_down")

-----------------------------------------------------------------------------
(* sane_trigger_action                                                     *)

TrigCall(c) ==
  /\ At(c, "idle") /\ "trigger" \in Ops[c]
  /\ \E d \in 0..MaxDevices, a \in 0..MaxActions :
       arg' = [arg EXCEPT ![c] = [dev |-> d, action |-> a]]
  /\ Goto(c, "trig_lock")
  /\ UNCHANGED <<saneVars, ret, idx, devVars>> /\ CtlFrame

TrigNoDevice(c) ==
  /\ At(c, "trig_lock") /\ SaneFree(c) /\ arg[c].dev >= numDevices
  /\ TrigReturn(c)
  /\ UNCHANGED <<saneVars, ret, idx, devVars>> /\ CtlFrame

TrigLock(c) ==
  /\ At(c, "trig_lock") /\ SaneFree(c) /\ arg[c].dev < numDevices
  /\ LockSane(c)
  /\ Goto(c, "trig_threads")
  /\ UNCHANGED <<saneWaiters, ret, idx, arg, devVars>> /\ CtlFrame

\* No polling at the moment: pthread_cond_wait releases sane_mutex.
TrigAwaitThreads(c) ==
  /\ At(c, "trig_threads") /\ slots = 0
  /\ UnlockSane
  /\ saneWaiters' = saneWaiters \cup {c}
  /\ Goto(c, "trig_swait")
  /\ UNCHANGED <<ret, idx, arg, devVars>> /\ CtlFrame

TrigThreadsWake(c) ==
  /\ At(c, "trig_swait") /\ c \notin saneWaiters /\ SaneFree(c)
  /\ LockSane(c)
  /\ Goto(c, "trig_threads")
  /\ UNCHANGED <<saneWaiters, ret, idx, arg, devVars>> /\ CtlFrame

TrigLockDev(c) ==
  LET d == arg[c].dev IN
  /\ At(c, "trig_threads") /\ slots # 0 /\ d < slots
  /\ devOwner[d] = None
  /\ SetDev(d, c)
  /\ Goto(c, "trig_test")
  /\ UNCHANGED <<saneVars, ret, idx, arg, actVars>> /\ CtlFrame

\* The device number is not compared with num_devices again after the wait.
TrigBadSlot(c) ==
  /\ At(c, "trig_threads") /\ slots # 0 /\ arg[c].dev >= slots
  /\ Undefined("slot")

TrigNoAction(c) ==
  LET d == arg[c].dev IN
  /\ At(c, "trig_test") /\ arg[c].action >= nopts[d]
  /\ SetDev(d, None)
  /\ UnlockSane
  /\ TrigReturn(c)
  /\ UNCHANGED <<saneWaiters, ret, idx, actVars>> /\ CtlFrame

\* Mutant: off by one in the test of the action number.
TrigCheckedLoose(c) ==
  \/ At(c, "trig_retest")
  \/ At(c, "trig_test") /\ arg[c].action <= nopts[arg[c].dev]

\* The test of the action number is behind this thread.
TrigChecked(c) ==
  \/ At(c, "trig_retest")
  \/ At(c, "trig_test") /\ arg[c].action < nopts[arg[c].dev]

\* Unlike the wait for threads, this wait keeps sane_mutex.
TrigWait(c) ==
  LET d == arg[c].dev IN
  /\ TrigChecked(c) /\ triggered[d]
  /\ SetDev(d, None)
  /\ cvWaiters' = [cvWaiters EXCEPT ![d] = @ \cup {c}]
  /\ Goto(c, "trig_wait")
  /\ UNCHANGED <<saneVars, ret, idx, arg, triggered, option>> /\ CtlFrame

TrigWake(c) ==
  LET d == arg[c].dev IN
  /\ At(c, "trig_wait") /\ c \notin cvWaiters[d] /\ devOwner[d] = None
  /\ SetDev(d, c)
  /\ Goto(c, "trig_retest")
  /\ UNCHANGED <<saneVars, ret, idx, arg, actVars>> /\ CtlFrame

TrigSet(c) ==
  LET d == arg[c].dev IN
  /\ TrigChecked(c) /\ ~triggered[d]
  /\ triggered' = [triggered EXCEPT ![d] = TRUE]
  /\ option' = [option EXCEPT ![d] = arg[c].action]
  /\ cvWaiters' = [cvWaiters EXCEPT ![d] = {}]
  /\ SetDev(d, None)
  /\ UnlockSane
  /\ TrigReturn(c)
  /\ UNCHANGED <<saneWaiters, ret, idx>> /\ CtlFrame

-----------------------------------------------------------------------------
(* sane_poll, the poller thread of slot i                                  *)

PollerAt(i, pc) == ppc[i] = pc /\ ub = "none"
GotoP(i, pc) == ppc' = [ppc EXCEPT ![i] = pc]

\* pthread_exit and cancellation run the cleanup handler, which unlocks
\* st->mutex whether this thread holds it or not.
Exit(i) == /\ GotoP(i, "dead")
           /\ SetDev(i, None)
           /\ si' = [si EXCEPT ![i] = 0]
           /\ cancelable' = [cancelable EXCEPT ![i] = FALSE]

PollLock(i) ==
  /\ PollerAt(i, "lock") /\ devOwner[i] = None
  /\ SetDev(i, Poller)
  /\ GotoP(i, "open")
  /\ UNCHANGED <<actVars, si, nopts, handle, cancelVars, runVars>> /\ PollFrame

\* The first open, and the matching of options and actions.
PollOpen(i) ==
  /\ PollerAt(i, "open") /\ saneUp
  /\ \/ /\ handle' = [handle EXCEPT ![i] = "open"]
        /\ \E n \in 0..MaxActions : nopts' = [nopts EXCEPT ![i] = n]
        /\ GotoP(i, "head")
        /\ UNCHANGED <<devOwner, si, cancelable>>
     \/ /\ handle' = [handle EXCEPT ![i] = "open"]   \* no options at all
        /\ Exit(i)
        /\ UNCHANGED nopts
     \/ /\ OpenErrors # {}
        /\ Exit(i)
        /\ UNCHANGED <<nopts, handle>>
  /\ UNCHANGED <<actVars, cancelReq, runVars>> /\ PollFrame

\* The only place where cancellation is expected: pthread_testcancel.
PollHead(i) ==
  /\ PollerAt(i, "head")
  /\ \/ /\ cancelReq[i]
        /\ Exit(i)
     \/ /\ ~cancelReq[i]
        /\ cancelable' = [cancelable EXCEPT ![i] = FALSE]
        /\ si' = [si EXCEPT ![i] = 0]
        /\ GotoP(i, "option")
        /\ UNCHANGED devOwner
  /\ UNCHANGED <<actVars, nopts, handle, cancelReq, runVars>> /\ PollFrame

\* Read option si, compare it with its last value, and fire if an action is
\* triggered: by this change, or by sane_trigger_action before.
PollOption(i) ==
  /\ PollerAt(i, "option") /\ si[i] < nopts[i] /\ handle[i] = "open"
  /\ \/ /\ triggered' = [triggered EXCEPT ![i] = TRUE]     \* the value changed
        /\ option' = [option EXCEPT ![i] = si[i]]
        /\ cvWaiters' = [cvWaiters EXCEPT ![i] = {}]
     \/ UNCHANGED <<triggered, option, cvWaiters>>
  /\ \/ triggered'[i] /\ GotoP(i, "fire") /\ UNCHANGED si
     \/ ~triggered'[i] /\ si' = [si EXCEPT ![i] = @ + 1] /\ UNCHANGED ppc
  /\ cancelable' = [cancelable EXCEPT ![i] = TRUE]
  /\ UNCHANGED <<devOwner, nopts, handle, cancelReq, runVars>> /\ PollFrame

\* Mutant: the device is not closed for the script.
PollFireKeepsOpen(i) ==
  /\ PollerAt(i, "fire") /\ handle[i] = "open"
  /\ SetDev(i, None)
  /\ GotoP(i, "prep") \/ GotoP(i, "finish")
  /\ UNCHANGED <<actVars, si, nopts, handle, cancelVars, runVars>> /\ PollFrame

\* Signals are sent, the device is closed for the script and the mutex
\* unlocked; the script "(null)" is not run.
PollFire(i) ==
  /\ PollerAt(i, "fire") /\ handle[i] = "open"
  /\ handle' = [handle EXCEPT ![i] = "closed"]
  /\ SetDev(i, None)
  /\ GotoP(i, "prep") \/ GotoP(i, "finish")
  /\ UNCHANGED <<actVars, si, nopts, cancelVars, runVars>> /\ PollFrame

PollFork(i) ==
  /\ PollerAt(i, "prep")
  /\ \/ script' = [script EXCEPT ![i] = TRUE] /\ GotoP(i, "script")
     \/ UNCHANGED script /\ GotoP(i, "finish")   \* fork failed
  /\ UNCHANGED <<devVars, si, nopts, handle, cancelVars, orphan>> /\ PollFrame

PollWaitpid(i) ==
  /\ PollerAt(i, "script") /\ ~script[i]
  /\ GotoP(i, "finish")
  /\ UNCHANGED <<devVars, si, nopts, handle, cancelVars, runVars>> /\ PollFrame

\* Mutant: nobody is woken when the action is over.
PollFinishSilent(i) ==
  /\ PollerAt(i, "finish") /\ devOwner[i] = None
  /\ triggered' = [triggered EXCEPT ![i] = FALSE]
  /\ option' = [option EXCEPT ![i] = -1]
  /\ GotoP(i, "settle")
  /\ UNCHANGED <<devOwner, cvWaiters, si, nopts, handle, cancelVars, runVars>>
  /\ PollFrame

\* Mutant: the action stays triggered when it is over.
PollFinishUnreset(i) ==
  /\ PollerAt(i, "finish") /\ devOwner[i] = None
  /\ cvWaiters' = [cvWaiters EXCEPT ![i] = {}]
  /\ GotoP(i, "settle")
  /\ UNCHANGED <<devOwner, triggered, option, si, nopts, handle, cancelVars,
                 runVars>>
  /\ PollFrame

PollFinish(i) ==
  /\ PollerAt(i, "finish") /\ devOwner[i] = None
  /\ triggered' = [triggered EXCEPT ![i] = FALSE]
  /\ option' = [option EXCEPT ![i] = -1]
  /\ cvWaiters' = [cvWaiters EXCEPT ![i] = {}]
  /\ GotoP(i, "settle")
  /\ UNCHANGED <<devOwner, si, nopts, handle, cancelVars, runVars>> /\ PollFrame

PollSettle(i) ==
  /\ PollerAt(i, "settle") /\ devOwner[i] = None
  /\ SetDev(i, Poller)
  /\ GotoP(i, "reopen")
  /\ UNCHANGED <<actVars, si, nopts, handle, cancelVars, runVars>> /\ PollFrame

\* Only SANE_STATUS_ACCESS_DENIED ends the thread; after any other failure it
\* goes on with the handle NULL.
PollReopen(i) ==
  /\ PollerAt(i, "reopen") /\ saneUp
  /\ \/ /\ handle' = [handle EXCEPT ![i] = "open"]
        /\ GotoP(i, "option")
        /\ si' = [si EXCEPT ![i] = @ + 1]
        /\ UNCHANGED <<devOwner, cancelable>>
     \/ /\ "denied" \in OpenErrors
        /\ Exit(i)
        /\ UNCHANGED handle
     \/ /\ "busy" \in OpenErrors
        /\ GotoP(i, "option")
        /\ si' = [si EXCEPT ![i] = @ + 1]
        /\ UNCHANGED <<devOwner, handle, cancelable>>
  /\ UNCHANGED <<actVars, nopts, cancelReq, runVars>> /\ PollFrame

\* sane_get_option_descriptor or sane_close on a handle that is NULL after a
\* failed reopen, or that sane_exit has closed.
PollBadHandle(i) ==
  /\ \/ PollerAt(i, "option") /\ si[i] < nopts[i]
     \/ PollerAt(i, "fire")
  /\ handle[i] # "open"
  /\ Undefined("handle")

\* sane_open between sane_exit and sane_init.
PollWhileDown(i) ==
  /\ PollerAt(i, "open") \/ PollerAt(i, "reopen")
  /\ ~saneUp
  /\ Undefined("sane_down")

PollPause(i) ==
  /\ PollerAt(i, "option") /\ si[i] >= nopts[i]
  /\ SetDev(i, None)
  /\ GotoP(i, "sleep")
  /\ UNCHANGED <<actVars, si, nopts, handle, cancelVars, runVars>> /\ PollFrame

PollResume(i) ==
  /\ PollerAt(i, "sleep") /\ devOwner[i] = None
  /\ SetDev(i, Poller)
  /\ GotoP(i, "head")
  /\ UNCHANGED <<actVars, si, nopts, handle, cancelVars, runVars>> /\ PollFrame

\* From the first evaluated option on, cancellation stays enabled until the
\* next pthread_testcancel: device and D-Bus I/O, usleep and waitpid act on a
\* pending request.  A script being waited for is left behind.
PollCancelled(i) ==
  /\ ub = "none" /\ cancelReq[i] /\ cancelable[i]
  /\ \/ ppc[i] \in {"fire", "prep", "script", "finish", "settle", "reopen", "sleep"}
     \/ ppc[i] = "option" /\ si[i] < nopts[i]
  /\ Exit(i)
  /\ orphan' = [orphan EXCEPT ![i] = @ \/ script[i]]
  /\ script' = [script EXCEPT ![i] = FALSE]
  /\ UNCHANGED <<actVars, nopts, handle, cancelReq>> /\ PollFrame

\* The environment: scripts are processes of their own and end on their own.
ScriptEnds(i) ==
  /\ ub = "none"
  /\ \/ script[i] /\ script' = [script EXCEPT ![i] = FALSE] /\ UNCHANGED orphan
     \/ orphan[i] /\ orphan' = [orphan EXCEPT ![i] = FALSE] /\ UNCHANGED script
  /\ UNCHANGED <<devVars, pollVars>> /\ PollFrame

-----------------------------------------------------------------------------
StopStep(c) == \/ StopNothing(c) \/ StopLock(c) \/ StopLockDev(c) \/ StopWait(c)
               \/ StopWake(c) \/ StopUnlockDev(c) \/ StopCancel(c)
               \/ StopAllCancelled(c) \/ StopJoin(c) \/ StopFree(c)
               \/ StopBadSlot(c) \/ StopBadHandle(c)
StartStep(c) == StartLock(c) \/ StartNoDevices(c) \/ StartAlloc(c)
RescanStep(c) == SaneExit(c) \/ SaneInit(c) \/ GetSaneDevices(c) \/ RescanWhileDown(c)
TrigStep(c) == \/ TrigNoDevice(c) \/ TrigLock(c) \/ TrigAwaitThreads(c)
               \/ TrigThreadsWake(c) \/ TrigLockDev(c) \/ TrigNoAction(c)
               \/ TrigWait(c) \/ TrigWake(c) \/ TrigSet(c) \/ TrigBadSlot(c)
Call(c) == StopCall(c) \/ StartCall(c) \/ TrigCall(c)
CtlStep(c) == StopStep(c) \/ StartStep(c) \/ RescanStep(c) \/ TrigStep(c)

PollStep(i) == \/ PollLock(i) \/ PollOpen(i) \/ PollHead(i) \/ PollOption(i)
               \/ PollFire(i) \/ PollFork(i) \/ PollWaitpid(i) \/ PollFinish(i)
               \/ PollSettle(i) \/ PollReopen(i) \/ PollPause(i) \/ PollResume(i)
               \/ PollCancelled(i) \/ PollBadHandle(i) \/ PollWhileDown(i)

Next == \/ \E c \in Controller : Call(c) \/ CtlStep(c)
        \/ \E i \in Slot : PollStep(i) \/ ScriptEnds(i)

Spec == Init /\ [][Next]_vars

(***************************************************************************)
(* The scheduler runs every runnable thread, and scripts end.  Locking is  *)
(* strongly fair: a poller sleeps for the polling timeout outside its      *)
(* mutex in every round, and the kernel wakes a thread blocked on the      *)
(* mutex in that time.  A thread woken by the broadcast after a script     *)
(* gets the mutex at some time while the poller settles, before the next   *)
(* value change.  Nobody is obliged to call anything.                      *)
(***************************************************************************)
WakeInTime(c) == \/ StopWake(c) /\ ~triggered[idx[c]]
                 \/ TrigWake(c) /\ ~triggered[arg[c].dev]

Fairness ==
  /\ \A c \in Controller : SF_vars(CtlStep(c)) /\ SF_vars(WakeInTime(c))
  /\ \A i \in Slot : SF_vars(PollStep(i)) /\ WF_vars(ScriptEnds(i))

FairSpec == Spec /\ Fairness

-----------------------------------------------------------------------------
TypeOK ==
  /\ saneOwner \in Controller \cup {None}
  /\ saneDepth \in 0..2
  /\ saneWaiters \in SUBSET Controller
  /\ numDevices \in 0..MaxDevices
  /\ slots \in 0..MaxDevices
  /\ saneUp \in BOOLEAN
  /\ cpc \in [Controller -> CtlPc]
  /\ ret \in [Controller -> {"idle", "rescan", "sane_exit", "start_alloc"}]
  /\ idx \in [Controller -> 0..MaxDevices]
  /\ arg \in [Controller -> [dev : 0..MaxDevices, action : 0..MaxActions]]
  /\ devOwner \in [Slot -> Controller \cup {None, Poller}]
  /\ cvWaiters \in [Slot -> SUBSET Controller]
  /\ triggered \in [Slot -> BOOLEAN]
  /\ option \in [Slot -> Action \cup {-1}]
  /\ ppc \in [Slot -> PollPc]
  /\ si \in [Slot -> 0..MaxActions]
  /\ nopts \in [Slot -> 0..MaxActions]
  /\ handle \in [Slot -> {"closed", "open", "stale"}]
  /\ cancelable \in [Slot -> BOOLEAN]
  /\ cancelReq \in [Slot -> BOOLEAN]
  /\ script \in [Slot -> BOOLEAN]
  /\ orphan \in [Slot -> BOOLEAN]
  /\ ub \in {"none", "slot", "handle", "sane_down"}

-----------------------------------------------------------------------------
(* Safety                                                                  *)

\* The cleanup handler of a cancelled poller unlocks st->mutex blindly
\* (sane.c:257-265), mostly from a sleep in which the poller does not hold
\* it.  That is harmless only because no controller can hold the mutex of a
\* poller with a pending cancellation.
CleanupUnlockHarmless ==
  \A i \in Slot : Alive(i) /\ cancelReq[i] => devOwner[i] \notin Controller

\* The assertions before an action is run (sane.c:876-877): whoever
\* triggered it, the number of the triggered action is an index into the
\* poller's list of actions until the poller is done with it.
TriggeredOptionValid ==
  \A i \in Slot : triggered[i] => option[i] \in 0..(nopts[i] - 1)

\* "The action-script will use the device, so we have to release the device"
\* (sane.c:1022-1023): while a poller waits for its script, its own handle is
\* closed.
OwnScriptHasDevice == \A i \in Slot : script[i] => handle[i] = "closed"

\* The same for every running script, also one whose poller was cancelled.
ScriptHasDevice ==
  \A i \in Slot : script[i] \/ orphan[i] => handle[i] = "closed"

\* A controller asleep on a condition variable still waits for something:
\* no wakeup was lost between its test and its sleep, or in a broadcast that
\* came too early or not at all.
NoLostWakeup ==
  /\ saneWaiters # {} => slots = 0
  /\ \A i \in Slot : cvWaiters[i] # {} => triggered[i]

\* A thread asleep on st->cv can count on the poller of that slot: only the
\* poller, while it lives, resets st->triggered and broadcasts.
WaiterHasPoller == \A i \in Slot : cvWaiters[i] # {} => Alive(i)

\* "the number of devices = the number of polling threads" (sane.c:125).
DevicesMatchThreads == slots # 0 => slots = numDevices

\* No thread indexes the array of threads outside its bounds or uses a slot
\* that was freed, and sane_* is called only between sane_init and sane_exit.
NoStaleSlot == ub \notin {"slot", "sane_down"}

\* assert(odesc) (sane.c:776): a poller reads its options through a handle
\* that is open.
PolledHandleOpen == ub # "handle"

-----------------------------------------------------------------------------
(* Action and liveness properties                                          *)

\* An action requested through sane_trigger_action is not replaced by
\* another one before it has run: sane_trigger_action waits for the current
\* action, and nothing else may overwrite triggered_option.
TriggerNotOverwritten ==
  [][\A i \in Slot : triggered[i] /\ triggered'[i] => option'[i] = option[i]]_vars

\* stop_sane_threads leaves no poller behind: when the array goes, every
\* poller has been joined and every handle closed.
StopJoinsAll ==
  [][slots # 0 /\ slots' = 0 =>
       \A i \in Slot : ppc'[i] = "none" /\ handle'[i] = "closed"]_vars

\* "stops all sane polling threads" (sane.c:1330): a call of
\* stop_sane_threads returns, unless a hotplug event got between and the
\* program is already beyond the C standard.
StopReturns ==
  \A c \in Controller : cpc[c] \in StopPcs ~> cpc[c] \notin StopPcs \/ ub # "none"

\* A triggered action is taken care of: it is run, or dropped by a stop.
TriggerServed == \A i \in Slot : triggered[i] ~> ~triggered[i] \/ ub # "none"

-----------------------------------------------------------------------------
(***************************************************************************)
(* The inductive invariant.  TypeOK is not inductive (the recursion depth, *)
(* the loop indices), nor is any of the safety invariants: each rests on   *)
(* who holds which mutex at which place of the code.                       *)
(***************************************************************************)
InnerStopPcs == StopPcs \ {"stop_lock"}
SanePcs == InnerStopPcs \cup {"start_alloc"} \cup
           (TrigPcs \ {"trig_lock", "trig_swait"})

\* The controllers that are inside sane_mutex.
HoldsSane(c) == \/ cpc[c] \in SanePcs
                \/ cpc[c] = "stop_lock" /\ ret[c] = "start_alloc"

Depth(c) == IF cpc[c] \in InnerStopPcs /\ ret[c] = "start_alloc" THEN 2 ELSE 1

SaneDiscipline ==
  /\ \A c \in Controller : HoldsSane(c) <=> saneOwner = c
  /\ saneOwner = None => saneDepth = 0
  /\ \A c \in Controller : saneOwner = c => saneDepth = Depth(c)
  /\ \A c \in Controller : cpc[c] \notin StopPcs => ret[c] = "idle"

\* What a controller found out under sane_mutex stays true while it holds it.
SaneFacts ==
  \A c \in Controller :
    /\ cpc[c] \in InnerStopPcs => slots # 0
    /\ cpc[c] = "stop_lock" /\ ret[c] = "start_alloc" => slots # 0
    /\ cpc[c] = "start_alloc" => slots = 0
    /\ cpc[c] \in {"stop_test", "stop_wait", "stop_cancel"} => idx[c] < MaxDevices
    /\ cpc[c] \in {"trig_test", "trig_wait", "trig_retest"} => arg[c].dev < MaxDevices
    /\ cpc[c] \in {"trig_wait", "trig_retest"} => arg[c].action < nopts[arg[c].dev]

\* The controllers and pollers that are inside st->mutex of slot i.
HoldsDev(c, i) == \/ cpc[c] = "stop_test" /\ idx[c] = i
                  \/ cpc[c] \in {"trig_test", "trig_retest"} /\ arg[c].dev = i

DevDiscipline ==
  \A i \in Slot :
    /\ \A c \in Controller : HoldsDev(c, i) <=> devOwner[i] = c
    /\ ppc[i] \in {"open", "head", "option", "fire", "reopen"} <=> devOwner[i] = Poller

\* Who sleeps on st->cv is at one of the two waits.
SleeperAtWait ==
  \A i \in Slot : \A c \in cvWaiters[i] :
    \/ cpc[c] = "stop_wait" /\ idx[c] = i
    \/ cpc[c] = "trig_wait" /\ arg[c].dev = i

\* A pending cancellation belongs to a stop that has passed this slot.
CancelPending ==
  \A i \in Slot : Alive(i) /\ cancelReq[i] =>
    /\ saneOwner \in Controller
    /\ \/ cpc[saneOwner] \in InnerStopPcs /\ i < idx[saneOwner]
       \/ cpc[saneOwner] = "stop_join"

PollerFacts ==
  \A i \in Slot :
    /\ Alive(i) => i < slots
    /\ ppc[i] \in {"lock", "open"} => nopts[i] = 0
    /\ ppc[i] \in {"fire", "prep", "script", "finish", "settle", "reopen"}
         => si[i] < nopts[i]
    /\ ppc[i] \in {"prep", "script", "finish", "settle", "reopen"}
         => handle[i] = "closed"
    /\ script[i] => ppc[i] = "script"

IInv ==
  /\ TypeOK /\ SaneDiscipline /\ SaneFacts /\ DevDiscipline /\ SleeperAtWait
  /\ CancelPending /\ PollerFacts /\ TriggeredOptionValid /\ NoLostWakeup
=============================================================================
