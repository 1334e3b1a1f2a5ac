------------------------------- MODULE Daemon -------------------------------
(***************************************************************************)
(* scanbd and its managers (src/scanbd/scanbd.c, dbus.c, udev.c).  scanbd  *)
(* polls the scanner.  A manager (scanbm, started per network client) asks *)
(* it to stop, runs saned, and asks it to go on: over D-Bus or, in signal  *)
(* mode, with SIGUSR1 and SIGUSR2.  Hotplug events and SIGHUP rescan and   *)
(* restart, SIGTERM ends the daemon.                                       *)
(*                                                                         *)
(* Three threads of scanbd stop and start the polling: main in its signal  *)
(* handlers, the D-Bus thread and the udev thread.  What a thread has yet  *)
(* to do is a sequence of steps; a signal puts the steps of its handler    *)
(* before those of main.  The polling engine itself is module SanePolling; *)
(* here it is a gate, closed by stop_sane_threads when no action runs.     *)
(***************************************************************************)
EXTENDS Integers, Sequences, FiniteSets

CONSTANTS
  DbusManager,   \* the sessions of scanbm in D-Bus mode
  SignalManager, \* the sessions of scanbm in signal mode
  MaxEvents,     \* bound on hotplug events, SIGHUPs, SIGTERMs, actions of the
                 \* button and managers that die, all together
  None           \* nobody owns the mutex

Manager == DbusManager \cup SignalManager
Thread == {"main", "dbus", "udev"}
Signal == {"HUP", "USR1", "USR2", "TERM"}

ASSUME ManagerAssumption == DbusManager \cap SignalManager = {}
ASSUME BoundAssumption == MaxEvents \in Nat
ASSUME NoneAssumption == None \notin Thread

VARIABLES
  todo,         \* the steps each thread of scanbd has before it
  alive,        \* the threads besides main that were started and not joined
  owner,        \* owner of sane_mutex
  depth,        \* how often the owner has locked it
  polling,      \* sane_poll_threads is not NULL
  known,        \* num_devices: the scanner is in the device list
  action,       \* an action is triggered, its script has not ended
  pidfile,      \* "none", "empty" or "written"
  exited,       \* scanbd has called exit
  pending,      \* signals sent to scanbd and not delivered
  present,      \* the scanner is plugged in
  events,       \* events of the udev monitor not received
  calls,        \* method calls on the bus, the first one may be in service
  mpc,          \* where each manager is
  pid,          \* managers in signal mode that have read scanbd's pid
  undisturbed,  \* history: D-Bus sessions that had scanbd to themselves
  missed,       \* history: an event came before the udev monitor listened
  used          \* how much of MaxEvents is used up

gateVars == <<owner, depth, polling, action>>
procVars == <<alive, pidfile, exited>>
plugVars == <<present, events, missed>>
mgrVars  == <<mpc, pid, undisturbed>>
vars == <<todo, procVars, gateVars, known, pending, plugVars, calls, mgrVars, used>>

InSeq(x, s) == \E i \in DOMAIN s : s[i] = x

Startup == <<"create_pid", "write_pid", "rescan", "start", "dbus_start", "udev_start">>

StartOf(t) == IF t = "dbus" THEN "dbus_start" ELSE "udev_start"
JoinOf(t) == IF t = "dbus" THEN "dbus_join" ELSE "udev_join"

Happens == used < MaxEvents /\ used' = used + 1

Init ==
  /\ todo = [t \in Thread |-> IF t = "main" THEN Startup ELSE <<>>]
  /\ alive = {}
  /\ owner = None /\ depth = 0
  /\ polling = FALSE /\ action = FALSE
  /\ known = FALSE /\ present \in BOOLEAN
  /\ pidfile = "none" /\ exited = FALSE
  /\ pending = {} /\ events = 0 /\ calls = <<>>
  /\ mpc = [m \in Manager |-> "idle"]
  /\ pid = {} /\ undisturbed = {} /\ missed = FALSE
  /\ used = 0

-----------------------------------------------------------------------------
(* Steps of stop_sane_threads, start_sane_threads, get_sane_devices        *)

At(t, step) == ~exited /\ todo[t] # <<>> /\ Head(todo[t]) = step
Then(t, steps) == todo' = [todo EXCEPT ![t] = steps \o Tail(@)]

\* sane_mutex is recursive.
CanLock(t) == owner \in {None, t}
Lock(t) == CanLock(t) /\ owner' = t /\ depth' = depth + 1

\* Mutant: the inner of two unlocks gives the mutex away.
UnlockAll(t) == depth' = depth - 1 /\ owner' = None

Unlock(t) == /\ depth' = depth - 1
             /\ owner' = IF depth = 1 THEN None ELSE owner

GateFrame == UNCHANGED <<procVars, pending, plugVars, calls, mgrVars, used>>

\* Mutant: the early way out of stop_sane_threads forgets the mutex.
StopNothingLocked(t) ==
  /\ At(t, "stop") /\ ~polling
  /\ Lock(t)
  /\ Then(t, <<>>)
  /\ UNCHANGED <<polling, action, known>> /\ GateFrame

StopNothing(t) ==
  /\ At(t, "stop") /\ ~polling
  /\ CanLock(t)
  /\ Then(t, <<>>)
  /\ UNCHANGED <<gateVars, known>> /\ GateFrame

StopLock(t) ==
  /\ At(t, "stop") /\ polling
  /\ Lock(t)
  /\ Then(t, <<"stopping">>)
  /\ UNCHANGED <<polling, action, known>> /\ GateFrame

\* The pollers are joined and freed.  The wait for the action of a device
\* keeps sane_mutex.
StopJoin(t) ==
  /\ At(t, "stopping") /\ ~action
  /\ polling' = FALSE
  /\ Unlock(t)
  /\ Then(t, <<>>)
  /\ UNCHANGED <<action, known>> /\ GateFrame

StartIdle(t) ==
  /\ At(t, "start") /\ ~polling
  /\ CanLock(t)
  /\ polling' = known
  /\ Then(t, <<>>)
  /\ UNCHANGED <<owner, depth, action, known>> /\ GateFrame

\* start_sane_threads stops the threads that are active.
StartAgain(t) ==
  /\ At(t, "start") /\ polling
  /\ Lock(t)
  /\ Then(t, <<"stop", "starting">>)
  /\ UNCHANGED <<polling, action, known>> /\ GateFrame

Starting(t) ==
  /\ At(t, "starting")
  /\ polling' = known
  /\ Unlock(t)
  /\ Then(t, <<>>)
  /\ UNCHANGED <<action, known>> /\ GateFrame

Rescan(t) ==
  /\ At(t, "rescan")
  /\ CanLock(t)
  /\ known' = present
  /\ Then(t, <<>>)
  /\ UNCHANGED gateVars /\ GateFrame

\* The button, and the end of the script it started.
ActionStarts ==
  /\ ~exited /\ polling /\ ~action /\ Happens
  /\ action' = TRUE
  /\ UNCHANGED <<todo, procVars, owner, depth, polling, known, pending,
                 plugVars, calls, mgrVars>>

ActionEnds ==
  /\ action /\ action' = FALSE
  /\ UNCHANGED <<todo, procVars, owner, depth, polling, known, pending,
                 plugVars, calls, mgrVars, used>>

-----------------------------------------------------------------------------
(* main: start-up and the signal handlers                                  *)

\* The pid file is created, written later, and removed by SIGTERM.
CreatePid ==
  /\ At("main", "create_pid")
  /\ pidfile' = "empty" /\ Then("main", <<>>)
  /\ UNCHANGED <<alive, exited, gateVars, known, pending, plugVars, calls,
                 mgrVars, used>>

WritePid ==
  /\ At("main", "write_pid")
  /\ pidfile' = "written" /\ Then("main", <<>>)
  /\ UNCHANGED <<alive, exited, gateVars, known, pending, plugVars, calls,
                 mgrVars, used>>

StartThread(t) ==
  /\ At("main", StartOf(t))
  /\ alive' = alive \cup {t} /\ Then("main", <<>>)
  /\ UNCHANGED <<pidfile, exited, gateVars, known, pending, plugVars, calls,
                 mgrVars, used>>

\* sa_mask of each handler, and the signal itself.
SigMaskEmpty(s) == {s}

SigMask(s) == IF s = "TERM" THEN {s} ELSE {"HUP", "USR1", "USR2"}

Masked == UNION {SigMask(s) : s \in {r \in Signal : InSeq(r, todo["main"])}}
Number(s) == CASE s = "HUP" -> 1 [] s = "USR1" -> 10 [] s = "USR2" -> 12
               [] s = "TERM" -> 15

Handler(s) ==
  CASE s = "HUP"  -> <<"stop", "rescan", "start">>
    [] s = "USR1" -> <<"stop">>
    [] s = "USR2" -> <<"start">>
    [] s = "TERM" -> <<"stop", "dbus_join", "udev_join", "exit">>

\* The kernel delivers the lowest of the signals that are not masked, wherever
\* main is, also in a wait for a mutex or a condition.
Deliver(s) ==
  /\ ~exited /\ s \in pending \ Masked
  /\ \A r \in pending \ Masked : Number(s) <= Number(r)
  /\ pending' = pending \ {s}
  /\ todo' = [todo EXCEPT !["main"] = Handler(s) \o <<s>> \o @]
  /\ UNCHANGED <<procVars, gateVars, known, plugVars, calls, mgrVars, used>>

HandlerReturns(s) ==
  /\ At("main", s)
  /\ Then("main", <<>>)
  /\ UNCHANGED <<gateVars, known>> /\ GateFrame

\* A thread that is being cancelled ends where it waits: for work, or for the
\* end of an action.  Waiting for a mutex is no cancellation point.
AtCancellationPoint(t) == \/ todo[t] = <<>>
                          \/ At(t, "stopping") /\ action

JoinThread(t) ==
  /\ At("main", JoinOf(t))
  /\ t \in alive => AtCancellationPoint(t)
  /\ alive' = alive \ {t}
  /\ todo' = [todo EXCEPT ![t] = <<>>, !["main"] = Tail(@)]
  /\ UNCHANGED <<pidfile, exited, gateVars, known, pending, plugVars, calls,
                 mgrVars, used>>

Exit ==
  /\ At("main", "exit")
  /\ exited' = TRUE /\ pidfile' = "none" /\ alive' = {}
  /\ polling' = FALSE
  /\ UNCHANGED <<todo, owner, depth, action, known, pending, plugVars, calls,
                 mgrVars, used>>

-----------------------------------------------------------------------------
(* The D-Bus thread and the udev thread                                    *)

Ready(t) == /\ ~exited /\ t \in alive /\ todo[t] = <<>>
            /\ ~At("main", JoinOf(t))

\* The bus name is requested before the D-Bus thread starts.
Named == ~exited /\ ~InSeq("dbus_start", todo["main"])

Method(method) == IF method = "acquire" THEN <<"stop">> ELSE <<"start">>

\* Mutant: the reply goes out before the pollers are stopped.
DispatchRepliesFirst ==
  /\ Ready("dbus") /\ calls # <<>>
  /\ todo' = [todo EXCEPT !["dbus"] = <<"reply">> \o Method(Head(calls).method)]
  /\ UNCHANGED <<procVars, gateVars, known, pending, plugVars, calls, mgrVars, used>>

Dispatch ==
  /\ Ready("dbus") /\ calls # <<>>
  /\ todo' = [todo EXCEPT !["dbus"] = Method(Head(calls).method) \o <<"reply">>]
  /\ UNCHANGED <<procVars, gateVars, known, pending, plugVars, calls, mgrVars, used>>

Waits(method) == IF method = "acquire" THEN "acquiring" ELSE "releasing"
Goes(method) == IF method = "acquire" THEN "fork" ELSE "done"

\* message_func makes no reply, so libdbus answers that the method is unknown
\* when it has run: the caller only waits for an answer.
Reply ==
  /\ At("dbus", "reply")
  /\ Then("dbus", <<>>)
  /\ calls' = Tail(calls)
  /\ LET call == Head(calls) IN
       mpc' = IF mpc[call.from] = Waits(call.method)
              THEN [mpc EXCEPT ![call.from] = Goes(call.method)] ELSE mpc
  /\ UNCHANGED <<procVars, gateVars, known, pending, plugVars, pid,
                 undisturbed, used>>

\* Mutant: as the other build does for a removed device (dbus.c:500).
HotplugNoRestart == <<"stop", "rescan">>

\* Mutant: a hotplug event restarts the polling without looking for devices.
HotplugBlind == <<"stop", "start">>

\* dbus_signal_device_added and dbus_signal_device_removed.
Hotplug == <<"stop", "rescan", "start">>

ReceiveDevice ==
  /\ Ready("udev") /\ events > 0
  /\ events' = events - 1
  /\ todo' = [todo EXCEPT !["udev"] = Hotplug]
  /\ UNCHANGED <<procVars, gateVars, known, pending, present, missed,
                 calls, mgrVars, used>>

-----------------------------------------------------------------------------
(* The managers                                                            *)

Active(m) == mpc[m] \in {"acquiring", "fork", "saned", "releasing"}

\* Nothing is under way that stops or starts the polling.
Calm == /\ \A t \in Thread : todo[t] = <<>>
        /\ pending = {} /\ events = 0 /\ calls = <<>>
        /\ \A m \in Manager : ~Active(m)

MgrFrame == UNCHANGED <<todo, procVars, gateVars, known, plugVars>>

\* Without an owner of the name the bus answers at once.
Call(m, method) ==
  /\ IF Named THEN calls' = Append(calls, [from |-> m, method |-> method])
              ELSE UNCHANGED calls
  /\ mpc' = [mpc EXCEPT ![m] = IF Named THEN Waits(method) ELSE Goes(method)]

BeginDbus(m) ==
  /\ m \in DbusManager /\ mpc[m] = "idle"
  /\ Call(m, "acquire")
  /\ undisturbed' = IF Calm THEN {m} ELSE {}
  /\ UNCHANGED <<pending, pid, used>> /\ MgrFrame

\* The default timeout of a call, 25 s, passes only while a script is awaited
\* or when scanbd is about to end.
Timeout(m) ==
  /\ mpc[m] \in {"acquiring", "releasing"}
  /\ action \/ exited \/ InSeq("TERM", todo["main"])
  /\ mpc' = [mpc EXCEPT ![m] = IF @ = "acquiring" THEN "fork" ELSE "done"]
  /\ undisturbed' = undisturbed \ {m}
  /\ UNCHANGED <<pending, calls, pid, used>> /\ MgrFrame

\* Signal mode: SIGUSR1 to the pid in the pid file, then sleep(1).  From an
\* empty file the number is whatever the buffer holds: no process of ours.
BeginSignal(m) ==
  /\ m \in SignalManager /\ mpc[m] = "idle"
  /\ mpc' = [mpc EXCEPT ![m] = "fork"]
  /\ undisturbed' = {}
  /\ \/ /\ pidfile = "written"
        /\ pid' = pid \cup {m} /\ pending' = pending \cup {"USR1"}
     \/ /\ pidfile # "written"
        /\ UNCHANGED <<pid, pending>>
  /\ UNCHANGED <<calls, used>> /\ MgrFrame

Fork(m) ==
  /\ mpc[m] = "fork"
  /\ \/ mpc' = [mpc EXCEPT ![m] = "saned"] /\ UNCHANGED used
     \/ mpc' = [mpc EXCEPT ![m] = "lost"] /\ Happens   \* exit(EXIT_FAILURE)
  /\ UNCHANGED <<pending, calls, pid, undisturbed>> /\ MgrFrame

SanedEnds(m) ==
  /\ mpc[m] = "saned"
  /\ \/ /\ m \in DbusManager
        /\ Call(m, "release")
        /\ UNCHANGED pending
     \/ /\ m \in SignalManager
        /\ mpc' = [mpc EXCEPT ![m] = "done"]
        /\ pending' = pending \cup (IF m \in pid THEN {"USR2"} ELSE {})
        /\ UNCHANGED calls
  /\ UNCHANGED <<pid, undisturbed, used>> /\ MgrFrame

\* In manager mode the handler of SIGTERM and SIGINT just exits.
MgrTerminated(m) ==
  /\ Active(m) /\ Happens
  /\ mpc' = [mpc EXCEPT ![m] = "lost"]
  /\ UNCHANGED <<pending, calls, pid, undisturbed>> /\ MgrFrame

-----------------------------------------------------------------------------
(* The outside world                                                       *)

Plug ==
  /\ Happens
  /\ present' = ~present
  /\ \/ events' = events + 1 /\ UNCHANGED missed /\ ~InSeq("udev_start", todo["main"])
     \/ missed' = TRUE /\ UNCHANGED events /\ InSeq("udev_start", todo["main"])
  /\ undisturbed' = {}
  /\ UNCHANGED <<todo, procVars, gateVars, known, pending, calls, mpc, pid>>

\* Nobody asks scanbd to read its configuration again before it is up.
Kill(s) ==
  /\ ~exited /\ Happens
  /\ \/ s = "HUP" /\ ~InSeq("udev_start", todo["main"])
     \/ s = "TERM"
  /\ pending' = pending \cup {s}
  /\ undisturbed' = {}
  /\ UNCHANGED <<todo, procVars, gateVars, known, plugVars, calls, mpc, pid>>

-----------------------------------------------------------------------------
GateStep(t) == \/ StopNothing(t) \/ StopLock(t) \/ StopJoin(t) \/ StartIdle(t)
               \/ StartAgain(t) \/ Starting(t) \/ Rescan(t)
MainStep == \/ CreatePid \/ WritePid \/ Exit
            \/ \E t \in {"dbus", "udev"} : StartThread(t) \/ JoinThread(t)
            \/ \E s \in Signal : HandlerReturns(s)
MgrStep(m) == Fork(m) \/ SanedEnds(m) \/ Timeout(m)

System == \/ \E t \in Thread : GateStep(t)
          \/ MainStep \/ Dispatch \/ Reply \/ ReceiveDevice
          \/ \E s \in Signal : Deliver(s)
          \/ \E m \in Manager : MgrStep(m)
          \/ ActionEnds
Environment == \/ \E m \in Manager : BeginDbus(m) \/ BeginSignal(m) \/ MgrTerminated(m)
               \/ \E s \in Signal : Kill(s)
               \/ ActionStarts \/ Plug

Next == System \/ Environment

Spec == Init /\ [][Next]_vars

(***************************************************************************)
(* The scheduler runs what can run: threads, managers, the delivery of     *)
(* signals; scripts and saned end.  One formula for all of them is enough, *)
(* for every step uses up something: a step before a thread, a signal, a   *)
(* call, a session; no part of the system can run for ever and starve      *)
(* another.  Nobody is obliged to plug, press, kill or begin a session.    *)
(***************************************************************************)
Fairness == WF_vars(System)

FairSpec == Spec /\ Fairness

-----------------------------------------------------------------------------
Step == {"create_pid", "write_pid", "rescan", "start", "starting", "stop", "stopping",
         "dbus_start", "udev_start", "dbus_join", "udev_join", "exit", "reply"}
        \cup Signal

TypeOK ==
  /\ todo \in [Thread -> Seq(Step)]
  /\ alive \subseteq {"dbus", "udev"}
  /\ owner \in Thread \cup {None}
  /\ depth \in Nat /\ (owner = None <=> depth = 0)
  /\ used \in 0..MaxEvents
  /\ polling \in BOOLEAN /\ known \in BOOLEAN /\ action \in BOOLEAN
  /\ pidfile \in {"none", "empty", "written"} /\ exited \in BOOLEAN
  /\ pending \subseteq Signal
  /\ present \in BOOLEAN /\ events \in 0..MaxEvents /\ missed \in BOOLEAN
  /\ calls \in Seq([from : DbusManager, method : {"acquire", "release"}])
  /\ mpc \in [Manager -> {"idle", "acquiring", "fork", "saned", "releasing",
                          "done", "lost"}]
  /\ pid \subseteq SignalManager /\ undisturbed \subseteq DbusManager

Terminating == exited \/ "TERM" \in pending \/ InSeq("TERM", todo["main"])

\* scanbm starts saned when dbus_call_method has returned, whatever the
\* answer is (scanbd.c:444-449).  A session that had scanbd to itself and did
\* not run into the timeout then has the scanner: it is not polled.
SessionHasScanner ==
  \A m \in undisturbed : mpc[m] \in {"fork", "saned"} => ~polling

\* The handlers of HUP, USR1 and USR2 exclude one another by their masks
\* (scanbd.c:219, 241, 253: "prevent interleaving"), so that a stop and a
\* start never nest in one thread except where start_sane_threads stops:
\* sane_mutex would let them.  The masks do not keep the handlers out of the
\* stop of the start-up itself, nor out of the handler of TERM.
NoNestedStop ==
  \A t \in Thread :
    \/ t = "main" /\ (Terminating \/ InSeq("udev_start", todo["main"]))
    \/ Cardinality({i \in DOMAIN todo[t] : todo[t][i] = "stopping"}) <= 1

\* In the end the scanner is polled again whatever the sessions, signals and
\* events did, unless it is not there, scanbd was told to end, or a manager
\* never came to its release.
PollingResumes ==
  <>[](polling \/ ~known \/ Terminating \/ \E m \in Manager : mpc[m] = "lost")

\* scanbd ends up knowing whether the scanner is there, unless that changed
\* after it looked for the first time and before it listened for events.
ScannerNoticed == <>[](known = present \/ missed \/ Terminating)

\* Every signal handler, method and hotplug handler comes to its end: when the
\* world has become silent, the threads do.
HandlersReturn ==
  <>[](Terminating \/ \A t \in Thread : todo[t] = <<>>)

\* "SIGTERM and SIGINT terminates the process gracefully" (scanbd.c:261).
TermTerminates == InSeq("TERM", todo["main"]) ~> exited
=============================================================================
