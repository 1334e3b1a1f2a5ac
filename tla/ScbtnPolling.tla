---------------------------- MODULE ScbtnPolling ----------------------------
(***************************************************************************)
(* The life of the pollers in the build without SANE                       *)
(* (src/scanbd/scanbuttond_wrapper.c, its callers in scanbd.c and dbus.c,  *)
(* src/scanbuttond/backends/meta.c, src/scanbuttond/interface/libusbi.c):  *)
(* start and stop, opening and closing a scanner, giving a scanner up and  *)
(* the alarm that reloads the backends, hotplug, sessions of scanbm, and   *)
(* triggers.  What a poller does in one round is module ButtonRound.       *)
(*                                                                         *)
(* A handler is the sequence of its calls.  st->mutex is held for no       *)
(* longer than one action: who waits on st->cv gives it back.              *)
(***************************************************************************)
EXTENDS Integers, Sequences, FiniteSets

CONSTANTS
  MaxScanners, \* the scanners that can be plugged in
  MaxBackends, \* the backends of meta.conf, in the order of that file
  Driver,      \* the backend that knows each scanner
  MaxEvents    \* bound on plugs and unplugs, SIGHUPs, sessions, triggers and
               \* claims of other programs, all together

ASSUME BoundAssumption == MaxScanners \in Nat \ {0} /\ MaxEvents \in Nat

Scanner == 1..MaxScanners

ASSUME BackendAssumption ==
  MaxBackends \in Nat \ {0} /\ Driver \in [Scanner -> 1..MaxBackends]

Handling == {"main", "dbus", "udev"}   \* the threads that stop and start
Thread == Handling \cup {"trigger"}

VARIABLES
  hotplug,   \* built with --enable-udev
  plugged,   \* the scanners on the bus
  seen,      \* those of them that usb_find_devices has reported
  lost,      \* a scanner that it has reported has gone
  claim,     \* who has claimed the interface of each scanner
  loaded,    \* the backends are loaded: between scanbtnd_init and scbtn_shutdown
  next,      \* the backend that scanbtnd_init comes to next
  attached,  \* meta_scanners
  current,   \* the entries of meta_scanners whose device is still there
  isOpen,    \* the entries of meta_scanners with is_open
  devices,   \* scbtn_device_list, num_devices entries
  freed,     \* scbtn_device_list points to entries that were freed
  polling,   \* scbtn_poll_threads is not NULL
  slots,     \* the scanners of scbtn_poll_threads
  ppc,       \* where the poller of each scanner is
  ready,     \* num_of_options_with_scripts is not 0
  triggered, \* triggered in the slot of each scanner
  cancelled, \* pthread_cancel was called for its poller
  owner,     \* owner of scbtn_mutex
  idx,       \* loop variable of the stop that holds scbtn_mutex
  todo,      \* the calls each thread has before it
  tpc, tdev, \* the thread of a trigger, the number of its device
  alarm,     \* the timer of alarm() runs, or SIGALRM is pending
  events,    \* events of the udev monitor not received
  session,   \* where scanbm is
  ub,        \* the undefined behaviour the program met
  alone,     \* history: no two handlers have been under way at the same time
  missed,    \* history: the scanners whose change a look has consumed that told
             \* neither their backend nor anyone who would load it again
  used       \* how much of MaxEvents is used up

usbVars     == <<plugged, seen, lost, missed>>
backendVars == <<loaded, next, attached, current>>
listVars    == <<devices, freed>>
slotVars    == <<ready, triggered, cancelled>>
stopVars    == <<owner, idx>>
trigVars    == <<tpc, tdev>>
envVars     == <<hotplug, events, session, used, alone>>
vars == <<usbVars, claim, backendVars, isOpen, listVars, polling, slots, ppc, slotVars,
          stopVars, todo, trigVars, alarm, envVars, ub>>

Elements(s) == {s[i] : i \in DOMAIN s}
\* Each of them, and by its length each once; the order does not matter.
Listing(S) == CHOOSE q \in [1..Cardinality(S) -> S] : Elements(q) = S

\* Mutant: no get_scbtn_devices after the backends are loaded again.
ReloadUnlisted == <<"stop", "shutdown", "init", "start">>

\* Mutant: the reload leaves it at the list.
ReloadUnstarted == <<"stop", "shutdown", "init", "devices">>

\* sig_hup_handler and dbus_signal_device_added; dbus_signal_device_removed
\* has neither get_scbtn_devices nor start_scbtn_threads.
Reload == <<"stop", "shutdown", "init", "devices", "start">>
Removed == <<"stop", "shutdown", "init">>

\* main is about to wait for signals; the pollers have just been started.
Init ==
  /\ hotplug \in BOOLEAN
  /\ \E n \in 0..MaxScanners : plugged = 1..n
  /\ seen = plugged /\ lost = FALSE /\ missed = {}
  /\ claim = [s \in Scanner |-> "free"]
  /\ loaded = TRUE /\ next = 1 /\ attached = plugged /\ current = plugged /\ isOpen = {}
  /\ devices = Listing(plugged) /\ freed = FALSE
  /\ polling = TRUE /\ slots = devices
  /\ ppc = [s \in Scanner |-> IF s \in plugged THEN "opening" ELSE "none"]
  /\ ready = {} /\ triggered = {} /\ cancelled = {}
  /\ owner = "none" /\ idx = 1
  /\ todo = [t \in Handling |-> <<>>]
  /\ tpc = "idle" /\ tdev = 1
  /\ alarm = FALSE /\ events = <<>> /\ session = "none"
  /\ ub = "none" /\ used = 0 /\ alone = TRUE

Happens == used < MaxEvents /\ used' = used + 1

-----------------------------------------------------------------------------
(* libusbi.c and the open and close of a backend                           *)

\* usb_find_devices reports what has changed since it was called last.
Changed == lost \/ seen # plugged
Look == seen' = plugged /\ lost' = FALSE /\ UNCHANGED plugged

\* The scanners of which the backends do not have the present device.
Stale == (plugged \cup attached) \ current

\* scanbtnd_open of the meta backend and of the scanner's own.  The device of
\* an entry is freed when usb_find_devices has found that it has gone.
Refused(s) == Changed \/ s \in isOpen \/ (s \in current /\ claim[s] # "free")
Openable(s) == ~Refused(s) /\ s \in current
Dangling(s) == ~Refused(s) /\ s \notin current

\* scanbtnd_close: a device that has gone cannot be released, is_open stays.
Closes(s) == s \in isOpen /\ claim[s] = "scanbd"
Close(s) ==
  /\ claim' = IF Closes(s) THEN [claim EXCEPT ![s] = "free"] ELSE claim
  /\ isOpen' = IF Closes(s) THEN isOpen \ {s} ELSE isOpen

-----------------------------------------------------------------------------
(* stop_scbtn_threads, start_scbtn_threads, get_scbtn_devices,             *)
(* scbtn_shutdown, scanbtnd_init                                           *)

At(t, call) == ub = "none" /\ todo[t] # <<>> /\ Head(todo[t]) = call
Then(t, calls) == todo' = [todo EXCEPT ![t] = calls \o Tail(@)]

\* scbtn_mutex is recursive; the stop inside a start does not give it away.
CanLock(t) == owner \in {"none", t}
Unlock(t) == owner' = IF Len(todo[t]) > 1 /\ todo[t][2] = "create" THEN t ELSE "none"

Undefined(what) == ub' = what /\ UNCHANGED
  <<usbVars, claim, backendVars, isOpen, listVars, polling, slots, ppc, slotVars, stopVars, todo,
    trigVars, alarm, envVars>>

StopNothing(t) ==
  /\ At(t, "stop") /\ ~polling /\ CanLock(t)
  /\ Then(t, <<>>)
  /\ UNCHANGED <<usbVars, claim, backendVars, isOpen, listVars, polling, slots, ppc, slotVars,
                 stopVars, trigVars, alarm, envVars, ub>>

StopLock(t) ==
  /\ At(t, "stop") /\ polling /\ CanLock(t)
  /\ owner' = t /\ idx' = 1
  /\ Then(t, <<"cancel">>)
  /\ UNCHANGED <<usbVars, claim, backendVars, isOpen, listVars, polling, slots, ppc, slotVars,
                 trigVars, alarm, envVars, ub>>

\* The wait on st->cv keeps scbtn_mutex.
StopCancel(t) ==
  /\ At(t, "cancel") /\ idx <= Len(slots) /\ slots[idx] \notin triggered
  /\ cancelled' = cancelled \cup {slots[idx]}
  /\ idx' = idx + 1
  /\ UNCHANGED <<usbVars, claim, backendVars, isOpen, listVars, polling, slots, ppc, ready,
                 triggered, owner, todo, trigVars, alarm, envVars, ub>>

\* Mutant: the loop that joins goes on where the one that cancels has ended.
StopAllCancelledOn(t) ==
  /\ At(t, "cancel") /\ idx > Len(slots)
  /\ Then(t, <<"join">>)
  /\ UNCHANGED <<usbVars, claim, backendVars, isOpen, listVars, polling, slots, ppc, slotVars,
                 stopVars, trigVars, alarm, envVars, ub>>

StopAllCancelled(t) ==
  /\ At(t, "cancel") /\ idx > Len(slots)
  /\ idx' = 1
  /\ Then(t, <<"join">>)
  /\ UNCHANGED <<usbVars, claim, backendVars, isOpen, listVars, polling, slots, ppc, slotVars,
                 owner, trigVars, alarm, envVars, ub>>

\* Mutant: the number of matched actions is not reset.
JoinedReady(s) == /\ ppc' = [ppc EXCEPT ![s] = "none"]
                  /\ triggered' = triggered \ {s}
                  /\ cancelled' = cancelled \ {s}
                  /\ UNCHANGED ready

Joined(s) == /\ ppc' = [ppc EXCEPT ![s] = "none"]
             /\ ready' = ready \ {s}
             /\ triggered' = triggered \ {s}
             /\ cancelled' = cancelled \ {s}

\* Mutant: the stop does not close the scanner of a poller it has joined.
StopJoinOpen(t) ==
  /\ At(t, "join") /\ idx <= Len(slots) /\ ppc[slots[idx]] = "gone"
  /\ Joined(slots[idx])
  /\ idx' = idx + 1
  /\ UNCHANGED <<usbVars, claim, isOpen, backendVars, listVars, polling, slots, owner, todo,
                 trigVars, alarm, envVars, ub>>

StopJoin(t) ==
  /\ At(t, "join") /\ idx <= Len(slots) /\ ppc[slots[idx]] = "gone"
  /\ Joined(slots[idx])
  /\ Close(slots[idx])
  /\ idx' = idx + 1
  /\ UNCHANGED <<usbVars, backendVars, listVars, polling, slots, owner, todo, trigVars, alarm,
                 envVars, ub>>

\* Mutant: the last unlock of the stop is forgotten.
StopFreeLocked(t) ==
  /\ At(t, "join") /\ idx > Len(slots)
  /\ polling' = FALSE /\ slots' = <<>>
  /\ idx' = 1
  /\ Then(t, <<>>)
  /\ UNCHANGED <<usbVars, claim, backendVars, isOpen, listVars, ppc, slotVars, owner, trigVars,
                 alarm, envVars, ub>>

StopFree(t) ==
  /\ At(t, "join") /\ idx > Len(slots)
  /\ polling' = FALSE /\ slots' = <<>>
  /\ idx' = 1
  /\ Unlock(t)
  /\ Then(t, <<>>)
  /\ UNCHANGED <<usbVars, claim, backendVars, isOpen, listVars, ppc, slotVars, trigVars, alarm,
                 envVars, ub>>

\* The lists are freed and the libraries are closed, whoever uses them.
Shutdown(t) ==
  /\ At(t, "shutdown")
  /\ \/ ~loaded /\ Undefined("unloaded")
     \/ loaded /\ slots # <<>> /\ Undefined("torn")
     \/ /\ loaded /\ slots = <<>>
        /\ loaded' = FALSE /\ attached' = {} /\ current' = {} /\ isOpen' = {}
        /\ freed' = (devices # <<>>)
        /\ Then(t, <<>>)
        /\ UNCHANGED <<usbVars, next, claim, devices, polling, slots, ppc, slotVars, stopVars,
                       trigVars, alarm, envVars, ub>>

\* A hook script runs before the backends come back.  Each of them looks at the
\* bus for itself when it is loaded, and so does the meta backend before the
\* first; what has changed since the last look is reported to the next alone.
InitBackends(t) ==
  /\ At(t, "init")
  /\ LET found == {s \in plugged : Driver[s] = next} IN
     attached' = attached \cup found /\ current' = current \cup found
  /\ Look /\ missed' = {s \in Stale : Driver[s] < next}
  /\ IF next < MaxBackends THEN next' = next + 1 /\ UNCHANGED <<loaded, todo>>
                           ELSE next' = 1 /\ loaded' = TRUE /\ Then(t, <<>>)
  /\ UNCHANGED <<claim, isOpen, listVars, polling, slots, ppc, slotVars, stopVars, trigVars, alarm,
                 envVars, ub>>

\* Pollers of another list are running: every stop from here on runs over the
\* end of their array, or frees it under the pollers it leaves behind.
GetDevices(t) ==
  /\ At(t, "devices") /\ CanLock(t)
  /\ \/ ~loaded /\ Undefined("unloaded")
     \/ loaded /\ polling /\ Len(slots) # Cardinality(attached) /\ Undefined("overrun")
     \/ /\ loaded /\ (polling => Len(slots) = Cardinality(attached))
        /\ devices' = Listing(attached) /\ freed' = FALSE
        /\ Then(t, <<>>)
        /\ UNCHANGED <<usbVars, claim, backendVars, isOpen, polling, slots, ppc, slotVars,
                       stopVars, trigVars, alarm, envVars, ub>>

StartAgain(t) ==
  /\ At(t, "start") /\ polling /\ CanLock(t)
  /\ owner' = t
  /\ Then(t, <<"stop", "create">>)
  /\ UNCHANGED <<usbVars, claim, backendVars, isOpen, listVars, polling, slots, ppc, slotVars,
                 idx, trigVars, alarm, envVars, ub>>

Start(t) ==
  /\ \/ At(t, "start") /\ ~polling /\ CanLock(t)
     \/ At(t, "create")
  /\ \/ freed /\ Undefined("freed")
     \/ /\ ~freed
        /\ polling' = TRUE /\ slots' = devices
        /\ ppc' = [s \in Scanner |-> IF s \in Elements(devices) THEN "opening" ELSE ppc[s]]
        /\ owner' = "none"
        /\ Then(t, <<>>)
        /\ UNCHANGED <<usbVars, claim, backendVars, isOpen, listVars, slotVars, idx, trigVars,
                       alarm, envVars, ub>>

-----------------------------------------------------------------------------
(* scbtn_poll                                                              *)

PollerFrame == UNCHANGED <<backendVars, listVars, polling, slots, stopVars, todo, trigVars,
                           envVars, ub>>

PollOpens(s) ==
  /\ ub = "none" /\ ppc[s] \in {"opening", "settling"} /\ Openable(s)
  /\ claim' = [claim EXCEPT ![s] = "scanbd"]
  /\ isOpen' = isOpen \cup {s}
  /\ ready' = ready \cup {s}
  /\ ppc' = [ppc EXCEPT ![s] = "polling"]
  /\ UNCHANGED <<usbVars, triggered, cancelled, alarm>> /\ PollerFrame

\* Mutant: the timer is only armed for a device that is busy.
PollGivesUpSilently(s) ==
  /\ ub = "none" /\ ppc[s] \in {"opening", "settling"} /\ Refused(s)
  /\ Look /\ UNCHANGED missed
  /\ alarm' = (alarm \/ ~Changed)
  /\ ppc' = [ppc EXCEPT ![s] = "gone"]
  /\ UNCHANGED <<claim, isOpen, slotVars>> /\ PollerFrame

\* The poller ends; what usb_find_devices has reported is not reported again.
PollGivesUp(s) ==
  /\ ub = "none" /\ ppc[s] \in {"opening", "settling"} /\ Refused(s)
  /\ Look /\ UNCHANGED missed
  /\ alarm' = TRUE
  /\ ppc' = [ppc EXCEPT ![s] = "gone"]
  /\ UNCHANGED <<claim, isOpen, slotVars>> /\ PollerFrame

\* The reopen can be cancelled, in the log messages before alarm() at the latest.
PollCancelledAsking(s) ==
  /\ ub = "none" /\ s \in cancelled /\ ppc[s] = "settling" /\ Refused(s)
  /\ Look /\ missed' = missed \cup Stale
  /\ ppc' = [ppc EXCEPT ![s] = "gone"]
  /\ UNCHANGED <<claim, isOpen, slotVars, alarm>> /\ PollerFrame

PollOpensFreed(s) ==
  /\ ub = "none" /\ ppc[s] \in {"opening", "settling"} /\ Dangling(s)
  /\ Undefined("device")

\* A button, or a trigger from outside: the scanner is closed for the script.
PollFires(s) ==
  /\ ub = "none" /\ ppc[s] = "polling"
  /\ s \in triggered \/ claim[s] = "scanbd"
  /\ triggered' = triggered \cup {s}
  /\ Close(s)
  /\ ppc' = [ppc EXCEPT ![s] = "script"]
  /\ UNCHANGED <<usbVars, ready, cancelled, alarm>> /\ PollerFrame

ScriptEnds(s) ==
  /\ ub = "none" /\ ppc[s] = "script" /\ s \notin cancelled
  /\ triggered' = triggered \ {s}
  /\ ppc' = [ppc EXCEPT ![s] = "settling"]
  /\ UNCHANGED <<usbVars, claim, isOpen, ready, cancelled, alarm>> /\ PollerFrame

\* pthread_testcancel in the loop, waitpid, and the sleeps.
PollCancelled(s) ==
  /\ ub = "none" /\ s \in cancelled /\ ppc[s] \in {"polling", "script", "settling"}
  /\ ppc' = [ppc EXCEPT ![s] = "gone"]
  /\ UNCHANGED <<usbVars, claim, isOpen, slotVars, alarm>> /\ PollerFrame

-----------------------------------------------------------------------------
(* scbtn_trigger_action, in a thread of its own                            *)

TrigFrame == UNCHANGED <<usbVars, claim, backendVars, isOpen, listVars, polling, slots, ppc,
                         ready, cancelled, idx, todo, alarm, hotplug, events, session, alone>>

TrigCall(i) ==
  /\ ub = "none" /\ tpc = "idle" /\ Happens
  /\ tpc' = "lock" /\ tdev' = i
  /\ UNCHANGED <<triggered, owner, ub>> /\ TrigFrame

\* The slot is looked at with scbtn_mutex held.
TrigSlot ==
  \/ tdev > Len(slots) /\ ub' = "slot" /\ UNCHANGED <<tpc, triggered, owner>>
  \/ /\ tdev <= Len(slots) /\ slots[tdev] \notin ready
     /\ tpc' = "idle" /\ UNCHANGED <<triggered, owner, ub>>
  \/ /\ tdev <= Len(slots) /\ slots[tdev] \in ready \ triggered
     /\ triggered' = triggered \cup {slots[tdev]}
     /\ tpc' = "idle" /\ UNCHANGED <<owner, ub>>
  \/ /\ tdev <= Len(slots) /\ slots[tdev] \in ready \cap triggered
     /\ tpc' = "slot" /\ owner' = "trigger" /\ UNCHANGED <<triggered, ub>>

TrigLock ==
  /\ ub = "none" /\ tpc = "lock" /\ owner = "none"
  /\ \/ /\ tdev > Len(devices)
        /\ tpc' = "idle" /\ UNCHANGED <<triggered, owner, ub>>
     \/ /\ tdev <= Len(devices) /\ ~polling
        /\ tpc' = "await" /\ UNCHANGED <<triggered, owner, ub>>
     \/ tdev <= Len(devices) /\ polling /\ TrigSlot
  /\ UNCHANGED <<tdev, used>> /\ TrigFrame

\* num_devices is not looked at again.
TrigAwake ==
  /\ ub = "none" /\ tpc = "await" /\ owner = "none" /\ polling
  /\ TrigSlot
  /\ UNCHANGED <<tdev, used>> /\ TrigFrame

TrigSet ==
  /\ ub = "none" /\ tpc = "slot" /\ slots[tdev] \notin triggered
  /\ triggered' = triggered \cup {slots[tdev]}
  /\ tpc' = "idle" /\ owner' = "none"
  /\ UNCHANGED <<tdev, used, ub>> /\ TrigFrame

-----------------------------------------------------------------------------
(* Signals, hotplug, sessions, and other programs at the scanners          *)

Frame == UNCHANGED <<usbVars, claim, backendVars, isOpen, listVars, polling, slots, ppc,
                     slotVars, stopVars, trigVars>>

Begins == alone' = (alone /\ \A t \in Handling : todo[t] = <<>>)

\* The handler of HUP and ALRM masks USR1 and USR2, and each of the two
\* itself, not the other.  One that interrupts main inside a stop tears down
\* what that stop works on.
Interrupts(signal) ==
  /\ ub = "none" /\ signal \notin Elements(todo["main"])
  /\ todo' = [todo EXCEPT !["main"] = Reload \o <<signal>> \o @]
  /\ ub' = IF owner = "main" THEN "nested" ELSE ub
  /\ Begins
  /\ UNCHANGED <<hotplug, events, session>> /\ Frame

AlarmRings == alarm /\ alarm' = FALSE /\ Interrupts("ALRM") /\ UNCHANGED used
Hup == Happens /\ Interrupts("HUP") /\ UNCHANGED alarm

HandlerReturns ==
  /\ At("main", "HUP") \/ At("main", "ALRM")
  /\ Then("main", <<>>)
  /\ UNCHANGED <<alarm, envVars, ub>> /\ Frame

\* udev_thread
ReceiveDevice ==
  /\ ub = "none" /\ events # <<>> /\ todo["udev"] = <<>>
  /\ todo' = [todo EXCEPT !["udev"] = IF Head(events) = "add" THEN Reload ELSE Removed]
  /\ events' = Tail(events)
  /\ Begins
  /\ UNCHANGED <<alarm, hotplug, session, used, ub>> /\ Frame

\* scanbm calls acquire, runs saned, and calls release.
Acquire ==
  /\ ub = "none" /\ session = "none" /\ todo["dbus"] = <<>> /\ Happens
  /\ session' = "acquire"
  /\ todo' = [todo EXCEPT !["dbus"] = <<"stop">>]
  /\ Begins
  /\ UNCHANGED <<alarm, hotplug, events, ub>> /\ Frame

SanedStarts ==
  /\ ub = "none" /\ session = "acquire" /\ todo["dbus"] = <<>>
  /\ session' = "saned"
  /\ UNCHANGED <<todo, alarm, hotplug, events, used, alone, ub>> /\ Frame

Release ==
  /\ ub = "none" /\ session = "saned"
  /\ session' = "none"
  /\ todo' = [todo EXCEPT !["dbus"] = <<"start">>]
  /\ Begins
  /\ UNCHANGED <<alarm, hotplug, events, used, ub>> /\ Frame

UsbFrame == UNCHANGED <<missed, loaded, next, attached, isOpen, listVars, polling, slots, ppc,
                        slotVars, stopVars, todo, trigVars, alarm, hotplug, session, alone, ub>>

Event(kind) == events' = IF hotplug THEN Append(events, kind) ELSE events

Plug(s) ==
  /\ ub = "none" /\ s \notin plugged /\ Happens
  /\ plugged' = plugged \cup {s}
  /\ Event("add")
  /\ UNCHANGED <<seen, lost, claim, current>> /\ UsbFrame

Unplug(s) ==
  /\ ub = "none" /\ s \in plugged /\ Happens
  /\ plugged' = plugged \ {s}
  /\ seen' = seen \ {s} /\ lost' = (lost \/ s \in seen)
  /\ current' = current \ {s}
  /\ claim' = [claim EXCEPT ![s] = "free"]
  /\ Event("remove")
  /\ UsbFrame

\* saned, cupsd, or the script of a poller that was cancelled.
OtherClaims(s) ==
  /\ ub = "none" /\ s \in plugged /\ claim[s] = "free"
  /\ IF session = "saned" THEN UNCHANGED used ELSE Happens
  /\ claim' = [claim EXCEPT ![s] = "other"]
  /\ UNCHANGED <<plugged, seen, lost, current, events>> /\ UsbFrame

OtherLeaves(s) ==
  /\ ub = "none" /\ claim[s] = "other"
  /\ claim' = [claim EXCEPT ![s] = "free"]
  /\ UNCHANGED <<plugged, seen, lost, current, events, used>> /\ UsbFrame

-----------------------------------------------------------------------------

Calls(t) ==
  \/ StopNothing(t) \/ StopLock(t) \/ StopCancel(t) \/ StopAllCancelled(t) \/ StopJoin(t)
  \/ StopFree(t) \/ Shutdown(t) \/ InitBackends(t) \/ GetDevices(t) \/ StartAgain(t) \/ Start(t)
Polls(s) ==
  \/ PollOpens(s) \/ PollGivesUp(s) \/ PollOpensFreed(s) \/ ScriptEnds(s) \/ PollCancelled(s)
  \/ PollCancelledAsking(s)
  \/ s \in triggered /\ PollFires(s)
Signals == AlarmRings \/ HandlerReturns
Answers == TrigLock \/ TrigAwake \/ ReceiveDevice \/ SanedStarts \/ Release
Outside == \/ Hup \/ Acquire
           \/ \E i \in Scanner : TrigCall(i)
           \/ \E s \in Scanner : Plug(s) \/ Unplug(s) \/ OtherClaims(s) \/ PollFires(s)

Next ==
  \/ \E t \in Handling : Calls(t)
  \/ Signals \/ TrigSet \/ Answers \/ Outside
  \/ \E s \in Scanner : Polls(s) \/ OtherLeaves(s)

Spec == Init /\ [][Next]_vars

Fairness ==
  /\ WF_vars(Calls("main") \/ Signals) /\ WF_vars(Calls("dbus")) /\ WF_vars(Calls("udev"))
  /\ SF_vars(\E t \in Handling : StopCancel(t)) /\ SF_vars(TrigSet)
  /\ WF_vars(Answers)
  /\ \A s \in Scanner : WF_vars(Polls(s))
  /\ WF_vars(\E s \in Scanner : OtherLeaves(s))

FairSpec == Spec /\ Fairness

-----------------------------------------------------------------------------
(* Properties                                                              *)

\* A poller gave its scanner up and was triggered from outside since: nobody
\* resets triggered, and the next stop waits for that.
Wedged == \E s \in triggered : ppc[s] = "gone" /\ s \notin cancelled

\* The values each variable can have.
TypeOK ==
  /\ hotplug \in BOOLEAN /\ lost \in BOOLEAN /\ loaded \in BOOLEAN /\ freed \in BOOLEAN
  /\ polling \in BOOLEAN /\ alarm \in BOOLEAN
  /\ plugged \subseteq Scanner /\ seen \subseteq plugged /\ missed \subseteq Scanner
  /\ next \in 1..MaxBackends
  /\ attached \subseteq Scanner /\ current \subseteq attached \cap plugged
  /\ isOpen \subseteq attached
  /\ claim \in [Scanner -> {"free", "scanbd", "other"}]
  /\ \A s \in Scanner \ plugged : claim[s] = "free"
  /\ devices \in Seq(Scanner) /\ slots \in Seq(Scanner)
  /\ ppc \in [Scanner -> {"none", "opening", "polling", "script", "settling", "gone"}]
  /\ \A s \in Scanner : ppc[s] # "none" => s \in Elements(slots)
  /\ ready \cup triggered \cup cancelled \subseteq Elements(slots)
  /\ owner \in Thread \cup {"none"} /\ idx \in 1..(MaxScanners + 1)
  /\ \A t \in Handling : Elements(todo[t]) \subseteq
       Elements(Reload) \cup {"cancel", "join", "create", "HUP", "ALRM"}
  /\ tpc \in {"idle", "lock", "await", "slot"} /\ tdev \in Scanner
  /\ events \in Seq({"add", "remove"})
  /\ session \in {"none", "acquire", "saned"}
  /\ ub \in {"none", "unloaded", "torn", "overrun", "freed", "slot", "nested", "device"}
  /\ used \in 0..MaxEvents /\ alone \in BOOLEAN

\* An interface that scanbd has claimed belongs to a poller that uses it, or
\* to one that a stop under way has cancelled and will close
\* (scanbuttond_wrapper.c:935): an open scanner nobody polls would keep saned
\* and every other program out, and its next open would be refused for ever.
ClaimHasPoller ==
  \A s \in Scanner : claim[s] = "scanbd" =>
    /\ s \in isOpen \cap current
    /\ ppc[s] = "polling" \/ (ppc[s] = "gone" /\ s \in cancelled)

\* Asking usb_find_devices consumes the change (libusbi.c:218).  As long as the
\* backends do not know a scanner that is plugged in, or have one that is not,
\* a handler is about to load them, or somebody has still to act on the change:
\* with udev the monitor, without it whoever asks next, or the alarm.  A backend
\* that has looked does not hear what those after it are told (meta.c:127), and
\* a stop can cancel the poller that has asked: without udev that is final.
Loading == \E t \in Handling : "init" \in Elements(todo[t])
ChangeNotLost ==
  \A s \in Stale :
    \/ Loading
    \/ IF hotplug THEN events # <<>> ELSE Changed \/ alarm \/ s \in missed

\* scbtn_poll_threads is freed (scanbuttond_wrapper.c:964) and replaced under
\* nobody: whatever stops, starts, triggers and reloads meet, no poller is left
\* that has a pointer to its slot, and no trigger waits for one.
SlotsOutlivePollers ==
  [][slots' # slots => tpc # "slot" /\ \A s \in Scanner : ppc[s] = "none"]_vars

\* As long as no handler begins while another one is under way, stops, reloads
\* and starts never touch what has been freed or unloaded.  What remains: a
\* device number that is not looked at again, a device that usb_find_devices has
\* freed, and the start of a release after a removed device.
AloneIsSafe ==
  alone => \/ ub \in {"none", "slot", "device"}
           \/ ub = "freed" /\ hotplug

\* "an action is active, waiting" (scanbuttond_wrapper.c:899): every handler
\* comes to its end, unless a poller that has given its scanner up is triggered
\* before the alarm rings; nobody will reset that.
HandlersReturn ==
  \A t \in Handling : []<>(todo[t] = <<>> \/ Wedged \/ ub # "none")

\* "make scanbuttond update its device list" (meta.c:249): whoever has had a
\* scanner, it is polled again, over and over, by what is left of the alarm, the
\* events and the end of the sessions.  Except: a scanner that was plugged in
\* where nobody tells; the list a removed device leaves behind (dbus.c:500).
PollingComesBack ==
  \A s \in Scanner : []<>(\/ ppc[s] = "polling" /\ claim[s] = "scanbd"
                          \/ s \notin plugged
                          \/ ~hotplug /\ s \notin current
                          \/ freed /\ ~polling
                          \/ Wedged \/ ub # "none")

=============================================================================
