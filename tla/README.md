# A verification of "documentary"

*documentary* turns a Raspberry Pi with a document scanner into an appliance: a press of the
scanner's button scans the paper, cleans the pages and sends the document to Google Drive, to a URL
or by mail. Two programs do the work. **scanbd** (C, release 244, kept in
`src/scanbd-code-244-trunk`) polls the scanner and runs a script when a button changes. A **Ruby
application** (`scan.rb`, `lib/`, `lcd.rb`) is that script and everything after it: Sidekiq jobs over
Redis, and an LCD.

This directory holds TLA+ models of both, TLC configurations that check them on small instances, and
TLAPS proofs about them for every number of threads, scanners, options, managers, failures, scans and
pages. Paths below are relative to the repository; `scanbd/`
stands for `src/scanbd-code-244-trunk/src/scanbd/`.

| model | instances | proofs | of |
|---|---|---|---|
| `SanePolling` | `MCSanePolling`, `SanePolling_*.cfg` | `SanePolling_proofs` | the threads of the polling engine |
| `OptionTable` | `MCOptionTable`, `OptionTable*.cfg` | `OptionTable_proofs` | what a poller matches, reads, compares and passes on |
| `ScanPipeline` | `MCScanPipeline`, `ScanPipeline*.cfg` | `ScanPipeline_proofs` | the Ruby pipeline |
| `ScanDelivery` | refined by `ScanPipeline` | in `ScanPipeline_proofs` | what the pipeline promises |
| `Daemon` | `MCDaemon`, `Daemon*.cfg` | `Daemon_proofs` | scanbd around the engine, with its managers |
| `ButtonRound` | `MCButtonRound`, `ButtonRound.cfg` | `ButtonRound_proofs` | one round of polling without SANE, down to the USB transfers |
| `ScbtnPolling` | `MCScbtnPolling`, `ScbtnPolling.cfg` | `ScbtnPolling_proofs` | the pollers without SANE: backends, reloads, the alarm |

`PROJECT.json` lists runs, mutants, hazards, findings, theorems and, definition by definition, the
source lines each one stands for.

To repeat: `tlc -config SanePolling_live.cfg MCSanePolling`, and so on for each run;
`tlapm SanePolling_proofs.tla`, and so on for the other modules of proofs.

## 1. Inventory

### SANE polling engine (`scanbd/sane.c`)

State: the array `sane_poll_threads`, one `struct sane_thread` per scanner (mutex, condition
variable, `triggered`, `triggered_option`, the SANE handle, the list of options with actions), the
number `num_devices`, the recursive mutex `sane_mutex` with `sane_cv`.

Operations: `get_sane_devices`, `start_sane_threads`, `stop_sane_threads`, `sane_trigger_action`, and
the thread function `sane_poll` (open, match options with the configured actions, then for ever: read
each option, compare, run the script of a changed or triggered one with the device closed, reopen).

Hard: five kinds of threads call in (main inside signal handlers, the D-Bus thread, the udev thread,
short-lived trigger threads, the pollers); pollers are cancelled asynchronously, with a cleanup
handler that unlocks a mutex blindly; two condition variables, one of them waited for with an outer
mutex held; a device is given to a child process and taken back; SIGHUP tears down the library below
it all.

Correct means: nobody is left waiting; a stop stops everything; an action that is triggered is run
and is one that exists; a mutex is only unlocked by who holds it; the device is free while a script
uses it.

### Signal handlers and life cycle (`scanbd/scanbd.c`, `daemonize.c`)

State: pid file, signal masks. Operations: HUP (stop, `sane_exit`, read the configuration,
`sane_init`, rescan, start), USR1 (stop), USR2 (start), TERM/INT (stop, exit), start-up. They interact
with the engine by calls. Hard: HUP, USR1 and USR2 mask one another, TERM and INT mask nothing, so
they can nest in a thread that holds the recursive `sane_mutex`.

### Scan manager (`scanbd/scanbd.c` 386-518)

`scanbm`, the same binary started by inetd for a network client: `acquire` over D-Bus (or SIGUSR1 by
pid file), fork `saned`, wait, `release` (or SIGUSR2). No state of its own in the daemon: a release
starts polling whoever else has acquired. Hard: overlapping sessions, hotplug or HUP in between, a
manager that dies.

### D-Bus interface and udev monitor (`scanbd/dbus.c`, `udev.c`)

Methods acquire, release, trigger, device added/removed; signals to listeners; hooks; the udev thread
turns kernel events into calls of the same functions. They reach the engine in `dbus.c` 410-533 and
587-601. Correct means that a hotplug event ends with as many pollers as there are scanners.

### Button polling without SANE (`scanbd/scanbuttond_wrapper.c`, `scanbuttond_loader.c`, `src/scanbuttond/`)

The other build of scanbd: a copy of the engine (`scbtn_poll`, `start_scbtn_threads`,
`stop_scbtn_threads`, `scbtn_trigger_action`) over a *meta backend* (`backends/meta.c`: it loads the
vendor backends, joins their lists of scanners and dispatches by scanner), thirteen vendor backends
(match, open, close, `scanbtnd_get_button`) and a USB layer (`interface/libusbi.c`: the list of
devices, open and close with a count, bulk and control transfers, flush). The appliance is configured
with `--enable-udev` only and does not contain it.

State: as in the engine, with the pressed button instead of option values; per backend a list of
scanners, and `is_open` in each; the list of USB devices; what a scanner has not yet been asked to
hand over; stalled endpoints.

Hard: a failed transfer can leave an answer behind, which is then taken for the next one; levels are
turned into edges by a value that every round overwrites; a static loop variable is shared by all
pollers; `alarm` is the retry; lists are rebuilt under readers; the question whether devices have
changed consumes the answer.

Correct means: a button that is reported is down; an action runs once per press; polling recovers
from failed transfers; a reload leaves no poller with a scanner that is gone.

### Scan pipeline (`scan.rb`, `main.rb`, `lib/`)

State: one directory per scan; the Redis list `jobs` and key `scanning`; Sidekiq's queues `job`,
`default` and `page`, its retries and batches. Operations: `Scanner#perform`, `JobWorker`/`Job#perform`
(list the job, make a batch of pages), `PageWorker`/`Page#process` (deskew, normalize),
`Postprocessor#on_complete`/`Job#postprocess_scanfiles` (merge, up to three uploads, clean up).
`supervisor.conf` gives one thread to `job` and `default`, in this order, and four to `page`.

Hard: pages run in parallel, fail, and are retried after the batch has called back; a callback that
raises runs again from its start; `clean_up` removes the head of a list, whoever that is; killed
workers lose what they hold.

Correct means: what is delivered is the whole document; each scan is delivered and ends; nothing is
removed that is still needed; the list tells what is going on.

### LCD (`lcd.rb`)

Reads the list, the key and the files of the head of the list once a second. Hard: each row reads
the head again. Correct means that it shows the work in progress and does not die of a race.

### The rest

`config.c` (tables for libconfuse), `slog.c` (logging), test programs, container and supervision
scripts.

## 2. Plan

| # | module | what | status |
|---|--------|------|--------|
| 1 | `SanePolling`, `SanePolling_proofs` | the engine and all its callers; safety proved | built |
| 2 | `ScanPipeline`, `ScanPipeline_proofs` | the way of a scan through Sidekiq | built, safety proved |
| 3 | `ScanDelivery` | abstract promise of 2: a scan is delivered whole to every destination, in order, or dropped for a named reason; refined by 2 (`INSTANCE`) | built, refinement checked and proved |
| 4 | `Daemon`, `Daemon_proofs` | scanbm sessions, signals, hotplug and SIGTERM over an abstract polling gate: "the polling daemon is ordered to disable polling for the time the other scan-application wants to use the scanner" (`doc/README.txt`) | built, safety proved |
| 5 | `OptionTable`, `OptionTable_proofs` | matching options and actions, the bound of the table, the cycle of a poller, the environment of a script, for both engines | built, safety proved |
| 6 | `ButtonRound`, `ButtonRound_proofs` | one round of a poller of the other build: thirteen protocols and decoders over failing transfers, and the comparison with the actions | built, safety proved |
| 7 | `ScbtnPolling`, `ScbtnPolling_proofs` | the pollers of the other build over the lists of scanners, their loading, opening and closing, with SIGALRM as the retry and hotplug, sessions and triggers around them | built, safety proved |
| 8 | `LcdDisplay` | composes with 2: the display as a reader of its state, one read after the other | not built |

Worth proving next: `StopJoinsAll` of 1, which needs an invariant on the slots a stop has joined, as
`SlotInv` of 7 is. Worth stating: the gate that 4 is built on, with the states stopped and running, as an
abstraction of 1.

Every run has two actors of each kind that interact, one of everything else, and budgets of one or two
for failures. Every property of a passing run has a mutant in `PROJECT.json`, a plausible slip in one
definition (an unlock or a broadcast forgotten, an index not reset, a test left out), that TLC refutes.

## 3. SanePolling

### State and code

| variables | code |
|---|---|
| `saneOwner`, `saneDepth`, `saneWaiters` | `sane_mutex` (recursive), who sleeps on `sane_cv` |
| `numDevices`, `slots`, `saneUp` | `num_devices`; the length of `sane_poll_threads` (0: NULL); between `sane_init` and `sane_exit` |
| `cpc`, `ret`, `idx`, `arg` | per controller thread: place, return address and loop variable of `stop_sane_threads`, arguments of `sane_trigger_action` |
| `devOwner`, `cvWaiters`, `triggered`, `option` | per slot: `st->mutex`, who sleeps on `st->cv`, `st->triggered`, `st->triggered_option` |
| `ppc`, `si`, `nopts`, `handle` | per slot: the poller's place and loop variable, `num_of_options_with_scripts`, `st->h` |
| `cancelable`, `cancelReq` | the poller's cancel state and a pending `pthread_cancel` |
| `script`, `orphan` | the child process of the poller; one whose poller was cancelled |
| `ub` | the undefined behaviour the program met, if any |

A *controller* is any thread that calls into `sane.c`; `Ops` says what it may call: `stop` (USR1,
acquire), `start` (USR2, release), `refresh` (device added or removed), `hup`, `trigger`. One action
is one stretch of code between two points at which another thread can see or disturb it: a lock, a
wait, a wake-up, a cancel, a join, a system call. Actions `Stop*`, `Start*`, `Sane*`/`GetSaneDevices`,
`Trig*` and `Poll*` follow the functions in the order of the code.

Waiting is modelled as POSIX has it: `StopWait` and `TrigWait` release only the slot's mutex and keep
`sane_mutex`, `TrigAwaitThreads` releases `sane_mutex`; a woken thread competes for its mutex and
tests again. Cancellation acts where the code allows it: `sane_poll` disables it at its
`pthread_testcancel`, but enables it when the first option has been read and does not disable it
before the next round, so `PollCancelled` may strike in the option loop, in the firing of an action,
in `waitpid` and in both sleeps.

### Abstractions

- Which actions match which options, and how a value is compared, is a choice: a poller has 0 to
  `MaxActions` actions, and any read may find a change.
- A scanner is its number; `st->dev` is not tracked.
- A pending cancellation acts before or after a call into a SANE backend, never in its middle.
- Undefined behaviour (a slot outside the array or freed, a dead handle, a call between `sane_exit`
  and `sane_init`) sets `ub` and ends the behaviour: nothing after it is claimed.
- Device and action numbers of a trigger are non-negative.
- Signal handlers run to their end in their controller; nesting is the subject of `Daemon`.

### Runs

| run | instance | shows |
|---|---|---|
| `SanePolling_live` | one scanner that may go, 2 actions; main: start, HUP; other: trigger, stop, hotplug; fair | `IInv`, the invariant of the proofs, also next to undefined behaviour; `TypeOK`, `NoLostWakeup`; `StopReturns`, `TriggerServed` |
| `SanePolling_reload` | 1 or 2 scanners, both failures of `sane_open`; main: HUP, stop; other: trigger | `CleanupUnlockHarmless`, `OwnScriptHasDevice`, `TriggeredOptionValid`, `StopJoinsAll` |
| `SanePolling_denied` | the reopen after a script may be denied; fair | *violated* `StopReturns`: a trigger on the dead poller's slot is never reset; the next stop waits for ever with `sane_mutex` held |
| `SanePolling_script` | one scanner, stop and start | *violated* `ScriptHasDevice`: a poller cancelled in `waitpid` leaves its script behind, the next one opens the device |

Bounds: two controllers are enough for every pair of operations to meet, and every wait in the code
is for one other party; the third party, the poller, is always there. Two scanners are needed for the
loops of a stop to be between slots, a number that changes for a stop to meet another array than the
one it was started for; two actions for a trigger to meet another one's action. `StopJoinsAll` is
checked where no hotplug event can come in between: after one, the number that bounds the loop is not
that of the array.

The first two runs do not check deadlock: the system may stop at `ub`, and a trigger may wait for
pollers that nobody is obliged to start. `StopReturns` and `TriggerServed` are claimed up to `ub`.

### Fairness

`SF` on the steps of each thread: the scheduler runs a runnable thread, and a thread blocked on a
mutex that is free again and again gets it. The code supports the strong form: a poller is outside
`st->mutex` for the whole polling timeout in every round (`usleep` at the end of the loop), so the
mutex is not only free for an instant. `WakeInTime` says that a thread woken by the broadcast after a
script gets the mutex at some time before the next value change; the poller leaves it the settle
time of a second for that. `WF` on the end of a script: scripts are programs that end. Calls from
outside are not fair: nobody has to press a button.

### Proofs

`SanePolling_proofs` proves, for all values of the constants under `ControllerAssumption` (the
owners of a mutex can be told apart; `Ops` maps controllers to operations) and `BoundsAssumption`
(the bounds are positive, `Counts` is within them):

| theorem | states |
|---|---|
| `Inductive` | `Spec => []IInv` |
| `TypeCorrect` | `Spec => []TypeOK` |
| `CleanupSafe` | `Spec => []CleanupUnlockHarmless` |
| `TriggeredOptionSafe` | `Spec => []TriggeredOptionValid` |
| `OwnScriptSafe` | `Spec => []OwnScriptHasDevice` |
| `WakeupSafe` | `Spec => []NoLostWakeup` |

None of these is inductive alone. That the blind unlock is harmless, for example, depends on nobody
holding the slot's mutex; that depends on the canceller being past the slot, and that on no second
controller being inside `stop_sane_threads`. `IInv` says so in parts: `SaneDiscipline` (the owner of
`sane_mutex` is the thread at a place inside it, with the depth that the nesting of a stop in a start
gives), `SaneFacts` (what a thread tested under the mutex stays true), `DevDiscipline` (the same for
each `st->mutex`), `SleeperAtWait`, `CancelPending` (a pending cancellation belongs to a stop that
has passed this slot) and `PollerFacts`. There is one lemma per action, with one step per part the
action can disturb; the groups of actions are lemmas above them and the theorem combines them.

Only model-checked: `StopReturns` and `TriggerServed` (liveness), and `StopJoinsAll`.

Stated but in no run, since the code does not keep them:

- `PolledHandleOpen`: after a reopen that fails other than by access denied, the poller goes on with
  the handle NULL (`sane.c` 1161);
- `DevicesMatchThreads`: a start between the stop and the rescan of a hotplug event makes pollers for
  the old devices (`dbus.c` 418), whatever the comment at `sane.c` 125 says;
- `TriggerNotOverwritten`: a value change replaces an action requested from outside that has not run;
- `WaiterHasPoller` and `NoStaleSlot`: a trigger may wait for a poller that has ended, or find that
  the devices have changed when its wait is over; and a rescan may fall between `sane_exit` and
  `sane_init` of SIGHUP, which hold no mutex (`scanbd.c` 70).

## 4. ScanPipeline

### State and code

| variables | code |
|---|---|
| `script`, `scanning` | the process `scan.rb` of each scan; the Redis key |
| `dirs`, `pages`, `normalized`, `document` | the scan's directory: exists, its raw files, `*_normalized`, `postprocessed.pdf` |
| `jobs` | the Redis list read by the LCD |
| `jobQueue`, `callbackQueue`, `pageQueue` | Sidekiq's queues `job`, `default`, `page` |
| `jpc`, `jscan` | the one thread of `sidekiq -c 1 -q job -q default` |
| `running` | the pages in the hands of `sidekiq -c 4 -q page` (`PageThreads`) |
| `ran`, `failed`, `called` | the batch: pages that have run, that failed last, callback queued |
| `retry`, `dead`, `tries` | Sidekiq's retries |
| `received` | what each destination got, in order |

Actions: `StartScan`, `EndScan`, `TakeDirectory`, `Submit` are `scan.rb`; `TakeJob`, `Perform`,
`MakeBatch` are `Job#perform`; `TakeCallback`, `OnComplete`, `Merge`, `Upload`, `CleanUpPop`,
`CleanUpRemove` the callback, one step per effect that others see; `StartPage`, `EndPage`, `FailPage`
a page. An upload that fails may have arrived or not. `Kill*` kill `scan.rb`, the page workers and
the job worker.

Sidekiq and its batches are a library outside the repository, modelled by what `lib/` relies on: the
complete callback is queued once, when every job of the batch has run, failed or not; `failures` is
the number of jobs whose last run failed, when it is asked; a batch without jobs does not call back;
a job that raises is run again up to `Retries` times; the queue `job` goes before `default` (no
weights on the command line); a killed worker loses its job (basic fetch).

Abstractions: a page is its number, a document the set of its pages; deskew and normalize are one
step, since only the display sees the file in between; a scan finds any number of pages, which covers
`scanimage` failing (its exception is caught). The reading of the directory happens with the start of
a job: nobody changes its pages in between.

### Runs

`ScanPipeline` has one scan of the button and one directory by hand, up to two pages each, two of the
three destinations, one retry, two failures and one kill. Two scans are what it takes for batches to
end out of order, two pages for a batch to be partly failed, two failures for a retry that fails
again and for a callback that Sidekiq gives up. Kills are bounded because each only takes work away.
It shows:

- `DeliveredWhole`: a destination only ever receives all pages of a scan;
- `CopiesInOrder`: one copy per run of the callback, and none to a later destination before an
  earlier one succeeded;
- `DirectoryOutlivesPages`: no page's first run finds its directory removed;
- `OpenScansListed`: the list has at least as many entries as there is work in progress, although
  entries are popped by position;
- `EveryScanEnds`, `EveryScanDelivered`: under weak fairness of the workers, of commands and of the
  retry poller (all of them loops that never pause while there is work), each submitted scan gets its
  entry in the list, each that has an entry loses it in the end, and its directory unless that was
  given on the command line, and each is delivered unless one of its pages failed. What Sidekiq gave up
  is excepted, and so are behaviours with a kill, which loses the work in hand for good.

`ScanPipeline_lost` has one destination and no kills, and *violates* `NoScanLost`: one page fails
once; the batch is complete, `postprocess_scanfiles` skips the upload, `clean_up` removes the
directory, and the retry finds nothing.

Deadlock is not checked: when every scan has ended the system is at rest.

### ScanDelivery

`ScanDelivery` knows of a scan only its directory, whether its pages are complete, whether a page of
it has ever failed, and what the destinations have received. Its steps are `Begin`, `Fill`, `Flaw`,
`Deliver` (a whole copy, to a destination whose turn it is, from a directory that exists) and `Remove`
(a directory whose document has arrived everywhere, that has no pages, or that is flawed). There is no
queue, batch, retry or worker in it. `DeliveryKept` says that the pipeline implements it: `StartScan`
is `Begin`; `EndScan`, `TakeDirectory` and `KillScan` are `Fill`; `FailPage` is `Flaw`; an `Upload` that
arrives is `Deliver`, whether or not it raises afterwards; `CleanUpRemove` is `Remove`, or nothing for
a directory that is kept; all else is a stutter.

### Proofs

`ScanPipeline_proofs` proves for all values of the constants under `ScanAssumption` (finitely many
scans) and `PipelineAssumption` (bounds are natural numbers):

| theorem | states |
|---|---|
| `Invariance` | `Spec => []IInv` |
| `TypeCorrect` | `Spec => []TypeOK` |
| `WholeDelivered` | `Spec => []DeliveredWhole` |
| `CopiesOrdered` | `Spec => []CopiesInOrder` |
| `DirectoryOutlives` | `Spec => []DirectoryOutlivesPages` |
| `ScansListed` | `Spec => []OpenScansListed` |
| `PipelineDelivers` | `Spec => DeliveryKept` |

That a document is whole depends on where each job is: two jobs of one page, or two callbacks of one
batch, would break every argument below. So `IInv` begins with `QueueInv` (each job is in one place:
queued, being worked on, or waiting for its retry) and `StageInv` (before a scan is submitted nothing
of it is anywhere; its callback exists only when every page has run). `PageInv` and `CallInv` say
what the runs of a page and of a callback have left: a page that has run and not failed has its
normalized file as long as the directory is there, so a callback that goes on to `merge` finds all.
`CopyInv` counts copies against runs: what the running callback has been through (`Served`) and has
still before it (`WillServe`). `DoneInv` says that it reaches `clean_up` only with a page that failed
or after every destination. `ListInv` counts the scans that have still to take an entry off the list
(`Owes`) against its length: as nobody takes two, popping by position does no harm to the number.
One lemma per action, with one step per part; the lemmas of the last section relate each step to one
of `ScanDelivery`.

Only model-checked: `EveryScanEnds`, `EveryScanDelivered` (liveness).

## 5. Daemon

### State and code

| variables | code |
|---|---|
| `todo` | per thread of scanbd (main, D-Bus, udev) the steps it has before it; a delivered signal puts the steps of its handler, and its name as the mark of the handler's frame, before those of main |
| `alive`, `pidfile`, `exited` | `dbus_tid`, `udev_tid`; the pid file; `exit` |
| `owner`, `depth` | `sane_mutex` |
| `polling`, `known`, `action` | `sane_poll_threads`, `num_devices`, `triggered`: the polling engine as a gate |
| `pending` | signals sent and not delivered |
| `present`, `events` | the scanner; the queue of the udev monitor |
| `calls` | method calls on the bus |
| `mpc`, `pid` | where each scanbm is; whether it has read a pid |
| `undisturbed`, `missed` | history, for the properties only |

`stop_sane_threads` and `start_sane_threads` are here the steps at which threads meet: taking
`sane_mutex`, waiting for an action with it, giving it back (`StopNothing`, `StopLock`, `StopJoin`,
`StartIdle`, `StartAgain`, `Starting`, `Rescan`). `Handler` and `SigMask` are what `main` installs
with `sigaction`, `Deliver` and `HandlerReturns` what the kernel makes of it, `JoinThread` and `Exit`
the rest of `sig_term_handler`. `Dispatch`, `Reply` and `ReceiveDevice` are the other two threads.
`message_func` never makes a reply, so libdbus answers with an error when the method has run; the
caller takes any answer. `BeginDbus`, `BeginSignal`, `Fork`, `SanedEnds`, `Timeout` and
`MgrTerminated` are scanbm.

Abstractions: one scanner; a rescan is one step; hooks, the `sleep(1)` of signal mode and `saned`
take any time; a call runs into its 25 s only while a script is awaited or scanbd is about to end;
a thread is cancelled where it waits for work or for an action, not in a log message. `dbus_mutex` is
left out, since without HAL only the udev thread takes it. SIGHUP comes after start-up: before it,
the handlers can nest in the start that `main` itself does.

### Runs

`Daemon` has one session of each mode and any two events among hotplug, HUP, TERM, a button action
and a manager that dies, from the creation of the pid file on. Two events suffice for an action that
holds a stop while something else comes; the sessions add USR1, USR2, acquire and release to these.
It shows:

- `SessionHasScanner`: a D-Bus session that has scanbd to itself and does not time out has the
  scanner when it starts `saned`, although it does not look at the answer;
- `NoNestedStop`: the masks keep stops from nesting, in `main` from the end of start-up until TERM;
- `PollingResumes`, `ScannerNoticed`, `HandlersReturn`: when the world becomes silent, every thread
  is at rest, scanbd knows whether the scanner is there, and polls it. Excepted are: a manager that
  dies before its release or cannot fork, a scanner that comes or goes between the first look at the
  devices and `udev_start_udev_thread`, and the end of scanbd.

`Daemon_term` *violates* `TermTerminates`: TERM arrives in the handler of another signal that holds
`sane_mutex` in its stop, while the D-Bus thread waits for that mutex; the join never returns.

A known limit: nothing counts sessions. The first release of two that overlap restarts the polling
while the other `saned` runs (`dbus.c` 514). `SessionHasScanner` is therefore claimed for a session
that has scanbd to itself.

Another one: `main` is not masked while it starts up, and start-up ends in a start of its own, which
stops what polls (`sane.c`, `start_sane_threads`). With two managers in signal mode the USR2 of one starts
the polling during start-up, and the USR1 of the other arrives while start-up's own start is stopping it
again: two stops in `main`, 18 steps from the start. With one manager, as in the runs, it takes a TERM.
`NoNestedStop` is therefore claimed for `main` after start-up only. `sane_mutex` is recursive, so that
the inner stop does its work and the outer one finds nothing left.

Fairness is one `WF` on all steps of the system. That is enough, for each of them uses up something
(a step before a thread, a signal, a call, a session) and events are bounded, so no part can run for
ever and starve another; it says only that what can run is not left for ever. Deadlock is not
checked: the system comes to rest.

### Proofs

`Daemon_proofs` proves, for any managers in either mode and any number of events, under
`ManagerAssumption` (no manager is in both modes), `BoundAssumption` and `NoneAssumption`:

| theorem | states |
|---|---|
| `Inductive` | `Spec => []IInv` |
| `TypeCorrect` | `Spec => []TypeOK` |
| `SessionSafe` | `Spec => []SessionHasScanner` |
| `StopsDoNotNest` | `Spec => []NoNestedStop` |

Any number of managers means sequences of steps of any length before `main`, for each signal puts a
handler on top of the rest. `ShapeInv` says what they look like: what the bottom is, that the mark of TERM
is where `exit` was called, that a stop under way is the first step unless TERM or start-up is below it.
`LockInv` relates them to the mutex: only its owner is between a lock and an unlock, and it has locked at
least as often as it will unlock (`Held` counts the steps). `SessionInv` follows a session that has scanbd
to itself from its call to its end: until the call is answered the D-Bus thread has one of four sequences
before it, all others nothing, and nobody polls when the answer is on its way. `EndInv` says that nobody
polls after `exit`. Each of the two kinds of steps, those that take the first step of a sequence away and
those that put steps before it, has lemmas of its own; every action is one of them, or neither.

Only model-checked: `PollingResumes`, `ScannerNoticed`, `HandlersReturn` (liveness).

## 6. ButtonRound

### State and code

| variables | code |
|---|---|
| `scanner` | the scanner: its backend and `num_buttons` |
| `keys`, `pressed` | the hands at the scanner: the keys they use, those that are down |
| `pipe`, `halted` | bulk backends: packets the device has ready, stalled endpoints |
| `latched` | control backends: the register as of the last request |
| `pc`, `got`, `byte`, `button` | place in the round, packets read, the register read, what `scanbtnd_get_button` returns |
| `value` | `st->opts[].value`, by number of the button |
| `failures` | transfers that have failed |
| `watched`, `shown`, `spent` | history, for the properties only |

`WriteOk`, `ReadOk`, `ReadOther`, `Flush` are the request, the packets and the error path that the
seven backends with bulk transfers have in common; `WriteFails`, `WriteHalted` and `ReadFails` are
what `libusb_write` and `libusb_read` make of an error. `RequestOk`, `AnswerOk`, `Confirm` and their
failures are the six with control transfers. Each of these stands for the same lines in every backend
of its kind; `PROJECT.json` names them in one of these. `Expected` and `Unchecked` say in what the
backends differ: the packets of `epson` and `snapscan`, the tests for less than 0. `Decode` is the end
of each `scanbtnd_get_button`, with one operator per backend: `Exactly` for a switch over the register,
`LastSet` for tests in a row. `Compare` is the loop of `scbtn_poll` over its options, with `Fires` and
`NewValue` for one of them.

Abstractions:

- A register is the set of its bits that are 1. Which bits a key drives is the hardware's: `KeyBits`
  has it from the comments and masks of the decoders. The Epson scanners send a number; `KeyBits`
  and `Numbered` say that it is that of one of the pressed keys.
- The scanner answers within `TIMEOUT`. One that answers later than that and the 500 ms of the flush
  stays one answer behind, and nothing in these protocols could tell.
- A transfer in the flush fails by a stall, or because the packet is longer than its buffer: what
  libusb makes of that, an error or a cut, is a choice, and the packet is gone in both cases. A read may also fail with the packet lost or still there,
  a write with the request received or not, and a packet may come short.
- Every button has an action with the same trigger. The loop over the options is one step: only one
  option can match the button.
- The environment of the script and the signals to listeners are left out of `Compare` and
  `ScriptEnds`.
- Opening, closing, stopping and triggering from outside are left to `ScbtnPolling`, the matching of
  actions to `OptionTable`.

### Runs

`ButtonRound` has one scanner of every backend, and of `plustek`, which decodes by the number of
buttons, one for each number it knows: 17 in all. One to three keys are used in any way, and any two
transfers fail. Two failures are one that leaves something behind and one that disturbs the repair of
it; three keys are the most that any combination in the decoders consists of. It shows:

- `NoStaleButton`: a button that is returned was down at some time of this round. Excepted are
  `artec_eplus48u`, `gt68xx` and `niash`, which overlook a failed transfer;
- `OncePerPress`: as long as no key moves and no transfer fails, an action does not run twice;
- `HeardAgain`: a combination of keys that stays down gets its value in the end. Two cases are
  excepted. A device stalls `out_endpoint`: `libusb_write` clears the other one. And `snapscan`: its
  status packet has 20 bytes, the buffer of `libusb_flush` 16 (`libusbi.c` 319-320). If one transfer
  fails while the scanner holds its three packets, the flush may stop at the second and leave the
  third, `0xFB`. The next round reads that where it expects `0xF9`, flushes, and stops at the second of
  the new packets: this goes on for ever, and no key is noticed any more. No key is reported wrongly
  either: the first bytes of the packets keep `NoStaleButton` true;
- with `TypeOK`: what failures leave in the device does not pile up.

A known limit: the comparison runs only for a pressed button, so an action on a release, such as
`scan` of `conf/scanbd.conf` (from 1 to 0), does not fire on a release.

Fairness: `WF` on the rounds of the poller, which never stop, and on the end of a script. Pressing is
not fair. Deadlock is checked.

### Proofs

`ButtonRound_proofs` proves, for any scanners, sets of keys and any number of failures, under
`ScannersAssumption` (one of the thirteen backends, and at most 15 buttons: the largest number in the
backends' tables), `TriggerAssumption` and `MaxFailuresAssumption`:

| theorem | states |
|---|---|
| `Inductive` | `Spec => [](IInv /\ SpentInv)` |
| `TypeCorrect` | `Spec => []TypeOK` |
| `FreshButton` | `Spec => []NoStaleButton` |
| `RunsOnce` | `Spec => OncePerPress`, if `Trigger.from = 0` |

Whether an answer is fresh depends on everything that lies before it in the scanner. `PipeInv` says
what that can be. Where a request is about to be made, there is nothing; or the endpoint is halted, which
the first read will notice; or a stale `0xFB` comes first, which the first read will refuse. So at "read"
either exactly the rest of this round's answer is left, or the round is going to fail. The first two
cases are what a flush leaves; the third is what it leaves of a `snapscan` whose status packet did not
fit, and that this is an `0xFB` follows from `InOrder`: packets stay in the order in which they were
sent, counted from the last. The same invariant bounds the pipe by the failures: one answer for each.
`ShownInv` then says that the registers on their way to the poller were shown in this round. `SpentInv`
is what is known while no key moves and nothing fails: the registers are the present one, and the value
of the action that has run is 1.

`RunsOnce` has its hypothesis because the property is false without it: the comparison compares with the
value of the last round, so an action that is configured from 1 to 1 runs in every round while its key is
down (`scanbuttond_wrapper.c` 540). Only model-checked: `HeardAgain` (liveness).

## 7. OptionTable

### State and code

| variables | code |
|---|---|
| `config` | what libconfuse has read: the engine, `multiple_actions`, and the sections (the global one and those whose filter matches the device) with their actions and functions |
| `pc`, `at` | where the poller is; section, item and option of the loops in `sane_find_matching_options` and `sane_find_matching_functions` |
| `table`, `functions` | `st->opts` and `st->functions` with their counts |
| `si`, `triggered`, `env` | loop variable of `sane_poll`, `triggered_option` (0 for none), the functions' values in the script's environment |
| `val`, `failures` | the options at the device; reads that have failed |
| `was`, `is`, `asked`, `runs`, `settled` | history, for the properties only |

`MatchAction`, `ScbtnMatchAction`, `MatchFunction` are one turn of the loops over options each,
`EndOfItems` goes on to the functions and to the next section. `Check` is one turn of the loop of
`sane_poll`, with `Fetch` for the read (an option with several entries is read for the first),
`AddFunction`, `RunScript`, `ScriptEnds` and `Reopen` the firing of an action, `EndOfCycle` and
`NextCycle` the sleep. `Request` is `sane_trigger_action`, `Change` the user at the scanner.

Abstractions: a regular expression is the set of options it matches, a trigger the sets of values it
goes from and to, so that ranges of numbers and patterns of strings are the same; a value is 0 or 1.
Stops, starts and mutexes are `SanePolling`'s, which in turn takes what matches and what has changed
as a choice. What the other engine does with its table is `ButtonRound`'s.

### Runs

`OptionTable` has a device with three options (a button that its backend resets when it is read, a
string, and one that is never looked at), configurations with up to four actions in two sections and up
to two functions, with and without `multiple_actions`, for both engines, and one read that fails.
More matches than entries, an option that is overridden in the device's section, and an option with
two entries are among them. It shows:

- `SaneTableInBounds`: nothing is written behind the arrays. The test for that, in the code, comes only
  in one branch; the other branches need none;
- `EveryActionStands`: an action that matches has its entry, unless a later one overrides it or earlier
  ones have filled the table;
- `OneScriptPerOption`: without `multiple_actions` one change never runs two scripts;
- `ActionsMatchChanges`: after every cycle what has run is what changed between two reads or was asked
  for, all of it and nothing else, although a read resets the option, a read may fail, and a change
  takes the place of an action that was asked for;
- `PressFires`: once the first cycle is over, a press runs its actions.

`OptionTable_env` *violates* `FunctionValuePassed`: a function on an option that also has an action is
passed 0, where the comment promises the value that was read.

A known limit: `scbtn_find_matching_options` of the other engine has no test for a full table
(`TableInBounds` says what would be needed). The runs give it configurations whose matches fit.

Fairness: `WF` on the poller, a thread whose scripts and sleeps end. Deadlock is not checked: an
assertion on the functions may end scanbd (`aborted`), and the poller of the other engine leaves this
module when its table is built.

### Proofs

`OptionTable_proofs` proves `TypeCorrect`, `TableBounded`, `ActionsStand`, `OneScript` and
`ActionsExact`, the theorems of `TypeOK` and the four invariants above, for every device, configuration
and number of failing reads. The inductive invariant has these parts: `LoopInv` and `TriggerInv` (what the place in the code says of
`si`, `triggered` and the environment), `ValuesInv` (an entry holds what the last read of its option
gave, before its turn that of the cycle before), `RunsInv` (what has run among the entries that had
their turn is what changed or was asked for), and `TableInv` with `EntriesPassed` and `FunctionsUsable`
(entries come from positions the loops have passed; functions are distinct and usable, hence fewer than
the options). Only model-checked: `PressFires`.

## 8. ScbtnPolling

### State and code

| variables | code |
|---|---|
| `plugged`, `seen`, `lost` | the bus; what `usb_find_devices` has reported of it |
| `claim` | who has claimed the interface of each scanner |
| `loaded`, `attached`, `current`, `isOpen` | the backends of `meta.c`: loaded, `meta_scanners`, those entries whose device is still there, their `is_open` |
| `next` | the backend that `scanbtnd_init` loads next |
| `devices`, `freed` | `scbtn_device_list`; whether its entries have been freed |
| `polling`, `slots` | `scbtn_poll_threads`, by the scanner of each slot |
| `ppc`, `ready`, `triggered`, `cancelled` | per poller its place, whether it has matched its actions, `triggered`, a pending `pthread_cancel` |
| `owner`, `idx` | `scbtn_mutex` (recursive), loop variable of the stop |
| `todo` | per thread of scanbd the calls it has before it |
| `tpc`, `tdev` | the thread of `scbtn_trigger_action` |
| `alarm`, `events`, `session` | the timer, the udev monitor's queue, scanbm |
| `ub` | the undefined behaviour the program met, if any |
| `hotplug`, `used`, `alone` | built with udev; bound; history: no two handlers have overlapped |
| `missed` | history: the scanners whose change was consumed by a look that told neither their backend nor anyone who loads it again |

A handler is a sequence of calls: HUP, ALRM and an added device are stop, shutdown, init, list, start
(`Reload`); a removed device is the first three of them (`Removed`). A signal puts its sequence, and its
name as the mark of the handler's frame, before what main was at. `Stop*`, `Shutdown`, `InitBackends`,
`GetDevices`, `Start*` are the calls; `Poll*` the poller; `Trig*` the trigger. `Refused` is what makes
`scanbtnd_open` fail: the bus has changed, which the question itself makes forget (`Look`), the scanner
is open or claimed by another. `Unplug` is also the old libusb's part: it frees a device that has gone at
the next look.

`InitBackends` is one backend's load: it looks at the bus for itself (`meta.c` 127, `epson.c` 150,
`libusbi.c` 201), finds the scanners that are its own (`Driver`) and leaves the rest to the backends
after it. Plugs and unplugs, and other threads, come in between. The look of the meta backend itself
(`meta.c` 180) is part of the first one, as nothing is listed from it.

Undefined behaviour ends the behaviour: `unloaded` (a call into backends that are not loaded), `torn`
(backends unloaded under pollers), `overrun` (a stop over another array), `freed` (pollers for entries
that were freed), `slot` (a trigger for a slot that is not there), `nested` (a handler inside a stop of
the same thread), `device` (an open of a freed USB device).

A poller that asks while it is cancelled may end before `alarm()`: in the log messages on the way
there at the latest (`PollCancelledAsking`). Then the change is consumed and nobody acts on it.

Abstractions: `st->mutex` is never held across an action; of the places where a cancellation acts, the
waits and the failed reopen are told apart from the rest; each scanner is known to one backend; the
load of the backends when scanbd starts is over at `Init`, and found every scanner; the time limit of a D-Bus call and the sessions by signals are left to `Daemon`; each
scanner has at least one matching action; what a round finds is a choice (`ButtonRound`); `si`, which
is static and shared by all pollers, is none of theirs here.

### Runs

`ScbtnPolling` has two scanners with a backend each, with udev and without, and any two events among
plugging, unplugging, HUP, a session, a trigger and another program's claim. The alarm, buttons and what
`saned` does are not counted. Two scanners give one whose poller ends while the other's goes on and the
alarm of one that reloads both; two backends one that has looked while the other looks; two events an
event that meets the consequences of another. It shows:

- `ClaimHasPoller`: a claimed interface belongs to a poller that polls or that a stop is about to close;
- `ChangeNotLost`: `usb_find_devices` reports a change once, to whoever asks. As long as a backend does
  not have the present device of a scanner, the backends are about to be loaded; or, with udev, an event
  is waiting; or, without, the bus still has the change to report, or the alarm runs, or the scanner is
  in `missed`;
- `AloneIsSafe`: handlers that do not overlap touch nothing that was freed or unloaded. What remains is
  named in it: a trigger's number and a freed USB device, and the start after a removed device;
- `SlotsOutlivePollers`: the array of slots, which a stop frees (`scanbuttond_wrapper.c` 964), is replaced
  only when no poller is left that points into it and no trigger waits in it;
- `HandlersReturn`: every handler comes to its end;
- `PollingComesBack`: every scanner is polled again and again.

The liveness properties name what they except. A removed device leaves a list of freed entries and no
pollers until the next reload (`dbus.c` 500); without udev a scanner that its backend does not have may
stay unpolled; and `Wedged`: a trigger that comes after a poller has given its scanner up and before the
alarm rings is set in a slot that nobody serves, and the next stop waits for it. `HandlersReturn` and
`PollingComesBack` are claimed up to `ub`.

Known limits: the open of the meta backend fails "to make scanbuttond update its device list" (`meta.c`
249), but without udev two changes never lead to that: a scanner that is plugged in or out after its own
backend's look and before a later one's, which consumes the change; and one that a poller has asked
about when a stop cancels it before the alarm. They last until the next reload. With udev an event is
queued for both. `missed` is set by exactly these two steps. SIGALRM is in none of the masks and its
handler masks no HUP (`scanbd.c` 219-233), so a reload can begin inside a stop (`nested`); the alarm may
restart the polling during a session, as hotplug does; `scanbtnd_rescan` of the meta backend is never
called.

Fairness: `WF` on each thread's calls, on each poller and on the answers of the other threads, and other
programs leave scanners in the end; `SF` on the two waits for `triggered`, which the poller leaves
unset for the settle time after every script. Pressing, plugging and calling are not fair. Deadlock is
not checked: the system may stop at `ub`.

### Proofs

`ScbtnPolling_proofs` proves, for any number of scanners, backends and events, under
`BoundAssumption` and `BackendAssumption` (each scanner has one of finitely many backends):

| theorem | states |
|---|---|
| `Inductive` | `Spec => []IInv` |
| `TypeCorrect` | `Spec => []TypeOK` |
| `ClaimPolled` | `Spec => []ClaimHasPoller` |
| `ChangeKept` | `Spec => []ChangeNotLost` |
| `SafeAlone` | `Spec => []AloneIsSafe` |
| `SlotsKept` | `Spec => SlotsOutlivePollers` |

What protects the lists is the order of calls, so the invariant speaks of the sequences in `todo`.

- `OwnerInv`: a call that needs `scbtn_mutex` stands first in its sequence, but for a start behind the
  stop it has begun with (`Positions`); the owner is the thread that has such a call before it (`Holds`),
  or the trigger at its slot, whose number is then in range.
- `SlotInv`: a stop that cancels or joins has an array to work on, and the slots before its `idx` are
  `Clean`: no thread, no flag. `SlotsOutlivePollers` is its last instance, `idx` past the end.
- `LoadInv`: while the backends are unloaded there are no slots and no list but a freed one, and every shutdown ahead is
  followed by an init. An init that has lost its shutdown (`Bare`) is one that is due now. There is one at
  most, in all threads together, since a second shutdown would meet unloaded backends, which is `ub`.
- `BusInv`: `ChangeNotLost` is not inductive. It compares the backends with the bus, and to unplug a
  scanner that was plugged in unnoticed makes them equal again while an earlier answer is out of date.
  `BusInv` compares them with what `usb_find_devices` has reported (`seen`), and while the backends are
  being loaded only those that have had their turn (`Driver[s] < next`). A load that is due is then not
  enough: it must still come to this scanner's backend (`Awaited`).
- `AloneInv`: while no two handlers have overlapped, one thread at most has calls before it, they follow
  one another as in the source (`Follows`), and shutdown, init and list find no pollers.
- `SessionInv`, beside them: the D-Bus thread has nothing before it while `saned` runs, so that the end of
  a session finds an empty sequence to put its start into.

Four kinds of steps change a sequence: the first call is done (`Popped`), gives way to the next part of
the same function (`Swapped`), a start puts its stop before it (`Doubled`), a signal its handler
(`Pushed`). Each has its lemmas about the parts above, and every action is one of them or none. Of the
list of scanners (`Listing`, a `CHOOSE`) only that it has each scanner once is known and needed.

Only model-checked: `HandlersReturn` and `PollingComesBack` (liveness).

## 9. Not modelled

- The display (`lcd.rb`) reads the list, the key and the files once a second and changes nothing that
  the others see. Two hazards are its own: a row that finds the head of the list gone since the row
  before, and the key `scanning` that a killed scan leaves behind. Its module, `LcdDisplay`, would
  compose with `ScanPipeline`.
- D-Bus marshalling and the signals to listeners, libconfuse, logging, daemonizing, USB and I2C input
  and output: work of libraries and the kernel, without state of this program. HAL is not built.
- The test programs, which are run by hand.
- Container, supervision and configuration files, except for what `supervisor.conf` says of the
  workers and `scanbd.conf` of the actions.

Out of the reach of TLAPS, and left to TLC: the liveness properties, which need fairness and `ENABLED`.
No module has a recursive operator.

A hazard in `PROJECT.json` without a property has a note that says why: mostly that the model has the
step and the code goes wrong there, but no document promises otherwise.
