---------------------------- MODULE ScanPipeline ----------------------------
(***************************************************************************)
(* The way of a scan through the Ruby application.  scan.rb fills a        *)
(* directory with pages and submits it.  The job worker lists it in Redis  *)
(* and makes a Sidekiq batch with one job per page; the page workers       *)
(* deskew and normalize them in parallel.  When every page has run, the    *)
(* batch calls Postprocessor, which merges the pages into one document,    *)
(* uploads it to up to three destinations and removes the directory.       *)
(* Sidekiq runs a job or a callback that raises again, from its start.     *)
(*                                                                         *)
(* A step is what one process does between two effects that another can    *)
(* see.  The queues, the retries and the batch are Sidekiq's, modelled as  *)
(* lib/ relies on them.                                                    *)
(***************************************************************************)
EXTENDS Integers, Sequences, FiniteSets

CONSTANTS
  Scan,          \* the calls of scan.rb, each with a directory of its own
  Kept,          \* those with a directory on the command line, not removed
  MaxPages,      \* bound on the pages of a scan
  Channels,      \* the destinations that are configured
  PageThreads,   \* concurrency of the page queue's Sidekiq
  Retries,       \* how often Sidekiq runs a failed job again
  MaxFailures,   \* bound on the commands and uploads that fail
  MaxKills,      \* bound on the processes that are killed
  None           \* the job thread has no work

Destination == {"gdrive", "post", "email"}
Before == {<<"gdrive", "post">>, <<"gdrive", "email">>, <<"post", "email">>}

ASSUME ScanAssumption ==
  IsFiniteSet(Scan) /\ Kept \subseteq Scan /\ None \notin Scan

ASSUME PipelineAssumption ==
  /\ Channels \subseteq Destination
  /\ MaxPages \in Nat \ {0} /\ PageThreads \in Nat \ {0}
  /\ Retries \in Nat /\ MaxFailures \in Nat /\ MaxKills \in Nat

\* <<s, p>> is the job of page p of scan s, <<s, 0>> the batch's callback.
Task == Scan \X (0..MaxPages)
Page(t) == t[2] # 0

VARIABLES
  script,        \* where the process scan.rb of each scan is
  scanning,      \* the Redis key "scanning" is set
  dirs,          \* the scans whose directory exists
  pages,         \* number of files_to_process in the directory
  normalized,    \* page jobs whose *_normalized file exists
  document,      \* the pages merged into postprocessed.pdf
  jobs,          \* the Redis list "jobs"
  jobQueue,      \* Sidekiq queue "job": scans to perform
  callbackQueue, \* Sidekiq queue "default": callbacks of batches
  pageQueue,     \* Sidekiq queue "page"
  running,       \* the page jobs the page workers are at
  jpc,           \* where the only thread of the job worker is
  jscan,         \* the scan it works on
  ran,           \* per batch: the pages that have run at least once
  failed,        \* per batch: the pages whose last run failed
  called,        \* per batch: the complete callback has been queued
  retry,         \* tasks waiting for their next run
  dead,          \* tasks that have used up their retries
  tries,         \* failed runs of each task
  received,      \* what each destination got of each scan, in order
  failures,      \* failures so far, up to MaxFailures
  kills          \* kills so far, up to MaxKills

scanVars  == <<script, scanning>>
dirVars   == <<dirs, normalized, document>>
queueVars == <<jobQueue, callbackQueue, pageQueue>>
batchVars == <<ran, failed, called>>
retryVars == <<retry, dead, tries>>
vars == <<scanVars, dirVars, pages, jobs, queueVars, running, jpc, jscan,
          batchVars, retryVars, received, failures, kills>>

ScriptPc == {"none", "scan", "submit", "done"}
JobPc == {"idle", "job", "batch", "callback", "merge", "gdrive", "post",
          "email", "pop", "rm", "pop_empty", "rm_empty"}

Init ==
  /\ script = [s \in Scan |-> "none"]
  /\ scanning = FALSE
  /\ dirs = Kept
  /\ pages = [s \in Scan |-> 0]
  /\ normalized = {}
  /\ document = [s \in Scan |-> {}]
  /\ jobs = <<>> /\ jobQueue = <<>> /\ callbackQueue = <<>> /\ pageQueue = <<>>
  /\ running = {}
  /\ jpc = "idle" /\ jscan = None
  /\ ran = [s \in Scan |-> {}]
  /\ failed = [s \in Scan |-> {}]
  /\ called = [s \in Scan |-> FALSE]
  /\ retry = {} /\ dead = {}
  /\ tries = [t \in Task |-> 0]
  /\ received = [s \in Scan |-> [ch \in Channels |-> <<>>]]
  /\ failures = 0 /\ kills = 0

-----------------------------------------------------------------------------
(* scan.rb: the process scanbd starts when the button is pressed           *)

\* Scanner.perform: a fresh directory, the key, scanimage.
StartScan(s) ==
  /\ script[s] = "none" /\ s \notin Kept
  /\ script' = [script EXCEPT ![s] = "scan"]
  /\ scanning' = TRUE
  /\ dirs' = dirs \cup {s}
  /\ UNCHANGED <<normalized, document, pages, jobs, queueVars, running, jpc,
                 jscan, batchVars, retryVars, received, failures, kills>>

\* scanimage ends, well or not: any number of pages is there.
EndScan(s) ==
  /\ script[s] = "scan"
  /\ script' = [script EXCEPT ![s] = "submit"]
  /\ scanning' = FALSE
  /\ \E n \in 0..MaxPages : pages' = [pages EXCEPT ![s] = n]
  /\ UNCHANGED <<dirVars, jobs, queueVars, running, jpc,
                 jscan, batchVars, retryVars, received, failures, kills>>

\* With a directory on the command line nothing is scanned.
TakeDirectory(s) ==
  /\ script[s] = "none" /\ s \in Kept
  /\ script' = [script EXCEPT ![s] = "submit"]
  /\ \E n \in 0..MaxPages : pages' = [pages EXCEPT ![s] = n]
  /\ UNCHANGED <<scanning, dirVars, jobs, queueVars,
                 running, jpc, jscan, batchVars, retryVars, received,
                 failures, kills>>

Submit(s) ==
  /\ script[s] = "submit"
  /\ script' = [script EXCEPT ![s] = "done"]
  /\ jobQueue' = Append(jobQueue, s)
  /\ UNCHANGED <<scanning, dirVars, pages, jobs, callbackQueue, pageQueue,
                 running, jpc, jscan, batchVars, retryVars, received,
                 failures, kills>>

-----------------------------------------------------------------------------
(* The job worker: one thread, the queue "job" before the queue "default"  *)

JobFrame == UNCHANGED <<scanVars, pages, running, ran, failed,
                        kills>>
At(pc) == jpc = pc
Goto(pc) == jpc' = pc /\ UNCHANGED jscan
Release == jpc' = "idle" /\ jscan' = None

TakeJob ==
  /\ At("idle") /\ jobQueue # <<>>
  /\ jpc' = "job" /\ jscan' = Head(jobQueue)
  /\ jobQueue' = Tail(jobQueue)
  /\ UNCHANGED <<dirVars, jobs, callbackQueue, pageQueue, called,
                 retryVars, received, failures>> /\ JobFrame

TakeCallback ==
  /\ At("idle") /\ jobQueue = <<>> /\ callbackQueue # <<>>
  /\ jpc' = "callback" /\ jscan' = Head(callbackQueue)[1]
  /\ callbackQueue' = Tail(callbackQueue)
  /\ UNCHANGED <<dirVars, jobs, jobQueue, pageQueue, called,
                 retryVars, received, failures>> /\ JobFrame

\* Mutant: a scan with pages is cleaned up as an empty one is.
PerformCleans ==
  /\ At("job")
  /\ jobs' = Append(jobs, jscan)
  /\ Goto("pop_empty")
  /\ UNCHANGED <<dirVars, queueVars, called, retryVars, received,
                 failures>> /\ JobFrame

\* Job.perform up to the batch.
Perform ==
  /\ At("job")
  /\ jobs' = Append(jobs, jscan)
  /\ Goto(IF pages[jscan] = 0 THEN "pop_empty" ELSE "batch")
  /\ UNCHANGED <<dirVars, queueVars, called, retryVars, received,
                 failures>> /\ JobFrame

\* A batch without jobs has nothing that could complete it.
MakeBatch ==
  /\ At("batch")
  /\ pageQueue' = pageQueue \o [p \in 1..pages[jscan] |-> <<jscan, p>>]
  /\ Release
  /\ UNCHANGED <<dirVars, jobs, jobQueue, callbackQueue, called,
                 retryVars, received, failures>> /\ JobFrame

-----------------------------------------------------------------------------
(* Postprocessor.on_complete and Job.postprocess_scanfiles                 *)

\* Mutant: the failures of the batch are not looked at.
OnCompleteBlind ==
  /\ At("callback")
  /\ Goto("merge")
  /\ UNCHANGED <<dirVars, jobs, queueVars, called, retryVars, received,
                 failures>> /\ JobFrame

OnComplete ==
  /\ At("callback")
  /\ Goto(IF failed[jscan] = {} THEN "merge" ELSE "pop")
  /\ UNCHANGED <<dirVars, jobs, queueVars, called, retryVars, received,
                 failures>> /\ JobFrame

\* A step of the callback raises: Sidekiq runs it again, or gives it up.
Fail(t) ==
  /\ tries' = [tries EXCEPT ![t] = @ + 1]
  /\ IF tries[t] < Retries
     THEN retry' = retry \cup {t} /\ UNCHANGED dead
     ELSE dead' = dead \cup {t} /\ UNCHANGED retry
MayFail == failures < MaxFailures /\ failures' = failures + 1
Raise == MayFail /\ Fail(<<jscan, 0>>) /\ Release

Merge ==
  /\ At("merge")
  /\ \/ /\ document' = [document EXCEPT ![jscan] =
                           {t[2] : t \in {u \in normalized : u[1] = jscan}}]
        /\ Goto("gdrive")
        /\ UNCHANGED <<retryVars, failures>>
     \/ Raise /\ UNCHANGED document
  /\ UNCHANGED <<dirs, normalized, jobs, queueVars, called, received>>
  /\ JobFrame

After == [gdrive |-> "post", post |-> "email", email |-> "pop"]

Receive(ch) ==
  received' = [received EXCEPT ![jscan][ch] = Append(@, document[jscan])]

\* Mutant: an upload that fails is logged and the next one is tried.
UploadRescued(ch) ==
  /\ At(ch)
  /\ \/ /\ ch \notin Channels
        /\ Goto(After[ch]) /\ UNCHANGED <<received, retryVars, failures>>
     \/ /\ ch \in Channels /\ Receive(ch)
        /\ Goto(After[ch]) /\ UNCHANGED <<retryVars, failures>>
     \/ /\ ch \in Channels
        /\ MayFail /\ Goto(After[ch]) /\ UNCHANGED <<received, retryVars>>
  /\ UNCHANGED <<dirVars, jobs, queueVars, called>> /\ JobFrame

\* upload_gdrive, upload, send_email.  A failed upload may have arrived.
Upload(ch) ==
  /\ At(ch)
  /\ \/ /\ ch \notin Channels
        /\ Goto(After[ch]) /\ UNCHANGED <<received, retryVars, failures>>
     \/ /\ ch \in Channels /\ Receive(ch)
        /\ \/ Goto(After[ch]) /\ UNCHANGED <<retryVars, failures>>
           \/ Raise
     \/ /\ ch \in Channels
        /\ Raise /\ UNCHANGED received
  /\ UNCHANGED <<dirVars, jobs, queueVars, called>> /\ JobFrame

\* clean_up: the head of the list goes, whichever scan it names.
CleanUpPop ==
  /\ jpc \in {"pop", "pop_empty"}
  /\ jobs' = IF jobs = <<>> THEN <<>> ELSE Tail(jobs)
  /\ Goto(IF At("pop") THEN "rm" ELSE "rm_empty")
  /\ UNCHANGED <<dirVars, queueVars, called, retryVars, received,
                 failures>> /\ JobFrame

RemoveDirectory ==
  /\ dirs' = dirs \ {jscan}
  /\ normalized' = {t \in normalized : t[1] # jscan}
  /\ document' = [document EXCEPT ![jscan] = {}]

\* Mutant: the directory of an empty scan is not removed.
CleanUpKeepsEmpty ==
  /\ jpc \in {"rm", "rm_empty"}
  /\ IF jscan \in Kept \/ At("rm_empty") THEN UNCHANGED dirVars
                                         ELSE RemoveDirectory
  /\ IF At("rm") THEN Release ELSE Goto("batch")
  /\ UNCHANGED <<jobs, queueVars, called, retryVars, received, failures>>
  /\ JobFrame

\* Mutant: clean_up does not look at to_be_removed.
CleanUpRemovesKept ==
  /\ jpc \in {"rm", "rm_empty"}
  /\ RemoveDirectory
  /\ IF At("rm") THEN Release ELSE Goto("batch")
  /\ UNCHANGED <<jobs, queueVars, called, retryVars, received, failures>>
  /\ JobFrame

CleanUpRemove ==
  /\ jpc \in {"rm", "rm_empty"}
  /\ IF jscan \in Kept THEN UNCHANGED dirVars ELSE RemoveDirectory
  /\ IF At("rm") THEN Release ELSE Goto("batch")
  /\ UNCHANGED <<jobs, queueVars, called, retryVars, received, failures>>
  /\ JobFrame

-----------------------------------------------------------------------------
(* The page workers: Page.process                                          *)

PageFrame == UNCHANGED <<scanVars, dirs, document, pages, jobs, jobQueue,
                         jpc, jscan, received, kills>>

StartPage ==
  /\ pageQueue # <<>> /\ Cardinality(running) < PageThreads
  /\ running' = running \cup {Head(pageQueue)}
  /\ pageQueue' = Tail(pageQueue)
  /\ UNCHANGED <<normalized, callbackQueue, batchVars, retryVars, failures>>
  /\ PageFrame

\* Sidekiq's batch, told that page job t has run: the callback is queued the
\* first time all jobs of the batch have run, however many of them failed.
Report(t) ==
  LET s == t[1]
      complete == ran'[s] = 1..pages[s] /\ ~called[s] IN
  /\ ran' = [ran EXCEPT ![s] = @ \cup {t[2]}]
  /\ called' = [called EXCEPT ![s] = @ \/ complete]
  /\ callbackQueue' = IF complete THEN Append(callbackQueue, <<s, 0>>)
                                  ELSE callbackQueue

EndPage(t) ==
  /\ t \in running /\ t[1] \in dirs
  /\ running' = running \ {t}
  /\ normalized' = normalized \cup {t}
  /\ failed' = [failed EXCEPT ![t[1]] = @ \ {t[2]}]
  /\ Report(t)
  /\ UNCHANGED <<pageQueue, retryVars, failures>> /\ PageFrame

\* convert fails; without the directory it cannot do otherwise.
FailPage(t) ==
  /\ t \in running
  /\ IF t[1] \in dirs THEN MayFail ELSE UNCHANGED failures
  /\ running' = running \ {t}
  /\ failed' = [failed EXCEPT ![t[1]] = @ \cup {t[2]}]
  /\ Report(t)
  /\ Fail(t)
  /\ UNCHANGED <<normalized, pageQueue>> /\ PageFrame

\* Sidekiq's poller: the time for the next run has come.
Retry(t) ==
  /\ t \in retry
  /\ retry' = retry \ {t}
  /\ IF Page(t)
     THEN pageQueue' = Append(pageQueue, t) /\ UNCHANGED callbackQueue
     ELSE callbackQueue' = Append(callbackQueue, t) /\ UNCHANGED pageQueue
  /\ UNCHANGED <<scanVars, dirVars, pages, jobs, jobQueue, running, jpc, jscan,
                 batchVars, dead, tries, received, failures, kills>>

-----------------------------------------------------------------------------
(* Kills.  What a killed Sidekiq was at is not in any queue any more.      *)

Killed == kills < MaxKills /\ kills' = kills + 1

KillScan(s) ==
  /\ Killed /\ script[s] = "scan"
  /\ script' = [script EXCEPT ![s] = "done"]
  /\ \E n \in 0..MaxPages : pages' = [pages EXCEPT ![s] = n]
  /\ UNCHANGED <<scanning, dirVars, jobs, queueVars,
                 running, jpc, jscan, batchVars, retryVars, received, failures>>

KillPages ==
  /\ Killed /\ running # {}
  /\ running' = {}
  /\ UNCHANGED <<scanVars, dirVars, pages, jobs, queueVars, jpc, jscan,
                 batchVars, retryVars, received, failures>>

KillJob ==
  /\ Killed /\ jpc # "idle"
  /\ Release
  /\ UNCHANGED <<scanVars, dirVars, pages, jobs, queueVars, running, batchVars,
                 retryVars, received, failures>>

-----------------------------------------------------------------------------
JobWorker ==
  \/ TakeJob \/ TakeCallback \/ Perform \/ MakeBatch
  \/ OnComplete \/ Merge \/ (\E ch \in Destination : Upload(ch))
  \/ CleanUpPop \/ CleanUpRemove

PageEnd(t) == EndPage(t) \/ FailPage(t)

Next ==
  \/ \E s \in Scan : \/ StartScan(s) \/ EndScan(s) \/ TakeDirectory(s)
                     \/ Submit(s) \/ KillScan(s)
  \/ JobWorker
  \/ StartPage \/ \E t \in Task : PageEnd(t) \/ Retry(t)
  \/ KillPages \/ KillJob

Spec == Init /\ [][Next]_vars

(***************************************************************************)
(* A submitted scan is worked on: Sidekiq fetches whenever a thread is     *)
(* idle, commands and uploads end, and a retry's time comes.  Nobody has   *)
(* to press the button.                                                    *)
(***************************************************************************)
Fairness ==
  /\ WF_vars(JobWorker)
  /\ WF_vars(StartPage)
  /\ \A t \in Task : WF_vars(PageEnd(t)) /\ WF_vars(Retry(t))
  /\ \A s \in Scan : WF_vars(EndScan(s)) /\ WF_vars(Submit(s))

FairSpec == Spec /\ Fairness

-----------------------------------------------------------------------------
(* Properties                                                              *)

\* Every variable keeps its range; the counters their bounds.
TypeOK ==
  /\ script \in [Scan -> ScriptPc] /\ scanning \in BOOLEAN
  /\ Kept \subseteq dirs /\ dirs \subseteq Scan
  /\ normalized \subseteq Task
  /\ document \in [Scan -> SUBSET (1..MaxPages)]
  /\ pages \in [Scan -> 0..MaxPages]
  /\ jobs \in Seq(Scan) /\ jobQueue \in Seq(Scan)
  /\ callbackQueue \in Seq(Task) /\ pageQueue \in Seq(Task)
  /\ running \subseteq Task /\ Cardinality(running) <= PageThreads
  /\ jpc \in JobPc /\ jscan \in Scan \cup {None}
  /\ ran \in [Scan -> SUBSET (1..MaxPages)]
  /\ failed \in [Scan -> SUBSET (1..MaxPages)]
  /\ called \in [Scan -> BOOLEAN]
  /\ retry \subseteq Task /\ dead \subseteq Task
  /\ tries \in [Task -> 0..(Retries + 1)]
  /\ received \in [Scan -> [Channels -> Seq(SUBSET (1..MaxPages))]]
  /\ failures \in 0..MaxFailures /\ kills \in 0..MaxKills

\* What a destination receives is the whole document: every page of the scan,
\* each normalized, however page jobs fail, are run again and overtake each
\* other (job.rb: any_pages_failed, merge, upload*).
DeliveredWhole ==
  \A s \in Scan : \A ch \in Channels :
    \A i \in 1..Len(received[s][ch]) : received[s][ch][i] = 1..pages[s]

\* A destination gets at most one copy per run of the callback, and no
\* destination gets more copies than one that comes before it: a callback that
\* raises goes no further (job.rb: postprocess_scanfiles).
CopiesInOrder ==
  LET Copies(s, ch) == Len(received[s][ch]) IN
  \A s \in Scan :
    /\ \A ch \in Channels : Copies(s, ch) <= tries[<<s, 0>>] + 1
    /\ \A b \in Before \cap (Channels \X Channels) :
         Copies(s, b[2]) <= Copies(s, b[1])

\* A directory is not removed before each of its pages has run at least once;
\* so no page job finds its pages gone on its first run (job.rb: perform,
\* clean_up).
DirectoryOutlivesPages ==
  \A s \in Scan :
    script[s] = "done" /\ s \notin dirs => ran[s] = 1..pages[s]

\* The scans somebody works on or will work on, before they are cleaned up.
PagesToRun(s) == \E p \in 1..MaxPages :
  /\ <<s, p>> \in running \cup retry
                  \cup {pageQueue[i] : i \in 1..Len(pageQueue)}
  /\ ~called[s]
CallbackToRun(s) ==
  \/ <<s, 0>> \in retry \cup {callbackQueue[i] : i \in 1..Len(callbackQueue)}
  \/ jscan = s /\ jpc \notin {"idle", "job", "rm", "rm_empty"}
Open(s) == PagesToRun(s) \/ (CallbackToRun(s) /\ ~(jpc = "batch" /\ pages[s] = 0))

\* The list "jobs", which keeps the display on, has an entry for every scan
\* that is being worked on, although clean_up pops whatever is at its head:
\* no scan takes two entries away (job.rb: perform, clean_up; lcd.rb: loop).
OpenScansListed == Len(jobs) >= Cardinality({s \in Scan : Open(s)})

\* A directory of scan.rb's own is removed only when its document has reached
\* every destination: "get your scans automatically OCR'd and uploaded to
\* Google Drive or sent via E-Mail" (README.md:3).
NoScanLost ==
  \A s \in Scan : \A ch \in Channels :
    script[s] = "done" /\ s \notin dirs /\ pages[s] > 0
      => received[s][ch] # <<>>

\* Every submitted scan ends: it gets its entry in the list (job.rb:19), and one
\* that has an entry loses it, and its directory unless that was given on the
\* command line.  What Sidekiq has given up or lost never ends, and may leave its
\* entry to any other scan.
Listed(s) == s \in {jobs[i] : i \in 1..Len(jobs)}
EveryScanEnds ==
  \A s \in Scan :
    /\ script[s] = "submit" ~> Listed(s) \/ kills > 0
    /\ Listed(s) ~> \/ ~Listed(s) /\ (s \in Kept \/ s \notin dirs)
                    \/ \E u \in Scan : <<u, 0>> \in dead
                    \/ kills > 0

\* Every submitted scan with pages, none of which ever fails, reaches every
\* destination, whatever uploads fail and are tried again in between, unless
\* Sidekiq has given it up or lost it.
EveryScanDelivered ==
  \A s \in Scan : \A ch \in Channels :
    script[s] = "submit" /\ pages[s] > 0
      ~> \/ received[s][ch] # <<>>
         \/ \E p \in 1..MaxPages : tries[<<s, p>>] > 0
         \/ <<s, 0>> \in dead \/ kills > 0

\* The scans whose pages are complete, and those that had a page fail.
filled == {s \in Scan : script[s] \in {"submit", "done"}}
flawed == {s \in Scan : \E p \in 1..MaxPages : tries[<<s, p>>] > 0}

Delivery == INSTANCE ScanDelivery WITH
              Scan <- Scan, Kept <- Kept, MaxPages <- MaxPages,
              Channels <- Channels, Before <- Before,
              dirs <- dirs, pages <- pages, received <- received,
              filled <- filled, flawed <- flawed

\* What all processes, queues and retries together do is a delivery: copies
\* arrive whole and in order, none from a directory that is gone, and no
\* directory goes before its document has arrived everywhere, unless it is
\* empty or a page has failed (job.rb: perform, postprocess_scanfiles).
DeliveryKept == Delivery!Spec
=============================================================================
