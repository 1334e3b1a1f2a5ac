------------------------ MODULE ScanPipeline_proofs ------------------------
(***************************************************************************)
(* Proofs about module ScanPipeline, for every number of scans, pages,     *)
(* destinations, workers, retries, failures and kills: what is delivered   *)
(* is whole, nothing is removed too early, the list of jobs shows all work *)
(* in progress, and the pipeline implements module ScanDelivery.           *)
(***************************************************************************)
EXTENDS ScanPipeline, FiniteSetTheorems, SequenceTheorems, TLAPS

-----------------------------------------------------------------------------
(* The inductive invariant                                                 *)

\* TypeOK, in parts.
TypeDirs ==
  /\ script \in [Scan -> ScriptPc] /\ scanning \in BOOLEAN
  /\ Kept \subseteq dirs /\ dirs \subseteq Scan
  /\ normalized \subseteq Task
  /\ document \in [Scan -> SUBSET (1..MaxPages)]
  /\ pages \in [Scan -> 0..MaxPages]
TypeQueues ==
  /\ jobs \in Seq(Scan) /\ jobQueue \in Seq(Scan)
  /\ callbackQueue \in Seq(Task) /\ pageQueue \in Seq(Task)
  /\ jpc \in JobPc /\ jscan \in Scan \cup {None}
TypeRunning ==
  /\ running \subseteq Task /\ Cardinality(running) <= PageThreads
  /\ IsFiniteSet(running)
TypeBatch ==
  /\ ran \in [Scan -> SUBSET (1..MaxPages)]
  /\ failed \in [Scan -> SUBSET (1..MaxPages)]
  /\ called \in [Scan -> BOOLEAN]
TypeTries ==
  /\ retry \subseteq Task /\ dead \subseteq Task
  /\ tries \in [Task -> 0..(Retries + 1)]
TypeRest ==
  /\ received \in [Scan -> [Channels -> Seq(SUBSET (1..MaxPages))]]
  /\ failures \in 0..MaxFailures /\ kills \in 0..MaxKills
Types == /\ TypeDirs /\ TypeQueues /\ TypeRunning /\ TypeBatch /\ TypeTries
         /\ TypeRest

Elems(q) == {q[i] : i \in 1..Len(q)}
Distinct(q) == \A i, j \in 1..Len(q) : q[i] = q[j] => i = j

QueuesDistinct ==
  Distinct(jobQueue) /\ Distinct(callbackQueue) /\ Distinct(pageQueue)

queuedJobs == Elems(jobQueue)
queuedCallbacks == Elems(callbackQueue)
queuedPages == Elems(pageQueue)

CallbackTask == Scan \X {0}
PageTask == Scan \X (1..MaxPages)

JobPhase == {"job", "pop_empty", "rm_empty", "batch"}
Serving == {"callback", "merge", "gdrive", "post", "email"}
CallbackPhase == Serving \cup {"pop", "rm"}

\* Who holds the job of scan s, the callback of its batch, and page job t.
AtJob(s) == jscan = s /\ jpc \in JobPhase
AtCallback(s) == jscan = s /\ jpc \in CallbackPhase
HasJob(s) == s \in queuedJobs \/ AtJob(s)
HasCallback(s) == <<s, 0>> \in queuedCallbacks \cup retry \/ AtCallback(s)
HasPage(s, p) == <<s, p>> \in queuedPages \cup running \cup retry

\* Nothing is in two places.
QueueInv ==
  /\ jpc = "idle" <=> jscan = None
  /\ QueuesDistinct
  /\ queuedCallbacks \subseteq CallbackTask
  /\ queuedPages \cup running \subseteq PageTask
  /\ queuedCallbacks \cap retry = {}
  /\ queuedPages \cap running = {}
  /\ (queuedPages \cup running) \cap retry = {}
  /\ \A s \in Scan : s \in queuedJobs => ~AtJob(s)
  /\ \A s \in Scan : <<s, 0>> \in queuedCallbacks \cup retry => ~AtCallback(s)

\* How far a scan is.
Stage(s) ==
  /\ script[s] = "none" => (s \in dirs <=> s \in Kept)
  /\ script[s] \in {"scan", "submit"} => s \in dirs
  /\ script[s] # "done" \/ HasJob(s) =>
       ~called[s] /\ ran[s] = {} /\ \A p \in 1..MaxPages : ~HasPage(s, p)
  /\ script[s] # "done" => ~HasJob(s)
  /\ HasCallback(s) => called[s] /\ s \in dirs
  /\ called[s] => ran[s] = 1..pages[s] /\ pages[s] > 0
  /\ script[s] = "done" /\ s \notin dirs => pages[s] = 0 \/ called[s]
  /\ jscan = s /\ jpc \in {"pop_empty", "rm_empty"} => pages[s] = 0
StageInv == \A s \in Scan : Stage(s)

\* What the runs of page p of scan s have left.
PageState(s, p) ==
  /\ p \in ran[s] => p <= pages[s]
  /\ HasPage(s, p) => p <= pages[s] /\ tries[<<s, p>>] <= Retries
  /\ HasPage(s, p) /\ p \in ran[s] => p \in failed[s]
  /\ <<s, p>> \in normalized => p \in ran[s]
  /\ p \in ran[s] /\ p \notin failed[s] /\ s \in dirs
       => <<s, p>> \in normalized
  /\ p \in failed[s] => tries[<<s, p>>] > 0
  /\ p \notin ran[s] => tries[<<s, p>>] = 0
PageInv == \A s \in Scan : \A p \in 1..MaxPages : PageState(s, p)

\* What the runs of the callback of s have left.
CallState(s) ==
  /\ <<s, 0>> \notin normalized
  /\ ~called[s] => tries[<<s, 0>>] = 0
  /\ HasCallback(s) => tries[<<s, 0>>] <= Retries
  /\ jscan = s /\ jpc \in Serving \ {"callback"} => failed[s] = {}
  /\ jscan = s /\ jpc \in {"gdrive", "post", "email"}
       => document[s] = 1..pages[s]
CallInv == \A s \in Scan : CallState(s)

Copies(s, ch) == Len(received[s][ch])

\* The destinations that the running callback of s has been through.
Served(s) == IF jscan = s /\ jpc = "post" THEN {"gdrive"}
             ELSE IF jscan = s /\ jpc = "email" THEN {"gdrive", "post"}
             ELSE {}

\* The callback of s will still serve the other destinations.
WillServe(s) ==
  \/ <<s, 0>> \in queuedCallbacks \cup retry
  \/ jscan = s /\ jpc \in Serving

CopyState(s, ch) ==
  /\ \A i \in 1..Copies(s, ch) : received[s][ch][i] = 1..pages[s]
  /\ ~called[s] => Copies(s, ch) = 0
  /\ Copies(s, ch) <= tries[<<s, 0>>] + 1
  /\ \A d \in Channels : <<d, ch>> \in Before => Copies(s, ch) <= Copies(s, d)
  /\ ch \in Served(s) => Copies(s, ch) > 0
  /\ WillServe(s) /\ ch \notin Served(s) =>
       /\ Copies(s, ch) <= tries[<<s, 0>>]
       /\ \A d \in Channels \cap Served(s) : Copies(s, ch) < Copies(s, d)
CopyInv == \A s \in Scan : \A ch \in Channels : CopyState(s, ch)

\* A scan leaves its callback only flawed or delivered everywhere.
DoneInv ==
  jpc \in {"pop", "rm"} =>
    jscan \in flawed \/ \A ch \in Channels : Copies(jscan, ch) > 0

\* Scan s has still to take an entry off the list.
Owes(s) ==
  \/ ~called[s] /\ \E p \in 1..MaxPages : HasPage(s, p)
  \/ <<s, 0>> \in queuedCallbacks \cup retry
  \/ AtCallback(s) /\ jpc # "rm"
  \/ jscan = s /\ (jpc = "pop_empty" \/ (jpc = "batch" /\ pages[s] > 0))
ListInv == Len(jobs) >= Cardinality({s \in Scan : Owes(s)})

IInv ==
  /\ Types /\ QueueInv /\ StageInv /\ PageInv /\ CallInv /\ CopyInv
  /\ DoneInv /\ ListInv

-----------------------------------------------------------------------------
(* Queues                                                                  *)

\* The elements of a sequence are members of its base set.
LEMMA ElemsType ==
  ASSUME NEW S, NEW q \in Seq(S)
  PROVE  Elems(q) \subseteq S
BY DEF Elems

\* Append adds one element, and no duplicate if it is new.
LEMMA ElemsAppend ==
  ASSUME NEW S, NEW q \in Seq(S), NEW e \in S
  PROVE  /\ Append(q, e) \in Seq(S)
         /\ Elems(Append(q, e)) = Elems(q) \cup {e}
         /\ Distinct(q) /\ e \notin Elems(q) => Distinct(Append(q, e))
<1>1. /\ Len(Append(q, e)) = Len(q) + 1 /\ Len(q) \in Nat
      /\ \A i \in 1..Len(q) : Append(q, e)[i] = q[i]
      /\ Append(q, e)[Len(q) + 1] = e
  OBVIOUS
<1>2. ASSUME NEW x PROVE x \in Elems(Append(q, e)) <=> x \in Elems(q) \cup {e}
  <2>1. CASE x \in Elems(Append(q, e))
    <3>1. PICK i \in 1..(Len(q) + 1) : x = Append(q, e)[i]
      BY <1>1, <2>1 DEF Elems
    <3>. QED BY <1>1, <3>1 DEF Elems
  <2>2. CASE x \in Elems(q) \cup {e}
    <3>1. CASE x = e
      BY <1>1, <3>1 DEF Elems
    <3>2. CASE x \in Elems(q)
      BY <1>1, <3>2 DEF Elems
    <3>. QED BY <2>2, <3>1, <3>2
  <2>. QED BY <2>1, <2>2
<1>3. ASSUME Distinct(q), e \notin Elems(q) PROVE Distinct(Append(q, e))
  BY <1>1, <1>3 DEF Distinct, Elems
<1>. QED BY <1>2, <1>3

\* ElemsAppend for the queues of Sidekiq.
LEMMA TaskAppend ==
  ASSUME NEW q \in Seq(Task), NEW t \in Task, t \notin Elems(q), Distinct(q)
  PROVE  /\ Append(q, t) \in Seq(Task) /\ Distinct(Append(q, t))
         /\ Elems(Append(q, t)) = Elems(q) \cup {t}
BY ElemsAppend

\* Taking the head of a queue without duplicates removes it.
LEMMA ElemsTail ==
  ASSUME NEW S, NEW q \in Seq(S), q # <<>>, Distinct(q)
  PROVE  /\ Tail(q) \in Seq(S)
         /\ Head(q) \in S /\ Head(q) \in Elems(q)
         /\ Elems(Tail(q)) = Elems(q) \ {Head(q)}
         /\ Distinct(Tail(q))
<1>1. /\ Len(q) \in Nat \ {0} /\ Len(Tail(q)) = Len(q) - 1 /\ Head(q) = q[1]
      /\ \A i \in 1..(Len(q) - 1) : Tail(q)[i] = q[i + 1]
      /\ Tail(q) \in Seq(S) /\ q[1] \in S
  OBVIOUS
<1>2. ASSUME NEW x PROVE x \in Elems(Tail(q)) <=> x \in Elems(q) \ {q[1]}
  <2>1. CASE x \in Elems(Tail(q))
    <3>1. PICK i \in 1..(Len(q) - 1) : x = Tail(q)[i]
      BY <1>1, <2>1 DEF Elems
    <3>2. x = q[i + 1] /\ i + 1 \in 1..Len(q) /\ 1 \in 1..Len(q) /\ i + 1 # 1
      BY <1>1, <3>1
    <3>. QED BY <3>2 DEF Elems, Distinct
  <2>2. CASE x \in Elems(q) \ {q[1]}
    <3>1. PICK i \in 1..Len(q) : x = q[i] /\ i # 1
      BY <2>2 DEF Elems
    <3>2. i - 1 \in 1..(Len(q) - 1) /\ (i - 1) + 1 = i
      BY <1>1, <3>1
    <3>3. i - 1 \in 1..Len(Tail(q)) /\ Tail(q)[i - 1] = x
      BY <1>1, <3>1, <3>2
    <3>. QED BY <2>2, <3>3 DEF Elems
  <2>. QED BY <2>1, <2>2
<1>3. Distinct(Tail(q))
  <2>. SUFFICES ASSUME NEW i \in 1..(Len(q) - 1), NEW j \in 1..(Len(q) - 1),
                       Tail(q)[i] = Tail(q)[j]
                PROVE  i = j
    BY <1>1 DEF Distinct
  <2>1. q[i + 1] = q[j + 1] /\ i + 1 \in 1..Len(q) /\ j + 1 \in 1..Len(q)
    BY <1>1
  <2>2. i + 1 = j + 1
    BY <2>1 DEF Distinct
  <2>. QED BY <2>2
<1>4. q[1] \in Elems(q)
  BY <1>1 DEF Elems
<1>. QED BY <1>1, <1>2, <1>3, <1>4

\* The elements of a concatenation are those of its parts.
LEMMA ElemsConcat ==
  ASSUME NEW S, NEW q \in Seq(S), NEW r \in Seq(S)
  PROVE  /\ q \o r \in Seq(S)
         /\ Elems(q \o r) = Elems(q) \cup Elems(r)
         /\ Distinct(q) /\ Distinct(r) /\ Elems(q) \cap Elems(r) = {}
              => Distinct(q \o r)
<1>1. /\ Len(q) \in Nat /\ Len(r) \in Nat /\ Len(q \o r) = Len(q) + Len(r)
      /\ \A i \in 1..Len(q) : (q \o r)[i] = q[i]
      /\ \A i \in 1..Len(r) : (q \o r)[Len(q) + i] = r[i]
      /\ q \o r \in Seq(S)
  OBVIOUS
<1>2. \A i \in 1..(Len(q) + Len(r)) :
        i \in 1..Len(q) \/ (i - Len(q) \in 1..Len(r)
                            /\ (q \o r)[i] = r[i - Len(q)])
  <2>. SUFFICES ASSUME NEW i \in 1..(Len(q) + Len(r)), i \notin 1..Len(q)
                PROVE  i - Len(q) \in 1..Len(r)
                       /\ (q \o r)[i] = r[i - Len(q)]
    OBVIOUS
  <2>1. i - Len(q) \in 1..Len(r) /\ Len(q) + (i - Len(q)) = i
    BY <1>1
  <2>. QED BY <1>1, <2>1
<1>3. ASSUME NEW x PROVE x \in Elems(q \o r) <=> x \in Elems(q) \cup Elems(r)
  <2>1. CASE x \in Elems(q \o r)
    <3>1. PICK i \in 1..(Len(q) + Len(r)) : x = (q \o r)[i]
      BY <1>1, <2>1 DEF Elems
    <3>. QED BY <1>1, <1>2, <3>1 DEF Elems
  <2>2. CASE x \in Elems(q)
    <3>1. PICK i \in 1..Len(q) : x = q[i]
      BY <2>2 DEF Elems
    <3>. QED BY <1>1, <3>1 DEF Elems
  <2>3. CASE x \in Elems(r)
    <3>1. PICK i \in 1..Len(r) : x = r[i]
      BY <2>3 DEF Elems
    <3>2. Len(q) + i \in 1..Len(q \o r) /\ (q \o r)[Len(q) + i] = x
      BY <1>1, <3>1
    <3>. QED BY <3>2 DEF Elems
  <2>. QED BY <2>1, <2>2, <2>3
<1>4. ASSUME Distinct(q), Distinct(r), Elems(q) \cap Elems(r) = {}
      PROVE  Distinct(q \o r)
  <2>. SUFFICES ASSUME NEW i \in 1..(Len(q) + Len(r)),
                       NEW j \in 1..(Len(q) + Len(r)),
                       (q \o r)[i] = (q \o r)[j]
                PROVE  i = j
    BY <1>1 DEF Distinct
  <2>1. CASE i \in 1..Len(q) /\ j \in 1..Len(q)
    BY <1>1, <1>4, <2>1 DEF Distinct
  <2>a. ASSUME NEW k \in 1..(Len(q) + Len(r)), NEW l \in 1..(Len(q) + Len(r)),
               k \in 1..Len(q), l \notin 1..Len(q), (q \o r)[k] = (q \o r)[l]
        PROVE  FALSE
    <3>1. (q \o r)[k] = q[k] /\ q[k] \in Elems(q)
      BY <1>1, <2>a DEF Elems
    <3>2. (q \o r)[l] = r[l - Len(q)] /\ l - Len(q) \in 1..Len(r)
      BY <1>2, <2>a
    <3>3. (q \o r)[l] \in Elems(r)
      BY <3>2 DEF Elems
    <3>. QED BY <1>4, <2>a, <3>1, <3>3
  <2>2. CASE i \in 1..Len(q) /\ j \notin 1..Len(q)
    BY <2>a, <2>2
  <2>3. CASE i \notin 1..Len(q) /\ j \in 1..Len(q)
    BY <2>a, <2>3
  <2>4. CASE i \notin 1..Len(q) /\ j \notin 1..Len(q)
    BY <1>1, <1>2, <1>4, <2>4, SMTT(30) DEF Distinct
  <2>. QED BY <2>1, <2>2, <2>3, <2>4
<1>. QED BY <1>1, <1>3, <1>4

\* The jobs of a batch.
LEMMA BatchElems ==
  ASSUME NEW s \in Scan, NEW n \in 0..MaxPages
  PROVE  LET r == [p \in 1..n |-> <<s, p>>] IN
         /\ r \in Seq(Task)
         /\ \A t : t \in Elems(r) <=> \E p \in 1..n : t = <<s, p>>
         /\ Distinct(r)
<1>. DEFINE r == [p \in 1..n |-> <<s, p>>]
<1>0. MaxPages \in Nat /\ n \in Nat /\ 1..n \subseteq 0..MaxPages
  BY PipelineAssumption
<1>1. r \in Seq(Task) /\ Len(r) = n
  BY <1>0 DEF Task
<1>. QED BY <1>1 DEF Elems, Distinct

-----------------------------------------------------------------------------
(* The list "jobs"                                                         *)

\* Fewer scans owe an entry, and the list is the same.
LEMMA ListShrinks ==
  ASSUME ListInv, TypeQueues, jobs' = jobs,
         \A u \in Scan : Owes(u)' => Owes(u)
  PROVE  ListInv'
<1>. DEFINE A == {s \in Scan : Owes(s)}
            B == {s \in Scan : Owes(s)'}
<1>1. A \subseteq Scan /\ B \subseteq A /\ IsFiniteSet(A) /\ IsFiniteSet(B)
  BY ScanAssumption, FS_Subset
<1>2. /\ Cardinality(B) <= Cardinality(A)
      /\ Cardinality(A) \in Nat /\ Cardinality(B) \in Nat
  BY <1>1, FS_Subset, FS_CardinalityType
<1>3. Len(jobs) \in Nat /\ Len(jobs) >= Cardinality(A)
  BY DEF ListInv, TypeQueues
<1>. QED BY <1>2, <1>3 DEF ListInv

\* The scan that gets an entry is the only one that may get to owe it.
LEMMA ListGrows ==
  ASSUME ListInv, TypeQueues, jscan \in Scan, jobs' = Append(jobs, jscan),
         \A u \in Scan : Owes(u)' => Owes(u) \/ u = jscan
  PROVE  ListInv'
<1>. DEFINE A == {s \in Scan : Owes(s)}
            B == {s \in Scan : Owes(s)'}
<1>1. /\ B \subseteq A \cup {jscan}
      /\ IsFiniteSet(A) /\ IsFiniteSet(A \cup {jscan}) /\ IsFiniteSet(B)
  <2>1. A \subseteq Scan /\ A \cup {jscan} \subseteq Scan /\ B \subseteq Scan
        /\ B \subseteq A \cup {jscan}
    OBVIOUS
  <2>. QED BY <2>1, ScanAssumption, FS_Subset
<1>2. /\ Cardinality(B) <= Cardinality(A \cup {jscan})
      /\ Cardinality(A) \in Nat /\ Cardinality(B) \in Nat
      /\ Cardinality(A \cup {jscan}) \in Nat
  BY <1>1, FS_Subset, FS_CardinalityType
<1>3. Cardinality(A \cup {jscan}) <= Cardinality(A) + 1
  <2>. HIDE DEF A
  <2>1. CASE jscan \in A
    <3>1. A \cup {jscan} = A
      BY <2>1
    <3>2. Cardinality(A \cup {jscan}) = Cardinality(A)
      BY <3>1, Zenon
    <3>. QED BY <1>2, <3>2
  <2>2. CASE jscan \notin A
    <3>1. Cardinality(A \cup {jscan}) = Cardinality(A) + 1
      BY <1>1, <2>2, FS_AddElement
    <3>. QED BY <1>2, <3>1
  <2>. QED BY <2>1, <2>2
<1>4. /\ Len(jobs) \in Nat /\ Len(jobs) >= Cardinality(A)
      /\ Len(jobs') = Len(jobs) + 1
  BY DEF ListInv, TypeQueues
<1>. QED BY <1>2, <1>3, <1>4 DEF ListInv

\* The scan that takes an entry away has owed it.
LEMMA ListPops ==
  ASSUME ListInv, TypeQueues, jscan \in Scan,
         jobs' = IF jobs = <<>> THEN <<>> ELSE Tail(jobs), Owes(jscan),
         \A u \in Scan : Owes(u)' => Owes(u) /\ u # jscan
  PROVE  ListInv'
<1>. DEFINE A == {s \in Scan : Owes(s)}
            B == {s \in Scan : Owes(s)'}
<1>1. /\ B \subseteq A \ {jscan} /\ jscan \in A
      /\ IsFiniteSet(A) /\ IsFiniteSet(A \ {jscan}) /\ IsFiniteSet(B)
  <2>1. A \subseteq Scan /\ A \ {jscan} \subseteq Scan /\ B \subseteq Scan
        /\ B \subseteq A \ {jscan} /\ jscan \in A
    OBVIOUS
  <2>. QED BY <2>1, ScanAssumption, FS_Subset
<1>2. /\ Cardinality(B) <= Cardinality(A \ {jscan})
      /\ Cardinality(A) \in Nat /\ Cardinality(B) \in Nat
      /\ Cardinality(A \ {jscan}) = Cardinality(A) - 1
  BY <1>1, FS_Subset, FS_CardinalityType, FS_RemoveElement
<1>3. Len(jobs) \in Nat /\ Len(jobs) >= Cardinality(A)
  BY DEF ListInv, TypeQueues
<1>4. jobs # <<>>
  BY <1>1, <1>2, <1>3, FS_EmptySet
<1>5. Len(jobs') = Len(jobs) - 1
  BY <1>4 DEF TypeQueues
<1>. QED BY <1>2, <1>3, <1>5 DEF ListInv

\* scan.rb makes a directory that nobody has seen yet.
LEMMA StartScanInv ==
  ASSUME NEW s \in Scan, IInv, StartScan(s)
  PROVE  IInv'
<1>. USE ScanAssumption, PipelineAssumption DEF IInv, Types
<1>1. /\ queuedJobs' = queuedJobs
      /\ queuedCallbacks' = queuedCallbacks
      /\ queuedPages' = queuedPages
      /\ QueuesDistinct'
  BY DEF StartScan, queueVars, batchVars, retryVars, QueueInv, QueuesDistinct,
         queuedJobs, queuedCallbacks, queuedPages
<1>2. TypeDirs'
  BY DEF StartScan, queueVars, batchVars, retryVars, TypeDirs, ScriptPc
<1>3. TypeQueues'
  BY <1>1 DEF StartScan, queueVars, batchVars, retryVars, TypeQueues, JobPc,
              QueueInv, QueuesDistinct
<1>4. TypeRunning'
  BY DEF StartScan, queueVars, batchVars, retryVars, TypeRunning
<1>5. TypeBatch'
  BY DEF StartScan, queueVars, batchVars, retryVars, TypeBatch
<1>6. TypeTries'
  BY DEF StartScan, queueVars, batchVars, retryVars, TypeTries, TypeQueues
<1>7. TypeRest'
  BY DEF StartScan, queueVars, batchVars, retryVars, TypeRest, TypeDirs,
         TypeQueues
<1>8. QueueInv'
  BY <1>1 DEF StartScan, queueVars, batchVars, retryVars, QueueInv,
              QueuesDistinct, TypeQueues, TypeTries, TypeRunning, JobPc,
              CallbackTask, PageTask, AtJob, AtCallback, HasJob, HasCallback,
              HasPage, JobPhase, CallbackPhase, Serving
<1>9. StageInv'
  <2>. SUFFICES ASSUME NEW u \in Scan PROVE Stage(u)'
    BY DEF StageInv
  <2>1. Stage(u)
    BY DEF StageInv
  <2>. QED
    BY <1>1, <2>1 DEF StartScan, queueVars, batchVars, retryVars, Stage, JobPc,
                      ScriptPc, QueueInv, QueuesDistinct, TypeDirs, TypeQueues,
                      TypeRunning, TypeBatch, TypeTries, AtJob, AtCallback,
                      HasJob, HasCallback, HasPage, JobPhase, CallbackPhase,
                      Serving
<1>10. PageInv'
  <2>. SUFFICES ASSUME NEW u \in Scan, NEW n \in 1..MaxPages
                PROVE  PageState(u, n)'
    BY DEF PageInv
  <2>1. PageState(u, n) /\ Stage(u)
    BY DEF PageInv, StageInv
  <2>. QED
    BY <1>1, <2>1 DEF StartScan, queueVars, batchVars, retryVars, PageState,
                      Stage, Task, TypeDirs, TypeQueues, TypeRunning,
                      TypeBatch, TypeTries, AtJob, AtCallback, HasJob,
                      HasCallback, HasPage, JobPhase, CallbackPhase, Serving
<1>11. CallInv'
  <2>. SUFFICES ASSUME NEW u \in Scan PROVE CallState(u)'
    BY DEF CallInv
  <2>1. CallState(u) /\ Stage(u)
    BY DEF CallInv, StageInv
  <2>. QED
    BY <1>1, <2>1 DEF StartScan, queueVars, batchVars, retryVars, CallState,
                      Stage, Task, QueueInv, QueuesDistinct, TypeDirs,
                      TypeQueues, TypeRunning, TypeBatch, TypeTries, AtJob,
                      AtCallback, HasJob, HasCallback, HasPage, JobPhase,
                      CallbackPhase, Serving
<1>12. CopyInv'
  <2>. SUFFICES ASSUME NEW u \in Scan, NEW c \in Channels
                PROVE  CopyState(u, c)'
    BY DEF CopyInv
  <2>1. CopyState(u, c) /\ Stage(u)
    BY DEF CopyInv, StageInv
  <2>. QED
    BY <1>1, <2>1 DEF StartScan, queueVars, batchVars, retryVars, CopyState,
                      Copies, Served, WillServe, Stage, QueueInv,
                      QueuesDistinct, TypeDirs, TypeQueues, TypeRunning,
                      TypeBatch, TypeTries, TypeRest, AtJob, AtCallback,
                      HasJob, HasCallback, HasPage, JobPhase, CallbackPhase,
                      Serving
<1>13. DoneInv'
  BY <1>1 DEF StartScan, queueVars, batchVars, retryVars, DoneInv, flawed,
              Copies, TypeQueues, TypeTries, TypeRest, Task
<1>14. ListInv'
  <2>1. ASSUME NEW u \in Scan, Owes(u)' PROVE Owes(u)
    <3>1. Stage(u)
      BY DEF StageInv
    <3>. QED
      BY <1>1, <2>1, <3>1 DEF StartScan, queueVars, batchVars, retryVars, Owes,
                              Stage, QueueInv, QueuesDistinct, TypeQueues,
                              TypeDirs, AtJob, AtCallback, HasJob, HasCallback,
                              HasPage, JobPhase, CallbackPhase, Serving
  <2>2. jobs' = jobs
    BY DEF StartScan, queueVars, batchVars, retryVars
  <2>. QED BY <2>1, <2>2, ListShrinks
<1>. QED
  BY <1>2, <1>3, <1>4, <1>5, <1>6, <1>7,
     <1>8, <1>9, <1>10, <1>11, <1>12, <1>13, <1>14

\* scanimage ends: no job, callback or page of the scan exists yet.
LEMMA EndScanInv ==
  ASSUME NEW s \in Scan, IInv, EndScan(s)
  PROVE  IInv'
<1>. USE ScanAssumption, PipelineAssumption DEF IInv, Types
<1>1. /\ queuedJobs' = queuedJobs
      /\ queuedCallbacks' = queuedCallbacks
      /\ queuedPages' = queuedPages
      /\ QueuesDistinct'
  BY DEF EndScan, dirVars, queueVars, batchVars, retryVars, QueueInv,
         QueuesDistinct, queuedJobs, queuedCallbacks, queuedPages
<1>2. TypeDirs'
  BY DEF EndScan, dirVars, queueVars, batchVars, retryVars, TypeDirs, ScriptPc
<1>3. TypeQueues'
  BY <1>1 DEF EndScan, dirVars, queueVars, batchVars, retryVars, TypeQueues,
              JobPc, QueueInv, QueuesDistinct
<1>4. TypeRunning'
  BY DEF EndScan, dirVars, queueVars, batchVars, retryVars, TypeRunning
<1>5. TypeBatch'
  BY DEF EndScan, dirVars, queueVars, batchVars, retryVars, TypeBatch
<1>6. TypeTries'
  BY DEF EndScan, dirVars, queueVars, batchVars, retryVars, TypeTries,
         TypeQueues
<1>7. TypeRest'
  BY DEF EndScan, dirVars, queueVars, batchVars, retryVars, TypeRest, TypeDirs,
         TypeQueues
<1>8. QueueInv'
  BY <1>1 DEF EndScan, dirVars, queueVars, batchVars, retryVars, QueueInv,
              QueuesDistinct, TypeQueues, TypeTries, TypeRunning, JobPc,
              CallbackTask, PageTask, AtJob, AtCallback, HasJob, HasCallback,
              HasPage, JobPhase, CallbackPhase, Serving
<1>9. StageInv'
  <2>. SUFFICES ASSUME NEW u \in Scan PROVE Stage(u)'
    BY DEF StageInv
  <2>1. Stage(u)
    BY DEF StageInv
  <2>. QED
    BY <1>1, <2>1 DEF EndScan, dirVars, queueVars, batchVars, retryVars, Stage,
                      JobPc, ScriptPc, QueueInv, QueuesDistinct, TypeDirs,
                      TypeQueues, TypeRunning, TypeBatch, TypeTries, AtJob,
                      AtCallback, HasJob, HasCallback, HasPage, JobPhase,
                      CallbackPhase, Serving
<1>10. PageInv'
  <2>. SUFFICES ASSUME NEW u \in Scan, NEW n \in 1..MaxPages
                PROVE  PageState(u, n)'
    BY DEF PageInv
  <2>1. PageState(u, n) /\ Stage(u)
    BY DEF PageInv, StageInv
  <2>. QED
    BY <1>1, <2>1 DEF EndScan, dirVars, queueVars, batchVars, retryVars,
                      PageState, Stage, Task, TypeDirs, TypeQueues,
                      TypeRunning, TypeBatch, TypeTries, AtJob, AtCallback,
                      HasJob, HasCallback, HasPage, JobPhase, CallbackPhase,
                      Serving
<1>11. CallInv'
  <2>. SUFFICES ASSUME NEW u \in Scan PROVE CallState(u)'
    BY DEF CallInv
  <2>1. CallState(u) /\ Stage(u)
    BY DEF CallInv, StageInv
  <2>. QED
    BY <1>1, <2>1 DEF EndScan, dirVars, queueVars, batchVars, retryVars,
                      CallState, Stage, Task, QueueInv, QueuesDistinct,
                      TypeDirs, TypeQueues, TypeRunning, TypeBatch, TypeTries,
                      AtJob, AtCallback, HasJob, HasCallback, HasPage,
                      JobPhase, CallbackPhase, Serving
<1>12. CopyInv'
  <2>. SUFFICES ASSUME NEW u \in Scan, NEW c \in Channels
                PROVE  CopyState(u, c)'
    BY DEF CopyInv
  <2>1. CopyState(u, c) /\ Stage(u)
    BY DEF CopyInv, StageInv
  <2>2. u = s => Copies(u, c) = 0
    BY <2>1 DEF EndScan, CopyState, Stage
  <2>3. u # s => pages'[u] = pages[u]
    BY DEF EndScan, TypeDirs
  <2>4. /\ UNCHANGED <<received, called, tries, jpc, jscan>>
        /\ WillServe(u)' <=> WillServe(u)
    BY <1>1 DEF EndScan, batchVars, retryVars, WillServe
  <2>. QED
    BY <2>1, <2>2, <2>3, <2>4 DEF CopyState, Copies, Served
<1>13. DoneInv'
  BY <1>1 DEF EndScan, dirVars, queueVars, batchVars, retryVars, DoneInv,
              flawed, Copies, TypeQueues, TypeTries, TypeRest, Task
<1>14. ListInv'
  <2>1. ASSUME NEW u \in Scan, Owes(u)' PROVE Owes(u)
    <3>1. Stage(u)
      BY DEF StageInv
    <3>. QED
      BY <1>1, <2>1, <3>1 DEF EndScan, dirVars, queueVars, batchVars,
                              retryVars, Owes, Stage, QueueInv, QueuesDistinct,
                              TypeQueues, TypeDirs, AtJob, AtCallback, HasJob,
                              HasCallback, HasPage, JobPhase, CallbackPhase,
                              Serving
  <2>2. jobs' = jobs
    BY DEF EndScan, dirVars, queueVars, batchVars, retryVars
  <2>. QED BY <2>1, <2>2, ListShrinks
<1>. QED
  BY <1>2, <1>3, <1>4, <1>5, <1>6, <1>7,
     <1>8, <1>9, <1>10, <1>11, <1>12, <1>13, <1>14

\* A directory by hand is as fresh as a scanned one.
LEMMA TakeDirectoryInv ==
  ASSUME NEW s \in Scan, IInv, TakeDirectory(s)
  PROVE  IInv'
<1>. USE ScanAssumption, PipelineAssumption DEF IInv, Types
<1>1. /\ queuedJobs' = queuedJobs
      /\ queuedCallbacks' = queuedCallbacks
      /\ queuedPages' = queuedPages
      /\ QueuesDistinct'
  BY DEF TakeDirectory, dirVars, queueVars, batchVars, retryVars, QueueInv,
         QueuesDistinct, queuedJobs, queuedCallbacks, queuedPages
<1>2. TypeDirs'
  BY DEF TakeDirectory, dirVars, queueVars, batchVars, retryVars, TypeDirs,
         ScriptPc
<1>3. TypeQueues'
  BY <1>1 DEF TakeDirectory, dirVars, queueVars, batchVars, retryVars,
              TypeQueues, JobPc, QueueInv, QueuesDistinct
<1>4. TypeRunning'
  BY DEF TakeDirectory, dirVars, queueVars, batchVars, retryVars, TypeRunning
<1>5. TypeBatch'
  BY DEF TakeDirectory, dirVars, queueVars, batchVars, retryVars, TypeBatch
<1>6. TypeTries'
  BY DEF TakeDirectory, dirVars, queueVars, batchVars, retryVars, TypeTries,
         TypeQueues
<1>7. TypeRest'
  BY DEF TakeDirectory, dirVars, queueVars, batchVars, retryVars, TypeRest,
         TypeDirs, TypeQueues
<1>8. QueueInv'
  BY <1>1 DEF TakeDirectory, dirVars, queueVars, batchVars, retryVars,
              QueueInv, QueuesDistinct, TypeQueues, TypeTries, TypeRunning,
              JobPc, CallbackTask, PageTask, AtJob, AtCallback, HasJob,
              HasCallback, HasPage, JobPhase, CallbackPhase, Serving
<1>9. StageInv'
  <2>. SUFFICES ASSUME NEW u \in Scan PROVE Stage(u)'
    BY DEF StageInv
  <2>1. Stage(u)
    BY DEF StageInv
  <2>. QED
    BY <1>1, <2>1 DEF TakeDirectory, dirVars, queueVars, batchVars, retryVars,
                      Stage, JobPc, ScriptPc, QueueInv, QueuesDistinct,
                      TypeDirs, TypeQueues, TypeRunning, TypeBatch, TypeTries,
                      AtJob, AtCallback, HasJob, HasCallback, HasPage,
                      JobPhase, CallbackPhase, Serving
<1>10. PageInv'
  <2>. SUFFICES ASSUME NEW u \in Scan, NEW n \in 1..MaxPages
                PROVE  PageState(u, n)'
    BY DEF PageInv
  <2>1. PageState(u, n) /\ Stage(u)
    BY DEF PageInv, StageInv
  <2>. QED
    BY <1>1, <2>1 DEF TakeDirectory, dirVars, queueVars, batchVars, retryVars,
                      PageState, Stage, Task, TypeDirs, TypeQueues,
                      TypeRunning, TypeBatch, TypeTries, AtJob, AtCallback,
                      HasJob, HasCallback, HasPage, JobPhase, CallbackPhase,
                      Serving
<1>11. CallInv'
  <2>. SUFFICES ASSUME NEW u \in Scan PROVE CallState(u)'
    BY DEF CallInv
  <2>1. CallState(u) /\ Stage(u)
    BY DEF CallInv, StageInv
  <2>. QED
    BY <1>1, <2>1 DEF TakeDirectory, dirVars, queueVars, batchVars, retryVars,
                      CallState, Stage, Task, QueueInv, QueuesDistinct,
                      TypeDirs, TypeQueues, TypeRunning, TypeBatch, TypeTries,
                      AtJob, AtCallback, HasJob, HasCallback, HasPage,
                      JobPhase, CallbackPhase, Serving
<1>12. CopyInv'
  <2>. SUFFICES ASSUME NEW u \in Scan, NEW c \in Channels
                PROVE  CopyState(u, c)'
    BY DEF CopyInv
  <2>1. CopyState(u, c) /\ Stage(u)
    BY DEF CopyInv, StageInv
  <2>2. u = s => Copies(u, c) = 0
    BY <2>1 DEF TakeDirectory, CopyState, Stage
  <2>3. u # s => pages'[u] = pages[u]
    BY DEF TakeDirectory, TypeDirs
  <2>4. /\ UNCHANGED <<received, called, tries, jpc, jscan>>
        /\ WillServe(u)' <=> WillServe(u)
    BY <1>1 DEF TakeDirectory, batchVars, retryVars, WillServe
  <2>. QED
    BY <2>1, <2>2, <2>3, <2>4 DEF CopyState, Copies, Served
<1>13. DoneInv'
  BY <1>1 DEF TakeDirectory, dirVars, queueVars, batchVars, retryVars, DoneInv,
         flawed, Copies, TypeQueues, TypeTries, TypeRest, Task
<1>14. ListInv'
  <2>1. ASSUME NEW u \in Scan, Owes(u)' PROVE Owes(u)
    <3>1. Stage(u)
      BY DEF StageInv
    <3>. QED
      BY <1>1, <2>1, <3>1 DEF TakeDirectory, dirVars, queueVars, batchVars,
                              retryVars, Owes, Stage, QueueInv, QueuesDistinct,
                              TypeQueues, TypeDirs, AtJob, AtCallback, HasJob,
                              HasCallback, HasPage, JobPhase, CallbackPhase,
                              Serving
  <2>2. jobs' = jobs
    BY DEF TakeDirectory, dirVars, queueVars, batchVars, retryVars
  <2>. QED BY <2>1, <2>2, ListShrinks
<1>. QED
  BY <1>2, <1>3, <1>4, <1>5, <1>6, <1>7,
     <1>8, <1>9, <1>10, <1>11, <1>12, <1>13, <1>14

\* The job is queued for a scan that has none anywhere.
LEMMA SubmitInv ==
  ASSUME NEW s \in Scan, IInv, Submit(s)
  PROVE  IInv'
<1>. USE ScanAssumption, PipelineAssumption DEF IInv, Types
<1>1. /\ queuedJobs' = queuedJobs \cup {s}
      /\ queuedCallbacks' = queuedCallbacks
      /\ queuedPages' = queuedPages
      /\ QueuesDistinct'
  <2>1. jobQueue \in Seq(Scan) /\ s \notin Elems(jobQueue)
    BY DEF Submit, TypeQueues, StageInv, Stage, HasJob, queuedJobs
  <2>2. /\ Elems(Append(jobQueue, s)) = Elems(jobQueue) \cup {s}
        /\ Distinct(jobQueue) => Distinct(Append(jobQueue, s))
    BY <2>1, ElemsAppend
  <2>. QED
    BY <2>2 DEF Submit, QueueInv, QueuesDistinct, queuedJobs, queuedCallbacks,
                queuedPages
<1>2. TypeDirs'
  BY DEF Submit, dirVars, batchVars, retryVars, TypeDirs, ScriptPc
<1>3. TypeQueues'
  BY <1>1 DEF Submit, dirVars, batchVars, retryVars, TypeQueues, JobPc,
              QueueInv, QueuesDistinct
<1>4. TypeRunning'
  BY DEF Submit, dirVars, batchVars, retryVars, TypeRunning
<1>5. TypeBatch'
  BY DEF Submit, dirVars, batchVars, retryVars, TypeBatch
<1>6. TypeTries'
  BY DEF Submit, dirVars, batchVars, retryVars, TypeTries, TypeQueues
<1>7. TypeRest'
  BY DEF Submit, dirVars, batchVars, retryVars, TypeRest, TypeDirs, TypeQueues
<1>8. QueueInv'
  <2>1. Stage(s)
    BY DEF StageInv
  <2>. QED
    BY <1>1, <2>1
    DEF Submit, retryVars, QueueInv, QueuesDistinct, Stage, AtJob, AtCallback,
        HasJob
<1>9. StageInv'
  <2>. SUFFICES ASSUME NEW u \in Scan PROVE Stage(u)'
    BY DEF StageInv
  <2>1. Stage(u)
    BY DEF StageInv
  <2>. QED
    BY <1>1, <2>1 DEF Submit, dirVars, batchVars, retryVars, Stage, JobPc,
                      ScriptPc, QueueInv, QueuesDistinct, TypeDirs, TypeQueues,
                      TypeRunning, TypeBatch, TypeTries, AtJob, AtCallback,
                      HasJob, HasCallback, HasPage, JobPhase, CallbackPhase,
                      Serving
<1>10. PageInv'
  <2>. SUFFICES ASSUME NEW u \in Scan, NEW n \in 1..MaxPages
                PROVE  PageState(u, n)'
    BY DEF PageInv
  <2>1. PageState(u, n) /\ Stage(u)
    BY DEF PageInv, StageInv
  <2>. QED
    BY <1>1, <2>1 DEF Submit, dirVars, batchVars, retryVars, PageState, Stage,
                      Task, TypeDirs, TypeQueues, TypeRunning, TypeBatch,
                      TypeTries, AtJob, AtCallback, HasJob, HasCallback,
                      HasPage, JobPhase, CallbackPhase, Serving
<1>11. CallInv'
  <2>. SUFFICES ASSUME NEW u \in Scan PROVE CallState(u)'
    BY DEF CallInv
  <2>1. CallState(u) /\ Stage(u)
    BY DEF CallInv, StageInv
  <2>. QED
    BY <1>1, <2>1 DEF Submit, dirVars, batchVars, retryVars, CallState, Stage,
                      Task, QueueInv, QueuesDistinct, TypeDirs, TypeQueues,
                      TypeRunning, TypeBatch, TypeTries, AtJob, AtCallback,
                      HasJob, HasCallback, HasPage, JobPhase, CallbackPhase,
                      Serving
<1>12. CopyInv'
  <2>. SUFFICES ASSUME NEW u \in Scan, NEW c \in Channels
                PROVE  CopyState(u, c)'
    BY DEF CopyInv
  <2>1. CopyState(u, c) /\ Stage(u)
    BY DEF CopyInv, StageInv
  <2>. QED
    BY <1>1, <2>1 DEF Submit, dirVars, batchVars, retryVars, CopyState, Copies,
                      Served, WillServe, Stage, QueueInv, QueuesDistinct,
                      TypeDirs, TypeQueues, TypeRunning, TypeBatch, TypeTries,
                      TypeRest, AtJob, AtCallback, HasJob, HasCallback,
                      HasPage, JobPhase, CallbackPhase, Serving
<1>13. DoneInv'
  BY <1>1 DEF Submit, dirVars, batchVars, retryVars, DoneInv, flawed, Copies,
         TypeQueues, TypeTries, TypeRest, Task
<1>14. ListInv'
  <2>1. ASSUME NEW u \in Scan, Owes(u)' PROVE Owes(u)
    <3>1. Stage(u)
      BY DEF StageInv
    <3>. QED
      BY <1>1, <2>1, <3>1 DEF Submit, dirVars, batchVars, retryVars, Owes,
                              Stage, QueueInv, QueuesDistinct, TypeQueues,
                              TypeDirs, AtJob, AtCallback, HasJob, HasCallback,
                              HasPage, JobPhase, CallbackPhase, Serving
  <2>2. jobs' = jobs
    BY DEF Submit, dirVars, batchVars, retryVars
  <2>. QED BY <2>1, <2>2, ListShrinks
<1>. QED
  BY <1>2, <1>3, <1>4, <1>5, <1>6, <1>7,
     <1>8, <1>9, <1>10, <1>11, <1>12, <1>13, <1>14

\* A job moves from its queue to the job worker.
LEMMA TakeJobInv ==
  ASSUME IInv, TakeJob
  PROVE  IInv'
<1>. USE ScanAssumption, PipelineAssumption DEF IInv, Types
<1>1. /\ jscan' \in queuedJobs /\ queuedJobs' = queuedJobs \ {jscan'}
      /\ queuedCallbacks' = queuedCallbacks
      /\ queuedPages' = queuedPages
      /\ QueuesDistinct'
  BY ElemsTail
  DEF TakeJob, TypeQueues, QueueInv, QueuesDistinct, queuedJobs,
      queuedCallbacks, queuedPages
<1>2. TypeDirs'
  BY DEF TakeJob, scanVars, dirVars, retryVars, JobFrame, At, TypeDirs,
         ScriptPc
<1>3. TypeQueues'
  BY <1>1 DEF TakeJob, scanVars, dirVars, retryVars, JobFrame, At, TypeQueues,
              JobPc, QueueInv, QueuesDistinct
<1>4. TypeRunning'
  BY DEF TakeJob, scanVars, dirVars, retryVars, JobFrame, At, TypeRunning
<1>5. TypeBatch'
  BY DEF TakeJob, scanVars, dirVars, retryVars, JobFrame, At, TypeBatch
<1>6. TypeTries'
  BY DEF TakeJob, scanVars, dirVars, retryVars, JobFrame, At, TypeTries,
         TypeQueues
<1>7. TypeRest'
  BY DEF TakeJob, scanVars, dirVars, retryVars, JobFrame, At, TypeRest,
         TypeDirs, TypeQueues
<1>8. QueueInv'
  BY <1>1 DEF TakeJob, scanVars, dirVars, retryVars, JobFrame, At, QueueInv,
              QueuesDistinct, TypeQueues, TypeTries, TypeRunning, JobPc,
              CallbackTask, PageTask, AtJob, AtCallback, HasJob, HasCallback,
              HasPage, JobPhase, CallbackPhase, Serving
<1>9. StageInv'
  <2>. SUFFICES ASSUME NEW u \in Scan PROVE Stage(u)'
    BY DEF StageInv
  <2>1. Stage(u)
    BY DEF StageInv
  <2>2. HasJob(u)' <=> HasJob(u)
    BY <1>1 DEF TakeJob, At, HasJob, AtJob, JobPhase
  <2>3. HasCallback(u)' <=> HasCallback(u)
    BY <1>1 DEF TakeJob, At, retryVars, HasCallback, AtCallback,
                CallbackPhase, Serving
  <2>4. \A p \in 1..MaxPages : HasPage(u, p)' <=> HasPage(u, p)
    BY <1>1 DEF TakeJob, JobFrame, retryVars, HasPage
  <2>5. /\ UNCHANGED <<script, dirs, ran, called, pages>>
        /\ jpc' = "job"
    BY DEF TakeJob, JobFrame, scanVars, dirVars
  <2>. QED
    BY <2>1, <2>2, <2>3, <2>4, <2>5 DEF Stage
<1>10. PageInv'
  <2>. SUFFICES ASSUME NEW u \in Scan, NEW n \in 1..MaxPages
                PROVE  PageState(u, n)'
    BY DEF PageInv
  <2>1. PageState(u, n) /\ Stage(u)
    BY DEF PageInv, StageInv
  <2>. QED
    BY <1>1, <2>1 DEF TakeJob, scanVars, dirVars, retryVars, JobFrame, At,
                      PageState, Stage, Task, TypeDirs, TypeQueues,
                      TypeRunning, TypeBatch, TypeTries, AtJob, AtCallback,
                      HasJob, HasCallback, HasPage, JobPhase, CallbackPhase,
                      Serving
<1>11. CallInv'
  <2>. SUFFICES ASSUME NEW u \in Scan PROVE CallState(u)'
    BY DEF CallInv
  <2>1. CallState(u) /\ Stage(u)
    BY DEF CallInv, StageInv
  <2>. QED
    BY <1>1, <2>1 DEF TakeJob, scanVars, dirVars, retryVars, JobFrame, At,
                      CallState, Stage, Task, QueueInv, QueuesDistinct,
                      TypeDirs, TypeQueues, TypeRunning, TypeBatch, TypeTries,
                      AtJob, AtCallback, HasJob, HasCallback, HasPage,
                      JobPhase, CallbackPhase, Serving
<1>12. CopyInv'
  <2>. SUFFICES ASSUME NEW u \in Scan, NEW c \in Channels
                PROVE  CopyState(u, c)'
    BY DEF CopyInv
  <2>1. CopyState(u, c) /\ Stage(u)
    BY DEF CopyInv, StageInv
  <2>. QED
    BY <1>1, <2>1 DEF TakeJob, scanVars, dirVars, retryVars, JobFrame, At,
                      CopyState, Copies, Served, WillServe, Stage, QueueInv,
                      QueuesDistinct, TypeDirs, TypeQueues, TypeRunning,
                      TypeBatch, TypeTries, TypeRest, AtJob, AtCallback,
                      HasJob, HasCallback, HasPage, JobPhase, CallbackPhase,
                      Serving
<1>13. DoneInv'
  BY <1>1 DEF TakeJob, scanVars, dirVars, retryVars, JobFrame, At, DoneInv,
              flawed, Copies, TypeQueues, TypeTries, TypeRest, Task
<1>14. ListInv'
  <2>1. ASSUME NEW u \in Scan, Owes(u)' PROVE Owes(u)
    <3>1. Stage(u)
      BY DEF StageInv
    <3>. QED
      BY <1>1, <2>1, <3>1 DEF TakeJob, scanVars, dirVars, retryVars, JobFrame,
                              At, Owes, Stage, QueueInv, QueuesDistinct,
                              TypeQueues, TypeDirs, AtJob, AtCallback, HasJob,
                              HasCallback, HasPage, JobPhase, CallbackPhase,
                              Serving
  <2>2. jobs' = jobs
    BY DEF TakeJob, scanVars, dirVars, retryVars, JobFrame, At
  <2>. QED BY <2>1, <2>2, ListShrinks
<1>. QED
  BY <1>2, <1>3, <1>4, <1>5, <1>6, <1>7,
     <1>8, <1>9, <1>10, <1>11, <1>12, <1>13, <1>14

\* A callback moves from its queue to the job worker.
LEMMA TakeCallbackInv ==
  ASSUME IInv, TakeCallback
  PROVE  IInv'
<1>. USE ScanAssumption, PipelineAssumption DEF IInv, Types
<1>0. /\ callbackQueue \in Seq(Task) /\ callbackQueue # <<>>
      /\ Distinct(callbackQueue)
  BY DEF TakeCallback, TypeQueues, QueueInv, QueuesDistinct
<1>s. PICK s \in Scan : Head(callbackQueue) = <<s, 0>>
  <2>1. Head(callbackQueue) \in CallbackTask
    BY <1>0, ElemsTail DEF QueueInv, QueuesDistinct, queuedCallbacks
  <2>. QED BY <2>1 DEF CallbackTask
<1>t. jpc = "idle" /\ jscan = None /\ jpc' = "callback" /\ jscan' = s
  BY <1>s DEF TakeCallback, At, QueueInv, QueuesDistinct
<1>1. /\ queuedJobs' = queuedJobs
      /\ <<s, 0>> \in queuedCallbacks
      /\ queuedCallbacks' = queuedCallbacks \ {<<s, 0>>}
      /\ queuedPages' = queuedPages
      /\ QueuesDistinct'
  <2>1. /\ Elems(Tail(callbackQueue)) = Elems(callbackQueue) \ {<<s, 0>>}
        /\ <<s, 0>> \in Elems(callbackQueue)
        /\ Distinct(Tail(callbackQueue))
    BY <1>0, <1>s, ElemsTail
  <2>. QED
    BY <2>1
    DEF TakeCallback, QueueInv, QueuesDistinct, queuedJobs, queuedCallbacks,
        queuedPages
<1>2. TypeDirs'
  BY <1>0 DEF TakeCallback, scanVars, dirVars, retryVars, JobFrame, At,
              TypeDirs, ScriptPc
<1>3. TypeQueues'
  BY <1>0, <1>t, ElemsTail DEF TakeCallback, TypeQueues, JobPc
<1>4. TypeRunning'
  BY <1>0 DEF TakeCallback, scanVars, dirVars, retryVars, JobFrame, At,
              TypeRunning
<1>5. TypeBatch'
  BY <1>0 DEF TakeCallback, scanVars, dirVars, retryVars, JobFrame, At,
              TypeBatch
<1>6. TypeTries'
  BY <1>0 DEF TakeCallback, scanVars, dirVars, retryVars, JobFrame, At,
              TypeTries, TypeQueues
<1>7. TypeRest'
  BY <1>0 DEF TakeCallback, scanVars, dirVars, retryVars, JobFrame, At,
              TypeRest, TypeDirs, TypeQueues
<1>8. QueueInv'
  <2>1. jscan' # None
    BY <1>t
  <2>. QED
    BY <1>1, <1>t, <2>1
    DEF TakeCallback, JobFrame, retryVars, QueueInv, QueuesDistinct, AtJob,
        AtCallback, JobPhase
<1>9. StageInv'
  <2>. SUFFICES ASSUME NEW u \in Scan PROVE Stage(u)'
    BY DEF StageInv
  <2>1. Stage(u)
    BY DEF StageInv
  <2>2. HasJob(u)' <=> HasJob(u)
    BY <1>1, <1>t DEF HasJob, AtJob, JobPhase
  <2>3. HasCallback(u)' <=> HasCallback(u)
    BY <1>1, <1>t DEF TakeCallback, retryVars, HasCallback, AtCallback,
                      CallbackPhase, Serving
  <2>4. \A p \in 1..MaxPages : HasPage(u, p)' <=> HasPage(u, p)
    BY <1>1 DEF TakeCallback, JobFrame, retryVars, HasPage
  <2>5. UNCHANGED <<script, dirs, ran, called, pages>>
    BY DEF TakeCallback, JobFrame, scanVars, dirVars
  <2>. QED
    BY <1>t, <2>1, <2>2, <2>3, <2>4, <2>5 DEF Stage
<1>10. PageInv'
  <2>. SUFFICES ASSUME NEW u \in Scan, NEW n \in 1..MaxPages
                PROVE  PageState(u, n)'
    BY DEF PageInv
  <2>1. PageState(u, n) /\ Stage(u)
    BY DEF PageInv, StageInv
  <2>. QED
    BY <1>0, <1>1, <2>1 DEF TakeCallback, scanVars, dirVars, retryVars,
                            JobFrame, At, PageState, Stage, Task, TypeDirs,
                            TypeQueues, TypeRunning, TypeBatch, TypeTries,
                            AtJob, AtCallback, HasJob, HasCallback, HasPage,
                            JobPhase, CallbackPhase, Serving
<1>11. CallInv'
  <2>. SUFFICES ASSUME NEW u \in Scan PROVE CallState(u)'
    BY DEF CallInv
  <2>1. CallState(u)
    BY DEF CallInv
  <2>3. HasCallback(u)' <=> HasCallback(u)
    BY <1>1, <1>t DEF TakeCallback, retryVars, HasCallback, AtCallback,
                      CallbackPhase, Serving
  <2>. QED
    BY <1>t, <2>1, <2>3
    DEF TakeCallback, JobFrame, dirVars, retryVars, CallState
<1>12. CopyInv'
  <2>. SUFFICES ASSUME NEW u \in Scan, NEW c \in Channels
                PROVE  CopyState(u, c)'
    BY DEF CopyInv
  <2>1. CopyState(u, c)
    BY DEF CopyInv
  <2>2. WillServe(u)' <=> WillServe(u)
    BY <1>1, <1>t DEF TakeCallback, retryVars, WillServe, Serving
  <2>3. Served(u)' = Served(u)
    BY <1>t DEF Served
  <2>4. UNCHANGED <<received, pages, called, tries>>
    BY DEF TakeCallback, JobFrame, retryVars
  <2>. QED
    BY <2>1, <2>2, <2>3, <2>4 DEF CopyState, Copies
<1>13. DoneInv'
  BY <1>0, <1>1 DEF TakeCallback, scanVars, dirVars, retryVars, JobFrame, At,
                    DoneInv, flawed, Copies, TypeQueues, TypeTries, TypeRest,
                    Task
<1>14. ListInv'
  <2>1. ASSUME NEW u \in Scan, Owes(u)' PROVE Owes(u)
    <3>1. UNCHANGED <<called, pages, retry, running>>
      BY DEF TakeCallback, JobFrame, retryVars
    <3>. QED
      BY <1>1, <1>t, <2>1, <3>1 DEF Owes, HasPage, AtCallback
  <2>2. jobs' = jobs
    BY DEF TakeCallback
  <2>. QED BY <2>1, <2>2, ListShrinks
<1>. QED
  BY <1>2, <1>3, <1>4, <1>5, <1>6, <1>7,
     <1>8, <1>9, <1>10, <1>11, <1>12, <1>13, <1>14

\* perform puts an entry on the list before the scan owes one.
LEMMA PerformInv ==
  ASSUME IInv, Perform
  PROVE  IInv'
<1>. USE ScanAssumption, PipelineAssumption DEF IInv, Types
<1>1. /\ queuedJobs' = queuedJobs
      /\ queuedCallbacks' = queuedCallbacks
      /\ queuedPages' = queuedPages
      /\ QueuesDistinct'
  BY DEF Perform, scanVars, dirVars, queueVars, retryVars, JobFrame, At, Goto,
         QueueInv, QueuesDistinct, queuedJobs, queuedCallbacks, queuedPages
<1>2. TypeDirs'
  BY DEF Perform, scanVars, dirVars, queueVars, retryVars, JobFrame, At, Goto,
         TypeDirs, ScriptPc
<1>3. TypeQueues'
  BY <1>1 DEF Perform, scanVars, dirVars, queueVars, retryVars, JobFrame, At,
              Goto, TypeQueues, JobPc, QueueInv, QueuesDistinct
<1>4. TypeRunning'
  BY DEF Perform, scanVars, dirVars, queueVars, retryVars, JobFrame, At, Goto,
         TypeRunning
<1>5. TypeBatch'
  BY DEF Perform, scanVars, dirVars, queueVars, retryVars, JobFrame, At, Goto,
         TypeBatch
<1>6. TypeTries'
  BY DEF Perform, scanVars, dirVars, queueVars, retryVars, JobFrame, At, Goto,
         TypeTries, TypeQueues
<1>7. TypeRest'
  BY DEF Perform, scanVars, dirVars, queueVars, retryVars, JobFrame, At, Goto,
         TypeRest, TypeDirs, TypeQueues
<1>8. QueueInv'
  BY <1>1 DEF Perform, scanVars, dirVars, queueVars, retryVars, JobFrame, At,
              Goto, QueueInv, QueuesDistinct, TypeQueues, TypeTries,
              TypeRunning, JobPc, CallbackTask, PageTask, AtJob, AtCallback,
              HasJob, HasCallback, HasPage, JobPhase, CallbackPhase, Serving
<1>9. StageInv'
  <2>. SUFFICES ASSUME NEW u \in Scan PROVE Stage(u)'
    BY DEF StageInv
  <2>1. Stage(u)
    BY DEF StageInv
  <2>. QED
    BY <1>1, <2>1 DEF Perform, scanVars, dirVars, queueVars, retryVars,
                      JobFrame, At, Goto, Stage, JobPc, ScriptPc, QueueInv,
                      QueuesDistinct, TypeDirs, TypeQueues, TypeRunning,
                      TypeBatch, TypeTries, AtJob, AtCallback, HasJob,
                      HasCallback, HasPage, JobPhase, CallbackPhase, Serving
<1>10. PageInv'
  <2>. SUFFICES ASSUME NEW u \in Scan, NEW n \in 1..MaxPages
                PROVE  PageState(u, n)'
    BY DEF PageInv
  <2>1. PageState(u, n) /\ Stage(u)
    BY DEF PageInv, StageInv
  <2>. QED
    BY <1>1, <2>1 DEF Perform, scanVars, dirVars, queueVars, retryVars,
                      JobFrame, At, Goto, PageState, Stage, Task, TypeDirs,
                      TypeQueues, TypeRunning, TypeBatch, TypeTries, AtJob,
                      AtCallback, HasJob, HasCallback, HasPage, JobPhase,
                      CallbackPhase, Serving
<1>11. CallInv'
  <2>. SUFFICES ASSUME NEW u \in Scan PROVE CallState(u)'
    BY DEF CallInv
  <2>1. CallState(u) /\ Stage(u)
    BY DEF CallInv, StageInv
  <2>. QED
    BY <1>1, <2>1 DEF Perform, scanVars, dirVars, queueVars, retryVars,
                      JobFrame, At, Goto, CallState, Stage, Task, QueueInv,
                      QueuesDistinct, TypeDirs, TypeQueues, TypeRunning,
                      TypeBatch, TypeTries, AtJob, AtCallback, HasJob,
                      HasCallback, HasPage, JobPhase, CallbackPhase, Serving
<1>12. CopyInv'
  <2>. SUFFICES ASSUME NEW u \in Scan, NEW c \in Channels
                PROVE  CopyState(u, c)'
    BY DEF CopyInv
  <2>1. CopyState(u, c) /\ Stage(u)
    BY DEF CopyInv, StageInv
  <2>. QED
    BY <1>1, <2>1 DEF Perform, scanVars, dirVars, queueVars, retryVars,
                      JobFrame, At, Goto, CopyState, Copies, Served, WillServe,
                      Stage, QueueInv, QueuesDistinct, TypeDirs, TypeQueues,
                      TypeRunning, TypeBatch, TypeTries, TypeRest, AtJob,
                      AtCallback, HasJob, HasCallback, HasPage, JobPhase,
                      CallbackPhase, Serving
<1>13. DoneInv'
  BY <1>1 DEF Perform, scanVars, dirVars, queueVars, retryVars, JobFrame, At,
              Goto, DoneInv, flawed, Copies, TypeQueues, TypeTries, TypeRest,
              Task
<1>14. ListInv'
  <2>1. /\ jscan \in Scan /\ jobs' = Append(jobs, jscan)
        /\ \A u \in Scan : Owes(u)' => Owes(u) \/ u = jscan
    BY <1>1
    DEF Perform, JobFrame, At, Goto, retryVars, Owes, HasPage, AtCallback,
        CallbackPhase, Serving, TypeQueues, QueueInv, QueuesDistinct
  <2>. QED BY <2>1, ListGrows
<1>. QED
  BY <1>2, <1>3, <1>4, <1>5, <1>6, <1>7,
     <1>8, <1>9, <1>10, <1>11, <1>12, <1>13, <1>14

\* The pages of the batch are new; the batch owes the entry of its job.
LEMMA MakeBatchInv ==
  ASSUME IInv, MakeBatch
  PROVE  IInv'
<1>. USE ScanAssumption, PipelineAssumption DEF IInv, Types
<1>0. /\ jpc = "batch" /\ jscan \in Scan /\ jpc' = "idle" /\ jscan' = None
      /\ pages[jscan] \in 0..MaxPages /\ HasJob(jscan) /\ Stage(jscan)
  BY DEF MakeBatch, At, Release, TypeQueues, TypeDirs, QueueInv,
         QueuesDistinct, StageInv, HasJob, AtJob, JobPhase
<1>u. /\ UNCHANGED <<jobQueue, callbackQueue, running>>
      /\ UNCHANGED <<retry, dead, tries, dirs, normalized, document>>
      /\ UNCHANGED <<script, pages, ran, failed, called, received, jobs>>
  BY DEF MakeBatch, JobFrame, dirVars, retryVars, scanVars
<1>1. /\ queuedJobs' = queuedJobs
      /\ queuedCallbacks' = queuedCallbacks
      /\ \A t : t \in queuedPages' <=>
           t \in queuedPages \/ \E p \in 1..pages[jscan] : t = <<jscan, p>>
      /\ pageQueue' \in Seq(Task)
      /\ QueuesDistinct'
  <2>. DEFINE r == [p \in 1..pages[jscan] |-> <<jscan, p>>]
  <2>1. /\ r \in Seq(Task) /\ Distinct(r)
        /\ \A t : t \in Elems(r) <=> \E p \in 1..pages[jscan] : t = <<jscan, p>>
    BY <1>0, BatchElems
  <2>2. \A p \in 1..pages[jscan] : <<jscan, p>> \notin Elems(pageQueue)
    BY <1>0 DEF Stage, HasPage, queuedPages
  <2>3. pageQueue' = pageQueue \o r /\ pageQueue \in Seq(Task)
    BY DEF MakeBatch, TypeQueues
  <2>. HIDE DEF r
  <2>4. Elems(pageQueue) \cap Elems(r) = {}
    BY <2>1, <2>2
  <2>5. /\ pageQueue \o r \in Seq(Task)
        /\ Elems(pageQueue \o r) = Elems(pageQueue) \cup Elems(r)
        /\ Distinct(pageQueue) => Distinct(pageQueue \o r)
    BY <2>1, <2>3, <2>4, ElemsConcat
  <2>. QED
    BY <1>u, <2>1, <2>3, <2>5
    DEF QueuesDistinct, QueueInv, queuedJobs, queuedCallbacks, queuedPages
<1>p. \A u \in Scan : \A n \in 1..MaxPages :
        HasPage(u, n)' <=> HasPage(u, n) \/ (u = jscan /\ n \in 1..pages[u])
  BY <1>0, <1>1, <1>u DEF HasPage
<1>q. \A u \in Scan : /\ HasJob(u)' => HasJob(u) /\ u # jscan
                      /\ HasCallback(u)' <=> HasCallback(u)
  BY <1>0, <1>1, <1>u
  DEF HasJob, AtJob, HasCallback, AtCallback, JobPhase, CallbackPhase, Serving,
      QueueInv, QueuesDistinct
<1>2. TypeDirs'
  BY <1>u DEF MakeBatch, JobFrame, scanVars, TypeDirs
<1>3. TypeQueues'
  BY <1>0, <1>1, <1>u DEF TypeQueues, JobPc
<1>4. TypeRunning'
  BY <1>u DEF TypeRunning
<1>5. TypeBatch'
  BY <1>u DEF TypeBatch
<1>6. TypeTries'
  BY <1>u DEF TypeTries
<1>7. TypeRest'
  BY <1>u DEF MakeBatch, JobFrame, TypeRest
<1>8. QueueInv'
  <2>1. \A p \in 1..pages[jscan] : ~HasPage(jscan, p) /\ p \in 1..MaxPages
    BY <1>0 DEF Stage
  <2>2. queuedPages' \cup running' \subseteq PageTask
    BY <1>0, <1>1, <1>u, <2>1 DEF QueueInv, QueuesDistinct, PageTask
  <2>3. /\ queuedPages' \cap running' = {}
        /\ (queuedPages' \cup running') \cap retry' = {}
    BY <1>1, <1>u, <2>1 DEF QueueInv, QueuesDistinct, HasPage
  <2>. QED
    BY <1>0, <1>1, <1>u, <2>2, <2>3, ScanAssumption
    DEF QueueInv, QueuesDistinct, AtJob, AtCallback
<1>9. StageInv'
  <2>. SUFFICES ASSUME NEW u \in Scan PROVE Stage(u)'
    BY DEF StageInv
  <2>1. Stage(u)
    BY DEF StageInv
  <2>. QED
    BY <1>0, <1>p, <1>q, <1>u, <2>1 DEF Stage
<1>10. PageInv'
  <2>. SUFFICES ASSUME NEW u \in Scan, NEW n \in 1..MaxPages
                PROVE  PageState(u, n)'
    BY DEF PageInv
  <2>1. PageState(u, n)
    BY DEF PageInv
  <2>. QED
    BY <1>0, <1>p, <1>u, <2>1 DEF PageState, Stage
<1>11. CallInv'
  <2>. SUFFICES ASSUME NEW u \in Scan PROVE CallState(u)'
    BY DEF CallInv
  <2>1. CallState(u)
    BY DEF CallInv
  <2>. QED
    BY <1>0, <1>q, <1>u, <2>1 DEF CallState, Serving
<1>12. CopyInv'
  <2>. SUFFICES ASSUME NEW u \in Scan, NEW c \in Channels
                PROVE  CopyState(u, c)'
    BY DEF CopyInv
  <2>1. CopyState(u, c)
    BY DEF CopyInv
  <2>2. (WillServe(u)' => WillServe(u)) /\ Served(u)' = Served(u)
    BY <1>0, <1>1, <1>u DEF WillServe, Served, Serving
  <2>. QED
    BY <1>u, <2>1, <2>2 DEF CopyState, Copies
<1>13. DoneInv'
  BY <1>0 DEF DoneInv
<1>14. ListInv'
  <2>1. ASSUME NEW u \in Scan, Owes(u)' PROVE Owes(u)
    <3>1. Stage(u)
      BY DEF StageInv
    <3>. QED
      BY <1>0, <1>1, <1>p, <1>u, <2>1, <3>1
      DEF Owes, Stage, QueueInv, QueuesDistinct, TypeQueues, TypeDirs, AtJob,
          AtCallback, HasJob, HasCallback, HasPage, JobPhase, CallbackPhase,
          Serving
  <2>2. jobs' = jobs
    BY <1>u
  <2>. QED BY <2>1, <2>2, ListShrinks
<1>. QED
  BY <1>2, <1>3, <1>4, <1>5, <1>6, <1>7,
     <1>8, <1>9, <1>10, <1>11, <1>12, <1>13, <1>14

\* on_complete goes on to merge only when no page has failed.
LEMMA OnCompleteInv ==
  ASSUME IInv, OnComplete
  PROVE  IInv'
<1>. USE ScanAssumption, PipelineAssumption DEF IInv, Types
<1>1. /\ queuedJobs' = queuedJobs
      /\ queuedCallbacks' = queuedCallbacks
      /\ queuedPages' = queuedPages
      /\ QueuesDistinct'
  BY DEF OnComplete, scanVars, dirVars, queueVars, retryVars, JobFrame, At,
         Goto, QueueInv, QueuesDistinct, queuedJobs, queuedCallbacks,
         queuedPages
<1>2. TypeDirs'
  BY DEF OnComplete, scanVars, dirVars, queueVars, retryVars, JobFrame, At,
         Goto, TypeDirs, ScriptPc
<1>3. TypeQueues'
  BY <1>1 DEF OnComplete, scanVars, dirVars, queueVars, retryVars, JobFrame,
              At, Goto, TypeQueues, JobPc, QueueInv, QueuesDistinct
<1>4. TypeRunning'
  BY DEF OnComplete, scanVars, dirVars, queueVars, retryVars, JobFrame, At,
         Goto, TypeRunning
<1>5. TypeBatch'
  BY DEF OnComplete, scanVars, dirVars, queueVars, retryVars, JobFrame, At,
         Goto, TypeBatch
<1>6. TypeTries'
  BY DEF OnComplete, scanVars, dirVars, queueVars, retryVars, JobFrame, At,
         Goto, TypeTries, TypeQueues
<1>7. TypeRest'
  BY DEF OnComplete, scanVars, dirVars, queueVars, retryVars, JobFrame, At,
         Goto, TypeRest, TypeDirs, TypeQueues
<1>8. QueueInv'
  BY <1>1 DEF OnComplete, scanVars, dirVars, queueVars, retryVars, JobFrame,
              At, Goto, QueueInv, QueuesDistinct, TypeQueues, TypeTries,
              TypeRunning, JobPc, CallbackTask, PageTask, AtJob, AtCallback,
              HasJob, HasCallback, HasPage, JobPhase, CallbackPhase, Serving
<1>9. StageInv'
  <2>. SUFFICES ASSUME NEW u \in Scan PROVE Stage(u)'
    BY DEF StageInv
  <2>1. Stage(u)
    BY DEF StageInv
  <2>. QED
    BY <1>1, <2>1 DEF OnComplete, scanVars, dirVars, queueVars, retryVars,
                      JobFrame, At, Goto, Stage, JobPc, ScriptPc, QueueInv,
                      QueuesDistinct, TypeDirs, TypeQueues, TypeRunning,
                      TypeBatch, TypeTries, AtJob, AtCallback, HasJob,
                      HasCallback, HasPage, JobPhase, CallbackPhase, Serving
<1>10. PageInv'
  <2>. SUFFICES ASSUME NEW u \in Scan, NEW n \in 1..MaxPages
                PROVE  PageState(u, n)'
    BY DEF PageInv
  <2>1. PageState(u, n) /\ Stage(u)
    BY DEF PageInv, StageInv
  <2>. QED
    BY <1>1, <2>1 DEF OnComplete, scanVars, dirVars, queueVars, retryVars,
                      JobFrame, At, Goto, PageState, Stage, Task, TypeDirs,
                      TypeQueues, TypeRunning, TypeBatch, TypeTries, AtJob,
                      AtCallback, HasJob, HasCallback, HasPage, JobPhase,
                      CallbackPhase, Serving
<1>11. CallInv'
  <2>. SUFFICES ASSUME NEW u \in Scan PROVE CallState(u)'
    BY DEF CallInv
  <2>1. CallState(u) /\ Stage(u)
    BY DEF CallInv, StageInv
  <2>. QED
    BY <1>1, <2>1 DEF OnComplete, scanVars, dirVars, queueVars, retryVars,
                      JobFrame, At, Goto, CallState, Stage, Task, QueueInv,
                      QueuesDistinct, TypeDirs, TypeQueues, TypeRunning,
                      TypeBatch, TypeTries, AtJob, AtCallback, HasJob,
                      HasCallback, HasPage, JobPhase, CallbackPhase, Serving
<1>12. CopyInv'
  <2>. SUFFICES ASSUME NEW u \in Scan, NEW c \in Channels
                PROVE  CopyState(u, c)'
    BY DEF CopyInv
  <2>1. CopyState(u, c) /\ Stage(u)
    BY DEF CopyInv, StageInv
  <2>. QED
    BY <1>1, <2>1 DEF OnComplete, scanVars, dirVars, queueVars, retryVars,
                      JobFrame, At, Goto, CopyState, Copies, Served, WillServe,
                      Stage, QueueInv, QueuesDistinct, TypeDirs, TypeQueues,
                      TypeRunning, TypeBatch, TypeTries, TypeRest, AtJob,
                      AtCallback, HasJob, HasCallback, HasPage, JobPhase,
                      CallbackPhase, Serving
<1>13. DoneInv'
  <2>1. CASE jpc' = "pop"
    <3>1. jscan \in Scan /\ failed[jscan] # {} /\ jscan' = jscan
      BY <2>1 DEF OnComplete, At, Goto, TypeQueues, QueueInv, QueuesDistinct
    <3>2. PICK p \in 1..MaxPages : p \in failed[jscan]
      BY <3>1 DEF TypeBatch
    <3>3. tries[<<jscan, p>>] > 0
      BY <3>1, <3>2 DEF PageInv, PageState
    <3>4. jscan \in flawed'
      BY <3>1, <3>3 DEF OnComplete, retryVars, flawed
    <3>. QED BY <3>1, <3>4 DEF DoneInv
  <2>2. CASE jpc' # "pop"
    BY <2>2 DEF OnComplete, Goto, DoneInv
  <2>. QED BY <2>1, <2>2
<1>14. ListInv'
  <2>1. ASSUME NEW u \in Scan, Owes(u)' PROVE Owes(u)
    <3>1. Stage(u)
      BY DEF StageInv
    <3>. QED
      BY <1>1, <2>1, <3>1 DEF OnComplete, scanVars, dirVars, queueVars,
                              retryVars, JobFrame, At, Goto, Owes, Stage,
                              QueueInv, QueuesDistinct, TypeQueues, TypeDirs,
                              AtJob, AtCallback, HasJob, HasCallback, HasPage,
                              JobPhase, CallbackPhase, Serving
  <2>2. jobs' = jobs
    BY DEF OnComplete, scanVars, dirVars, queueVars, retryVars, JobFrame, At, Goto
  <2>. QED BY <2>1, <2>2, ListShrinks
<1>. QED
  BY <1>2, <1>3, <1>4, <1>5, <1>6, <1>7,
     <1>8, <1>9, <1>10, <1>11, <1>12, <1>13, <1>14


\* Another copy of a document that is whole.
LEMMA ReceiveCopy ==
  ASSUME TypeRest, NEW s \in Scan, NEW c \in Channels, NEW n \in Nat,
         n <= MaxPages, NEW r,
         r = Append(received[s][c], 1..n),
         \A i \in 1..Copies(s, c) : received[s][c][i] = 1..n
  PROVE  /\ Copies(s, c) \in Nat /\ Len(r) = Copies(s, c) + 1
         /\ r \in Seq(SUBSET (1..MaxPages))
         /\ \A i \in 1..Len(r) : r[i] = 1..n
<1>. USE PipelineAssumption
<1>1. received[s][c] \in Seq(SUBSET (1..MaxPages))
  BY DEF TypeRest
<1>2. 1..n \in SUBSET (1..MaxPages)
  OBVIOUS
<1>. QED BY <1>1, <1>2 DEF Copies

\* Numbers of copies are natural numbers.
LEMMA CopiesType ==
  ASSUME TypeRest, NEW s \in Scan, NEW c \in Channels
  PROVE  Copies(s, c) \in Nat
BY DEF TypeRest, Copies

\* A step of the callback raises, after an upload that has arrived or not.
LEMMA RaiseInv ==
  ASSUME IInv, jpc \in Serving \ {"callback"}, Raise, JobFrame,
         UNCHANGED <<dirVars, jobs, queueVars, called>>,
         \/ UNCHANGED received
         \/ \E ch \in Channels : jpc = ch /\ Receive(ch)
  PROVE  IInv'
<1>. USE ScanAssumption, PipelineAssumption DEF IInv, Types
<1>0. /\ jscan \in Scan /\ jpc' = "idle" /\ jscan' = None
      /\ <<jscan, 0>> \in Task /\ <<jscan, 0>> \notin queuedCallbacks \cup retry
      /\ HasCallback(jscan) /\ tries[<<jscan, 0>>] \in 0..Retries
      /\ called[jscan] /\ Stage(jscan)
  <2>1. /\ jscan \in Scan /\ jpc' = "idle" /\ jscan' = None
        /\ AtCallback(jscan)
    BY DEF Raise, Release, TypeQueues, QueueInv, QueuesDistinct, AtCallback,
           CallbackPhase, Serving
  <2>2. HasCallback(jscan) /\ <<jscan, 0>> \notin queuedCallbacks \cup retry
    BY <2>1 DEF HasCallback, QueueInv, QueuesDistinct
  <2>3. <<jscan, 0>> \in Task
    BY <2>1 DEF Task
  <2>4. Stage(jscan) /\ CallState(jscan)
    BY <2>1 DEF StageInv, CallInv
  <2>. QED
    BY <2>1, <2>2, <2>3, <2>4 DEF CallState, Stage, TypeTries
<1>u. /\ UNCHANGED <<jobQueue, callbackQueue, pageQueue, running, jobs>>
      /\ UNCHANGED <<dirs, normalized, document, script, scanning, pages>>
      /\ UNCHANGED <<ran, failed, called, kills>>
      /\ failures < MaxFailures /\ failures' = failures + 1
  BY DEF JobFrame, dirVars, queueVars, scanVars, Raise, MayFail
<1>r. /\ tries' = [tries EXCEPT ![<<jscan, 0>>] = @ + 1]
      /\ dead' \subseteq dead \cup {<<jscan, 0>>}
      /\ \/ retry' = retry
         \/ retry' = retry \cup {<<jscan, 0>>} /\ tries[<<jscan, 0>>] < Retries
  BY DEF Raise, Fail
<1>t. \A u \in Scan :
        /\ tries'[<<u, 0>>] = IF u = jscan THEN tries[<<u, 0>>] + 1
                                           ELSE tries[<<u, 0>>]
        /\ \A n \in 1..MaxPages : tries'[<<u, n>>] = tries[<<u, n>>]
  BY <1>0, <1>r DEF TypeTries, Task
<1>1. /\ queuedJobs' = queuedJobs
      /\ queuedCallbacks' = queuedCallbacks
      /\ queuedPages' = queuedPages
  BY <1>u DEF queuedJobs, queuedCallbacks, queuedPages
<1>p. \A u \in Scan : \A n \in 1..MaxPages : HasPage(u, n)' <=> HasPage(u, n)
  BY <1>1, <1>r, <1>u DEF HasPage
<1>q. \A u \in Scan :
        /\ HasJob(u)' <=> HasJob(u)
        /\ HasCallback(u)' => HasCallback(u)
        /\ u = jscan /\ HasCallback(u)' => tries[<<jscan, 0>>] < Retries
  BY <1>0, <1>1, <1>r
  DEF HasJob, AtJob, HasCallback, AtCallback, JobPhase, CallbackPhase, Serving
<1>v. \A u \in Scan : \A c \in Channels :
        \/ received'[u][c] = received[u][c]
        \/ /\ u = jscan /\ c = jpc
           /\ received'[u][c] = Append(received[u][c], 1..pages[u])
  <2>1. jpc \in Channels => document[jscan] = 1..pages[jscan]
    BY <1>0 DEF CallInv, CallState, Destination
  <2>. QED BY <1>0, <2>1, SMTT(30) DEF Receive, TypeRest
<1>2. TypeDirs'
  BY <1>u DEF TypeDirs
<1>3. TypeQueues'
  BY <1>0, <1>u DEF TypeQueues, JobPc
<1>4. TypeRunning'
  BY <1>u DEF TypeRunning
<1>5. TypeBatch'
  BY <1>u DEF TypeBatch
<1>6. TypeTries'
  BY <1>0, <1>r DEF TypeTries
<1>7. TypeRest'
  <2>1. CASE received' = received
    BY <1>u, <2>1 DEF TypeRest
  <2>2. CASE \E ch \in Channels : jpc = ch /\ Receive(ch)
    <3>1. /\ document[jscan] \in SUBSET (1..MaxPages)
          /\ received[jscan][jpc] \in Seq(SUBSET (1..MaxPages))
      BY <1>0, <2>2 DEF TypeDirs, TypeRest
    <3>2. Append(received[jscan][jpc], document[jscan])
            \in Seq(SUBSET (1..MaxPages))
      BY <3>1
    <3>. QED BY <1>0, <1>u, <2>2, <3>2 DEF TypeRest, Receive
  <2>. QED BY <2>1, <2>2
<1>8. QueueInv'
  BY <1>0, <1>1, <1>r, <1>u
  DEF QueueInv, QueuesDistinct, AtJob, AtCallback, JobPhase, CallbackPhase,
      Serving, PageTask
<1>9. StageInv'
  <2>. SUFFICES ASSUME NEW u \in Scan PROVE Stage(u)'
    BY DEF StageInv
  <2>1. Stage(u)
    BY DEF StageInv
  <2>. QED
    BY <1>0, <1>p, <1>q, <1>u, <2>1 DEF Stage
<1>10. PageInv'
  <2>. SUFFICES ASSUME NEW u \in Scan, NEW n \in 1..MaxPages
                PROVE  PageState(u, n)'
    BY DEF PageInv
  <2>1. PageState(u, n)
    BY DEF PageInv
  <2>. QED
    BY <1>p, <1>t, <1>u, <2>1 DEF PageState
<1>11. CallInv'
  <2>. SUFFICES ASSUME NEW u \in Scan PROVE CallState(u)'
    BY DEF CallInv
  <2>1. CallState(u)
    BY DEF CallInv
  <2>. QED
    BY <1>0, <1>q, <1>t, <1>u, <2>1 DEF CallState, Serving
<1>12. CopyInv'
  <2>. SUFFICES ASSUME NEW u \in Scan, NEW c \in Channels
                PROVE  CopyState(u, c)'
    BY DEF CopyInv
  <2>1. \A d \in Channels : CopyState(u, d) /\ Copies(u, d) \in Nat
    BY CopiesType DEF CopyInv
  <2>2. \A d \in Channels :
          \/ /\ received'[u][d] = received[u][d]
             /\ Copies(u, d)' = Copies(u, d)
          \/ /\ u = jscan /\ d = jpc /\ Copies(u, d)' = Copies(u, d) + 1
             /\ \A i \in 1..Copies(u, d)' : received'[u][d][i] = 1..pages[u]
    <3>. SUFFICES ASSUME NEW d \in Channels,
                         received'[u][d] # received[u][d]
                  PROVE  /\ u = jscan /\ d = jpc
                         /\ Copies(u, d)' = Copies(u, d) + 1
                         /\ \A i \in 1..Copies(u, d)' :
                              received'[u][d][i] = 1..pages[u]
      BY DEF Copies
    <3>1. u = jscan /\ d = jpc
          /\ received'[u][d] = Append(received[u][d], 1..pages[u])
      BY <1>v
    <3>2. pages[u] \in Nat /\ pages[u] <= MaxPages
      BY DEF TypeDirs
    <3>3. \A i \in 1..Copies(u, d) : received[u][d][i] = 1..pages[u]
      BY <2>1 DEF CopyState
    <3>. QED
      BY <3>1, <3>2, <3>3, ReceiveCopy DEF Copies
  <2>3. \A i \in 1..Copies(u, c)' : received'[u][c][i] = 1..pages[u]
    BY <2>1, <2>2 DEF CopyState
  <2>4. CASE u # jscan
    <3>1. /\ Served(u) = {} /\ Served(u)' = {}
          /\ WillServe(u)' => WillServe(u)
          /\ tries'[<<u, 0>>] = tries[<<u, 0>>]
      BY <1>0, <1>1, <1>r, <1>t, <2>4 DEF Served, WillServe
    <3>. QED
      BY <1>u, <2>1, <2>2, <2>3, <2>4, <3>1 DEF CopyState
  <2>5. CASE u = jscan
    <3>1. /\ Served(u)' = {} /\ WillServe(u)
          /\ tries'[<<u, 0>>] = tries[<<u, 0>>] + 1 /\ tries[<<u, 0>>] \in Nat
      BY <1>0, <1>t, <2>5 DEF Served, WillServe
    <3>2. /\ jpc \notin Served(u)
          /\ \A d \in Channels : <<d, jpc>> \in Before => d \in Served(u)
      BY <2>5 DEF Served, Before
    <3>. QED
      BY <1>0, <1>u, <2>1, <2>2, <2>3, <2>5, <3>1, <3>2 DEF CopyState
  <2>. QED BY <2>4, <2>5
<1>13. DoneInv'
  BY <1>0 DEF DoneInv
<1>14. ListInv'
  <2>1. ASSUME NEW u \in Scan, Owes(u)' PROVE Owes(u)
    BY <1>0, <1>1, <1>p, <1>r, <1>u, <2>1
    DEF Owes, AtCallback, CallbackPhase, Serving
  <2>2. jobs' = jobs
    BY <1>u
  <2>. QED BY <2>1, <2>2, ListShrinks
<1>. QED
  BY <1>2, <1>3, <1>4, <1>5, <1>6, <1>7,
     <1>8, <1>9, <1>10, <1>11, <1>12, <1>13, <1>14

\* A merge without failed pages finds every page normalized.
LEMMA MergeInv ==
  ASSUME IInv, Merge
  PROVE  IInv'
<1>. USE ScanAssumption, PipelineAssumption DEF IInv, Types
<1>. SUFFICES ASSUME At("merge"), Goto("gdrive"), JobFrame,
                     UNCHANGED <<retryVars, failures, dirs, normalized, jobs>>,
                     UNCHANGED <<queueVars, called, received>>,
                     document' = [document EXCEPT ![jscan] =
                         {t[2] : t \in {u \in normalized : u[1] = jscan}}]
              PROVE  IInv'
  BY RaiseInv DEF Merge, At, Serving, dirVars
<1>0. /\ jscan \in Scan /\ jpc = "merge" /\ jpc' = "gdrive" /\ jscan' = jscan
      /\ Stage(jscan) /\ CallState(jscan) /\ HasCallback(jscan)
      /\ UNCHANGED <<retry, dead, tries, failures, dirs, normalized, jobs>>
      /\ UNCHANGED <<jobQueue, callbackQueue, pageQueue, called, received>>
      /\ UNCHANGED <<script, scanning, pages, running, ran, failed, kills>>
  BY DEF At, Goto, JobFrame, retryVars, queueVars, scanVars, TypeQueues,
         QueueInv, QueuesDistinct, StageInv, CallInv, HasCallback, AtCallback,
         CallbackPhase, Serving
<1>d. document' = [document EXCEPT ![jscan] = 1..pages[jscan]]
  <2>. DEFINE merged == {t[2] : t \in {u \in normalized : u[1] = jscan}}
  <2>1. /\ failed[jscan] = {} /\ ran[jscan] = 1..pages[jscan]
        /\ jscan \in dirs /\ <<jscan, 0>> \notin normalized
    BY <1>0 DEF CallState, Stage, Serving
  <2>2. ASSUME NEW n \in 1..MaxPages
        PROVE  <<jscan, n>> \in normalized <=> n \in 1..pages[jscan]
    BY <1>0, <2>1 DEF PageInv, PageState
  <2>3. ASSUME NEW n PROVE n \in merged <=> n \in 1..pages[jscan]
    <3>1. CASE n \in merged
      <4>1. PICK t \in normalized : t[1] = jscan /\ n = t[2]
        BY <3>1
      <4>2. t = <<jscan, n>> /\ n \in 0..MaxPages
        BY <4>1 DEF TypeDirs, Task
      <4>3. n \in 1..MaxPages
        BY <2>1, <4>1, <4>2
      <4>. QED BY <2>2, <4>1, <4>2, <4>3
    <3>2. CASE n \in 1..pages[jscan]
      <4>1. n \in 1..MaxPages
        BY <1>0, <3>2 DEF TypeDirs
      <4>2. <<jscan, n>> \in {u \in normalized : u[1] = jscan}
        BY <2>2, <3>2, <4>1
      <4>3. <<jscan, n>>[2] = n
        OBVIOUS
      <4>. QED BY <3>2, <4>2, <4>3
    <3>. QED BY <3>1, <3>2
  <2>. QED BY <2>3
<1>1. /\ queuedJobs' = queuedJobs
      /\ queuedCallbacks' = queuedCallbacks
      /\ queuedPages' = queuedPages
  BY <1>0 DEF queuedJobs, queuedCallbacks, queuedPages
<1>p. \A u \in Scan : /\ \A n \in 1..MaxPages : HasPage(u, n)' <=> HasPage(u, n)
                      /\ HasJob(u)' <=> HasJob(u)
                      /\ HasCallback(u)' <=> HasCallback(u)
  BY <1>0, <1>1
  DEF HasPage, HasJob, AtJob, HasCallback, AtCallback, JobPhase, CallbackPhase,
      Serving
<1>2. TypeDirs'
  <2>1. 1..pages[jscan] \in SUBSET (1..MaxPages)
    BY <1>0 DEF TypeDirs
  <2>. QED BY <1>0, <1>d, <2>1 DEF TypeDirs
<1>3. TypeQueues'
  BY <1>0 DEF TypeQueues, JobPc
<1>4. TypeRunning'
  BY <1>0 DEF TypeRunning
<1>5. TypeBatch'
  BY <1>0 DEF TypeBatch
<1>6. TypeTries'
  BY <1>0 DEF TypeTries
<1>7. TypeRest'
  BY <1>0 DEF TypeRest
<1>8. QueueInv'
  BY <1>0, <1>1
  DEF QueueInv, QueuesDistinct, AtJob, AtCallback, JobPhase, CallbackPhase,
      Serving
<1>9. StageInv'
  <2>. SUFFICES ASSUME NEW u \in Scan PROVE Stage(u)'
    BY DEF StageInv
  <2>1. Stage(u)
    BY DEF StageInv
  <2>. QED BY <1>0, <1>p, <2>1 DEF Stage
<1>10. PageInv'
  <2>. SUFFICES ASSUME NEW u \in Scan, NEW n \in 1..MaxPages
                PROVE  PageState(u, n)'
    BY DEF PageInv
  <2>1. PageState(u, n)
    BY DEF PageInv
  <2>. QED BY <1>0, <1>p, <2>1 DEF PageState
<1>11. CallInv'
  <2>. SUFFICES ASSUME NEW u \in Scan PROVE CallState(u)'
    BY DEF CallInv
  <2>1. CallState(u)
    BY DEF CallInv
  <2>. QED
    BY <1>0, <1>d, <1>p, <2>1 DEF CallState, Serving, TypeDirs
<1>12. CopyInv'
  <2>. SUFFICES ASSUME NEW u \in Scan, NEW c \in Channels
                PROVE  CopyState(u, c)'
    BY DEF CopyInv
  <2>1. CopyState(u, c)
    BY DEF CopyInv
  <2>2. (WillServe(u)' <=> WillServe(u)) /\ Served(u)' = Served(u)
    BY <1>0, <1>1 DEF WillServe, Served, Serving
  <2>. QED
    BY <1>0, <2>1, <2>2 DEF CopyState, Copies
<1>13. DoneInv'
  BY <1>0 DEF DoneInv
<1>14. ListInv'
  <2>1. ASSUME NEW u \in Scan, Owes(u)' PROVE Owes(u)
    <3>1. Stage(u)
      BY DEF StageInv
    <3>. QED
      BY <1>0, <1>1, <1>p, <2>1, <3>1
      DEF Owes, Stage, QueueInv, QueuesDistinct, TypeQueues, TypeDirs, AtJob,
          AtCallback, HasJob, HasCallback, HasPage, JobPhase, CallbackPhase,
          Serving
  <2>2. jobs' = jobs
    BY <1>0
  <2>. QED BY <2>1, <2>2, ListShrinks
<1>. QED
  BY <1>2, <1>3, <1>4, <1>5, <1>6, <1>7,
     <1>8, <1>9, <1>10, <1>11, <1>12, <1>13, <1>14


\* The upload of the running callback succeeds, or there is none to do.
LEMMA ServeInv ==
  ASSUME IInv, NEW ch \in Destination, At(ch), Goto(After[ch]), JobFrame,
         UNCHANGED <<dirVars, jobs, queueVars, called, retryVars, failures>>,
         \/ ch \notin Channels /\ UNCHANGED received
         \/ ch \in Channels /\ Receive(ch)
  PROVE  IInv'
<1>. USE ScanAssumption, PipelineAssumption DEF IInv, Types
<1>0. /\ jscan \in Scan /\ jpc = ch /\ jpc' = After[ch] /\ jscan' = jscan
      /\ <<jscan, 0>> \notin queuedCallbacks \cup retry
      /\ HasCallback(jscan) /\ called[jscan] /\ document[jscan] = 1..pages[jscan]
      /\ UNCHANGED <<retry, dead, tries, failures, dirs, normalized, document>>
      /\ UNCHANGED <<jobQueue, callbackQueue, pageQueue, called, jobs>>
      /\ UNCHANGED <<script, scanning, pages, running, ran, failed, kills>>
  <2>1. jscan \in Scan /\ jpc = ch /\ AtCallback(jscan)
    BY DEF At, TypeQueues, QueueInv, QueuesDistinct, AtCallback, CallbackPhase,
           Serving, Destination
  <2>2. /\ Stage(jscan) /\ CallState(jscan) /\ HasCallback(jscan)
        /\ <<jscan, 0>> \notin queuedCallbacks \cup retry
    BY <2>1 DEF StageInv, CallInv, HasCallback, QueueInv, QueuesDistinct
  <2>3. called[jscan] /\ document[jscan] = 1..pages[jscan]
    BY <2>1, <2>2 DEF Stage, CallState, Destination
  <2>. QED
    BY <2>1, <2>2, <2>3
    DEF Goto, JobFrame, dirVars, retryVars, queueVars, scanVars
<1>a. /\ After["gdrive"] = "post" /\ After["post"] = "email"
      /\ After["email"] = "pop"
  BY DEF After
<1>b. /\ jpc = "gdrive" => jpc' = "post"
      /\ jpc = "post" => jpc' = "email"
      /\ jpc = "email" => jpc' = "pop"
      /\ jpc \in {"gdrive", "post", "email"}
  BY <1>0, <1>a DEF Destination
<1>v. \A u \in Scan : \A c \in Channels :
        received'[u][c] = IF u = jscan /\ c = jpc
                          THEN Append(received[u][c], 1..pages[u])
                          ELSE received[u][c]
  <2>1. CASE ch \notin Channels
    BY <1>0, <2>1
  <2>2. CASE ch \in Channels
    <3>1. /\ received' = [received EXCEPT ![jscan][ch] =
                           Append(@, document[jscan])]
          /\ jscan \in Scan /\ document[jscan] = 1..pages[jscan] /\ jpc = ch
      BY <1>0, <2>2 DEF Receive
    <3>. QED BY <2>2, <3>1 DEF TypeRest
  <2>. QED BY <2>1, <2>2
<1>1. /\ queuedJobs' = queuedJobs
      /\ queuedCallbacks' = queuedCallbacks
      /\ queuedPages' = queuedPages
  BY <1>0, <1>b DEF queuedJobs, queuedCallbacks, queuedPages
<1>p. \A u \in Scan : /\ \A n \in 1..MaxPages : HasPage(u, n)' <=> HasPage(u, n)
                      /\ HasJob(u)' <=> HasJob(u)
                      /\ HasCallback(u)' <=> HasCallback(u)
  BY <1>0, <1>b, <1>1
  DEF HasPage, HasJob, AtJob, HasCallback, AtCallback, JobPhase, CallbackPhase,
      Serving
<1>2. TypeDirs'
  BY <1>0 DEF TypeDirs
<1>3. TypeQueues'
  BY <1>0, <1>b DEF TypeQueues, JobPc
<1>4. TypeRunning'
  BY <1>0 DEF TypeRunning
<1>5. TypeBatch'
  BY <1>0 DEF TypeBatch
<1>6. TypeTries'
  BY <1>0 DEF TypeTries
<1>7. TypeRest'
  <2>1. CASE received' = received
    BY <1>0, <2>1 DEF TypeRest
  <2>2. CASE ch \in Channels /\ Receive(ch)
    <3>1. /\ document[jscan] \in SUBSET (1..MaxPages)
          /\ received[jscan][ch] \in Seq(SUBSET (1..MaxPages))
      BY <1>0, <2>2 DEF TypeDirs, TypeRest
    <3>2. Append(received[jscan][ch], document[jscan])
            \in Seq(SUBSET (1..MaxPages))
      BY <3>1
    <3>. QED BY <1>0, <2>2, <3>2 DEF TypeRest, Receive
  <2>. QED BY <2>1, <2>2
<1>8. QueueInv'
  BY <1>0, <1>b, <1>1
  DEF QueueInv, QueuesDistinct, AtJob, AtCallback, JobPhase, CallbackPhase,
      Serving
<1>9. StageInv'
  <2>. SUFFICES ASSUME NEW u \in Scan PROVE Stage(u)'
    BY DEF StageInv
  <2>1. Stage(u)
    BY DEF StageInv
  <2>. QED BY <1>0, <1>b, <1>p, <2>1 DEF Stage
<1>10. PageInv'
  <2>. SUFFICES ASSUME NEW u \in Scan, NEW n \in 1..MaxPages
                PROVE  PageState(u, n)'
    BY DEF PageInv
  <2>1. PageState(u, n)
    BY DEF PageInv
  <2>. QED BY <1>0, <1>p, <2>1 DEF PageState
<1>11. CallInv'
  <2>. SUFFICES ASSUME NEW u \in Scan PROVE CallState(u)'
    BY DEF CallInv
  <2>1. CallState(u)
    BY DEF CallInv
  <2>. QED
    BY <1>0, <1>b, <1>p, <2>1 DEF CallState, Serving, TypeDirs
<1>12. CopyInv'
  <2>. SUFFICES ASSUME NEW u \in Scan, NEW c \in Channels
                PROVE  CopyState(u, c)'
    BY DEF CopyInv
  <2>1. \A d \in Channels : CopyState(u, d) /\ Copies(u, d) \in Nat
    BY CopiesType DEF CopyInv
  <2>2. \A d \in Channels :
          \/ /\ received'[u][d] = received[u][d]
             /\ Copies(u, d)' = Copies(u, d)
          \/ /\ u = jscan /\ d = jpc /\ Copies(u, d)' = Copies(u, d) + 1
             /\ \A i \in 1..Copies(u, d)' : received'[u][d][i] = 1..pages[u]
    <3>. SUFFICES ASSUME NEW d \in Channels,
                         received'[u][d] # received[u][d]
                  PROVE  /\ u = jscan /\ d = jpc
                         /\ Copies(u, d)' = Copies(u, d) + 1
                         /\ \A i \in 1..Copies(u, d)' :
                              received'[u][d][i] = 1..pages[u]
      BY DEF Copies
    <3>1. u = jscan /\ d = jpc
          /\ received'[u][d] = Append(received[u][d], 1..pages[u])
      BY <1>v
    <3>2. pages[u] \in Nat /\ pages[u] <= MaxPages
      BY DEF TypeDirs
    <3>3. \A i \in 1..Copies(u, d) : received[u][d][i] = 1..pages[u]
      BY <2>1 DEF CopyState
    <3>. QED
      BY <3>1, <3>2, <3>3, ReceiveCopy DEF Copies
  <2>3. \A i \in 1..Copies(u, c)' : received'[u][c][i] = 1..pages[u]
    BY <2>1, <2>2 DEF CopyState
  <2>4. CASE u # jscan
    <3>1. /\ Served(u) = {} /\ Served(u)' = {}
          /\ WillServe(u)' => WillServe(u)
      BY <1>0, <1>1, <2>4 DEF Served, WillServe
    <3>. QED
      BY <1>0, <2>1, <2>2, <2>3, <2>4, <3>1 DEF CopyState
  <2>5. CASE u = jscan
    <3>1. /\ WillServe(u) /\ tries[<<u, 0>>] \in Nat
          /\ Served(u)' \subseteq Served(u) \cup {jpc}
          /\ \A d \in Channels \ Served(u)' :
               WillServe(u)' => d # jpc /\ d \notin Served(u)
      BY <1>0, <1>1, <1>b, <2>5 DEF Served, WillServe, Serving, TypeTries, Task
    <3>2. /\ jpc \notin Served(u)
          /\ \A d \in Channels : <<d, jpc>> \in Before => d \in Served(u)
          /\ \A d \in Channels : d \notin Served(u) => d = jpc
                                                       \/ <<jpc, d>> \in Before
      BY <1>b, <2>5, PipelineAssumption DEF Served, Before, Destination
    <3>3. \A d \in Channels : d = jpc => Copies(u, d)' = Copies(u, d) + 1
      <4>. SUFFICES ASSUME NEW d \in Channels, d = jpc
                    PROVE  Copies(u, d)' = Copies(u, d) + 1
        OBVIOUS
      <4>1. received'[u][d] = Append(received[u][d], 1..pages[u])
        BY <1>v, <2>5
      <4>2. /\ pages[u] \in Nat /\ pages[u] <= MaxPages
            /\ \A i \in 1..Copies(u, d) : received[u][d][i] = 1..pages[u]
        BY <2>1 DEF TypeDirs, CopyState
      <4>. QED BY <4>1, <4>2, ReceiveCopy DEF Copies
    <3>0. \A d \in Channels : d # jpc => Copies(u, d)' = Copies(u, d)
      BY <2>2
    <3>4. Copies(u, c)' <= tries[<<u, 0>>] + 1
      BY <2>1, <3>0, <3>1, <3>2, <3>3 DEF CopyState
    <3>5. \A d \in Channels : <<d, c>> \in Before
                               => Copies(u, c)' <= Copies(u, d)'
      <4>. SUFFICES ASSUME NEW d \in Channels, <<d, c>> \in Before
                    PROVE  Copies(u, c)' <= Copies(u, d)'
        OBVIOUS
      <4>1. Copies(u, c) <= Copies(u, d) /\ Copies(u, d) <= Copies(u, d)'
        BY <2>1, <3>0, <3>3 DEF CopyState
      <4>2. c = jpc => d \in Served(u) /\ Copies(u, c) < Copies(u, d)
        BY <2>1, <3>1, <3>2 DEF CopyState
      <4>. QED BY <2>1, <2>2, <4>1, <4>2
    <3>6. c \in Served(u)' => Copies(u, c)' > 0
      BY <2>1, <3>0, <3>1, <3>3 DEF CopyState
    <3>7. ASSUME WillServe(u)', c \notin Served(u)'
          PROVE  /\ Copies(u, c)' <= tries[<<u, 0>>]
                 /\ \A d \in Channels : d \in Served(u)'
                      => Copies(u, c)' < Copies(u, d)'
      <4>1. c # jpc /\ c \notin Served(u) /\ Copies(u, c)' = Copies(u, c)
        BY <3>0, <3>1, <3>7
      <4>2. <<jpc, c>> \in Before
        BY <3>2, <4>1
      <4>3. Copies(u, c) <= tries[<<u, 0>>]
        BY <2>1, <3>1, <4>1 DEF CopyState
      <4>4. ASSUME NEW d \in Channels, d \in Served(u)'
            PROVE  Copies(u, c) < Copies(u, d)'
        <5>1. CASE d = jpc
          BY <2>1, <3>3, <4>2, <5>1 DEF CopyState
        <5>2. CASE d # jpc
          BY <2>1, <3>0, <3>1, <4>1, <4>4, <5>2 DEF CopyState
        <5>. QED BY <5>1, <5>2
      <4>. QED BY <4>1, <4>3, <4>4
    <3>. QED
      BY <1>0, <2>3, <2>5, <3>4, <3>5, <3>6, <3>7 DEF CopyState
  <2>. QED BY <2>4, <2>5
<1>13. DoneInv'
  <2>. SUFFICES ASSUME jpc = "email", NEW c \in Channels
                PROVE  Copies(jscan, c)' > 0
    BY <1>0, <1>b DEF DoneInv
  <2>1. CopyState(jscan, c) /\ Copies(jscan, c) \in Nat
    BY <1>0, CopiesType DEF CopyInv
  <2>2. CASE c # "email"
    <3>1. c \in Served(jscan)
      BY <1>0, <2>2 DEF Served, Destination
    <3>2. Copies(jscan, c)' = Copies(jscan, c)
      BY <1>0, <1>v, <2>2 DEF Copies
    <3>. QED BY <2>1, <3>1, <3>2 DEF CopyState
  <2>3. CASE c = "email"
    <3>1. received'[jscan][c] = Append(received[jscan][c], 1..pages[jscan])
      BY <1>0, <1>v, <2>3
    <3>2. /\ pages[jscan] \in Nat /\ pages[jscan] <= MaxPages
          /\ \A i \in 1..Copies(jscan, c) :
               received[jscan][c][i] = 1..pages[jscan]
      BY <1>0, <2>1 DEF TypeDirs, CopyState
    <3>. QED BY <1>0, <2>1, <3>1, <3>2, ReceiveCopy DEF Copies
  <2>. QED BY <2>2, <2>3
<1>14. ListInv'
  <2>1. ASSUME NEW u \in Scan, Owes(u)' PROVE Owes(u)
    BY <1>0, <1>1, <1>b, <1>p, <2>1
    DEF Owes, AtCallback, CallbackPhase, Serving
  <2>2. jobs' = jobs
    BY <1>0
  <2>. QED BY <2>1, <2>2, ListShrinks
<1>. QED
  BY <1>2, <1>3, <1>4, <1>5, <1>6, <1>7,
     <1>8, <1>9, <1>10, <1>11, <1>12, <1>13, <1>14

\* An upload adds one whole copy or raises.
LEMMA UploadInv ==
  ASSUME NEW ch \in Destination, IInv, Upload(ch)
  PROVE  IInv'
<1>1. ch \in Serving \ {"callback"}
  BY DEF Destination, Serving
<1>. QED
  BY <1>1, RaiseInv, ServeInv DEF Upload, At

\* The callback takes one entry, the one that its scan owes.
LEMMA CleanUpPopInv ==
  ASSUME IInv, CleanUpPop
  PROVE  IInv'
<1>. USE ScanAssumption, PipelineAssumption DEF IInv, Types
<1>1. /\ queuedJobs' = queuedJobs
      /\ queuedCallbacks' = queuedCallbacks
      /\ queuedPages' = queuedPages
      /\ QueuesDistinct'
  BY DEF CleanUpPop, scanVars, dirVars, queueVars, retryVars, JobFrame, At,
         Goto, QueueInv, QueuesDistinct, queuedJobs, queuedCallbacks,
         queuedPages
<1>2. TypeDirs'
  BY DEF CleanUpPop, scanVars, dirVars, queueVars, retryVars, JobFrame, At,
         Goto, TypeDirs, ScriptPc
<1>3. TypeQueues'
  BY <1>1 DEF CleanUpPop, scanVars, dirVars, queueVars, retryVars, JobFrame,
              At, Goto, TypeQueues, JobPc, QueueInv, QueuesDistinct
<1>4. TypeRunning'
  BY DEF CleanUpPop, scanVars, dirVars, queueVars, retryVars, JobFrame, At,
         Goto, TypeRunning
<1>5. TypeBatch'
  BY DEF CleanUpPop, scanVars, dirVars, queueVars, retryVars, JobFrame, At,
         Goto, TypeBatch
<1>6. TypeTries'
  BY DEF CleanUpPop, scanVars, dirVars, queueVars, retryVars, JobFrame, At,
         Goto, TypeTries, TypeQueues
<1>7. TypeRest'
  BY DEF CleanUpPop, scanVars, dirVars, queueVars, retryVars, JobFrame, At,
         Goto, TypeRest, TypeDirs, TypeQueues
<1>8. QueueInv'
  BY <1>1 DEF CleanUpPop, scanVars, dirVars, queueVars, retryVars, JobFrame,
              At, Goto, QueueInv, QueuesDistinct, TypeQueues, TypeTries,
              TypeRunning, JobPc, CallbackTask, PageTask, AtJob, AtCallback,
              HasJob, HasCallback, HasPage, JobPhase, CallbackPhase, Serving
<1>9. StageInv'
  <2>. SUFFICES ASSUME NEW u \in Scan PROVE Stage(u)'
    BY DEF StageInv
  <2>1. Stage(u)
    BY DEF StageInv
  <2>. QED
    BY <1>1, <2>1 DEF CleanUpPop, scanVars, dirVars, queueVars, retryVars,
                      JobFrame, At, Goto, Stage, JobPc, ScriptPc, QueueInv,
                      QueuesDistinct, TypeDirs, TypeQueues, TypeRunning,
                      TypeBatch, TypeTries, AtJob, AtCallback, HasJob,
                      HasCallback, HasPage, JobPhase, CallbackPhase, Serving
<1>10. PageInv'
  <2>. SUFFICES ASSUME NEW u \in Scan, NEW n \in 1..MaxPages
                PROVE  PageState(u, n)'
    BY DEF PageInv
  <2>1. PageState(u, n) /\ Stage(u)
    BY DEF PageInv, StageInv
  <2>. QED
    BY <1>1, <2>1 DEF CleanUpPop, scanVars, dirVars, queueVars, retryVars,
                      JobFrame, At, Goto, PageState, Stage, Task, TypeDirs,
                      TypeQueues, TypeRunning, TypeBatch, TypeTries, AtJob,
                      AtCallback, HasJob, HasCallback, HasPage, JobPhase,
                      CallbackPhase, Serving
<1>11. CallInv'
  <2>. SUFFICES ASSUME NEW u \in Scan PROVE CallState(u)'
    BY DEF CallInv
  <2>1. CallState(u) /\ Stage(u)
    BY DEF CallInv, StageInv
  <2>. QED
    BY <1>1, <2>1 DEF CleanUpPop, scanVars, dirVars, queueVars, retryVars,
                      JobFrame, At, Goto, CallState, Stage, Task, QueueInv,
                      QueuesDistinct, TypeDirs, TypeQueues, TypeRunning,
                      TypeBatch, TypeTries, AtJob, AtCallback, HasJob,
                      HasCallback, HasPage, JobPhase, CallbackPhase, Serving
<1>12. CopyInv'
  <2>. SUFFICES ASSUME NEW u \in Scan, NEW c \in Channels
                PROVE  CopyState(u, c)'
    BY DEF CopyInv
  <2>1. CopyState(u, c) /\ Stage(u)
    BY DEF CopyInv, StageInv
  <2>. QED
    BY <1>1, <2>1 DEF CleanUpPop, scanVars, dirVars, queueVars, retryVars,
                      JobFrame, At, Goto, CopyState, Copies, Served, WillServe,
                      Stage, QueueInv, QueuesDistinct, TypeDirs, TypeQueues,
                      TypeRunning, TypeBatch, TypeTries, TypeRest, AtJob,
                      AtCallback, HasJob, HasCallback, HasPage, JobPhase,
                      CallbackPhase, Serving
<1>13. DoneInv'
  BY <1>1 DEF CleanUpPop, scanVars, dirVars, queueVars, retryVars, JobFrame,
              At, Goto, DoneInv, flawed, Copies, TypeQueues, TypeTries,
              TypeRest, Task
<1>14. ListInv'
  <2>1. /\ jscan \in Scan /\ Stage(jscan)
        /\ jobs' = IF jobs = <<>> THEN <<>> ELSE Tail(jobs)
        /\ Owes(jscan)
    BY DEF CleanUpPop, StageInv, Owes, AtCallback, CallbackPhase, TypeQueues,
           QueueInv, QueuesDistinct
  <2>2. /\ \/ jpc = "pop" /\ jpc' = "rm"
           \/ jpc = "pop_empty" /\ jpc' = "rm_empty"
        /\ UNCHANGED <<jscan, retry, running, called, pages>>
    <3>1. UNCHANGED <<jscan, retry, running, called, pages>>
      BY DEF CleanUpPop, JobFrame, Goto, retryVars
    <3>2. jpc = "pop" => jpc' = "rm"
      BY DEF CleanUpPop, At, Goto
    <3>3. jpc = "pop_empty" => jpc' = "rm_empty"
      BY DEF CleanUpPop, At, Goto
    <3>4. jpc \in {"pop", "pop_empty"}
      BY DEF CleanUpPop
    <3>. QED BY <3>1, <3>2, <3>3, <3>4
  <2>3. ~Owes(jscan)'
    <3>1. /\ jpc = "pop" => HasCallback(jscan)
          /\ jpc = "pop_empty" => HasJob(jscan)
      BY <2>2 DEF HasCallback, AtCallback, CallbackPhase, HasJob, AtJob,
                  JobPhase
    <3>2. <<jscan, 0>> \notin queuedCallbacks \cup retry
      BY <2>1, <2>2, <3>1
      DEF Stage, QueueInv, QueuesDistinct, HasCallback, AtCallback,
          CallbackPhase
    <3>3. called[jscan] \/ \A p \in 1..MaxPages : ~HasPage(jscan, p)
      BY <2>1, <2>2, <3>1 DEF Stage
    <3>. QED
      BY <1>1, <2>2, <3>2, <3>3
      DEF Owes, HasPage, AtCallback, CallbackPhase, Serving
  <2>4. ASSUME NEW u \in Scan, Owes(u)' PROVE Owes(u) /\ u # jscan
    BY <1>1, <2>2, <2>3, <2>4 DEF Owes, HasPage, AtCallback
  <2>. QED BY <2>1, <2>4, ListPops
<1>. QED
  BY <1>2, <1>3, <1>4, <1>5, <1>6, <1>7,
     <1>8, <1>9, <1>10, <1>11, <1>12, <1>13, <1>14

\* Nothing that is left needs the directory.
LEMMA CleanUpRemoveInv ==
  ASSUME IInv, CleanUpRemove
  PROVE  IInv'
<1>. USE ScanAssumption, PipelineAssumption DEF IInv, Types
<1>1. /\ queuedJobs' = queuedJobs
      /\ queuedCallbacks' = queuedCallbacks
      /\ queuedPages' = queuedPages
      /\ QueuesDistinct'
  BY DEF CleanUpRemove, scanVars, dirVars, queueVars, retryVars, JobFrame, At,
         Goto, Release, RemoveDirectory, QueueInv, QueuesDistinct, queuedJobs,
         queuedCallbacks, queuedPages
<1>2. TypeDirs'
  BY DEF CleanUpRemove, scanVars, dirVars, queueVars, retryVars, JobFrame, At,
         Goto, Release, RemoveDirectory, TypeDirs, ScriptPc
<1>3. TypeQueues'
  BY <1>1 DEF CleanUpRemove, scanVars, dirVars, queueVars, retryVars, JobFrame,
              At, Goto, Release, RemoveDirectory, TypeQueues, JobPc, QueueInv,
              QueuesDistinct
<1>4. TypeRunning'
  BY DEF CleanUpRemove, scanVars, dirVars, queueVars, retryVars, JobFrame, At,
         Goto, Release, RemoveDirectory, TypeRunning
<1>5. TypeBatch'
  BY DEF CleanUpRemove, scanVars, dirVars, queueVars, retryVars, JobFrame, At,
         Goto, Release, RemoveDirectory, TypeBatch
<1>6. TypeTries'
  BY DEF CleanUpRemove, scanVars, dirVars, queueVars, retryVars, JobFrame, At,
         Goto, Release, RemoveDirectory, TypeTries, TypeQueues
<1>7. TypeRest'
  BY DEF CleanUpRemove, scanVars, dirVars, queueVars, retryVars, JobFrame, At,
         Goto, Release, RemoveDirectory, TypeRest, TypeDirs, TypeQueues
<1>8. QueueInv'
  BY <1>1 DEF CleanUpRemove, scanVars, dirVars, queueVars, retryVars, JobFrame,
              At, Goto, Release, RemoveDirectory, QueueInv, QueuesDistinct,
              TypeQueues, TypeTries, TypeRunning, JobPc, CallbackTask,
              PageTask, AtJob, AtCallback, HasJob, HasCallback, HasPage,
              JobPhase, CallbackPhase, Serving
<1>9. StageInv'
  <2>. SUFFICES ASSUME NEW u \in Scan PROVE Stage(u)'
    BY DEF StageInv
  <2>1. Stage(u)
    BY DEF StageInv
  <2>. QED
    BY <1>1, <2>1 DEF CleanUpRemove, scanVars, dirVars, queueVars, retryVars,
                      JobFrame, At, Goto, Release, RemoveDirectory, Stage,
                      JobPc, ScriptPc, QueueInv, QueuesDistinct, TypeDirs,
                      TypeQueues, TypeRunning, TypeBatch, TypeTries, AtJob,
                      AtCallback, HasJob, HasCallback, HasPage, JobPhase,
                      CallbackPhase, Serving
<1>10. PageInv'
  <2>. SUFFICES ASSUME NEW u \in Scan, NEW n \in 1..MaxPages
                PROVE  PageState(u, n)'
    BY DEF PageInv
  <2>1. PageState(u, n) /\ Stage(u)
    BY DEF PageInv, StageInv
  <2>. QED
    BY <1>1, <2>1 DEF CleanUpRemove, scanVars, dirVars, queueVars, retryVars,
                      JobFrame, At, Goto, Release, RemoveDirectory, PageState,
                      Stage, Task, TypeDirs, TypeQueues, TypeRunning,
                      TypeBatch, TypeTries, AtJob, AtCallback, HasJob,
                      HasCallback, HasPage, JobPhase, CallbackPhase, Serving
<1>11. CallInv'
  <2>. SUFFICES ASSUME NEW u \in Scan PROVE CallState(u)'
    BY DEF CallInv
  <2>1. CallState(u) /\ Stage(u)
    BY DEF CallInv, StageInv
  <2>. QED
    BY <1>1, <2>1 DEF CleanUpRemove, scanVars, dirVars, queueVars, retryVars,
                      JobFrame, At, Goto, Release, RemoveDirectory, CallState,
                      Stage, Task, QueueInv, QueuesDistinct, TypeDirs,
                      TypeQueues, TypeRunning, TypeBatch, TypeTries, AtJob,
                      AtCallback, HasJob, HasCallback, HasPage, JobPhase,
                      CallbackPhase, Serving
<1>12. CopyInv'
  <2>. SUFFICES ASSUME NEW u \in Scan, NEW c \in Channels
                PROVE  CopyState(u, c)'
    BY DEF CopyInv
  <2>1. CopyState(u, c) /\ Stage(u)
    BY DEF CopyInv, StageInv
  <2>. QED
    BY <1>1, <2>1 DEF CleanUpRemove, scanVars, dirVars, queueVars, retryVars,
                      JobFrame, At, Goto, Release, RemoveDirectory, CopyState,
                      Copies, Served, WillServe, Stage, QueueInv,
                      QueuesDistinct, TypeDirs, TypeQueues, TypeRunning,
                      TypeBatch, TypeTries, TypeRest, AtJob, AtCallback,
                      HasJob, HasCallback, HasPage, JobPhase, CallbackPhase,
                      Serving
<1>13. DoneInv'
  BY <1>1 DEF CleanUpRemove, scanVars, dirVars, queueVars, retryVars, JobFrame,
              At, Goto, Release, RemoveDirectory, DoneInv, flawed, Copies,
              TypeQueues, TypeTries, TypeRest, Task
<1>14. ListInv'
  <2>1. ASSUME NEW u \in Scan, Owes(u)' PROVE Owes(u)
    <3>1. Stage(u)
      BY DEF StageInv
    <3>. QED
      BY <1>1, <2>1, <3>1 DEF CleanUpRemove, scanVars, dirVars, queueVars,
                              retryVars, JobFrame, At, Goto, Release,
                              RemoveDirectory, Owes, Stage, QueueInv,
                              QueuesDistinct, TypeQueues, TypeDirs, AtJob,
                              AtCallback, HasJob, HasCallback, HasPage,
                              JobPhase, CallbackPhase, Serving
  <2>2. jobs' = jobs
    BY DEF CleanUpRemove, scanVars, dirVars, queueVars, retryVars, JobFrame, At,
        Goto, Release, RemoveDirectory
  <2>. QED BY <2>1, <2>2, ListShrinks
<1>. QED
  BY <1>2, <1>3, <1>4, <1>5, <1>6, <1>7,
     <1>8, <1>9, <1>10, <1>11, <1>12, <1>13, <1>14

\* A page moves from its queue to a worker.
LEMMA StartPageInv ==
  ASSUME IInv, StartPage
  PROVE  IInv'
<1>. USE ScanAssumption, PipelineAssumption DEF IInv, Types
<1>0. /\ pageQueue \in Seq(Task) /\ pageQueue # <<>> /\ Distinct(pageQueue)
      /\ pageQueue' = Tail(pageQueue)
      /\ running' = running \cup {Head(pageQueue)}
      /\ Cardinality(running) < PageThreads
      /\ UNCHANGED <<script, scanning, dirs, normalized, document, pages, jobs>>
      /\ UNCHANGED <<jobQueue, callbackQueue, jpc, jscan, ran, failed, called>>
      /\ UNCHANGED <<retry, dead, tries, received, failures, kills>>
  BY DEF StartPage, PageFrame, scanVars, batchVars, retryVars, TypeQueues,
         QueueInv, QueuesDistinct
<1>s. PICK s \in Scan, p \in 1..MaxPages : Head(pageQueue) = <<s, p>>
  <2>1. Head(pageQueue) \in PageTask
    BY <1>0, ElemsTail DEF QueueInv, QueuesDistinct, queuedPages
  <2>. QED BY <2>1 DEF PageTask
<1>1. /\ queuedJobs' = queuedJobs
      /\ queuedCallbacks' = queuedCallbacks
      /\ <<s, p>> \in queuedPages
      /\ queuedPages' = queuedPages \ {<<s, p>>}
      /\ pageQueue' \in Seq(Task) /\ <<s, p>> \in Task
      /\ QueuesDistinct'
  <2>0. /\ Elems(Tail(pageQueue)) = Elems(pageQueue) \ {Head(pageQueue)}
        /\ Head(pageQueue) \in Elems(pageQueue) /\ Head(pageQueue) \in Task
        /\ Tail(pageQueue) \in Seq(Task) /\ Distinct(Tail(pageQueue))
    BY <1>0, ElemsTail
  <2>1. /\ Elems(Tail(pageQueue)) = Elems(pageQueue) \ {<<s, p>>}
        /\ <<s, p>> \in Elems(pageQueue) /\ <<s, p>> \in Task
        /\ Tail(pageQueue) \in Seq(Task) /\ Distinct(Tail(pageQueue))
    BY <1>s, <2>0
  <2>. QED
    BY <1>0, <2>1 DEF QueuesDistinct, QueueInv, queuedJobs, queuedCallbacks,
                      queuedPages
<1>p. \A u \in Scan : \A n \in 1..MaxPages : HasPage(u, n)' <=> HasPage(u, n)
  BY <1>0, <1>1, <1>s DEF HasPage
<1>q. \A u \in Scan : /\ HasJob(u)' <=> HasJob(u)
                      /\ HasCallback(u)' <=> HasCallback(u)
  BY <1>0, <1>1 DEF HasJob, AtJob, HasCallback, AtCallback
<1>2. TypeDirs'
  BY <1>0 DEF TypeDirs
<1>3. TypeQueues'
  BY <1>0, <1>1 DEF TypeQueues
<1>4. TypeRunning'
  <2>1. <<s, p>> \notin running
    BY <1>1 DEF QueueInv, QueuesDistinct
  <2>2. /\ IsFiniteSet(running \cup {<<s, p>>})
        /\ Cardinality(running \cup {<<s, p>>}) = Cardinality(running) + 1
    BY <2>1, FS_AddElement DEF TypeRunning
  <2>3. Cardinality(running) \in Nat
    BY FS_CardinalityType DEF TypeRunning
  <2>4. running' = running \cup {<<s, p>>}
    BY <1>0, <1>s
  <2>5. running' \subseteq Task
    BY <1>1, <2>4 DEF TypeRunning
  <2>6. Cardinality(running) + 1 <= PageThreads
    BY <1>0, <2>3
  <2>. QED BY <2>2, <2>4, <2>5, <2>6 DEF TypeRunning
<1>5. TypeBatch'
  BY <1>0 DEF TypeBatch
<1>6. TypeTries'
  BY <1>0 DEF TypeTries
<1>7. TypeRest'
  BY <1>0 DEF TypeRest
<1>8. QueueInv'
  <2>1. <<s, p>> \in PageTask /\ <<s, p>> \notin retry
    BY <1>1 DEF QueueInv, QueuesDistinct
  <2>. QED
    BY <1>0, <1>1, <1>s, <2>1 DEF QueueInv, QueuesDistinct, AtJob, AtCallback
<1>9. StageInv'
  <2>. SUFFICES ASSUME NEW u \in Scan PROVE Stage(u)'
    BY DEF StageInv
  <2>1. Stage(u)
    BY DEF StageInv
  <2>. QED BY <1>0, <1>p, <1>q, <2>1 DEF Stage
<1>10. PageInv'
  <2>. SUFFICES ASSUME NEW u \in Scan, NEW n \in 1..MaxPages
                PROVE  PageState(u, n)'
    BY DEF PageInv
  <2>1. PageState(u, n)
    BY DEF PageInv
  <2>. QED BY <1>0, <1>p, <2>1 DEF PageState
<1>11. CallInv'
  <2>. SUFFICES ASSUME NEW u \in Scan PROVE CallState(u)'
    BY DEF CallInv
  <2>1. CallState(u)
    BY DEF CallInv
  <2>. QED BY <1>0, <1>q, <2>1 DEF CallState
<1>12. CopyInv'
  <2>. SUFFICES ASSUME NEW u \in Scan, NEW c \in Channels
                PROVE  CopyState(u, c)'
    BY DEF CopyInv
  <2>1. CopyState(u, c)
    BY DEF CopyInv
  <2>2. (WillServe(u)' => WillServe(u)) /\ Served(u)' = Served(u)
    BY <1>0, <1>1 DEF WillServe, Served
  <2>. QED BY <1>0, <2>1, <2>2 DEF CopyState, Copies
<1>13. DoneInv'
  BY <1>0 DEF DoneInv, flawed, Copies
<1>14. ListInv'
  <2>1. ASSUME NEW u \in Scan, Owes(u)' PROVE Owes(u)
    <3>1. Stage(u)
      BY DEF StageInv
    <3>. QED
      BY <1>0, <1>1, <1>p, <2>1, <3>1
      DEF Owes, Stage, QueueInv, QueuesDistinct, TypeQueues, TypeDirs, AtJob,
          AtCallback, HasJob, HasCallback, HasPage, JobPhase, CallbackPhase,
          Serving
  <2>2. jobs' = jobs
    BY <1>0
  <2>. QED BY <2>1, <2>2, ListShrinks
<1>. QED
  BY <1>2, <1>3, <1>4, <1>5, <1>6, <1>7,
     <1>8, <1>9, <1>10, <1>11, <1>12, <1>13, <1>14

\* A page succeeds; the last first run queues the callback once.
LEMMA EndPageInv ==
  ASSUME NEW t \in Task, IInv, EndPage(t)
  PROVE  IInv'
<1>. USE ScanAssumption, PipelineAssumption DEF IInv, Types
<1>s. PICK s \in Scan, p \in 1..MaxPages : t = <<s, p>>
  BY DEF EndPage, QueueInv, QueuesDistinct, PageTask
<1>. DEFINE complete == ran[s] \cup {p} = 1..pages[s] /\ ~called[s]
<1>0. /\ <<s, p>> \in running /\ <<s, p>> \in Task /\ <<s, 0>> \in Task
      /\ running' = running \ {<<s, p>>}
      /\ ran' = [ran EXCEPT ![s] = @ \cup {p}]
      /\ called'[s] = (called[s] \/ complete) /\ called' \in [Scan -> BOOLEAN]
      /\ \A u \in Scan : u # s => called'[u] = called[u]
      /\ callbackQueue' = IF complete THEN Append(callbackQueue, <<s, 0>>)
                                      ELSE callbackQueue
  <2>1. /\ <<s, p>> \in running /\ running' = running \ {<<s, p>>} /\ Report(t)
        /\ UNCHANGED pages
    BY <1>s DEF EndPage, PageFrame
  <2>2. <<s, p>> \in Task /\ <<s, 0>> \in Task
    BY DEF Task
  <2>3. t[1] = s /\ t[2] = p
    BY <1>s
  <2>4. /\ ran' = [ran EXCEPT ![s] = @ \cup {p}]
        /\ (ran'[s] = 1..pages[s] /\ ~called[s]) <=> complete
    BY <2>1, <2>3 DEF Report, TypeBatch
  <2>5. /\ called' = [called EXCEPT ![s] =
                        @ \/ (ran'[s] = 1..pages[s] /\ ~called[s])]
        /\ callbackQueue' = IF ran'[s] = 1..pages[s] /\ ~called[s]
                            THEN Append(callbackQueue, <<s, 0>>)
                            ELSE callbackQueue
    BY <2>3 DEF EndPage, Report, TypeBatch
  <2>6. callbackQueue' = IF complete THEN Append(callbackQueue, <<s, 0>>)
                                     ELSE callbackQueue
    BY <2>4, <2>5
  <2>7. /\ called'[s] = (called[s] \/ complete)
        /\ \A u \in Scan : u # s => called'[u] = called[u]
        /\ called' \in [Scan -> BOOLEAN]
    BY <2>4, <2>5 DEF TypeBatch
  <2>. QED BY <2>1, <2>2, <2>4, <2>6, <2>7
<1>u. /\ s \in dirs /\ normalized' = normalized \cup {<<s, p>>}
      /\ failed' = [failed EXCEPT ![s] = @ \ {p}]
      /\ UNCHANGED <<script, scanning, dirs, document, pages, jobs, jobQueue>>
      /\ UNCHANGED <<jpc, jscan, pageQueue, received, failures, kills>>
      /\ UNCHANGED <<retry, dead, tries>>
  BY <1>s DEF EndPage, PageFrame, scanVars, retryVars
<1>v. HasPage(s, p) /\ PageState(s, p) /\ Stage(s) /\ p <= pages[s]
      /\ <<s, p>> \notin retry /\ <<s, p>> \notin queuedPages
  <2>1. HasPage(s, p)
    BY <1>0 DEF HasPage
  <2>2. PageState(s, p) /\ Stage(s)
    BY DEF PageInv, StageInv
  <2>3. <<s, p>> \notin retry /\ <<s, p>> \notin queuedPages
    BY <1>0 DEF QueueInv, QueuesDistinct
  <2>. QED BY <2>1, <2>2, <2>3 DEF PageState
<1>w. complete => /\ ~HasCallback(s) /\ ~called[s]
                  /\ <<s, 0>> \notin queuedCallbacks /\ <<s, 0>> \notin retry
                  /\ s \in dirs /\ tries[<<s, 0>>] = 0
  <2>1. complete => ~HasCallback(s) /\ ~called[s] /\ s \in dirs
    BY <1>v DEF Stage, TypeDirs
  <2>2. CallState(s)
    BY DEF CallInv
  <2>. QED BY <2>1, <2>2 DEF HasCallback, CallState
<1>1. /\ queuedJobs' = queuedJobs
      /\ queuedCallbacks' = IF complete THEN queuedCallbacks \cup {<<s, 0>>}
                                        ELSE queuedCallbacks
      /\ queuedPages' = queuedPages
      /\ callbackQueue' \in Seq(Task)
      /\ QueuesDistinct'
  <2>. HIDE DEF complete
  <2>1. callbackQueue \in Seq(Task) /\ Distinct(callbackQueue)
    BY DEF TypeQueues, QueueInv, QueuesDistinct
  <2>2. CASE complete
    <3>1. <<s, 0>> \notin Elems(callbackQueue)
      BY <1>w, <2>2 DEF queuedCallbacks
    <3>2. /\ Append(callbackQueue, <<s, 0>>) \in Seq(Task)
          /\ Elems(Append(callbackQueue, <<s, 0>>))
               = Elems(callbackQueue) \cup {<<s, 0>>}
          /\ Distinct(Append(callbackQueue, <<s, 0>>))
      BY <1>0, <2>1, <3>1, TaskAppend
    <3>. QED
      BY <1>0, <1>u, <2>2, <3>2
      DEF QueuesDistinct, QueueInv, queuedJobs, queuedCallbacks, queuedPages
  <2>3. CASE ~complete
    BY <1>0, <1>u, <2>1, <2>3
    DEF QueuesDistinct, QueueInv, queuedJobs, queuedCallbacks, queuedPages
  <2>. QED BY <2>2, <2>3
<1>p. \A u \in Scan : \A n \in 1..MaxPages :
        HasPage(u, n)' <=> HasPage(u, n) /\ ~(u = s /\ n = p)
  BY <1>0, <1>1, <1>u, <1>v DEF HasPage
<1>q. \A u \in Scan :
        /\ HasJob(u)' <=> HasJob(u)
        /\ HasCallback(u)' <=> HasCallback(u) \/ (u = s /\ complete)
  <2>. HIDE DEF complete
  <2>. QED
    BY <1>0, <1>1, <1>u DEF HasJob, AtJob, HasCallback, AtCallback
<1>2. TypeDirs'
  BY <1>0, <1>u DEF TypeDirs
<1>3. TypeQueues'
  BY <1>1, <1>u DEF TypeQueues
<1>4. TypeRunning'
  <2>1. /\ IsFiniteSet(running \ {<<s, p>>})
        /\ Cardinality(running \ {<<s, p>>}) = Cardinality(running) - 1
    BY <1>0, FS_RemoveElement DEF TypeRunning
  <2>2. Cardinality(running) \in Nat
    BY FS_CardinalityType DEF TypeRunning
  <2>. QED BY <1>0, <2>1, <2>2 DEF TypeRunning
<1>5. TypeBatch'
  <2>. HIDE DEF complete
  <2>. QED BY <1>0, <1>u DEF TypeBatch
<1>6. TypeTries'
  BY <1>0, <1>u DEF TypeTries
<1>7. TypeRest'
  BY <1>u DEF TypeRest
<1>8. QueueInv'
  <2>. HIDE DEF complete
  <2>1. complete => ~AtCallback(s)
    BY <1>w DEF HasCallback
  <2>2. /\ queuedCallbacks' \subseteq CallbackTask
        /\ queuedPages' \cup running' \subseteq PageTask
    BY <1>0, <1>1, <1>u DEF QueueInv, QueuesDistinct, CallbackTask
  <2>3. /\ queuedCallbacks' \cap retry' = {}
        /\ queuedPages' \cap running' = {}
        /\ (queuedPages' \cup running') \cap retry' = {}
    BY <1>0, <1>1, <1>u, <1>w DEF QueueInv, QueuesDistinct
  <2>4. \A u \in Scan : <<u, 0>> \in queuedCallbacks' \cup retry'
                          => ~AtCallback(u)'
    BY <1>1, <1>u, <2>1 DEF QueueInv, QueuesDistinct, AtCallback
  <2>. QED
    BY <1>1, <1>u, <2>2, <2>3, <2>4 DEF QueueInv, QueuesDistinct, AtJob
<1>9. StageInv'
  <2>. SUFFICES ASSUME NEW u \in Scan PROVE Stage(u)'
    BY DEF StageInv
  <2>1. Stage(u)
    BY DEF StageInv
  <2>2. CASE u = s
    <3>1. /\ script[s] = "done" /\ ~HasJob(s) /\ pages[s] > 0
          /\ ran'[s] = ran[s] \cup {p} /\ ran[s] \subseteq 1..MaxPages
      BY <1>0, <1>v DEF Stage, TypeBatch, TypeDirs
    <3>2. called[s] => ran'[s] = 1..pages[s]
      BY <1>v, <3>1 DEF Stage, TypeDirs
    <3>3. called'[s] => ran'[s] = 1..pages[s]
      BY <1>0, <3>1, <3>2
    <3>. HIDE DEF complete
    <3>. QED
      BY <1>0, <1>q, <1>u, <1>w, <2>1, <2>2, <3>1, <3>3 DEF Stage
  <2>3. CASE u # s
    BY <1>0, <1>p, <1>q, <1>u, <2>1, <2>3 DEF Stage, TypeBatch
  <2>. QED BY <2>2, <2>3
<1>10. PageInv'
  <2>. SUFFICES ASSUME NEW u \in Scan, NEW n \in 1..MaxPages
                PROVE  PageState(u, n)'
    BY DEF PageInv
  <2>1. PageState(u, n)
    BY DEF PageInv
  <2>. QED
    BY <1>0, <1>p, <1>u, <1>v, <2>1
    DEF PageState, TypeBatch, TypeTries, Task
<1>11. CallInv'
  <2>. SUFFICES ASSUME NEW u \in Scan PROVE CallState(u)'
    BY DEF CallInv
  <2>1. CallState(u)
    BY DEF CallInv
  <2>. HIDE DEF complete
  <2>. QED
    BY <1>0, <1>q, <1>u, <1>w, <2>1 DEF CallState, TypeBatch
<1>12. CopyInv'
  <2>. SUFFICES ASSUME NEW u \in Scan, NEW c \in Channels
                PROVE  CopyState(u, c)'
    BY DEF CopyInv
  <2>1. CopyState(u, c)
    BY DEF CopyInv
  <2>. HIDE DEF complete
  <2>2. /\ WillServe(u)' => WillServe(u) \/ (u = s /\ complete)
        /\ Served(u)' = Served(u)
    BY <1>0, <1>1, <1>u DEF WillServe, Served
  <2>3. u = s /\ complete => Copies(u, c) = 0 /\ Served(u) = {}
    BY <1>w, <2>1 DEF CopyState, HasCallback, AtCallback, CallbackPhase,
                      Serving, Served
  <2>4. called[u] => called'[u]
    BY <1>0
  <2>5. tries'[<<u, 0>>] = tries[<<u, 0>>] /\ tries[<<u, 0>>] \in Nat
    BY <1>u DEF TypeTries, Task
  <2>6. UNCHANGED <<received, pages>>
    BY <1>u
  <2>. QED
    BY <2>1, <2>2, <2>3, <2>4, <2>5, <2>6 DEF CopyState, Copies
<1>13. DoneInv'
  BY <1>u DEF DoneInv, flawed, Copies
<1>14. ListInv'
  <2>1. ASSUME NEW u \in Scan, Owes(u)' PROVE Owes(u)
    <3>. HIDE DEF complete
    <3>1. /\ called[u] => called'[u]
          /\ \A n \in 1..MaxPages : HasPage(u, n)' => HasPage(u, n)
          /\ AtCallback(u)' <=> AtCallback(u)
          /\ UNCHANGED <<jpc, jscan, pages>>
      BY <1>0, <1>p, <1>u DEF AtCallback
    <3>2. <<u, 0>> \in queuedCallbacks' \cup retry' =>
            <<u, 0>> \in queuedCallbacks \cup retry \/ (u = s /\ complete)
      BY <1>1, <1>u
    <3>3. u = s /\ complete => Owes(u)
      BY <1>v, <1>w DEF Owes
    <3>. QED BY <2>1, <3>1, <3>2, <3>3 DEF Owes
  <2>2. jobs' = jobs
    BY <1>u
  <2>. QED BY <2>1, <2>2, ListShrinks
<1>. QED
  BY <1>2, <1>3, <1>4, <1>5, <1>6, <1>7,
     <1>8, <1>9, <1>10, <1>11, <1>12, <1>13, <1>14

\* A page fails: it is tried again or dead, and has run.
LEMMA FailPageInv ==
  ASSUME NEW t \in Task, IInv, FailPage(t)
  PROVE  IInv'
<1>. USE ScanAssumption, PipelineAssumption DEF IInv, Types
<1>s. PICK s \in Scan, p \in 1..MaxPages : t = <<s, p>>
  BY DEF FailPage, QueueInv, QueuesDistinct, PageTask
<1>. DEFINE complete == ran[s] \cup {p} = 1..pages[s] /\ ~called[s]
<1>0. /\ <<s, p>> \in running /\ <<s, p>> \in Task /\ <<s, 0>> \in Task
      /\ running' = running \ {<<s, p>>}
      /\ ran' = [ran EXCEPT ![s] = @ \cup {p}]
      /\ called'[s] = (called[s] \/ complete) /\ called' \in [Scan -> BOOLEAN]
      /\ \A u \in Scan : u # s => called'[u] = called[u]
      /\ callbackQueue' = IF complete THEN Append(callbackQueue, <<s, 0>>)
                                      ELSE callbackQueue
  <2>1. /\ <<s, p>> \in running /\ running' = running \ {<<s, p>>} /\ Report(t)
        /\ UNCHANGED pages
    BY <1>s DEF FailPage, PageFrame
  <2>2. <<s, p>> \in Task /\ <<s, 0>> \in Task
    BY DEF Task
  <2>3. t[1] = s /\ t[2] = p
    BY <1>s
  <2>4. /\ ran' = [ran EXCEPT ![s] = @ \cup {p}]
        /\ (ran'[s] = 1..pages[s] /\ ~called[s]) <=> complete
    BY <2>1, <2>3 DEF Report, TypeBatch
  <2>5. /\ called' = [called EXCEPT ![s] =
                        @ \/ (ran'[s] = 1..pages[s] /\ ~called[s])]
        /\ callbackQueue' = IF ran'[s] = 1..pages[s] /\ ~called[s]
                            THEN Append(callbackQueue, <<s, 0>>)
                            ELSE callbackQueue
    BY <2>3 DEF FailPage, Report, TypeBatch
  <2>6. callbackQueue' = IF complete THEN Append(callbackQueue, <<s, 0>>)
                                     ELSE callbackQueue
    BY <2>4, <2>5
  <2>7. /\ called'[s] = (called[s] \/ complete)
        /\ \A u \in Scan : u # s => called'[u] = called[u]
        /\ called' \in [Scan -> BOOLEAN]
    BY <2>4, <2>5 DEF TypeBatch
  <2>. QED BY <2>1, <2>2, <2>4, <2>6, <2>7
<1>u. /\ failed' = [failed EXCEPT ![s] = @ \cup {p}]
      /\ UNCHANGED <<script, scanning, dirs, document, pages, jobs, jobQueue>>
      /\ UNCHANGED <<jpc, jscan, pageQueue, received, kills, normalized>>
      /\ failures' \in 0..MaxFailures
      /\ tries' = [tries EXCEPT ![<<s, p>>] = @ + 1]
      /\ dead' \subseteq dead \cup {<<s, p>>}
      /\ \/ retry' = retry
         \/ retry' = retry \cup {<<s, p>>} /\ tries[<<s, p>>] < Retries
  BY <1>s DEF FailPage, PageFrame, scanVars, MayFail, Fail, TypeRest
<1>t. \A u \in Scan :
        /\ tries'[<<u, 0>>] = tries[<<u, 0>>]
        /\ \A n \in 1..MaxPages :
             tries'[<<u, n>>] = IF u = s /\ n = p THEN tries[<<u, n>>] + 1
                                                  ELSE tries[<<u, n>>]
  <2>. SUFFICES ASSUME NEW u \in Scan, NEW n \in 0..MaxPages
                PROVE  tries'[<<u, n>>] = IF u = s /\ n = p
                         THEN tries[<<u, n>>] + 1 ELSE tries[<<u, n>>]
    OBVIOUS
  <2>1. <<u, n>> \in Task /\ tries \in [Task -> 0..(Retries + 1)]
    BY DEF Task, TypeTries
  <2>. QED BY <1>0, <1>u, <2>1
<1>v. HasPage(s, p) /\ PageState(s, p) /\ Stage(s) /\ p <= pages[s]
      /\ <<s, p>> \notin retry /\ <<s, p>> \notin queuedPages
  <2>1. HasPage(s, p)
    BY <1>0 DEF HasPage
  <2>2. PageState(s, p) /\ Stage(s)
    BY DEF PageInv, StageInv
  <2>3. <<s, p>> \notin retry /\ <<s, p>> \notin queuedPages
    BY <1>0 DEF QueueInv, QueuesDistinct
  <2>. QED BY <2>1, <2>2, <2>3 DEF PageState
<1>w. complete => /\ ~HasCallback(s) /\ ~called[s]
                  /\ <<s, 0>> \notin queuedCallbacks /\ <<s, 0>> \notin retry
                  /\ s \in dirs /\ tries[<<s, 0>>] = 0
  <2>1. complete => ~HasCallback(s) /\ ~called[s] /\ s \in dirs
    BY <1>v DEF Stage, TypeDirs
  <2>2. CallState(s)
    BY DEF CallInv
  <2>. QED BY <2>1, <2>2 DEF HasCallback, CallState
<1>1. /\ queuedJobs' = queuedJobs
      /\ queuedCallbacks' = IF complete THEN queuedCallbacks \cup {<<s, 0>>}
                                        ELSE queuedCallbacks
      /\ queuedPages' = queuedPages
      /\ callbackQueue' \in Seq(Task)
      /\ QueuesDistinct'
  <2>. HIDE DEF complete
  <2>1. callbackQueue \in Seq(Task) /\ Distinct(callbackQueue)
    BY DEF TypeQueues, QueueInv, QueuesDistinct
  <2>2. CASE complete
    <3>1. <<s, 0>> \notin Elems(callbackQueue)
      BY <1>w, <2>2 DEF queuedCallbacks
    <3>2. /\ Append(callbackQueue, <<s, 0>>) \in Seq(Task)
          /\ Elems(Append(callbackQueue, <<s, 0>>))
               = Elems(callbackQueue) \cup {<<s, 0>>}
          /\ Distinct(Append(callbackQueue, <<s, 0>>))
      BY <1>0, <2>1, <3>1, TaskAppend
    <3>. QED
      BY <1>0, <1>u, <2>2, <3>2
      DEF QueuesDistinct, QueueInv, queuedJobs, queuedCallbacks, queuedPages
  <2>3. CASE ~complete
    BY <1>0, <1>u, <2>1, <2>3
    DEF QueuesDistinct, QueueInv, queuedJobs, queuedCallbacks, queuedPages
  <2>. QED BY <2>2, <2>3
<1>p. \A u \in Scan : \A n \in 1..MaxPages :
        HasPage(u, n)' => /\ HasPage(u, n)
                          /\ u = s /\ n = p => tries[<<s, p>>] < Retries
  <2>. SUFFICES ASSUME NEW u \in Scan, NEW n \in 1..MaxPages, HasPage(u, n)'
                PROVE  /\ HasPage(u, n)
                       /\ u = s /\ n = p => tries[<<s, p>>] < Retries
    OBVIOUS
  <2>1. <<u, n>> \in queuedPages \cup running \cup retry'
    BY <1>0, <1>1 DEF HasPage
  <2>2. CASE u = s /\ n = p
    <3>1. <<s, p>> \in retry'
      BY <1>0, <1>1, <1>v, <2>2 DEF HasPage
    <3>. QED BY <1>u, <1>v, <2>2, <3>1
  <2>3. CASE ~(u = s /\ n = p)
    <3>1. <<u, n>> # <<s, p>>
      BY <2>3
    <3>. QED BY <1>u, <2>1, <2>3, <3>1 DEF HasPage
  <2>. QED BY <2>2, <2>3
<1>q. \A u \in Scan :
        /\ HasJob(u)' <=> HasJob(u)
        /\ HasCallback(u)' <=> HasCallback(u) \/ (u = s /\ complete)
  <2>. HIDE DEF complete
  <2>. QED
    BY <1>0, <1>1, <1>u DEF HasJob, AtJob, HasCallback, AtCallback
<1>2. TypeDirs'
  BY <1>0, <1>u DEF TypeDirs
<1>3. TypeQueues'
  BY <1>1, <1>u DEF TypeQueues
<1>4. TypeRunning'
  <2>1. /\ IsFiniteSet(running \ {<<s, p>>})
        /\ Cardinality(running \ {<<s, p>>}) = Cardinality(running) - 1
    BY <1>0, FS_RemoveElement DEF TypeRunning
  <2>2. Cardinality(running) \in Nat
    BY FS_CardinalityType DEF TypeRunning
  <2>. QED BY <1>0, <2>1, <2>2 DEF TypeRunning
<1>5. TypeBatch'
  <2>. HIDE DEF complete
  <2>. QED BY <1>0, <1>u DEF TypeBatch
<1>6. TypeTries'
  <2>1. tries[<<s, p>>] <= Retries /\ tries[<<s, p>>] \in Nat
    BY <1>0, <1>v DEF PageState, TypeTries
  <2>2. tries[<<s, p>>] + 1 \in 0..(Retries + 1)
    BY <2>1
  <2>3. tries' \in [Task -> 0..(Retries + 1)]
    BY <1>0, <1>u, <2>2 DEF TypeTries
  <2>. QED BY <1>0, <1>u, <2>3 DEF TypeTries
<1>7. TypeRest'
  BY <1>u DEF TypeRest
<1>8. QueueInv'
  <2>. HIDE DEF complete
  <2>1. complete => ~AtCallback(s)
    BY <1>w DEF HasCallback
  <2>2. /\ <<s, p>> \notin queuedCallbacks /\ <<s, p>> # <<s, 0>>
        /\ \A u \in Scan : <<u, 0>> # <<s, p>>
    BY DEF QueueInv, QueuesDistinct, CallbackTask
  <2>3. queuedCallbacks' \cap retry' = {}
    BY <1>1, <1>u, <1>w, <2>2 DEF QueueInv, QueuesDistinct
  <2>4. /\ queuedPages' \cap running' = {}
        /\ (queuedPages' \cup running') \cap retry' = {}
    BY <1>0, <1>1, <1>u, <1>v DEF QueueInv, QueuesDistinct
  <2>5. /\ queuedCallbacks' \subseteq CallbackTask
        /\ queuedPages' \cup running' \subseteq PageTask
    BY <1>0, <1>1, <1>u DEF QueueInv, QueuesDistinct, CallbackTask
  <2>6. \A u \in Scan : <<u, 0>> \in queuedCallbacks' \cup retry'
                          => ~AtCallback(u)'
    BY <1>1, <1>u, <2>1, <2>2 DEF QueueInv, QueuesDistinct, AtCallback
  <2>. QED
    BY <1>1, <1>u, <2>3, <2>4, <2>5, <2>6
    DEF QueueInv, QueuesDistinct, AtJob
<1>9. StageInv'
  <2>. SUFFICES ASSUME NEW u \in Scan PROVE Stage(u)'
    BY DEF StageInv
  <2>1. Stage(u)
    BY DEF StageInv
  <2>2. CASE u = s
    <3>1. /\ script[s] = "done" /\ ~HasJob(s) /\ pages[s] > 0
          /\ ran'[s] = ran[s] \cup {p} /\ ran[s] \subseteq 1..MaxPages
      BY <1>0, <1>v DEF Stage, TypeBatch, TypeDirs
    <3>2. called[s] => ran'[s] = 1..pages[s]
      BY <1>v, <3>1 DEF Stage, TypeDirs
    <3>3. called'[s] => ran'[s] = 1..pages[s]
      BY <1>0, <3>1, <3>2
    <3>. HIDE DEF complete
    <3>. QED
      BY <1>0, <1>q, <1>u, <1>w, <2>1, <2>2, <3>1, <3>3 DEF Stage
  <2>3. CASE u # s
    BY <1>0, <1>p, <1>q, <1>u, <2>1, <2>3 DEF Stage, TypeBatch
  <2>. QED BY <2>2, <2>3
<1>10. PageInv'
  <2>. SUFFICES ASSUME NEW u \in Scan, NEW n \in 1..MaxPages
                PROVE  PageState(u, n)'
    BY DEF PageInv
  <2>1. PageState(u, n)
    BY DEF PageInv
  <2>2. CASE u = s /\ n = p
    <3>1. /\ p \in ran'[s] /\ p \in failed'[s]
          /\ tries'[<<s, p>>] = tries[<<s, p>>] + 1 /\ tries[<<s, p>>] \in Nat
      BY <1>0, <1>t, <1>u DEF TypeBatch, TypeTries
    <3>2. HasPage(s, p)' => tries[<<s, p>>] + 1 <= Retries
      BY <1>p, <3>1
    <3>. QED
      BY <1>u, <1>v, <2>2, <3>1, <3>2 DEF PageState
  <2>3. CASE ~(u = s /\ n = p)
    <3>1. /\ n \in ran'[u] <=> n \in ran[u]
          /\ n \in failed'[u] <=> n \in failed[u]
          /\ tries'[<<u, n>>] = tries[<<u, n>>]
      BY <1>0, <1>t, <1>u, <2>3 DEF TypeBatch
    <3>. QED
      BY <1>p, <1>u, <2>1, <3>1 DEF PageState
  <2>. QED BY <2>2, <2>3
<1>11. CallInv'
  <2>. SUFFICES ASSUME NEW u \in Scan PROVE CallState(u)'
    BY DEF CallInv
  <2>1. CallState(u)
    BY DEF CallInv
  <2>. HIDE DEF complete
  <2>2. jscan = u /\ jpc \in Serving \ {"callback"} => failed'[u] = {}
    <3>. SUFFICES ASSUME jscan = u, jpc \in Serving \ {"callback"}
                  PROVE  u # s /\ failed[u] = {}
      BY <1>u DEF TypeBatch
    <3>1. HasCallback(u) /\ failed[u] = {}
      BY <2>1 DEF HasCallback, AtCallback, CallbackPhase, CallState
    <3>2. u = s => p \in ran[s]
      BY <1>v, <3>1 DEF Stage, TypeDirs
    <3>. QED BY <1>v, <3>1, <3>2 DEF PageState
  <2>3. tries'[<<u, 0>>] = tries[<<u, 0>>]
    BY <1>t
  <2>4. ~called'[u] => tries'[<<u, 0>>] = 0
    BY <1>0, <2>1, <2>3 DEF CallState
  <2>5. HasCallback(u)' => tries'[<<u, 0>>] <= Retries
    BY <1>q, <1>w, <2>1, <2>3 DEF CallState
  <2>. QED
    BY <1>u, <2>1, <2>2, <2>4, <2>5 DEF CallState
<1>12. CopyInv'
  <2>. SUFFICES ASSUME NEW u \in Scan, NEW c \in Channels
                PROVE  CopyState(u, c)'
    BY DEF CopyInv
  <2>1. CopyState(u, c)
    BY DEF CopyInv
  <2>. HIDE DEF complete
  <2>2. /\ WillServe(u)' => WillServe(u) \/ (u = s /\ complete)
        /\ Served(u)' = Served(u)
    BY <1>0, <1>1, <1>u DEF WillServe, Served
  <2>3. u = s /\ complete => Copies(u, c) = 0 /\ Served(u) = {}
    BY <1>w, <2>1 DEF CopyState, HasCallback, AtCallback, CallbackPhase,
                      Serving, Served
  <2>4. called[u] => called'[u]
    BY <1>0
  <2>5. tries'[<<u, 0>>] = tries[<<u, 0>>] /\ tries[<<u, 0>>] \in Nat
    BY <1>t DEF TypeTries, Task
  <2>6. UNCHANGED <<received, pages>>
    BY <1>u
  <2>. QED
    BY <2>1, <2>2, <2>3, <2>4, <2>5, <2>6 DEF CopyState, Copies
<1>13. DoneInv'
  <2>1. ASSUME NEW u \in flawed PROVE u \in flawed'
    <3>1. PICK n \in 1..MaxPages : u \in Scan /\ tries[<<u, n>>] > 0
      BY DEF flawed
    <3>2. tries'[<<u, n>>] > 0
      <4>1. <<u, n>> \in Task /\ tries[<<u, n>>] \in Nat
        BY <3>1 DEF TypeTries, Task
      <4>2. \/ tries'[<<u, n>>] = tries[<<u, n>>]
            \/ tries'[<<u, n>>] = tries[<<u, n>>] + 1
        BY <1>t, <3>1
      <4>. QED BY <3>1, <4>1, <4>2
    <3>. QED BY <3>1, <3>2 DEF flawed
  <2>. QED BY <1>u, <2>1 DEF DoneInv, Copies
<1>14. ListInv'
  <2>1. ASSUME NEW u \in Scan, Owes(u)' PROVE Owes(u)
    <3>. HIDE DEF complete
    <3>1. /\ called[u] => called'[u]
          /\ \A n \in 1..MaxPages : HasPage(u, n)' => HasPage(u, n)
          /\ AtCallback(u)' <=> AtCallback(u)
          /\ UNCHANGED <<jpc, jscan, pages>>
      BY <1>0, <1>p, <1>u DEF AtCallback
    <3>2. <<u, 0>> \in queuedCallbacks' \cup retry' =>
            <<u, 0>> \in queuedCallbacks \cup retry \/ (u = s /\ complete)
      BY <1>1, <1>u
    <3>3. u = s /\ complete => Owes(u)
      BY <1>v, <1>w DEF Owes
    <3>. QED BY <2>1, <3>1, <3>2, <3>3 DEF Owes
  <2>2. jobs' = jobs
    BY <1>u
  <2>. QED BY <2>1, <2>2, ListShrinks
<1>. QED
  BY <1>2, <1>3, <1>4, <1>5, <1>6, <1>7,
     <1>8, <1>9, <1>10, <1>11, <1>12, <1>13, <1>14

\* A job whose time has come goes back to its queue.
LEMMA RetryInv ==
  ASSUME NEW t \in Task, IInv, Retry(t)
  PROVE  IInv'
<1>. USE ScanAssumption, PipelineAssumption DEF IInv, Types
<1>1. /\ queuedJobs' = queuedJobs
      /\ queuedCallbacks' = IF Page(t) THEN queuedCallbacks
                                       ELSE queuedCallbacks \cup {t}
      /\ queuedPages' = IF Page(t) THEN queuedPages \cup {t} ELSE queuedPages
      /\ callbackQueue' \in Seq(Task) /\ pageQueue' \in Seq(Task)
      /\ QueuesDistinct'
  <2>1. /\ t \notin Elems(callbackQueue) /\ t \notin Elems(pageQueue)
        /\ callbackQueue \in Seq(Task) /\ pageQueue \in Seq(Task)
        /\ Distinct(callbackQueue) /\ Distinct(pageQueue) /\ Distinct(jobQueue)
    BY DEF Retry, QueueInv, QueuesDistinct, TypeQueues, queuedCallbacks,
           queuedPages
  <2>2. /\ Append(callbackQueue, t) \in Seq(Task)
        /\ Elems(Append(callbackQueue, t)) = Elems(callbackQueue) \cup {t}
        /\ Distinct(Append(callbackQueue, t))
        /\ Append(pageQueue, t) \in Seq(Task)
        /\ Elems(Append(pageQueue, t)) = Elems(pageQueue) \cup {t}
        /\ Distinct(Append(pageQueue, t))
    BY <2>1, TaskAppend
  <2>. QED
    BY <2>1, <2>2 DEF Retry, QueuesDistinct, queuedJobs, queuedCallbacks,
                      queuedPages
<1>2. TypeDirs'
  BY DEF Retry, scanVars, dirVars, batchVars, Page, TypeDirs, ScriptPc
<1>3. TypeQueues'
  BY <1>1 DEF Retry, scanVars, dirVars, batchVars, Page, TypeQueues, JobPc,
              QueueInv, QueuesDistinct
<1>4. TypeRunning'
  BY DEF Retry, scanVars, dirVars, batchVars, Page, TypeRunning
<1>5. TypeBatch'
  BY DEF Retry, scanVars, dirVars, batchVars, Page, TypeBatch
<1>6. TypeTries'
  BY DEF Retry, scanVars, dirVars, batchVars, Page, TypeTries, TypeQueues
<1>7. TypeRest'
  BY DEF Retry, scanVars, dirVars, batchVars, Page, TypeRest, TypeDirs,
         TypeQueues
<1>8. QueueInv'
  <2>1. PICK s \in Scan, n \in 0..MaxPages : t = <<s, n>>
    BY DEF Task
  <2>2. /\ Page(t) <=> n # 0
        /\ t \in retry /\ retry' = retry \ {t}
        /\ UNCHANGED <<jpc, jscan, running>>
    BY <2>1 DEF Retry, Page
  <2>3. CASE n = 0
    BY <1>1, <2>1, <2>2, <2>3
    DEF QueueInv, QueuesDistinct, AtJob, AtCallback, CallbackTask
  <2>4. CASE n # 0
    <3>1. t \in PageTask /\ \A u \in Scan : <<u, 0>> # t
      BY <2>1, <2>4 DEF PageTask
    <3>. QED
      BY <1>1, <2>1, <2>2, <2>4, <3>1
      DEF QueueInv, QueuesDistinct, AtJob, AtCallback
  <2>. QED BY <2>3, <2>4
<1>9. StageInv'
  <2>. SUFFICES ASSUME NEW u \in Scan PROVE Stage(u)'
    BY DEF StageInv
  <2>1. Stage(u)
    BY DEF StageInv
  <2>. QED
    BY <1>1, <2>1 DEF Retry, scanVars, dirVars, batchVars, Page, Stage, JobPc,
                      ScriptPc, QueueInv, QueuesDistinct, TypeDirs, TypeQueues,
                      TypeRunning, TypeBatch, TypeTries, AtJob, AtCallback,
                      HasJob, HasCallback, HasPage, JobPhase, CallbackPhase,
                      Serving
<1>10. PageInv'
  <2>. SUFFICES ASSUME NEW u \in Scan, NEW n \in 1..MaxPages
                PROVE  PageState(u, n)'
    BY DEF PageInv
  <2>1. PageState(u, n) /\ Stage(u)
    BY DEF PageInv, StageInv
  <2>. QED
    BY <1>1, <2>1 DEF Retry, scanVars, dirVars, batchVars, Page, PageState,
                      Stage, Task, TypeDirs, TypeQueues, TypeRunning,
                      TypeBatch, TypeTries, AtJob, AtCallback, HasJob,
                      HasCallback, HasPage, JobPhase, CallbackPhase, Serving
<1>11. CallInv'
  <2>. SUFFICES ASSUME NEW u \in Scan PROVE CallState(u)'
    BY DEF CallInv
  <2>1. CallState(u) /\ Stage(u)
    BY DEF CallInv, StageInv
  <2>. QED
    BY <1>1, <2>1 DEF Retry, scanVars, dirVars, batchVars, Page, CallState,
                      Stage, Task, QueueInv, QueuesDistinct, TypeDirs,
                      TypeQueues, TypeRunning, TypeBatch, TypeTries, AtJob,
                      AtCallback, HasJob, HasCallback, HasPage, JobPhase,
                      CallbackPhase, Serving
<1>12. CopyInv'
  <2>. SUFFICES ASSUME NEW u \in Scan, NEW c \in Channels
                PROVE  CopyState(u, c)'
    BY DEF CopyInv
  <2>1. CopyState(u, c) /\ Stage(u)
    BY DEF CopyInv, StageInv
  <2>. QED
    BY <1>1, <2>1 DEF Retry, scanVars, dirVars, batchVars, Page, CopyState,
                      Copies, Served, WillServe, Stage, QueueInv,
                      QueuesDistinct, TypeDirs, TypeQueues, TypeRunning,
                      TypeBatch, TypeTries, TypeRest, AtJob, AtCallback,
                      HasJob, HasCallback, HasPage, JobPhase, CallbackPhase,
                      Serving
<1>13. DoneInv'
  BY <1>1 DEF Retry, scanVars, dirVars, batchVars, Page, DoneInv, flawed,
              Copies, TypeQueues, TypeTries, TypeRest, Task
<1>14. ListInv'
  <2>1. ASSUME NEW u \in Scan, Owes(u)' PROVE Owes(u)
    <3>1. Stage(u)
      BY DEF StageInv
    <3>. QED
      BY <1>1, <2>1, <3>1 DEF Retry, scanVars, dirVars, batchVars, Page, Owes,
                              Stage, QueueInv, QueuesDistinct, TypeQueues,
                              TypeDirs, AtJob, AtCallback, HasJob, HasCallback,
                              HasPage, JobPhase, CallbackPhase, Serving
  <2>2. jobs' = jobs
    BY DEF Retry, scanVars, dirVars, batchVars, Page
  <2>. QED BY <2>1, <2>2, ListShrinks
<1>. QED
  BY <1>2, <1>3, <1>4, <1>5, <1>6, <1>7,
     <1>8, <1>9, <1>10, <1>11, <1>12, <1>13, <1>14

\* scan.rb is killed: the directory has what was scanned until then.
LEMMA KillScanInv ==
  ASSUME NEW s \in Scan, IInv, KillScan(s)
  PROVE  IInv'
<1>. USE ScanAssumption, PipelineAssumption DEF IInv, Types
<1>1. /\ queuedJobs' = queuedJobs
      /\ queuedCallbacks' = queuedCallbacks
      /\ queuedPages' = queuedPages
      /\ QueuesDistinct'
  BY DEF KillScan, dirVars, queueVars, batchVars, retryVars, Killed, QueueInv,
         QueuesDistinct, queuedJobs, queuedCallbacks, queuedPages
<1>2. TypeDirs'
  BY DEF KillScan, dirVars, queueVars, batchVars, retryVars, Killed, TypeDirs,
         ScriptPc
<1>3. TypeQueues'
  BY <1>1 DEF KillScan, dirVars, queueVars, batchVars, retryVars, Killed,
              TypeQueues, JobPc, QueueInv, QueuesDistinct
<1>4. TypeRunning'
  BY DEF KillScan, dirVars, queueVars, batchVars, retryVars, Killed,
         TypeRunning
<1>5. TypeBatch'
  BY DEF KillScan, dirVars, queueVars, batchVars, retryVars, Killed, TypeBatch
<1>6. TypeTries'
  BY DEF KillScan, dirVars, queueVars, batchVars, retryVars, Killed, TypeTries,
         TypeQueues
<1>7. TypeRest'
  BY DEF KillScan, dirVars, queueVars, batchVars, retryVars, Killed, TypeRest,
         TypeDirs, TypeQueues
<1>8. QueueInv'
  BY <1>1 DEF KillScan, dirVars, queueVars, batchVars, retryVars, Killed,
              QueueInv, QueuesDistinct, TypeQueues, TypeTries, TypeRunning,
              JobPc, CallbackTask, PageTask, AtJob, AtCallback, HasJob,
              HasCallback, HasPage, JobPhase, CallbackPhase, Serving
<1>9. StageInv'
  <2>. SUFFICES ASSUME NEW u \in Scan PROVE Stage(u)'
    BY DEF StageInv
  <2>1. Stage(u)
    BY DEF StageInv
  <2>. QED
    BY <1>1, <2>1 DEF KillScan, dirVars, queueVars, batchVars, retryVars,
                      Killed, Stage, JobPc, ScriptPc, QueueInv, QueuesDistinct,
                      TypeDirs, TypeQueues, TypeRunning, TypeBatch, TypeTries,
                      AtJob, AtCallback, HasJob, HasCallback, HasPage,
                      JobPhase, CallbackPhase, Serving
<1>10. PageInv'
  <2>. SUFFICES ASSUME NEW u \in Scan, NEW n \in 1..MaxPages
                PROVE  PageState(u, n)'
    BY DEF PageInv
  <2>1. PageState(u, n) /\ Stage(u)
    BY DEF PageInv, StageInv
  <2>. QED
    BY <1>1, <2>1 DEF KillScan, dirVars, queueVars, batchVars, retryVars,
                      Killed, PageState, Stage, Task, TypeDirs, TypeQueues,
                      TypeRunning, TypeBatch, TypeTries, AtJob, AtCallback,
                      HasJob, HasCallback, HasPage, JobPhase, CallbackPhase,
                      Serving
<1>11. CallInv'
  <2>. SUFFICES ASSUME NEW u \in Scan PROVE CallState(u)'
    BY DEF CallInv
  <2>1. CallState(u) /\ Stage(u)
    BY DEF CallInv, StageInv
  <2>. QED
    BY <1>1, <2>1 DEF KillScan, dirVars, queueVars, batchVars, retryVars,
                      Killed, CallState, Stage, Task, QueueInv, QueuesDistinct,
                      TypeDirs, TypeQueues, TypeRunning, TypeBatch, TypeTries,
                      AtJob, AtCallback, HasJob, HasCallback, HasPage,
                      JobPhase, CallbackPhase, Serving
<1>12. CopyInv'
  <2>. SUFFICES ASSUME NEW u \in Scan, NEW c \in Channels
                PROVE  CopyState(u, c)'
    BY DEF CopyInv
  <2>1. CopyState(u, c) /\ Stage(u)
    BY DEF CopyInv, StageInv
  <2>2. u = s => Copies(u, c) = 0
    BY <2>1 DEF KillScan, CopyState, Stage
  <2>3. u # s => pages'[u] = pages[u]
    BY DEF KillScan, TypeDirs
  <2>4. /\ UNCHANGED <<received, called, tries, jpc, jscan>>
        /\ WillServe(u)' <=> WillServe(u)
    BY <1>1 DEF KillScan, batchVars, retryVars, WillServe
  <2>. QED
    BY <2>1, <2>2, <2>3, <2>4 DEF CopyState, Copies, Served
<1>13. DoneInv'
  BY <1>1 DEF KillScan, dirVars, queueVars, batchVars, retryVars, Killed,
              DoneInv, flawed, Copies, TypeQueues, TypeTries, TypeRest, Task
<1>14. ListInv'
  <2>1. ASSUME NEW u \in Scan, Owes(u)' PROVE Owes(u)
    <3>1. Stage(u)
      BY DEF StageInv
    <3>. QED
      BY <1>1, <2>1, <3>1 DEF KillScan, dirVars, queueVars, batchVars,
                              retryVars, Killed, Owes, Stage, QueueInv,
                              QueuesDistinct, TypeQueues, TypeDirs, AtJob,
                              AtCallback, HasJob, HasCallback, HasPage,
                              JobPhase, CallbackPhase, Serving
  <2>2. jobs' = jobs
    BY DEF KillScan, dirVars, queueVars, batchVars, retryVars, Killed
  <2>. QED BY <2>1, <2>2, ListShrinks
<1>. QED
  BY <1>2, <1>3, <1>4, <1>5, <1>6, <1>7,
     <1>8, <1>9, <1>10, <1>11, <1>12, <1>13, <1>14

\* Killed page workers lose what they hold and nothing else.
LEMMA KillPagesInv ==
  ASSUME IInv, KillPages
  PROVE  IInv'
<1>. USE ScanAssumption, PipelineAssumption DEF IInv, Types
<1>1. /\ queuedJobs' = queuedJobs
      /\ queuedCallbacks' = queuedCallbacks
      /\ queuedPages' = queuedPages
      /\ QueuesDistinct'
  BY DEF KillPages, scanVars, dirVars, queueVars, batchVars, retryVars, Killed,
         QueueInv, QueuesDistinct, queuedJobs, queuedCallbacks, queuedPages
<1>2. TypeDirs'
  BY DEF KillPages, scanVars, dirVars, queueVars, batchVars, retryVars, Killed,
         TypeDirs, ScriptPc
<1>3. TypeQueues'
  BY <1>1 DEF KillPages, scanVars, dirVars, queueVars, batchVars, retryVars,
              Killed, TypeQueues, JobPc, QueueInv, QueuesDistinct
<1>4. TypeRunning'
  BY FS_EmptySet, FS_RemoveElement
  DEF KillPages, scanVars, dirVars, queueVars, batchVars, retryVars, Killed,
      TypeRunning, TypeQueues
<1>5. TypeBatch'
  BY DEF KillPages, scanVars, dirVars, queueVars, batchVars, retryVars, Killed,
         TypeBatch
<1>6. TypeTries'
  BY DEF KillPages, scanVars, dirVars, queueVars, batchVars, retryVars, Killed,
         TypeTries, TypeQueues
<1>7. TypeRest'
  BY DEF KillPages, scanVars, dirVars, queueVars, batchVars, retryVars, Killed,
         TypeRest, TypeDirs, TypeQueues
<1>8. QueueInv'
  BY <1>1 DEF KillPages, scanVars, dirVars, queueVars, batchVars, retryVars,
              Killed, QueueInv, QueuesDistinct, TypeQueues, TypeTries,
              TypeRunning, JobPc, CallbackTask, PageTask, AtJob, AtCallback,
              HasJob, HasCallback, HasPage, JobPhase, CallbackPhase, Serving
<1>9. StageInv'
  <2>. SUFFICES ASSUME NEW u \in Scan PROVE Stage(u)'
    BY DEF StageInv
  <2>1. Stage(u)
    BY DEF StageInv
  <2>. QED
    BY <1>1, <2>1 DEF KillPages, scanVars, dirVars, queueVars, batchVars,
                      retryVars, Killed, Stage, JobPc, ScriptPc, QueueInv,
                      QueuesDistinct, TypeDirs, TypeQueues, TypeRunning,
                      TypeBatch, TypeTries, AtJob, AtCallback, HasJob,
                      HasCallback, HasPage, JobPhase, CallbackPhase, Serving
<1>10. PageInv'
  <2>. SUFFICES ASSUME NEW u \in Scan, NEW n \in 1..MaxPages
                PROVE  PageState(u, n)'
    BY DEF PageInv
  <2>1. PageState(u, n) /\ Stage(u)
    BY DEF PageInv, StageInv
  <2>. QED
    BY <1>1, <2>1 DEF KillPages, scanVars, dirVars, queueVars, batchVars,
                      retryVars, Killed, PageState, Stage, Task, TypeDirs,
                      TypeQueues, TypeRunning, TypeBatch, TypeTries, AtJob,
                      AtCallback, HasJob, HasCallback, HasPage, JobPhase,
                      CallbackPhase, Serving
<1>11. CallInv'
  <2>. SUFFICES ASSUME NEW u \in Scan PROVE CallState(u)'
    BY DEF CallInv
  <2>1. CallState(u) /\ Stage(u)
    BY DEF CallInv, StageInv
  <2>. QED
    BY <1>1, <2>1 DEF KillPages, scanVars, dirVars, queueVars, batchVars,
                      retryVars, Killed, CallState, Stage, Task, QueueInv,
                      QueuesDistinct, TypeDirs, TypeQueues, TypeRunning,
                      TypeBatch, TypeTries, AtJob, AtCallback, HasJob,
                      HasCallback, HasPage, JobPhase, CallbackPhase, Serving
<1>12. CopyInv'
  <2>. SUFFICES ASSUME NEW u \in Scan, NEW c \in Channels
                PROVE  CopyState(u, c)'
    BY DEF CopyInv
  <2>1. CopyState(u, c) /\ Stage(u)
    BY DEF CopyInv, StageInv
  <2>. QED
    BY <1>1, <2>1 DEF KillPages, scanVars, dirVars, queueVars, batchVars,
                      retryVars, Killed, CopyState, Copies, Served, WillServe,
                      Stage, QueueInv, QueuesDistinct, TypeDirs, TypeQueues,
                      TypeRunning, TypeBatch, TypeTries, TypeRest, AtJob,
                      AtCallback, HasJob, HasCallback, HasPage, JobPhase,
                      CallbackPhase, Serving
<1>13. DoneInv'
  BY <1>1 DEF KillPages, scanVars, dirVars, queueVars, batchVars, retryVars,
              Killed, DoneInv, flawed, Copies, TypeQueues, TypeTries, TypeRest,
              Task
<1>14. ListInv'
  <2>1. ASSUME NEW u \in Scan, Owes(u)' PROVE Owes(u)
    <3>1. Stage(u)
      BY DEF StageInv
    <3>. QED
      BY <1>1, <2>1, <3>1 DEF KillPages, scanVars, dirVars, queueVars,
                              batchVars, retryVars, Killed, Owes, Stage,
                              QueueInv, QueuesDistinct, TypeQueues, TypeDirs,
                              AtJob, AtCallback, HasJob, HasCallback, HasPage,
                              JobPhase, CallbackPhase, Serving
  <2>2. jobs' = jobs
    BY DEF KillPages, scanVars, dirVars, queueVars, batchVars, retryVars, Killed
  <2>. QED BY <2>1, <2>2, ListShrinks
<1>. QED
  BY <1>2, <1>3, <1>4, <1>5, <1>6, <1>7,
     <1>8, <1>9, <1>10, <1>11, <1>12, <1>13, <1>14

\* A killed job worker loses what it holds and nothing else.
LEMMA KillJobInv ==
  ASSUME IInv, KillJob
  PROVE  IInv'
<1>. USE ScanAssumption, PipelineAssumption DEF IInv, Types
<1>1. /\ queuedJobs' = queuedJobs
      /\ queuedCallbacks' = queuedCallbacks
      /\ queuedPages' = queuedPages
      /\ QueuesDistinct'
  BY DEF KillJob, scanVars, dirVars, queueVars, batchVars, retryVars, Release,
         Killed, QueueInv, QueuesDistinct, queuedJobs, queuedCallbacks,
         queuedPages
<1>2. TypeDirs'
  BY DEF KillJob, scanVars, dirVars, queueVars, batchVars, retryVars, Release,
         Killed, TypeDirs, ScriptPc
<1>3. TypeQueues'
  BY <1>1 DEF KillJob, scanVars, dirVars, queueVars, batchVars, retryVars,
              Release, Killed, TypeQueues, JobPc, QueueInv, QueuesDistinct
<1>4. TypeRunning'
  BY DEF KillJob, scanVars, dirVars, queueVars, batchVars, retryVars, Release,
         Killed, TypeRunning
<1>5. TypeBatch'
  BY DEF KillJob, scanVars, dirVars, queueVars, batchVars, retryVars, Release,
         Killed, TypeBatch
<1>6. TypeTries'
  BY DEF KillJob, scanVars, dirVars, queueVars, batchVars, retryVars, Release,
         Killed, TypeTries, TypeQueues
<1>7. TypeRest'
  BY DEF KillJob, scanVars, dirVars, queueVars, batchVars, retryVars, Release,
         Killed, TypeRest, TypeDirs, TypeQueues
<1>8. QueueInv'
  BY <1>1 DEF KillJob, scanVars, dirVars, queueVars, batchVars, retryVars,
              Release, Killed, QueueInv, QueuesDistinct, TypeQueues, TypeTries,
              TypeRunning, JobPc, CallbackTask, PageTask, AtJob, AtCallback,
              HasJob, HasCallback, HasPage, JobPhase, CallbackPhase, Serving
<1>9. StageInv'
  <2>. SUFFICES ASSUME NEW u \in Scan PROVE Stage(u)'
    BY DEF StageInv
  <2>1. Stage(u)
    BY DEF StageInv
  <2>. QED
    BY <1>1, <2>1 DEF KillJob, scanVars, dirVars, queueVars, batchVars,
                      retryVars, Release, Killed, Stage, JobPc, ScriptPc,
                      QueueInv, QueuesDistinct, TypeDirs, TypeQueues,
                      TypeRunning, TypeBatch, TypeTries, AtJob, AtCallback,
                      HasJob, HasCallback, HasPage, JobPhase, CallbackPhase,
                      Serving
<1>10. PageInv'
  <2>. SUFFICES ASSUME NEW u \in Scan, NEW n \in 1..MaxPages
                PROVE  PageState(u, n)'
    BY DEF PageInv
  <2>1. PageState(u, n) /\ Stage(u)
    BY DEF PageInv, StageInv
  <2>. QED
    BY <1>1, <2>1 DEF KillJob, scanVars, dirVars, queueVars, batchVars,
                      retryVars, Release, Killed, PageState, Stage, Task,
                      TypeDirs, TypeQueues, TypeRunning, TypeBatch, TypeTries,
                      AtJob, AtCallback, HasJob, HasCallback, HasPage,
                      JobPhase, CallbackPhase, Serving
<1>11. CallInv'
  <2>. SUFFICES ASSUME NEW u \in Scan PROVE CallState(u)'
    BY DEF CallInv
  <2>1. CallState(u) /\ Stage(u)
    BY DEF CallInv, StageInv
  <2>. QED
    BY <1>1, <2>1 DEF KillJob, scanVars, dirVars, queueVars, batchVars,
                      retryVars, Release, Killed, CallState, Stage, Task,
                      QueueInv, QueuesDistinct, TypeDirs, TypeQueues,
                      TypeRunning, TypeBatch, TypeTries, AtJob, AtCallback,
                      HasJob, HasCallback, HasPage, JobPhase, CallbackPhase,
                      Serving
<1>12. CopyInv'
  <2>. SUFFICES ASSUME NEW u \in Scan, NEW c \in Channels
                PROVE  CopyState(u, c)'
    BY DEF CopyInv
  <2>1. CopyState(u, c) /\ Stage(u)
    BY DEF CopyInv, StageInv
  <2>. QED
    BY <1>1, <2>1 DEF KillJob, scanVars, dirVars, queueVars, batchVars,
                      retryVars, Release, Killed, CopyState, Copies, Served,
                      WillServe, Stage, QueueInv, QueuesDistinct, TypeDirs,
                      TypeQueues, TypeRunning, TypeBatch, TypeTries, TypeRest,
                      AtJob, AtCallback, HasJob, HasCallback, HasPage,
                      JobPhase, CallbackPhase, Serving
<1>13. DoneInv'
  BY <1>1 DEF KillJob, scanVars, dirVars, queueVars, batchVars, retryVars,
              Release, Killed, DoneInv, flawed, Copies, TypeQueues, TypeTries,
              TypeRest, Task
<1>14. ListInv'
  <2>1. ASSUME NEW u \in Scan, Owes(u)' PROVE Owes(u)
    <3>1. Stage(u)
      BY DEF StageInv
    <3>. QED
      BY <1>1, <2>1, <3>1 DEF KillJob, scanVars, dirVars, queueVars, batchVars,
                              retryVars, Release, Killed, Owes, Stage,
                              QueueInv, QueuesDistinct, TypeQueues, TypeDirs,
                              AtJob, AtCallback, HasJob, HasCallback, HasPage,
                              JobPhase, CallbackPhase, Serving
  <2>2. jobs' = jobs
    BY DEF KillJob, scanVars, dirVars, queueVars, batchVars, retryVars, Release,
        Killed
  <2>. QED BY <2>1, <2>2, ListShrinks
<1>. QED
  BY <1>2, <1>3, <1>4, <1>5, <1>6, <1>7,
     <1>8, <1>9, <1>10, <1>11, <1>12, <1>13, <1>14

-----------------------------------------------------------------------------
(* The invariant holds                                                     *)

\* The invariant holds at the start.
LEMMA InitInv == Init => IInv
<1>. SUFFICES ASSUME Init PROVE IInv
  OBVIOUS
<1>. USE ScanAssumption, PipelineAssumption DEF Init
<1>1. /\ queuedJobs = {} /\ queuedCallbacks = {} /\ queuedPages = {}
      /\ QueuesDistinct
  BY DEF queuedJobs, queuedCallbacks, queuedPages, QueuesDistinct, Elems,
         Distinct
<1>2. \A s \in Scan : /\ ~HasJob(s) /\ ~HasCallback(s)
                      /\ \A p \in 1..MaxPages : ~HasPage(s, p)
  BY <1>1 DEF HasJob, AtJob, JobPhase, HasCallback, AtCallback, CallbackPhase,
              Serving, HasPage
<1>3. Types
  <2>1. TypeRunning
    BY FS_EmptySet DEF TypeRunning
  <2>2. TypeRest
    BY DEF TypeRest
  <2>3. TypeQueues
    BY DEF TypeQueues, JobPc
  <2>4. TypeDirs
    <3>1. script \in [Scan -> ScriptPc] /\ scanning \in BOOLEAN
      BY DEF ScriptPc
    <3>2. Kept \subseteq dirs /\ dirs \subseteq Scan /\ normalized \subseteq Task
      OBVIOUS
    <3>3. document \in [Scan -> SUBSET (1..MaxPages)]
      OBVIOUS
    <3>4. pages \in [Scan -> 0..MaxPages]
      OBVIOUS
    <3>. QED BY <3>1, <3>2, <3>3, <3>4 DEF TypeDirs
  <2>5. TypeBatch
    BY DEF TypeBatch
  <2>6. TypeTries
    BY DEF TypeTries
  <2>. QED BY <2>1, <2>2, <2>3, <2>4, <2>5, <2>6 DEF Types
<1>4. QueueInv
  BY <1>1 DEF QueueInv, AtJob, JobPhase, AtCallback, CallbackPhase, Serving
<1>5. StageInv
  BY <1>2 DEF StageInv, Stage
<1>6. PageInv
  BY <1>2 DEF PageInv, PageState, Task
<1>7. CallInv
  BY <1>2 DEF CallInv, CallState, Task, Serving
<1>8. CopyInv
  BY <1>1 DEF CopyInv, CopyState, Copies, WillServe, Served, Serving, Task
<1>9. DoneInv
  BY DEF DoneInv
<1>10. ListInv
  <2>1. {s \in Scan : Owes(s)} = {}
    BY <1>1, <1>2 DEF Owes, AtCallback, CallbackPhase, Serving
  <2>2. Len(jobs) >= Cardinality({})
    BY FS_EmptySet
  <2>. QED BY <2>1, <2>2, Zenon DEF ListInv
<1>. QED
  BY <1>3, <1>4, <1>5, <1>6, <1>7, <1>8, <1>9, <1>10 DEF IInv

\* A stuttering step keeps the invariant.
LEMMA FrameInv == IInv /\ UNCHANGED vars => IInv'
<1>. SUFFICES ASSUME IInv, UNCHANGED vars PROVE IInv'
  OBVIOUS
<1>. USE DEF vars, scanVars, dirVars, queueVars, batchVars, retryVars
<1>1. /\ queuedJobs' = queuedJobs /\ queuedCallbacks' = queuedCallbacks
      /\ queuedPages' = queuedPages /\ QueuesDistinct' = QueuesDistinct
  BY DEF queuedJobs, queuedCallbacks, queuedPages, QueuesDistinct
<1>2. Types' = Types
  BY DEF Types, TypeDirs, TypeQueues, TypeRunning, TypeBatch, TypeTries,
         TypeRest
<1>3. QueueInv' = QueueInv
  BY <1>1 DEF QueueInv, AtJob, AtCallback
<1>4. StageInv'
  <2>. SUFFICES ASSUME NEW u \in Scan PROVE Stage(u)'
    BY DEF StageInv
  <2>1. Stage(u)
    BY DEF IInv, StageInv
  <2>. QED
    BY <1>1, <2>1
    DEF Stage, HasJob, AtJob, HasCallback, AtCallback, HasPage
<1>5. PageInv'
  <2>. SUFFICES ASSUME NEW u \in Scan, NEW n \in 1..MaxPages
                PROVE  PageState(u, n)'
    BY DEF PageInv
  <2>1. PageState(u, n)
    BY DEF IInv, PageInv
  <2>. QED BY <1>1, <2>1 DEF PageState, HasPage
<1>6. CallInv'
  <2>. SUFFICES ASSUME NEW u \in Scan PROVE CallState(u)'
    BY DEF CallInv
  <2>1. CallState(u)
    BY DEF IInv, CallInv
  <2>. QED BY <1>1, <2>1 DEF CallState, HasCallback, AtCallback
<1>7. CopyInv'
  <2>. SUFFICES ASSUME NEW u \in Scan, NEW c \in Channels
                PROVE  CopyState(u, c)'
    BY DEF CopyInv
  <2>1. CopyState(u, c)
    BY DEF IInv, CopyInv
  <2>. QED BY <1>1, <2>1 DEF CopyState, Copies, WillServe, Served
<1>8. DoneInv'
  BY DEF IInv, DoneInv, flawed, Copies
<1>9. ListInv'
  <2>1. ASSUME NEW u \in Scan, Owes(u)' PROVE Owes(u)
    BY <1>1, <2>1 DEF Owes, HasPage, AtCallback
  <2>. QED BY <2>1, ListShrinks DEF IInv, Types
<1>. QED BY <1>2, <1>3, <1>4, <1>5, <1>6, <1>7, <1>8, <1>9 DEF IInv

\* Every step keeps the invariant.
LEMMA NextInv == IInv /\ [Next]_vars => IInv'
<1>. SUFFICES ASSUME IInv, Next PROVE IInv'
  BY FrameInv
<1>1. ASSUME NEW s \in Scan,
             \/ StartScan(s) \/ EndScan(s) \/ TakeDirectory(s)
             \/ Submit(s) \/ KillScan(s)
      PROVE  IInv'
  BY <1>1, StartScanInv, EndScanInv, TakeDirectoryInv, SubmitInv, KillScanInv
<1>2. CASE JobWorker
  BY <1>2, TakeJobInv, TakeCallbackInv, PerformInv, MakeBatchInv,
     OnCompleteInv, MergeInv, UploadInv, CleanUpPopInv, CleanUpRemoveInv
  DEF JobWorker
<1>3. CASE StartPage
  BY <1>3, StartPageInv
<1>4. ASSUME NEW t \in Task, PageEnd(t) \/ Retry(t)
      PROVE  IInv'
  BY <1>4, EndPageInv, FailPageInv, RetryInv DEF PageEnd
<1>5. CASE KillPages \/ KillJob
  BY <1>5, KillPagesInv, KillJobInv
<1>. QED BY <1>1, <1>2, <1>3, <1>4, <1>5 DEF Next

\* Every reachable state satisfies the inductive invariant.
THEOREM Invariance == Spec => []IInv
<1>. QED BY InitInv, NextInv, PTL DEF Spec

\* Every variable keeps its range (TypeOK), for every number of scans, pages
\* and destinations and every bound on failures and kills.
THEOREM TypeCorrect == Spec => []TypeOK
<1>1. IInv => TypeOK
  BY DEF IInv, Types, TypeDirs, TypeQueues, TypeRunning, TypeBatch, TypeTries,
         TypeRest, TypeOK
<1>. QED BY <1>1, Invariance, PTL

\* Whatever a destination receives is the whole document of the scan
\* (job.rb: any_pages_failed, merge, upload*).
THEOREM WholeDelivered == Spec => []DeliveredWhole
<1>1. IInv => DeliveredWhole
  BY DEF IInv, CopyInv, CopyState, Copies, DeliveredWhole
<1>. QED BY <1>1, Invariance, PTL

\* A destination gets a copy per run of the callback at most, and never more
\* than one before it (job.rb: postprocess_scanfiles).
THEOREM CopiesOrdered == Spec => []CopiesInOrder
<1>1. IInv => CopiesInOrder
  BY DEF IInv, CopyInv, CopyState, Copies, CopiesInOrder, Before
<1>. QED BY <1>1, Invariance, PTL

\* A directory goes after every page of it has run (job.rb: clean_up).
THEOREM DirectoryOutlives == Spec => []DirectoryOutlivesPages
<1>1. ASSUME IInv, NEW s \in Scan, script[s] = "done", s \notin dirs
      PROVE  ran[s] = 1..pages[s]
  <2>1. Stage(s) /\ \A p \in 1..MaxPages : PageState(s, p)
    BY <1>1 DEF IInv, StageInv, PageInv
  <2>2. CASE called[s]
    BY <2>1, <2>2 DEF Stage
  <2>3. CASE ~called[s]
    <3>1. pages[s] = 0
      BY <1>1, <2>1, <2>3 DEF Stage
    <3>2. ran[s] \subseteq 1..MaxPages
      BY <1>1 DEF IInv, Types, TypeBatch
    <3>3. \A p \in 1..MaxPages : p \notin ran[s]
      <4>. SUFFICES ASSUME NEW p \in 1..MaxPages, p \in ran[s] PROVE FALSE
        OBVIOUS
      <4>1. PageState(s, p) /\ p \in Nat /\ p > 0
        BY <2>1, PipelineAssumption
      <4>. QED BY <3>1, <4>1 DEF PageState
    <3>. QED BY <3>1, <3>2, <3>3
  <2>. QED BY <2>2, <2>3
<1>2. IInv => DirectoryOutlivesPages
  BY <1>1 DEF DirectoryOutlivesPages
<1>. QED BY <1>2, Invariance, PTL

\* The list has an entry for every scan that is worked on (job.rb: perform,
\* clean_up; lcd.rb: loop).
THEOREM ScansListed == Spec => []OpenScansListed
<1>1. ASSUME IInv, NEW s \in Scan PROVE Open(s) <=> Owes(s)
  <2>1. PagesToRun(s) <=> ~called[s] /\ \E p \in 1..MaxPages : HasPage(s, p)
    BY DEF PagesToRun, HasPage, queuedPages, Elems
  <2>2. <<s, 0>> \in queuedCallbacks \cup retry <=>
          <<s, 0>> \in retry \cup {callbackQueue[i] : i \in 1..Len(callbackQueue)}
    BY DEF queuedCallbacks, Elems
  <2>3. /\ <<s, 0>> \in queuedCallbacks \cup retry => pages[s] > 0
        /\ pages[s] \in Nat
    BY <1>1 DEF IInv, StageInv, Stage, HasCallback, Types, TypeDirs
  <2>4. PagesToRun(s) /\ jpc = "batch" => Owes(s)
    BY <2>1 DEF Owes
  <2>5. jpc \in JobPc
    BY <1>1 DEF IInv, Types, TypeQueues
  <2>. QED
    BY <2>1, <2>2, <2>3, <2>5
    DEF Open, CallbackToRun, Owes, AtCallback, CallbackPhase, Serving, JobPc
<1>2. IInv => OpenScansListed
  <2>. SUFFICES ASSUME IInv PROVE OpenScansListed
    OBVIOUS
  <2>1. {s \in Scan : Open(s)} = {s \in Scan : Owes(s)}
    BY <1>1
  <2>. QED BY <2>1 DEF OpenScansListed, IInv, ListInv
<1>. QED BY <1>2, Invariance, PTL

-----------------------------------------------------------------------------
(* The pipeline implements ScanDelivery                                    *)

\* What ScanDelivery sees of a step.
Seen == <<dirs, filled, pages, flawed, received>>

\* The end of a scan, in any way, is the Fill of ScanDelivery.
LEMMA FillStep ==
  ASSUME IInv, NEW s \in Scan, EndScan(s) \/ TakeDirectory(s) \/ KillScan(s)
  PROVE  Delivery!Fill(s)
<1>. USE DEF IInv, Types
<1>1. /\ script[s] \in {"none", "scan"} /\ script'[s] \in {"submit", "done"}
      /\ \A u \in Scan : u # s => script'[u] = script[u]
      /\ \E n \in 0..MaxPages : pages' = [pages EXCEPT ![s] = n]
      /\ UNCHANGED <<dirs, tries, received>>
  BY DEF EndScan, TakeDirectory, KillScan, Killed, dirVars, retryVars, TypeDirs
<1>2. s \in dirs
  <2>1. Stage(s)
    BY DEF StageInv
  <2>. QED
    BY <2>1 DEF EndScan, TakeDirectory, KillScan, Stage
<1>3. filled' = filled \cup {s} /\ s \notin filled
  BY <1>1 DEF filled
<1>4. flawed' = flawed
  BY <1>1 DEF flawed
<1>. QED
  BY <1>1, <1>2, <1>3, <1>4 DEF Delivery!Fill

\* The start of a scan is the Begin of ScanDelivery.
LEMMA BeginStep ==
  ASSUME IInv, NEW s \in Scan, StartScan(s)
  PROVE  Delivery!Begin(s)
<1>. USE DEF IInv, Types
<1>1. /\ script[s] = "none" /\ script' = [script EXCEPT ![s] = "scan"]
      /\ s \notin Kept /\ dirs' = dirs \cup {s}
      /\ UNCHANGED <<tries, received, pages>>
  BY DEF StartScan, retryVars
<1>2. s \notin dirs
  <2>1. Stage(s)
    BY DEF StageInv
  <2>. QED BY <1>1, <2>1 DEF Stage
<1>3. filled' = filled /\ s \notin filled
  BY <1>1 DEF filled, TypeDirs
<1>4. flawed' = flawed
  BY <1>1 DEF flawed
<1>. QED
  BY <1>1, <1>2, <1>3, <1>4 DEF Delivery!Begin

\* A page job ends in failure.
LEMMA FlawStep ==
  ASSUME IInv, NEW t \in Task, FailPage(t)
  PROVE  Delivery!Flaw(t[1])
<1>. USE PipelineAssumption DEF IInv, Types
<1>1. PICK s \in Scan, p \in 1..MaxPages : t = <<s, p>>
  BY DEF FailPage, QueueInv, PageTask
<1>2. /\ tries' = [tries EXCEPT ![<<s, p>>] = @ + 1] /\ <<s, p>> \in running
      /\ UNCHANGED <<script, dirs, pages, received>>
  BY <1>1 DEF FailPage, PageFrame, scanVars, Fail
<1>3. script[s] = "done"
  <2>1. Stage(s) /\ HasPage(s, p)
    BY <1>2 DEF StageInv, HasPage
  <2>. QED BY <2>1 DEF Stage
<1>4. s \in filled /\ filled' = filled
  BY <1>2, <1>3 DEF filled
<1>5. ASSUME NEW u \in Scan, NEW n \in 1..MaxPages
      PROVE  tries'[<<u, n>>] > 0 <=> tries[<<u, n>>] > 0 \/ (u = s /\ n = p)
  <2>1. <<u, n>> \in Task /\ <<s, p>> \in Task /\ tries[<<u, n>>] \in Nat
    BY DEF Task, TypeTries
  <2>2. CASE u = s /\ n = p
    <3>1. tries'[<<u, n>>] = tries[<<u, n>>] + 1
      BY <1>2, <2>1, <2>2 DEF TypeTries
    <3>. QED BY <2>1, <2>2, <3>1
  <2>3. CASE ~(u = s /\ n = p)
    BY <1>2, <2>1, <2>3 DEF TypeTries
  <2>. QED BY <2>2, <2>3
<1>6. ASSUME NEW u PROVE u \in flawed' <=> u \in flawed \cup {s}
  BY <1>5 DEF flawed
<1>7. flawed' = flawed \cup {s} /\ t[1] = s
  BY <1>1, <1>6
<1>. QED
  BY <1>2, <1>4, <1>7 DEF Delivery!Flaw

\* An upload that arrives, whether or not it fails afterwards.
LEMMA DeliverStep ==
  ASSUME IInv, NEW ch \in Destination, ch \in Channels, At(ch), Receive(ch),
         UNCHANGED <<dirs, script, pages>>, flawed' = flawed
  PROVE  Delivery!Deliver(jscan, ch)
<1>. USE PipelineAssumption DEF IInv, Types
<1>1. /\ jscan \in Scan /\ jpc = ch /\ AtCallback(jscan) /\ WillServe(jscan)
  BY DEF At, Destination, TypeQueues, QueueInv, AtCallback, CallbackPhase,
         Serving, WillServe
<1>2. /\ Stage(jscan) /\ CallState(jscan) /\ CopyState(jscan, ch)
      /\ HasCallback(jscan)
  BY <1>1 DEF StageInv, CallInv, CopyInv, HasCallback
<1>3. /\ jscan \in dirs /\ pages[jscan] > 0 /\ script[jscan] = "done"
      /\ document[jscan] = 1..pages[jscan]
  BY <1>1, <1>2 DEF Stage, CallState, Destination
<1>4. /\ ch \notin Served(jscan)
      /\ \A d \in Channels : <<d, ch>> \in Before => d \in Served(jscan)
  BY <1>1 DEF Served, Before, Destination
<1>5. \A d \in Channels : <<d, ch>> \in Before
        => Len(received[jscan][ch]) < Len(received[jscan][d])
  BY <1>1, <1>2, <1>4 DEF CopyState, Copies
<1>6. received' = [received EXCEPT ![jscan][ch] = Append(@, 1..pages[jscan])]
  BY <1>3 DEF Receive
<1>7. jscan \in filled /\ filled' = filled
  BY <1>1, <1>3 DEF filled
<1>. QED
  BY <1>3, <1>5, <1>6, <1>7 DEF Delivery!Deliver, Delivery!Copies

\* clean_up removes a directory, or there is none to remove.
LEMMA RemoveStep ==
  ASSUME IInv, CleanUpRemove
  PROVE  (jscan \in Scan /\ Delivery!Remove(jscan)) \/ UNCHANGED Seen
<1>. USE PipelineAssumption DEF IInv, Types
<1>1. /\ jpc \in {"rm", "rm_empty"} /\ jscan \in Scan
      /\ UNCHANGED <<script, pages, tries, received>>
      /\ IF jscan \in Kept THEN dirs' = dirs ELSE dirs' = dirs \ {jscan}
  BY DEF CleanUpRemove, RemoveDirectory, JobFrame, scanVars, retryVars, dirVars,
         TypeQueues, QueueInv
<1>2. filled' = filled /\ flawed' = flawed
  BY <1>1 DEF filled, flawed
<1>3. CASE jscan \in Kept \/ jscan \notin dirs
  BY <1>1, <1>2, <1>3 DEF Seen
<1>4. CASE jscan \notin Kept /\ jscan \in dirs
  <2>1. Stage(jscan)
    BY <1>1 DEF StageInv
  <2>2. jscan \in filled
    BY <1>1, <2>1 DEF Stage, filled, HasJob, AtJob, JobPhase, HasCallback,
                      AtCallback, CallbackPhase, TypeDirs, ScriptPc
  <2>3. \/ pages[jscan] = 0 \/ jscan \in flawed
        \/ \A ch \in Channels : Copies(jscan, ch) > 0
    BY <1>1, <2>1 DEF Stage, DoneInv
  <2>. QED
    BY <1>1, <1>2, <1>4, <2>2, <2>3
    DEF Delivery!Remove, Delivery!Copies, Copies
<1>. QED BY <1>3, <1>4

\* The callback's tries are no page's.
LEMMA RaiseUnflawed ==
  ASSUME IInv, jscan \in Scan, Raise
  PROVE  flawed' = flawed
<1>1. /\ tries' = [tries EXCEPT ![<<jscan, 0>>] = @ + 1]
      /\ tries \in [Task -> 0..(Retries + 1)] /\ MaxPages \in Nat
  BY PipelineAssumption DEF Raise, Fail, IInv, Types, TypeTries
<1>2. \A s \in Scan : \A p \in 1..MaxPages : tries'[<<s, p>>] = tries[<<s, p>>]
  BY <1>1 DEF Task
<1>. QED BY <1>2 DEF flawed

\* The job worker delivers, removes, or does nothing ScanDelivery sees.
LEMMA WorkerStep ==
  ASSUME IInv, JobWorker
  PROVE  Delivery!Next \/ UNCHANGED Seen
<1>. USE DEF IInv, Types
<1>1. CASE CleanUpRemove
  BY <1>1, RemoveStep DEF Delivery!Next
<1>2. ASSUME NEW ch \in Destination, Upload(ch)
      PROVE  Delivery!Next \/ UNCHANGED Seen
  <2>1. /\ UNCHANGED <<dirs, script, pages>> /\ jscan \in Scan
        /\ filled' = filled
    BY <1>2 DEF Upload, At, Destination, JobFrame, scanVars, dirVars, filled,
                TypeQueues, QueueInv
  <2>2. flawed' = flawed
    <3>1. CASE Raise
      BY <2>1, <3>1, RaiseUnflawed
    <3>2. CASE tries' = tries
      BY <3>2 DEF flawed
    <3>. QED BY <1>2, <3>1, <3>2 DEF Upload, retryVars
  <2>3. CASE ch \in Channels /\ Receive(ch)
    <3>1. Delivery!Deliver(jscan, ch)
      BY <1>2, <2>1, <2>2, <2>3, DeliverStep DEF Upload
    <3>. QED BY <2>1, <2>3, <3>1 DEF Delivery!Next
  <2>4. CASE received' = received
    BY <2>1, <2>2, <2>4 DEF Seen
  <2>. QED BY <1>2, <2>3, <2>4 DEF Upload
<1>3. CASE Merge
  <2>1. UNCHANGED <<dirs, script, pages, received>> /\ jscan \in Scan
    BY <1>3 DEF Merge, At, JobFrame, scanVars, TypeQueues, QueueInv
  <2>2. flawed' = flawed
    <3>1. CASE Raise
      BY <2>1, <3>1, RaiseUnflawed
    <3>2. CASE tries' = tries
      BY <3>2 DEF flawed
    <3>. QED BY <1>3, <3>1, <3>2 DEF Merge, retryVars
  <2>. QED BY <2>1, <2>2 DEF Seen, filled
<1>4. CASE \/ TakeJob \/ TakeCallback \/ Perform \/ MakeBatch \/ OnComplete
           \/ CleanUpPop
  <2>1. UNCHANGED <<dirs, script, pages, received, tries>>
    BY <1>4
    DEF TakeJob, TakeCallback, Perform, MakeBatch, OnComplete, CleanUpPop,
        JobFrame, scanVars, dirVars, retryVars
  <2>. QED BY <2>1 DEF Seen, filled, flawed
<1>. QED BY <1>1, <1>2, <1>3, <1>4 DEF JobWorker

\* Every step is one of ScanDelivery or a stutter.
LEMMA DeliveryStep ==
  ASSUME IInv, [Next]_vars
  PROVE  [Delivery!Next]_Delivery!vars
<1>. SUFFICES Delivery!Next \/ UNCHANGED Seen
  BY DEF Seen, Delivery!vars
<1>1. ASSUME NEW s \in Scan, StartScan(s)
      PROVE  Delivery!Next
  BY <1>1, BeginStep DEF Delivery!Next
<1>2. ASSUME NEW s \in Scan, EndScan(s) \/ TakeDirectory(s) \/ KillScan(s)
      PROVE  Delivery!Next
  BY <1>2, FillStep DEF Delivery!Next
<1>3. ASSUME NEW s \in Scan, Submit(s)
      PROVE  UNCHANGED Seen
  <2>1. /\ script[s] = "submit" /\ script' = [script EXCEPT ![s] = "done"]
        /\ UNCHANGED <<dirs, pages, tries, received>>
    BY <1>3 DEF Submit, dirVars, retryVars
  <2>2. filled' = filled
    BY <2>1 DEF filled, IInv, Types, TypeDirs
  <2>. QED BY <2>1, <2>2 DEF Seen, flawed
<1>4. ASSUME NEW t \in Task, FailPage(t)
      PROVE  Delivery!Next
  <2>1. t[1] \in Scan
    BY DEF Task
  <2>. QED BY <1>4, <2>1, FlawStep DEF Delivery!Next
<1>5. ASSUME NEW t \in Task, EndPage(t) \/ Retry(t)
      PROVE  UNCHANGED Seen
  BY <1>5 DEF EndPage, Retry, PageFrame, scanVars, dirVars, retryVars, Seen,
              filled, flawed
<1>6. CASE StartPage \/ KillPages \/ KillJob \/ UNCHANGED vars
  BY <1>6 DEF StartPage, KillPages, KillJob, PageFrame, scanVars, dirVars,
              retryVars, vars, Seen, filled, flawed
<1>. QED
  BY <1>1, <1>2, <1>3, <1>4, <1>5, <1>6, WorkerStep DEF Next, PageEnd

\* All queues, batches, retries and kills together do what ScanDelivery
\* promises, for every number of scans, pages, destinations and workers
\* (scan.rb, job.rb, page.rb).
THEOREM PipelineDelivers == Spec => DeliveryKept
<1>1. Init => Delivery!Init
  <2>1. ASSUME Init PROVE filled = {} /\ flawed = {}
    <3>1. filled = {}
      BY <2>1 DEF Init, filled
    <3>2. ASSUME NEW s \in Scan, NEW p \in 1..MaxPages
          PROVE  ~(tries[<<s, p>>] > 0)
      <4>1. <<s, p>> \in Task /\ tries = [t \in Task |-> 0]
        BY <2>1, PipelineAssumption DEF Init, Task
      <4>. QED BY <4>1
    <3>3. flawed = {}
      BY <3>2 DEF flawed
    <3>. QED BY <3>1, <3>3
  <2>. QED BY <2>1 DEF Init, Delivery!Init
<1>. QED
  BY <1>1, Invariance, DeliveryStep, PTL DEF Spec, DeliveryKept, Delivery!Spec
=============================================================================
