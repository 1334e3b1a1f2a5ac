---------------------------- MODULE ScanDelivery ----------------------------
(***************************************************************************)
(* What the scan pipeline promises, without queues, batches, retries and   *)
(* processes: a directory is filled with pages once; destinations receive  *)
(* whole documents, any number of copies, each first where it comes first; *)
(* a directory of the program's own is removed when its document has       *)
(* arrived everywhere, when it is empty, or when one of its pages has      *)
(* failed, and nothing is delivered from it after that.                    *)
(***************************************************************************)
EXTENDS Integers, Sequences

CONSTANTS
  Scan,      \* the scans
  Kept,      \* those whose directory is not the program's own
  MaxPages,  \* bound on the pages of a scan
  Channels,  \* the destinations
  Before     \* pairs of destinations: the first is served first

VARIABLES
  dirs,      \* the scans whose directory exists
  filled,    \* those whose pages are complete
  pages,     \* how many there are
  flawed,    \* the scans one of whose pages has failed
  received   \* what each destination got of each scan, in order

vars == <<dirs, filled, pages, flawed, received>>

Init ==
  /\ dirs = Kept
  /\ filled = {} /\ flawed = {}
  /\ pages = [s \in Scan |-> 0]
  /\ received = [s \in Scan |-> [ch \in Channels |-> <<>>]]

Begin(s) ==
  /\ s \notin dirs \cup filled
  /\ dirs' = dirs \cup {s}
  /\ UNCHANGED <<filled, pages, flawed, received>>

Fill(s) ==
  /\ s \in dirs \ filled
  /\ filled' = filled \cup {s}
  /\ \E n \in 0..MaxPages : pages' = [pages EXCEPT ![s] = n]
  /\ UNCHANGED <<dirs, flawed, received>>

Flaw(s) ==
  /\ s \in filled
  /\ flawed' = flawed \cup {s}
  /\ UNCHANGED <<dirs, filled, pages, received>>

Copies(s, ch) == Len(received[s][ch])

Deliver(s, ch) ==
  /\ s \in filled \cap dirs /\ pages[s] > 0
  /\ \A d \in Channels : <<d, ch>> \in Before => Copies(s, ch) < Copies(s, d)
  /\ received' = [received EXCEPT ![s][ch] = Append(@, 1..pages[s])]
  /\ UNCHANGED <<dirs, filled, pages, flawed>>

Remove(s) ==
  /\ s \in filled \cap dirs /\ s \notin Kept
  /\ \/ pages[s] = 0
     \/ s \in flawed
     \/ \A ch \in Channels : Copies(s, ch) > 0
  /\ dirs' = dirs \ {s}
  /\ UNCHANGED <<filled, pages, flawed, received>>

Next ==
  \E s \in Scan :
    \/ Begin(s) \/ Fill(s) \/ Flaw(s) \/ Remove(s)
    \/ \E ch \in Channels : Deliver(s, ch)

Spec == Init /\ [][Next]_vars
=============================================================================
