------------------------ MODULE ScbtnPolling_proofs ------------------------
(***************************************************************************)
(* Proofs about ScbtnPolling, for any number of scanners and of events     *)
(* from outside.  A handler is a sequence of calls, so most of what has to *)
(* be known is the shape of that sequence: where a call that holds         *)
(* scbtn_mutex may stand, that an unloading is followed by a loading, and, *)
(* while no two handlers overlap, in which order the calls come.  First    *)
(* how a step changes a sequence, then the inductive invariant IInv, then  *)
(* one lemma for each action.                                              *)
(***************************************************************************)
EXTENDS ScbtnPolling, FiniteSetTheorems, SequenceTheorems, TLAPS

-----------------------------------------------------------------------------
(* The sequence of calls of a thread                                       *)

Call == Elements(Reload) \cup {"cancel", "join", "create", "HUP", "ALRM"}

\* Who has q before it is in a stop or a start, and owns scbtn_mutex.
Holds(q) ==
  \/ q # <<>> /\ q[1] \in {"cancel", "join", "create"}
  \/ Len(q) > 1 /\ q[2] = "create"

\* Only the first call is under way; the rest of a start waits behind its stop.
Positions(q) ==
  \A i \in 1..Len(q) :
    /\ q[i] \in {"cancel", "join"} => i = 1
    /\ q[i] = "create" => i = 1 \/ (i = 2 /\ q[1] \in {"stop", "cancel", "join"})

\* The calls of scanbtnd_init whose shutdown is done.
Bare(q) == {i \in 1..Len(q) : q[i] = "init" /\ (i = 1 \/ q[i - 1] # "shutdown")}

\* The calls of scbtn_shutdown and scanbtnd_init of q are still in r.
Keeps(q, r) == \A c \in {"init", "shutdown"} : c \in Elements(q) => c \in Elements(r)

\* Who unloads the backends loads them again.
Loads(q) == \A i \in 1..Len(q) : q[i] = "shutdown" => i < Len(q) /\ q[i + 1] = "init"

\* The order of the calls in one handler; without hotplug (h), a handler that
\* loads the backends lists the scanners.
Follows(q, h) ==
  /\ Len(q) > 0 /\ (q[Len(q)] = "init" => h)
  /\ \A i \in 2..Len(q) :
    /\ q[i] = "shutdown" => q[i - 1] \in {"stop", "cancel", "join"}
    /\ q[i] = "init" => q[i - 1] = "shutdown"
    /\ q[i] = "devices" => q[i - 1] = "init"
    /\ q[i] = "start" => q[i - 1] = "devices"
    /\ q[i] # "stop"
    /\ q[i - 1] = "init" => q[i] = "devices"

\* The first call is done; it gives way to c; a start that stops first; a signal.
Popped(q, r) == Len(r) = Len(q) - 1 /\ \A i \in 1..Len(r) : r[i] = q[i + 1]
Swapped(q, r, c) == /\ Len(r) = Len(q) /\ r[1] = c
                    /\ \A i \in 2..Len(r) : r[i] = q[i]
Doubled(q, r) == /\ Len(r) = Len(q) + 1 /\ r[1] = "stop" /\ r[2] = "create"
                 /\ \A i \in 3..Len(r) : r[i] = q[i - 1]
Pushed(q, r, c) ==
  /\ Len(r) = Len(q) + 6
  /\ r[1] = "stop" /\ r[2] = "shutdown" /\ r[3] = "init" /\ r[4] = "devices"
  /\ r[5] = "start" /\ r[6] = c
  /\ \A i \in 7..Len(r) : r[i] = q[i - 6]

\* All calls, one by one.
LEMMA CallSet ==
  Call = {"stop", "shutdown", "init", "devices", "start", "cancel", "join", "create", "HUP", "ALRM"}
<1>1. Elements(Reload) = {"stop", "shutdown", "init", "devices", "start"}
  <2>1. Len(Reload) = 5 /\ DOMAIN Reload = 1..5
    BY DEF Reload
  <2>2. /\ Reload[1] = "stop" /\ Reload[2] = "shutdown" /\ Reload[3] = "init"
        /\ Reload[4] = "devices" /\ Reload[5] = "start"
    BY DEF Reload
  <2>3. 1..5 = {1, 2, 3, 4, 5}
    OBVIOUS
  <2>. QED BY <2>1, <2>2, <2>3 DEF Elements
<1>. QED BY <1>1 DEF Call

\* Without its first call a sequence keeps its shape; it holds scbtn_mutex if a
\* start is waiting behind its stop.
LEMMA PoppedOwner ==
  ASSUME NEW q \in Seq(Call), NEW r \in Seq(Call), q # <<>>, Popped(q, r), Positions(q)
  PROVE  Positions(r) /\ (Holds(r) <=> Len(q) > 1 /\ q[2] = "create")
<1>1. Len(q) \in Nat \ {0} /\ Len(r) = Len(q) - 1
  BY DEF Popped
<1>2. \A i \in 1..Len(r) : i + 1 \in 1..Len(q) /\ r[i] = q[i + 1] /\ i + 1 # 1
  BY <1>1 DEF Popped
<1>3. \A i \in 1..Len(r) : r[i] \notin {"cancel", "join"} /\ (r[i] = "create" => i = 1)
  BY <1>1, <1>2 DEF Positions
<1>4. r # <<>> <=> Len(q) > 1
  BY <1>1
<1>5. Len(q) > 1 => r[1] = q[2]
  BY <1>1, <1>2
<1>6. Len(r) > 1 => r[2] # "create"
  BY <1>1, <1>3
<1>. QED BY <1>1, <1>3, <1>4, <1>5, <1>6 DEF Positions, Holds

\* What is left of a handler still loads what it unloads.
LEMMA PoppedLoads ==
  ASSUME NEW q \in Seq(Call), NEW r \in Seq(Call), q # <<>>, Popped(q, r), Loads(q)
  PROVE  Loads(r)
<1>. SUFFICES ASSUME NEW i \in 1..Len(r), r[i] = "shutdown"
              PROVE  i < Len(r) /\ r[i + 1] = "init"
  BY DEF Loads
<1>1. Len(q) \in Nat /\ Len(r) = Len(q) - 1 /\ i + 1 \in 1..Len(q)
  BY DEF Popped
<1>2. q[i + 1] = "shutdown"
  BY DEF Popped
<1>3. i + 1 < Len(q) /\ q[(i + 1) + 1] = "init"
  BY <1>1, <1>2 DEF Loads
<1>4. i + 1 \in 1..Len(r) /\ i < Len(r)
  BY <1>1, <1>3
<1>5. r[i + 1] = q[(i + 1) + 1]
  BY <1>4 DEF Popped
<1>. QED BY <1>3, <1>4, <1>5

\* Only a shutdown that is done adds a scanbtnd_init that is due.
LEMMA PoppedBare ==
  ASSUME NEW q \in Seq(Call), NEW r \in Seq(Call), q # <<>>, Popped(q, r), NEW i \in Bare(r)
  PROVE  i + 1 \in Bare(q) \/ (i = 1 /\ q[1] = "shutdown")
<1>1. /\ Len(q) \in Nat \ {0} /\ Len(r) = Len(q) - 1 /\ i \in 1..Len(r)
      /\ r[i] = "init" /\ (i = 1 \/ r[i - 1] # "shutdown")
  BY DEF Popped, Bare
<1>2. i + 1 \in 1..Len(q) /\ q[i + 1] = "init" /\ (i + 1) - 1 = i
  BY <1>1 DEF Popped
<1>3. CASE i = 1
  BY <1>1, <1>2, <1>3 DEF Bare
<1>4. CASE i # 1
  <2>1. i - 1 \in 1..Len(r) /\ (i - 1) + 1 = i
    BY <1>1, <1>4
  <2>2. r[i - 1] = q[i]
    BY <2>1 DEF Popped
  <2>. QED BY <1>1, <1>2, <1>4, <2>2 DEF Bare
<1>. QED BY <1>3, <1>4

\* What is left of a handler is in order.
LEMMA PoppedFollows ==
  ASSUME NEW q \in Seq(Call), NEW r \in Seq(Call), Len(q) > 1, Popped(q, r), Follows(q, hotplug)
  PROVE  Follows(r, hotplug)
<1>1. Len(q) \in Nat /\ Len(r) = Len(q) - 1 /\ Len(r) > 0
  BY DEF Popped
<1>2. \A i \in 2..Len(r) : /\ i + 1 \in 2..Len(q) /\ r[i] = q[i + 1]
                           /\ r[i - 1] = q[(i + 1) - 1]
  <2>. TAKE i \in 2..Len(r)
  <2>1. i \in 1..Len(r) /\ i - 1 \in 1..Len(r) /\ (i - 1) + 1 = (i + 1) - 1
    BY <1>1
  <2>. QED BY <1>1, <2>1 DEF Popped
<1>3. r[Len(r)] = q[Len(q)]
  <2>1. Len(r) \in 1..Len(r) /\ Len(r) + 1 = Len(q)
    BY <1>1
  <2>. QED BY <2>1 DEF Popped
<1>. QED BY <1>1, <1>2, <1>3 DEF Follows

\* No other call is lost before its turn.
LEMMA PoppedKeeps ==
  ASSUME NEW q \in Seq(Call), NEW r \in Seq(Call), q # <<>>, Popped(q, r),
         NEW c \in Elements(q), q[1] # c
  PROVE  c \in Elements(r)
<1>1. PICK i \in 1..Len(q) : q[i] = c
  BY DEF Elements
<1>2. i - 1 \in 1..Len(r) /\ (i - 1) + 1 = i
  BY <1>1 DEF Popped
<1>3. r[i - 1] = c /\ i - 1 \in DOMAIN r
  BY <1>1, <1>2 DEF Popped
<1>. QED BY <1>3 DEF Elements

\* A stop that has locked, and one that has cancelled all.
LEMMA SwappedShape ==
  ASSUME NEW q \in Seq(Call), NEW r \in Seq(Call), q # <<>>,
         NEW c \in {"cancel", "join"}, Swapped(q, r, c),
         q[1] \in {"stop", "cancel"}, Positions(q)
  PROVE  /\ Positions(r) /\ Holds(r) /\ Bare(r) = Bare(q)
         /\ Follows(q, hotplug) => Follows(r, hotplug)
         /\ Keeps(q, r)
         /\ Loads(q) => Loads(r)
<1>1. /\ Len(q) \in Nat \ {0} /\ Len(r) = Len(q) /\ r # <<>> /\ r[1] = c
      /\ \A i \in 1..Len(q) : i = 1 \/ (r[i] = q[i] /\ i - 1 \in 1..Len(q))
  BY DEF Swapped
<1>2. Positions(r) /\ Holds(r)
  BY <1>1 DEF Positions, Holds
<1>3. ASSUME NEW i \in 1..Len(q) PROVE i \in Bare(r) <=> i \in Bare(q)
  <2>1. CASE i = 1
    BY <1>1, <2>1 DEF Bare
  <2>2. CASE i # 1
    <3>1. r[i] = q[i] /\ i - 1 \in 1..Len(q)
      BY <1>1, <2>2
    <3>2. i - 1 = 1 \/ r[i - 1] = q[i - 1]
      BY <1>1, <3>1
    <3>3. r[i - 1] # "shutdown" <=> q[i - 1] # "shutdown"
      BY <1>1, <3>2
    <3>. QED BY <1>1, <2>2, <3>1, <3>3 DEF Bare
  <2>. QED BY <2>1, <2>2
<1>4. Bare(r) = Bare(q)
  BY <1>1, <1>3 DEF Bare
<1>5. ASSUME Follows(q, hotplug) PROVE Follows(r, hotplug)
  <2>0. r[Len(r)] = "init" => hotplug
    <3>1. Len(r) \in 1..Len(q) /\ (Len(r) = 1 => r[Len(r)] = c)
      BY <1>1
    <3>. QED BY <1>1, <1>5, <3>1 DEF Follows
  <2>. SUFFICES ASSUME NEW i \in 2..Len(r)
                PROVE  /\ r[i] = "shutdown" => r[i - 1] \in {"stop", "cancel", "join"}
                       /\ r[i] = "init" => r[i - 1] = "shutdown"
                       /\ r[i] = "devices" => r[i - 1] = "init"
                       /\ r[i] = "start" => r[i - 1] = "devices"
                       /\ r[i] # "stop"
                       /\ r[i - 1] = "init" => r[i] = "devices"
    BY <1>1, <2>0 DEF Follows
  <2>1. i \in 2..Len(q) /\ r[i] = q[i] /\ i - 1 \in 1..Len(q)
    BY <1>1
  <2>2. CASE i - 1 = 1
    BY <1>1, <1>5, <2>1, <2>2 DEF Follows
  <2>3. CASE i - 1 # 1
    <3>1. r[i - 1] = q[i - 1]
      BY <1>1, <2>1, <2>3
    <3>. QED BY <1>1, <1>5, <2>1, <3>1 DEF Follows
  <2>. QED BY <2>2, <2>3
<1>6. Keeps(q, r)
  <2>. SUFFICES ASSUME NEW e \in {"init", "shutdown"}, e \in Elements(q) PROVE e \in Elements(r)
    BY DEF Keeps
  <2>1. PICK i \in 1..Len(q) : q[i] = e
    BY DEF Elements
  <2>. QED BY <1>1, <2>1 DEF Elements
<1>7. ASSUME Loads(q) PROVE Loads(r)
  <2>. SUFFICES ASSUME NEW i \in 1..Len(r), r[i] = "shutdown"
                PROVE  i < Len(r) /\ r[i + 1] = "init"
    BY DEF Loads
  <2>1. i \in 1..Len(q) /\ i # 1 /\ q[i] = "shutdown"
    BY <1>1
  <2>2. i < Len(q) /\ q[i + 1] = "init"
    BY <1>7, <2>1 DEF Loads
  <2>3. i + 1 \in 1..Len(q) /\ i + 1 # 1
    BY <1>1, <2>1, <2>2
  <2>. QED BY <1>1, <2>2, <2>3
<1>. QED BY <1>2, <1>4, <1>5, <1>6, <1>7

\* A start that has pollers to stop first.
LEMMA DoubledShape ==
  ASSUME NEW q \in Seq(Call), NEW r \in Seq(Call), q # <<>>, Doubled(q, r),
         q[1] = "start", Positions(q)
  PROVE  /\ Positions(r) /\ Holds(r)
         /\ \A i \in Bare(r) : i - 1 \in Bare(q)
         /\ Follows(q, hotplug) => Follows(r, hotplug)
         /\ Keeps(q, r)
         /\ Loads(q) => Loads(r)
<1>1. /\ Len(q) \in Nat \ {0} /\ Len(r) = Len(q) + 1 /\ r[1] = "stop" /\ r[2] = "create"
      /\ \A i \in 1..Len(r) : i = 1 \/ i = 2 \/ (r[i] = q[i - 1] /\ i - 1 \in 2..Len(q))
  BY DEF Doubled
<1>2. \A i \in 2..Len(q) : q[i] \notin {"cancel", "join", "create"}
  BY <1>1 DEF Positions
<1>3. Positions(r) /\ Holds(r)
  BY <1>1, <1>2 DEF Positions, Holds
<1>4. ASSUME NEW i \in Bare(r) PROVE i - 1 \in Bare(q)
  <2>1. i \in 1..Len(r) /\ r[i] = "init" /\ r[i] = q[i - 1] /\ i - 1 \in 2..Len(q)
    BY <1>1 DEF Bare
  <2>2. i = 1 \/ r[i - 1] # "shutdown"
    BY DEF Bare
  <2>3. CASE i = 3
    <3>1. i - 1 = 2 /\ (i - 1) - 1 = 1
      BY <2>3
    <3>. QED BY <1>1, <2>1, <3>1 DEF Bare
  <2>4. CASE i # 3
    <3>1. i - 1 \in 1..Len(r) /\ i - 1 # 1 /\ i - 1 # 2 /\ i # 1
      BY <1>1, <2>1, <2>4
    <3>2. r[i - 1] = q[(i - 1) - 1]
      BY <1>1, <3>1
    <3>. QED BY <2>1, <2>2, <3>1, <3>2 DEF Bare
  <2>. QED BY <2>3, <2>4
<1>5. ASSUME Follows(q, hotplug) PROVE Follows(r, hotplug)
  <2>0. r[Len(r)] = "init" => hotplug
    <3>1. CASE Len(r) = 2
      BY <1>1, <3>1
    <3>2. CASE Len(r) # 2
      <4>1. Len(r) \in 1..Len(r) /\ Len(r) # 1 /\ Len(r) - 1 = Len(q)
        BY <1>1, <3>2
      <4>2. r[Len(r)] = q[Len(q)]
        BY <1>1, <3>2, <4>1
      <4>. QED BY <1>5, <4>2 DEF Follows
    <3>. QED BY <3>1, <3>2
  <2>. SUFFICES ASSUME NEW i \in 2..Len(r)
                PROVE  /\ r[i] = "shutdown" => r[i - 1] \in {"stop", "cancel", "join"}
                       /\ r[i] = "init" => r[i - 1] = "shutdown"
                       /\ r[i] = "devices" => r[i - 1] = "init"
                       /\ r[i] = "start" => r[i - 1] = "devices"
                       /\ r[i] # "stop"
                       /\ r[i - 1] = "init" => r[i] = "devices"
    BY <1>1, <2>0 DEF Follows
  <2>1. CASE i = 2
    BY <1>1, <2>1
  <2>2. CASE i # 2
    <3>1. r[i] = q[i - 1] /\ i - 1 \in 2..Len(q)
      BY <1>1, <2>2
    <3>2. CASE i = 3
      <4>1. i - 1 = 2 /\ r[i - 1] = "create" /\ q[2 - 1] = "start"
        BY <1>1, <3>2
      <4>. QED BY <1>1, <1>5, <3>1, <4>1 DEF Follows
    <3>3. CASE i # 3
      <4>1. i - 1 \in 1..Len(r) /\ i - 1 # 1 /\ i - 1 # 2
        BY <1>1, <2>2, <3>3
      <4>2. r[i - 1] = q[(i - 1) - 1]
        BY <1>1, <4>1
      <4>. QED BY <1>1, <1>5, <2>2, <3>1, <4>2 DEF Follows
    <3>. QED BY <3>2, <3>3
  <2>. QED BY <2>1, <2>2
<1>6. Keeps(q, r)
  <2>. SUFFICES ASSUME NEW e \in {"init", "shutdown"}, e \in Elements(q) PROVE e \in Elements(r)
    BY DEF Keeps
  <2>1. PICK i \in 1..Len(q) : q[i] = e
    BY DEF Elements
  <2>2. i # 1 /\ i + 1 \in 3..Len(r) /\ (i + 1) - 1 = i
    BY <1>1, <2>1
  <2>3. r[i + 1] = e /\ i + 1 \in DOMAIN r
    BY <1>1, <2>1, <2>2 DEF Doubled
  <2>. QED BY <2>3 DEF Elements
<1>7. ASSUME Loads(q) PROVE Loads(r)
  <2>. SUFFICES ASSUME NEW i \in 1..Len(r), r[i] = "shutdown"
                PROVE  i < Len(r) /\ r[i + 1] = "init"
    BY DEF Loads
  <2>1. i - 1 \in 2..Len(q) /\ q[i - 1] = "shutdown" /\ (i - 1) + 1 = i
    BY <1>1
  <2>2. i - 1 < Len(q) /\ q[i] = "init"
    BY <1>1, <1>7, <2>1 DEF Loads
  <2>3. i + 1 \in 1..Len(r) /\ i + 1 # 1 /\ i + 1 # 2 /\ (i + 1) - 1 = i
    BY <1>1, <2>1, <2>2
  <2>4. r[i + 1] = q[i]
    BY <1>1, <2>3
  <2>. QED BY <1>1, <2>2, <2>3, <2>4
<1>. QED BY <1>3, <1>4, <1>5, <1>6, <1>7

\* A signal before what was under way.
LEMMA PushedShape ==
  ASSUME NEW q \in Seq(Call), NEW r \in Seq(Call), NEW c \in {"HUP", "ALRM"},
         Pushed(q, r, c), Positions(q)
  PROVE  /\ ~Holds(q) => Positions(r) /\ ~Holds(r)
         /\ \A i \in Bare(r) : i - 6 \in Bare(q)
         /\ q = <<>> => Follows(r, hotplug)
         /\ "init" \in Elements(r) /\ "shutdown" \in Elements(r)
         /\ Loads(q) => Loads(r)
<1>1. /\ Len(q) \in Nat /\ Len(r) = Len(q) + 6
      /\ r[1] = "stop" /\ r[2] = "shutdown" /\ r[3] = "init" /\ r[4] = "devices"
      /\ r[5] = "start" /\ r[6] = c
      /\ \A i \in 1..Len(r) : i \in {1, 2, 3, 4, 5, 6}
                              \/ (r[i] = q[i - 6] /\ i - 6 \in 1..Len(q))
  BY DEF Pushed
<1>2. ASSUME ~Holds(q) PROVE \A i \in 1..Len(q) : q[i] \notin {"cancel", "join", "create"}
  BY <1>1, <1>2 DEF Positions, Holds
<1>3. ASSUME ~Holds(q) PROVE Positions(r) /\ ~Holds(r)
  <2>1. \A i \in 1..Len(r) : r[i] \notin {"cancel", "join", "create"}
    BY <1>1, <1>2, <1>3
  <2>2. 1 \in 1..Len(r) /\ 2 \in 1..Len(r)
    BY <1>1
  <2>. QED BY <2>1, <2>2 DEF Positions, Holds
<1>4. ASSUME NEW i \in Bare(r) PROVE i - 6 \in Bare(q)
  <2>1. i \in 1..Len(r) /\ r[i] = "init" /\ (i = 1 \/ r[i - 1] # "shutdown")
    BY DEF Bare
  <2>2. i # 1 /\ i # 2 /\ i # 3 /\ i # 4 /\ i # 5 /\ i # 6
    BY <1>1, <2>1
  <2>3. r[i] = q[i - 6] /\ i - 6 \in 1..Len(q)
    BY <1>1, <2>1, <2>2
  <2>4. CASE i = 7
    <3>1. i - 6 = 1
      BY <2>4
    <3>. QED BY <2>1, <2>3, <3>1 DEF Bare
  <2>5. CASE i # 7
    <3>1. i - 1 \in 1..Len(r) /\ i - 1 \notin {1, 2, 3, 4, 5, 6} /\ (i - 1) - 6 = (i - 6) - 1
      BY <1>1, <2>1, <2>2, <2>5
    <3>2. r[i - 1] = q[(i - 6) - 1]
      BY <1>1, <3>1
    <3>. QED BY <2>1, <2>2, <2>3, <3>2 DEF Bare
  <2>. QED BY <2>4, <2>5
<1>5. ASSUME q = <<>> PROVE Follows(r, hotplug)
  <2>1. Len(q) = 0 /\ Len(r) = 6
    BY <1>1, <1>5
  <2>2. \A i \in 2..Len(r) :
          \/ i = 2 /\ r[i] = "shutdown" /\ r[i - 1] = "stop"
          \/ i = 3 /\ r[i] = "init" /\ r[i - 1] = "shutdown"
          \/ i = 4 /\ r[i] = "devices" /\ r[i - 1] = "init"
          \/ i = 5 /\ r[i] = "start" /\ r[i - 1] = "devices"
          \/ i = 6 /\ r[i] = c /\ r[i - 1] = "start"
    BY <1>1, <2>1
  <2>3. r[Len(r)] # "init"
    BY <1>1, <2>1
  <2>. QED BY <2>1, <2>2, <2>3 DEF Follows
<1>6. "init" \in Elements(r) /\ "shutdown" \in Elements(r)
  BY <1>1 DEF Elements
<1>7. ASSUME Loads(q) PROVE Loads(r)
  <2>. SUFFICES ASSUME NEW i \in 1..Len(r), r[i] = "shutdown"
                PROVE  i < Len(r) /\ r[i + 1] = "init"
    BY DEF Loads
  <2>1. i # 1 /\ i # 3 /\ i # 4 /\ i # 5 /\ i # 6
    BY <1>1
  <2>2. CASE i = 2
    BY <1>1, <2>2
  <2>3. CASE i # 2
    <3>1. i - 6 \in 1..Len(q) /\ q[i - 6] = "shutdown" /\ (i - 6) + 1 = (i + 1) - 6
      BY <1>1, <2>1, <2>3
    <3>2. i - 6 < Len(q) /\ q[(i + 1) - 6] = "init"
      BY <1>7, <3>1 DEF Loads
    <3>3. i + 1 \in 1..Len(r) /\ i + 1 \notin {1, 2, 3, 4, 5, 6} /\ i < Len(r)
      BY <1>1, <3>1, <3>2
    <3>. QED BY <1>1, <3>2, <3>3
  <2>. QED BY <2>2, <2>3
<1>. QED BY <1>3, <1>4, <1>5, <1>6, <1>7

-----------------------------------------------------------------------------
(* The inductive invariant                                                 *)

\* TypeOK in three parts, with the lengths of the lists.
TypeUsb ==
  /\ hotplug \in BOOLEAN /\ lost \in BOOLEAN /\ loaded \in BOOLEAN /\ freed \in BOOLEAN
  /\ polling \in BOOLEAN /\ alarm \in BOOLEAN
  /\ plugged \subseteq Scanner /\ seen \subseteq plugged /\ missed \subseteq Scanner
  /\ next \in 1..MaxBackends
  /\ attached \subseteq Scanner /\ current \subseteq attached \cap plugged
  /\ isOpen \subseteq attached
  /\ claim \in [Scanner -> {"free", "scanbd", "other"}]
  /\ \A s \in Scanner \ plugged : claim[s] = "free"
TypePoll ==
  /\ devices \in Seq(Scanner) /\ Len(devices) <= MaxScanners
  /\ slots \in Seq(Scanner) /\ Len(slots) <= MaxScanners
  /\ ppc \in [Scanner -> {"none", "opening", "polling", "script", "settling", "gone"}]
  /\ \A s \in Scanner : ppc[s] # "none" => s \in Elements(slots)
  /\ ready \subseteq Elements(slots) /\ triggered \subseteq Elements(slots)
  /\ cancelled \subseteq Elements(slots)
TypeThread ==
  /\ owner \in Thread \cup {"none"} /\ idx \in 1..(MaxScanners + 1)
  /\ todo \in [Handling -> Seq(Call)]
  /\ tpc \in {"idle", "lock", "await", "slot"} /\ tdev \in Scanner
  /\ events \in Seq({"add", "remove"})
  /\ session \in {"none", "acquire", "saned"}
  /\ ub \in {"none", "unloaded", "torn", "overrun", "freed", "slot", "nested", "device"}
  /\ used \in 0..MaxEvents /\ alone \in BOOLEAN

\* The call of t that is under way is one of these.
First(t, calls) == todo[t] # <<>> /\ todo[t][1] \in calls

\* The slot of a poller that has been joined.
Clean(s) == ppc[s] = "none" /\ s \notin ready \cup triggered \cup cancelled

\* scbtn_mutex: who owns it is in a stop or a start, or in a trigger that waits.
OwnerInv ==
  ub = "none" =>
    /\ \A t \in Handling : Positions(todo[t]) /\ (owner = t <=> Holds(todo[t]))
    /\ owner = "trigger" <=> tpc = "slot"
    /\ tpc = "slot" => tdev <= Len(slots)

\* A stop has a slot array to work on; what it has joined is clean.
SlotInv ==
  /\ ~polling => slots = <<>>
  /\ ub = "none" => \A t \in Handling :
       /\ First(t, {"create"}) => ~polling
       /\ First(t, {"cancel", "join"}) => polling
       /\ First(t, {"join"}) => \A j \in 1..Len(slots) : j < idx => Clean(slots[j])

\* While the backends are unloaded there are no pollers and no list to poll;
\* at most one scanbtnd_init is due that has no shutdown before it.
LoadInv ==
  /\ \A t \in Handling : Loads(todo[t])
  /\ ub = "none" =>
       /\ ~loaded => slots = <<>> /\ (freed \/ devices = <<>>)
       /\ \A t \in Handling : \A i \in Bare(todo[t]) :
            /\ ~loaded
            /\ \A u \in Handling : \A j \in Bare(todo[u]) : t = u /\ i = j

\* The backend of s has still to look, in the loading under way or in one that
\* is to come.
Unloading == \E t \in Handling : "shutdown" \in Elements(todo[t])
Awaited(s) == Unloading \/ (Loading /\ Driver[s] >= next)

\* ChangeNotLost has to survive a change that takes an earlier one back: without
\* hotplug the backends differ from what usb_find_devices has reported, not from
\* the bus.  While they are loaded, only those that have looked have scanners.
BusInv ==
  /\ current \subseteq seen
  /\ loaded => next = 1
  /\ ~loaded => \A s \in attached : Driver[s] < next
  /\ hotplug => \A s \in Stale : events # <<>> \/ Awaited(s)
  /\ ~hotplug => \A s \in (seen \cup attached) \ current :
                   lost \/ alarm \/ s \in missed \/ Awaited(s)

\* As long as no two handlers overlap, one thread has calls before it, in order;
\* it unloads, loads and lists without pollers.
AloneInv ==
  /\ events # <<>> => hotplug
  /\ ub = "none" /\ alone =>
       /\ \A t, u \in Handling : todo[t] # <<>> /\ todo[u] # <<>> => t = u
       /\ \A t \in Handling : todo[t] # <<>> => Follows(todo[t], hotplug)
       /\ \A t \in Handling : First(t, {"shutdown", "init", "devices"}) => ~polling
       /\ ~loaded => \E t \in Handling : First(t, {"init"})
       /\ freed => hotplug \/ \E t \in Handling : First(t, {"init", "devices"})

\* While saned runs, the D-Bus thread has nothing to do.
SessionInv == session = "saned" => todo["dbus"] = <<>>

IInv ==
  /\ TypeUsb /\ TypePoll /\ TypeThread
  /\ OwnerInv /\ SlotInv /\ LoadInv /\ BusInv /\ ClaimHasPoller
  /\ AloneInv /\ AloneIsSafe

-----------------------------------------------------------------------------
(* What a step leaves alone                                                *)

\* The bus, the claims and the backends.
LEMMA UsbFrameInv ==
  ASSUME TypeUsb, UNCHANGED <<hotplug, lost, missed, loaded, next, freed, polling, alarm, plugged,
                              seen, attached, current, isOpen, claim>>
  PROVE  TypeUsb'
BY DEF TypeUsb

\* The lists and the pollers.
LEMMA PollFrameInv ==
  ASSUME TypePoll, UNCHANGED <<devices, slots, ppc, ready, triggered, cancelled>>
  PROVE  TypePoll'
BY DEF TypePoll

\* The owner of scbtn_mutex.
LEMMA OwnerFrameInv ==
  ASSUME OwnerInv, UNCHANGED <<ub, todo, owner, tpc, tdev, slots>>
  PROVE  OwnerInv'
BY DEF OwnerInv

\* What a stop has joined, as long as nothing new starts in it.
LEMMA SlotFrameInv ==
  ASSUME SlotInv, TypePoll, UNCHANGED <<ub, todo, polling, slots, idx>>,
         \A s \in Scanner : Clean(s) => Clean(s)'
  PROVE  SlotInv'
<1>1. \A j \in 1..Len(slots) : slots[j] \in Scanner
  BY DEF TypePoll
<1>. QED BY <1>1 DEF SlotInv, First

\* What is loaded.
LEMMA LoadFrameInv ==
  ASSUME LoadInv, UNCHANGED <<ub, todo, loaded, slots, freed, devices>>
  PROVE  LoadInv'
BY DEF LoadInv

\* What the backends know of the bus.
LEMMA BusFrameInv ==
  ASSUME BusInv, UNCHANGED <<hotplug, plugged, seen, lost, missed, loaded, next, attached,
                             current, alarm, events, todo>>
  PROVE  BusInv'
BY DEF BusInv, Awaited, Unloading, Loading, Stale

\* The claims and their pollers.
LEMMA ClaimFrameInv ==
  ASSUME ClaimHasPoller, UNCHANGED <<claim, isOpen, current, ppc, cancelled>>
  PROVE  ClaimHasPoller'
BY DEF ClaimHasPoller

\* The handler that is alone.
LEMMA AloneFrameInv ==
  ASSUME AloneInv, UNCHANGED <<events, hotplug, ub, alone, todo, polling, loaded, freed>>
  PROVE  AloneInv'
BY DEF AloneInv, First

\* What handlers that are alone may meet.
LEMMA SafeFrameInv ==
  ASSUME AloneIsSafe, UNCHANGED <<alone, ub, freed, hotplug>>
  PROVE  AloneIsSafe'
BY DEF AloneIsSafe

\* Undefined behaviour ends the behaviour; only AloneIsSafe has to be shown of it.
LEMMA UndefinedInv ==
  ASSUME IInv, NEW what \in {"unloaded", "torn", "overrun", "freed", "slot", "device"},
         Undefined(what), AloneIsSafe'
  PROVE  IInv'
<1>1. UNCHANGED <<hotplug, lost, missed, loaded, next, freed, polling, alarm, plugged, seen,
                  attached, current, isOpen, claim, devices, slots, ppc, ready, triggered,
                  cancelled, owner, idx, todo, tpc, tdev, events, session, used, alone>>
      /\ ub' = what
  BY DEF Undefined, usbVars, backendVars, listVars, slotVars, stopVars, trigVars, envVars
<1>2. TypeUsb' /\ TypePoll'
  BY <1>1, UsbFrameInv, PollFrameInv DEF IInv
<1>3. TypeThread'
  BY <1>1 DEF IInv, TypeThread
<1>4. OwnerInv' /\ LoadInv'
  BY <1>1 DEF IInv, OwnerInv, LoadInv
<1>5. SlotInv'
  BY <1>1 DEF IInv, SlotInv
<1>6. BusInv' /\ ClaimHasPoller'
  BY <1>1, BusFrameInv, ClaimFrameInv DEF IInv
<1>7. AloneInv'
  BY <1>1 DEF IInv, AloneInv
<1>. QED BY <1>2, <1>3, <1>4, <1>5, <1>6, <1>7 DEF IInv

-----------------------------------------------------------------------------
(* The calls of a thread                                                   *)

\* A call that is done.
LEMMA ThenPops ==
  ASSUME TypeThread, OwnerInv, NEW t \in Handling, NEW c, At(t, c), Then(t, <<>>)
  PROVE  /\ todo' \in [Handling -> Seq(Call)]
         /\ \A u \in Handling : u # t => todo'[u] = todo[u]
         /\ todo[t][1] = c /\ Positions(todo[t])
         /\ Positions(todo'[t])
         /\ Holds(todo'[t]) <=> Len(todo[t]) > 1 /\ todo[t][2] = "create"
         /\ \A i \in Bare(todo'[t]) : i + 1 \in Bare(todo[t]) \/ (i = 1 /\ c = "shutdown")
         /\ Loads(todo[t]) => Loads(todo'[t])
         /\ \A e \in Elements(todo[t]) : e # c => e \in Elements(todo'[t])
         /\ Len(todo[t]) \in Nat \ {0} /\ Len(todo'[t]) = Len(todo[t]) - 1
         /\ todo'[t] # <<>> => /\ Len(todo[t]) > 1
                               /\ todo'[t][1] = todo[t][2]
                               /\ todo'[t][1] \notin {"cancel", "join"}
                               /\ Follows(todo[t], hotplug) => Follows(todo'[t], hotplug)
<1>1. todo \in [Handling -> Seq(Call)] /\ ub = "none"
      /\ todo[t] # <<>> /\ Head(todo[t]) = c
      /\ todo' = [todo EXCEPT ![t] = <<>> \o Tail(@)]
  BY DEF TypeThread, At, Then
<1>. DEFINE q == todo[t]
            r == todo'[t]
<1>2. /\ q \in Seq(Call) /\ q # <<>> /\ Len(q) \in Nat \ {0} /\ q[1] = c
      /\ Tail(q) \in Seq(Call) /\ Len(Tail(q)) = Len(q) - 1
      /\ \A i \in 1..(Len(q) - 1) : Tail(q)[i] = q[i + 1]
  BY <1>1
<1>3. /\ <<>> \o Tail(q) \in Seq(Call) /\ Len(<<>> \o Tail(q)) = Len(Tail(q))
      /\ \A i \in 1..Len(Tail(q)) : (<<>> \o Tail(q))[i] = Tail(q)[i]
  <2>1. Tail(q) \in Seq(Call) /\ <<>> \in Seq(Call)
    BY <1>2
  <2>. HIDE DEF q
  <2>. QED BY <2>1
<1>4. r = <<>> \o Tail(q)
  BY <1>1
<1>5. /\ todo' \in [Handling -> Seq(Call)]
      /\ \A u \in Handling : u # t => todo'[u] = todo[u]
      /\ r \in Seq(Call)
  BY <1>1, <1>3, <1>4
<1>6. Popped(q, r)
  BY <1>2, <1>3, <1>4 DEF Popped
<1>7. Positions(q)
  BY <1>1 DEF OwnerInv
<1>. HIDE DEF q, r
<1>8. Positions(r) /\ (Holds(r) <=> Len(q) > 1 /\ q[2] = "create")
  BY <1>2, <1>5, <1>6, <1>7, PoppedOwner
<1>9. \A i \in Bare(r) : i + 1 \in Bare(q) \/ (i = 1 /\ c = "shutdown")
  BY <1>2, <1>5, <1>6, PoppedBare
<1>10. /\ \A e \in Elements(q) : e # c => e \in Elements(r)
       /\ Loads(q) => Loads(r)
  BY <1>2, <1>5, <1>6, PoppedKeeps, PoppedLoads
<1>11. Len(r) = Len(q) - 1
  BY <1>6 DEF Popped
<1>12. ASSUME r # <<>>
       PROVE  /\ Len(q) > 1 /\ r[1] = q[2] /\ r[1] \notin {"cancel", "join"}
              /\ Follows(q, hotplug) => Follows(r, hotplug)
  <2>1. Len(q) > 1 /\ 1 \in 1..Len(r) /\ 2 \in 1..Len(q)
    BY <1>2, <1>5, <1>11, <1>12
  <2>2. r[1] = q[2]
    BY <1>6, <2>1 DEF Popped
  <2>3. Follows(q, hotplug) => Follows(r, hotplug)
    BY <1>2, <1>5, <1>6, <2>1, PoppedFollows
  <2>. QED BY <1>7, <2>1, <2>2, <2>3 DEF Positions
<1>. QED BY <1>2, <1>5, <1>7, <1>8, <1>9, <1>10, <1>11, <1>12 DEF q, r

\* A call that goes on as another.
LEMMA ThenSwaps ==
  ASSUME TypeThread, OwnerInv, NEW t \in Handling, NEW c \in {"stop", "cancel"}, At(t, c),
         NEW d \in {"cancel", "join"}, Then(t, <<d>>)
  PROVE  /\ todo' \in [Handling -> Seq(Call)]
         /\ \A u \in Handling : u # t => todo'[u] = todo[u]
         /\ todo[t][1] = c /\ Positions(todo[t])
         /\ Positions(todo'[t]) /\ Holds(todo'[t])
         /\ Bare(todo'[t]) = Bare(todo[t])
         /\ Loads(todo[t]) => Loads(todo'[t])
         /\ Keeps(todo[t], todo'[t])
         /\ todo[t] # <<>> /\ todo'[t] # <<>> /\ todo'[t][1] = d
         /\ Follows(todo[t], hotplug) => Follows(todo'[t], hotplug)
<1>1. todo \in [Handling -> Seq(Call)] /\ ub = "none"
      /\ todo[t] # <<>> /\ Head(todo[t]) = c
      /\ todo' = [todo EXCEPT ![t] = <<d>> \o Tail(@)]
  BY DEF TypeThread, At, Then
<1>. DEFINE q == todo[t]
            r == todo'[t]
<1>2. /\ q \in Seq(Call) /\ q # <<>> /\ Len(q) \in Nat \ {0} /\ q[1] = c
      /\ Tail(q) \in Seq(Call) /\ Len(Tail(q)) = Len(q) - 1
      /\ \A i \in 1..(Len(q) - 1) : Tail(q)[i] = q[i + 1]
  BY <1>1
<1>3. /\ <<d>> \o Tail(q) \in Seq(Call) /\ Len(<<d>> \o Tail(q)) = Len(q)
      /\ (<<d>> \o Tail(q))[1] = d
      /\ \A i \in 2..Len(q) : (<<d>> \o Tail(q))[i] = q[i]
  <2>1. Tail(q) \in Seq(Call) /\ <<d>> \in Seq(Call) /\ Len(<<d>>) = 1 /\ <<d>>[1] = d
    BY <1>2, CallSet
  <2>. HIDE DEF q
  <2>2. /\ <<d>> \o Tail(q) \in Seq(Call) /\ Len(<<d>> \o Tail(q)) = 1 + Len(Tail(q))
        /\ (<<d>> \o Tail(q))[1] = d
        /\ \A i \in 2..(1 + Len(Tail(q))) : (<<d>> \o Tail(q))[i] = Tail(q)[i - 1]
    BY <2>1
  <2>3. \A i \in 2..Len(q) : i - 1 \in 1..(Len(q) - 1) /\ (i - 1) + 1 = i
    BY <1>2
  <2>. QED BY <1>2, <2>2, <2>3
<1>4. r = <<d>> \o Tail(q)
  BY <1>1
<1>5. /\ todo' \in [Handling -> Seq(Call)]
      /\ \A u \in Handling : u # t => todo'[u] = todo[u]
      /\ r \in Seq(Call)
  BY <1>1, <1>3, <1>4
<1>6. Swapped(q, r, d)
  BY <1>2, <1>3, <1>4 DEF Swapped
<1>7. Positions(q)
  BY <1>1 DEF OwnerInv
<1>8. r # <<>> /\ r[1] = d
  BY <1>2, <1>3, <1>4
<1>. HIDE DEF q, r
<1>9. /\ Positions(r) /\ Holds(r) /\ Bare(r) = Bare(q)
      /\ Follows(q, hotplug) => Follows(r, hotplug)
      /\ Keeps(q, r)
      /\ Loads(q) => Loads(r)
  BY <1>2, <1>5, <1>6, <1>7, SwappedShape
<1>. QED BY <1>2, <1>5, <1>7, <1>8, <1>9 DEF q, r

\* A start that stops first.
LEMMA ThenDoubles ==
  ASSUME TypeThread, OwnerInv, NEW t \in Handling, At(t, "start"),
         Then(t, <<"stop", "create">>)
  PROVE  /\ todo' \in [Handling -> Seq(Call)]
         /\ \A u \in Handling : u # t => todo'[u] = todo[u]
         /\ todo[t][1] = "start" /\ Positions(todo[t])
         /\ Positions(todo'[t]) /\ Holds(todo'[t])
         /\ \A i \in Bare(todo'[t]) : i - 1 \in Bare(todo[t])
         /\ Loads(todo[t]) => Loads(todo'[t])
         /\ Keeps(todo[t], todo'[t])
         /\ todo[t] # <<>> /\ todo'[t] # <<>> /\ todo'[t][1] = "stop"
         /\ Follows(todo[t], hotplug) => Follows(todo'[t], hotplug)
<1>1. todo \in [Handling -> Seq(Call)] /\ ub = "none"
      /\ todo[t] # <<>> /\ Head(todo[t]) = "start"
      /\ todo' = [todo EXCEPT ![t] = <<"stop", "create">> \o Tail(@)]
  BY DEF TypeThread, At, Then
<1>. DEFINE q == todo[t]
            r == todo'[t]
            p == <<"stop", "create">>
<1>2. /\ q \in Seq(Call) /\ q # <<>> /\ Len(q) \in Nat \ {0} /\ q[1] = "start"
      /\ Tail(q) \in Seq(Call) /\ Len(Tail(q)) = Len(q) - 1
      /\ \A i \in 1..(Len(q) - 1) : Tail(q)[i] = q[i + 1]
  BY <1>1
<1>3. /\ p \o Tail(q) \in Seq(Call) /\ Len(p \o Tail(q)) = Len(q) + 1
      /\ (p \o Tail(q))[1] = "stop" /\ (p \o Tail(q))[2] = "create"
      /\ \A i \in 3..(Len(q) + 1) : (p \o Tail(q))[i] = q[i - 1]
  <2>1. Tail(q) \in Seq(Call) /\ p \in Seq(Call) /\ Len(p) = 2 /\ p[1] = "stop" /\ p[2] = "create"
    BY <1>2, CallSet
  <2>. HIDE DEF q, p
  <2>2. /\ p \o Tail(q) \in Seq(Call) /\ Len(p \o Tail(q)) = 2 + Len(Tail(q))
        /\ (p \o Tail(q))[1] = p[1] /\ (p \o Tail(q))[2] = p[2]
        /\ \A i \in 3..(2 + Len(Tail(q))) : (p \o Tail(q))[i] = Tail(q)[i - 2]
    <3>. DEFINE h == Tail(q)
    <3>. HIDE DEF h
    <3>1. /\ p \o h \in Seq(Call) /\ Len(p \o h) = Len(p) + Len(h) /\ Len(h) \in Nat
          /\ \A i \in 1..(Len(p) + Len(h)) :
                (p \o h)[i] = IF i <= Len(p) THEN p[i] ELSE h[i - Len(p)]
      <4>1. h \in Seq(Call) /\ p \in Seq(Call)
        BY <2>1 DEF h
      <4>2. Len(h) \in Nat
        BY <4>1, LenProperties
      <4>. QED BY <4>1, <4>2, ConcatProperties
    <3>2. 1 \in 1..(2 + Len(h)) /\ 2 \in 1..(2 + Len(h))
          /\ \A i \in 3..(2 + Len(h)) : i \in 1..(2 + Len(h)) /\ ~(i <= 2)
      BY <3>1
    <3>. QED BY <2>1, <3>1, <3>2 DEF h
  <2>3. \A i \in 3..(Len(q) + 1) : i - 2 \in 1..(Len(q) - 1) /\ (i - 2) + 1 = i - 1
    BY <1>2
  <2>. QED BY <1>2, <2>1, <2>2, <2>3
<1>4. r = p \o Tail(q)
  BY <1>1
<1>5. /\ todo' \in [Handling -> Seq(Call)]
      /\ \A u \in Handling : u # t => todo'[u] = todo[u]
      /\ r \in Seq(Call)
  BY <1>1, <1>3, <1>4
<1>6. Doubled(q, r)
  BY <1>2, <1>3, <1>4 DEF Doubled
<1>7. Positions(q)
  BY <1>1 DEF OwnerInv
<1>8. r # <<>> /\ r[1] = "stop"
  BY <1>2, <1>3, <1>4
<1>. HIDE DEF q, r
<1>9. /\ Positions(r) /\ Holds(r)
      /\ \A i \in Bare(r) : i - 1 \in Bare(q)
      /\ Follows(q, hotplug) => Follows(r, hotplug)
      /\ Keeps(q, r)
      /\ Loads(q) => Loads(r)
  BY <1>2, <1>5, <1>6, <1>7, DoubledShape
<1>. QED BY <1>2, <1>5, <1>7, <1>8, <1>9 DEF q, r

\* A signal interrupts main.
LEMMA Interrupted ==
  ASSUME TypeThread, OwnerInv, ub = "none", NEW c \in {"HUP", "ALRM"},
         todo' = [todo EXCEPT !["main"] = Reload \o <<c>> \o @]
  PROVE  /\ todo' \in [Handling -> Seq(Call)]
         /\ \A u \in Handling : u # "main" => todo'[u] = todo[u]
         /\ ~Holds(todo["main"]) => Positions(todo'["main"]) /\ ~Holds(todo'["main"])
         /\ \A i \in Bare(todo'["main"]) : i - 6 \in Bare(todo["main"])
         /\ Loads(todo["main"]) => Loads(todo'["main"])
         /\ "init" \in Elements(todo'["main"]) /\ "shutdown" \in Elements(todo'["main"])
         /\ todo'["main"] # <<>> /\ todo'["main"][1] = "stop"
         /\ todo["main"] = <<>> => Follows(todo'["main"], hotplug)
<1>1. todo \in [Handling -> Seq(Call)] /\ "main" \in Handling
  BY DEF TypeThread, Handling
<1>. DEFINE q == todo["main"]
            r == todo'["main"]
            p == Reload \o <<c>>
<1>2. q \in Seq(Call) /\ Positions(q)
  BY <1>1 DEF OwnerInv
<1>3. /\ p \in Seq(Call) /\ Len(p) = 6
      /\ p[1] = "stop" /\ p[2] = "shutdown" /\ p[3] = "init" /\ p[4] = "devices"
      /\ p[5] = "start" /\ p[6] = c
  <2>1. /\ Reload \in Seq(Call) /\ Len(Reload) = 5 /\ <<c>> \in Seq(Call)
        /\ Reload[1] = "stop" /\ Reload[2] = "shutdown" /\ Reload[3] = "init"
        /\ Reload[4] = "devices" /\ Reload[5] = "start"
    BY CallSet DEF Reload
  <2>2. Len(<<c>>) = 1 /\ <<c>>[1] = c
    OBVIOUS
  <2>. DEFINE e == <<c>>
              l == Reload
  <2>3. l \in Seq(Call) /\ e \in Seq(Call) /\ Len(l) = 5 /\ Len(e) = 1 /\ e[1] = c
        /\ l[1] = "stop" /\ l[2] = "shutdown" /\ l[3] = "init" /\ l[4] = "devices"
        /\ l[5] = "start" /\ p = l \o e
    BY <2>1, <2>2
  <2>. HIDE DEF e, l, p
  <2>4. /\ l \o e \in Seq(Call) /\ Len(l \o e) = Len(l) + Len(e)
        /\ \A i \in 1..(Len(l) + Len(e)) :
              (l \o e)[i] = IF i <= Len(l) THEN l[i] ELSE e[i - Len(l)]
    BY <2>3, ConcatProperties
  <2>5. 1 \in 1..6 /\ 2 \in 1..6 /\ 3 \in 1..6 /\ 4 \in 1..6 /\ 5 \in 1..6 /\ 6 \in 1..6
    OBVIOUS
  <2>6. /\ p[1] = l[1] /\ p[2] = l[2] /\ p[3] = l[3] /\ p[4] = l[4] /\ p[5] = l[5]
        /\ p[6] = e[1] /\ Len(p) = 6
    BY <2>3, <2>4, <2>5
  <2>. QED BY <2>3, <2>4, <2>6
<1>4. r = p \o q
  <2>1. (Reload \o <<c>>) \o q = r
    BY <1>1
  <2>. QED BY <2>1
<1>5. r \in Seq(Call) /\ Pushed(q, r, c)
  <2>. HIDE DEF p, q, r
  <2>1. /\ p \o q \in Seq(Call) /\ Len(p \o q) = 6 + Len(q) /\ Len(q) \in Nat
        /\ \A i \in 1..6 : (p \o q)[i] = p[i]
        /\ \A i \in 7..(6 + Len(q)) : (p \o q)[i] = q[i - 6]
    <3>1. /\ p \o q \in Seq(Call) /\ Len(p \o q) = Len(p) + Len(q) /\ Len(q) \in Nat
          /\ \A i \in 1..(Len(p) + Len(q)) :
                (p \o q)[i] = IF i <= Len(p) THEN p[i] ELSE q[i - Len(p)]
      <4>1. q \in Seq(Call) /\ p \in Seq(Call)
        BY <1>2, <1>3
      <4>2. Len(q) \in Nat
        BY <4>1, LenProperties
      <4>. QED BY <4>1, <4>2, ConcatProperties
    <3>2. \A i \in 1..6 : i \in 1..(6 + Len(q)) /\ i <= 6
      BY <3>1
    <3>3. \A i \in 7..(6 + Len(q)) : i \in 1..(6 + Len(q)) /\ ~(i <= 6)
      BY <3>1
    <3>. QED BY <1>3, <3>1, <3>2, <3>3
  <2>. QED BY <1>3, <1>4, <2>1 DEF Pushed
<1>6. /\ todo' \in [Handling -> Seq(Call)]
      /\ \A u \in Handling : u # "main" => todo'[u] = todo[u]
  BY <1>1, <1>4, <1>5
<1>. HIDE DEF p, q, r
<1>7. /\ ~Holds(q) => Positions(r) /\ ~Holds(r)
      /\ \A i \in Bare(r) : i - 6 \in Bare(q)
      /\ q = <<>> => Follows(r, hotplug)
      /\ "init" \in Elements(r) /\ "shutdown" \in Elements(r)
      /\ Loads(q) => Loads(r)
  BY <1>2, <1>5, PushedShape
<1>8. r # <<>> /\ r[1] = "stop"
  BY <1>2, <1>5 DEF Pushed
<1>. QED BY <1>6, <1>7, <1>8 DEF q, r

\* A thread that was waiting has something to do.
LEMMA Started ==
  ASSUME TypeThread, OwnerInv, ub = "none", NEW t \in Handling, todo[t] = <<>>,
         NEW r \in {<<"stop">>, <<"start">>, Reload, Removed},
         todo' = [todo EXCEPT ![t] = r]
  PROVE  /\ todo' \in [Handling -> Seq(Call)]
         /\ \A u \in Handling : u # t => todo'[u] = todo[u]
         /\ Positions(todo'[t]) /\ ~Holds(todo'[t]) /\ ~Holds(todo[t])
         /\ Bare(todo'[t]) = {} /\ Loads(todo'[t])
         /\ todo'[t] # <<>> /\ todo'[t][1] \in {"stop", "start"}
         /\ r \in {Reload, Removed} => "shutdown" \in Elements(todo'[t])
         /\ (r = Removed => hotplug) => Follows(todo'[t], hotplug)
<1>1. todo \in [Handling -> Seq(Call)]
  BY DEF TypeThread
<1>2. /\ r \in Seq(Call) /\ r # <<>> /\ r[1] \in {"stop", "start"}
      /\ Len(r) \in Nat \ {0}
      /\ \A i \in 2..Len(r) :
          \/ i = 2 /\ r[i] = "shutdown" /\ r[i - 1] = "stop"
          \/ i = 3 /\ r[i] = "init" /\ r[i - 1] = "shutdown" /\ (r = Removed \/ Len(r) > 3)
          \/ i = 4 /\ r[i] = "devices" /\ r[i - 1] = "init"
          \/ i = 5 /\ r[i] = "start" /\ r[i - 1] = "devices"
  <2>1. CASE r = <<"stop">> \/ r = <<"start">>
    <3>1. Len(r) = 1 /\ r[1] \in {"stop", "start"} /\ r \in Seq(Call)
      BY <2>1, CallSet
    <3>2. 2..Len(r) = {} /\ Len(r) \in Nat \ {0} /\ Len(<<>>) # Len(r)
      BY <3>1, EmptySeq
    <3>. QED BY <3>1, <3>2
  <2>3. CASE r = Reload
    <3>1. /\ r \in Seq(Call) /\ Len(r) = 5
          /\ r[1] = "stop" /\ r[2] = "shutdown" /\ r[3] = "init"
          /\ r[4] = "devices" /\ r[5] = "start"
      BY <2>3, CallSet DEF Reload
    <3>2. \A i \in 2..Len(r) : i = 2 \/ i = 3 \/ i = 4 \/ i = 5
      BY <3>1
    <3>3. 2 - 1 = 1 /\ 3 - 1 = 2 /\ 4 - 1 = 3 /\ 5 - 1 = 4 /\ Len(r) > 3 /\ Len(<<>>) # Len(r)
      BY <3>1, EmptySeq
    <3>4. ASSUME NEW i \in 2..Len(r)
          PROVE  \/ i = 2 /\ r[i] = "shutdown" /\ r[i - 1] = "stop"
                 \/ i = 3 /\ r[i] = "init" /\ r[i - 1] = "shutdown" /\ (r = Removed \/ Len(r) > 3)
                 \/ i = 4 /\ r[i] = "devices" /\ r[i - 1] = "init"
                 \/ i = 5 /\ r[i] = "start" /\ r[i - 1] = "devices"
      <4>2. CASE i = 2
        BY <3>1, <3>3, <4>2
      <4>3. CASE i = 3
        BY <3>1, <3>3, <4>3
      <4>4. CASE i = 4
        BY <3>1, <3>3, <4>4
      <4>5. CASE i = 5
        BY <3>1, <3>3, <4>5
      <4>. QED BY <3>2, <4>2, <4>3, <4>4, <4>5
    <3>5. r # <<>>
      BY <3>3
    <3>. QED BY <3>1, <3>4, <3>5
  <2>4. CASE r = Removed
    <3>1. /\ r \in Seq(Call) /\ Len(r) = 3
          /\ r[1] = "stop" /\ r[2] = "shutdown" /\ r[3] = "init"
      BY <2>4, CallSet DEF Removed
    <3>2. \A i \in 2..Len(r) : i = 2 \/ i = 3
      BY <3>1
    <3>3. 2 - 1 = 1 /\ 3 - 1 = 2 /\ Len(<<>>) # Len(r)
      BY <3>1, EmptySeq
    <3>4. ASSUME NEW i \in 2..Len(r)
          PROVE  \/ i = 2 /\ r[i] = "shutdown" /\ r[i - 1] = "stop"
                 \/ i = 3 /\ r[i] = "init" /\ r[i - 1] = "shutdown" /\ (r = Removed \/ Len(r) > 3)
      <4>2. CASE i = 2
        BY <2>4, <3>1, <3>3, <4>2
      <4>3. CASE i = 3
        BY <2>4, <3>1, <3>3, <4>3
      <4>. QED BY <3>2, <4>2, <4>3
    <3>5. r # <<>>
      BY <3>3
    <3>. QED BY <3>1, <3>4, <3>5
  <2>. QED BY <2>1, <2>3, <2>4
<1>3. todo'[t] = r /\ todo' \in [Handling -> Seq(Call)]
      /\ \A u \in Handling : u # t => todo'[u] = todo[u]
  BY <1>1, <1>2
<1>4. Positions(r) /\ ~Holds(r)
  <2>1. \A i \in 1..Len(r) : r[i] \notin {"cancel", "join", "create"}
    <3>. SUFFICES ASSUME NEW i \in 1..Len(r) PROVE r[i] \notin {"cancel", "join", "create"}
      OBVIOUS
    <3>1. i = 1 \/ i \in 2..Len(r)
      BY <1>2
    <3>. QED BY <1>2, <3>1
  <2>. QED BY <1>2, <2>1 DEF Positions, Holds
<1>5. Bare(r) = {}
  <2>1. \A i \in 1..Len(r) : r[i] = "init" => i # 1 /\ r[i - 1] = "shutdown"
    <3>. SUFFICES ASSUME NEW i \in 1..Len(r), r[i] = "init" PROVE i # 1 /\ r[i - 1] = "shutdown"
      OBVIOUS
    <3>1. i = 1 \/ i \in 2..Len(r)
      BY <1>2
    <3>. QED BY <1>2, <3>1
  <2>. QED BY <2>1 DEF Bare
<1>6. ASSUME r = Removed => hotplug PROVE Follows(r, hotplug)
  BY <1>2, <1>6 DEF Follows
<1>8. Loads(r)
  <2>. SUFFICES ASSUME NEW i \in 1..Len(r), r[i] = "shutdown"
                PROVE  i < Len(r) /\ r[i + 1] = "init"
    BY DEF Loads
  <2>1. CASE r = <<"stop">> \/ r = <<"start">>
    <3>1. Len(r) = 1 /\ r[1] \in {"stop", "start"}
      BY <2>1
    <3>. QED BY <3>1
  <2>2. CASE r = Reload
    <3>1. /\ Len(r) = 5 /\ r[1] = "stop" /\ r[2] = "shutdown" /\ r[3] = "init"
          /\ r[4] = "devices" /\ r[5] = "start"
      BY <2>2 DEF Reload
    <3>2. i = 2
      BY <3>1
    <3>. QED BY <3>1, <3>2
  <2>3. CASE r = Removed
    <3>1. Len(r) = 3 /\ r[1] = "stop" /\ r[2] = "shutdown" /\ r[3] = "init"
      BY <2>3 DEF Removed
    <3>2. i = 2
      BY <3>1
    <3>. QED BY <3>1, <3>2
  <2>. QED BY <2>1, <2>2, <2>3
<1>7. ~Holds(todo[t])
  <2>1. Len(<<>>) = 0
    OBVIOUS
  <2>. QED BY <2>1 DEF Holds
<1>9. ASSUME r \in {Reload, Removed} PROVE "shutdown" \in Elements(r)
  <2>1. CASE r = Reload
    <3>1. 2 \in DOMAIN r /\ r[2] = "shutdown"
      BY <2>1 DEF Reload
    <3>. QED BY <3>1 DEF Elements
  <2>2. CASE r = Removed
    <3>1. 2 \in DOMAIN r /\ r[2] = "shutdown"
      BY <2>2 DEF Removed
    <3>. QED BY <3>1 DEF Elements
  <2>. QED BY <1>9, <2>1, <2>2
<1>. QED BY <1>2, <1>3, <1>4, <1>5, <1>6, <1>7, <1>8, <1>9

\* The head of the calls of a thread is done.
LEMMA PopOwner ==
  ASSUME IInv, NEW t \in Handling, NEW c \in Call \ {"cancel", "join", "create"},
         At(t, c), Then(t, <<>>), UNCHANGED <<ub, owner, tpc, tdev, slots>>
  PROVE  OwnerInv'
<1>1. /\ \A u \in Handling : u # t => todo'[u] = todo[u]
      /\ todo[t][1] = c /\ Positions(todo'[t]) /\ todo[t] # <<>>
      /\ Holds(todo'[t]) <=> Len(todo[t]) > 1 /\ todo[t][2] = "create"
  BY ThenPops DEF IInv, At
<1>2. Holds(todo'[t]) <=> Holds(todo[t])
  BY <1>1 DEF Holds
<1>. QED BY <1>1, <1>2 DEF IInv, OwnerInv

\* A done call leaves the slots of a stop alone.
LEMMA PopSlot ==
  ASSUME IInv, NEW t \in Handling, NEW c \in Call \ {"cancel", "join", "create"},
         At(t, c), Then(t, <<>>), c = "stop" => ~polling,
         UNCHANGED <<ub, polling, slots, idx, ppc, ready, triggered, cancelled>>
  PROVE  SlotInv'
<1>1. /\ \A u \in Handling : u # t => todo'[u] = todo[u]
      /\ todo[t][1] = c /\ Positions(todo[t])
      /\ Holds(todo'[t]) <=> Len(todo[t]) > 1 /\ todo[t][2] = "create"
      /\ Len(todo[t]) \in Nat
      /\ todo'[t] # <<>> => /\ Len(todo[t]) > 1
                            /\ todo'[t][1] = todo[t][2]
                            /\ todo'[t][1] \notin {"cancel", "join"}
  BY ThenPops DEF IInv
<1>2. ASSUME todo'[t] # <<>>, todo'[t][1] = "create" PROVE c = "stop"
  <2>1. 2 \in 1..Len(todo[t]) /\ todo[t][2] = "create"
    BY <1>1, <1>2
  <2>2. todo[t][1] \in {"stop", "cancel", "join"}
    BY <1>1, <2>1 DEF Positions
  <2>. QED BY <1>1, <2>2
<1>3. ub = "none" /\ SlotInv
  BY DEF At, IInv
<1>. QED BY <1>1, <1>2, <1>3 DEF SlotInv, First, Clean

\* A change of the calls that adds no scanbtnd_init that is due.
LEMMA TodoLoad ==
  ASSUME IInv, NEW t \in Handling, NEW d \in Int, ub = "none", UNCHANGED loaded,
         ~loaded => slots' = <<>> /\ (freed' \/ devices' = <<>>),
         \A u \in Handling : u # t => todo'[u] = todo[u],
         Loads(todo[t]) => Loads(todo'[t]),
         \A i \in Bare(todo'[t]) : i - d \in Bare(todo[t])
  PROVE  LoadInv'
<1>1. \A u \in Handling : Loads(todo'[u])
  BY DEF IInv, LoadInv
<1>2. \A u \in Handling : \A i \in Bare(todo'[u]) :
        i \in Int /\ (IF u = t THEN i - d ELSE i) \in Bare(todo[u])
  <2>1. \A u \in Handling : \A i \in Bare(todo'[u]) : i \in Int
    BY DEF Bare
  <2>. QED BY <2>1
<1>3. ASSUME NEW u \in Handling, NEW i \in Bare(todo'[u])
      PROVE  /\ ~loaded
             /\ \A v \in Handling : \A j \in Bare(todo'[v]) : u = v /\ i = j
  <2>1. ~loaded
    BY <1>2, <1>3 DEF IInv, LoadInv
  <2>2. ASSUME NEW v \in Handling, NEW j \in Bare(todo'[v]) PROVE u = v /\ i = j
    <3>1. u = v /\ (IF u = t THEN i - d ELSE i) = (IF v = t THEN j - d ELSE j)
      <4>. DEFINE a == IF u = t THEN i - d ELSE i
                  b == IF v = t THEN j - d ELSE j
      <4>1. a \in Bare(todo[u]) /\ b \in Bare(todo[v])
        BY <1>2, <1>3, <2>2
      <4>. HIDE DEF a, b
      <4>2. u = v /\ a = b
        BY <4>1 DEF IInv, LoadInv
      <4>. QED BY <4>2 DEF a, b
    <3>2. i \in Int /\ j \in Int
      BY <1>2, <1>3, <2>2
    <3>. QED BY <3>1, <3>2
  <2>. QED BY <2>1, <2>2
<1>. QED BY <1>1, <1>3 DEF LoadInv

\* The same when those that are due stay where they are.
LEMMA SwapLoad ==
  ASSUME IInv, NEW t \in Handling, UNCHANGED <<ub, loaded, slots, freed, devices>>,
         \A u \in Handling : u # t => todo'[u] = todo[u],
         Loads(todo[t]) => Loads(todo'[t]), Bare(todo'[t]) = Bare(todo[t])
  PROVE  LoadInv'
<1>1. \A u \in Handling : Bare(todo'[u]) = Bare(todo[u]) /\ (Loads(todo[u]) => Loads(todo'[u]))
  OBVIOUS
<1>. QED BY <1>1 DEF IInv, LoadInv

\* A done call other than the shutdown.
LEMMA PopLoad ==
  ASSUME IInv, NEW t \in Handling, NEW c \in Call \ {"shutdown"}, At(t, c), Then(t, <<>>),
         UNCHANGED loaded, ~loaded => slots' = <<>> /\ (freed' \/ devices' = <<>>)
  PROVE  LoadInv'
<1>1. /\ \A u \in Handling : u # t => todo'[u] = todo[u]
      /\ \A i \in Bare(todo'[t]) : i + 1 \in Bare(todo[t])
      /\ Loads(todo[t]) => Loads(todo'[t])
  BY ThenPops DEF IInv
<1>2. \A i \in Bare(todo'[t]) : i - (-1) \in Bare(todo[t])
  <2>1. \A i \in Bare(todo'[t]) : i \in Int
    BY DEF Bare
  <2>2. \A i \in Int : i - (-1) = i + 1
    OBVIOUS
  <2>. QED BY <1>1, <2>1, <2>2
<1>3. ub = "none" /\ -1 \in Int
  BY DEF At
<1>. QED BY <1>1, <1>2, <1>3, TodoLoad

\* A scbtn_shutdown that is due has a scanbtnd_init after it.
LEMMA UnloadingLoads ==
  ASSUME LoadInv, TypeThread, Unloading
  PROVE  Loading
<1>1. PICK t \in Handling : "shutdown" \in Elements(todo[t])
  BY DEF Unloading
<1>2. todo[t] \in Seq(Call)
  BY DEF TypeThread
<1>3. PICK i \in 1..Len(todo[t]) : todo[t][i] = "shutdown"
  BY <1>1, <1>2 DEF Elements
<1>4. i < Len(todo[t]) /\ todo[t][i + 1] = "init"
  BY <1>3 DEF LoadInv, Loads
<1>5. i + 1 \in DOMAIN todo[t]
  BY <1>2, <1>3, <1>4
<1>. QED BY <1>4, <1>5 DEF Loading, Elements

\* Who has still to look has not done so when other calls are done.
LEMMA StillAwaited ==
  ASSUME NEW t \in Handling, \A u \in Handling : u # t => todo'[u] = todo[u],
         Keeps(todo[t], todo'[t]), UNCHANGED next, NEW s, Awaited(s)
  PROVE  Awaited(s)'
<1>1. Loading => Loading'
  BY DEF Loading, Keeps
<1>2. Unloading => Unloading'
  BY DEF Unloading, Keeps
<1>. QED BY <1>1, <1>2 DEF Awaited

\* A change of the calls that takes no loading away.
LEMMA TodoBus ==
  ASSUME IInv, NEW t \in Handling,
         UNCHANGED <<hotplug, plugged, seen, lost, missed, loaded, next, attached, current, alarm,
                     events>>,
         \A u \in Handling : u # t => todo'[u] = todo[u], Keeps(todo[t], todo'[t])
  PROVE  BusInv'
<1>1. \A s : Awaited(s) => Awaited(s)'
  BY StillAwaited
<1>2. Stale' = Stale
  BY DEF Stale
<1>. QED BY <1>1, <1>2 DEF IInv, BusInv

\* A done call other than scbtn_shutdown and scanbtnd_init.
LEMMA PopBus ==
  ASSUME IInv, NEW t \in Handling, NEW c \in Call \ {"init", "shutdown"}, At(t, c), Then(t, <<>>),
         UNCHANGED <<hotplug, plugged, seen, lost, missed, loaded, next, attached, current, alarm,
                     events>>
  PROVE  BusInv'
<1>1. /\ \A u \in Handling : u # t => todo'[u] = todo[u]
      /\ \A e \in Elements(todo[t]) : e # c => e \in Elements(todo'[t])
  BY ThenPops DEF IInv
<1>2. Keeps(todo[t], todo'[t])
  BY <1>1 DEF Keeps
<1>. QED BY <1>1, <1>2, TodoBus

\* While no other handler is under way.
LEMMA PopAlone ==
  ASSUME IInv, NEW t \in Handling, NEW c \in Call \ {"cancel"}, At(t, c), Then(t, <<>>),
         UNCHANGED <<events, hotplug, alone, ub>>,
         ~loaded' => c = "shutdown" \/ (~loaded /\ c # "init"),
         freed' => c = "shutdown" \/ (freed /\ c # "devices"),
         polling' => c \in {"start", "create"} \/ (polling /\ c \notin {"stop", "join"})
  PROVE  AloneInv'
<1>. USE DEF IInv
<1>0. events' # <<>> => hotplug'
  BY DEF AloneInv
<1>. SUFFICES ASSUME alone
              PROVE  AloneInv'
  BY <1>0 DEF AloneInv
<1>1. ub = "none" /\ todo[t] # <<>>
  BY DEF At
<1>2. /\ \A u \in Handling : u # t => todo'[u] = todo[u]
      /\ todo[t][1] = c /\ Positions(todo[t])
      /\ Len(todo[t]) \in Nat \ {0} /\ Len(todo'[t]) = Len(todo[t]) - 1
      /\ todo'[t] # <<>> => /\ Len(todo[t]) > 1
                            /\ todo'[t][1] = todo[t][2]
                            /\ Follows(todo[t], hotplug) => Follows(todo'[t], hotplug)
      /\ todo' \in [Handling -> Seq(Call)]
  BY ThenPops
<1>3. \A u \in Handling : u # t => todo'[u] = <<>>
  BY <1>1, <1>2 DEF AloneInv
<1>4. Follows(todo[t], hotplug)
  BY <1>1 DEF AloneInv
<1>5. ASSUME todo'[t] # <<>>
      PROVE  /\ todo'[t][1] = "shutdown" => c \in {"stop", "join"}
             /\ todo'[t][1] = "init" => c = "shutdown"
             /\ todo'[t][1] = "devices" => c = "init"
  <2>1. 2 \in 2..Len(todo[t]) /\ 2 - 1 = 1
    BY <1>2, <1>5
  <2>. QED BY <1>2, <1>4, <1>5, <2>1 DEF Follows
<1>6. c = "shutdown" => todo'[t] # <<>> /\ todo'[t][1] = "init"
  <2>. SUFFICES ASSUME c = "shutdown" PROVE todo'[t] # <<>> /\ todo'[t][1] = "init"
    OBVIOUS
  <2>1. Loads(todo[t])
    BY <1>1 DEF LoadInv
  <2>2. 1 \in 1..Len(todo[t]) /\ 1 + 1 = 2
    BY <1>2
  <2>3. 1 < Len(todo[t]) /\ todo[t][2] = "init"
    BY <1>2, <2>1, <2>2 DEF Loads
  <2>4. todo'[t] # <<>>
    <3>1. Len(todo'[t]) # 0 /\ Len(<<>>) = 0
      BY <1>2, <2>3
    <3>. QED BY <3>1
  <2>. QED BY <1>2, <2>3, <2>4
<1>7. c = "init" => hotplug \/ (todo'[t] # <<>> /\ todo'[t][1] = "devices")
  <2>. SUFFICES ASSUME c = "init", ~hotplug PROVE todo'[t] # <<>> /\ todo'[t][1] = "devices"
    OBVIOUS
  <2>1. Len(todo[t]) > 1
    BY <1>2, <1>4 DEF Follows
  <2>2. todo'[t] # <<>>
    <3>1. Len(todo'[t]) # 0 /\ Len(<<>>) = 0
      BY <1>2, <2>1
    <3>. QED BY <3>1
  <2>3. 2 \in 2..Len(todo[t]) /\ 2 - 1 = 1
    BY <1>2, <2>1
  <2>. QED BY <1>2, <1>4, <2>2, <2>3 DEF Follows
<1>8. /\ loaded \/ c = "init"
      /\ freed => hotplug \/ c \in {"init", "devices"}
      /\ c \in {"shutdown", "init", "devices"} => ~polling
  BY <1>1, <1>2 DEF AloneInv, First
<1>9. todo'[t] # <<>> => Follows(todo'[t], hotplug)
  BY <1>2, <1>4
<1>10. ASSUME todo'[t] # <<>>, todo'[t][1] \in {"shutdown", "init", "devices"}
       PROVE  ~polling'
  BY <1>5, <1>8, <1>10
<1>11. ~loaded' => todo'[t] # <<>> /\ todo'[t][1] = "init"
  BY <1>6, <1>8
<1>12. freed' => hotplug \/ (todo'[t] # <<>> /\ todo'[t][1] \in {"init", "devices"})
  BY <1>6, <1>7, <1>8
<1>. HIDE DEF IInv
<1>. QED BY <1>0, <1>3, <1>9, <1>10, <1>11, <1>12 DEF AloneInv, First

\* A call that goes on as a stop.
LEMMA HeadAlone ==
  ASSUME IInv, NEW t \in Handling, NEW c \in {"stop", "cancel", "join", "start"}, At(t, c),
         \A u \in Handling : u # t => todo'[u] = todo[u],
         todo'[t] # <<>>, todo'[t][1] \in {"stop", "cancel", "join"},
         Follows(todo[t], hotplug) => Follows(todo'[t], hotplug),
         UNCHANGED <<events, hotplug, ub, alone, polling, loaded, freed>>
  PROVE  AloneInv'
<1>. USE DEF IInv
<1>0. events' # <<>> => hotplug'
  BY DEF AloneInv
<1>. SUFFICES ASSUME alone
              PROVE  AloneInv'
  BY <1>0 DEF AloneInv
<1>1. ub = "none" /\ todo[t] # <<>> /\ todo[t][1] = c
  BY DEF At, TypeThread
<1>2. \A u \in Handling : u # t => todo[u] = <<>> /\ todo'[u] = <<>>
  BY <1>1 DEF AloneInv
<1>3. Follows(todo'[t], hotplug)
  BY <1>1 DEF AloneInv
<1>4. loaded /\ (freed => hotplug)
  BY <1>1, <1>2 DEF AloneInv, First
<1>. HIDE DEF IInv
<1>. QED BY <1>0, <1>2, <1>3, <1>4 DEF AloneInv, First

\* The first call of a new handler: it is alone if nothing else is under way.
LEMMA BeginsAlone ==
  ASSUME IInv, NEW t \in Handling, ub = "none", Begins,
         \A u \in Handling : u # t => todo'[u] = todo[u],
         todo'[t] # <<>>, todo'[t][1] \in {"stop", "start"},
         todo[t] = <<>> => Follows(todo'[t], hotplug),
         UNCHANGED <<hotplug, polling, loaded, freed>>, events' # <<>> => hotplug
  PROVE  AloneInv'
<1>. USE DEF IInv
<1>. SUFFICES ASSUME alone'
              PROVE  AloneInv'
  BY DEF AloneInv
<1>1. alone /\ \A u \in Handling : todo[u] = <<>>
  BY DEF Begins
<1>2. loaded /\ (freed => hotplug)
  BY <1>1 DEF AloneInv, First
<1>3. \A u \in Handling : u # t => todo'[u] = <<>>
  BY <1>1
<1>4. Follows(todo'[t], hotplug)
  BY <1>1
<1>. HIDE DEF IInv
<1>. QED BY <1>2, <1>3, <1>4 DEF AloneInv, First

\* Nothing to show while nothing undefined has happened.
LEMMA SafeInv ==
  ASSUME ub' = "none"
  PROVE  AloneIsSafe'
BY DEF AloneIsSafe

\* A step of a poller, which leaves the calls of the threads alone.
LEMMA PollerInv ==
  ASSUME IInv, ub = "none",
         UNCHANGED <<hotplug, events, session, used, alone, loaded, next, attached, current,
                     devices, freed, polling, slots, owner, idx, todo, tpc, tdev, ub>>,
         \A s \in Scanner : Clean(s) => Clean(s)',
         TypeUsb', TypePoll', BusInv', ClaimHasPoller'
  PROVE  IInv'
<1>1. TypeThread'
  BY DEF IInv, TypeThread
<1>2. OwnerInv' /\ SlotInv' /\ LoadInv' /\ AloneInv' /\ AloneIsSafe'
  BY OwnerFrameInv, SlotFrameInv, LoadFrameInv, AloneFrameInv, SafeInv DEF IInv
<1>. QED BY <1>1, <1>2 DEF IInv

\* scbtn_device_list has each scanner of the meta backend.
LEMMA ListingIsList ==
  ASSUME NEW S \in SUBSET Scanner
  PROVE  /\ Listing(S) \in Seq(Scanner)
         /\ Len(Listing(S)) <= MaxScanners
         /\ Elements(Listing(S)) = S
<1>1. MaxScanners \in Nat /\ IsFiniteSet(Scanner) /\ Cardinality(Scanner) = MaxScanners
  BY BoundAssumption, FS_Interval DEF Scanner
<1>2. IsFiniteSet(S) /\ Cardinality(S) <= MaxScanners
  BY <1>1, FS_Subset
<1>. DEFINE n == Cardinality(S)
<1>3. n \in Nat /\ ExistsBijection(1..n, S)
  BY <1>2, FS_CardinalityType
<1>4. \E q \in [1..n -> S] : Elements(q) = S
  <2>1. PICK q : q \in Bijection(1..n, S)
    BY <1>3 DEF ExistsBijection
  <2>2. q \in [1..n -> S] /\ \A x \in S : \E i \in 1..n : q[i] = x
    BY <2>1 DEF Bijection, Injection, Surjection, IsInjective
  <2>. QED BY <2>2 DEF Elements
<1>5. Listing(S) \in [1..n -> S] /\ Elements(Listing(S)) = S
  BY <1>4 DEF Listing
<1>6. Listing(S) \in Seq(Scanner) /\ Len(Listing(S)) = n
  <2>. DEFINE l == Listing(S)
  <2>1. l \in [1..n -> Scanner]
    BY <1>5
  <2>. HIDE DEF l, n
  <2>2. l \in Seq(Scanner) /\ Len(l) = n
    BY <1>3, <2>1
  <2>. QED BY <2>2 DEF l
<1>. QED BY <1>2, <1>5, <1>6

-----------------------------------------------------------------------------
(* stop_scbtn_threads                                                      *)

\* A stop without pollers.
LEMMA StopNothingInv ==
  ASSUME IInv, NEW t \in Handling, StopNothing(t)
  PROVE  IInv'
<1>1. /\ At(t, "stop") /\ ~polling /\ Then(t, <<>>) /\ ub = "none" /\ "stop" \in Call
      /\ UNCHANGED <<hotplug, lost, missed, loaded, next, freed, polling, alarm, plugged, seen,
                     attached, current, isOpen, claim, devices, slots, ppc, ready, triggered,
                     cancelled, owner, idx, tpc, tdev, events, session, used, alone, ub>>
  BY CallSet DEF StopNothing, At, usbVars, backendVars, listVars, slotVars, stopVars, trigVars,
     envVars
<1>2. TypeUsb' /\ TypePoll' /\ ClaimHasPoller'
  BY <1>1, UsbFrameInv, PollFrameInv, ClaimFrameInv DEF IInv
<1>3. todo' \in [Handling -> Seq(Call)]
  BY <1>1, ThenPops DEF IInv
<1>4. TypeThread'
  BY <1>1, <1>3 DEF IInv, TypeThread
<1>5. OwnerInv'
  BY <1>1, PopOwner
<1>6. SlotInv'
  BY <1>1, PopSlot
<1>7. LoadInv'
  BY <1>1, PopLoad DEF IInv, LoadInv
<1>8. BusInv'
  BY <1>1, PopBus
<1>9. AloneInv'
  BY <1>1, PopAlone
<1>10. AloneIsSafe'
  BY <1>1, SafeInv
<1>. QED BY <1>2, <1>4, <1>5, <1>6, <1>7, <1>8, <1>9, <1>10 DEF IInv

\* A stop takes scbtn_mutex; no other thread is in one.
LEMMA StopLockInv ==
  ASSUME IInv, NEW t \in Handling, StopLock(t)
  PROVE  IInv'
<1>1. /\ At(t, "stop") /\ polling /\ CanLock(t) /\ Then(t, <<"cancel">>) /\ ub = "none"
      /\ owner' = t /\ idx' = 1
      /\ UNCHANGED <<hotplug, lost, missed, loaded, next, freed, polling, alarm, plugged, seen,
                     attached, current, isOpen, claim, devices, slots, ppc, ready, triggered,
                     cancelled, tpc, tdev, events, session, used, alone, ub>>
  BY DEF StopLock, At, usbVars, backendVars, listVars, slotVars, trigVars, envVars
<1>2. TypeUsb' /\ TypePoll' /\ ClaimHasPoller'
  BY <1>1, UsbFrameInv, PollFrameInv, ClaimFrameInv DEF IInv
<1>3. /\ todo' \in [Handling -> Seq(Call)]
      /\ \A u \in Handling : u # t => todo'[u] = todo[u]
      /\ Positions(todo'[t]) /\ Holds(todo'[t])
      /\ Bare(todo'[t]) = Bare(todo[t])
      /\ Loads(todo[t]) => Loads(todo'[t])
      /\ Keeps(todo[t], todo'[t])
      /\ todo'[t] # <<>> /\ todo'[t][1] = "cancel"
      /\ Follows(todo[t], hotplug) => Follows(todo'[t], hotplug)
  BY <1>1, ThenSwaps DEF IInv
<1>4. TypeThread'
  BY <1>1, <1>3, BoundAssumption DEF IInv, TypeThread, Thread
<1>5. OwnerInv'
  <2>1. \A u \in Handling : u # t => ~Holds(todo[u])
    BY <1>1 DEF IInv, OwnerInv, CanLock, Handling
  <2>2. tpc # "slot" /\ t # "trigger"
    BY <1>1 DEF IInv, OwnerInv, CanLock, Handling
  <2>. QED BY <1>1, <1>3, <2>1, <2>2 DEF IInv, OwnerInv
<1>6. SlotInv'
  <2>1. \A u \in Handling : u # t => ~First(u, {"cancel", "join", "create"})
    BY <1>1 DEF IInv, OwnerInv, CanLock, Handling, First, Holds
  <2>. QED BY <1>1, <1>3, <2>1 DEF IInv, SlotInv, First
<1>7. LoadInv'
  BY <1>1, <1>3, SwapLoad
<1>8. BusInv'
  BY <1>1, <1>3, TodoBus
<1>9. AloneInv'
  BY <1>1, <1>3, HeadAlone
<1>10. AloneIsSafe'
  BY <1>1, SafeInv
<1>. QED BY <1>2, <1>4, <1>5, <1>6, <1>7, <1>8, <1>9, <1>10 DEF IInv

\* A stop cancels the next poller.
LEMMA StopCancelInv ==
  ASSUME IInv, NEW t \in Handling, StopCancel(t)
  PROVE  IInv'
<1>1. /\ At(t, "cancel") /\ ub = "none" /\ idx <= Len(slots)
      /\ cancelled' = cancelled \cup {slots[idx]} /\ idx' = idx + 1
      /\ UNCHANGED <<hotplug, lost, missed, loaded, next, freed, polling, alarm, plugged, seen,
                     attached, current, isOpen, claim, devices, slots, ppc, ready, triggered,
                     owner, todo, tpc, tdev, events, session, used, alone, ub>>
  BY DEF StopCancel, At, usbVars, backendVars, listVars, trigVars, envVars
<1>2. idx \in 1..Len(slots) /\ Len(slots) \in Nat /\ Len(slots) <= MaxScanners
      /\ DOMAIN slots = 1..Len(slots) /\ MaxScanners \in Nat
  BY <1>1, BoundAssumption DEF IInv, TypePoll, TypeThread
<1>3. slots[idx] \in Elements(slots)
  BY <1>2 DEF Elements
<1>4. TypeUsb' /\ BusInv' /\ LoadInv' /\ OwnerInv' /\ AloneInv' /\ AloneIsSafe'
  BY <1>1, UsbFrameInv, BusFrameInv, LoadFrameInv, OwnerFrameInv, AloneFrameInv, SafeInv DEF IInv
<1>5. TypePoll'
  BY <1>1, <1>3 DEF IInv, TypePoll
<1>6. TypeThread'
  <2>1. idx' \in 1..(MaxScanners + 1)
    BY <1>1, <1>2
  <2>. QED BY <1>1, <2>1 DEF IInv, TypeThread
<1>7. SlotInv'
  <2>1. First(t, {"cancel"}) /\ ~First(t, {"join"})
    BY <1>1 DEF IInv, TypeThread, At, First
  <2>2. \A u \in Handling : ~First(u, {"join"})
    BY <1>1, <2>1 DEF IInv, OwnerInv, First, Holds
  <2>. QED BY <1>1, <2>2 DEF IInv, SlotInv, First
<1>8. ClaimHasPoller'
  BY <1>1 DEF IInv, ClaimHasPoller
<1>. QED BY <1>4, <1>5, <1>6, <1>7, <1>8 DEF IInv

\* From cancelling to joining.
LEMMA StopAllCancelledInv ==
  ASSUME IInv, NEW t \in Handling, StopAllCancelled(t)
  PROVE  IInv'
<1>1. /\ At(t, "cancel") /\ Then(t, <<"join">>) /\ ub = "none"
      /\ idx' = 1
      /\ UNCHANGED <<hotplug, lost, missed, loaded, next, freed, polling, alarm, plugged, seen,
                     attached, current, isOpen, claim, devices, slots, ppc, ready, triggered,
                     cancelled, owner, tpc, tdev, events, session, used, alone, ub>>
  BY DEF StopAllCancelled, At, usbVars, backendVars, listVars, slotVars, trigVars, envVars
<1>2. TypeUsb' /\ TypePoll' /\ ClaimHasPoller'
  BY <1>1, UsbFrameInv, PollFrameInv, ClaimFrameInv DEF IInv
<1>3. /\ todo' \in [Handling -> Seq(Call)]
      /\ \A u \in Handling : u # t => todo'[u] = todo[u]
      /\ Positions(todo'[t]) /\ Holds(todo'[t])
      /\ Bare(todo'[t]) = Bare(todo[t])
      /\ Loads(todo[t]) => Loads(todo'[t])
      /\ Keeps(todo[t], todo'[t])
      /\ todo[t] # <<>> /\ todo[t][1] = "cancel"
      /\ todo'[t] # <<>> /\ todo'[t][1] = "join"
      /\ Follows(todo[t], hotplug) => Follows(todo'[t], hotplug)
  BY <1>1, ThenSwaps DEF IInv
<1>4. TypeThread'
  BY <1>1, <1>3, BoundAssumption DEF IInv, TypeThread, Thread
<1>0. Holds(todo[t]) /\ owner = t
  BY <1>1, <1>3 DEF IInv, OwnerInv, Holds
<1>5. OwnerInv'
  BY <1>0, <1>1, <1>3 DEF IInv, OwnerInv
<1>6. SlotInv'
  <2>1. \A u \in Handling : u # t => ~First(u, {"cancel", "join", "create"})
    BY <1>0, <1>1 DEF IInv, OwnerInv, First, Holds
  <2>2. polling
    BY <1>1, <1>3 DEF IInv, SlotInv, First
  <2>3. \A j \in 1..Len(slots) : ~(j < 1)
    OBVIOUS
  <2>. QED BY <1>1, <1>3, <2>1, <2>2, <2>3 DEF IInv, SlotInv, First
<1>7. LoadInv'
  BY <1>1, <1>3, SwapLoad
<1>8. BusInv'
  BY <1>1, <1>3, TodoBus
<1>9. AloneInv'
  BY <1>1, <1>3, HeadAlone
<1>10. AloneIsSafe'
  BY <1>1, SafeInv
<1>. QED BY <1>2, <1>4, <1>5, <1>6, <1>7, <1>8, <1>9, <1>10 DEF IInv

\* A stop joins the next poller and closes its scanner.
LEMMA StopJoinInv ==
  ASSUME IInv, NEW t \in Handling, StopJoin(t)
  PROVE  IInv'
<1>2. /\ At(t, "join") /\ ub = "none" /\ idx <= Len(slots) /\ idx \in 1..Len(slots)
      /\ Len(slots) \in Nat /\ Len(slots) <= MaxScanners
      /\ slots \in [1..Len(slots) -> Scanner] /\ MaxScanners \in Nat
  BY BoundAssumption DEF IInv, TypePoll, TypeThread, StopJoin, At
<1>0. PICK x \in Scanner : x = slots[idx]
  BY <1>2
<1>1. /\ At(t, "join") /\ ub = "none"
      /\ Joined(x) /\ Close(x) /\ idx' = idx + 1
      /\ UNCHANGED <<hotplug, lost, missed, loaded, next, freed, polling, alarm, plugged, seen,
                     attached, current, devices, slots, owner, todo, tpc, tdev, events, session,
                     used, alone, ub>>
  BY <1>0 DEF StopJoin, At, usbVars, backendVars, listVars, trigVars, envVars
<1>3. /\ ppc' = [ppc EXCEPT ![x] = "none"] /\ ready' = ready \ {x}
      /\ triggered' = triggered \ {x} /\ cancelled' = cancelled \ {x}
      /\ claim' = IF Closes(x) THEN [claim EXCEPT ![x] = "free"] ELSE claim
      /\ isOpen' = IF Closes(x) THEN isOpen \ {x} ELSE isOpen
  BY <1>1 DEF Joined, Close
<1>4. /\ \A s \in Scanner : s # x => ppc'[s] = ppc[s]
      /\ ppc'[x] = "none"
      /\ ppc' \in [Scanner -> {"none", "opening", "polling", "script", "settling", "gone"}]
  BY <1>2, <1>3 DEF IInv, TypePoll
<1>5. /\ claim' \in [Scanner -> {"free", "scanbd", "other"}]
      /\ \A s \in Scanner : s # x => claim'[s] = claim[s]
      /\ claim[x] = "free" => claim'[x] = "free"
      /\ claim'[x] # "scanbd"
      /\ \A s \in isOpen : s # x => s \in isOpen'
      /\ isOpen' \subseteq isOpen
  <2>1. claim[x] = "scanbd" => Closes(x)
    BY <1>2 DEF IInv, ClaimHasPoller, Closes
  <2>2. CASE Closes(x)
    BY <1>2, <1>3, <2>2 DEF IInv, TypeUsb
  <2>3. CASE ~Closes(x)
    BY <1>2, <1>3, <2>1, <2>3 DEF IInv, TypeUsb
  <2>. QED BY <2>2, <2>3
<1>6. TypeUsb'
  BY <1>1, <1>5 DEF IInv, TypeUsb
<1>7. TypePoll'
  BY <1>1, <1>3, <1>4 DEF IInv, TypePoll
<1>8. TypeThread'
  <2>1. idx' \in 1..(MaxScanners + 1)
    BY <1>1, <1>2
  <2>. QED BY <1>1, <2>1 DEF IInv, TypeThread
<1>9. BusInv' /\ LoadInv' /\ OwnerInv' /\ AloneInv' /\ AloneIsSafe'
  BY <1>1, BusFrameInv, LoadFrameInv, OwnerFrameInv, AloneFrameInv, SafeInv DEF IInv
<1>10. SlotInv'
  <2>1. Clean(x)'
    BY <1>3, <1>4 DEF Clean
  <2>2. \A s \in Scanner : Clean(s) => Clean(s)'
    <3>1. \A s \in Scanner : s # x => (Clean(s) => Clean(s)')
      BY <1>3, <1>4 DEF Clean
    <3>. QED BY <2>1, <3>1
  <2>3. todo[t] # <<>> /\ todo[t][1] = "join"
    BY <1>1 DEF IInv, TypeThread, At
  <2>4. ASSUME NEW j \in 1..Len(slots), j < idx' PROVE Clean(slots[j])'
    <3>1. j < idx \/ j = idx
      BY <1>1, <1>2, <2>4
    <3>2. CASE j < idx
      <4>1. Clean(slots[j]) /\ slots[j] \in Scanner
        BY <1>1, <1>2, <2>3, <3>2 DEF IInv, SlotInv, First
      <4>. QED BY <1>1, <2>2, <4>1
    <3>3. CASE j = idx
      <4>1. slots'[j] = x
        BY <1>0, <1>1, <3>3
      <4>. QED BY <2>1, <4>1 DEF Clean
    <3>. QED BY <3>1, <3>2, <3>3
  <2>. QED BY <1>1, <2>4 DEF IInv, SlotInv, First
<1>11. ClaimHasPoller'
  BY <1>1, <1>3, <1>4, <1>5 DEF IInv, ClaimHasPoller
<1>. QED BY <1>6, <1>7, <1>8, <1>9, <1>10, <1>11 DEF IInv

\* An array without slots.
LEMMA NoSlots == Elements(<<>>) = {}
BY DEF Elements

\* Nothing of a poller is left when no slot is left, or when all are joined.
LEMMA Unpolled ==
  ASSUME IInv, Elements(slots) = {}
  PROVE  /\ \A s \in Scanner : ppc[s] = "none"
         /\ ready = {} /\ triggered = {} /\ cancelled = {}
BY DEF IInv, TypePoll

\* A stop that is at the end of its array has joined every poller there is.
LEMMA AllJoined ==
  ASSUME IInv, NEW t \in Handling, At(t, "join"), idx > Len(slots)
  PROVE  /\ \A s \in Scanner : ppc[s] = "none"
         /\ ready = {} /\ triggered = {} /\ cancelled = {}
<1>1. todo[t] # <<>> /\ todo[t][1] = "join" /\ ub = "none"
  BY DEF IInv, TypeThread, At
<1>2. Len(slots) \in Nat /\ DOMAIN slots = 1..Len(slots) /\ idx \in Int
  BY DEF IInv, TypePoll, TypeThread
<1>3. \A j \in 1..Len(slots) : j < idx
  BY <1>2
<1>4. \A j \in 1..Len(slots) : Clean(slots[j])
  BY <1>1, <1>3 DEF IInv, SlotInv, First
<1>5. \A s \in Elements(slots) : Clean(s)
  BY <1>2, <1>4 DEF Elements
<1>6. ready \subseteq Elements(slots) /\ triggered \subseteq Elements(slots)
      /\ cancelled \subseteq Elements(slots)
      /\ \A s \in Scanner : ppc[s] # "none" => s \in Elements(slots)
  BY DEF IInv, TypePoll
<1>. QED BY <1>5, <1>6 DEF Clean

\* A stop frees the array and gives scbtn_mutex back.
LEMMA StopFreeInv ==
  ASSUME IInv, NEW t \in Handling, StopFree(t)
  PROVE  IInv'
<1>1. /\ At(t, "join") /\ ub = "none" /\ idx > Len(slots) /\ Then(t, <<>>)
      /\ ~polling' /\ polling' \in BOOLEAN /\ slots' = <<>> /\ idx' = 1
      /\ Unlock(t) /\ "join" \in Call
      /\ UNCHANGED <<hotplug, lost, missed, loaded, next, freed, alarm, plugged, seen, attached,
                     current, isOpen, claim, devices, ppc, ready, triggered, cancelled, tpc, tdev,
                     events, session, used, alone, ub>>
  BY CallSet DEF StopFree, At, usbVars, backendVars, listVars, slotVars, trigVars, envVars
<1>2. /\ \A s \in Scanner : ppc[s] = "none"
      /\ ready = {} /\ triggered = {} /\ cancelled = {}
  BY <1>1, AllJoined
<1>3. /\ todo' \in [Handling -> Seq(Call)]
      /\ \A u \in Handling : u # t => todo'[u] = todo[u]
      /\ todo[t][1] = "join" /\ todo[t] # <<>> /\ Positions(todo'[t])
      /\ Holds(todo'[t]) <=> Len(todo[t]) > 1 /\ todo[t][2] = "create"
      /\ todo'[t] # <<>> => todo'[t][1] \notin {"cancel", "join"}
  BY <1>1, ThenPops DEF IInv, At
<1>4. TypeUsb' /\ ClaimHasPoller'
  BY <1>1, ClaimFrameInv DEF IInv, TypeUsb
<1>5. TypePoll'
  <2>1. Len(<<>>) = 0 /\ <<>> \in Seq(Scanner) /\ 0 <= MaxScanners
    BY BoundAssumption
  <2>. QED BY <1>1, <1>2, <2>1 DEF IInv, TypePoll
<1>6. TypeThread'
  <2>1. owner' \in Thread \cup {"none"}
    BY <1>1 DEF Unlock, Thread
  <2>. QED BY <1>1, <1>3, <2>1, BoundAssumption DEF IInv, TypeThread
<1>7. Holds(todo[t]) /\ owner = t
  BY <1>1, <1>3 DEF IInv, OwnerInv, Holds
<1>8. OwnerInv'
  <2>1. tpc # "slot" /\ t # "trigger" /\ t # "none" /\ \A u \in Handling : u # "none"
    BY <1>1, <1>7 DEF IInv, OwnerInv, Handling
  <2>2. owner' = IF Holds(todo'[t]) THEN t ELSE "none"
    BY <1>1, <1>3 DEF Unlock
  <2>3. \A u \in Handling : u # t => ~Holds(todo[u])
    BY <1>1, <1>7 DEF IInv, OwnerInv
  <2>. QED BY <1>1, <1>3, <2>1, <2>2, <2>3 DEF IInv, OwnerInv
<1>9. SlotInv'
  <2>1. \A u \in Handling : ~First(u, {"cancel", "join"})'
    BY <1>1, <1>3, <1>7 DEF IInv, OwnerInv, First, Holds
  <2>. QED BY <1>1, <2>1 DEF SlotInv, First
<1>10. LoadInv'
  BY <1>1, PopLoad DEF IInv, LoadInv
<1>11. BusInv'
  BY <1>1, PopBus
<1>12. AloneInv'
  BY <1>1, PopAlone
<1>13. AloneIsSafe'
  BY <1>1, SafeInv
<1>. QED BY <1>4, <1>5, <1>6, <1>8, <1>9, <1>10, <1>11, <1>12, <1>13 DEF IInv

-----------------------------------------------------------------------------
(* The backends, the list, and start_scbtn_threads                         *)

\* The backends are unloaded; a scanbtnd_init is due now.
LEMMA ShutdownInv ==
  ASSUME IInv, NEW t \in Handling, Shutdown(t)
  PROVE  IInv'
<1>1. At(t, "shutdown") /\ ub = "none" /\ "shutdown" \in Call
  BY CallSet DEF Shutdown, At
<1>2. First(t, {"shutdown"}) /\ todo[t] # <<>> /\ todo[t][1] = "shutdown"
  BY <1>1 DEF IInv, TypeThread, At, First
<1>3. alone => ~polling /\ loaded /\ slots = <<>>
  <2>1. alone => \A u \in Handling : First(u, {"init"}) => u = t
    BY <1>1, <1>2 DEF IInv, AloneInv, First
  <2>. QED BY <1>1, <1>2, <2>1 DEF IInv, AloneInv, SlotInv, First
<1>4. CASE ~loaded /\ Undefined("unloaded")
  BY <1>3, <1>4, UndefinedInv DEF AloneIsSafe, Undefined, envVars
<1>5. CASE loaded /\ slots # <<>> /\ Undefined("torn")
  BY <1>3, <1>5, UndefinedInv DEF AloneIsSafe, Undefined, envVars
<1>6. CASE /\ loaded /\ slots = <<>>
           /\ loaded' = FALSE /\ attached' = {} /\ current' = {} /\ isOpen' = {}
           /\ freed' = (devices # <<>>)
           /\ Then(t, <<>>)
           /\ UNCHANGED <<usbVars, next, claim, devices, polling, slots, ppc, slotVars, stopVars,
                          trigVars, alarm, envVars, ub>>
  <2>1. /\ loaded /\ slots = <<>> /\ ~loaded' /\ attached' = {} /\ current' = {} /\ isOpen' = {}
        /\ (freed' <=> devices # <<>>) /\ Then(t, <<>>) /\ freed' \in BOOLEAN /\ loaded' \in BOOLEAN
        /\ UNCHANGED <<hotplug, lost, missed, next, polling, alarm, plugged, seen, claim, devices,
                       slots, ppc, ready, triggered, cancelled, owner, idx, tpc, tdev, events,
                       session, used, alone, ub>>
    BY <1>6 DEF usbVars, slotVars, stopVars, trigVars, envVars
  <2>2. TypeUsb' /\ TypePoll'
    BY <2>1, PollFrameInv DEF IInv, TypeUsb
  <2>3. /\ todo' \in [Handling -> Seq(Call)]
        /\ \A u \in Handling : u # t => todo'[u] = todo[u]
        /\ \A i \in Bare(todo'[t]) : i + 1 \in Bare(todo[t]) \/ i = 1
        /\ Loads(todo[t]) => Loads(todo'[t])
        /\ Len(todo[t]) \in Nat \ {0} /\ Len(todo'[t]) = Len(todo[t]) - 1
        /\ todo'[t] # <<>> => todo'[t][1] = todo[t][2]
    BY <1>1, <2>1, ThenPops DEF IInv
  <2>4. TypeThread'
    BY <2>1, <2>3 DEF IInv, TypeThread
  <2>5. OwnerInv'
    BY <1>1, <2>1, PopOwner
  <2>6. SlotInv'
    BY <1>1, <2>1, PopSlot
  <2>7. LoadInv'
    <3>1. \A u \in Handling : Bare(todo[u]) = {}
      BY <1>1, <2>1 DEF IInv, LoadInv
    <3>2. \A u \in Handling : \A i \in Bare(todo'[u]) : u = t /\ i = 1
      BY <2>3, <3>1
    <3>3. \A u \in Handling : Loads(todo'[u])
      BY <1>1, <2>3 DEF IInv, LoadInv
    <3>. QED BY <2>1, <3>2, <3>3 DEF LoadInv
  <2>8. BusInv'
    <3>1. Loads(todo[t])
      BY <1>1 DEF IInv, LoadInv
    <3>2. 1 \in 1..Len(todo[t]) /\ 1 + 1 = 2
      BY <2>3
    <3>3. 1 < Len(todo[t]) /\ todo[t][2] = "init"
      BY <1>2, <3>1, <3>2 DEF Loads
    <3>4. todo'[t] # <<>>
      <4>1. Len(todo'[t]) # 0 /\ Len(<<>>) = 0
        BY <2>3, <3>3
      <4>. QED BY <4>1
    <3>5. 1 \in DOMAIN todo'[t] /\ todo'[t][1] = "init"
      BY <2>3, <3>3, <3>4
    <3>6. Loading'
      BY <3>5 DEF Loading, Elements
    <3>7. next = 1 /\ (Stale \cup seen \cup Stale')  \subseteq Scanner
      BY <2>1 DEF IInv, BusInv, TypeUsb, Stale
    <3>8. \A s \in Scanner : Driver[s] >= 1
      BY BackendAssumption
    <3>9. \A s \in Scanner : Awaited(s)'
      BY <2>1, <3>6, <3>7, <3>8 DEF Awaited
    <3>. QED BY <2>1, <3>7, <3>9 DEF BusInv
  <2>9. ClaimHasPoller'
    <3>1. \A s \in Scanner : ppc[s] = "none"
      BY <2>1, NoSlots, Unpolled
    <3>2. \A s \in Scanner : claim[s] # "scanbd"
      BY <3>1 DEF IInv, ClaimHasPoller
    <3>. QED BY <2>1, <3>2 DEF ClaimHasPoller
  <2>10. AloneInv'
    BY <1>1, <2>1, PopAlone
  <2>11. AloneIsSafe'
    BY <1>1, <2>1, SafeInv
  <2>. QED BY <2>2, <2>4, <2>5, <2>6, <2>7, <2>8, <2>9, <2>10, <2>11 DEF IInv
<1>. QED BY <1>4, <1>5, <1>6 DEF Shutdown

\* The next backend looks at the bus, and tells the others nothing.
LEMMA InitBackendsInv ==
  ASSUME IInv, NEW t \in Handling, InitBackends(t)
  PROVE  IInv'
<1>. DEFINE found == {s \in plugged : Driver[s] = next}
<1>1. /\ At(t, "init") /\ ub = "none" /\ "init" \in Call
      /\ attached' = attached \cup found /\ current' = current \cup found
      /\ seen' = plugged /\ ~lost' /\ lost' \in BOOLEAN
      /\ missed' = {s \in Stale : Driver[s] < next}
      /\ UNCHANGED <<hotplug, polling, alarm, plugged, claim, isOpen, devices, freed, slots, ppc,
                     ready, triggered, cancelled, owner, idx, tpc, tdev, events, session,
                     used, alone, ub>>
  BY CallSet DEF InitBackends, Look, At, listVars, slotVars, stopVars, trigVars, envVars
<1>2. next \in 1..MaxBackends /\ MaxBackends \in Nat \ {0}
  BY BackendAssumption DEF IInv, TypeUsb
<1>3. \/ next < MaxBackends /\ next' = next + 1 /\ UNCHANGED <<loaded, todo>>
      \/ next = MaxBackends /\ next' = 1 /\ loaded' = TRUE /\ Then(t, <<>>)
  <2>1. IF next < MaxBackends THEN next' = next + 1 /\ UNCHANGED <<loaded, todo>>
                              ELSE next' = 1 /\ loaded' = TRUE /\ Then(t, <<>>)
    BY DEF InitBackends
  <2>2. next < MaxBackends \/ (~(next < MaxBackends) /\ next = MaxBackends)
    BY <1>2
  <2>. QED BY <2>1, <2>2
<1>4. todo[t] \in Seq(Call) /\ todo[t] # <<>> /\ todo[t][1] = "init" /\ 1 \in 1..Len(todo[t])
  BY <1>1 DEF IInv, TypeThread, At
<1>5. 1 \in Bare(todo[t]) /\ Loading
  BY <1>4 DEF Bare, Loading, Elements
<1>6. ~loaded /\ slots = <<>>
  BY <1>1, <1>5 DEF IInv, LoadInv
<1>7. TypeUsb' /\ TypePoll'
  <2>1. next' \in 1..MaxBackends /\ loaded' \in BOOLEAN
    <3>1. loaded \in BOOLEAN
      BY DEF IInv, TypeUsb
    <3>2. CASE next < MaxBackends /\ next' = next + 1 /\ UNCHANGED loaded
      BY <1>2, <3>1, <3>2
    <3>3. CASE next' = 1 /\ loaded' = TRUE
      BY <1>2, <3>3
    <3>. QED BY <1>3, <3>2, <3>3
  <2>2. missed' \subseteq Scanner
    BY <1>1 DEF IInv, TypeUsb, Stale
  <2>3. attached' \subseteq Scanner /\ current' \subseteq attached' \cap plugged
        /\ isOpen \subseteq attached'
    BY <1>1 DEF IInv, TypeUsb
  <2>4. TypeUsb'
    BY <1>1, <2>1, <2>2, <2>3 DEF IInv, TypeUsb
  <2>. QED BY <1>1, <2>4, PollFrameInv DEF IInv
<1>8. ClaimHasPoller'
  <2>1. \A s \in Scanner : ppc[s] = "none"
    BY <1>6, NoSlots, Unpolled
  <2>2. \A s \in Scanner : claim[s] # "scanbd"
    BY <2>1 DEF IInv, ClaimHasPoller
  <2>. QED BY <1>1, <2>2 DEF ClaimHasPoller
<1>9. BusInv'
  <2>1. /\ current' \subseteq seen'
        /\ loaded' => next' = 1
    BY <1>1, <1>3, <1>6 DEF IInv, TypeUsb
  <2>2. \A s \in attached : Driver[s] < next /\ Driver[s] \in Nat
    BY <1>6, BackendAssumption DEF IInv, TypeUsb, BusInv
  <2>3. ~loaded' => \A s \in attached' : Driver[s] < next'
    BY <1>1, <1>2, <1>3, <2>2
  <2>4. ASSUME NEW s \in Stale'
        PROVE  s \in Stale /\ Driver[s] \in 1..MaxBackends /\ Driver[s] # next
    BY <1>1, <2>2, BackendAssumption DEF IInv, TypeUsb, Stale
  <2>5. ASSUME NEW s \in Stale', Driver[s] > next
        PROVE  Awaited(s)'
    <3>1. next # MaxBackends
      BY <1>2, <2>4, <2>5
    <3>2. next' = next + 1 /\ UNCHANGED todo
      BY <1>3, <3>1
    <3>3. Driver[s] >= next'
      BY <1>2, <2>4, <2>5, <3>2
    <3>. QED BY <1>5, <3>2, <3>3 DEF Awaited, Loading
  <2>6. Unloading => Unloading'
    <3>1. CASE UNCHANGED todo
      BY <3>1 DEF Unloading
    <3>2. CASE Then(t, <<>>)
      <4>1. /\ \A u \in Handling : u # t => todo'[u] = todo[u]
            /\ \A e \in Elements(todo[t]) : e # "init" => e \in Elements(todo'[t])
        BY <1>1, <3>2, ThenPops DEF IInv
      <4>. QED BY <4>1 DEF Unloading
    <3>. QED BY <1>3, <3>1, <3>2
  <2>7. ASSUME hotplug, NEW s \in Stale', Driver[s] < next
        PROVE  events # <<>> \/ Awaited(s)'
    <3>1. events # <<>> \/ Unloading
      BY <1>2, <2>4, <2>7 DEF IInv, BusInv, Awaited
    <3>. QED BY <2>6, <3>1 DEF Awaited
  <2>8. \A s \in Stale' : Driver[s] < next => s \in missed'
    BY <1>1, <2>4
  <2>9. (seen' \cup attached') \ current' \subseteq Stale'
    BY <1>1 DEF Stale
  <2>10. \A s \in Stale' : Driver[s] < next \/ Driver[s] > next
    BY <1>2, <2>4
  <2>. QED BY <1>1, <2>1, <2>3, <2>5, <2>7, <2>8, <2>9, <2>10 DEF BusInv
<1>10. AloneIsSafe'
  BY <1>1, SafeInv
<1>11. CASE next < MaxBackends /\ UNCHANGED <<loaded, todo>>
  <2>1. TypeThread'
    BY <1>1, <1>11 DEF IInv, TypeThread
  <2>2. \A s \in Scanner : Clean(s) => Clean(s)'
    BY <1>1 DEF Clean
  <2>3. OwnerInv' /\ SlotInv' /\ LoadInv' /\ AloneInv'
    BY <1>1, <1>11, <2>2, OwnerFrameInv, SlotFrameInv, LoadFrameInv, AloneFrameInv DEF IInv
  <2>. QED BY <1>7, <1>8, <1>9, <1>10, <2>1, <2>3 DEF IInv
<1>12. CASE loaded' = TRUE /\ Then(t, <<>>)
  <2>1. /\ todo' \in [Handling -> Seq(Call)]
        /\ \A u \in Handling : u # t => todo'[u] = todo[u]
        /\ \A i \in Bare(todo'[t]) : i + 1 \in Bare(todo[t])
        /\ Loads(todo[t]) => Loads(todo'[t])
    BY <1>1, <1>12, ThenPops DEF IInv
  <2>2. TypeThread'
    BY <1>1, <2>1 DEF IInv, TypeThread
  <2>3. OwnerInv'
    BY <1>1, <1>12, PopOwner
  <2>4. SlotInv'
    BY <1>1, <1>12, PopSlot
  <2>5. LoadInv'
    <3>1. \A u \in Handling : Loads(todo'[u])
      BY <2>1 DEF IInv, LoadInv
    <3>2. ASSUME NEW u \in Handling, NEW i \in Bare(todo'[u]) PROVE FALSE
      <4>1. i \in Nat /\ i # 0
        BY DEF Bare
      <4>2. CASE u = t
        <5>1. i + 1 \in Bare(todo[t])
          BY <2>1, <4>2
        <5>2. i + 1 = 1
          BY <1>1, <1>5, <5>1 DEF IInv, LoadInv
        <5>. QED BY <4>1, <5>2
      <4>3. CASE u # t
        <5>1. i \in Bare(todo[u])
          BY <2>1, <4>3
        <5>. QED BY <1>1, <1>5, <4>3, <5>1 DEF IInv, LoadInv
      <4>. QED BY <4>2, <4>3
    <3>. QED BY <1>12, <3>1, <3>2 DEF LoadInv
  <2>6. AloneInv'
    BY <1>1, <1>12, PopAlone
  <2>. QED BY <1>7, <1>8, <1>9, <1>10, <2>2, <2>3, <2>4, <2>5, <2>6 DEF IInv
<1>. QED BY <1>3, <1>11, <1>12

\* The list of scanners is made new.
LEMMA GetDevicesInv ==
  ASSUME IInv, NEW t \in Handling, GetDevices(t)
  PROVE  IInv'
<1>1. At(t, "devices") /\ ub = "none" /\ "devices" \in Call
  BY CallSet DEF GetDevices, At
<1>2. First(t, {"devices"}) /\ todo[t] # <<>> /\ todo[t][1] = "devices"
  BY <1>1 DEF IInv, TypeThread, At, First
<1>3. alone => ~polling /\ loaded
  <2>1. alone => \A u \in Handling : First(u, {"init"}) => u = t
    BY <1>1, <1>2 DEF IInv, AloneInv, First
  <2>. QED BY <1>1, <1>2, <2>1 DEF IInv, AloneInv, First
<1>4. CASE ~loaded /\ Undefined("unloaded")
  BY <1>3, <1>4, UndefinedInv DEF AloneIsSafe, Undefined, envVars
<1>5. CASE loaded /\ polling /\ Len(slots) # Cardinality(attached) /\ Undefined("overrun")
  BY <1>3, <1>5, UndefinedInv DEF AloneIsSafe, Undefined, envVars
<1>6. CASE /\ loaded /\ devices' = Listing(attached) /\ freed' = FALSE
           /\ Then(t, <<>>)
           /\ UNCHANGED <<usbVars, claim, backendVars, isOpen, polling, slots, ppc, slotVars,
                          stopVars, trigVars, alarm, envVars, ub>>
  <2>1. /\ loaded /\ devices' = Listing(attached) /\ ~freed' /\ freed' \in BOOLEAN /\ Then(t, <<>>)
        /\ UNCHANGED <<hotplug, lost, missed, loaded, next, polling, alarm, plugged, seen,
                       attached, current, isOpen, claim, slots, ppc, ready, triggered, cancelled,
                       owner, idx, tpc, tdev, events, session, used, alone, ub>>
    BY <1>6 DEF usbVars, backendVars, slotVars, stopVars, trigVars, envVars
  <2>2. TypeUsb' /\ ClaimHasPoller'
    BY <2>1, ClaimFrameInv DEF IInv, TypeUsb
  <2>3. TypePoll'
    <3>1. devices' \in Seq(Scanner) /\ Len(devices') <= MaxScanners
      BY <2>1, ListingIsList DEF IInv, TypeUsb
    <3>. QED BY <2>1, <3>1 DEF IInv, TypePoll
  <2>4. todo' \in [Handling -> Seq(Call)]
    BY <1>1, <2>1, ThenPops DEF IInv
  <2>5. TypeThread'
    BY <2>1, <2>4 DEF IInv, TypeThread
  <2>6. OwnerInv'
    BY <1>1, <2>1, PopOwner
  <2>7. SlotInv'
    BY <1>1, <2>1, PopSlot
  <2>8. LoadInv'
    BY <1>1, <2>1, PopLoad
  <2>9. BusInv'
    BY <1>1, <2>1, PopBus
  <2>10. AloneInv'
    BY <1>1, <2>1, PopAlone
  <2>11. AloneIsSafe'
    BY <1>1, <2>1, SafeInv
  <2>. QED BY <2>2, <2>3, <2>5, <2>6, <2>7, <2>8, <2>9, <2>10, <2>11 DEF IInv
<1>. QED BY <1>4, <1>5, <1>6 DEF GetDevices

\* A start finds pollers, and stops them first.
LEMMA StartAgainInv ==
  ASSUME IInv, NEW t \in Handling, StartAgain(t)
  PROVE  IInv'
<1>1. /\ At(t, "start") /\ polling /\ CanLock(t) /\ Then(t, <<"stop", "create">>) /\ ub = "none"
      /\ owner' = t
      /\ UNCHANGED <<hotplug, lost, missed, loaded, next, freed, polling, alarm, plugged, seen,
                     attached, current, isOpen, claim, devices, slots, ppc, ready, triggered,
                     cancelled, idx, tpc, tdev, events, session, used, alone, ub>>
  BY DEF StartAgain, At, usbVars, backendVars, listVars, slotVars, trigVars, envVars
<1>2. TypeUsb' /\ TypePoll' /\ ClaimHasPoller'
  BY <1>1, UsbFrameInv, PollFrameInv, ClaimFrameInv DEF IInv
<1>3. /\ todo' \in [Handling -> Seq(Call)]
      /\ \A u \in Handling : u # t => todo'[u] = todo[u]
      /\ Positions(todo'[t]) /\ Holds(todo'[t])
      /\ \A i \in Bare(todo'[t]) : i - 1 \in Bare(todo[t])
      /\ Loads(todo[t]) => Loads(todo'[t])
      /\ Keeps(todo[t], todo'[t])
      /\ todo'[t] # <<>> /\ todo'[t][1] = "stop"
      /\ Follows(todo[t], hotplug) => Follows(todo'[t], hotplug)
  BY <1>1, ThenDoubles DEF IInv
<1>4. TypeThread'
  BY <1>1, <1>3 DEF IInv, TypeThread, Thread
<1>5. OwnerInv'
  <2>1. \A u \in Handling : u # t => ~Holds(todo[u])
    BY <1>1 DEF IInv, OwnerInv, CanLock, Handling
  <2>2. tpc # "slot" /\ t # "trigger"
    BY <1>1 DEF IInv, OwnerInv, CanLock, Handling
  <2>. QED BY <1>1, <1>3, <2>1, <2>2 DEF IInv, OwnerInv
<1>6. SlotInv'
  <2>1. \A u \in Handling : u # t => ~First(u, {"cancel", "join", "create"})
    BY <1>1 DEF IInv, OwnerInv, CanLock, Handling, First, Holds
  <2>. QED BY <1>1, <1>3, <2>1 DEF IInv, SlotInv, First
<1>7. LoadInv'
  <2>1. ~loaded => slots' = <<>> /\ (freed' \/ devices' = <<>>)
    BY <1>1 DEF IInv, LoadInv
  <2>2. 1 \in Int /\ UNCHANGED loaded
    BY <1>1
  <2>. QED BY <1>1, <1>3, <2>1, <2>2, TodoLoad
<1>8. BusInv'
  BY <1>1, <1>3, TodoBus
<1>9. AloneInv'
  BY <1>1, <1>3, HeadAlone
<1>10. AloneIsSafe'
  BY <1>1, SafeInv
<1>. QED BY <1>2, <1>4, <1>5, <1>6, <1>7, <1>8, <1>9, <1>10 DEF IInv

\* A start of the pollers; there are none before it.
LEMMA StartInv ==
  ASSUME IInv, NEW t \in Handling, Start(t)
  PROVE  IInv'
<1>1. PICK c \in {"start", "create"} : At(t, c) /\ (c = "start" => ~polling /\ CanLock(t))
  BY DEF Start
<1>2. c \in Call /\ ub = "none"
  BY <1>1, CallSet DEF At
<1>3. todo[t] # <<>> /\ todo[t][1] = c /\ First(t, {c})
  BY <1>1, <1>2 DEF IInv, TypeThread, At, First
<1>4. ~polling /\ slots = <<>>
  BY <1>1, <1>2, <1>3 DEF IInv, SlotInv, First
<1>5. /\ \A s \in Scanner : ppc[s] = "none"
      /\ ready = {} /\ triggered = {} /\ cancelled = {}
  BY <1>4, NoSlots, Unpolled
<1>6. CASE freed /\ Undefined("freed")
  <2>1. alone => hotplug
    <3>. SUFFICES ASSUME alone PROVE hotplug
      OBVIOUS
    <3>1. \A u \in Handling : First(u, {"init", "devices"}) => u = t
      BY <1>2, <1>3 DEF IInv, AloneInv, First
    <3>2. ~First(t, {"init", "devices"})
      BY <1>3 DEF First
    <3>. QED BY <1>2, <1>6, <3>1, <3>2 DEF IInv, AloneInv
  <2>2. UNCHANGED <<alone, freed, hotplug>> /\ ub' = "freed"
    BY <1>6 DEF Undefined, envVars, listVars
  <2>3. AloneIsSafe'
    BY <1>6, <2>1, <2>2 DEF AloneIsSafe
  <2>. QED BY <1>6, <2>3, UndefinedInv
<1>7. CASE /\ ~freed
           /\ polling' = TRUE /\ slots' = devices
           /\ ppc' = [s \in Scanner |-> IF s \in Elements(devices) THEN "opening" ELSE ppc[s]]
           /\ owner' = "none"
           /\ Then(t, <<>>)
           /\ UNCHANGED <<usbVars, claim, backendVars, isOpen, listVars, slotVars, idx, trigVars,
                          alarm, envVars, ub>>
  <2>1. /\ ~freed /\ polling' /\ polling' \in BOOLEAN /\ slots' = devices /\ owner' = "none"
        /\ ppc' = [s \in Scanner |-> IF s \in Elements(devices) THEN "opening" ELSE ppc[s]]
        /\ Then(t, <<>>)
        /\ UNCHANGED <<hotplug, lost, missed, loaded, next, freed, alarm, plugged, seen, attached,
                       current, isOpen, claim, devices, ready, triggered, cancelled, idx, tpc,
                       tdev, events, session, used, alone, ub>>
    BY <1>7 DEF usbVars, backendVars, listVars, slotVars, trigVars, envVars
  <2>2. /\ todo' \in [Handling -> Seq(Call)]
        /\ \A u \in Handling : u # t => todo'[u] = todo[u]
        /\ Positions(todo[t]) /\ Positions(todo'[t])
        /\ Holds(todo'[t]) <=> Len(todo[t]) > 1 /\ todo[t][2] = "create"
        /\ Len(todo[t]) \in Nat
    BY <1>1, <2>1, ThenPops DEF IInv
  <2>3. ~Holds(todo'[t])
    <3>. SUFFICES ASSUME Len(todo[t]) > 1, todo[t][2] = "create" PROVE FALSE
      BY <2>2
    <3>1. 2 \in 1..Len(todo[t])
      BY <2>2
    <3>. QED BY <1>3, <2>2, <3>1 DEF Positions
  <2>4. \A u \in Handling : u # t => ~Holds(todo[u])
    <3>1. CASE c = "start"
      BY <1>1, <1>2, <3>1 DEF IInv, OwnerInv, CanLock, Handling
    <3>2. CASE c = "create"
      <4>1. Holds(todo[t])
        BY <1>3, <3>2 DEF Holds
      <4>. QED BY <1>2, <4>1 DEF IInv, OwnerInv
    <3>. QED BY <3>1, <3>2
  <2>5. tpc # "slot"
    <3>1. CASE c = "start"
      BY <1>1, <1>2, <3>1 DEF IInv, OwnerInv, CanLock, Handling
    <3>2. CASE c = "create"
      <4>1. Holds(todo[t])
        BY <1>3, <3>2 DEF Holds
      <4>. QED BY <1>2, <4>1 DEF IInv, OwnerInv, Handling
    <3>. QED BY <3>1, <3>2
  <2>6. \A u \in Handling : ~Holds(todo'[u])
    BY <2>2, <2>3, <2>4
  <2>7. TypeUsb'
    BY <2>1 DEF IInv, TypeUsb
  <2>8. TypePoll'
    BY <1>5, <2>1 DEF IInv, TypePoll
  <2>9. TypeThread'
    BY <2>1, <2>2 DEF IInv, TypeThread
  <2>10. OwnerInv'
    <3>1. \A u \in Handling : u # "none" /\ Positions(todo'[u])
      BY <1>2, <2>2 DEF IInv, OwnerInv, Handling
    <3>. QED BY <2>1, <2>5, <2>6, <3>1 DEF OwnerInv
  <2>11. SlotInv'
    <3>1. \A u \in Handling : ~First(u, {"cancel", "join", "create"})'
      BY <2>6 DEF First, Holds
    <3>. QED BY <2>1, <3>1 DEF SlotInv, First
  <2>12. LoadInv'
    <3>1. ~loaded => slots' = <<>> /\ (freed' \/ devices' = <<>>)
      BY <1>2, <2>1 DEF IInv, LoadInv
    <3>2. c # "shutdown" /\ UNCHANGED loaded
      BY <2>1
    <3>. QED BY <1>1, <1>2, <2>1, <3>1, <3>2, PopLoad
  <2>13. BusInv'
    BY <1>1, <1>2, <2>1, PopBus
  <2>14. ClaimHasPoller'
    <3>1. \A s \in Scanner : claim[s] # "scanbd"
      BY <1>5 DEF IInv, ClaimHasPoller
    <3>. QED BY <2>1, <3>1 DEF ClaimHasPoller
  <2>15. AloneInv'
    BY <1>1, <1>2, <2>1, PopAlone
  <2>16. AloneIsSafe'
    BY <1>2, <2>1, SafeInv
  <2>. QED BY <2>7, <2>8, <2>9, <2>10, <2>11, <2>12, <2>13, <2>14, <2>15, <2>16 DEF IInv
<1>. QED BY <1>6, <1>7 DEF Start

-----------------------------------------------------------------------------
(* scbtn_poll                                                              *)

\* After a close the scanner is not claimed by scanbd.
LEMMA ClosesType ==
  ASSUME IInv, NEW x \in Scanner, Close(x)
  PROVE  /\ claim' \in [Scanner -> {"free", "scanbd", "other"}]
         /\ \A s \in Scanner : s # x => claim'[s] = claim[s]
         /\ claim[x] = "free" => claim'[x] = "free"
         /\ claim'[x] # "scanbd"
         /\ \A s \in isOpen : s # x => s \in isOpen'
         /\ isOpen' \subseteq isOpen
<1>1. claim[x] = "scanbd" => Closes(x)
  BY DEF IInv, ClaimHasPoller, Closes
<1>2. CASE Closes(x)
  BY <1>2 DEF IInv, TypeUsb, Close
<1>3. CASE ~Closes(x)
  BY <1>1, <1>3 DEF IInv, TypeUsb, Close
<1>. QED BY <1>2, <1>3

\* A poller opens its scanner.
LEMMA PollOpensInv ==
  ASSUME IInv, NEW x \in Scanner, PollOpens(x)
  PROVE  IInv'
<1>1. /\ ub = "none" /\ ppc[x] \in {"opening", "settling"} /\ Openable(x)
      /\ claim' = [claim EXCEPT ![x] = "scanbd"]
      /\ isOpen' = isOpen \cup {x} /\ ready' = ready \cup {x}
      /\ ppc' = [ppc EXCEPT ![x] = "polling"]
      /\ UNCHANGED <<plugged, seen, lost, missed, triggered, cancelled, alarm>>
      /\ UNCHANGED <<hotplug, events, session, used, alone, loaded, next, attached, current,
                     devices, freed, polling, slots, owner, idx, todo, tpc, tdev, ub>>
  BY DEF PollOpens, PollerFrame, usbVars, backendVars, listVars, stopVars, trigVars, envVars
<1>2. x \in current /\ x \in attached /\ x \in plugged /\ x \in Elements(slots)
  BY <1>1 DEF IInv, TypeUsb, TypePoll, Openable
<1>3. TypeUsb'
  BY <1>1, <1>2 DEF IInv, TypeUsb
<1>4. TypePoll'
  BY <1>1, <1>2 DEF IInv, TypePoll
<1>5. BusInv'
  BY <1>1, BusFrameInv DEF IInv
<1>6. ClaimHasPoller'
  BY <1>1, <1>2 DEF IInv, TypeUsb, TypePoll, ClaimHasPoller
<1>7. \A s \in Scanner : Clean(s) => Clean(s)'
  BY <1>1 DEF IInv, TypePoll, Clean
<1>. QED BY <1>1, <1>3, <1>4, <1>5, <1>6, <1>7, PollerInv

\* A poller gives its scanner up and arms the alarm.
LEMMA PollGivesUpInv ==
  ASSUME IInv, NEW x \in Scanner, PollGivesUp(x)
  PROVE  IInv'
<1>1. /\ ub = "none" /\ ppc[x] \in {"opening", "settling"}
      /\ seen' = plugged /\ lost' = FALSE /\ alarm' = TRUE
      /\ ppc' = [ppc EXCEPT ![x] = "gone"]
      /\ UNCHANGED <<plugged, missed, claim, isOpen, ready, triggered, cancelled>>
      /\ UNCHANGED <<hotplug, events, session, used, alone, loaded, next, attached, current,
                     devices, freed, polling, slots, owner, idx, todo, tpc, tdev, ub>>
  BY DEF PollGivesUp, Look, PollerFrame, slotVars, backendVars, listVars, stopVars, trigVars,
         envVars
<1>2. x \in Elements(slots)
  BY <1>1 DEF IInv, TypePoll
<1>3. TypeUsb'
  BY <1>1 DEF IInv, TypeUsb
<1>4. TypePoll'
  BY <1>1, <1>2 DEF IInv, TypePoll
<1>5. BusInv'
  <2>1. Stale' = Stale /\ \A s : Awaited(s)' <=> Awaited(s)
    BY <1>1 DEF Stale, Awaited, Unloading, Loading
  <2>. QED BY <1>1, <2>1 DEF IInv, TypeUsb, BusInv
<1>6. ClaimHasPoller'
  BY <1>1 DEF IInv, TypePoll, ClaimHasPoller
<1>7. \A s \in Scanner : Clean(s) => Clean(s)'
  BY <1>1 DEF IInv, TypePoll, Clean
<1>. QED BY <1>1, <1>3, <1>4, <1>5, <1>6, <1>7, PollerInv

\* A poller has asked and is cancelled before it arms the alarm.
LEMMA PollCancelledAskingInv ==
  ASSUME IInv, NEW x \in Scanner, PollCancelledAsking(x)
  PROVE  IInv'
<1>1. /\ ub = "none" /\ x \in cancelled /\ ppc[x] = "settling"
      /\ seen' = plugged /\ lost' = FALSE /\ missed' = missed \cup Stale
      /\ ppc' = [ppc EXCEPT ![x] = "gone"]
      /\ UNCHANGED <<plugged, claim, isOpen, ready, triggered, cancelled, alarm>>
      /\ UNCHANGED <<hotplug, events, session, used, alone, loaded, next, attached, current,
                     devices, freed, polling, slots, owner, idx, todo, tpc, tdev, ub>>
  BY DEF PollCancelledAsking, Look, PollerFrame, slotVars, backendVars, listVars, stopVars,
         trigVars, envVars
<1>2. x \in Elements(slots)
  BY <1>1 DEF IInv, TypePoll
<1>3. TypeUsb'
  BY <1>1 DEF IInv, TypeUsb, Stale
<1>4. TypePoll'
  BY <1>1, <1>2 DEF IInv, TypePoll
<1>5. BusInv'
  <2>1. Stale' = Stale /\ \A s : Awaited(s)' <=> Awaited(s)
    BY <1>1 DEF Stale, Awaited, Unloading, Loading
  <2>2. (seen' \cup attached') \ current' \subseteq missed'
    BY <1>1 DEF Stale
  <2>. QED BY <1>1, <2>1, <2>2 DEF IInv, TypeUsb, BusInv
<1>6. ClaimHasPoller'
  BY <1>1 DEF IInv, TypePoll, ClaimHasPoller
<1>7. \A s \in Scanner : Clean(s) => Clean(s)'
  BY <1>1 DEF IInv, TypePoll, Clean
<1>. QED BY <1>1, <1>3, <1>4, <1>5, <1>6, <1>7, PollerInv

\* A poller opens a device that has been freed.
LEMMA PollOpensFreedInv ==
  ASSUME IInv, NEW x \in Scanner, PollOpensFreed(x)
  PROVE  IInv'
<1>1. Undefined("device")
  BY DEF PollOpensFreed
<1>2. AloneIsSafe'
  BY <1>1 DEF Undefined, AloneIsSafe
<1>. QED BY <1>1, <1>2, UndefinedInv

\* A poller closes its scanner and runs a script.
LEMMA PollFiresInv ==
  ASSUME IInv, NEW x \in Scanner, PollFires(x)
  PROVE  IInv'
<1>1. /\ ub = "none" /\ ppc[x] = "polling"
      /\ triggered' = triggered \cup {x} /\ Close(x)
      /\ ppc' = [ppc EXCEPT ![x] = "script"]
      /\ UNCHANGED <<plugged, seen, lost, missed, ready, cancelled, alarm>>
      /\ UNCHANGED <<hotplug, events, session, used, alone, loaded, next, attached, current,
                     devices, freed, polling, slots, owner, idx, todo, tpc, tdev, ub>>
  BY DEF PollFires, PollerFrame, usbVars, backendVars, listVars, stopVars, trigVars, envVars
<1>2. x \in Elements(slots)
  BY <1>1 DEF IInv, TypePoll
<1>3. /\ claim' \in [Scanner -> {"free", "scanbd", "other"}]
      /\ \A s \in Scanner : s # x => claim'[s] = claim[s]
      /\ claim[x] = "free" => claim'[x] = "free"
      /\ claim'[x] # "scanbd"
      /\ \A s \in isOpen : s # x => s \in isOpen'
      /\ isOpen' \subseteq isOpen
  BY <1>1, ClosesType
<1>4. TypeUsb'
  BY <1>1, <1>3 DEF IInv, TypeUsb
<1>5. TypePoll'
  BY <1>1, <1>2 DEF IInv, TypePoll
<1>6. BusInv'
  BY <1>1, BusFrameInv DEF IInv
<1>7. ClaimHasPoller'
  BY <1>1, <1>3 DEF IInv, TypePoll, ClaimHasPoller
<1>8. \A s \in Scanner : Clean(s) => Clean(s)'
  BY <1>1 DEF IInv, TypePoll, Clean
<1>. QED BY <1>1, <1>4, <1>5, <1>6, <1>7, <1>8, PollerInv

\* The script has ended.
LEMMA ScriptEndsInv ==
  ASSUME IInv, NEW x \in Scanner, ScriptEnds(x)
  PROVE  IInv'
<1>1. /\ ub = "none" /\ ppc[x] = "script"
      /\ triggered' = triggered \ {x}
      /\ ppc' = [ppc EXCEPT ![x] = "settling"]
      /\ UNCHANGED <<plugged, seen, lost, missed, claim, isOpen, ready, cancelled, alarm>>
      /\ UNCHANGED <<hotplug, events, session, used, alone, loaded, next, attached, current,
                     devices, freed, polling, slots, owner, idx, todo, tpc, tdev, ub>>
  BY DEF ScriptEnds, PollerFrame, usbVars, backendVars, listVars, stopVars, trigVars, envVars
<1>2. x \in Elements(slots)
  BY <1>1 DEF IInv, TypePoll
<1>3. TypeUsb'
  BY <1>1, UsbFrameInv DEF IInv
<1>4. TypePoll'
  BY <1>1, <1>2 DEF IInv, TypePoll
<1>5. BusInv'
  BY <1>1, BusFrameInv DEF IInv
<1>6. ClaimHasPoller'
  BY <1>1 DEF IInv, TypePoll, ClaimHasPoller
<1>7. \A s \in Scanner : Clean(s) => Clean(s)'
  BY <1>1 DEF IInv, TypePoll, Clean
<1>. QED BY <1>1, <1>3, <1>4, <1>5, <1>6, <1>7, PollerInv

\* A poller ends where it is cancelled.
LEMMA PollCancelledInv ==
  ASSUME IInv, NEW x \in Scanner, PollCancelled(x)
  PROVE  IInv'
<1>1. /\ ub = "none" /\ x \in cancelled /\ ppc[x] \in {"polling", "script", "settling"}
      /\ ppc' = [ppc EXCEPT ![x] = "gone"]
      /\ UNCHANGED <<plugged, seen, lost, missed, claim, isOpen, ready, triggered, cancelled,
                     alarm>>
      /\ UNCHANGED <<hotplug, events, session, used, alone, loaded, next, attached, current,
                     devices, freed, polling, slots, owner, idx, todo, tpc, tdev, ub>>
  BY DEF PollCancelled, PollerFrame, usbVars, backendVars, listVars, slotVars, stopVars,
         trigVars, envVars
<1>2. x \in Elements(slots)
  BY <1>1 DEF IInv, TypePoll
<1>3. TypeUsb'
  BY <1>1, UsbFrameInv DEF IInv
<1>4. TypePoll'
  BY <1>1, <1>2 DEF IInv, TypePoll
<1>5. BusInv'
  BY <1>1, BusFrameInv DEF IInv
<1>6. ClaimHasPoller'
  BY <1>1 DEF IInv, TypePoll, ClaimHasPoller
<1>7. \A s \in Scanner : Clean(s) => Clean(s)'
  BY <1>1 DEF IInv, TypePoll, Clean
<1>. QED BY <1>1, <1>3, <1>4, <1>5, <1>6, <1>7, PollerInv

-----------------------------------------------------------------------------
(* scbtn_trigger_action                                                    *)

\* A step of the trigger disturbs the owner and triggered at most.
LEMMA TrigInv ==
  ASSUME IInv, ub = "none", TrigFrame, ub' = ub,
         tpc' \in {"idle", "lock", "await", "slot"}, tdev' \in Scanner, used' \in 0..MaxEvents,
         owner' \in Thread \cup {"none"}, OwnerInv', triggered' \subseteq Elements(slots),
         \/ \A s \in Scanner : Clean(s) => Clean(s)'
         \/ \A t \in Handling : ~Holds(todo[t])
  PROVE  IInv'
<1>1. UNCHANGED <<hotplug, lost, missed, loaded, next, freed, polling, alarm, plugged, seen,
                  attached, current, isOpen, claim, devices, slots, ppc, ready, cancelled, idx,
                  todo, events, session, alone, ub>>
  BY DEF TrigFrame, usbVars, backendVars, listVars
<1>2. TypeUsb' /\ BusInv' /\ LoadInv' /\ AloneInv' /\ AloneIsSafe' /\ ClaimHasPoller'
  BY <1>1, UsbFrameInv, BusFrameInv, LoadFrameInv, AloneFrameInv, SafeInv, ClaimFrameInv DEF IInv
<1>3. TypePoll'
  BY <1>1 DEF IInv, TypePoll
<1>4. TypeThread'
  BY <1>1 DEF IInv, TypeThread
<1>5. SlotInv'
  <2>1. CASE \A s \in Scanner : Clean(s) => Clean(s)'
    BY <1>1, <2>1, SlotFrameInv DEF IInv
  <2>2. CASE \A t \in Handling : ~Holds(todo[t])
    <3>1. \A t \in Handling : ~First(t, {"cancel", "join", "create"})
      BY <2>2 DEF First, Holds
    <3>. QED BY <1>1, <3>1 DEF IInv, SlotInv, First
  <2>. QED BY <2>1, <2>2
<1>. QED BY <1>2, <1>3, <1>4, <1>5 DEF IInv

\* A trigger from outside.
LEMMA TrigCallInv ==
  ASSUME IInv, NEW i \in Scanner, TrigCall(i)
  PROVE  IInv'
<1>1. /\ ub = "none" /\ tpc = "idle" /\ Happens /\ tpc' = "lock" /\ tdev' = i
      /\ UNCHANGED <<triggered, owner, ub, todo, slots, ppc, ready, cancelled>> /\ TrigFrame
  BY DEF TrigCall, TrigFrame
<1>2. used' \in 0..MaxEvents
  BY <1>1, BoundAssumption DEF IInv, TypeThread, Happens
<1>3. OwnerInv'
  BY <1>1 DEF IInv, OwnerInv
<1>4. \A s \in Scanner : Clean(s) => Clean(s)'
  BY <1>1 DEF Clean
<1>5. triggered' \subseteq Elements(slots) /\ owner' \in Thread \cup {"none"}
  BY <1>1 DEF IInv, TypePoll, TypeThread
<1>. QED BY <1>1, <1>2, <1>3, <1>4, <1>5, TrigInv

\* The trigger has scbtn_mutex and looks at its slot.
LEMMA TrigSlotInv ==
  ASSUME IInv, ub = "none", owner = "none", TrigSlot, UNCHANGED <<tdev, used>>, TrigFrame
  PROVE  IInv'
<1>1. UNCHANGED <<todo, slots, ppc, ready, cancelled>>
  BY DEF TrigFrame
<1>2. /\ tdev \in Nat \ {0} /\ Len(slots) \in Nat /\ DOMAIN slots = 1..Len(slots)
      /\ tdev' \in Scanner /\ used' \in 0..MaxEvents
  BY DEF IInv, TypeThread, TypePoll, Scanner
<1>3. tdev <= Len(slots) => slots[tdev] \in Elements(slots)
  BY <1>2 DEF Elements
<1>4. \A u \in Handling : u # "none" /\ u # "trigger" /\ ~Holds(todo[u]) /\ Positions(todo[u])
  BY DEF IInv, OwnerInv, Handling
<1>5. triggered \subseteq Elements(slots) /\ tpc # "slot"
  BY DEF IInv, TypePoll, OwnerInv
<1>6. CASE tdev > Len(slots) /\ ub' = "slot" /\ UNCHANGED <<tpc, triggered, owner>>
  <2>1. Undefined("slot")
    BY <1>6 DEF TrigFrame, Undefined, slotVars, stopVars, trigVars, envVars
  <2>2. AloneIsSafe'
    BY <1>6 DEF AloneIsSafe
  <2>. QED BY <2>1, <2>2, UndefinedInv
<1>7. CASE tpc' = "idle" /\ UNCHANGED <<triggered, owner, ub>>
  <2>1. OwnerInv'
    BY <1>1, <1>4, <1>7 DEF OwnerInv
  <2>2. \A s \in Scanner : Clean(s) => Clean(s)'
    BY <1>1, <1>7 DEF Clean
  <2>3. owner' \in Thread \cup {"none"} /\ triggered' \subseteq Elements(slots)
    BY <1>5, <1>7
  <2>. QED BY <1>2, <1>7, <2>1, <2>2, <2>3, TrigInv
<1>8. CASE /\ tdev <= Len(slots) /\ slots[tdev] \in ready \ triggered
           /\ triggered' = triggered \cup {slots[tdev]}
           /\ tpc' = "idle" /\ UNCHANGED <<owner, ub>>
  <2>1. OwnerInv'
    BY <1>1, <1>4, <1>8 DEF OwnerInv
  <2>2. \A s \in Scanner : Clean(s) => Clean(s)'
    BY <1>1, <1>8 DEF Clean
  <2>3. owner' \in Thread \cup {"none"} /\ triggered' \subseteq Elements(slots)
    BY <1>3, <1>5, <1>8
  <2>. QED BY <1>2, <1>8, <2>1, <2>2, <2>3, TrigInv
<1>9. CASE /\ tdev <= Len(slots) /\ slots[tdev] \in ready \cap triggered
           /\ tpc' = "slot" /\ owner' = "trigger" /\ UNCHANGED <<triggered, ub>>
  <2>1. OwnerInv'
    BY <1>1, <1>4, <1>9 DEF OwnerInv
  <2>2. \A s \in Scanner : Clean(s) => Clean(s)'
    BY <1>1, <1>9 DEF Clean
  <2>3. owner' \in Thread \cup {"none"} /\ triggered' \subseteq Elements(slots)
    BY <1>5, <1>9 DEF Thread
  <2>. QED BY <1>2, <1>9, <2>1, <2>2, <2>3, TrigInv
<1>. QED BY <1>6, <1>7, <1>8, <1>9 DEF TrigSlot

\* The trigger gets scbtn_mutex.
LEMMA TrigLockInv ==
  ASSUME IInv, TrigLock
  PROVE  IInv'
<1>1. /\ ub = "none" /\ tpc = "lock" /\ owner = "none"
      /\ UNCHANGED <<tdev, used>> /\ TrigFrame
      /\ UNCHANGED <<todo, slots, ppc, ready, cancelled>>
  BY DEF TrigLock, TrigFrame
<1>2. CASE tpc' \in {"idle", "await"} /\ UNCHANGED <<triggered, owner, ub>>
  <2>1. OwnerInv'
    BY <1>1, <1>2 DEF IInv, OwnerInv
  <2>2. \A s \in Scanner : Clean(s) => Clean(s)'
    BY <1>1, <1>2 DEF Clean
  <2>3. /\ owner' \in Thread \cup {"none"} /\ triggered' \subseteq Elements(slots)
        /\ tdev' \in Scanner /\ used' \in 0..MaxEvents
    BY <1>1, <1>2 DEF IInv, TypePoll, TypeThread
  <2>. QED BY <1>1, <1>2, <2>1, <2>2, <2>3, TrigInv
<1>3. CASE TrigSlot
  BY <1>1, <1>3, TrigSlotInv
<1>. QED BY <1>2, <1>3 DEF TrigLock

\* The trigger wakes up with pollers running.
LEMMA TrigAwakeInv ==
  ASSUME IInv, TrigAwake
  PROVE  IInv'
BY TrigSlotInv DEF TrigAwake

\* The trigger has waited for its slot.
LEMMA TrigSetInv ==
  ASSUME IInv, TrigSet
  PROVE  IInv'
<1>1. /\ ub = "none" /\ tpc = "slot"
      /\ triggered' = triggered \cup {slots[tdev]} /\ tpc' = "idle" /\ owner' = "none"
      /\ UNCHANGED <<tdev, used, ub>> /\ TrigFrame
      /\ UNCHANGED <<todo, slots, ppc, ready, cancelled>>
  BY DEF TrigSet, TrigFrame
<1>2. /\ tdev \in Nat \ {0} /\ Len(slots) \in Nat /\ DOMAIN slots = 1..Len(slots)
      /\ tdev' \in Scanner /\ used' \in 0..MaxEvents
  BY <1>1 DEF IInv, TypeThread, TypePoll, Scanner
<1>3. tdev <= Len(slots) /\ owner = "trigger"
  BY <1>1 DEF IInv, OwnerInv
<1>4. slots[tdev] \in Elements(slots)
  BY <1>2, <1>3 DEF Elements
<1>5. OwnerInv'
  <2>1. \A u \in Handling : u # "none" /\ ~Holds(todo[u]) /\ Positions(todo[u])
    BY <1>1, <1>3 DEF IInv, OwnerInv, Handling
  <2>. QED BY <1>1, <2>1 DEF OwnerInv
<1>6. \A u \in Handling : ~Holds(todo[u])
  BY <1>1, <1>3 DEF IInv, OwnerInv, Handling
<1>7. triggered' \subseteq Elements(slots) /\ owner' \in Thread \cup {"none"}
  BY <1>1, <1>4 DEF IInv, TypePoll
<1>. QED BY <1>1, <1>2, <1>5, <1>6, <1>7, TrigInv

-----------------------------------------------------------------------------
(* Signals, hotplug, sessions, and other programs                          *)

\* A step of the environment that begins a handler.
LEMMA BeginsInv ==
  ASSUME IInv, ub = "none", ub' = "none", NEW t \in Handling, Frame, UNCHANGED hotplug,
         TypeThread', alarm' \in BOOLEAN, AloneInv',
         \A u \in Handling : u # t => todo'[u] = todo[u],
         ~Holds(todo[t]), ~Holds(todo'[t]), Positions(todo'[t]), Loads(todo'[t]),
         \E d \in Int : \A i \in Bare(todo'[t]) : i - d \in Bare(todo[t]),
         \/ UNCHANGED <<alarm, events>> /\ Keeps(todo[t], todo'[t])
         \/ "shutdown" \in Elements(todo'[t])
  PROVE  IInv'
<1>1. UNCHANGED <<lost, missed, loaded, next, freed, polling, plugged, seen, attached, current,
                  isOpen, claim, devices, slots, ppc, ready, triggered, cancelled, owner, idx,
                  tpc, tdev>>
  BY DEF Frame, usbVars, backendVars, listVars, slotVars, stopVars, trigVars
<1>2. TypeUsb' /\ TypePoll' /\ ClaimHasPoller' /\ AloneIsSafe'
  BY <1>1, PollFrameInv, ClaimFrameInv, SafeInv DEF IInv, TypeUsb
<1>3. OwnerInv'
  BY <1>1 DEF IInv, OwnerInv
<1>4. SlotInv'
  <2>1. ~First(t, {"cancel", "join", "create"})'
    BY DEF First, Holds
  <2>. QED BY <1>1, <2>1 DEF IInv, SlotInv, First, Clean
<1>5. LoadInv'
  <2>1. PICK d \in Int : \A i \in Bare(todo'[t]) : i - d \in Bare(todo[t])
    OBVIOUS
  <2>2. ~loaded => slots' = <<>> /\ (freed' \/ devices' = <<>>)
    BY <1>1 DEF IInv, LoadInv
  <2>3. UNCHANGED loaded
    BY <1>1
  <2>. QED BY <2>1, <2>2, <2>3, TodoLoad
<1>6. BusInv'
  <2>1. CASE UNCHANGED <<alarm, events>> /\ Keeps(todo[t], todo'[t])
    BY <1>1, <2>1, TodoBus
  <2>2. CASE "shutdown" \in Elements(todo'[t])
    <3>1. \A s : Awaited(s)'
      BY <2>2 DEF Awaited, Unloading
    <3>. QED BY <1>1, <3>1 DEF IInv, BusInv
  <2>. QED BY <2>1, <2>2
<1>. QED BY <1>2, <1>3, <1>4, <1>5, <1>6 DEF IInv

\* HUP and ALRM.
LEMMA InterruptsInv ==
  ASSUME IInv, NEW c \in {"HUP", "ALRM"}, Interrupts(c), used' \in 0..MaxEvents,
         alarm' \in BOOLEAN
  PROVE  IInv'
<1>1. /\ ub = "none" /\ todo' = [todo EXCEPT !["main"] = Reload \o <<c>> \o @]
      /\ ub' = (IF owner = "main" THEN "nested" ELSE ub)
      /\ Begins /\ UNCHANGED <<hotplug, events, session>> /\ Frame
  BY DEF Interrupts
<1>2. /\ todo' \in [Handling -> Seq(Call)]
      /\ \A u \in Handling : u # "main" => todo'[u] = todo[u]
      /\ ~Holds(todo["main"]) => Positions(todo'["main"]) /\ ~Holds(todo'["main"])
      /\ \A i \in Bare(todo'["main"]) : i - 6 \in Bare(todo["main"])
      /\ Loads(todo["main"]) => Loads(todo'["main"])
      /\ "init" \in Elements(todo'["main"]) /\ "shutdown" \in Elements(todo'["main"])
      /\ todo'["main"] # <<>> /\ todo'["main"][1] = "stop"
      /\ todo["main"] = <<>> => Follows(todo'["main"], hotplug)
  BY <1>1, Interrupted DEF IInv
<1>3. UNCHANGED <<lost, missed, loaded, next, freed, polling, plugged, seen, attached, current,
                  isOpen, claim, devices, slots, ppc, ready, triggered, cancelled, owner, idx,
                  tpc, tdev>>
  BY <1>1 DEF Frame, usbVars, backendVars, listVars, slotVars, stopVars, trigVars
<1>4. "main" \in Handling /\ 6 \in Int
  BY DEF Handling
<1>5. TypeThread'
  <2>1. ub' \in {"none", "unloaded", "torn", "overrun", "freed", "slot", "nested", "device"}
    BY <1>1
  <2>2. alone' \in BOOLEAN
    BY <1>1 DEF Begins
  <2>. QED BY <1>1, <1>2, <1>3, <2>1, <2>2 DEF IInv, TypeThread
<1>6. CASE owner = "main"
  <2>1. ub' = "nested"
    BY <1>1, <1>6
  <2>2. Holds(todo["main"])
    BY <1>1, <1>4, <1>6 DEF IInv, OwnerInv
  <2>3. todo["main"] # <<>>
    <3>1. ~Holds(<<>>)
      <4>1. Len(<<>>) = 0
        OBVIOUS
      <4>. QED BY <4>1 DEF Holds
    <3>. QED BY <2>2, <3>1
  <2>4. ~alone'
    BY <1>1, <1>4, <2>3 DEF Begins
  <2>5. TypeUsb' /\ TypePoll' /\ ClaimHasPoller'
    BY <1>1, <1>3, PollFrameInv, ClaimFrameInv DEF IInv, TypeUsb
  <2>6. OwnerInv' /\ AloneIsSafe' /\ AloneInv'
    BY <1>1, <2>1, <2>4 DEF IInv, OwnerInv, AloneIsSafe, AloneInv
  <2>9. LoadInv'
    BY <1>2, <1>4, <2>1 DEF IInv, LoadInv
  <2>7. SlotInv'
    BY <1>3, <2>1 DEF IInv, SlotInv
  <2>8. BusInv'
    <3>1. \A s : Awaited(s)'
      BY <1>2, <1>4 DEF Awaited, Unloading
    <3>. QED BY <1>1, <1>3, <3>1 DEF IInv, BusInv
  <2>. QED BY <1>5, <2>5, <2>6, <2>7, <2>8, <2>9 DEF IInv
<1>7. CASE owner # "main"
  <2>1. ub' = "none"
    BY <1>1, <1>7
  <2>2. ~Holds(todo["main"]) /\ Loads(todo["main"])
    BY <1>1, <1>4, <1>7 DEF IInv, OwnerInv, LoadInv
  <2>3. AloneInv'
    <3>1. events' # <<>> => hotplug
      BY <1>1 DEF IInv, AloneInv
    <3>. QED BY <1>1, <1>2, <1>3, <1>4, <3>1, BeginsAlone
  <2>4. \E d \in Int : \A i \in Bare(todo'["main"]) : i - d \in Bare(todo["main"])
    BY <1>2, <1>4
  <2>. QED BY <1>1, <1>2, <1>4, <1>5, <2>1, <2>2, <2>3, <2>4, BeginsInv
<1>. QED BY <1>6, <1>7

\* SIGALRM.
LEMMA AlarmRingsInv ==
  ASSUME IInv, AlarmRings
  PROVE  IInv'
<1>1. used' \in 0..MaxEvents /\ alarm' \in BOOLEAN /\ Interrupts("ALRM")
  BY DEF IInv, TypeThread, AlarmRings
<1>. QED BY <1>1, InterruptsInv

\* SIGHUP.
LEMMA HupInv ==
  ASSUME IInv, Hup
  PROVE  IInv'
<1>1. used' \in 0..MaxEvents
  BY BoundAssumption DEF IInv, TypeThread, Hup, Happens
<1>2. alarm' \in BOOLEAN /\ Interrupts("HUP")
  BY DEF IInv, TypeUsb, Hup
<1>. QED BY <1>1, <1>2, InterruptsInv

\* A handler of a signal returns to what it has interrupted.
LEMMA HandlerReturnsInv ==
  ASSUME IInv, HandlerReturns
  PROVE  IInv'
<1>1. PICK c \in {"HUP", "ALRM"} : At("main", c)
  BY DEF HandlerReturns
<1>2. /\ Then("main", <<>>) /\ c \in Call /\ "main" \in Handling /\ ub = "none"
      /\ UNCHANGED <<hotplug, lost, missed, loaded, next, freed, polling, alarm, plugged, seen,
                     attached, current, isOpen, claim, devices, slots, ppc, ready, triggered,
                     cancelled, owner, idx, tpc, tdev, events, session, used, alone, ub>>
  BY <1>1, CallSet DEF HandlerReturns, Frame, At, Handling, usbVars, backendVars, listVars,
     slotVars, stopVars, trigVars, envVars
<1>3. TypeUsb' /\ TypePoll' /\ ClaimHasPoller'
  BY <1>2, UsbFrameInv, PollFrameInv, ClaimFrameInv DEF IInv
<1>4. todo' \in [Handling -> Seq(Call)]
  BY <1>1, <1>2, ThenPops DEF IInv
<1>5. TypeThread'
  BY <1>2, <1>4 DEF IInv, TypeThread
<1>6. OwnerInv'
  BY <1>1, <1>2, PopOwner
<1>7. SlotInv'
  BY <1>1, <1>2, PopSlot
<1>8. LoadInv'
  BY <1>1, <1>2, PopLoad DEF IInv, LoadInv
<1>9. BusInv'
  BY <1>1, <1>2, PopBus
<1>10. AloneInv'
  BY <1>1, <1>2, PopAlone
<1>11. AloneIsSafe'
  BY <1>2, SafeInv
<1>. QED BY <1>3, <1>5, <1>6, <1>7, <1>8, <1>9, <1>10, <1>11 DEF IInv

\* An event, or scanbm.
LEMMA StartsInv ==
  ASSUME IInv, ub = "none", NEW t \in Handling, todo[t] = <<>>,
         NEW r \in {<<"stop">>, <<"start">>, Reload, Removed}, r = Removed => hotplug,
         todo' = [todo EXCEPT ![t] = r], Begins, Frame, UNCHANGED <<alarm, hotplug, ub>>,
         events' \in Seq({"add", "remove"}), events' # <<>> => hotplug,
         events' = events \/ r \in {Reload, Removed},
         session' \in {"none", "acquire", "saned"}, used' \in 0..MaxEvents
  PROVE  IInv'
<1>1. UNCHANGED <<lost, missed, loaded, next, freed, polling, plugged, seen, attached, current,
                  isOpen, claim, devices, slots, ppc, ready, triggered, cancelled, owner, idx,
                  tpc, tdev>>
  BY DEF Frame, usbVars, backendVars, listVars, slotVars, stopVars, trigVars
<1>2. /\ todo' \in [Handling -> Seq(Call)]
      /\ \A u \in Handling : u # t => todo'[u] = todo[u]
      /\ Positions(todo'[t]) /\ ~Holds(todo'[t]) /\ ~Holds(todo[t])
      /\ Bare(todo'[t]) = {} /\ Loads(todo'[t])
      /\ todo'[t] # <<>> /\ todo'[t][1] \in {"stop", "start"}
      /\ r \in {Reload, Removed} => "shutdown" \in Elements(todo'[t])
      /\ Follows(todo'[t], hotplug)
  BY Started DEF IInv
<1>3. TypeThread'
  <2>1. alone' \in BOOLEAN
    BY DEF Begins
  <2>. QED BY <1>1, <1>2, <2>1 DEF IInv, TypeThread
<1>4. AloneInv'
  BY <1>1, <1>2, BeginsAlone
<1>5. \E d \in Int : \A i \in Bare(todo'[t]) : i - d \in Bare(todo[t])
  <2>1. \A i \in Bare(todo'[t]) : i - 0 \in Bare(todo[t])
    BY <1>2
  <2>2. 0 \in Int
    OBVIOUS
  <2>. QED BY <2>1, <2>2
<1>6. Keeps(todo[t], todo'[t])
  BY NoSlots DEF Keeps
<1>7. alarm' \in BOOLEAN /\ alarm' = alarm /\ ub' = "none" /\ UNCHANGED hotplug
  BY DEF IInv, TypeUsb
<1>. QED BY <1>2, <1>3, <1>4, <1>5, <1>6, <1>7, BeginsInv

\* An event of udev.
LEMMA ReceiveDeviceInv ==
  ASSUME IInv, ReceiveDevice
  PROVE  IInv'
<1>1. /\ ub = "none" /\ events # <<>> /\ todo["udev"] = <<>> /\ Begins /\ Frame
      /\ UNCHANGED <<alarm, hotplug, session, used, ub>> /\ events' = Tail(events)
      /\ "udev" \in Handling
  BY DEF ReceiveDevice, Handling
<1>2. hotplug
  BY <1>1 DEF IInv, AloneInv
<1>3. PICK r \in {Reload, Removed} : todo' = [todo EXCEPT !["udev"] = r]
  BY DEF ReceiveDevice
<1>4. events' \in Seq({"add", "remove"})
  BY <1>1, HeadTailProperties DEF IInv, TypeThread
<1>5. session' \in {"none", "acquire", "saned"} /\ used' \in 0..MaxEvents
  BY <1>1 DEF IInv, TypeThread
<1>6. r \in {<<"stop">>, <<"start">>, Reload, Removed}
  BY <1>3
<1>. QED BY <1>1, <1>2, <1>3, <1>4, <1>5, <1>6, StartsInv

\* scanbm acquires.
LEMMA AcquireInv ==
  ASSUME IInv, Acquire
  PROVE  IInv'
<1>1. /\ ub = "none" /\ todo["dbus"] = <<>> /\ Begins /\ Frame /\ Happens
      /\ UNCHANGED <<alarm, hotplug, events, ub>> /\ session' = "acquire"
      /\ todo' = [todo EXCEPT !["dbus"] = <<"stop">>] /\ "dbus" \in Handling
  BY DEF Acquire, Handling
<1>2. used' \in 0..MaxEvents
  BY <1>1, BoundAssumption DEF IInv, TypeThread, Happens
<1>3. events' \in Seq({"add", "remove"}) /\ (events' # <<>> => hotplug) /\ events' = events
  BY <1>1 DEF IInv, TypeThread, AloneInv
<1>4. <<"stop">> # Removed /\ <<"stop">> \in {<<"stop">>, <<"start">>, Reload, Removed}
  BY DEF Removed
<1>. QED BY <1>1, <1>2, <1>3, <1>4, StartsInv

\* scanbm releases, when saned has ended.
LEMMA ReleaseInv ==
  ASSUME IInv, SessionInv, Release
  PROVE  IInv'
<1>1. /\ ub = "none" /\ session = "saned" /\ Begins /\ Frame
      /\ UNCHANGED <<alarm, hotplug, events, used, ub>> /\ session' = "none"
      /\ todo' = [todo EXCEPT !["dbus"] = <<"start">>] /\ "dbus" \in Handling
  BY DEF Release, Handling
<1>2. todo["dbus"] = <<>>
  BY <1>1 DEF SessionInv
<1>3. used' \in 0..MaxEvents
  BY <1>1 DEF IInv, TypeThread
<1>4. events' \in Seq({"add", "remove"}) /\ (events' # <<>> => hotplug) /\ events' = events
  BY <1>1 DEF IInv, TypeThread, AloneInv
<1>5. <<"start">> # Removed /\ <<"start">> \in {<<"stop">>, <<"start">>, Reload, Removed}
  BY DEF Removed
<1>. QED BY <1>1, <1>2, <1>3, <1>4, <1>5, StartsInv

\* The acquire has been answered.
LEMMA SanedStartsInv ==
  ASSUME IInv, SanedStarts
  PROVE  IInv'
<1>1. /\ session' = "saned"
      /\ UNCHANGED <<hotplug, lost, missed, loaded, next, freed, polling, alarm, plugged, seen,
                     attached, current, isOpen, claim, devices, slots, ppc, ready, triggered,
                     cancelled, owner, idx, todo, tpc, tdev, events, used, alone, ub>>
  BY DEF SanedStarts, Frame, usbVars, backendVars, listVars, slotVars, stopVars, trigVars
<1>2. TypeThread'
  BY <1>1 DEF IInv, TypeThread
<1>3. \A s \in Scanner : Clean(s) => Clean(s)'
  BY <1>1 DEF Clean
<1>4. TypeUsb' /\ TypePoll' /\ ClaimHasPoller' /\ BusInv'
  BY <1>1, UsbFrameInv, PollFrameInv, ClaimFrameInv, BusFrameInv DEF IInv
<1>5. OwnerInv' /\ SlotInv' /\ LoadInv' /\ AloneInv' /\ AloneIsSafe'
  BY <1>1, <1>3, OwnerFrameInv, SlotFrameInv, LoadFrameInv, AloneFrameInv, SafeFrameInv DEF IInv
<1>. QED BY <1>2, <1>4, <1>5 DEF IInv

\* A step of the bus or of another program.
LEMMA BusStepInv ==
  ASSUME IInv, UsbFrame, TypeUsb', BusInv', ClaimHasPoller', used' \in 0..MaxEvents,
         UNCHANGED events \/ \E kind \in {"add", "remove"} : Event(kind)
  PROVE  IInv'
<1>1. UNCHANGED <<missed, loaded, next, attached, isOpen, devices, freed, polling, slots, ppc,
                  ready, triggered, cancelled, owner, idx, todo, tpc, tdev, alarm, hotplug,
                  session, alone, ub>>
  BY DEF UsbFrame, listVars, slotVars, stopVars, trigVars
<1>2. events' \in Seq({"add", "remove"})
  <2>1. CASE UNCHANGED events
    BY <2>1 DEF IInv, TypeThread
  <2>2. CASE \E kind \in {"add", "remove"} : Event(kind)
    <3>1. events \in Seq({"add", "remove"})
      BY DEF IInv, TypeThread
    <3>2. \A kind \in {"add", "remove"} : Append(events, kind) \in Seq({"add", "remove"})
      BY <3>1, AppendProperties
    <3>. QED BY <2>2, <3>1, <3>2 DEF Event
  <2>. QED BY <2>1, <2>2
<1>3. events' # <<>> => hotplug'
  BY <1>1 DEF IInv, AloneInv, Event
<1>4. TypeThread'
  BY <1>1, <1>2 DEF IInv, TypeThread
<1>5. \A s \in Scanner : Clean(s) => Clean(s)'
  BY <1>1 DEF Clean
<1>6. TypePoll' /\ OwnerInv' /\ SlotInv' /\ LoadInv' /\ AloneIsSafe'
  BY <1>1, <1>5, PollFrameInv, OwnerFrameInv, SlotFrameInv, LoadFrameInv, SafeFrameInv DEF IInv
<1>7. AloneInv'
  BY <1>1, <1>3 DEF IInv, AloneInv, First
<1>. QED BY <1>4, <1>6, <1>7 DEF IInv

\* With udev the event waits for the monitor.
LEMMA EventIsThere ==
  ASSUME TypeThread, hotplug, NEW kind \in {"add", "remove"}, Event(kind)
  PROVE  events' # <<>>
<1>1. events \in Seq({"add", "remove"}) /\ events' = Append(events, kind)
  BY DEF TypeThread, Event
<1>2. Len(events') = Len(events) + 1 /\ Len(events) \in Nat
  BY <1>1, AppendProperties, LenProperties
<1>. QED BY <1>2, EmptySeq

\* A scanner is plugged in.
LEMMA PlugInv ==
  ASSUME IInv, NEW x \in Scanner, Plug(x)
  PROVE  IInv'
<1>1. /\ x \notin plugged /\ Happens /\ plugged' = plugged \cup {x} /\ Event("add")
      /\ UNCHANGED <<seen, lost, missed, claim, current, loaded, next, attached, isOpen, polling,
                     freed, ppc, cancelled, alarm, hotplug, todo>> /\ UsbFrame
  BY DEF Plug, UsbFrame, listVars, slotVars
<1>2. used' \in 0..MaxEvents
  BY <1>1, BoundAssumption DEF IInv, TypeThread, Happens
<1>3. TypeUsb'
  BY <1>1 DEF IInv, TypeUsb
<1>4. ClaimHasPoller'
  BY <1>1, ClaimFrameInv DEF IInv
<1>5. BusInv'
  <2>1. \A s : Awaited(s)' <=> Awaited(s)
    BY <1>1 DEF Awaited, Unloading, Loading
  <2>2. hotplug => events' # <<>>
    BY <1>1, EventIsThere DEF IInv
  <2>. QED BY <1>1, <2>1, <2>2 DEF IInv, BusInv
<1>. QED BY <1>1, <1>2, <1>3, <1>4, <1>5, BusStepInv

\* A scanner is unplugged; if it was reported, so will be its loss.
LEMMA UnplugInv ==
  ASSUME IInv, NEW x \in Scanner, Unplug(x)
  PROVE  IInv'
<1>1. /\ x \in plugged /\ Happens /\ plugged' = plugged \ {x}
      /\ seen' = seen \ {x} /\ (lost' <=> lost \/ x \in seen) /\ lost' \in BOOLEAN
      /\ current' = current \ {x} /\ claim' = [claim EXCEPT ![x] = "free"] /\ Event("remove")
      /\ UNCHANGED <<missed, loaded, next, attached, isOpen, polling, freed, ppc, cancelled,
                     alarm, hotplug, todo>> /\ UsbFrame
  BY DEF IInv, TypeUsb, Unplug, UsbFrame, listVars, slotVars
<1>2. used' \in 0..MaxEvents
  BY <1>1, BoundAssumption DEF IInv, TypeThread, Happens
<1>3. TypeUsb'
  BY <1>1 DEF IInv, TypeUsb
<1>4. BusInv'
  <2>1. \A s : Awaited(s)' <=> Awaited(s)
    BY <1>1 DEF Awaited, Unloading, Loading
  <2>2. hotplug => events' # <<>>
    BY <1>1, EventIsThere DEF IInv
  <2>3. x \in current => lost'
    BY <1>1 DEF IInv, BusInv
  <2>4. \A s \in (seen' \cup attached) \ current' :
          s \in (seen \cup attached) \ current \/ lost'
    BY <1>1, <2>3
  <2>. QED BY <1>1, <2>1, <2>2, <2>4 DEF IInv, BusInv
<1>5. ClaimHasPoller'
  BY <1>1 DEF IInv, TypeUsb, ClaimHasPoller
<1>. QED BY <1>1, <1>2, <1>3, <1>4, <1>5, BusStepInv

\* Another program claims a scanner.
LEMMA OtherClaimsInv ==
  ASSUME IInv, NEW x \in Scanner, OtherClaims(x)
  PROVE  IInv'
<1>1. /\ x \in plugged /\ claim[x] = "free" /\ claim' = [claim EXCEPT ![x] = "other"]
      /\ UNCHANGED <<plugged, seen, lost, missed, current, events, loaded, next, attached, isOpen,
                     polling, freed, ppc, cancelled, alarm, hotplug, todo>> /\ UsbFrame
  BY DEF OtherClaims, UsbFrame, usbVars, listVars, slotVars
<1>2. used' \in 0..MaxEvents
  BY BoundAssumption DEF IInv, TypeThread, OtherClaims, Happens
<1>3. TypeUsb'
  BY <1>1 DEF IInv, TypeUsb
<1>4. BusInv'
  BY <1>1, BusFrameInv DEF IInv
<1>5. ClaimHasPoller'
  BY <1>1 DEF IInv, TypeUsb, ClaimHasPoller
<1>. QED BY <1>1, <1>2, <1>3, <1>4, <1>5, BusStepInv

\* Another program leaves a scanner.
LEMMA OtherLeavesInv ==
  ASSUME IInv, NEW x \in Scanner, OtherLeaves(x)
  PROVE  IInv'
<1>1. /\ claim[x] = "other" /\ claim' = [claim EXCEPT ![x] = "free"]
      /\ UNCHANGED <<plugged, seen, lost, missed, current, events, used, loaded, next, attached,
                     isOpen, polling, freed, ppc, cancelled, alarm, hotplug, todo>> /\ UsbFrame
  BY DEF OtherLeaves, UsbFrame, usbVars, listVars, slotVars
<1>2. used' \in 0..MaxEvents
  BY <1>1 DEF IInv, TypeThread
<1>3. TypeUsb'
  BY <1>1 DEF IInv, TypeUsb
<1>4. BusInv'
  BY <1>1, BusFrameInv DEF IInv
<1>5. ClaimHasPoller'
  BY <1>1 DEF IInv, TypeUsb, ClaimHasPoller
<1>. QED BY <1>1, <1>2, <1>3, <1>4, <1>5, BusStepInv

-----------------------------------------------------------------------------
(* Theorems                                                                *)

\* The pollers have just been started.
LEMMA InitInv == Init => IInv
<1>. SUFFICES ASSUME Init PROVE IInv
  OBVIOUS
<1>1. plugged \subseteq Scanner
  BY BoundAssumption DEF Init, Scanner
<1>2. /\ devices = Listing(plugged) /\ slots = devices
      /\ devices \in Seq(Scanner) /\ Len(devices) <= MaxScanners /\ Elements(slots) = plugged
  BY <1>1, ListingIsList DEF Init
<1>3. TypeUsb
  <2>1. 1 \in 1..MaxBackends
    BY BackendAssumption
  <2>. QED BY <1>1, <2>1 DEF Init, TypeUsb
<1>4. TypePoll
  <2>1. ppc = [s \in Scanner |-> IF s \in plugged THEN "opening" ELSE "none"]
        /\ ready = {} /\ triggered = {} /\ cancelled = {}
    BY DEF Init
  <2>. QED BY <1>2, <2>1 DEF TypePoll
<1>5. /\ todo \in [Handling -> Seq(Call)]
      /\ \A t \in Handling : todo[t] = <<>>
      /\ Len(<<>>) = 0 /\ \A i \in 1..0 : FALSE
  <2>1. todo = [t \in Handling |-> <<>>]
    BY DEF Init
  <2>2. <<>> \in Seq(Call)
    OBVIOUS
  <2>3. Len(<<>>) = 0 /\ \A i \in 1..0 : FALSE
    OBVIOUS
  <2>. QED BY <2>1, <2>2, <2>3
<1>6. TypeThread
  <2>1. tdev \in Scanner /\ idx \in 1..(MaxScanners + 1) /\ used \in 0..MaxEvents
    BY BoundAssumption DEF Init, Scanner
  <2>2. events \in Seq({"add", "remove"})
    BY DEF Init
  <2>. QED BY <1>5, <2>1, <2>2 DEF Init, TypeThread
<1>7. OwnerInv
  <2>1. ~Holds(<<>>) /\ Positions(<<>>)
    BY <1>5 DEF Holds, Positions
  <2>2. owner = "none" /\ tpc = "idle" /\ \A t \in Handling : t # "none"
    BY DEF Init, Handling
  <2>. QED BY <1>5, <2>1, <2>2 DEF OwnerInv
<1>8. SlotInv
  BY <1>5 DEF Init, SlotInv, First
<1>9. LoadInv
  <2>1. Loads(<<>>) /\ Bare(<<>>) = {}
    BY <1>5 DEF Loads, Bare
  <2>. QED BY <1>5, <2>1 DEF Init, LoadInv
<1>10. BusInv
  BY DEF Init, BusInv, Stale
<1>11. ClaimHasPoller
  BY DEF Init, ClaimHasPoller
<1>12. AloneInv /\ AloneIsSafe
  BY <1>5 DEF Init, AloneInv, AloneIsSafe, First
<1>. QED BY <1>3, <1>4, <1>6, <1>7, <1>8, <1>9, <1>10, <1>11, <1>12 DEF IInv

\* Nothing happens.
LEMMA StutterInv ==
  ASSUME IInv, UNCHANGED vars
  PROVE  IInv'
<1>1. UNCHANGED <<hotplug, lost, missed, loaded, next, freed, polling, alarm, plugged, seen,
                  attached, current, isOpen, claim, devices, slots, ppc, ready, triggered,
                  cancelled, owner, idx, todo, tpc, tdev, events, session, used, alone, ub>>
  BY DEF vars, usbVars, backendVars, listVars, slotVars, stopVars, trigVars, envVars
<1>2. \A s \in Scanner : Clean(s) => Clean(s)'
  BY <1>1 DEF Clean
<1>3. TypeThread'
  BY <1>1 DEF IInv, TypeThread
<1>4. TypeUsb' /\ TypePoll' /\ ClaimHasPoller' /\ BusInv'
  BY <1>1, UsbFrameInv, PollFrameInv, ClaimFrameInv, BusFrameInv DEF IInv
<1>5. OwnerInv' /\ SlotInv' /\ LoadInv' /\ AloneInv' /\ AloneIsSafe'
  BY <1>1, <1>2, OwnerFrameInv, SlotFrameInv, LoadFrameInv, AloneFrameInv, SafeFrameInv DEF IInv
<1>. QED BY <1>3, <1>4, <1>5 DEF IInv

\* Every step keeps the inductive invariant.
LEMMA NextInv ==
  ASSUME IInv, SessionInv, Next
  PROVE  IInv'
<1>1. ASSUME NEW t \in Handling, Calls(t) PROVE IInv'
  BY <1>1, StopNothingInv, StopLockInv, StopCancelInv, StopAllCancelledInv, StopJoinInv,
     StopFreeInv, ShutdownInv, InitBackendsInv, GetDevicesInv, StartAgainInv, StartInv DEF Calls
<1>2. ASSUME NEW s \in Scanner, Polls(s) PROVE IInv'
  BY <1>2, PollOpensInv, PollGivesUpInv, PollOpensFreedInv, ScriptEndsInv, PollCancelledInv,
     PollCancelledAskingInv, PollFiresInv DEF Polls
<1>3. CASE Signals
  BY <1>3, AlarmRingsInv, HandlerReturnsInv DEF Signals
<1>4. CASE Answers
  BY <1>4, TrigLockInv, TrigAwakeInv, ReceiveDeviceInv, SanedStartsInv, ReleaseInv DEF Answers
<1>5. CASE Outside
  BY <1>5, HupInv, AcquireInv, TrigCallInv, PlugInv, UnplugInv, OtherClaimsInv, PollFiresInv
     DEF Outside
<1>. QED BY <1>1, <1>2, <1>3, <1>4, <1>5, TrigSetInv, OtherLeavesInv DEF Next

\* Only scanbm gives the D-Bus thread something to do, and not while saned runs.
LEMMA SessionNext ==
  ASSUME IInv, SessionInv, [Next]_vars
  PROVE  SessionInv'
<1>. SUFFICES ASSUME session' = "saned" PROVE todo'["dbus"] = <<>>
  BY DEF SessionInv
<1>1. todo \in [Handling -> Seq(Call)] /\ "dbus" \in Handling /\ "dbus" # "main" /\ "dbus" # "udev"
  BY DEF IInv, TypeThread, Handling
<1>2. session = "saned" => todo["dbus"] = <<>>
  BY DEF SessionInv
<1>3. ASSUME NEW t \in Handling, Calls(t)
      PROVE  /\ session' = session /\ todo[t] # <<>>
             /\ UNCHANGED todo \/ \E calls : Then(t, calls)
  <2>1. CASE StopNothing(t) \/ StopLock(t) \/ StopCancel(t) \/ StopAllCancelled(t)
    BY <2>1 DEF StopNothing, StopLock, StopCancel, StopAllCancelled, At, envVars
  <2>2. CASE StopJoin(t) \/ StopFree(t) \/ InitBackends(t) \/ StartAgain(t)
    BY <2>2 DEF StopJoin, StopFree, InitBackends, StartAgain, At, envVars
  <2>3. CASE Shutdown(t) \/ GetDevices(t)
    BY <2>3 DEF Shutdown, GetDevices, Undefined, At, envVars
  <2>4. CASE Start(t)
    BY <2>4 DEF Start, Undefined, At, envVars
  <2>. QED BY <1>3, <2>1, <2>2, <2>3, <2>4 DEF Calls
<1>4. ASSUME NEW t \in Handling, Calls(t)
      PROVE  todo'["dbus"] = <<>>
  <2>1. t # "dbus"
    BY <1>2, <1>3, <1>4
  <2>. QED BY <1>1, <1>2, <1>3, <1>4, <2>1 DEF Then
<1>5. ASSUME NEW s \in Scanner, Polls(s) \/ OtherLeaves(s)
      PROVE  todo'["dbus"] = <<>>
  BY <1>2, <1>5 DEF Polls, PollOpens, PollGivesUp, PollOpensFreed, PollFires, ScriptEnds,
     PollCancelled, PollCancelledAsking, PollerFrame, Undefined, envVars, OtherLeaves, UsbFrame
<1>6. ASSUME Signals \/ TrigSet
      PROVE  todo'["dbus"] = <<>>
  BY <1>1, <1>2, <1>6 DEF Signals, AlarmRings, Interrupts, HandlerReturns, Then, envVars, TrigSet,
     TrigFrame
<1>7. ASSUME Answers
      PROVE  todo'["dbus"] = <<>>
  BY <1>1, <1>2, <1>7 DEF Answers, TrigLock, TrigAwake, TrigFrame, ReceiveDevice, SanedStarts,
     Release
<1>8. ASSUME Outside
      PROVE  todo'["dbus"] = <<>>
  BY <1>1, <1>2, <1>8 DEF Outside, Hup, Interrupts, Acquire, TrigCall, TrigFrame, Plug, Unplug,
     OtherClaims, UsbFrame, PollFires, PollerFrame, envVars
<1>9. CASE UNCHANGED vars
  BY <1>2, <1>9 DEF vars, envVars
<1>. QED BY <1>4, <1>5, <1>6, <1>7, <1>8, <1>9 DEF Next

\* Every reachable state satisfies the inductive invariant.
THEOREM Inductive == Spec => []IInv
<1>1. Init => IInv /\ SessionInv
  BY InitInv DEF Init, SessionInv
<1>2. IInv /\ SessionInv /\ [Next]_vars => (IInv /\ SessionInv)'
  BY NextInv, StutterInv, SessionNext
<1>. QED BY <1>1, <1>2, PTL DEF Spec

\* The variables of the pollers, the lists, the handlers and the bus have the
\* values TypeOK names, for every number of scanners and of events.
THEOREM TypeCorrect == Spec => []TypeOK
<1>1. IInv => TypeOK
  <2>. SUFFICES ASSUME IInv PROVE TypeOK
    OBVIOUS
  <2>1. \A t \in Handling : Elements(todo[t]) \subseteq Call
    BY DEF IInv, TypeThread, Elements
  <2>2. ready \cup triggered \cup cancelled \subseteq Elements(slots)
    BY DEF IInv, TypePoll
  <2>3. TypeUsb
    BY DEF IInv
  <2>4. /\ devices \in Seq(Scanner) /\ slots \in Seq(Scanner)
        /\ ppc \in [Scanner -> {"none", "opening", "polling", "script", "settling", "gone"}]
        /\ \A s \in Scanner : ppc[s] # "none" => s \in Elements(slots)
    BY DEF IInv, TypePoll
  <2>5. /\ owner \in Thread \cup {"none"} /\ idx \in 1..(MaxScanners + 1)
        /\ tpc \in {"idle", "lock", "await", "slot"} /\ tdev \in Scanner
        /\ events \in Seq({"add", "remove"}) /\ session \in {"none", "acquire", "saned"}
        /\ ub \in {"none", "unloaded", "torn", "overrun", "freed", "slot", "nested", "device"}
        /\ used \in 0..MaxEvents /\ alone \in BOOLEAN
    BY DEF IInv, TypeThread
  <2>6. \A t \in Handling : Elements(todo[t]) \subseteq
          Elements(Reload) \cup {"cancel", "join", "create", "HUP", "ALRM"}
    BY <2>1 DEF Call
  <2>. QED BY <2>2, <2>3, <2>4, <2>5, <2>6 DEF TypeOK, TypeUsb
<1>. QED BY <1>1, Inductive, PTL

\* An interface that scanbd has claimed has a poller that uses it, or one that
\* the stop under way has cancelled and will close (scanbuttond_wrapper.c:935).
THEOREM ClaimPolled == Spec => []ClaimHasPoller
<1>1. IInv => ClaimHasPoller
  BY DEF IInv
<1>. QED BY <1>1, Inductive, PTL

\* A scanner that its backend does not have as it is now is still cared for: the
\* backends are about to be loaded, or the udev monitor has an event, or without
\* udev a look, the alarm or a history that names it is left (libusbi.c:218).
THEOREM ChangeKept == Spec => []ChangeNotLost
<1>1. IInv => ChangeNotLost
  <2>. SUFFICES ASSUME IInv, NEW s \in Stale, ~Loading
                PROVE  IF hotplug THEN events # <<>> ELSE Changed \/ alarm \/ s \in missed
    BY DEF ChangeNotLost
  <2>1. ~Awaited(s)
    BY UnloadingLoads DEF IInv, Awaited
  <2>2. s \in (seen \cup attached) \ current \/ seen # plugged
    BY DEF Stale
  <2>. QED BY <2>1, <2>2 DEF IInv, BusInv, Changed
<1>. QED BY <1>1, Inductive, PTL

\* Handlers that do not overlap never touch what is freed or unloaded, but for
\* a device number, a device that has gone, and the list a removal leaves.
THEOREM SafeAlone == Spec => []AloneIsSafe
<1>1. IInv => AloneIsSafe
  BY DEF IInv
<1>. QED BY <1>1, Inductive, PTL

\* A stop frees the array when it has joined all pollers.
LEMMA SlotsKeptStop ==
  ASSUME IInv, NEW t \in Handling, StopFree(t)
  PROVE  tpc # "slot" /\ \A s \in Scanner : ppc[s] = "none"
<1>1. At(t, "join") /\ idx > Len(slots) /\ ub = "none"
  BY DEF StopFree, At
<1>2. todo[t] # <<>> /\ todo[t][1] = "join"
  BY <1>1 DEF IInv, TypeThread, At
<1>3. owner = t
  BY <1>1, <1>2 DEF IInv, OwnerInv, Holds
<1>4. tpc # "slot"
  BY <1>1, <1>3 DEF IInv, OwnerInv, Handling
<1>. QED BY <1>1, <1>4, AllJoined

\* A start makes an array when there is none.
LEMMA SlotsKeptStart ==
  ASSUME IInv, NEW t \in Handling, Start(t)
  PROVE  tpc # "slot" /\ \A s \in Scanner : ppc[s] = "none"
<1>1. PICK c \in {"start", "create"} : At(t, c) /\ (c = "start" => ~polling /\ CanLock(t))
  BY DEF Start
<1>2. todo[t] # <<>> /\ todo[t][1] = c /\ ub = "none"
  BY <1>1 DEF IInv, TypeThread, At
<1>3. slots = <<>>
  BY <1>1, <1>2 DEF IInv, SlotInv, First
<1>4. tpc # "slot"
  <2>1. CASE c = "start"
    BY <1>1, <1>2, <2>1 DEF IInv, OwnerInv, CanLock, Handling
  <2>2. CASE c = "create"
    <3>1. Holds(todo[t])
      BY <1>2, <2>2 DEF Holds
    <3>. QED BY <1>2, <3>1 DEF IInv, OwnerInv, Handling
  <2>. QED BY <2>1, <2>2
<1>. QED BY <1>3, <1>4, NoSlots, Unpolled

\* scbtn_poll_threads is freed and replaced (scanbuttond_wrapper.c:964) when no
\* poller is left that could use its slot, and no trigger waits for one.
THEOREM SlotsKept == Spec => SlotsOutlivePollers
<1>1. ASSUME IInv, [Next]_vars, slots' # slots
      PROVE  tpc # "slot" /\ \A s \in Scanner : ppc[s] = "none"
  <2>1. ASSUME NEW t \in Handling, Calls(t)
        PROVE  StopFree(t) \/ Start(t)
    <3>1. ~StopNothing(t) /\ ~StopLock(t) /\ ~StopCancel(t) /\ ~StopAllCancelled(t) /\ ~StopJoin(t)
      BY <1>1 DEF StopNothing, StopLock, StopCancel, StopAllCancelled, StopJoin
    <3>2. ~Shutdown(t) /\ ~InitBackends(t) /\ ~GetDevices(t) /\ ~StartAgain(t)
      BY <1>1 DEF Shutdown, InitBackends, GetDevices, StartAgain, Undefined
    <3>. QED BY <2>1, <3>1, <3>2 DEF Calls
  <2>2. \A s \in Scanner : ~Polls(s)
    BY <1>1 DEF Polls, PollOpens, PollGivesUp, PollOpensFreed, PollFires, ScriptEnds,
       PollCancelled, PollCancelledAsking, PollerFrame, Undefined
  <2>3. ~Signals
    BY <1>1 DEF Signals, AlarmRings, Interrupts, HandlerReturns, Frame
  <2>4. ~Answers /\ ~TrigSet
    BY <1>1 DEF Answers, TrigLock, TrigAwake, TrigSet, TrigFrame, ReceiveDevice, SanedStarts,
       Release, Frame
  <2>5. ~Outside
    BY <1>1 DEF Outside, Hup, Interrupts, Acquire, Frame, TrigCall, TrigFrame, Plug, Unplug,
       OtherClaims, UsbFrame, PollFires, PollerFrame
  <2>6. \A s \in Scanner : ~OtherLeaves(s)
    BY <1>1 DEF OtherLeaves, UsbFrame
  <2>7. slots' = slots \/ Next
    BY <1>1 DEF vars
  <2>. QED BY <1>1, <2>1, <2>2, <2>3, <2>4, <2>5, <2>6, <2>7, SlotsKeptStop, SlotsKeptStart
       DEF Next
<1>2. IInv /\ [Next]_vars =>
        [slots' # slots => tpc # "slot" /\ \A s \in Scanner : ppc[s] = "none"]_vars
  BY <1>1
<1>. QED BY <1>2, Inductive, PTL DEF Spec, SlotsOutlivePollers

=============================================================================
