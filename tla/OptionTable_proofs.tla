------------------------- MODULE OptionTable_proofs -------------------------
(***************************************************************************)
(* Proofs about module OptionTable, for every device, every configuration  *)
(* and every number of failing reads: the table keeps to its bounds, each  *)
(* action stands in it, and the actions that run are those whose options   *)
(* have changed.                                                           *)
(***************************************************************************)
EXTENDS OptionTable, FiniteSetTheorems, SequenceTheorems, TLAPS

-----------------------------------------------------------------------------
(* The inductive invariant                                                 *)

Distinct(f) == \A m, n \in 1..Len(f) : f[m] = f[n] => m = n

\* Entries come from positions of the loops that have been passed.
EntriesPassed ==
  \A n \in 1..Len(table) :
    /\ table[n].action[1] <= at.section
    /\ pc = "actions" /\ table[n].action[1] = at.section
         => table[n].action[2] <= at.item
    /\ Usable(table[n].number)

FunctionsUsable ==
  /\ Distinct(functions)
  /\ functions # <<>> => Sane
  /\ \A f \in 1..Len(functions) : Usable(functions[f])

\* The entries that have had their turn in this cycle.
Done ==
  CASE pc = "poll" -> si - 1
    [] pc \in {"fire", "script", "settle", "aborted"} -> si
    [] OTHER -> Len(table)

InLoop == pc \in {"poll", "fire", "script", "settle", "sleep", "aborted"}

Seen(o) == \E m \in 1..Done : table[m].number = o

Changed(n) ==
  LET o == table[n].number IN
  was[o] \in table[n].from /\ is[o] \in table[n].to

Ran(n) == \E b \in BOOLEAN : <<n, b>> \in runs

LoopInv ==
  /\ ~InLoop => /\ asked = {} /\ runs = {} /\ triggered = 0 /\ si = 1
                /\ ~settled
  /\ InLoop => Sane
  /\ pc \in {"fire", "script", "settle", "aborted"} => si <= Len(table)

\* Values of the entries before and after the one whose turn it is.
ValuesInv ==
  /\ InLoop => \A n \in 1..Done : table[n].value = is[table[n].number]
  /\ settled => \A n \in (Done + 1)..Len(table) :
       LET o == table[n].number IN
       table[n].value = IF Seen(o) THEN was[o] ELSE is[o]

TriggerInv ==
  /\ pc = "fire" => /\ triggered # 0
                    /\ \/ triggered \in asked
                       \/ triggered = si /\ (settled => Changed(si))
  /\ pc \in {"poll", "settle", "sleep"} /\ triggered # 0 => triggered \in asked

RunsInv ==
  settled =>
    /\ \A n \in 1..Len(table) : <<n, FALSE>> \in runs => n <= Done /\ Changed(n)
    /\ \A n \in 1..Done :
         Changed(n) => Ran(n) \/ (pc \in {"fire", "aborted"} /\ n = si
                                  /\ triggered = si)

TableInv ==
  /\ SaneTableInBounds /\ OneScriptPerOption /\ EveryActionStands
  /\ EntriesPassed /\ FunctionsUsable

CycleInv == LoopInv /\ ValuesInv /\ TriggerInv /\ RunsInv

IInv == TypeOK /\ TableInv /\ CycleInv

-----------------------------------------------------------------------------
(* The helpers of the loops                                                *)

\* Put changes one place of a list and makes it longer by one at most.
LEMMA PutResult ==
  ASSUME NEW S, NEW list \in Seq(S), NEW e \in S, NEW n \in 1..(Len(list) + 1)
  PROVE  /\ Put(list, n, e) \in Seq(S)
         /\ Len(Put(list, n, e)) = IF n <= Len(list) THEN Len(list)
                                                     ELSE Len(list) + 1
         /\ \A m \in 1..Len(Put(list, n, e)) :
              Put(list, n, e)[m] = IF m = n THEN e ELSE list[m]
  BY DEF Put

\* Index finds an entry of the option, or the place after the last.
LEMMA IndexResult ==
  ASSUME NEW S, NEW list \in Seq(S), NEW o
  PROVE  /\ Index(list, o) \in 1..(Len(list) + 1)
         /\ Index(list, o) <= Len(list) => list[Index(list, o)] = o
         /\ Index(list, o) = Len(list) + 1
              => \A n \in 1..Len(list) : list[n] # o
<1>1. CASE \E n \in 1..Len(list) : list[n] = o
  <2> DEFINE i == CHOOSE n \in 1..Len(list) : list[n] = o
  <2>1. i \in 1..Len(list) /\ list[i] = o
    BY <1>1
  <2>2. Index(list, o) = i
    BY <1>1 DEF Index
  <2> QED BY <2>1, <2>2
<1>2. CASE ~\E n \in 1..Len(list) : list[n] = o
  BY <1>2 DEF Index
<1> QED BY <1>1, <1>2

\* A list of different options that lacks one of 1..k is shorter than k.
LEMMA Shorter ==
  ASSUME NEW k \in Nat, NEW o \in 1..k, NEW f, Distinct(f), f \in Seq(1..k),
         \A n \in 1..Len(f) : f[n] # o
  PROVE  Len(f) < k
<1>1. SUFFICES ASSUME Len(f) >= k PROVE FALSE
  OBVIOUS
<1> DEFINE S == 1..k
           T == (1..k) \ {o}
           g == [n \in S |-> f[n]]
<1>2. IsFiniteSet(S) /\ Cardinality(S) = k
  BY FS_Interval
<1>3. IsFiniteSet(T) /\ Cardinality(T) = k - 1
  BY <1>2, FS_RemoveElement
<1>4. g \in [S -> T]
  BY <1>1
<1>5. PICK x, y \in S : x # y /\ g[x] = g[y]
  <2>1. Cardinality(T) < Cardinality(S)
    BY <1>2, <1>3
  <2> HIDE DEF S, T, g
  <2> QED BY <1>2, <1>3, <1>4, <2>1, FS_PigeonHole
<1> QED BY <1>1, <1>5 DEF Distinct

\* The section the loops are at, and what it holds.
LEMMA SectType ==
  ASSUME TypeOK
  PROVE  /\ config \in Configs /\ config.sections \in Seq(Section)
         /\ config.engine \in Engine /\ config.multiple \in BOOLEAN
         /\ Sect \in Section
         /\ \A i \in 1..Len(Sect.actions) : Sect.actions[i] \in Action
         /\ LastOption \in Nat /\ LastOption <= Size
         /\ Numbers \in Seq(Option) /\ Len(Numbers) = Len(table)
         /\ \A n \in 1..Len(table) : Numbers[n] = table[n].number
<1>1. config \in Configs /\ at.section \in 1..Len(config.sections)
  BY DEF TypeOK
<1>2. config.sections \in Seq(Section) /\ config.engine \in Engine
      /\ config.multiple \in BOOLEAN
  BY <1>1, ConfigAssumption
<1>3. Sect \in Section
  BY <1>1, <1>2 DEF Sect
<1>4. \A i \in 1..Len(Sect.actions) : Sect.actions[i] \in Action
  BY <1>3 DEF Section
<1>5. LastOption \in Nat /\ LastOption <= Size
  BY DeviceAssumption DEF LastOption
<1>6. table \in Seq(TableEntry)
  BY DEF TypeOK
<1>7. \A n \in 1..Len(table) : table[n].number \in Option
  <2>1. \A n \in 1..Len(table) : table[n] \in TableEntry
    BY <1>6
  <2> QED BY <2>1 DEF TableEntry
<1>8. Numbers \in Seq(Option) /\ Len(Numbers) = Len(table)
      /\ \A n \in 1..Len(table) : Numbers[n] = table[n].number
  BY <1>6, <1>7 DEF Numbers
<1> QED BY <1>1, <1>2, <1>3, <1>4, <1>5, <1>8

\* The fields of an entry.
LEMMA EntryFields ==
  ASSUME table \in Seq(TableEntry), NEW n \in 1..Len(table)
  PROVE  /\ table[n].number \in Option /\ table[n].value \in Value
         /\ table[n].action[1] \in Nat /\ table[n].action[2] \in Nat
<1>1. table[n] \in TableEntry
  OBVIOUS
<1>2. table[n].action \in Nat \X Nat
  BY <1>1 DEF TableEntry
<1> QED BY <1>1, <1>2 DEF TableEntry

\* A read leaves the device and the counter in their range.
LEMMA ReadType ==
  ASSUME TypeOK, NEW o \in Option, NEW v, Read(o, v)
  PROVE  v \in Value /\ val' \in [Option -> Value] /\ failures' \in 0..MaxFailures
<1>1. val \in [Option -> Value] /\ failures \in 0..MaxFailures /\ MaxFailures \in Nat
  BY DeviceAssumption DEF TypeOK
<1> QED BY <1>1 DEF Read, Value

-----------------------------------------------------------------------------
(* Types                                                                   *)

\* What entering an action in the table does to it.
LEMMA PutEntry ==
  ASSUME TypeOK, Matching("actions"), NEW v \in Value,
         NEW t, t = Put(table, Slot, Entry(v))
  PROVE  /\ Slot \in 1..(Len(table) + 1)
         /\ Entry(v) \in TableEntry
         /\ t \in Seq(TableEntry)
         /\ Len(t) = IF Slot <= Len(table) THEN Len(table) ELSE Len(table) + 1
         /\ \A m \in 1..Len(t) : t[m] = IF m = Slot THEN Entry(v) ELSE table[m]
<1>1. at \in [section: 1..Len(config.sections), item: Nat \ {0},
              option: Option]
  BY DEF TypeOK
<1>2. Sect.actions[at.item] \in Action
  BY <1>1, SectType DEF Matching
<1>3. Entry(v) \in TableEntry
  <2>1. at.section \in Nat /\ at.item \in Nat /\ at.option \in Option
    BY <1>1
  <2> QED BY <1>2, <2>1 DEF Entry, TableEntry, Action
<1>4. table \in Seq(TableEntry)
  BY DEF TypeOK
<1>5. Slot \in 1..(Len(table) + 1)
  <2>1. Numbers \in Seq(Option) /\ Len(Numbers) = Len(table)
    BY SectType
  <2>2. Index(Numbers, at.option) \in 1..(Len(table) + 1)
    BY <2>1, IndexResult
  <2> QED BY <1>4, <2>2 DEF Slot
<1>6. ASSUME NEW e \in TableEntry, NEW n \in 1..(Len(table) + 1), t = Put(table, n, e)
      PROVE  /\ t \in Seq(TableEntry)
             /\ Len(t) = IF n <= Len(table) THEN Len(table) ELSE Len(table) + 1
             /\ \A m \in 1..Len(t) : t[m] = IF m = n THEN e ELSE table[m]
  BY <1>4, <1>6, PutResult
<1> QED BY <1>3, <1>5, <1>6

\* The loops keep to the options of the device.
LEMMA ForwardType ==
  ASSUME TypeOK
  PROVE  Forward \in [section: 1..Len(config.sections), item: Nat \ {0},
                      option: Option]
<1>1. at \in [section: 1..Len(config.sections), item: Nat \ {0},
              option: Option]
  BY DEF TypeOK
<1>2. LastOption \in Nat /\ LastOption <= Size /\ Size \in Nat \ {0}
  BY SectType, DeviceAssumption
<1>3. CASE at.option < LastOption
  <2>1. at.option + 1 \in Option
    BY <1>1, <1>2, <1>3 DEF Option
  <2>2. Forward = [at EXCEPT !.option = at.option + 1]
    BY <1>3 DEF Forward
  <2> QED BY <1>1, <2>1, <2>2
<1>4. CASE ~(at.option < LastOption)
  <2>1. 1 \in Option /\ at.item + 1 \in Nat \ {0}
    BY <1>1, <1>2 DEF Option
  <2>2. Forward = [at EXCEPT !.option = 1, !.item = at.item + 1]
    BY <1>4 DEF Forward
  <2> QED BY <1>1, <2>1, <2>2
<1> QED BY <1>3, <1>4

\* The entries stay in the table once they are there.
LEMMA MatchActionType ==
  ASSUME TypeOK, MatchAction
  PROVE  TypeOK' /\ Len(table') >= Len(table)
<1>1. at \in [section: 1..Len(config.sections), item: Nat \ {0},
              option: Option]
  BY DEF TypeOK
<1>2. at' \in [section: 1..Len(config.sections), item: Nat \ {0},
               option: Option]
  BY ForwardType DEF MatchAction
<1>3. /\ table' \in Seq(TableEntry) /\ Len(table') >= Len(table)
      /\ val' \in [Option -> Value] /\ failures' \in 0..MaxFailures
      /\ is' \in [Option -> Value]
  <2>1. CASE UNCHANGED <<table, val, failures, is>>
    BY <2>1 DEF TypeOK
  <2>2. CASE ~UNCHANGED <<table, val, failures, is>>
    <3>1. PICK v \in Value : Install(v)
      BY <2>2 DEF MatchAction
    <3>2. /\ Read(at.option, v) /\ table' = Put(table, Slot, Entry(v))
          /\ is' = [is EXCEPT ![at.option] = v]
      BY <2>2, <3>1 DEF Install
    <3>3. val' \in [Option -> Value] /\ failures' \in 0..MaxFailures
      BY <1>1, <3>2, ReadType
    <3>4. is' \in [Option -> Value]
      BY <3>2 DEF TypeOK
    <3>5. table' \in Seq(TableEntry) /\ Len(table') >= Len(table)
      BY <3>2, PutEntry DEF MatchAction, TypeOK
    <3> QED BY <3>3, <3>4, <3>5
  <2> QED BY <2>1, <2>2
<1> QED BY <1>2, <1>3 DEF MatchAction, MatchFrame, TypeOK

LEMMA ScbtnMatchType ==
  ASSUME TypeOK, ScbtnMatchAction
  PROVE  TypeOK' /\ Len(table') >= Len(table)
<1>1. at \in [section: 1..Len(config.sections), item: Nat \ {0},
              option: Option]
  BY DEF TypeOK
<1>2. at' \in [section: 1..Len(config.sections), item: Nat \ {0},
               option: Option]
  BY ForwardType DEF ScbtnMatchAction
<1>3. table' \in Seq(TableEntry) /\ Len(table') >= Len(table)
  <2>1. CASE table' = table
    BY <2>1 DEF TypeOK
  <2>2. CASE table' = Put(table, Slot, Entry(0))
    BY <2>2, PutEntry DEF ScbtnMatchAction, TypeOK, Value
  <2> QED BY <2>1, <2>2 DEF ScbtnMatchAction
<1> QED BY <1>2, <1>3 DEF ScbtnMatchAction, MatchFrame, TypeOK

LEMMA MatchFunctionType ==
  ASSUME TypeOK, MatchFunction
  PROVE  TypeOK' /\ UNCHANGED table
<1>1. at \in [section: 1..Len(config.sections), item: Nat \ {0},
              option: Option] /\ functions \in Seq(Option)
  BY DEF TypeOK
<1>2. at' \in [section: 1..Len(config.sections), item: Nat \ {0},
               option: Option]
  BY ForwardType DEF MatchFunction
<1>3. functions' \in Seq(Option)
  <2>1. Put(functions, Index(functions, at.option), at.option) \in Seq(Option)
    BY <1>1, IndexResult, PutResult
  <2> QED BY <1>1, <2>1 DEF MatchFunction
<1> QED BY <1>2, <1>3 DEF MatchFunction, MatchFrame, TypeOK

LEMMA EndOfItemsType ==
  ASSUME TypeOK, EndOfItems
  PROVE  TypeOK' /\ UNCHANGED table
<1>1. at \in [section: 1..Len(config.sections), item: Nat \ {0},
              option: Option]
  BY DEF TypeOK
<1>2. config.sections \in Seq(Section)
  BY SectType
<1>3. at' \in [section: 1..Len(config.sections), item: Nat \ {0},
               option: Option]
  <2>1. 1 \in Option /\ 1 \in Nat \ {0}
    BY DeviceAssumption DEF Option
  <2>2. CASE at' = [at EXCEPT !.item = 1, !.option = 1]
    BY <1>1, <1>2, <2>1, <2>2 DEF EndOfItems
  <2>3. CASE /\ at' = [section |-> at.section + 1, item |-> 1, option |-> 1]
             /\ at.section < Len(config.sections)
    <3>1. at.section + 1 \in 1..Len(config.sections)
      BY <1>1, <1>2, <2>3
    <3>2. config' = config
      BY DEF EndOfItems
    <3> QED BY <2>1, <2>3, <3>1, <3>2
  <2>4. CASE at' = at
    BY <1>1, <2>4 DEF EndOfItems
  <2> QED BY <2>2, <2>3, <2>4 DEF EndOfItems
<1>4. pc' \in {"actions", "functions", "poll", "scanbuttond"}
  BY DEF EndOfItems
<1> QED BY <1>3, <1>4 DEF EndOfItems, history, TypeOK

\* What a fetch leaves behind.
LEMMA FetchType ==
  ASSUME TypeOK, Polling, NEW v \in Value, Fetch(v)
  PROVE  /\ val' \in [Option -> Value] /\ failures' \in 0..MaxFailures
         /\ was' \in [Option -> Value] /\ is' \in [Option -> Value]
<1>1. Number \in Option
  <2>1. table[si] \in TableEntry
    BY DEF TypeOK, Polling
  <2> QED BY <2>1 DEF Number, TableEntry
<1>2. CASE UNCHANGED <<val, failures, was, is>>
  BY <1>2 DEF TypeOK
<1>3. CASE /\ Read(Number, v)
           /\ was' = [was EXCEPT ![Number] = is[Number]]
           /\ is' = [is EXCEPT ![Number] = v]
  <2>1. val' \in [Option -> Value] /\ failures' \in 0..MaxFailures
    BY <1>1, <1>3, ReadType
  <2>2. was \in [Option -> Value] /\ is \in [Option -> Value]
    BY DEF TypeOK
  <2> QED BY <1>1, <1>3, <2>1, <2>2
<1> QED BY <1>2, <1>3 DEF Fetch

\* Only the value of the entry whose turn it is changes.
LEMMA CheckTable ==
  ASSUME TypeOK, Polling, NEW v \in Value, NEW t,
         t = [table EXCEPT ![si].value = v]
  PROVE  /\ t \in Seq(TableEntry) /\ Len(t) = Len(table)
         /\ \A n \in 1..Len(table) :
              /\ t[n].number = table[n].number /\ t[n].action = table[n].action
              /\ t[n].from = table[n].from /\ t[n].to = table[n].to
              /\ t[n].value = IF n = si THEN v ELSE table[n].value
<1>1. table \in Seq(TableEntry) /\ si \in 1..Len(table)
  BY DEF TypeOK, Polling
<1>2. table[si] \in TableEntry
  BY <1>1
<1> DEFINE e == [table[si] EXCEPT !.value = v]
<1>3. e \in TableEntry /\ e.number = table[si].number
      /\ e.action = table[si].action /\ e.from = table[si].from
      /\ e.to = table[si].to /\ e.value = v
  BY <1>2 DEF TableEntry
<1>4. t = [table EXCEPT ![si] = e]
  BY <1>1
<1> HIDE DEF e
<1> QED BY <1>1, <1>3, <1>4, ExceptSeq

LEMMA CheckType ==
  ASSUME TypeOK, Check
  PROVE  TypeOK'
<1>1. PICK v \in Value :
        /\ Fetch(v)
        /\ table' = [table EXCEPT ![si].value = v]
        /\ triggered' \in {si, triggered}
        /\ \/ pc' = "fire" /\ si' = si
           \/ pc' = pc /\ si' = si + 1
  BY DEF Check
<1>2. Polling /\ UNCHANGED <<config, at, functions, env, runs, asked, settled>>
  BY DEF Check
<1>3. /\ val' \in [Option -> Value] /\ failures' \in 0..MaxFailures
      /\ was' \in [Option -> Value] /\ is' \in [Option -> Value]
  BY <1>1, <1>2, FetchType
<1>4. table' \in Seq(TableEntry) /\ Len(table') = Len(table)
  BY <1>1, <1>2, CheckTable
<1>5. /\ si \in 1..Len(table) /\ triggered \in 0..Len(table)
      /\ Len(table) \in Nat
  BY <1>2 DEF TypeOK, Polling
<1>6. si' \in 1..(Len(table) + 1) /\ triggered' \in 0..Len(table)
  BY <1>1, <1>5
<1> QED BY <1>1, <1>2, <1>3, <1>4, <1>6 DEF TypeOK, Polling

LEMMA AddFunctionType ==
  ASSUME TypeOK, AddFunction
  PROVE  TypeOK' /\ UNCHANGED table
<1> DEFINE f == Len(env) + 1
<1>1. PICK v \in Value : FunctionValue(f, v) /\ env' = Append(env, v)
  BY DEF AddFunction
<1>2. functions \in Seq(Option) /\ env \in Seq(Value) /\ f \in 1..Len(functions)
  BY DEF AddFunction, TypeOK
<1>3. functions[f] \in Option
  BY <1>2
<1>4. val' \in [Option -> Value] /\ failures' \in 0..MaxFailures
  <2>1. CASE UNCHANGED <<val, failures>>
    BY <2>1 DEF TypeOK
  <2>2. CASE Read(functions[f], v)
    BY <1>3, <2>2, ReadType
  <2> QED BY <1>1, <2>1, <2>2 DEF FunctionValue
<1>5. env' \in Seq(Value) /\ pc' \in {"fire", "aborted"}
  BY <1>1, <1>2 DEF AddFunction
<1> QED BY <1>4, <1>5 DEF AddFunction, TypeOK

LEMMA OtherLoopType ==
  ASSUME TypeOK, LoopInv, TriggerInv,
         \/ RunScript \/ ScriptEnds \/ Reopen \/ EndOfCycle \/ NextCycle
         \/ (\E n \in 1..Size : Request(n)) \/ (\E o \in Option : Change(o))
  PROVE  TypeOK' /\ UNCHANGED table
<1>1. table \in Seq(TableEntry) /\ Len(table) \in Nat
  BY DEF TypeOK
<1>2. CASE RunScript
  <2>1. triggered \in 1..Len(table)
    BY <1>1, <1>2 DEF TypeOK, RunScript, TriggerInv
  <2>2. runs' \subseteq (1..Len(table)) \X BOOLEAN
    <3> DEFINE b == triggered \in asked
    <3>1. b \in BOOLEAN
      OBVIOUS
    <3>2. runs' = runs \cup {<<triggered, b>>}
      BY <1>2 DEF RunScript
    <3> HIDE DEF b
    <3> QED BY <2>1, <3>1, <3>2 DEF TypeOK
  <2> QED BY <1>1, <1>2, <2>2 DEF RunScript, build, TypeOK
<1>3. CASE ScriptEnds
  BY <1>1, <1>3 DEF ScriptEnds, PollFrame, build, TypeOK
<1>4. CASE Reopen
  BY <1>1, <1>4 DEF Reopen, PollFrame, build, TypeOK, LoopInv
<1>5. CASE EndOfCycle
  BY <1>5 DEF EndOfCycle, PollFrame, build, TypeOK
<1>6. CASE NextCycle
  BY <1>1, <1>6 DEF NextCycle, build, TypeOK
<1>7. CASE \E n \in 1..Size : Request(n)
  BY <1>1, <1>7, DeviceAssumption DEF Request, build, TypeOK
<1>8. ASSUME NEW o \in Option, Change(o) PROVE TypeOK' /\ UNCHANGED table
  <2>1. val[o] \in {0, 1}
    BY DEF TypeOK, Value
  <2>2. val' \in [Option -> Value]
    BY <1>8, <2>1 DEF Change, TypeOK, Value
  <2> QED BY <1>8, <2>2 DEF Change, build, history, TypeOK
<1> QED BY <1>2, <1>3, <1>4, <1>5, <1>6, <1>7, <1>8

-----------------------------------------------------------------------------
(* The tables                                                              *)

\* Without multiple_actions, or with room for it, an action always finds a
\* place: the entries are of different options, and not of this one.
LEMMA RoomForNew ==
  ASSUME TypeOK, OneScriptPerOption, EntriesPassed, ~config.multiple,
         Usable(at.option), Slot = Len(table) + 1
  PROVE  Len(table) < LastOption
<1>1. /\ Numbers \in Seq(Option) /\ Len(Numbers) = Len(table)
      /\ LastOption \in Nat /\ at.option \in Option
      /\ \A n \in 1..Len(table) : Numbers[n] = table[n].number
  BY SectType DEF TypeOK
<1>2. Slot = Index(Numbers, at.option)
  BY DEF Slot
<1>3. \A n \in 1..Len(Numbers) : Numbers[n] # at.option
  BY <1>1, <1>2, IndexResult
<1>4. \A n \in 1..Len(Numbers) : Numbers[n] \in 1..LastOption
  <2>1. \A n \in 1..Len(Numbers) : Numbers[n] \in Option
    BY <1>1
  <2>2. \A n \in 1..Len(Numbers) : Numbers[n] <= LastOption
    BY <1>1 DEF EntriesPassed, Usable
  <2> QED BY <1>1, <2>1, <2>2 DEF Option
<1>5. Numbers \in Seq(1..LastOption)
  BY <1>1, <1>4
<1>6. Distinct(Numbers)
  BY <1>1 DEF OneScriptPerOption, Distinct
<1>7. at.option \in 1..LastOption
  BY <1>1 DEF Usable, Option
<1> QED BY <1>1, <1>3, <1>5, <1>6, <1>7, Shorter

\* A match: the entry goes to Slot, or, in sane.c, is left out.
LEMMA MatchCases ==
  ASSUME TypeOK, MatchAction \/ ScbtnMatchAction
  PROVE  /\ Matching("actions") /\ at' = Forward /\ UNCHANGED <<pc, config>>
         /\ UNCHANGED functions
         /\ \/ /\ ~(Usable(at.option) /\ at.option \in Sect.actions[at.item].filter)
               /\ UNCHANGED table
            \/ /\ Usable(at.option) /\ at.option \in Sect.actions[at.item].filter
               /\ Sane /\ Slot = Size + 1 /\ UNCHANGED table
            \/ /\ Usable(at.option) /\ at.option \in Sect.actions[at.item].filter
               /\ Sane => Slot # Size + 1
               /\ \E v \in Value : table' = Put(table, Slot, Entry(v))
<1>1. CASE MatchAction
  BY <1>1 DEF MatchAction, MatchFrame, Install
<1>2. CASE ScbtnMatchAction
  BY <1>2 DEF ScbtnMatchAction, MatchFrame, Value
<1> QED BY <1>1, <1>2

\* What an entry put at Slot means for the entries of the table: with
\* multiple_actions all of them stay, as long as the table has its bounds.
LEMMA SlotKeeps ==
  ASSUME TypeOK, TableInBounds
  PROVE  /\ config.multiple => Slot = Len(table) + 1
         /\ Slot <= Len(table) => table[Slot].number = at.option
<1>1. /\ Numbers \in Seq(Option) /\ Len(Numbers) = Len(table)
      /\ \A n \in 1..Len(table) : Numbers[n] = table[n].number
      /\ table \in Seq(TableEntry) /\ Size \in Nat
  BY SectType, DeviceAssumption DEF TypeOK
<1>2. /\ Index(Numbers, at.option) \in 1..(Len(table) + 1)
      /\ Index(Numbers, at.option) <= Len(table)
           => table[Index(Numbers, at.option)].number = at.option
  BY <1>1, IndexResult
<1> QED BY <1>1, <1>2 DEF Slot, TableInBounds

\* One turn of the loop passes the position it is at, and no other.
LEMMA PassedStep ==
  ASSUME TypeOK, pc = "actions", pc' = pc, at' = Forward,
         NEW s \in Nat, NEW i \in Nat, NEW o \in Option, o <= LastOption,
         Passed(s, i, o)'
  PROVE  Passed(s, i, o) \/ (s = at.section /\ i = at.item /\ o = at.option)
<1>1. /\ at \in [section: 1..Len(config.sections), item: Nat \ {0},
                 option: Option]
      /\ LastOption \in Nat
  BY SectType DEF TypeOK
<1>2. CASE at.option < LastOption
  <2>1. at'.section = at.section /\ at'.item = at.item
        /\ at'.option = at.option + 1
    BY <1>1, <1>2 DEF Forward
  <2> QED BY <1>1, <2>1 DEF Passed, Option
<1>3. CASE ~(at.option < LastOption)
  <2>1. at'.section = at.section /\ at'.item = at.item + 1 /\ at'.option = 1
    BY <1>1, <1>3 DEF Forward
  <2> QED BY <1>1, <1>3, <2>1 DEF Passed, Option
<1> QED BY <1>2, <1>3

\* The entries before and after one turn of the loop.
LEMMA EntriesStep ==
  ASSUME TypeOK, TableInv, MatchAction \/ ScbtnMatchAction
  PROVE  EntriesPassed' /\ SaneTableInBounds' /\ OneScriptPerOption'
<1>1. /\ at \in [section: 1..Len(config.sections), item: Nat \ {0},
                 option: Option]
      /\ table \in Seq(TableEntry) /\ Size \in Nat /\ LastOption \in Nat
      /\ LastOption <= Size
  BY SectType, DeviceAssumption DEF TypeOK
<1>2. /\ Matching("actions") /\ at' = Forward /\ UNCHANGED <<pc, config>>
      /\ UNCHANGED functions
  BY MatchCases
<1>3. at'.section = at.section /\ at'.item >= at.item
  BY <1>1, <1>2 DEF Forward
<1>4. pc = "actions" /\ (Sane' <=> Sane) /\ LastOption' = LastOption
      /\ \A o : Usable(o)' <=> Usable(o)
  BY <1>2 DEF Matching, Sane, LastOption, Usable
<1>5. CASE UNCHANGED table
  <2>1. EntriesPassed'
    <3>1. \A n \in 1..Len(table) :
            table[n].action[1] \in Nat /\ table[n].action[2] \in Nat
      BY <1>1, EntryFields
    <3> QED BY <1>1, <1>2, <1>3, <1>4, <1>5, <3>1, ForwardType
            DEF TableInv, EntriesPassed
  <2>2. SaneTableInBounds'
    BY <1>2, <1>4, <1>5 DEF TableInv, SaneTableInBounds
  <2>3. OneScriptPerOption'
    BY <1>2, <1>5 DEF TableInv, OneScriptPerOption
  <2> QED BY <2>1, <2>2, <2>3
<1>6. ASSUME NEW v \in Value, table' = Put(table, Slot, Entry(v)),
             Usable(at.option), Sane => Slot # Size + 1
      PROVE  EntriesPassed' /\ SaneTableInBounds' /\ OneScriptPerOption'
  <2>1. /\ Slot \in 1..(Len(table) + 1)
        /\ Len(table') = IF Slot <= Len(table) THEN Len(table)
                                               ELSE Len(table) + 1
        /\ \A m \in 1..Len(table') :
             table'[m] = IF m = Slot THEN Entry(v) ELSE table[m]
    BY <1>2, <1>6, PutEntry
  <2>2. /\ Entry(v).number = at.option
        /\ Entry(v).action = <<at.section, at.item>>
    BY DEF Entry
  <2>3. EntriesPassed'
    <3>1. SUFFICES ASSUME NEW n \in 1..Len(table')
                   PROVE  /\ table'[n].action[1] <= at'.section
                          /\ table'[n].action[1] = at'.section
                               => table'[n].action[2] <= at'.item
                          /\ Usable(table'[n].number)
      BY <1>4 DEF EntriesPassed
    <3>2. CASE n = Slot
      BY <1>1, <1>2, <1>3, <1>6, <2>1, <2>2, <3>2, ForwardType
    <3>3. CASE n # Slot
      <4>1. n \in 1..Len(table) /\ table'[n] = table[n]
        BY <1>1, <2>1, <3>3
      <4>2. table[n].action[1] \in Nat /\ table[n].action[2] \in Nat
        BY <1>1, <4>1, EntryFields
      <4> QED BY <1>1, <1>2, <1>3, <1>4, <4>1, <4>2, ForwardType
              DEF TableInv, EntriesPassed
    <3> QED BY <3>2, <3>3
  <2>4. SaneTableInBounds'
    <3>1. ASSUME Sane PROVE Len(table') <= Size
      <4>1. Len(table) \in Nat /\ Len(table) <= Size /\ Slot # Size + 1
        BY <1>1, <1>6, <3>1 DEF TableInv, SaneTableInBounds
      <4> QED BY <1>1, <2>1, <4>1
    <3>2. Sane => Len(functions') < Size
      BY <1>2 DEF TableInv, SaneTableInBounds
    <3> QED BY <1>4, <3>1, <3>2 DEF SaneTableInBounds
  <2>5. OneScriptPerOption'
    <3>1. SUFFICES ASSUME ~config.multiple,
                          NEW m \in 1..Len(table'), NEW n \in 1..Len(table'),
                          table'[m].number = table'[n].number
                   PROVE  m = n
      BY <1>2 DEF OneScriptPerOption
    <3>2. /\ Numbers \in Seq(Option) /\ Len(Numbers) = Len(table)
          /\ \A k \in 1..Len(table) : Numbers[k] = table[k].number
          /\ Slot = Index(Numbers, at.option)
      BY <3>1, SectType DEF Slot
    <3>3. /\ Slot <= Len(table) => table[Slot].number = at.option
          /\ Slot = Len(table) + 1
               => \A k \in 1..Len(table) : table[k].number # at.option
      BY <1>1, <2>1, <3>2, IndexResult
    <3>4. \A k \in 1..Len(table') : k # Slot =>
             k \in 1..Len(table) /\ table'[k].number = table[k].number
      BY <1>1, <2>1
    <3>5. \A j, k \in 1..Len(table) :
             table[j].number = table[k].number => j = k
      BY <3>1 DEF TableInv, OneScriptPerOption
    <3>6. table'[Slot].number = at.option
      BY <1>1, <2>1, <2>2
    <3>7. ASSUME NEW k \in 1..Len(table'), k # Slot,
                 table'[k].number = at.option
          PROVE  FALSE
      BY <1>1, <2>1, <3>3, <3>4, <3>5, <3>7
    <3>8. CASE m = Slot \/ n = Slot
      BY <3>1, <3>6, <3>7, <3>8
    <3>9. CASE m # Slot /\ n # Slot
      <4>1. table[m].number = table[n].number
        BY <3>1, <3>4, <3>9
      <4> QED BY <3>4, <3>5, <3>9, <4>1
    <3> QED BY <3>8, <3>9
  <2> QED BY <2>3, <2>4, <2>5
<1> QED BY <1>5, <1>6, MatchCases

\* An action that stands in the table goes on doing so, or a later one has
\* taken its place.
LEMMA StandsStep ==
  ASSUME TypeOK, TableInv, MatchAction \/ ScbtnMatchAction, TableInBounds',
         NEW s \in Nat, NEW i \in Nat, NEW o \in Option,
         Passed(s, i, o), Stands(s, i, o)
  PROVE  Stands(s, i, o)'
<1>1. /\ at \in [section: 1..Len(config.sections), item: Nat \ {0},
                 option: Option]
      /\ table \in Seq(TableEntry) /\ Size \in Nat /\ Len(table) \in Nat
  BY DeviceAssumption DEF TypeOK
<1>2. /\ Matching("actions") /\ UNCHANGED <<pc, config>> /\ pc = "actions"
  BY MatchCases DEF Matching
<1>3. CASE UNCHANGED table
  BY <1>2, <1>3 DEF Stands
<1>4. ASSUME NEW v \in Value, table' = Put(table, Slot, Entry(v))
      PROVE  Stands(s, i, o)'
  <2>1. /\ Slot \in 1..(Len(table) + 1)
        /\ Len(table') = IF Slot <= Len(table) THEN Len(table)
                                               ELSE Len(table) + 1
        /\ \A m \in 1..Len(table') :
             table'[m] = IF m = Slot THEN Entry(v) ELSE table[m]
    BY <1>2, <1>4, PutEntry
  <2>2. TableInBounds
    BY <1>1, <2>1 DEF TableInBounds
  <2>3. /\ config.multiple => Slot = Len(table) + 1
        /\ Slot <= Len(table) => table[Slot].number = at.option
    BY <2>2, SlotKeeps
  <2>4. CASE config.multiple
    <3>1. Len(table) # Size
      BY <1>1, <2>1, <2>3, <2>4 DEF TableInBounds
    <3>2. PICK n \in 1..Len(table) :
            table[n].number = o /\ table[n].action = <<s, i>>
      BY <2>4, <3>1 DEF Stands
    <3>3. n \in 1..Len(table') /\ table'[n] = table[n]
      BY <1>1, <2>1, <2>3, <2>4
    <3> QED BY <1>2, <2>4, <3>2, <3>3 DEF Stands
  <2>5. CASE ~config.multiple
    <3>1. PICK n \in 1..Len(table) :
            table[n].number = o /\ ~Earlier(table[n].action, <<s, i>>)
      BY <2>5 DEF Stands
    <3>2. n \in 1..Len(table')
      BY <1>1, <2>1
    <3>3. CASE n # Slot
      BY <1>2, <2>1, <2>5, <3>1, <3>2, <3>3 DEF Stands
    <3>4. CASE n = Slot
      <4>1. table'[n] = Entry(v) /\ o = at.option
        BY <2>1, <2>3, <3>1, <3>2, <3>4
      <4>2. table'[n].number = o /\ table'[n].action = <<at.section, at.item>>
        BY <4>1 DEF Entry
      <4>3. ~Earlier(<<at.section, at.item>>, <<s, i>>)
        BY <1>1, <1>2 DEF Passed, Earlier
      <4> QED BY <1>2, <2>5, <3>2, <4>2, <4>3 DEF Stands
    <3> QED BY <3>3, <3>4
  <2> QED BY <2>4, <2>5
<1> QED BY <1>3, <1>4, MatchCases

\* The action whose turn it is stands in the table after it.
LEMMA StandsNew ==
  ASSUME TypeOK, TableInv, MatchAction \/ ScbtnMatchAction, TableInBounds',
         NEW s \in Nat, NEW i \in Nat, NEW o \in Option,
         s = at.section, i = at.item, o = at.option,
         Usable(o), o \in Sect.actions[i].filter
  PROVE  Stands(s, i, o)'
<1>1. /\ at \in [section: 1..Len(config.sections), item: Nat \ {0},
                 option: Option]
      /\ table \in Seq(TableEntry) /\ Size \in Nat /\ Len(table) \in Nat
      /\ LastOption \in Nat /\ LastOption <= Size
  BY SectType, DeviceAssumption DEF TypeOK
<1>2. /\ Matching("actions") /\ UNCHANGED <<pc, config>> /\ pc = "actions"
  BY MatchCases DEF Matching
<1>3. CASE Sane /\ Slot = Size + 1 /\ UNCHANGED table
  <2>1. TableInBounds
    BY <1>3 DEF TableInBounds
  <2>2. config.multiple => Slot = Len(table) + 1
    BY <2>1, SlotKeeps
  <2>3. CASE config.multiple
    <3>1. Len(table) = Size
      BY <1>1, <1>3, <2>2, <2>3
    <3>2. ASSUME NEW n \in 1..Len(table)
          PROVE  ~Earlier(<<s, i>>, table[n].action)
      <4>1. table[n].action[1] \in Nat /\ table[n].action[2] \in Nat
        BY <1>1, EntryFields
      <4> QED BY <1>1, <1>2, <4>1 DEF TableInv, EntriesPassed, Earlier
    <3> QED BY <1>2, <1>3, <2>3, <3>1, <3>2 DEF Stands
  <2>4. CASE ~config.multiple
    <3>1. Slot = Len(table) + 1
      <4>1. Slot \in 1..(Len(table) + 1)
        BY <1>2, PutEntry DEF Value
      <4> QED BY <1>1, <1>3, <2>1, <4>1 DEF TableInBounds
    <3> QED BY <1>1, <1>3, <2>4, <3>1, RoomForNew DEF TableInv
  <2> QED BY <2>3, <2>4
<1>4. ASSUME NEW v \in Value, table' = Put(table, Slot, Entry(v))
      PROVE  Stands(s, i, o)'
  <2>1. /\ Slot \in 1..Len(table') /\ table'[Slot] = Entry(v)
    <3>1. /\ Slot \in 1..(Len(table) + 1)
          /\ Len(table') = IF Slot <= Len(table) THEN Len(table)
                                                 ELSE Len(table) + 1
          /\ \A m \in 1..Len(table') :
               table'[m] = IF m = Slot THEN Entry(v) ELSE table[m]
      BY <1>2, <1>4, PutEntry
    <3> QED BY <1>1, <3>1
  <2>2. table'[Slot].number = o /\ table'[Slot].action = <<s, i>>
    BY <2>1 DEF Entry
  <2>3. ~Earlier(<<s, i>>, <<s, i>>)
    BY DEF Earlier
  <2> QED BY <1>2, <2>1, <2>2, <2>3 DEF Stands
<1> QED BY <1>3, <1>4, MatchCases

\* Matching an action preserves what is said of the table.
LEMMA MatchTable ==
  ASSUME TypeOK, TypeOK', TableInv, MatchAction \/ ScbtnMatchAction
  PROVE  TableInv'
<1>1. EntriesPassed' /\ SaneTableInBounds' /\ OneScriptPerOption'
  BY EntriesStep
<1>2. /\ pc = "actions" /\ Matching("actions") /\ at' = Forward
      /\ UNCHANGED <<pc, config, functions>>
  BY MatchCases DEF Matching
<1>3. FunctionsUsable'
  BY <1>2 DEF TableInv, FunctionsUsable, Distinct, Sane, Usable, LastOption
<1>4. EveryActionStands'
  <2>1. /\ at \in [section: 1..Len(config.sections), item: Nat \ {0},
                   option: Option]
        /\ LastOption \in Nat /\ config.sections \in Seq(Section)
    BY SectType DEF TypeOK
  <2>2. at'.section = at.section
    BY <2>1, <1>2 DEF Forward
  <2>3. SUFFICES ASSUME TableInBounds', NEW s \in 1..at.section,
                        NEW i \in 1..Len(config.sections[s].actions),
                        NEW o \in config.sections[s].actions[i].filter,
                        Usable(o), Passed(s, i, o)'
                 PROVE  Stands(s, i, o)'
    BY <1>2, <2>2 DEF EveryActionStands, Usable, Sane, LastOption
  <2>4. s \in Nat /\ i \in Nat /\ o \in Option /\ o <= LastOption
    <3>1. config.sections[s] \in Section
      BY <2>1
    <3>2. config.sections[s].actions[i] \in Action
      BY <3>1 DEF Section
    <3> QED BY <2>1, <2>3, <3>2 DEF Action, Usable
  <2>5. CASE Passed(s, i, o)
    <3>1. TableInBounds
      <4>1. Len(table') >= Len(table)
        <5>1. CASE MatchAction
          BY <5>1, MatchActionType
        <5>2. CASE ScbtnMatchAction
          BY <5>2, ScbtnMatchType
        <5> QED BY <5>1, <5>2
      <4>2. Len(table) \in Nat /\ Len(table') \in Nat /\ Size \in Nat
        <5>1. table \in Seq(TableEntry) /\ table' \in Seq(TableEntry)
          BY DEF TypeOK
        <5> QED BY <5>1, DeviceAssumption
      <4> QED BY <2>3, <4>1, <4>2 DEF TableInBounds
    <3>2. Stands(s, i, o)
      BY <2>3, <2>5, <3>1 DEF TableInv, EveryActionStands
    <3> QED BY <2>3, <2>4, <2>5, <3>2, StandsStep
  <2>6. CASE s = at.section /\ i = at.item /\ o = at.option
    BY <2>3, <2>4, <2>6, StandsNew DEF Sect
  <2> QED BY <1>2, <2>3, <2>4, <2>5, <2>6, PassedStep
<1> QED BY <1>1, <1>3, <1>4 DEF TableInv

\* Matching a function does so too: functions are of different options.
LEMMA FunctionTable ==
  ASSUME TypeOK, TypeOK', TableInv, MatchFunction
  PROVE  TableInv'
<1>1. /\ pc = "functions" /\ at' = Forward /\ functions \in Seq(Option)
      /\ UNCHANGED <<pc, config, table>>
  BY DEF MatchFunction, MatchFrame, Matching, TypeOK
<1>2. /\ at \in [section: 1..Len(config.sections), item: Nat \ {0},
                 option: Option]
      /\ LastOption \in Nat /\ LastOption <= Size /\ Size \in Nat \ {0}
  BY SectType, DeviceAssumption DEF TypeOK
<1>3. at'.section = at.section
  BY <1>1, <1>2 DEF Forward
<1>4. (Sane' <=> Sane) /\ LastOption' = LastOption /\ \A o : Usable(o)' <=> Usable(o)
  BY <1>1 DEF Sane, LastOption, Usable
<1>5. EntriesPassed' /\ EveryActionStands' /\ OneScriptPerOption'
  <2>1. EntriesPassed'
    BY <1>1, <1>3, <1>4 DEF TableInv, EntriesPassed
  <2>2. EveryActionStands'
    <3>1. SUFFICES ASSUME TableInBounds, NEW s \in 1..at.section,
                          NEW i \in 1..Len(config.sections[s].actions),
                          NEW o \in config.sections[s].actions[i].filter,
                          Usable(o)
                   PROVE  Stands(s, i, o)'
      BY <1>1, <1>3, <1>4 DEF EveryActionStands, TableInBounds
    <3>2. Passed(s, i, o)
      BY <1>1, <1>2 DEF Passed
    <3>3. Stands(s, i, o)
      BY <3>1, <3>2 DEF TableInv, EveryActionStands
    <3> QED BY <1>1, <3>3 DEF Stands
  <2>3. OneScriptPerOption'
    BY <1>1 DEF TableInv, OneScriptPerOption
  <2> QED BY <2>1, <2>2, <2>3
<1>6. CASE UNCHANGED functions
  BY <1>1, <1>4, <1>5, <1>6 DEF TableInv, FunctionsUsable, SaneTableInBounds
<1>7. CASE /\ Sane /\ Usable(at.option)
           /\ functions' = Put(functions, Index(functions, at.option), at.option)
  <2> DEFINE k == Index(functions, at.option)
  <2>1. /\ k \in 1..(Len(functions) + 1)
        /\ k <= Len(functions) => functions[k] = at.option
        /\ k = Len(functions) + 1
             => \A n \in 1..Len(functions) : functions[n] # at.option
    BY <1>1, IndexResult
  <2>2. /\ Len(functions') = IF k <= Len(functions) THEN Len(functions)
                                                    ELSE Len(functions) + 1
        /\ \A m \in 1..Len(functions') :
             functions'[m] = IF m = k THEN at.option ELSE functions[m]
    <3>1. functions' = Put(functions, k, at.option) /\ at.option \in Option
      BY <1>2, <1>7
    <3> HIDE DEF k
    <3> QED BY <1>1, <2>1, <3>1, PutResult
  <2> HIDE DEF k
  <2>3. Len(functions) \in Nat /\ Len(functions') \in Nat
    BY <1>1 DEF TypeOK
  <2>4. Distinct(functions')
    <3>1. Distinct(functions)
      BY DEF TableInv, FunctionsUsable
    <3> QED BY <2>1, <2>2, <2>3, <3>1 DEF Distinct
  <2>5. \A f \in 1..Len(functions') : Usable(functions'[f])
    BY <1>7, <2>1, <2>2, <2>3 DEF TableInv, FunctionsUsable
  <2>6. Len(functions') < Size
    <3>1. \A f \in 1..Len(functions') :
            functions'[f] \in Option /\ functions'[f] # Size
      <4>1. \A f \in 1..Len(functions') : functions'[f] <= LastOption
        BY <2>5 DEF Usable
      <4>2. LastOption = Size - 1
        BY <1>7 DEF LastOption
      <4>3. \A f \in 1..Len(functions') : functions'[f] \in Option
        <5>1. functions' \in Seq(Option)
          BY DEF TypeOK
        <5> QED BY <5>1
      <4> QED BY <1>2, <4>1, <4>2, <4>3 DEF Option
    <3>2. functions' \in Seq(Option)
      BY DEF TypeOK
    <3>3. Size \in 1..Size
      BY <1>2
    <3> QED BY <1>2, <2>4, <3>1, <3>2, <3>3, Shorter DEF Option
  <2>7. FunctionsUsable'
    BY <1>4, <1>7, <2>4, <2>5 DEF FunctionsUsable
  <2> QED BY <1>1, <1>4, <1>5, <1>7, <2>6, <2>7 DEF TableInv, SaneTableInBounds
<1> QED BY <1>6, <1>7 DEF MatchFunction

\* So does the end of a section's actions or functions.
LEMMA EndOfItemsTable ==
  ASSUME TypeOK, TableInv, EndOfItems
  PROVE  TableInv'
<1>1. /\ UNCHANGED <<config, table, functions>>
      /\ table \in Seq(TableEntry)
      /\ at.section \in Nat /\ at.item \in Nat /\ at.option \in Option
      /\ at \in [section: 1..Len(config.sections), item: Nat \ {0},
                 option: Option]
  BY DEF EndOfItems, TypeOK
<1>2. (Sane' <=> Sane) /\ LastOption' = LastOption /\ \A o : Usable(o)' <=> Usable(o)
  BY <1>1 DEF Sane, LastOption, Usable
<1>3. \/ /\ pc = "actions" /\ pc' = "functions" /\ at'.section = at.section
         /\ at.item > Len(Sect.actions)
      \/ pc = "functions" /\ pc' = "actions" /\ at'.section = at.section + 1
         /\ at'.item = 1 /\ at'.option = 1
      \/ pc = "functions" /\ pc' \notin {"actions", "functions"} /\ at' = at
  <2>1. CASE /\ pc = "actions" /\ pc' = "functions"
             /\ at' = [at EXCEPT !.item = 1, !.option = 1]
    <3>1. at.item > Len(Sect.actions)
      BY <2>1 DEF EndOfItems
    <3> QED BY <1>1, <2>1, <3>1
  <2>2. CASE /\ pc = "functions" /\ pc' = "actions"
             /\ at' = [section |-> at.section + 1, item |-> 1, option |-> 1]
    BY <2>2
  <2>3. CASE /\ pc = "functions" /\ at' = at
             /\ pc' = IF Sane THEN "poll" ELSE "scanbuttond"
    BY <2>3
  <2> QED BY <2>1, <2>2, <2>3 DEF EndOfItems
<1>4. SaneTableInBounds' /\ OneScriptPerOption' /\ FunctionsUsable'
  BY <1>1, <1>2 DEF TableInv, SaneTableInBounds, OneScriptPerOption,
                    FunctionsUsable, Distinct
<1>5. EntriesPassed'
  <2>1. \A n \in 1..Len(table) :
          table[n].action[1] \in Nat /\ table[n].action[2] \in Nat
    BY <1>1, EntryFields
  <2> QED BY <1>1, <1>2, <1>3, <2>1 DEF TableInv, EntriesPassed
<1>6. EveryActionStands'
  <2>1. SUFFICES ASSUME TableInBounds, NEW s \in 1..at'.section,
                        NEW i \in 1..Len(config.sections[s].actions),
                        NEW o \in config.sections[s].actions[i].filter,
                        Usable(o), Passed(s, i, o)'
                 PROVE  Stands(s, i, o)'
    BY <1>1, <1>2 DEF EveryActionStands, TableInBounds
  <2>2. config.sections \in Seq(Section) /\ Len(config.sections) \in Nat
    BY SectType
  <2>3. s \in 1..at.section /\ Passed(s, i, o)
    <3>1. CASE pc = "actions"
      <4>1. s \in 1..at.section
        BY <1>3, <2>1, <3>1
      <4>2. s = at.section => i < at.item
        <5>1. Len(Sect.actions) \in Nat /\ i \in 1..Len(config.sections[s].actions)
          BY <2>1, SectType DEF Section
        <5> QED BY <1>1, <1>3, <3>1, <5>1 DEF Sect
      <4> QED BY <1>1, <4>1, <4>2 DEF Passed
    <3>2. CASE pc = "functions" /\ pc' = "actions"
      <4>1. o \in Nat /\ i \in Nat /\ o >= 1 /\ i >= 1
        <5>1. s \in 1..Len(config.sections)
          <6>1. at'.section \in 1..Len(config.sections)
            BY <1>1, EndOfItemsType DEF TypeOK
          <6> QED BY <2>1, <2>2, <6>1
        <5>2. config.sections[s] \in Section
          BY <2>2, <5>1
        <5>3. config.sections[s].actions[i] \in Action
          BY <2>1, <5>2 DEF Section
        <5> QED BY <2>1, <5>3 DEF Action, Option
      <4>2. s \in 1..at.section
        BY <1>1, <1>3, <2>1, <3>2, <4>1 DEF Passed
      <4> QED BY <1>1, <3>2, <4>2 DEF Passed
    <3>3. CASE pc = "functions" /\ pc' # "actions"
      BY <1>1, <1>3, <2>1, <3>3 DEF Passed
    <3> QED BY <1>3, <3>1, <3>2, <3>3
  <2>4. Stands(s, i, o)
    BY <2>1, <2>3 DEF TableInv, EveryActionStands
  <2> QED BY <1>1, <2>4 DEF Stands
<1> QED BY <1>4, <1>5, <1>6 DEF TableInv

\* A step of the loop changes no more of the table than the values in it.
LEMMA LoopTable ==
  ASSUME TypeOK, TableInv, pc \notin {"actions", "functions"},
         pc' \notin {"actions", "functions"},
         UNCHANGED <<config, at, functions>>, Len(table') = Len(table),
         \A n \in 1..Len(table) :
           /\ table'[n].number = table[n].number
           /\ table'[n].action = table[n].action
  PROVE  TableInv'
<1>1. (Sane' <=> Sane) /\ LastOption' = LastOption /\ \A o : Usable(o)' <=> Usable(o)
  BY DEF Sane, LastOption, Usable
<1>2. SaneTableInBounds' /\ OneScriptPerOption' /\ FunctionsUsable'
  BY <1>1 DEF TableInv, SaneTableInBounds, OneScriptPerOption, FunctionsUsable,
              Distinct
<1>3. EntriesPassed'
  BY <1>1 DEF TableInv, EntriesPassed
<1>4. EveryActionStands'
  <2>1. SUFFICES ASSUME TableInBounds, NEW s \in 1..at.section,
                        NEW i \in 1..Len(config.sections[s].actions),
                        NEW o \in config.sections[s].actions[i].filter,
                        Usable(o), Passed(s, i, o)'
                 PROVE  Stands(s, i, o)'
    BY <1>1 DEF EveryActionStands, TableInBounds
  <2>2. Passed(s, i, o)
    BY <2>1 DEF Passed
  <2>3. Stands(s, i, o)
    BY <2>1, <2>2 DEF TableInv, EveryActionStands
  <2> QED BY <2>3 DEF Stands
<1> QED BY <1>2, <1>3, <1>4 DEF TableInv

\* A step that leaves the matching and the table alone.
LEMMA SameTable ==
  ASSUME TableInv, UNCHANGED <<config, pc, at, table, functions>>
  PROVE  TableInv'
<1>1. (Sane' <=> Sane) /\ LastOption' = LastOption
      /\ \A o : Usable(o)' <=> Usable(o)
  BY DEF Sane, LastOption, Usable
<1>2. SaneTableInBounds' /\ OneScriptPerOption' /\ FunctionsUsable'
      /\ EntriesPassed'
  BY <1>1 DEF TableInv, SaneTableInBounds, OneScriptPerOption, FunctionsUsable,
              EntriesPassed, Distinct
<1>3. EveryActionStands'
  <2>1. SUFFICES ASSUME TableInBounds, NEW s \in 1..at.section,
                        NEW i \in 1..Len(config.sections[s].actions),
                        NEW o \in config.sections[s].actions[i].filter,
                        Usable(o), Passed(s, i, o)
                 PROVE  Stands(s, i, o)'
    BY <1>1 DEF EveryActionStands, TableInBounds, Passed
  <2>2. Stands(s, i, o)
    BY <2>1 DEF TableInv, EveryActionStands
  <2> QED BY <2>2 DEF Stands
<1> QED BY <1>2, <1>3 DEF TableInv

-----------------------------------------------------------------------------
(* The polling cycle                                                       *)

\* Nothing runs while the tables are filled, and polling starts at the front.
LEMMA MatchingCycle ==
  ASSUME TypeOK, CycleInv,
         MatchAction \/ ScbtnMatchAction \/ MatchFunction \/ EndOfItems
  PROVE  CycleInv'
<1>1. pc \in {"actions", "functions"} /\ UNCHANGED <<config, si, triggered>>
      /\ UNCHANGED <<asked, runs, settled>>
  BY DEF MatchAction, ScbtnMatchAction, MatchFunction, EndOfItems, Matching,
         MatchFrame, history
<1>2. /\ asked = {} /\ runs = {} /\ triggered = 0 /\ si = 1 /\ ~settled
  BY <1>1 DEF CycleInv, LoopInv, InLoop
<1>3. pc' \in {"actions", "functions", "scanbuttond"} \/ (pc' = "poll" /\ Sane)
  <2>1. CASE MatchAction \/ ScbtnMatchAction \/ MatchFunction
    BY <1>1, <2>1 DEF MatchAction, ScbtnMatchAction, MatchFunction, MatchFrame
  <2>2. CASE EndOfItems
    BY <2>2 DEF EndOfItems
  <2> QED BY <2>1, <2>2
<1>4. CASE pc' \in {"actions", "functions", "scanbuttond"}
  BY <1>1, <1>2, <1>4 DEF CycleInv, LoopInv, ValuesInv, TriggerInv, RunsInv,
                          InLoop
<1>5. CASE pc' = "poll" /\ Sane
  <2>1. Done' = 0
    BY <1>1, <1>2, <1>5 DEF Done
  <2> QED BY <1>1, <1>2, <1>5, <2>1
          DEF CycleInv, LoopInv, ValuesInv, TriggerInv, RunsInv, InLoop, Sane
<1> QED BY <1>3, <1>4, <1>5

\* A fetch gives the value last read from the device, which was read for this
\* entry or for an earlier one of the same option.
LEMMA FetchResult ==
  ASSUME TypeOK, CycleInv, Polling, NEW v \in Value, Fetch(v),
         NEW o, o = table[si].number
  PROVE  /\ o \in Option /\ is'[o] = v
         /\ \A q \in Option \ {o} : was'[q] = was[q] /\ is'[q] = is[q]
         /\ Seen(o) => UNCHANGED <<was, is>>
         /\ ~Seen(o) => was'[o] = is[o]
<1>1. /\ pc = "poll" /\ si \in 1..Len(table) /\ table \in Seq(TableEntry)
      /\ was \in [Option -> Value] /\ is \in [Option -> Value]
  BY DEF Polling, TypeOK
<1>2. o \in Option
  BY <1>1, EntryFields
<1>3. Done = si - 1
  BY <1>1 DEF Done
<1> DEFINE seen == {m \in 1..(si - 1) : table[m].number = o}
<1>4. Seen(o) <=> seen # {}
  BY <1>3 DEF Seen
<1>5. CASE seen # {}
  <2>1. PICK m \in seen : v = table[m].value
    BY <1>5 DEF Fetch, Number
  <2>2. UNCHANGED <<was, is>>
    BY <1>5 DEF Fetch, Number
  <2>3. table[m].value = is[table[m].number]
    BY <1>1, <1>3, <2>1 DEF CycleInv, ValuesInv, InLoop
  <2> QED BY <1>2, <1>4, <1>5, <2>1, <2>2, <2>3
<1>6. CASE seen = {}
  <2>1. was' = [was EXCEPT ![o] = is[o]] /\ is' = [is EXCEPT ![o] = v]
    BY <1>6 DEF Fetch, Number
  <2> QED BY <1>1, <1>2, <1>4, <1>6, <2>1
<1> QED BY <1>5, <1>6

LEMMA CheckCycle ==
  ASSUME TypeOK, CycleInv, Check
  PROVE  CycleInv'
<1>1. PICK v \in Value :
        /\ Fetch(v)
        /\ table' = [table EXCEPT ![si].value = v]
        /\ LET fires == table[si].value \in table[si].from
                        /\ v \in table[si].to
               next == IF fires THEN si ELSE triggered IN
           /\ triggered' = next
           /\ IF next # 0 THEN pc' = "fire" /\ UNCHANGED si
                          ELSE si' = si + 1 /\ UNCHANGED pc
  BY DEF Check
<1> DEFINE o == table[si].number
           fires == table[si].value \in table[si].from /\ v \in table[si].to
<1>2. /\ pc = "poll" /\ si \in 1..Len(table) /\ table \in Seq(TableEntry)
      /\ UNCHANGED <<config, runs, asked, settled>>
      /\ Polling /\ triggered \in 0..Len(table) /\ Len(table) \in Nat
  BY DEF Check, Polling, TypeOK
<1>3. /\ o \in Option /\ is'[o] = v
      /\ \A q \in Option \ {o} : was'[q] = was[q] /\ is'[q] = is[q]
      /\ Seen(o) => UNCHANGED <<was, is>>
      /\ ~Seen(o) => was'[o] = is[o]
  BY <1>1, <1>2, FetchResult
<1>4. /\ Len(table') = Len(table)
      /\ \A n \in 1..Len(table) :
           /\ table'[n].number = table[n].number
           /\ table'[n].from = table[n].from /\ table'[n].to = table[n].to
           /\ table'[n].value = IF n = si THEN v ELSE table[n].value
  BY <1>1, <1>2, CheckTable
<1>5. /\ triggered' = IF fires THEN si ELSE triggered
      /\ pc' = IF triggered' # 0 THEN "fire" ELSE "poll"
      /\ si' = IF triggered' # 0 THEN si ELSE si + 1
  BY <1>1, <1>2
<1>6. Done = si - 1 /\ Done' = si
  BY <1>2, <1>5 DEF Done
<1>7. \A n \in 1..Len(table) : table[n].number \in Option
  BY <1>2, EntryFields
<1>8. \A n \in 1..(si - 1) : table[n].number # o \/ Seen(o)
  BY <1>6 DEF Seen
<1>9. \A n \in 1..(si - 1) : LET q == table[n].number IN
         was'[q] = was[q] /\ is'[q] = is[q]
  BY <1>2, <1>3, <1>7, <1>8
<1>10. \A q : (\E m \in 1..Done' : table'[m].number = q) <=> Seen(q) \/ q = o
  BY <1>2, <1>4, <1>6 DEF Seen
<1>11. settled => table[si].value = was'[o]
  <2>1. settled => table[si].value = IF Seen(o) THEN was[o] ELSE is[o]
    BY <1>2, <1>6 DEF CycleInv, ValuesInv
  <2> QED BY <1>3, <2>1
<1>12. \A n \in 1..Len(table) : LET q == table[n].number IN
          Changed(n)' <=> was'[q] \in table[n].from /\ is'[q] \in table[n].to
  BY <1>4 DEF Changed
<1>13. \A n \in 1..(si - 1) : Changed(n)' <=> Changed(n)
  BY <1>2, <1>9, <1>12 DEF Changed
<1>14. settled => \A n \in 1..Len(table) : n = si => (Changed(n)' <=> fires)
  BY <1>3, <1>11, <1>12
<1>15. LoopInv'
  BY <1>2, <1>4, <1>5 DEF CycleInv, LoopInv, InLoop, Sane
<1>16. ValuesInv'
  <2>1. \A n \in 1..si : table'[n].value = is'[table'[n].number]
    <3>1. SUFFICES ASSUME NEW n \in 1..si
                   PROVE  table'[n].value = is'[table[n].number]
      BY <1>2, <1>4
    <3>2. CASE n = si
      BY <1>2, <1>3, <1>4, <3>2
    <3>3. CASE n # si
      <4>1. n \in 1..(si - 1)
        BY <1>2, <3>3
      <4>2. table[n].value = is[table[n].number]
        BY <1>2, <1>6, <4>1 DEF CycleInv, ValuesInv, InLoop
      <4> QED BY <1>2, <1>4, <1>9, <4>1, <4>2
    <3> QED BY <3>2, <3>3
  <2>2. ASSUME settled, NEW n \in (si + 1)..Len(table), NEW q, q = table[n].number
        PROVE  table'[n].value = IF \E m \in 1..Done' : table'[m].number = q
                                 THEN was'[q] ELSE is'[q]
    <3>1. /\ n \in 1..Len(table) /\ n # si /\ n \in (Done + 1)..Len(table)
      BY <1>2, <1>6, <2>2
    <3>2. table[n].value = IF Seen(q) THEN was[q] ELSE is[q]
      BY <2>2, <3>1 DEF CycleInv, ValuesInv
    <3>3. table'[n].value = table[n].value /\ q \in Option
      BY <1>4, <1>7, <2>2, <3>1
    <3>4. CASE q = o
      BY <1>3, <1>10, <3>2, <3>3, <3>4
    <3>5. CASE q # o
      BY <1>3, <1>10, <3>2, <3>3, <3>5
    <3> QED BY <3>4, <3>5
  <2>3. settled => \A n \in (si + 1)..Len(table) :
          table'[n].value = IF \E m \in 1..Done' :
                                 table'[m].number = table'[n].number
                            THEN was'[table'[n].number]
                            ELSE is'[table'[n].number]
    <3>1. \A n \in (si + 1)..Len(table) : table'[n].number = table[n].number
      BY <1>2, <1>4
    <3> QED BY <2>2, <3>1
  <2> QED BY <1>2, <1>4, <1>6, <2>1, <2>3 DEF ValuesInv, Seen
<1>17. TriggerInv'
  <2>1. CASE fires
    <3>1. triggered' = si /\ triggered' # 0 /\ pc' = "fire" /\ si' = si
      BY <1>2, <1>5, <2>1
    <3>2. settled => LET q == table'[si].number IN
                       was'[q] \in table'[si].from /\ is'[q] \in table'[si].to
      BY <1>2, <1>3, <1>4, <1>11, <2>1
    <3> QED BY <1>2, <3>1, <3>2 DEF TriggerInv, Changed
  <2>2. CASE ~fires
    <3>1. triggered # 0 => triggered \in asked
      BY <1>2 DEF CycleInv, TriggerInv
    <3> QED BY <1>2, <1>5, <2>2, <3>1 DEF TriggerInv
  <2> QED BY <2>1, <2>2
<1>18. RunsInv'
  <2>1. SUFFICES ASSUME settled
                 PROVE  /\ \A n \in 1..Len(table) : <<n, FALSE>> \in runs
                             => n <= si /\ Changed(n)'
                        /\ \A n \in 1..si :
                             Changed(n)' => \/ Ran(n)
                                            \/ /\ pc' = "fire" /\ n = si'
                                               /\ triggered' = si'
    BY <1>2, <1>4, <1>6 DEF RunsInv, Ran
  <2>2. ASSUME NEW n \in 1..Len(table), <<n, FALSE>> \in runs
        PROVE  n <= si /\ Changed(n)'
    <3>1. n <= si - 1 /\ Changed(n)
      BY <1>6, <2>1, <2>2 DEF CycleInv, RunsInv
    <3> QED BY <1>2, <1>13, <3>1
  <2>3. ASSUME NEW n \in 1..si, Changed(n)'
        PROVE  Ran(n) \/ (pc' = "fire" /\ n = si' /\ triggered' = si')
    <3>1. CASE n = si
      BY <1>2, <1>5, <1>14, <2>1, <2>3, <3>1
    <3>2. CASE n # si
      <4>1. n \in 1..(si - 1) /\ Changed(n)
        BY <1>2, <1>13, <2>3, <3>2
      <4> QED BY <1>2, <1>6, <2>1, <4>1 DEF CycleInv, RunsInv
    <3> QED BY <3>1, <3>2
  <2> QED BY <2>2, <2>3
<1> QED BY <1>15, <1>16, <1>17, <1>18 DEF CycleInv

\* A step that finishes no entry and fetches nothing.
LEMMA SameEntries ==
  ASSUME CycleInv, InLoop, InLoop', Done' = Done,
         UNCHANGED <<config, table, was, is, runs, settled>>,
         pc' \in {"fire", "script", "settle", "aborted"} => si' <= Len(table),
         pc \in {"fire", "aborted"}
           => pc' \in {"fire", "aborted"} /\ UNCHANGED <<si, triggered>>
  PROVE  LoopInv' /\ ValuesInv' /\ RunsInv'
<1>1. LoopInv'
  BY DEF CycleInv, LoopInv, Sane
<1>2. \A q : Seen(q)' <=> Seen(q)
  BY DEF Seen
<1>3. ValuesInv'
  BY <1>2 DEF CycleInv, ValuesInv
<1>4. \A n : (Changed(n)' <=> Changed(n)) /\ (Ran(n)' <=> Ran(n))
  BY DEF Changed, Ran
<1>5. RunsInv'
  BY <1>4 DEF CycleInv, RunsInv
<1> QED BY <1>1, <1>3, <1>5

\* The steps between the checks.
LEMMA OtherLoopCycle ==
  ASSUME TypeOK, CycleInv,
         \/ AddFunction \/ RunScript \/ ScriptEnds \/ Reopen
         \/ EndOfCycle \/ NextCycle
         \/ (\E n \in 1..Size : Request(n)) \/ (\E o \in Option : Change(o))
  PROVE  CycleInv'
<1>1. /\ pc \in {"poll", "fire", "script", "settle", "sleep", "aborted"}
          => si \in 1..(Len(table) + 1) /\ Len(table) \in Nat
      /\ triggered \in 0..Len(table)
  BY DEF TypeOK
<1>2. CASE AddFunction
  <2>1. /\ pc = "fire" /\ pc' \in {"fire", "aborted"}
        /\ UNCHANGED <<config, table, si, triggered, was, is, runs, asked,
                       settled>>
    BY <1>2 DEF AddFunction
  <2>2. Done = si /\ Done' = si
    BY <2>1 DEF Done
  <2>3. TriggerInv'
    BY <2>1, <2>2 DEF CycleInv, TriggerInv, Changed
  <2>4. LoopInv' /\ ValuesInv' /\ RunsInv'
    BY <1>1, <2>1, <2>2, SameEntries DEF CycleInv, LoopInv, InLoop
  <2> QED BY <2>3, <2>4 DEF CycleInv
<1>3. CASE RunScript
  <2>1. /\ pc = "fire" /\ pc' = "script"
        /\ UNCHANGED <<config, table, si, triggered, was, is, settled>>
        /\ runs' = runs \cup {<<triggered, triggered \in asked>>}
    BY <1>3 DEF RunScript, build, history
  <2>2. Done = si /\ Done' = si /\ si \in 1..Len(table)
    BY <1>1, <2>1 DEF Done, CycleInv, LoopInv
  <2>7. \A q : Seen(q)' <=> Seen(q)
    BY <2>1, <2>2 DEF Seen
  <2>3. LoopInv' /\ ValuesInv' /\ TriggerInv'
    BY <2>1, <2>2, <2>7 DEF CycleInv, LoopInv, ValuesInv, TriggerInv, InLoop,
                            Sane
  <2>4. \A n : Changed(n)' <=> Changed(n)
    BY <2>1 DEF Changed
  <2>5. RunsInv'
    <3>1. SUFFICES ASSUME settled
                   PROVE  /\ \A n \in 1..Len(table) : <<n, FALSE>> \in runs'
                               => n <= si /\ Changed(n)
                          /\ \A n \in 1..si :
                               Changed(n) => \E b \in BOOLEAN : <<n, b>> \in runs'
      BY <2>1, <2>2, <2>4 DEF RunsInv, Ran
    <3>2. ASSUME NEW n \in 1..Len(table), <<n, FALSE>> \in runs'
          PROVE  n <= si /\ Changed(n)
      <4>1. CASE <<n, FALSE>> \in runs
        BY <2>2, <3>1, <4>1 DEF CycleInv, RunsInv
      <4>2. CASE <<n, FALSE>> = <<triggered, triggered \in asked>>
        <5>1. n = triggered /\ ~(triggered \in asked)
          BY <4>2
        <5> QED BY <2>1, <2>2, <3>1, <5>1 DEF CycleInv, TriggerInv
      <4> QED BY <2>1, <3>2, <4>1, <4>2
    <3>3. ASSUME NEW n \in 1..si, Changed(n)
          PROVE  \E b \in BOOLEAN : <<n, b>> \in runs'
      <4>1. Ran(n) \/ n = triggered
        BY <2>1, <2>2, <3>1, <3>3 DEF CycleInv, RunsInv
      <4>2. CASE Ran(n)
        BY <2>1, <4>2 DEF Ran
      <4>3. CASE n = triggered
        <5>1. <<n, triggered \in asked>> \in runs'
          BY <2>1, <4>3
        <5>2. (triggered \in asked) \in BOOLEAN
          OBVIOUS
        <5> QED BY <5>1, <5>2
      <4> QED BY <4>1, <4>2, <4>3
    <3> QED BY <3>2, <3>3
  <2> QED BY <2>3, <2>5 DEF CycleInv
<1>4. CASE ScriptEnds
  <2>1. /\ pc = "script" /\ pc' = "settle" /\ triggered' = 0
        /\ UNCHANGED <<config, table, si, was, is, runs, asked, settled>>
    BY <1>4 DEF ScriptEnds, PollFrame, build
  <2>2. Done = si /\ Done' = si
    BY <2>1 DEF Done
  <2>3. TriggerInv'
    BY <2>1, <2>2 DEF CycleInv, TriggerInv, Changed
  <2>4. LoopInv' /\ ValuesInv' /\ RunsInv'
    BY <1>1, <2>1, <2>2, SameEntries DEF CycleInv, LoopInv, InLoop
  <2> QED BY <2>3, <2>4 DEF CycleInv
<1>5. CASE Reopen
  <2>1. /\ pc = "settle" /\ pc' = "poll" /\ si' = si + 1
        /\ UNCHANGED <<config, table, triggered, was, is, runs, asked, settled>>
    BY <1>5 DEF Reopen, PollFrame, build
  <2>2. Done = si /\ Done' = si
    BY <1>1, <2>1 DEF Done
  <2>3. TriggerInv'
    BY <2>1, <2>2 DEF CycleInv, TriggerInv, Changed
  <2>4. LoopInv' /\ ValuesInv' /\ RunsInv'
    BY <1>1, <2>1, <2>2, SameEntries DEF CycleInv, LoopInv, InLoop
  <2> QED BY <2>3, <2>4 DEF CycleInv
<1>6. CASE EndOfCycle
  <2>1. /\ pc = "poll" /\ pc' = "sleep" /\ si = Len(table) + 1
        /\ UNCHANGED <<config, table, si, triggered, was, is, runs, asked,
                       settled>>
    BY <1>1, <1>6 DEF EndOfCycle, PollFrame, build
  <2>2. Done = Len(table) /\ Done' = Len(table)
    BY <1>1, <2>1 DEF Done
  <2>3. TriggerInv'
    BY <2>1, <2>2 DEF CycleInv, TriggerInv, Changed
  <2>4. LoopInv' /\ ValuesInv' /\ RunsInv'
    BY <1>1, <2>1, <2>2, SameEntries DEF CycleInv, LoopInv, InLoop
  <2> QED BY <2>3, <2>4 DEF CycleInv
<1>7. CASE NextCycle
  <2>1. /\ pc = "sleep" /\ pc' = "poll" /\ si' = 1 /\ runs' = {}
        /\ UNCHANGED <<config, table, triggered, was, is, asked>>
    BY <1>7 DEF NextCycle, build
  <2>2. Done = Len(table) /\ Done' = 0
    BY <2>1 DEF Done
  <2>3. \A n \in 1..Len(table) : table[n].value = is[table[n].number]
    BY <2>1, <2>2 DEF CycleInv, ValuesInv, InLoop
  <2>4. \A q : ~Seen(q)'
    BY <2>2 DEF Seen
  <2> QED BY <1>1, <2>1, <2>2, <2>3, <2>4
          DEF CycleInv, LoopInv, ValuesInv, TriggerInv, RunsInv, InLoop, Sane
<1>8. CASE \E n \in 1..Size : Request(n)
  <2>1. /\ pc \in {"settle", "sleep"}
        /\ triggered' \in asked'
        /\ UNCHANGED <<config, pc, table, si, was, is, runs, settled>>
    BY <1>8 DEF Request, build
  <2>2. Done' = Done
    BY <2>1 DEF Done
  <2>3. TriggerInv'
    BY <2>1, <2>2 DEF CycleInv, TriggerInv, Changed
  <2>4. LoopInv' /\ ValuesInv' /\ RunsInv'
    BY <1>1, <2>1, <2>2, SameEntries DEF CycleInv, LoopInv, InLoop
  <2> QED BY <2>3, <2>4 DEF CycleInv
<1>9. CASE \E o \in Option : Change(o)
  <2>1. UNCHANGED <<config, pc, table, si, triggered, was, is, runs, asked,
                    settled>>
    BY <1>9 DEF Change, build, history
  <2>2. Done' = Done
    BY <2>1 DEF Done
  <2>3. TriggerInv'
    BY <2>1, <2>2 DEF CycleInv, TriggerInv, Changed
  <2>4. LoopInv' /\ ValuesInv' /\ RunsInv'
    <3>1. CASE InLoop
      BY <1>1, <2>1, <2>2, <3>1, SameEntries DEF CycleInv, LoopInv, InLoop
    <3>2. CASE ~InLoop
      BY <2>1, <3>2 DEF CycleInv, LoopInv, ValuesInv, RunsInv, InLoop
    <3> QED BY <3>1, <3>2
  <2> QED BY <2>3, <2>4 DEF CycleInv
<1> QED BY <1>2, <1>3, <1>4, <1>5, <1>6, <1>7, <1>8, <1>9

-----------------------------------------------------------------------------
(* The theorems                                                            *)

LEMMA Initially == Init => IInv
<1>1. SUFFICES ASSUME Init PROVE IInv
  OBVIOUS
<1>2. config \in Configs /\ config.sections \in Seq(Section)
      /\ config.sections # <<>>
  BY <1>1, ConfigAssumption DEF Init
<1>3. Size \in Nat \ {0} /\ MaxFailures \in Nat /\ 1 \in Option
  BY DeviceAssumption DEF Option
<1>4. TypeOK
  <2>1. Len(config.sections) \in Nat \ {0}
    BY <1>2
  <2>2. at \in [section: 1..Len(config.sections), item: Nat \ {0},
               option: Option]
    BY <1>1, <1>3, <2>1 DEF Init
  <2>3. /\ val \in [Option -> Value] /\ was \in [Option -> Value]
        /\ is \in [Option -> Value]
    BY <1>1 DEF Init, Value
  <2>4. /\ table \in Seq(TableEntry) /\ functions \in Seq(Option)
        /\ env \in Seq(Value) /\ Len(table) = 0
    BY <1>1 DEF Init
  <2>5. si \in 1..(Len(table) + 1) /\ triggered \in 0..Len(table)
        /\ failures \in 0..MaxFailures
    BY <1>1, <1>3, <2>4 DEF Init
  <2>6. /\ asked \subseteq 1..Len(table) /\ settled \in BOOLEAN
        /\ runs \subseteq (1..Len(table)) \X BOOLEAN
        /\ pc = "actions"
    BY <1>1 DEF Init
  <2> QED BY <1>2, <2>2, <2>3, <2>4, <2>5, <2>6 DEF TypeOK
<1>5. SaneTableInBounds /\ OneScriptPerOption /\ EntriesPassed
      /\ FunctionsUsable
  BY <1>1, <1>3 DEF Init, SaneTableInBounds, OneScriptPerOption, EntriesPassed,
                    FunctionsUsable, Distinct
<1>6. EveryActionStands
  <2>1. SUFFICES ASSUME NEW i \in 1..Len(Sect.actions),
                        NEW o \in Sect.actions[i].filter
                 PROVE  ~Passed(1, i, o)
    BY <1>1 DEF EveryActionStands, Init, Sect
  <2>2. o \in Option
    BY <1>4, SectType DEF Action
  <2> QED BY <1>1, <1>3, <2>1, <2>2 DEF Passed, Init, Option
<1>7. CycleInv
  BY <1>1 DEF Init, CycleInv, LoopInv, ValuesInv, TriggerInv, RunsInv, InLoop
<1> QED BY <1>4, <1>5, <1>6, <1>7 DEF IInv, TableInv

LEMMA Preserved == IInv /\ [Next]_vars => IInv'
<1>1. SUFFICES ASSUME TypeOK, TableInv, CycleInv, [Next]_vars
               PROVE  IInv'
  BY DEF IInv
<1>2. CASE MatchAction \/ ScbtnMatchAction
  <2>1. TypeOK'
    BY <1>1, <1>2, MatchActionType, ScbtnMatchType
  <2> QED BY <1>1, <1>2, <2>1, MatchTable, MatchingCycle DEF IInv
<1>3. CASE MatchFunction
  <2>1. TypeOK'
    BY <1>1, <1>3, MatchFunctionType
  <2> QED BY <1>1, <1>3, <2>1, FunctionTable, MatchingCycle DEF IInv
<1>4. CASE EndOfItems
  BY <1>1, <1>4, EndOfItemsType, EndOfItemsTable, MatchingCycle DEF IInv
<1>5. CASE Check
  <2>1. PICK v \in Value : Fetch(v) /\ table' = [table EXCEPT ![si].value = v]
    BY <1>5 DEF Check
  <2>2. Len(table') = Len(table)
        /\ \A n \in 1..Len(table) : /\ table'[n].number = table[n].number
                                    /\ table'[n].action = table[n].action
    BY <1>1, <1>5, <2>1, CheckTable DEF Check
  <2>3. TableInv'
    BY <1>1, <1>5, <2>2, LoopTable DEF Check, Polling
  <2> QED BY <1>1, <1>5, <2>3, CheckType, CheckCycle DEF IInv
<1>6. CASE AddFunction
  <2>1. TypeOK' /\ UNCHANGED <<config, at, functions, table>>
    BY <1>1, <1>6, AddFunctionType DEF AddFunction
  <2>2. TableInv'
    BY <1>1, <1>6, <2>1, LoopTable DEF AddFunction
  <2> QED BY <1>1, <1>6, <2>1, <2>2, OtherLoopCycle DEF IInv
<1>7. CASE \/ RunScript \/ ScriptEnds \/ Reopen \/ EndOfCycle \/ NextCycle
           \/ (\E n \in 1..Size : Request(n))
  <2>1. TypeOK' /\ UNCHANGED table
    BY <1>1, <1>7, OtherLoopType DEF CycleInv
  <2>2. /\ pc \notin {"actions", "functions"}
        /\ pc' \notin {"actions", "functions"}
        /\ UNCHANGED <<config, at, functions>>
    BY <1>7 DEF RunScript, ScriptEnds, Reopen, EndOfCycle, NextCycle, Request,
                PollFrame, build
  <2>3. TableInv'
    BY <1>1, <2>1, <2>2, LoopTable
  <2> QED BY <1>1, <1>7, <2>1, <2>3, OtherLoopCycle DEF IInv
<1>8. CASE \E o \in Option : Change(o)
  <2>1. TypeOK' /\ UNCHANGED <<config, pc, at, table, functions>>
    BY <1>1, <1>8, OtherLoopType DEF CycleInv, Change, build
  <2>2. TableInv'
    BY <1>1, <2>1, SameTable
  <2> QED BY <1>1, <1>8, <2>1, <2>2, OtherLoopCycle DEF IInv
<1>9. CASE UNCHANGED vars
  <2>1. TypeOK'
    BY <1>1, <1>9 DEF vars, build, history, TypeOK
  <2>2. TableInv'
    BY <1>1, <1>9, SameTable DEF vars, build
  <2>3. Done' = Done /\ (InLoop' <=> InLoop)
    BY <1>9 DEF vars, build, Done, InLoop
  <2>4. \A q : Seen(q)' <=> Seen(q)
    BY <1>9, <2>3 DEF vars, build, Seen
  <2>5. \A n : (Changed(n)' <=> Changed(n)) /\ (Ran(n)' <=> Ran(n))
    BY <1>9 DEF vars, build, history, Changed, Ran
  <2>6. LoopInv' /\ TriggerInv'
    BY <1>1, <1>9, <2>3 DEF vars, build, history, CycleInv, LoopInv, Sane,
                            TriggerInv, Changed
  <2>7. ValuesInv' /\ RunsInv'
    BY <1>1, <1>9, <2>3, <2>4, <2>5 DEF vars, build, history, CycleInv,
                                        ValuesInv, RunsInv
  <2> QED BY <2>1, <2>2, <2>6, <2>7 DEF IInv, CycleInv
<1> QED BY <1>1, <1>2, <1>3, <1>4, <1>5, <1>6, <1>7, <1>8, <1>9
        DEF Next, Poller

\* The invariant holds in every state.
THEOREM Inductive == Spec => []IInv
  BY Initially, Preserved, PTL DEF Spec

\* Every variable keeps its range, in both engines and for every configuration
\* and device (the fields of struct sane_thread, sane.c:97-116).
THEOREM TypeCorrect == Spec => []TypeOK
<1>1. IInv => TypeOK
  BY DEF IInv
<1> QED BY <1>1, Inductive, PTL

\* The engine of SANE never writes behind the arrays it allocated with
\* num_of_options entries (sane.c:520-523, 666, 683).
THEOREM TableBounded == Spec => []SaneTableInBounds
<1>1. IInv => SaneTableInBounds
  BY DEF IInv, TableInv
<1> QED BY <1>1, Inductive, PTL

\* An action that matches an option is in the table, unless a later one has
\* its place or earlier ones have filled the table (sane.c:489-522).
THEOREM ActionsStand == Spec => []EveryActionStands
<1>1. IInv => EveryActionStands
  BY DEF IInv, TableInv
<1> QED BY <1>1, Inductive, PTL

\* Without multiple_actions no option has two entries (sane.c:658).
THEOREM OneScript == Spec => []OneScriptPerOption
<1>1. IInv => OneScriptPerOption
  BY DEF IInv, TableInv
<1> QED BY <1>1, Inductive, PTL

\* A cycle runs the actions whose option has changed and those that were asked
\* for, and no others (the loop of sane_poll).
THEOREM ActionsExact == Spec => []ActionsMatchChanges
<1>1. IInv => ActionsMatchChanges
  <2>1. SUFFICES ASSUME IInv, pc = "sleep", settled, NEW n \in 1..Len(table)
                 PROVE  /\ <<n, FALSE>> \in runs => Changed(n)
                        /\ Changed(n) => Ran(n)
    BY DEF ActionsMatchChanges, Changed, Ran
  <2>2. Done = Len(table)
    BY <2>1 DEF Done
  <2> QED BY <2>1, <2>2 DEF IInv, CycleInv, RunsInv
<1> QED BY <1>1, Inductive, PTL
=============================================================================
