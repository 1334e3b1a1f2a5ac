---------------------------- MODULE OptionTable -----------------------------
(***************************************************************************)
(* What a poller of scanbd does between opening its scanner and the end of *)
(* its life, as far as the data of its own sane_thread_t are concerned:    *)
(* it matches the actions and functions of the configuration against the   *)
(* options of the device, section by section, into two tables of           *)
(* num_of_options entries; then it reads the options of the table once per *)
(* cycle, compares, and runs the script of an entry whose value has gone   *)
(* from from-value to to-value, or that sane_trigger_action asks for.      *)
(*                                                                         *)
(* Both engines build their table here.  What scanbuttond's engine then    *)
(* does with it is module ButtonRound; the stopping, starting and locking  *)
(* of the pollers is module SanePolling.                                   *)
(***************************************************************************)
EXTENDS Integers, Sequences, FiniteSets

CONSTANTS
  Size,          \* num_of_options of the device, at most
  Type,          \* what each option is; "skipped" ones are never looked at
  Latched,       \* options that the backend resets when they are read
  Configs,       \* the configurations
  MaxFailures    \* bound on the reads that fail

Option == 1..Size
Value == {0, 1}  \* 0 is also the empty string
Engine == {"sane", "scanbuttond"}
Action == [filter: SUBSET Option, from: SUBSET Value, to: SUBSET Value]
Section == [actions: Seq(Action), functions: Seq(SUBSET Option)]

ASSUME DeviceAssumption ==
  /\ Size \in Nat \ {0}
  /\ Type \in [Option -> {"skipped", "numeric", "button", "string"}]
  /\ Latched \subseteq Option /\ MaxFailures \in Nat

ASSUME ConfigAssumption ==
  /\ \A c \in Configs :
       /\ c.engine \in Engine /\ c.multiple \in BOOLEAN
       /\ c.sections \in Seq(Section) /\ c.sections # <<>>

VARIABLES
  config,        \* the configuration scanbd was started with
  pc,            \* where the poller is
  at,            \* section, action or function, and option it is matching
  table,         \* opts: number, name of the action, trigger, last value
  functions,     \* number of the option each function stands for
  si,            \* the entry it is polling
  triggered,     \* triggered_option, 0 for none
  env,           \* the values of the functions passed to the script
  val,           \* the options at the device
  failures,      \* reads that failed so far, up to MaxFailures
  was, is,       \* history: what the last two reads of an option gave
  asked,         \* history: the entries asked for that have not run since
  runs,          \* history: what ran in this cycle, and if it was asked for
  settled        \* history: this is not the first cycle

build == <<at, table, functions>>
history == <<was, is, runs, asked, settled>>
vars == <<config, pc, build, si, triggered, env, val, failures, history>>

Sect == config.sections[at.section]
Sane == config.engine = "sane"
\* Option 0 of SANE is the number of options.
LastOption == IF Sane THEN Size - 1 ELSE Size

Init ==
  /\ config \in Configs
  /\ pc = "actions"
  /\ at = [section |-> 1, item |-> 1, option |-> 1]
  /\ table = <<>> /\ functions = <<>>
  /\ si = 1 /\ triggered = 0 /\ env = <<>>
  /\ val = [o \in Option |-> 0] /\ failures = 0
  /\ was = [o \in Option |-> 0] /\ is = [o \in Option |-> 0]
  /\ runs = {} /\ asked = {} /\ settled = FALSE

-----------------------------------------------------------------------------
(* get_sane_option_value                                                   *)

\* Option o is read as v: a read that fails returns 0.
Read(o, v) ==
  \/ /\ v = val[o]
     /\ val' = IF o \in Latched THEN [val EXCEPT ![o] = 0] ELSE val
     /\ UNCHANGED failures
  \/ /\ v = 0
     /\ failures < MaxFailures /\ failures' = failures + 1
     /\ UNCHANGED val

-----------------------------------------------------------------------------
(* sane_find_matching_options and sane_find_matching_functions             *)

\* Mutant: the loop runs up to num_of_options.
ForwardTooFar ==
  IF at.option <= LastOption THEN [at EXCEPT !.option = @ + 1]
                             ELSE [at EXCEPT !.option = 1, !.item = @ + 1]

Forward ==
  IF at.option < LastOption THEN [at EXCEPT !.option = @ + 1]
                            ELSE [at EXCEPT !.option = 1, !.item = @ + 1]

\* The entry of option o, or the one after the last.  Where an option has
\* several entries it does not matter which.
Index(numbers, o) ==
  IF \E n \in 1..Len(numbers) : numbers[n] = o
  THEN CHOOSE n \in 1..Len(numbers) : numbers[n] = o
  ELSE Len(numbers) + 1
Numbers == [n \in 1..Len(table) |-> table[n].number]
Put(list, n, e) ==
  IF n <= Len(list) THEN [list EXCEPT ![n] = e] ELSE Append(list, e)

\* Mutant: the search for the option is left out, every match is appended.
SlotAlwaysNew == Len(table) + 1

\* With multiple_actions a further action of an option gets a further entry.
Slot ==
  LET found == Index(Numbers, at.option) IN
  IF found <= Len(table) /\ config.multiple /\ found <= Size
  THEN Len(table) + 1 ELSE found

Entry(v) ==
  [number |-> at.option, action |-> <<at.section, at.item>>,
   from |-> Sect.actions[at.item].from, to |-> Sect.actions[at.item].to,
   value |-> v]

Matching(items) == pc = items /\ at.item <= Len(Sect[items])
Usable(o) == o <= LastOption /\ (Sane => Type[o] # "skipped")
MatchFrame == UNCHANGED <<config, pc, si, triggered, env, was, runs, asked,
                          settled>>

\* Mutant: no test whether the table is full.
InstallUnbounded(v) ==
  /\ Read(at.option, v)
  /\ table' = Put(table, Slot, Entry(v))
  /\ is' = [is EXCEPT ![at.option] = v]

\* Mutant: the full table loses its last entry to a further action.
InstallOverLast(v) ==
  LET n == IF Slot > Size THEN Size ELSE Slot IN
  /\ Read(at.option, v)
  /\ table' = Put(table, n, Entry(v))
  /\ is' = [is EXCEPT ![at.option] = v]

\* "no space left in array": the action is left out.
Install(v) ==
  IF Slot = Size + 1
  THEN UNCHANGED <<table, val, failures, is>>
  ELSE /\ Read(at.option, v)
       /\ table' = Put(table, Slot, Entry(v))
       /\ is' = [is EXCEPT ![at.option] = v]

\* One turn of the loops over actions and options.
MatchAction ==
  /\ Matching("actions")
  /\ Sane
  /\ IF Usable(at.option) /\ at.option \in Sect.actions[at.item].filter
     THEN \E v \in Value : Install(v)
     ELSE UNCHANGED <<table, val, failures, is>>
  /\ at' = Forward /\ UNCHANGED functions /\ MatchFrame

\* scbtn_find_matching_options, which has no test for a full table.
ScbtnMatchAction ==
  /\ Matching("actions")
  /\ ~Sane
  /\ table' =
       IF Usable(at.option) /\ at.option \in Sect.actions[at.item].filter
       THEN Put(table, Slot, Entry(0)) ELSE table
  /\ at' = Forward
  /\ UNCHANGED <<functions, val, failures, is>> /\ MatchFrame

\* scanbuttond's engine has no functions.
MatchFunction ==
  /\ Matching("functions")
  /\ functions' =
       IF Sane /\ Usable(at.option) /\ at.option \in Sect.functions[at.item]
       THEN Put(functions, Index(functions, at.option), at.option)
       ELSE functions
  /\ at' = Forward
  /\ UNCHANGED <<table, val, failures, is>> /\ MatchFrame

\* Actions, then functions of the global section, then of each section whose
\* filter matches the name of the device.
EndOfItems ==
  /\ pc \in {"actions", "functions"} /\ at.item > Len(Sect[pc])
  /\ \/ /\ pc = "actions"
        /\ pc' = "functions"
        /\ at' = [at EXCEPT !.item = 1, !.option = 1]
     \/ /\ pc = "functions" /\ at.section < Len(config.sections)
        /\ pc' = "actions"
        /\ at' = [section |-> at.section + 1, item |-> 1, option |-> 1]
     \/ /\ pc = "functions" /\ at.section = Len(config.sections)
        /\ pc' = IF Sane THEN "poll" ELSE "scanbuttond"
        /\ UNCHANGED at
  /\ UNCHANGED <<config, table, functions, si, triggered, env, val, failures,
                 history>>

-----------------------------------------------------------------------------
(* The loop of sane_poll                                                   *)

Polling == pc = "poll" /\ si <= Len(table)
Number == table[si].number
PollFrame == UNCHANGED <<config, build, asked, settled>>

\* Mutant: an option is read once for every entry it has.
FetchAgain(v) ==
  /\ Read(Number, v)
  /\ was' = [was EXCEPT ![Number] = is[Number]]
  /\ is' = [is EXCEPT ![Number] = v]

\* An option with several entries is read for the first one only.
Fetch(v) ==
  LET seen == {m \in 1..(si - 1) : table[m].number = Number} IN
  IF seen # {}
  THEN /\ \E m \in seen : (\A l \in seen : m <= l) /\ v = table[m].value
       /\ UNCHANGED <<val, failures, was, is>>
  ELSE /\ Read(Number, v)
       /\ was' = [was EXCEPT ![Number] = is[Number]]
       /\ is' = [is EXCEPT ![Number] = v]

\* The comparison: a change takes the place of an action that was asked for.
Check ==
  /\ Polling
  /\ \E v \in Value :
       /\ Fetch(v)
       /\ LET fires == table[si].value \in table[si].from
                       /\ v \in table[si].to
              next == IF fires THEN si ELSE triggered IN
          /\ table' = [table EXCEPT ![si].value = v]
          /\ triggered' = next
          /\ IF next # 0 THEN pc' = "fire" /\ UNCHANGED si
                         ELSE si' = si + 1 /\ UNCHANGED pc
  /\ UNCHANGED <<config, at, functions, env, runs, asked, settled>>

\* A function whose option also has an action is not read again: what is
\* passed is the initialised value, 0.
FunctionValue(f, v) ==
  IF \E n \in 1..Len(table) : table[n].number = functions[f]
  THEN v = 0 /\ UNCHANGED <<val, failures>>
  ELSE Read(functions[f], v)

\* Line 927 looks at the option of the entry where it means the function's.
Printable(f) ==
  Type[functions[f]] # "button" \/ Type[Number] = "button"

\* The environment for the script, one function after the other.
AddFunction ==
  LET f == Len(env) + 1 IN
  /\ pc = "fire" /\ f <= Len(functions)
  /\ \E v \in Value : FunctionValue(f, v) /\ env' = Append(env, v)
  /\ pc' = IF Printable(f) THEN pc ELSE "aborted"
  /\ UNCHANGED <<si, triggered, table, was, is, runs>>
  /\ UNCHANGED <<config, at, functions, asked, settled>>

\* The device is closed and the mutex given up for the script.
RunScript ==
  /\ pc = "fire" /\ Len(env) = Len(functions)
  /\ pc' = "script"
  /\ runs' = runs \cup {<<triggered, triggered \in asked>>}
  /\ asked' = asked \ {triggered}
  /\ UNCHANGED <<config, build, si, triggered, env, val, failures, was, is,
                 settled>>

\* Mutant: triggered is not reset.
ScriptEndsTriggered ==
  /\ pc = "script"
  /\ pc' = "settle" /\ env' = <<>>
  /\ UNCHANGED <<si, triggered, val, failures, was, is, runs>> /\ PollFrame

ScriptEnds ==
  /\ pc = "script"
  /\ pc' = "settle" /\ triggered' = 0 /\ env' = <<>>
  /\ UNCHANGED <<si, val, failures, was, is, runs>> /\ PollFrame

\* After the pause the device is opened again, and the next entry's turn.
Reopen ==
  /\ pc = "settle"
  /\ pc' = "poll" /\ si' = si + 1
  /\ UNCHANGED <<triggered, env, val, failures, was, is, runs>> /\ PollFrame

EndOfCycle ==
  /\ pc = "poll" /\ si > Len(table)
  /\ pc' = "sleep"
  /\ UNCHANGED <<si, triggered, env, val, failures, was, is, runs>>
  /\ PollFrame

NextCycle ==
  /\ pc = "sleep"
  /\ pc' = "poll" /\ si' = 1 /\ runs' = {} /\ settled' = TRUE
  /\ UNCHANGED <<config, build, triggered, env, val, failures, was, is, asked>>

-----------------------------------------------------------------------------
(* The others                                                              *)

\* sane_trigger_action for entry n gets the mutex and finds nothing triggered.
Request(n) ==
  /\ pc \in {"settle", "sleep"} /\ triggered = 0 /\ n <= Len(table)
  /\ triggered' = n /\ asked' = asked \cup {n}
  /\ UNCHANGED <<config, pc, build, si, env, val, failures, was, is, runs,
                 settled>>

\* The user at the scanner; a latched option only goes off when it is read.
Change(o) ==
  /\ Sane /\ Type[o] # "skipped" /\ pc # "aborted"
  /\ o \in Latched => val[o] = 0
  /\ val' = [val EXCEPT ![o] = 1 - @]
  /\ UNCHANGED <<config, pc, build, si, triggered, env, failures, history>>

Poller ==
  \/ MatchAction \/ ScbtnMatchAction \/ MatchFunction \/ EndOfItems
  \/ Check \/ AddFunction \/ RunScript \/ ScriptEnds \/ Reopen
  \/ EndOfCycle \/ NextCycle

Next ==
  \/ Poller
  \/ \E n \in 1..Size : Request(n)
  \/ \E o \in Option : Change(o)

Spec == Init /\ [][Next]_vars

\* The poller is a thread, the script ends, and sleeps are finite.
FairSpec == Spec /\ WF_vars(Poller)

-----------------------------------------------------------------------------
(* Properties                                                              *)

TableEntry == [number: Option, action: Nat \X Nat, from: SUBSET Value,
               to: SUBSET Value, value: Value]

\* Every variable keeps its range.
TypeOK ==
  /\ config \in Configs
  /\ pc \in {"actions", "functions", "poll", "fire", "script", "settle",
             "sleep", "aborted", "scanbuttond"}
  /\ at \in [section: 1..Len(config.sections), item: Nat \ {0},
             option: Option]
  /\ table \in Seq(TableEntry)
  /\ functions \in Seq(Option) /\ env \in Seq(Value)
  /\ si \in 1..(Len(table) + 1) /\ triggered \in 0..Len(table)
  /\ val \in [Option -> Value] /\ failures \in 0..MaxFailures
  /\ was \in [Option -> Value] /\ is \in [Option -> Value]
  /\ asked \subseteq 1..Len(table)
  /\ runs \subseteq (1..Len(table)) \X BOOLEAN /\ settled \in BOOLEAN

\* The arrays have num_of_options entries, and nothing is written behind them
\* however many actions the sections have for one option (sane.c: "no space
\* left in array"; functions has no such test and needs none).
SaneTableInBounds ==
  Sane => Len(table) <= Size /\ Len(functions) < Size

\* The same of both engines: "allow multiple actions per option (up to the
\* total amount of options)" (conf/scanbd.conf:121).
TableInBounds == Len(table) <= Size

\* Position <<s, i, o>> of the loops has been passed.
Passed(s, i, o) ==
  \/ s < at.section
  \/ /\ s = at.section
     /\ \/ pc # "actions" \/ i < at.item
        \/ i = at.item /\ o < at.option

Earlier(a, b) == a[1] < b[1] \/ (a[1] = b[1] /\ a[2] < b[2])

\* Action i of section s stands in the table for its option o: an action is
\* left out only for lack of space, which earlier ones take, or, without
\* multiple_actions, for one that comes later: "later matching actions
\* overwrite previous ones", and the sections of a device "override global
\* definitions" (sane.c:658, 706).
Stands(s, i, o) ==
  \/ /\ config.multiple /\ Len(table) = Size
     /\ \A n \in 1..Len(table) : ~Earlier(<<s, i>>, table[n].action)
  \/ \E n \in 1..Len(table) :
       /\ table[n].number = o
       /\ IF config.multiple THEN table[n].action = <<s, i>>
          ELSE ~Earlier(table[n].action, <<s, i>>)

EveryActionStands ==
  TableInBounds =>
    \A s \in 1..at.section : \A i \in 1..Len(config.sections[s].actions) :
      \A o \in config.sections[s].actions[i].filter :
        Usable(o) /\ Passed(s, i, o) => Stands(s, i, o)

\* "only one script is possible per option" (sane.c:658): without
\* multiple_actions one change never runs two scripts.
OneScriptPerOption ==
  ~config.multiple =>
    \A m, n \in 1..Len(table) : table[m].number = table[n].number => m = n

\* In every cycle but the first the actions that run are those whose option
\* went from their from-value to their to-value between two reads of the
\* device, all of them, and those that were asked for: also when an option has
\* several entries, is reset by being read, a read fails, or a script and the
\* requests of others come in between (sane.c: sane_poll).
ActionsMatchChanges ==
  pc = "sleep" /\ settled =>
    \A n \in 1..Len(table) :
      LET o == table[n].number
          changed == was[o] \in table[n].from /\ is[o] \in table[n].to IN
      /\ <<n, FALSE>> \in runs => changed
      /\ changed => \E b \in BOOLEAN : <<n, b>> \in runs

\* Once polling has settled, pressing a button whose option holds the press
\* until it is read runs every action of it, whatever reads fail, unless the
\* assertion on the functions ends scanbd first.
PressFires ==
  \A n \in 1..Size :
    (/\ settled /\ n <= Len(table)
     /\ LET o == table[n].number IN
        o \in Latched /\ val[o] = 1 /\ is[o] = 0
     /\ 0 \in table[n].from /\ 1 \in table[n].to)
      ~> (pc = "aborted" \/ \E b \in BOOLEAN : <<n, b>> \in runs)

\* "check if the function-option is the same as a action-option. If so, use the
\* action-option value instead of re-get the same option value"
\* (sane.c:905-908): the script is passed what was last read.
FunctionValuePassed ==
  pc = "script" =>
    \A f \in 1..Len(functions) :
      (\E n \in 1..Len(table) : table[n].number = functions[f])
        => env[f] = is[functions[f]]
=============================================================================
