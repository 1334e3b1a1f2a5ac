----------------------------- MODULE ButtonRound -----------------------------
(***************************************************************************)
(* One poller of the build without SANE asking its scanner for pressed     *)
(* keys: scanbtnd_get_button of the thirteen vendor backends               *)
(* (src/scanbuttond/backends), the transfers below it                      *)
(* (src/scanbuttond/interface/libusbi.c), and the comparison of            *)
(* scbtn_poll that turns an answer into an action                          *)
(* (scanbd/scanbuttond_wrapper.c).  A register is the set of its bits that *)
(* are 1.  A thread that stops the poller, and the opening and closing of  *)
(* the device, are not here.                                               *)
(***************************************************************************)
EXTENDS Integers, Sequences, FiniteSets, FiniteSetsExt

CONSTANTS
  Scanners,     \* the scanners: records of a backend and a number of buttons
  KeySets,      \* the sets of keys that are used together
  Trigger,      \* numerical-trigger of every action: from-value, to-value
  MaxFailures   \* how many transfers fail

Bulk == {"epson", "epson_vphoto", "hp3500", "mustek", "plustek",
         "plustek_umax", "snapscan"}
Control == {"artec_eplus48u", "genesys", "gt68xx", "hp3900", "hp5590", "niash"}

ASSUME ScannersAssumption ==
  \A sc \in Scanners : sc.backend \in Bulk \cup Control /\ sc.buttons \in 1..15
ASSUME TriggerAssumption == Trigger \in [from : 0..1, to : 0..1]
ASSUME MaxFailuresAssumption == MaxFailures \in Nat

VARIABLES
  scanner,   \* the scanner this poller was started for
  keys,      \* the keys somebody uses
  pressed,   \* those that are down
  pipe,      \* bulk: the answers the device has not been relieved of
  halted,    \* bulk: the endpoints that are stalled
  latched,   \* control: the register at the last request the device got
  pc,        \* where the poller is
  got,       \* answers read in this round
  byte,      \* the register as it was read
  button,    \* the return value of scanbtnd_get_button
  value,     \* opts[].value
  failures,  \* transfers that have failed
  watched,   \* history: the code whose fate is recorded in the next two
  shown,     \* history: the keys said so at some time of this round
  spent      \* history: its action has run for the keys now down

device == <<scanner, keys, watched>>
vars == <<device, pressed, pipe, halted, latched, pc, got, byte, button, value,
          failures, shown, spent>>

-----------------------------------------------------------------------------
(* The keys: which bits each of them drives, in the order of the buttons   *)
(* the backend returns for them.                                           *)

PlustekBits(n) ==
  CASE n = 1 -> <<{2}>>
    [] n = 2 -> <<{3}, {2}>>
    [] n = 3 -> <<{4}, {3}, {2}>>
    [] n = 4 -> <<{3}, {4}, {5}, {6}>>
    [] n = 5 -> <<{2}, {3}, {4}, {2, 3}, {3, 4}>>
    [] OTHER -> <<>>
UmaxBits(n) == IF n = 4 THEN <<{2}, {3}, {6}, {5}>> ELSE PlustekBits(n)

KeyBits(sc) ==
  CASE sc.backend = "artec_eplus48u" -> <<{3}, {1}, {2}, {0}>>
    [] sc.backend = "genesys" -> <<{3}, {0}, {1}, {2}>>
    [] sc.backend = "gt68xx" -> <<{1}, {0}, {2}, {3}, {4}>>
    [] sc.backend = "hp3500" -> <<{2}, {3}, {4}>>
    [] sc.backend = "hp3900" -> [b \in 1..sc.buttons |-> {b - 1}]
    [] sc.backend = "hp5590" -> <<{2}, {1}, {9}, {15}, {14}>>
    [] sc.backend = "mustek" -> <<{4}, {2, 4}, {1, 4}, {3, 4}, {0, 4}>>
    [] sc.backend = "niash" -> <<{1}, {2}, {3}, {4}>>
    [] sc.backend = "plustek" -> PlustekBits(sc.buttons)
    [] sc.backend = "plustek_umax" -> UmaxBits(sc.buttons)
    [] sc.backend = "snapscan" -> <<{4}, {5}, {6}, {7}>>
    [] OTHER -> [b \in 1..sc.buttons |-> {i \in 0..2 : (b \div 2^i) % 2 = 1}]

\* A pressed key clears its bits on these, and sets them on the others; an
\* Epson sends the number of one key, the same while nothing moves.
ActiveLow == {"genesys", "hp3500", "hp3900"}
Numbered == {"epson", "epson_vphoto"}

Register(sc, P) ==
  LET bits == UNION {KeyBits(sc)[b] : b \in P}
  IN  IF sc.backend \in ActiveLow THEN (0..7) \ bits
      ELSE IF sc.backend \in Numbered /\ P # {} THEN KeyBits(sc)[Min(P)]
      ELSE bits

-----------------------------------------------------------------------------
(* The decoding at the end of scanbtnd_get_button.                         *)

\* switch (byte): the register is exactly one of these.
Exactly(bits, reg) == Max({b \in DOMAIN bits : bits[b] = reg} \cup {0})

\* if (byte & mask) button = b, for one b after the other: the last one wins.
LastSet(bits, reg) == Max({b \in DOMAIN bits : bits[b] \subseteq reg} \cup {0})

\* The register as a number.
Number(reg) ==
  LET Bit(i, n) == IF i \in reg THEN n ELSE 0
  IN  Bit(0, 1) + Bit(1, 2) + Bit(2, 4) + Bit(3, 8)
        + Bit(4, 16) + Bit(5, 32) + Bit(6, 64) + Bit(7, 128)

ArtecButton(reg) == Exactly(<<{3}, {1}, {2}, {0}>>, reg)
EpsonButton(reg) == Number(reg)
EpsonVPhotoButton(reg) == Number(reg)
button_map_lide60 == <<0, 2, 3, 5, 4, 6, 7, 8, 1, 9, 10, 11, 12, 13, 14, 15>>
GenesysButton(reg) == button_map_lide60[1 + Number((0..3) \ reg)]
Gt68xxButton(reg) == LastSet(<<{1}, {0}, {2}, {3}, {4}>>, reg)
Hp3500Button(reg) == Exactly(<<{3, 4}, {2, 4}, {2, 3}>>, reg \cap {2, 3, 4})
Hp3900Button(n, reg) ==
  LET clear == {c \in 0..(n - 1) : c \notin reg}
  IN  IF clear = {} THEN 0 ELSE Min(clear) + 1
Hp5590Button(reg) == LastSet(<<{2}, {1}, {9}, {15}, {14}>>, reg)
MustekButton(reg) == Exactly(<<{4}, {2, 4}, {1, 4}, {3, 4}, {0, 4}>>, reg)
NiashButton(reg) == Exactly(<<{1}, {2}, {3}, {4}>>, reg)
PlustekButton(n, reg) == LastSet(PlustekBits(n), reg)
UmaxButton(n, reg) == LastSet(UmaxBits(n), reg)
SnapscanButton(reg) == Exactly(<<{4}, {5}, {6}, {7}>>, reg \cap (4..7))

Decode(sc, reg) ==
  CASE sc.backend = "artec_eplus48u" -> ArtecButton(reg)
    [] sc.backend = "epson" -> EpsonButton(reg)
    [] sc.backend = "epson_vphoto" -> EpsonVPhotoButton(reg)
    [] sc.backend = "genesys" -> GenesysButton(reg)
    [] sc.backend = "gt68xx" -> Gt68xxButton(reg)
    [] sc.backend = "hp3500" -> Hp3500Button(reg)
    [] sc.backend = "hp3900" -> Hp3900Button(sc.buttons, reg)
    [] sc.backend = "hp5590" -> Hp5590Button(reg)
    [] sc.backend = "mustek" -> MustekButton(reg)
    [] sc.backend = "niash" -> NiashButton(reg)
    [] sc.backend = "plustek" -> PlustekButton(sc.buttons, reg)
    [] sc.backend = "plustek_umax" -> UmaxButton(sc.buttons, reg)
    [] sc.backend = "snapscan" -> SnapscanButton(reg)

Now == Register(scanner, pressed)
Shows(P) == Decode(scanner, Register(scanner, P)) = watched

-----------------------------------------------------------------------------
Options == 1..scanner.buttons
Start == IF scanner.backend \in Bulk THEN "write"
         ELSE IF scanner.backend = "hp3900" THEN "answer" ELSE "request"

Init ==
  /\ scanner \in Scanners
  /\ keys \in {K \in KeySets : K \subseteq Options /\ K \subseteq DOMAIN KeyBits(scanner)}
  /\ watched \in {Decode(scanner, Register(scanner, P)) : P \in SUBSET keys} \cap Options
  /\ pressed = {} /\ pipe = <<>> /\ halted = {} /\ latched = {}
  /\ pc = Start /\ got = 0 /\ byte = {} /\ button = 0
  /\ value = [o \in Options |-> 0]
  /\ failures = 0 /\ shown = FALSE /\ spent = FALSE

\* Somebody presses or releases a key, at any moment.
Press(k) ==
  /\ pressed' = IF k \in pressed THEN pressed \ {k} ELSE pressed \cup {k}
  /\ shown' = (shown \/ Shows(pressed'))
  /\ spent' = FALSE
  /\ UNCHANGED <<device, pipe, halted, latched, pc, got, byte, button, value, failures>>

\* A round begins with its first transfer.
BeginRound == shown' = Shows(pressed) /\ got' = 0

\* libusb_read, libusb_write and libusb_control_msg return 0 on failure.
Fails ==
  /\ failures < MaxFailures
  /\ failures' = failures + 1
  /\ spent' = FALSE

\* scanbtnd_get_button returns b.
Return(b) == button' = b /\ pc' = "compare"

-----------------------------------------------------------------------------
(* Bulk transfers: a request, and one or more packets in answer.           *)

Expected == CASE scanner.backend = "snapscan" -> <<"F9", "status", "FB">>
              [] scanner.backend = "epson" -> <<"length", "status">>
              [] OTHER -> <<"status">>
Replies(reg) == [i \in DOMAIN Expected |-> [head |-> Expected[i], reg |-> reg]]

WriteOk ==
  /\ pc = "write" /\ "out" \notin halted
  /\ pipe' = pipe \o Replies(Now)
  /\ BeginRound
  /\ pc' = "read"
  /\ UNCHANGED <<device, pressed, halted, latched, byte, button, value, failures, spent>>

\* The transfer fails, with or without the request having arrived, or the
\* device stalls.  libusb_write clears the halt of the other endpoint.
WriteFails ==
  /\ pc = "write" /\ "out" \notin halted
  /\ Fails
  /\ BeginRound
  /\ \/ /\ pipe' \in {pipe, pipe \o Replies(Now)}
        /\ halted' = halted \ {"in"}
     \/ halted' = (halted \ {"in"}) \cup {"out"} /\ pipe' = pipe
  /\ pc' = "flush"
  /\ UNCHANGED <<device, pressed, latched, byte, button, value>>

WriteHalted ==
  /\ pc = "write" /\ "out" \in halted
  /\ BeginRound
  /\ halted' = halted \ {"in"}
  /\ pc' = "flush"
  /\ UNCHANGED <<device, pressed, pipe, latched, byte, button, value, failures, spent>>

\* The packet has the length and the first byte the backend asks for.
ReadOk ==
  /\ pc = "read" /\ "in" \notin halted /\ pipe # <<>>
  /\ Head(pipe).head = Expected[got + 1]
  /\ pipe' = Tail(pipe)
  /\ got' = got + 1
  /\ byte' = IF Head(pipe).head = "status" THEN Head(pipe).reg ELSE byte
  /\ IF got' = Len(Expected) THEN Return(Decode(scanner, byte'))
     ELSE UNCHANGED <<button, pc>>
  /\ UNCHANGED <<device, pressed, halted, latched, value, failures, shown, spent>>

\* It has not: it is another one, or the scanner has made it short.
ReadOther ==
  /\ pc = "read" /\ "in" \notin halted /\ pipe # <<>>
  /\ IF Head(pipe).head = Expected[got + 1] THEN Fails ELSE UNCHANGED <<failures, spent>>
  /\ pipe' = Tail(pipe)
  /\ pc' = "flush"
  /\ UNCHANGED <<device, pressed, halted, latched, got, byte, button, value, shown>>

\* Mutant: libusb_read leaves the endpoint halted.
ReadFailsHalted ==
  /\ pc = "read"
  /\ IF "in" \in halted \/ pipe = <<>>
     THEN UNCHANGED <<pipe, failures>> /\ spent' = FALSE
     ELSE Fails /\ pipe' \in {pipe, Tail(pipe)}
  /\ pc' = "flush"
  /\ UNCHANGED <<device, pressed, halted, latched, got, byte, button, value, shown>>

\* libusb_read clears the halt; the packet may be lost.
ReadFails ==
  /\ pc = "read"
  /\ IF "in" \in halted \/ pipe = <<>>
     THEN UNCHANGED <<pipe, failures>> /\ spent' = FALSE
     ELSE Fails /\ pipe' \in {pipe, Tail(pipe)}
  /\ halted' = halted \ {"in"}
  /\ pc' = "flush"
  /\ UNCHANGED <<device, pressed, latched, got, byte, button, value, shown>>

\* Mutant: nothing is flushed.
FlushNothing ==
  /\ pc = "flush"
  /\ Return(0)
  /\ UNCHANGED <<device, pressed, pipe, halted, latched, got, byte, value, failures, shown, spent>>

\* The buffer of libusb_flush has 16 bytes, this packet has 20.
Oversized(packet) == scanner.backend = "snapscan" /\ packet.head = "status"

\* libusb_flush reads until there is nothing or a read fails; it clears no
\* halt.  An oversized packet is cut, or makes the read fail.
Flush ==
  /\ pc = "flush"
  /\ \/ pipe' = <<>> /\ UNCHANGED <<halted, failures, spent>>
     \/ /\ Fails /\ halted' = halted \cup {"in"}
        /\ \E n \in 0..(Len(pipe) - 1) : pipe' = SubSeq(pipe, n + 1, Len(pipe))
     \/ /\ \E n \in DOMAIN pipe :
             Oversized(pipe[n]) /\ pipe' = SubSeq(pipe, n + 1, Len(pipe))
        /\ spent' = FALSE
        /\ UNCHANGED <<halted, failures>>
  /\ Return(0)
  /\ UNCHANGED <<device, pressed, latched, got, byte, value, shown>>

-----------------------------------------------------------------------------
(* Control transfers: the request is answered in place.                    *)

\* These go on when a transfer fails: they test for less than 0.
Unchecked == {"artec_eplus48u", "gt68xx", "niash"}

RequestOk ==
  /\ pc = "request"
  /\ latched' = Now
  /\ BeginRound
  /\ pc' = "answer"
  /\ UNCHANGED <<device, pressed, pipe, halted, byte, button, value, failures, spent>>

\* The niash then reads another register than that of the keys.
RequestFails ==
  /\ pc = "request"
  /\ Fails
  /\ BeginRound
  /\ IF scanner.backend \in Unchecked
     THEN pc' = "answer" /\ UNCHANGED button
     ELSE Return(0)
  /\ latched' \in IF scanner.backend = "niash" THEN {{}, {1}, {2}, {3}, {4}} ELSE {latched}
  /\ UNCHANGED <<device, pressed, pipe, halted, byte, value>>

AnswerOk ==
  /\ pc = "answer"
  /\ byte' = IF scanner.backend = "hp3900" THEN Now ELSE latched
  /\ IF scanner.backend = "hp5590" THEN pc' = "confirm" /\ UNCHANGED button
     ELSE Return(Decode(scanner, byte'))
  /\ IF scanner.backend = "hp3900" THEN BeginRound ELSE UNCHANGED <<shown, got>>
  /\ UNCHANGED <<device, pressed, pipe, halted, latched, value, failures, spent>>

\* artec_eplus48u decodes its uninitialised buffer; gt68xx finds its own
\* request in the buffer, and niash the 0xff it put there.
AnswerFails ==
  /\ pc = "answer"
  /\ Fails
  /\ \E b \in IF scanner.backend = "artec_eplus48u" THEN 0..4 ELSE {0} : Return(b)
  /\ IF scanner.backend = "hp3900" THEN BeginRound ELSE UNCHANGED <<shown, got>>
  /\ UNCHANGED <<device, pressed, pipe, halted, latched, byte, value>>

\* hp5590_control_msg confirms the data, and hp5590_verify_last_cmd asks
\* what the last command was.
Confirm ==
  /\ pc = "confirm"
  /\ \/ Return(Decode(scanner, byte)) /\ UNCHANGED <<failures, spent>>
     \/ Fails /\ Return(0)
  /\ UNCHANGED <<device, pressed, pipe, halted, latched, got, byte, value, shown>>

-----------------------------------------------------------------------------
(* The loop of scbtn_poll over the options that have actions.              *)

Fires(o) ==
  /\ button > 0 /\ button = o
  /\ Trigger.from = value[o] /\ Trigger.to = 1

\* Mutant: the value of the last round is not kept.
NewValueForgotten(o) == 0

NewValue(o) == IF button > 0 /\ button = o THEN 1 ELSE 0

Compare ==
  /\ pc = "compare"
  /\ value' = [o \in Options |-> NewValue(o)]
  /\ pc' = IF \E o \in Options : Fires(o) THEN "script" ELSE Start
  /\ spent' = (spent \/ Fires(watched))
  /\ button' = 0 /\ byte' = {}
  /\ UNCHANGED <<device, pressed, pipe, halted, latched, got, failures, shown>>

\* The device is closed for the script and opened again after it.
ScriptEnds ==
  /\ pc = "script"
  /\ pc' = Start
  /\ UNCHANGED <<device, pressed, pipe, halted, latched, got, byte, button, value, failures,
                 shown, spent>>

-----------------------------------------------------------------------------
Round ==
  \/ WriteOk \/ WriteFails \/ WriteHalted
  \/ ReadOk \/ ReadOther \/ ReadFails \/ Flush
  \/ RequestOk \/ RequestFails \/ AnswerOk \/ AnswerFails \/ Confirm
  \/ Compare

Next == Round \/ ScriptEnds \/ \E k \in keys : Press(k)

Spec == Init /\ [][Next]_vars

\* The poller goes on, and the script ends; nobody has to press a key.
FairSpec == Spec /\ WF_vars(Round) /\ WF_vars(ScriptEnds)

-----------------------------------------------------------------------------
Packet == [head : {"F9", "FB", "length", "status"}, reg : SUBSET (0..15)]

\* The type invariant.  What failures leave behind in the device does not
\* pile up: at most one answer for each of them, and that of this round.
TypeOK ==
  /\ scanner \in Scanners
  /\ keys \subseteq Options /\ pressed \subseteq keys /\ watched \in Options
  /\ pipe \in Seq(Packet) /\ Len(pipe) <= (1 + MaxFailures) * Len(Expected)
  /\ halted \subseteq {"in", "out"}
  /\ latched \subseteq 0..15 /\ byte \subseteq 0..15
  /\ pc \in {"write", "read", "flush", "request", "answer", "confirm", "compare", "script"}
  /\ got \in 0..Len(Expected) /\ button \in 0..255
  /\ value \in [Options -> 0..1]
  /\ failures \in 0..MaxFailures
  /\ shown \in BOOLEAN /\ spent \in BOOLEAN

\* A button that scanbtnd_get_button returns was down at some time of this
\* very round, whatever failed before: an answer that was left in the device
\* is never taken for the answer to a later request.  This is what
\* libusb_flush is for (libusbi.c:317).  The three backends that overlook a
\* failed transfer do not have this property.
NoStaleButton ==
  pc = "compare" /\ button = watched /\ scanner.backend \notin Unchecked => shown

\* An action runs once for a key that is held down: as long as no key moves
\* and no transfer fails, it does not run again (opts[].value,
\* scanbuttond_wrapper.c:540 and :557).
OncePerPress ==
  [][pc = "compare" /\ pc' = "script" /\ button = watched => ~spent]_vars

\* A key that stays down is noticed in the end, whatever failed before: the
\* backend and the device get back in step.  There are two exceptions: a
\* device that stalls its endpoint for requests, for nothing clears that halt;
\* and snapscan, whose packets the flush may never take away to the end.
HeardAgain ==
  <>[]Shows(pressed)
    => <>[](\/ value[watched] = 1
            \/ "out" \in halted
            \/ scanner.backend = "snapscan" /\ pipe # <<>>)
=============================================================================
