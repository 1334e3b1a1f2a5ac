------------------------- MODULE ButtonRound_proofs -------------------------
(***************************************************************************)
(* Proofs about ButtonRound, for every set of scanners of the thirteen     *)
(* backends, every set of keys and any number of failures.  The inductive  *)
(* invariant IInv says which answers may lie in the device at each place   *)
(* of the poller, in which order, and how many for the failures so far;    *)
(* SpentInv adds what is known while no key moves and nothing fails.       *)
(***************************************************************************)
EXTENDS ButtonRound, SequenceTheorems, WellFoundedInduction, TLAPS

-----------------------------------------------------------------------------
(* The inductive invariant                                                 *)

\* Values the register of the keys has, and those that a control transfer
\* delivers when the request failed.
Registers == {Register(scanner, P) : P \in SUBSET keys}
             \cup (IF scanner.backend \in Bulk THEN {} ELSE {{}})
             \cup (IF scanner.backend = "niash" THEN {{1}, {2}, {3}, {4}} ELSE {})

Heads == {"F9", "FB", "length", "status"}
Packets == [head : Heads, reg : Registers]
Answers == Len(Expected)
Position == CHOOSE i \in 1..Answers : Expected[i] = "status"

\* The first packet ends an older answer, and is no beginning of a new one.
Stale(q) == q # <<>> /\ scanner.backend = "snapscan" /\ q[1].head = "FB"

\* The packets are the end of a sequence of answers, in the order in which
\* they were sent.
InOrder(q) ==
  \A i \in 1..Len(q) : q[i].head = Expected[Answers - ((Len(q) - i) % Answers)]

\* A register that decodes to the watched code was shown in this round.
Told(reg) == Decode(scanner, reg) = watched => shown

TypeInv ==
  /\ scanner \in Scanners
  /\ keys \subseteq Options /\ keys \subseteq DOMAIN KeyBits(scanner)
  /\ pressed \subseteq keys /\ watched \in Options
  /\ pipe \in Seq(Packets)
  /\ halted \subseteq {"in", "out"}
  /\ latched \in Registers \cup {{}} /\ byte \in Registers \cup {{}}
  /\ got \in 0..Answers /\ button \in 0..255
  /\ value \in [Options -> 0..1]
  /\ failures \in 0..MaxFailures
  /\ shown \in BOOLEAN /\ spent \in BOOLEAN

\* Which places belong to bulk transfers and which to control transfers.
PhaseInv ==
  \/ /\ scanner.backend \in Bulk
     /\ pc \in {"write", "read", "flush", "compare", "script"}
     /\ got < Answers \/ pc # "read"
  \/ /\ scanner.backend \in Control /\ pipe = <<>> /\ halted = {}
     /\ pc \in {"request", "answer", "confirm", "compare", "script"}
     /\ scanner.backend = "hp3900" => pc \notin {"request", "confirm"}

\* Before a request there is nothing in the device; or its endpoint is
\* halted, which the request will notice; or a stale packet comes first.  A
\* button is returned only when nothing is left.
PipeInv ==
  /\ halted # {} => failures > 0
  /\ pc \in {"write", "script", "compare"} =>
       \/ pipe = <<>> /\ "in" \notin halted
       \/ "in" \in halted /\ Len(pipe) + Answers <= Answers * failures
       \/ Stale(pipe) /\ "in" \notin halted /\ Len(pipe) <= Answers * failures - 2
  /\ pc = "compare" /\ button # 0 => pipe = <<>> /\ halted = {}
  /\ pc = "read" =>
       /\ "out" \notin halted
       /\ \/ "in" \in halted /\ got = 0 /\ Len(pipe) <= Answers * failures
          \/ "in" \notin halted /\ Len(pipe) = Answers - got
          \/ /\ "in" \notin halted /\ got = 0 /\ failures > 0
             /\ Stale(pipe) /\ Len(pipe) <= Answers * failures + 1
             /\ Len(pipe) > Answers
  /\ pc = "flush" => "in" \notin halted /\ failures > 0 /\ Len(pipe) <= Answers * failures

\* What is on its way to the poller was shown in this round.
ShownInv ==
  /\ pc = "read" /\ "in" \notin halted /\ Len(pipe) = Answers - got =>
       /\ \A i \in 1..Len(pipe) : Told(pipe[i].reg)
       /\ got >= Position => Told(byte)
  /\ scanner.backend \notin Unchecked =>
       /\ pc = "answer" /\ scanner.backend # "hp3900" => Told(latched)
       /\ pc = "confirm" => Told(byte)
       /\ pc = "compare" /\ button = watched => shown

IInv == TypeInv /\ PhaseInv /\ InOrder(pipe) /\ PipeInv /\ ShownInv

\* After the action for a code has run and while nothing moves or fails, the
\* scanner shows what it says, and is in step with the poller.
SpentInv ==
  spent =>
    /\ halted = {} /\ pc # "flush"
    /\ value[watched] = 1 \/ ~Shows(pressed)
    /\ pc \in {"write", "script", "compare"} => pipe = <<>>
    /\ pc = "read" => /\ Len(pipe) = Answers - got
                      /\ \A i \in 1..Len(pipe) : pipe[i].reg = Now
                      /\ got >= Position => byte = Now
    /\ pc = "answer" /\ scanner.backend # "hp3900" => latched = Now
    /\ pc = "confirm" => byte = Now
    /\ pc = "compare" => button = Decode(scanner, Now)
-----------------------------------------------------------------------------
(* Operators: the greatest and the least button, what the decoding returns *)

\* A non-empty set of natural numbers has a least element, which Min finds.
LEMMA MinFound ==
  ASSUME NEW S \in SUBSET Nat, S # {}
  PROVE  Min(S) \in S /\ \A y \in S : Min(S) <= y
<1>1. PICK x \in S : \A y \in S : ~ (<<y, x>> \in OpToRel(<, Nat))
  BY WFMin, NatLessThanWellFounded
<1>2. \A y \in S : x <= y
  <2> TAKE y \in S
  <2>1. <<y, x>> \in Nat \X Nat
    OBVIOUS
  <2>2. ~ (y < x)
    BY <1>1, <2>1 DEF OpToRel
  <2> QED
    BY <2>2
<1> QED
  BY <1>2 DEF Min

\* A set of small numbers has a greatest one, which Max finds.
LEMMA MaxFound ==
  ASSUME NEW S \in SUBSET (0..5), S # {}
  PROVE  Max(S) \in S
<1> DEFINE T == {5 - x : x \in S}
<1>1. \A x \in S : 5 - x \in Nat /\ 5 - x \in T
  OBVIOUS
<1>0. T \in SUBSET Nat /\ T # {}
  BY <1>1
<1>2. PICK m \in T : \A y \in T : m <= y
  BY <1>0, MinFound
<1>3. PICK x \in S : m = 5 - x
  OBVIOUS
<1>4. \A y \in S : x >= y
  <2> TAKE y \in S
  <2>1. 5 - y \in T
    OBVIOUS
  <2>2. 5 - x <= 5 - y
    BY <2>1, <1>2, <1>3
  <2> QED
    BY <2>2
<1> QED
  BY <1>4 DEF Max

\* A switch over at most five values returns one of their numbers, or 0.
LEMMA ExactlyRange ==
  ASSUME NEW bits, NEW reg, DOMAIN bits \subseteq 1..5
  PROVE  Exactly(bits, reg) \in 0..255
<1> DEFINE S == {b \in DOMAIN bits : bits[b] = reg} \cup {0}
<1>1. S \in SUBSET (0..5) /\ S # {}
  OBVIOUS
<1>2. Max(S) \in 0..5
  BY <1>1, MaxFound
<1> QED
  BY <1>2 DEF Exactly

\* The same of a chain of tests of masks.
LEMMA LastSetRange ==
  ASSUME NEW bits, NEW reg, DOMAIN bits \subseteq 1..5
  PROVE  LastSet(bits, reg) \in 0..255
<1> DEFINE S == {b \in DOMAIN bits : bits[b] \subseteq reg} \cup {0}
<1>1. S \in SUBSET (0..5) /\ S # {}
  OBVIOUS
<1>2. Max(S) \in 0..5
  BY <1>1, MaxFound
<1> QED
  BY <1>2 DEF LastSet

\* A register of eight bits is a byte, and one of four bits less than 16.
LEMMA NumberRange ==
  ASSUME NEW reg
  PROVE  Number(reg) \in 0..255 /\ (reg \subseteq 0..3 => Number(reg) \in 0..15)
BY DEF Number

LEMMA GenesysRange ==
  ASSUME NEW reg
  PROVE  GenesysButton(reg) \in 0..255
<1>1. Number((0..3) \ reg) \in 0..15
  BY NumberRange
<1>2. \A i \in 1..16 : button_map_lide60[i] \in 0..255
  BY DEF button_map_lide60
<1> QED
  BY <1>1, <1>2 DEF GenesysButton

LEMMA Hp3900Range ==
  ASSUME NEW n \in 1..15, NEW reg
  PROVE  Hp3900Button(n, reg) \in 0..255
<1> DEFINE clear == {c \in 0..(n - 1) : c \notin reg}
<1>1. CASE clear = {}
  BY <1>1 DEF Hp3900Button
<1>2. CASE clear # {}
  <2>1. Min(clear) \in clear
    BY <1>2, MinFound
  <2> QED
    BY <1>2, <2>1 DEF Hp3900Button
<1> QED
  BY <1>1, <1>2

LEMMA PlustekDomain ==
  ASSUME NEW n
  PROVE  DOMAIN PlustekBits(n) \subseteq 1..5 /\ DOMAIN UmaxBits(n) \subseteq 1..5
<1>1. DOMAIN PlustekBits(n) \subseteq 1..5
  BY DEF PlustekBits
<1> QED
  BY <1>1 DEF UmaxBits

\* Whatever is in the register, scanbtnd_get_button returns a byte: the
\* button is unsigned char in every backend's table.
LEMMA DecodeRange ==
  ASSUME NEW sc \in Scanners, NEW reg
  PROVE  Decode(sc, reg) \in 0..255
<1> USE ScannersAssumption DEF Bulk, Control
<1>1. CASE sc.backend = "artec_eplus48u"
  BY <1>1, ExactlyRange DEF Decode, ArtecButton
<1>2. CASE sc.backend \in {"epson", "epson_vphoto"}
  BY <1>2, NumberRange DEF Decode, EpsonButton, EpsonVPhotoButton
<1>3. CASE sc.backend = "genesys"
  BY <1>3, GenesysRange DEF Decode
<1>4. CASE sc.backend = "gt68xx"
  BY <1>4, LastSetRange DEF Decode, Gt68xxButton
<1>5. CASE sc.backend = "hp3500"
  BY <1>5, ExactlyRange DEF Decode, Hp3500Button
<1>6. CASE sc.backend = "hp3900"
  BY <1>6, Hp3900Range DEF Decode
<1>7. CASE sc.backend = "hp5590"
  BY <1>7, LastSetRange DEF Decode, Hp5590Button
<1>8. CASE sc.backend = "mustek"
  BY <1>8, ExactlyRange DEF Decode, MustekButton
<1>9. CASE sc.backend = "niash"
  BY <1>9, ExactlyRange DEF Decode, NiashButton
<1>10. CASE sc.backend = "plustek"
  BY <1>10, LastSetRange, PlustekDomain DEF Decode, PlustekButton
<1>11. CASE sc.backend = "plustek_umax"
  BY <1>11, LastSetRange, PlustekDomain DEF Decode, UmaxButton
<1>12. CASE sc.backend = "snapscan"
  BY <1>12, ExactlyRange DEF Decode, SnapscanButton
<1> QED
  BY <1>1, <1>2, <1>3, <1>4, <1>5, <1>6, <1>7, <1>8, <1>9, <1>10, <1>11, <1>12

\* Every key drives bits of a register of sixteen.
LEMMA KeyBitsRange ==
  ASSUME NEW sc \in Scanners, NEW b \in DOMAIN KeyBits(sc)
  PROVE  KeyBits(sc)[b] \subseteq 0..15
<1> USE ScannersAssumption DEF Bulk, Control
<1>1. CASE sc.backend \in {"artec_eplus48u", "genesys", "gt68xx", "hp3500"}
  BY <1>1 DEF KeyBits
<1>2. CASE sc.backend = "hp3900"
  BY <1>2 DEF KeyBits
<1>3. CASE sc.backend \in {"hp5590", "mustek", "niash", "snapscan"}
  BY <1>3 DEF KeyBits
<1>4. CASE sc.backend \in {"plustek", "plustek_umax"}
  <2>1. \A n : \A i \in DOMAIN PlustekBits(n) : PlustekBits(n)[i] \subseteq 0..15
    BY DEF PlustekBits
  <2>2. \A n : \A i \in DOMAIN UmaxBits(n) : UmaxBits(n)[i] \subseteq 0..15
    BY <2>1 DEF UmaxBits
  <2> QED
    BY <1>4, <2>1, <2>2 DEF KeyBits
<1>5. CASE sc.backend \in {"epson", "epson_vphoto"}
  <2>1. KeyBits(sc) = [k \in 1..sc.buttons |-> {i \in 0..2 : (k \div 2^i) % 2 = 1}]
    BY <1>5 DEF KeyBits
  <2> QED
    BY <2>1
<1> QED
  BY <1>1, <1>2, <1>3, <1>4, <1>5

LEMMA KeyBitsDomain ==
  ASSUME NEW sc \in Scanners
  PROVE  DOMAIN KeyBits(sc) \subseteq Nat
<1> USE ScannersAssumption DEF Bulk, Control
<1>1. CASE sc.backend \in {"artec_eplus48u", "genesys", "gt68xx", "hp3500"}
  BY <1>1 DEF KeyBits
<1>2. CASE sc.backend = "hp3900"
  BY <1>2 DEF KeyBits
<1>3. CASE sc.backend \in {"hp5590", "mustek", "niash", "snapscan"}
  BY <1>3 DEF KeyBits
<1>4. CASE sc.backend \in {"plustek", "plustek_umax"}
  BY <1>4, PlustekDomain DEF KeyBits
<1>5. CASE sc.backend \in {"epson", "epson_vphoto"}
  <2>1. KeyBits(sc) = [k \in 1..sc.buttons |-> {i \in 0..2 : (k \div 2^i) % 2 = 1}]
    BY <1>5 DEF KeyBits
  <2> QED
    BY <2>1
<1> QED
  BY <1>1, <1>2, <1>3, <1>4, <1>5

\* The register is one of sixteen bits.
LEMMA RegisterRange ==
  ASSUME NEW sc \in Scanners, NEW P \in SUBSET DOMAIN KeyBits(sc)
  PROVE  Register(sc, P) \subseteq 0..15
<1>1. \A b \in P : KeyBits(sc)[b] \subseteq 0..15
  BY KeyBitsRange
<1>2. UNION {KeyBits(sc)[b] : b \in P} \subseteq 0..15
  BY <1>1
<1>3. CASE sc.backend \in ActiveLow
  BY <1>3 DEF Register
<1>4. CASE sc.backend \notin ActiveLow /\ sc.backend \in Numbered /\ P # {}
  <2>1. P \in SUBSET Nat
    BY KeyBitsDomain
  <2>2. Min(P) \in P
    BY <1>4, <2>1, MinFound
  <2> QED
    BY <1>1, <1>4, <2>2 DEF Register
<1>5. CASE ~ (sc.backend \in ActiveLow \/ (sc.backend \in Numbered /\ P # {}))
  BY <1>2, <1>5 DEF Register
<1> QED
  BY <1>3, <1>4, <1>5
-----------------------------------------------------------------------------
(* Answers: their parts, their order, and what is left of them             *)

\* What never changes: which scanner it is, and with that what it answers.
LEMMA Frame ==
  ASSUME UNCHANGED device
  PROVE  /\ scanner' = scanner /\ keys' = keys /\ watched' = watched
         /\ Registers' = Registers /\ Packets' = Packets
         /\ Expected' = Expected /\ Answers' = Answers /\ Position' = Position
         /\ Options' = Options /\ Start' = Start
<1>1. scanner' = scanner /\ keys' = keys /\ watched' = watched
  BY DEF device
<1>2. Registers' = Registers
  BY <1>1 DEF Registers
<1>3. Expected' = Expected
  BY <1>1 DEF Expected
<1>4. Answers' = Answers
  BY <1>3 DEF Answers
<1> QED
  BY <1>1, <1>2, <1>3, <1>4 DEF Packets, Position, Options, Start

\* One to three packets answer a request; exactly one of them has the
\* register, and only snapscan sends an FB, at the end.
LEMMA Parts ==
  ASSUME scanner \in Scanners
  PROVE  /\ Answers \in 1..3 /\ DOMAIN Expected = 1..Answers
         /\ \A i \in 1..Answers : Expected[i] \in Heads
         /\ Position \in 1..Answers /\ Expected[Position] = "status"
         /\ \A i \in 1..Answers : Expected[i] = "status" => i = Position
         /\ scanner.backend = "snapscan" =>
              /\ Answers = 3 /\ Expected[1] = "F9"
              /\ Expected[2] = "status" /\ Expected[3] = "FB"
<1>1. CASE scanner.backend = "snapscan"
  <2>1. Expected = <<"F9", "status", "FB">>
    BY <1>1 DEF Expected
  <2>2. Answers = 3
    BY <2>1 DEF Answers
  <2>3. Position = 2
    BY <2>1, <2>2 DEF Position
  <2> QED
    BY <1>1, <2>1, <2>2, <2>3 DEF Heads
<1>2. CASE scanner.backend = "epson"
  <2>1. Expected = <<"length", "status">>
    BY <1>2 DEF Expected
  <2>2. Answers = 2
    BY <2>1 DEF Answers
  <2>3. Position = 2
    BY <2>1, <2>2 DEF Position
  <2> QED
    BY <1>2, <2>1, <2>2, <2>3 DEF Heads
<1>3. CASE scanner.backend \notin {"snapscan", "epson"}
  <2>1. Expected = <<"status">>
    BY <1>3 DEF Expected
  <2>2. Answers = 1
    BY <2>1 DEF Answers
  <2>3. Position = 1
    BY <2>1, <2>2 DEF Position
  <2> QED
    BY <1>3, <2>1, <2>2, <2>3 DEF Heads
<1> QED
  BY <1>1, <1>2, <1>3

\* Answers for one more failure.
LEMMA OneMore ==
  ASSUME scanner \in Scanners, NEW f \in Nat
  PROVE  /\ Answers * f \in Nat
         /\ Answers * (f + 1) = Answers * f + Answers
         /\ f > 0 => Answers * f >= Answers
         /\ \A m \in Nat : f <= m => Answers * f <= Answers * m
<1>1. Answers \in 1..3
  BY Parts
<1>2. CASE Answers = 1
  BY <1>2
<1>3. CASE Answers = 2
  BY <1>3
<1>4. CASE Answers = 3
  BY <1>4
<1> QED
  BY <1>1, <1>2, <1>3, <1>4

LEMMA NowIsRegister ==
  ASSUME TypeInv
  PROVE  Now \in Registers
BY DEF TypeInv, Now, Registers

LEMMA AnAnswer ==
  ASSUME scanner \in Scanners, NEW reg \in Registers
  PROVE  /\ Replies(reg) \in Seq(Packets) /\ Len(Replies(reg)) = Answers
         /\ \A i \in 1..Answers : /\ Replies(reg)[i].head = Expected[i]
                                  /\ Replies(reg)[i].reg = reg
<1>1. /\ Answers \in Nat /\ DOMAIN Expected = 1..Answers
      /\ \A i \in 1..Answers : Expected[i] \in Heads
  BY Parts
<1>2. Replies(reg) = [i \in 1..Answers |-> [head |-> Expected[i], reg |-> reg]]
  BY <1>1 DEF Replies
<1>3. \A i \in 1..Answers : [head |-> Expected[i], reg |-> reg] \in Packets
  BY <1>1 DEF Packets
<1>4. Replies(reg) \in [1..Answers -> Packets]
  BY <1>2, <1>3
<1>5. Replies(reg) \in Seq(Packets) /\ Len(Replies(reg)) = Answers
  BY <1>1, <1>4
<1>6. \A i \in 1..Answers : Replies(reg)[i] = [head |-> Expected[i], reg |-> reg]
  BY <1>2
<1> QED
  BY <1>5, <1>6

\* One more answer behind the others.
LEMMA Appended ==
  ASSUME scanner \in Scanners, NEW reg \in Registers,
         NEW q \in Seq(Packets), InOrder(q)
  PROVE  /\ q \o Replies(reg) \in Seq(Packets)
         /\ Len(q \o Replies(reg)) = Len(q) + Answers
         /\ \A i \in 1..Len(q) : (q \o Replies(reg))[i] = q[i]
         /\ InOrder(q \o Replies(reg))
<1> DEFINE r == Replies(reg)
           s == q \o r
<1>1. r \in Seq(Packets) /\ Len(r) = Answers
      /\ \A i \in 1..Answers : r[i].head = Expected[i]
  BY AnAnswer
<1>2. Answers \in 1..3 /\ Len(q) \in Nat
  BY Parts, LenProperties
<1> HIDE DEF r
<1>3. /\ s \in Seq(Packets) /\ Len(s) = Len(q) + Answers
      /\ \A i \in 1..Len(s) : s[i] = IF i <= Len(q) THEN q[i] ELSE r[i - Len(q)]
  BY <1>1, <1>2, ConcatProperties
<1> HIDE DEF s
<1>4. ASSUME NEW i \in 1..Len(s)
      PROVE  s[i].head = Expected[Answers - ((Len(s) - i) % Answers)]
  <2>1. CASE i <= Len(q)
    <3>1. s[i] = q[i] /\ i \in 1..Len(q)
      BY <1>2, <1>3, <2>1
    <3>2. s[i].head = Expected[Answers - ((Len(q) - i) % Answers)]
      BY <3>1 DEF InOrder
    <3>3. (Len(s) - i) % Answers = (Len(q) - i) % Answers
      <4>1. CASE Answers = 1
        BY <1>2, <1>3, <2>1, <4>1
      <4>2. CASE Answers = 2
        BY <1>2, <1>3, <2>1, <4>2
      <4>3. CASE Answers = 3
        BY <1>2, <1>3, <2>1, <4>3
      <4> QED
        BY <1>2, <4>1, <4>2, <4>3
    <3> QED
      BY <3>2, <3>3
  <2>2. CASE i > Len(q)
    <3>1. s[i] = r[i - Len(q)] /\ i - Len(q) \in 1..Answers
      BY <1>2, <1>3, <2>2
    <3>2. s[i].head = Expected[i - Len(q)]
      BY <1>1, <3>1
    <3>3. Answers - ((Len(s) - i) % Answers) = i - Len(q)
      <4>1. CASE Answers = 1
        BY <1>2, <1>3, <3>1, <4>1
      <4>2. CASE Answers = 2
        BY <1>2, <1>3, <3>1, <4>2, SMTT(30)
      <4>3. CASE Answers = 3
        <5>1. Len(s) - i = 3 - (i - Len(q)) /\ i - Len(q) \in {1, 2, 3}
          BY <1>2, <1>3, <3>1, <4>3
        <5>2. 2 % 3 = 2 /\ 1 % 3 = 1 /\ 0 % 3 = 0
          OBVIOUS
        <5> QED
          BY <4>3, <5>1, <5>2
      <4> QED
        BY <1>2, <4>1, <4>2, <4>3
    <3> QED
      BY <3>2, <3>3
  <2> QED
    BY <1>2, <2>1, <2>2
<1>5. InOrder(s)
  BY <1>4 DEF InOrder
<1>6. \A i \in 1..Len(q) : s[i] = q[i]
  BY <1>2, <1>3
<1> QED
  BY <1>3, <1>5, <1>6 DEF s, r

\* Taking packets away at the front leaves the others as they were.
LEMMA Shortened ==
  ASSUME NEW q \in Seq(Packets), NEW n \in 0..Len(q)
  PROVE  LET s == SubSeq(q, n + 1, Len(q))
         IN  /\ s \in Seq(Packets) /\ Len(s) = Len(q) - n
             /\ \A i \in 1..Len(s) : s[i] = q[i + n]
             /\ InOrder(q) => InOrder(s)
<1> DEFINE s == SubSeq(q, n + 1, Len(q))
<1>1. Len(q) \in Nat
  BY LenProperties
<1>2. \A i \in (n + 1)..Len(q) : q[i] \in Packets
  BY <1>1, ElementOfSeq
<1>3. /\ s \in Seq(Packets)
      /\ Len(s) = IF n + 1 <= Len(q) THEN Len(q) - (n + 1) + 1 ELSE 0
      /\ \A i \in 1..(Len(q) - (n + 1) + 1) : s[i] = q[(n + 1) + i - 1]
  BY <1>1, <1>2, SubSeqProperties
<1> HIDE DEF s
<1>4. Len(s) = Len(q) - n /\ \A i \in 1..Len(s) : s[i] = q[i + n]
  BY <1>1, <1>3
<1>5. ASSUME InOrder(q) PROVE InOrder(s)
  <2>1. SUFFICES ASSUME NEW i \in 1..Len(s)
                 PROVE  s[i].head = Expected[Answers - ((Len(s) - i) % Answers)]
    BY DEF InOrder
  <2>2. s[i] = q[i + n] /\ i + n \in 1..Len(q) /\ Len(q) - (i + n) = Len(s) - i
    BY <1>1, <1>4
  <2>3. q[i + n].head = Expected[Answers - ((Len(q) - (i + n)) % Answers)]
    BY <1>5, <2>2 DEF InOrder
  <2> QED
    BY <2>2, <2>3
<1> QED
  BY <1>3, <1>4, <1>5 DEF s

LEMMA FirstTaken ==
  ASSUME NEW q \in Seq(Packets), q # <<>>
  PROVE  /\ Head(q) = q[1] /\ Len(q) \in Nat \ {0} /\ q[1] \in Packets
         /\ Tail(q) \in Seq(Packets) /\ Len(Tail(q)) = Len(q) - 1
         /\ \A i \in 1..Len(Tail(q)) : Tail(q)[i] = q[i + 1]
         /\ InOrder(q) => InOrder(Tail(q))
<1>1. Len(q) \in Nat \ {0}
  BY EmptySeq
<1>2. Tail(q) = SubSeq(q, 2, Len(q))
  BY TailIsSubSeq
<1>3. q[1] \in Packets
  BY <1>1, ElementOfSeq
<1>4. Head(q) = q[1]
  BY <1>1
<1>5. 1 \in 0..Len(q) /\ 1 + 1 = 2
  BY <1>1
<1>6. LET s == SubSeq(q, 1 + 1, Len(q))
      IN  /\ s \in Seq(Packets) /\ Len(s) = Len(q) - 1
          /\ \A i \in 1..Len(s) : s[i] = q[i + 1]
          /\ InOrder(q) => InOrder(s)
  BY <1>5, Shortened
<1> QED
  BY <1>1, <1>2, <1>3, <1>4, <1>5, <1>6

LEMMA EmptyPipe ==
  /\ <<>> \in Seq(Packets) /\ InOrder(<<>>) /\ Len(<<>>) = 0
  /\ \A q \in Seq(Packets) : Len(q) = 0 => q = <<>>
BY EmptySeq DEF InOrder

\* Where nothing but the rest of this round's answers is left, the first
\* packet is the one that is read for; otherwise it is the first of an answer
\* or an FB, which is a stale one.
LEMMA FirstExpected ==
  ASSUME scanner \in Scanners, NEW q \in Seq(Packets), InOrder(q),
         NEW n \in 0..(Answers - 1), Len(q) = Answers - n
  PROVE  q # <<>> /\ q[1].head = Expected[n + 1]
<1>1. Answers \in 1..3
  BY Parts
<1>2. q[1].head = Expected[Answers - ((Len(q) - 1) % Answers)]
  BY <1>1 DEF InOrder
<1>3. (Len(q) - 1) % Answers = Answers - n - 1
  <2>1. CASE Answers = 1
    <3>1. n = 0 /\ Len(q) = 1
      BY <2>1
    <3> QED
      BY <2>1, <3>1
  <2>2. CASE Answers = 2
    BY <2>2
  <2>3. CASE Answers = 3
    BY <2>3
  <2> QED
    BY <1>1, <2>1, <2>2, <2>3
<1>4. q # <<>>
  BY <1>1
<1> QED
  BY <1>1, <1>2, <1>3, <1>4
-----------------------------------------------------------------------------
(* Every step preserves the invariant                                      *)

\* A backend makes bulk transfers or control transfers.
LEMMA Kinds ==
  ASSUME scanner \in Scanners
  PROVE  /\ scanner.backend \in Bulk \cup Control
         /\ scanner.backend \in Bulk => /\ scanner.backend \notin Control /\ Start = "write"
                                        /\ scanner.backend # "hp3900"
         /\ scanner.backend \in Control =>
              Start = IF scanner.backend = "hp3900" THEN "answer" ELSE "request"
BY ScannersAssumption DEF Start, Bulk, Control

\* What the invariant says of every state.
LEMMA Typed ==
  ASSUME IInv
  PROVE  /\ scanner \in Scanners /\ Now \in Registers
         /\ pipe \in Seq(Packets) /\ InOrder(pipe) /\ Len(pipe) \in Nat
         /\ failures \in Nat /\ Answers * failures \in Nat
<1>1. scanner \in Scanners /\ pipe \in Seq(Packets) /\ InOrder(pipe)
  BY DEF IInv, TypeInv
<1>2. Now \in Registers
  BY NowIsRegister DEF IInv
<1>3. failures \in Nat
  BY MaxFailuresAssumption DEF IInv, TypeInv
<1>4. Answers * failures \in Nat
  BY <1>1, <1>3, OneMore
<1>5. Len(pipe) \in Nat
  BY <1>1, LenProperties
<1> QED
  BY <1>1, <1>2, <1>3, <1>4, <1>5

\* The invariant holds when the poller begins: the device is silent, and
\* nothing has fired.
LEMMA Initially == Init => IInv /\ SpentInv
<1> SUFFICES ASSUME Init PROVE IInv /\ SpentInv
  OBVIOUS
<1>1. scanner \in Scanners
  BY DEF Init
<1>2. TypeInv
  <2>1. Answers \in 1..3
    BY <1>1, Parts
  <2>2. pipe \in Seq(Packets)
    BY EmptyPipe DEF Init
  <2>3. value \in [Options -> 0..1]
    BY DEF Init
  <2>4. keys \subseteq Options /\ keys \subseteq DOMAIN KeyBits(scanner)
    BY DEF Init
  <2>5. watched \in Options
    BY DEF Init
  <2>6. /\ pressed \subseteq keys /\ halted \subseteq {"in", "out"}
        /\ latched \in Registers \cup {{}} /\ byte \in Registers \cup {{}}
        /\ shown \in BOOLEAN /\ spent \in BOOLEAN
    BY DEF Init
  <2>7. got \in 0..Answers /\ button \in 0..255 /\ failures \in 0..MaxFailures
    BY <2>1, MaxFailuresAssumption DEF Init
  <2> QED
    BY <1>1, <2>2, <2>3, <2>4, <2>5, <2>6, <2>7 DEF TypeInv
<1>3. PhaseInv
  BY <1>1, Kinds DEF Init, PhaseInv
<1>4. InOrder(pipe)
  BY EmptyPipe DEF Init
<1>5. PipeInv /\ ShownInv
  BY <1>1, Kinds DEF Init, PipeInv, ShownInv
<1>6. SpentInv
  BY DEF Init, SpentInv
<1> QED
  BY <1>2, <1>3, <1>4, <1>5, <1>6 DEF IInv

\* A key that moves: what was said in this round stays said.
LEMMA PressInv ==
  ASSUME IInv, NEW k \in keys, Press(k)
  PROVE  IInv' /\ SpentInv'
<1>1. UNCHANGED <<device, pipe, halted, latched, pc, got, byte, button, value, failures>>
  BY DEF Press
<1>2. /\ scanner' = scanner /\ keys' = keys /\ watched' = watched
      /\ Registers' = Registers /\ Packets' = Packets
      /\ Expected' = Expected /\ Answers' = Answers /\ Position' = Position
      /\ Options' = Options
  BY <1>1, Frame
<1>3. shown => shown'
  BY DEF Press
<1>4. TypeInv'
  BY <1>1, <1>2 DEF IInv, TypeInv, Press
<1>5. PhaseInv' /\ InOrder(pipe)' /\ PipeInv'
  BY <1>1, <1>2 DEF IInv, PhaseInv, InOrder, PipeInv, Stale
<1>6. ShownInv'
  BY <1>1, <1>2, <1>3 DEF IInv, ShownInv, Told
<1>7. SpentInv'
  BY DEF SpentInv, Press
<1> QED
  BY <1>4, <1>5, <1>6, <1>7 DEF IInv

\* The request has arrived: its answer comes behind what is there.  The three
\* alternatives of PipeInv at "write" become those at "read".
LEMMA WriteOkInv ==
  ASSUME IInv, SpentInv, WriteOk
  PROVE  IInv' /\ SpentInv'
<1>1. /\ UNCHANGED <<device, pressed, halted, latched, byte, button, value, failures, spent>>
      /\ pc = "write" /\ pc' = "read" /\ "out" \notin halted
      /\ pipe' = pipe \o Replies(Now) /\ shown' = Shows(pressed) /\ got' = 0
  BY DEF WriteOk, BeginRound
<1>2. /\ scanner' = scanner /\ keys' = keys /\ watched' = watched
      /\ Registers' = Registers /\ Packets' = Packets
      /\ Expected' = Expected /\ Answers' = Answers /\ Position' = Position
      /\ Options' = Options /\ Now' = Now
  BY <1>1, Frame DEF Now
<1>3. /\ scanner \in Scanners /\ Now \in Registers
      /\ pipe \in Seq(Packets) /\ InOrder(pipe) /\ Len(pipe) \in Nat
      /\ failures \in Nat /\ Answers * failures \in Nat
  BY Typed
<1>4. /\ Answers \in 1..3 /\ Position \in 1..Answers
      /\ scanner.backend = "snapscan" => Answers = 3
  BY <1>3, Parts
<1>5. /\ pipe' \in Seq(Packets) /\ Len(pipe') = Len(pipe) + Answers
      /\ \A i \in 1..Len(pipe) : pipe'[i] = pipe[i]
      /\ InOrder(pipe')
  BY <1>1, <1>3, Appended
<1>6. pipe = <<>> => \A i \in 1..Len(pipe') : pipe'[i].reg = Now
  <2> SUFFICES ASSUME pipe = <<>> PROVE \A i \in 1..Len(pipe') : pipe'[i].reg = Now
    OBVIOUS
  <2>1. /\ Replies(Now) \in Seq(Packets) /\ Len(Replies(Now)) = Answers
        /\ \A i \in 1..Answers : Replies(Now)[i].reg = Now
    BY <1>3, AnAnswer
  <2>2. pipe' = Replies(Now)
    BY <1>1, <2>1, ConcatEmptySeq
  <2> QED
    BY <2>1, <2>2
<1>7. pipe # <<>> => Len(pipe) > 0 /\ pipe'[1] = pipe[1]
  BY <1>3, <1>5, EmptyPipe
<1>8. TypeInv'
  <2>1. shown' \in BOOLEAN
    BY <1>1 DEF Shows
  <2> QED
    BY <1>1, <1>2, <1>4, <1>5, <2>1 DEF IInv, TypeInv
<1>9. PhaseInv'
  BY <1>1, <1>2, <1>4, Kinds DEF IInv, TypeInv, PhaseInv
<1>10. InOrder(pipe)'
  BY <1>2, <1>5 DEF InOrder
<1>11. PipeInv'
  <2>1. CASE pipe = <<>> /\ "in" \notin halted
    BY <1>1, <1>2, <1>3, <1>4, <1>5, <2>1, EmptyPipe DEF IInv, PipeInv
  <2>2. CASE "in" \in halted /\ Len(pipe) + Answers <= Answers * failures
    BY <1>1, <1>2, <1>3, <1>4, <1>5, <2>2 DEF IInv, PipeInv
  <2>3. CASE Stale(pipe) /\ "in" \notin halted /\ Len(pipe) <= Answers * failures - 2
    <3>1. Answers = 3 /\ Len(pipe) > 0
      BY <1>4, <1>7, <2>3 DEF Stale
    <3>2. failures > 0
      BY <1>3, <2>3, <3>1
    <3>3. pipe' # <<>> /\ Stale(pipe)'
      BY <1>2, <1>5, <1>7, <2>3, <3>1, EmptyPipe DEF Stale
    <3> QED
      BY <1>1, <1>2, <1>3, <1>5, <2>3, <3>1, <3>2, <3>3 DEF IInv, PipeInv
  <2> QED
    BY <1>1, <2>1, <2>2, <2>3 DEF IInv, PipeInv
<1>12. ShownInv'
  <2>1. ASSUME Len(pipe') = Answers PROVE pipe = <<>>
    BY <1>3, <1>4, <1>5, <2>1, EmptyPipe
  <2>2. pipe = <<>> => \A i \in 1..Len(pipe') : Told(pipe[i].reg)'
    BY <1>1, <1>2, <1>6 DEF Told, Shows, Now
  <2> QED
    BY <1>1, <1>2, <1>4, <2>1, <2>2 DEF ShownInv
<1>13. SpentInv'
  <2>1. ASSUME spent
        PROVE  /\ halted = {} /\ pipe = <<>>
               /\ value[watched] = 1 \/ ~Shows(pressed)
    BY <1>1, <2>1 DEF SpentInv
  <2>2. (value[watched] = 1 \/ ~Shows(pressed)) => (value[watched] = 1 \/ ~Shows(pressed))'
    BY <1>1, <1>2 DEF Shows
  <2>3. pipe = <<>> => Len(pipe') = Answers
    BY <1>3, <1>4, <1>5, EmptyPipe
  <2> QED
    BY <1>1, <1>2, <1>4, <1>6, <2>1, <2>2, <2>3 DEF SpentInv
<1> QED
  BY <1>8, <1>9, <1>10, <1>11, <1>12, <1>13 DEF IInv
\* What a step to the flush has to establish.
LEMMA ToFlush ==
  ASSUME IInv, scanner.backend \in Bulk, pc' = "flush",
         UNCHANGED <<device, pressed, latched, byte, button, value>>,
         pipe' \in Seq(Packets), InOrder(pipe'),
         halted' \subseteq {"out"},
         failures' \in 1..MaxFailures, Len(pipe') <= Answers * failures',
         got' \in 0..Answers, shown' \in BOOLEAN, ~spent', spent' \in BOOLEAN
  PROVE  IInv' /\ SpentInv'
<1>1. UNCHANGED device
  OBVIOUS
<1>2. /\ scanner' = scanner /\ keys' = keys /\ watched' = watched
      /\ Registers' = Registers /\ Packets' = Packets
      /\ Expected' = Expected /\ Answers' = Answers /\ Position' = Position
      /\ Options' = Options
  BY <1>1, Frame
<1>3. TypeInv'
  BY <1>2, MaxFailuresAssumption DEF IInv, TypeInv
<1>4. PhaseInv' /\ InOrder(pipe)'
  BY <1>2 DEF PhaseInv, InOrder
<1>5. PipeInv'
  BY <1>2 DEF PipeInv
<1>6. ShownInv' /\ SpentInv'
  BY DEF ShownInv, SpentInv
<1> QED
  BY <1>3, <1>4, <1>5, <1>6 DEF IInv

\* A failure makes room for one more answer.
LEMMA AfterFailure ==
  ASSUME IInv, Fails
  PROVE  /\ failures' \in 1..MaxFailures /\ failures' = failures + 1 /\ ~spent'
         /\ spent' \in BOOLEAN /\ Answers * failures' = Answers * failures + Answers
<1>1. failures \in 0..MaxFailures /\ scanner \in Scanners
  BY DEF IInv, TypeInv
<1>2. failures < MaxFailures /\ failures' = failures + 1 /\ ~spent' /\ spent' \in BOOLEAN
  BY DEF Fails
<1>3. failures \in Nat /\ failures' \in 1..MaxFailures
  BY <1>1, <1>2, MaxFailuresAssumption
<1>4. Answers * (failures + 1) = Answers * failures + Answers
  BY <1>1, <1>3, OneMore
<1> QED
  BY <1>2, <1>3, <1>4

\* The arithmetic of the bounds, with the products as they are.
LEMMA StillRoom ==
  ASSUME NEW room \in Nat, NEW n \in Nat, NEW m \in Nat, NEW a \in Nat
  PROVE  /\ n <= room /\ m <= n + a => m <= room + a
         /\ n <= room + a /\ m <= n => m <= room + a
OBVIOUS

\* Only the backends with bulk transfers are at these places.
LEMMA BulkPlaces ==
  ASSUME IInv, pc \in {"write", "read", "flush"}
  PROVE  scanner.backend \in Bulk
BY DEF IInv, PhaseInv

LEMMA WriteFailsInv ==
  ASSUME IInv, SpentInv, WriteFails
  PROVE  IInv' /\ SpentInv'
<1>1. /\ UNCHANGED <<device, pressed, latched, byte, button, value>>
      /\ pc = "write" /\ pc' = "flush" /\ Fails
      /\ shown' = Shows(pressed) /\ got' = 0
  BY DEF WriteFails, BeginRound
<1>2. /\ pipe' = pipe \/ pipe' = pipe \o Replies(Now)
      /\ halted' \subseteq {"out"}
  BY DEF WriteFails, IInv, TypeInv
<1>3. /\ scanner \in Scanners /\ Now \in Registers
      /\ pipe \in Seq(Packets) /\ InOrder(pipe) /\ Len(pipe) \in Nat
      /\ failures \in Nat /\ Answers * failures \in Nat
  BY Typed
<1>4. Answers \in 1..3
  BY <1>3, Parts
<1>5. /\ pipe' \in Seq(Packets) /\ InOrder(pipe')
      /\ Len(pipe') <= Len(pipe) + Answers /\ Len(pipe') \in Nat
  <2>1. CASE pipe' = pipe
    BY <1>3, <1>4, <2>1
  <2>2. CASE pipe' = pipe \o Replies(Now)
    <3>1. /\ pipe' \in Seq(Packets) /\ InOrder(pipe')
          /\ Len(pipe') = Len(pipe) + Answers
      BY <1>3, <2>2, Appended
    <3> QED
      BY <1>3, <1>4, <3>1
  <2> QED
    BY <1>2, <2>1, <2>2
<1>6. Len(pipe) <= Answers * failures
  BY <1>1, <1>3, <1>4, EmptyPipe DEF IInv, PipeInv
<1>7. /\ failures' \in 1..MaxFailures /\ ~spent' /\ spent' \in BOOLEAN
      /\ Answers * failures' = Answers * failures + Answers
  BY <1>1, AfterFailure
<1>8. Len(pipe') <= Answers * failures'
  <2>1. Len(pipe') <= Answers * failures + Answers
    BY <1>3, <1>4, <1>5, <1>6, StillRoom
  <2> QED
    BY <1>7, <2>1
<1>9. got' \in 0..Answers /\ shown' \in BOOLEAN
  BY <1>1, <1>4 DEF Shows
<1>10. scanner.backend \in Bulk
  BY <1>1, BulkPlaces
<1> QED
  BY <1>1, <1>2, <1>5, <1>7, <1>8, <1>9, <1>10, ToFlush

LEMMA WriteHaltedInv ==
  ASSUME IInv, SpentInv, WriteHalted
  PROVE  IInv' /\ SpentInv'
<1>1. /\ UNCHANGED <<device, pressed, pipe, latched, byte, button, value, failures, spent>>
      /\ pc = "write" /\ pc' = "flush" /\ "out" \in halted
      /\ shown' = Shows(pressed) /\ got' = 0 /\ halted' = halted \ {"in"}
  BY DEF WriteHalted, BeginRound
<1>2. /\ scanner \in Scanners
      /\ pipe \in Seq(Packets) /\ InOrder(pipe) /\ Len(pipe) \in Nat
      /\ failures \in Nat /\ Answers * failures \in Nat
  BY Typed
<1>3. Answers \in 1..3
  BY <1>2, Parts
<1>4. Len(pipe) <= Answers * failures
  BY <1>1, <1>2, <1>3, EmptyPipe DEF IInv, PipeInv
<1>5. failures \in 1..MaxFailures
  BY <1>1, MaxFailuresAssumption DEF IInv, TypeInv, PipeInv
<1>6. ~spent /\ spent \in BOOLEAN
  BY <1>1 DEF IInv, TypeInv, SpentInv
<1>7. got' \in 0..Answers /\ shown' \in BOOLEAN /\ halted' \subseteq {"out"}
  BY <1>1, <1>3 DEF Shows, IInv, TypeInv
<1>8. scanner.backend \in Bulk
  BY <1>1, BulkPlaces
<1>9. /\ pipe' \in Seq(Packets) /\ InOrder(pipe') /\ Len(pipe') <= Answers * failures'
      /\ failures' \in 1..MaxFailures /\ ~spent' /\ spent' \in BOOLEAN
  BY <1>1, <1>2, <1>4, <1>5, <1>6
<1> QED
  BY <1>1, <1>7, <1>8, <1>9, ToFlush

\* At "read" the packet that was asked for is first exactly when nothing but
\* the rest of this round's answers is left.
LEMMA Awaited ==
  ASSUME IInv, pc = "read", "in" \notin halted
  PROVE  /\ pipe # <<>> /\ got \in 0..(Answers - 1) /\ pipe[1].head \in Heads
         /\ \/ Len(pipe) = Answers - got /\ pipe[1].head = Expected[got + 1]
            \/ /\ Len(pipe) > Answers /\ got = 0 /\ failures > 0
               /\ Len(pipe) <= Answers * failures + 1
               /\ pipe[1].head # Expected[got + 1]
<1>1. /\ scanner \in Scanners /\ pipe \in Seq(Packets) /\ InOrder(pipe)
      /\ Len(pipe) \in Nat
  BY Typed
<1>2. /\ Answers \in 1..3
      /\ scanner.backend = "snapscan" => Answers = 3 /\ Expected[1] = "F9"
  BY <1>1, Parts
<1>3. got \in 0..(Answers - 1)
  <2>1. got \in 0..Answers
    BY DEF IInv, TypeInv
  <2>2. got < Answers
    BY DEF IInv, PhaseInv
  <2> QED
    BY <1>2, <2>1, <2>2
<1>4. pipe # <<>> => pipe[1].head \in Heads
  <2>1. pipe # <<>> => pipe[1] \in Packets
    BY <1>1, FirstTaken
  <2> QED
    BY <2>1 DEF Packets
<1>5. CASE Len(pipe) = Answers - got
  BY <1>1, <1>3, <1>4, <1>5, FirstExpected
<1>6. CASE /\ got = 0 /\ failures > 0 /\ Stale(pipe)
           /\ Len(pipe) <= Answers * failures + 1 /\ Len(pipe) > Answers
  <2>1. pipe # <<>> /\ pipe[1].head = "FB" /\ Expected[1] = "F9"
    BY <1>2, <1>6 DEF Stale
  <2>2. Expected[got + 1] = Expected[1]
    BY <1>6
  <2> QED
    BY <1>3, <1>4, <1>6, <2>1, <2>2
<1> QED
  BY <1>5, <1>6 DEF IInv, PipeInv

LEMMA ReadOtherInv ==
  ASSUME IInv, SpentInv, ReadOther
  PROVE  IInv' /\ SpentInv'
<1>1. /\ UNCHANGED <<device, pressed, halted, latched, got, byte, button, value, shown>>
      /\ pc = "read" /\ pc' = "flush" /\ "in" \notin halted /\ pipe # <<>>
      /\ pipe' = Tail(pipe)
      /\ IF Head(pipe).head = Expected[got + 1] THEN Fails ELSE UNCHANGED <<failures, spent>>
  BY DEF ReadOther
<1>2. /\ scanner \in Scanners
      /\ pipe \in Seq(Packets) /\ InOrder(pipe) /\ Len(pipe) \in Nat
      /\ failures \in Nat /\ Answers * failures \in Nat
  BY Typed
<1>3. Answers \in 1..3
  BY <1>2, Parts
<1>4. /\ Head(pipe) = pipe[1] /\ pipe' \in Seq(Packets) /\ InOrder(pipe')
      /\ Len(pipe') = Len(pipe) - 1
  BY <1>1, <1>2, FirstTaken
<1>5. /\ got' \in 0..Answers /\ shown' \in BOOLEAN /\ halted' \subseteq {"out"}
      /\ failures \in 0..MaxFailures /\ spent \in BOOLEAN
  BY <1>1 DEF IInv, TypeInv
<1>6. scanner.backend \in Bulk
  BY <1>1, BulkPlaces
<1>7. CASE Len(pipe) = Answers - got /\ pipe[1].head = Expected[got + 1]
  <2>1. Fails
    BY <1>1, <1>4, <1>7
  <2>2. /\ failures' \in 1..MaxFailures /\ ~spent' /\ spent' \in BOOLEAN
        /\ Answers * failures' = Answers * failures + Answers
    BY <2>1, AfterFailure
  <2>3. Len(pipe') <= Answers * failures'
    <3>1. got \in 0..Answers
      BY DEF IInv, TypeInv
    <3>2. Len(pipe') \in Nat /\ Len(pipe') <= 0 + Answers
      BY <1>2, <1>3, <1>4, <1>7, <3>1
    <3>3. Len(pipe') <= Answers * failures + Answers
      BY <1>2, <1>3, <3>2, StillRoom
    <3> QED
      BY <2>2, <3>3
  <2> QED
    BY <1>1, <1>4, <1>5, <1>6, <2>2, <2>3, ToFlush
<1>8. CASE /\ Len(pipe) > Answers /\ got = 0 /\ failures > 0
           /\ Len(pipe) <= Answers * failures + 1
           /\ pipe[1].head # Expected[got + 1]
  <2>1. failures' = failures /\ spent' = spent
    BY <1>1, <1>4, <1>8
  <2>2. failures' \in 1..MaxFailures /\ Len(pipe') <= Answers * failures'
    BY <1>2, <1>3, <1>4, <1>5, <1>8, <2>1, MaxFailuresAssumption
  <2>3. ~spent
    <3>1. spent => Len(pipe) = Answers - got
      BY <1>1 DEF SpentInv
    <3> QED
      BY <1>2, <1>3, <1>8, <3>1
  <2> QED
    BY <1>1, <1>4, <1>5, <1>6, <2>1, <2>2, <2>3, ToFlush
<1> QED
  BY <1>1, <1>7, <1>8, Awaited

LEMMA ReadFailsInv ==
  ASSUME IInv, SpentInv, ReadFails
  PROVE  IInv' /\ SpentInv'
<1>1. /\ UNCHANGED <<device, pressed, latched, got, byte, button, value, shown>>
      /\ pc = "read" /\ pc' = "flush" /\ halted' = halted \ {"in"}
      /\ IF "in" \in halted \/ pipe = <<>>
         THEN UNCHANGED <<pipe, failures>> /\ spent' = FALSE
         ELSE Fails /\ pipe' \in {pipe, Tail(pipe)}
  BY DEF ReadFails
<1>2. /\ scanner \in Scanners
      /\ pipe \in Seq(Packets) /\ InOrder(pipe) /\ Len(pipe) \in Nat
      /\ failures \in Nat /\ Answers * failures \in Nat
  BY Typed
<1>3. Answers \in 1..3
  BY <1>2, Parts
<1>4. /\ got' \in 0..Answers /\ shown' \in BOOLEAN /\ halted' \subseteq {"out"}
      /\ failures \in 0..MaxFailures
  BY <1>1 DEF IInv, TypeInv
<1>5. scanner.backend \in Bulk
  BY <1>1, BulkPlaces
<1>6. CASE "in" \in halted
  <2>1. UNCHANGED <<pipe, failures>> /\ spent' = FALSE
    BY <1>1, <1>6
  <2>2. Len(pipe) <= Answers * failures /\ failures > 0
    BY <1>1, <1>6 DEF IInv, PipeInv
  <2>3. failures' \in 1..MaxFailures
    BY <1>4, <2>1, <2>2, MaxFailuresAssumption
  <2> QED
    BY <1>1, <1>2, <1>4, <1>5, <2>1, <2>2, <2>3, ToFlush
<1>7. CASE "in" \notin halted
  <2>1. pipe # <<>> /\ Len(pipe) <= Answers * failures + Answers
    BY <1>1, <1>2, <1>3, <1>7, Awaited
  <2>2. Fails /\ pipe' \in {pipe, Tail(pipe)}
    BY <1>1, <1>7, <2>1
  <2>3. pipe' \in Seq(Packets) /\ InOrder(pipe') /\ Len(pipe') <= Len(pipe) /\ Len(pipe') \in Nat
    <3>1. /\ Len(pipe) \in Nat \ {0} /\ Tail(pipe) \in Seq(Packets) /\ InOrder(Tail(pipe))
          /\ Len(Tail(pipe)) = Len(pipe) - 1
      BY <1>2, <2>1, FirstTaken
    <3>2. CASE pipe' = pipe
      BY <1>2, <3>2
    <3>3. CASE pipe' = Tail(pipe)
      BY <1>2, <3>1, <3>3
    <3> QED
      BY <2>2, <3>2, <3>3
  <2>4. /\ failures' \in 1..MaxFailures /\ ~spent' /\ spent' \in BOOLEAN
        /\ Answers * failures' = Answers * failures + Answers
    BY <2>2, AfterFailure
  <2>5. Len(pipe') <= Answers * failures'
    <3>1. Len(pipe') <= Answers * failures + Answers
      BY <1>2, <1>3, <2>1, <2>3, StillRoom
    <3> QED
      BY <2>4, <3>1
  <2> QED
    BY <1>1, <1>4, <1>5, <2>3, <2>4, <2>5, ToFlush
<1> QED
  BY <1>6, <1>7
\* A packet that was read for: with the last one of the answer the poller has
\* a button, and nothing is left in the device.
LEMMA ReadOkInv ==
  ASSUME IInv, SpentInv, ReadOk
  PROVE  IInv' /\ SpentInv'
<1>1. /\ UNCHANGED <<device, pressed, halted, latched, value, failures, shown, spent>>
      /\ pc = "read" /\ "in" \notin halted /\ pipe # <<>>
      /\ Head(pipe).head = Expected[got + 1]
      /\ pipe' = Tail(pipe) /\ got' = got + 1
      /\ byte' = IF Head(pipe).head = "status" THEN Head(pipe).reg ELSE byte
      /\ IF got' = Len(Expected) THEN Return(Decode(scanner, byte')) ELSE UNCHANGED <<button, pc>>
  BY DEF ReadOk
<1>2. /\ scanner' = scanner /\ keys' = keys /\ watched' = watched
      /\ Registers' = Registers /\ Packets' = Packets
      /\ Expected' = Expected /\ Answers' = Answers /\ Position' = Position
      /\ Options' = Options /\ Now' = Now
  BY <1>1, Frame DEF Now
<1>3. /\ scanner \in Scanners
      /\ pipe \in Seq(Packets) /\ InOrder(pipe) /\ Len(pipe) \in Nat
  BY Typed
<1>4. /\ Answers \in 1..3 /\ Position \in 1..Answers
      /\ Expected[Position] = "status"
      /\ \A i \in 1..Answers : Expected[i] = "status" => i = Position
  BY <1>3, Parts
<1>5. /\ Head(pipe) = pipe[1] /\ pipe[1] \in Packets
      /\ pipe' \in Seq(Packets) /\ InOrder(pipe')
      /\ Len(pipe') = Len(pipe) - 1
      /\ \A i \in 1..Len(pipe') : pipe'[i] = pipe[i + 1]
  BY <1>1, <1>3, FirstTaken
<1>6. Len(pipe) = Answers - got /\ got \in 0..(Answers - 1)
  BY <1>1, <1>5, Awaited
<1>7. /\ got' \in 1..Answers /\ Len(pipe') = Answers - got'
      /\ \A i \in 1..Len(pipe') : i + 1 \in 1..Len(pipe)
  BY <1>1, <1>3, <1>4, <1>5, <1>6
<1>8. \/ got + 1 = Position /\ byte' = pipe[1].reg
      \/ got + 1 # Position /\ byte' = byte
  BY <1>1, <1>4, <1>5, <1>6
<1>9. 1 \in 1..Len(pipe)
  BY <1>4, <1>6
<1>10. byte' \in Registers \cup {{}}
  BY <1>5, <1>8 DEF Packets, IInv, TypeInv
<1>11. \/ got' = Answers /\ pc' = "compare" /\ button' = Decode(scanner, byte')
       \/ got' # Answers /\ pc' = "read" /\ button' = button
  BY <1>1 DEF Answers, Return
<1>12. TypeInv'
  <2>1. button' \in 0..255
    <3>1. button \in 0..255
      BY DEF IInv, TypeInv
    <3>2. Decode(scanner, byte') \in 0..255
      BY <1>3, DecodeRange
    <3> QED
      BY <1>11, <3>1, <3>2
  <2>2. got' \in 0..Answers
    BY <1>4, <1>7
  <2> QED
    BY <1>1, <1>2, <1>5, <1>10, <2>1, <2>2 DEF IInv, TypeInv
<1>13. scanner.backend \in Bulk
  BY <1>1, BulkPlaces
<1>14. PhaseInv'
  BY <1>2, <1>4, <1>7, <1>11, <1>13 DEF PhaseInv
<1>15. InOrder(pipe)'
  BY <1>2, <1>5 DEF InOrder
<1>16. got' = Answers => pipe' = <<>>
  BY <1>4, <1>5, <1>7, EmptyPipe
<1>17. "out" \notin halted /\ (halted # {} => failures > 0) /\ halted \subseteq {"in", "out"}
  BY <1>1 DEF IInv, PipeInv, TypeInv
<1>18. PipeInv'
  BY <1>1, <1>2, <1>7, <1>11, <1>16, <1>17 DEF PipeInv
<1>19. ShownInv'
  <2>1. \A i \in 1..Len(pipe) : Told(pipe[i].reg)
    BY <1>1, <1>6 DEF IInv, ShownInv
  <2>2. got >= Position => Told(byte)
    BY <1>1, <1>6 DEF IInv, ShownInv
  <2>3. \A reg : Told(reg)' <=> Told(reg)
    BY <1>1, <1>2 DEF Told
  <2>4. got' >= Position => Told(byte')
    BY <1>1, <1>4, <1>6, <1>8, <1>9, <2>1, <2>2
  <2>5. \A i \in 1..Len(pipe') : Told(pipe'[i].reg)
    BY <1>5, <1>7, <2>1
  <2>6. Told(byte)' <=> Told(byte')
    BY <1>1, <1>2 DEF Told
  <2>7. \A i : Told(pipe[i].reg)' <=> Told(pipe'[i].reg)
    BY <1>1, <1>2 DEF Told
  <2>8. pc' = "compare" /\ button' = watched => shown'
    <3> SUFFICES ASSUME pc' = "compare", button' = watched PROVE shown'
      OBVIOUS
    <3>1. Told(byte') /\ Decode(scanner, byte') = watched
      BY <1>4, <1>7, <1>11, <2>4
    <3> QED
      BY <1>1, <3>1 DEF Told
  <2>9. pc' \in {"read", "compare"}
    BY <1>11
  <2> QED
    BY <1>2, <2>4, <2>5, <2>6, <2>7, <2>8, <2>9 DEF ShownInv
<1>20. SpentInv'
  <2> SUFFICES ASSUME spent'
               PROVE  /\ halted' = {} /\ pc' # "flush"
                      /\ value'[watched'] = 1 \/ ~Shows(pressed)'
                      /\ pc' \in {"write", "script", "compare"} => pipe' = <<>>
                      /\ pc' = "read" => /\ Len(pipe') = Answers' - got'
                                         /\ \A i \in 1..Len(pipe') : pipe'[i].reg = Now'
                                         /\ got' >= Position' => byte' = Now'
                      /\ pc' \notin {"answer", "confirm"}
                      /\ pc' = "compare" => button' = Decode(scanner', Now')
    BY DEF SpentInv
  <2>1. /\ halted = {}
        /\ value[watched] = 1 \/ ~Shows(pressed)
        /\ \A i \in 1..Len(pipe) : pipe[i].reg = Now
        /\ got >= Position => byte = Now
    BY <1>1 DEF SpentInv
  <2>2. value'[watched'] = 1 \/ ~Shows(pressed)'
    BY <1>1, <1>2, <2>1 DEF Shows
  <2>3. got' >= Position => byte' = Now
    BY <1>1, <1>4, <1>6, <1>8, <1>9, <2>1
  <2>4. \A i \in 1..Len(pipe') : pipe'[i].reg = Now
    BY <1>5, <1>7, <2>1
  <2>5. got' = Answers => byte' = Now
    BY <1>4, <1>7, <2>3
  <2>6. halted' = {} /\ pc' \in {"read", "compare"}
    <3>1. halted' = {}
      BY <1>1, <2>1
    <3>2. pc' \in {"read", "compare"}
      BY <1>11
    <3> QED
      BY <3>1, <3>2
  <2>7. pc' = "compare" => pipe' = <<>> /\ button' = Decode(scanner', Now')
    BY <1>2, <1>11, <1>16, <2>5
  <2>8. pc' = "read" => /\ Len(pipe') = Answers' - got'
                        /\ \A i \in 1..Len(pipe') : pipe'[i].reg = Now'
                        /\ got' >= Position' => byte' = Now'
    BY <1>2, <1>7, <2>3, <2>4
  <2> QED
    BY <2>2, <2>6, <2>7, <2>8
<1> QED
  BY <1>12, <1>14, <1>15, <1>18, <1>19, <1>20 DEF IInv

\* After the flush the device is silent, or its endpoint is halted, or the
\* packets behind one that did not fit are left: an FB is the first of them.
LEMMA FlushInv ==
  ASSUME IInv, SpentInv, Flush
  PROVE  IInv' /\ SpentInv'
<1>1. /\ UNCHANGED <<device, pressed, latched, got, byte, value, shown>>
      /\ pc = "flush" /\ pc' = "compare" /\ button' = 0
  BY DEF Flush, Return
<1>2. /\ scanner' = scanner /\ keys' = keys /\ watched' = watched
      /\ Registers' = Registers /\ Packets' = Packets
      /\ Expected' = Expected /\ Answers' = Answers /\ Position' = Position
      /\ Options' = Options
  BY <1>1, Frame
<1>3. /\ scanner \in Scanners
      /\ pipe \in Seq(Packets) /\ InOrder(pipe) /\ Len(pipe) \in Nat
      /\ failures \in Nat /\ Answers * failures \in Nat
  BY Typed
<1>4. /\ Answers \in 1..3
      /\ scanner.backend = "snapscan" =>
           Answers = 3 /\ Expected[1] = "F9" /\ Expected[2] = "status" /\ Expected[3] = "FB"
  BY <1>3, Parts
<1>5. scanner.backend \in Bulk
  BY <1>1, BulkPlaces
<1>6. "in" \notin halted /\ failures > 0 /\ Len(pipe) <= Answers * failures
  BY <1>1 DEF IInv, PipeInv
<1>7. failures \in 0..MaxFailures /\ spent \in BOOLEAN /\ halted \subseteq {"in", "out"} /\ ~spent
  BY <1>1 DEF IInv, TypeInv, SpentInv
<1>8. SUFFICES /\ pipe' \in Seq(Packets) /\ InOrder(pipe')
               /\ halted' \subseteq {"in", "out"} /\ failures' \in 1..MaxFailures
               /\ ~spent' /\ spent' \in BOOLEAN
               /\ \/ pipe' = <<>> /\ "in" \notin halted'
                  \/ "in" \in halted' /\ Len(pipe') + Answers <= Answers * failures'
                  \/ Stale(pipe') /\ "in" \notin halted' /\ Len(pipe') <= Answers * failures' - 2
  <2>1. TypeInv'
    BY <1>1, <1>2, <1>8, MaxFailuresAssumption DEF IInv, TypeInv
  <2>2. PhaseInv' /\ InOrder(pipe)'
    BY <1>1, <1>2, <1>5, <1>8 DEF PhaseInv, InOrder
  <2>3. PipeInv'
    <3>1. Stale(pipe') => Stale(pipe)'
      BY <1>2 DEF Stale
    <3> QED
      BY <1>1, <1>2, <1>8, <3>1 DEF PipeInv
  <2>4. ShownInv'
    <3>1. watched \in Options /\ 0 \notin Options
      BY DEF IInv, TypeInv, Options
    <3> QED
      BY <1>1, <1>2, <3>1 DEF ShownInv
  <2>5. SpentInv'
    BY <1>8 DEF SpentInv
  <2> QED
    BY <2>1, <2>2, <2>3, <2>4, <2>5 DEF IInv
<1>9. CASE pipe' = <<>> /\ UNCHANGED <<halted, failures, spent>>
  BY <1>6, <1>7, <1>9, EmptyPipe, MaxFailuresAssumption
<1>10. CASE /\ Fails /\ halted' = halted \cup {"in"}
            /\ \E n \in 0..(Len(pipe) - 1) : pipe' = SubSeq(pipe, n + 1, Len(pipe))
  <2>1. PICK n \in 0..(Len(pipe) - 1) : pipe' = SubSeq(pipe, n + 1, Len(pipe))
    BY <1>10
  <2>2. n \in 0..Len(pipe)
    BY <1>3
  <2>3. pipe' \in Seq(Packets) /\ Len(pipe') = Len(pipe) - n /\ InOrder(pipe')
    BY <1>3, <2>1, <2>2, Shortened
  <2>4. /\ failures' \in 1..MaxFailures /\ ~spent' /\ spent' \in BOOLEAN
        /\ Answers * failures' = Answers * failures + Answers
    BY <1>10, AfterFailure
  <2>5. Len(pipe') <= Answers * failures
    BY <1>3, <1>6, <2>2, <2>3
  <2>6. Len(pipe') + Answers <= Answers * failures'
    <3>1. Len(pipe') + Answers <= Answers * failures + Answers
      BY <1>3, <1>4, <2>2, <2>3, <2>5
    <3> QED
      BY <2>4, <3>1
  <2> QED
    BY <1>7, <1>10, <2>3, <2>4, <2>5, <2>6
<1>11. CASE /\ \E n \in DOMAIN pipe :
                 Oversized(pipe[n]) /\ pipe' = SubSeq(pipe, n + 1, Len(pipe))
            /\ spent' = FALSE
            /\ UNCHANGED <<halted, failures>>
  <2>1. PICK n \in 1..Len(pipe) :
               Oversized(pipe[n]) /\ pipe' = SubSeq(pipe, n + 1, Len(pipe))
    BY <1>3, <1>11, LenProperties
  <2>2. /\ scanner.backend = "snapscan" /\ Answers = 3 /\ pipe[n].head = "status"
        /\ Expected[1] = "F9" /\ Expected[2] = "status" /\ Expected[3] = "FB"
    BY <1>4, <2>1 DEF Oversized
  <2>3. n \in 0..Len(pipe)
    BY <1>3
  <2>4. /\ pipe' \in Seq(Packets) /\ Len(pipe') = Len(pipe) - n /\ InOrder(pipe')
        /\ \A i \in 1..Len(pipe') : pipe'[i] = pipe[i + n]
    BY <1>3, <2>1, <2>3, Shortened
  <2>5. pipe[n].head = Expected[3 - ((Len(pipe) - n) % 3)]
    BY <1>3, <2>2 DEF InOrder
  <2>6. (Len(pipe) - n) % 3 = 1
    <3>1. (Len(pipe) - n) % 3 \in {0, 1, 2}
      BY <1>3
    <3>2. (Len(pipe) - n) % 3 # 0
      BY <2>2, <2>5, SMTT(30)
    <3>3. (Len(pipe) - n) % 3 # 2
      BY <2>2, <2>5
    <3> QED
      BY <3>1, <3>2, <3>3
  <2>7. Len(pipe') > 0 /\ (Len(pipe') - 1) % 3 = 0
    <3>1. \A m \in Nat : m % 3 = 1 => m > 0 /\ (m - 1) % 3 = 0
      OBVIOUS
    <3>2. Len(pipe') \in Nat /\ Len(pipe') % 3 = 1
      BY <1>3, <2>3, <2>4, <2>6
    <3> QED
      BY <3>1, <3>2
  <2>8. Stale(pipe')
    <3>1. pipe' # <<>>
      BY <2>7
    <3>2. pipe'[1].head = Expected[3 - ((Len(pipe') - 1) % 3)]
      BY <1>3, <2>2, <2>4, <2>7 DEF InOrder
    <3> QED
      BY <2>2, <2>7, <3>1, <3>2 DEF Stale
  <2>9. Len(pipe') <= Answers * failures' - 2
    <3>1. Len(pipe) <= 3 * failures /\ failures' = failures
      BY <1>6, <1>11, <2>2
    <3>2. Len(pipe) - n <= 3 * failures - 1
      BY <1>3, <2>3, <3>1
    <3>3. Len(pipe) - n <= 3 * failures - 2
      BY <1>3, <2>3, <2>6, <3>2
    <3> QED
      BY <2>2, <2>4, <3>1, <3>3
  <2>10. failures' \in 1..MaxFailures
    BY <1>6, <1>7, <1>11, MaxFailuresAssumption
  <2>11. halted' \subseteq {"in", "out"} /\ "in" \notin halted'
    BY <1>6, <1>7, <1>11
  <2>12. ~spent' /\ spent' \in BOOLEAN
    BY <1>11
  <2> QED
    BY <2>4, <2>8, <2>9, <2>10, <2>11, <2>12
<1> QED
  BY <1>9, <1>10, <1>11 DEF Flush
\* What a step of a control transfer has to establish.
LEMMA ControlStep ==
  ASSUME IInv, scanner.backend \in Control, UNCHANGED <<device, pressed, value>>,
         UNCHANGED <<pipe, halted>>,
         pc' \in {"answer", "confirm", "compare"},
         scanner.backend = "hp3900" => pc' # "confirm",
         latched' \in Registers \cup {{}}, byte' \in Registers \cup {{}},
         got' \in 0..Answers, button' \in 0..255, failures' \in 0..MaxFailures,
         shown' \in BOOLEAN, spent' \in BOOLEAN,
         scanner.backend \notin Unchecked =>
           /\ pc' = "answer" /\ scanner.backend # "hp3900" =>
                (Decode(scanner, latched') = watched => shown')
           /\ pc' = "confirm" => (Decode(scanner, byte') = watched => shown')
           /\ pc' = "compare" /\ button' = watched => shown'
  PROVE  IInv'
<1>1. UNCHANGED device
  OBVIOUS
<1>2. /\ scanner' = scanner /\ keys' = keys /\ watched' = watched
      /\ Registers' = Registers /\ Packets' = Packets
      /\ Expected' = Expected /\ Answers' = Answers /\ Position' = Position
      /\ Options' = Options
  BY <1>1, Frame
<1>3. scanner \in Scanners /\ scanner.backend \notin Bulk
  BY Kinds, ScannersAssumption DEF IInv, TypeInv, Bulk, Control
<1>4. pipe = <<>> /\ halted = {}
  BY <1>3 DEF IInv, PhaseInv
<1>5. TypeInv'
  BY <1>2 DEF IInv, TypeInv
<1>6. PhaseInv'
  BY <1>2, <1>4 DEF PhaseInv
<1>7. InOrder(pipe)'
  BY <1>2 DEF IInv, InOrder
<1>8. PipeInv'
  BY <1>2, <1>4 DEF PipeInv
<1>9. ShownInv'
  BY <1>2 DEF ShownInv, Told
<1> QED
  BY <1>5, <1>6, <1>7, <1>8, <1>9 DEF IInv

\* The places of control transfers, and what is known there.
LEMMA ControlPlaces ==
  ASSUME IInv, pc \in {"request", "answer", "confirm"}
  PROVE  /\ scanner \in Scanners /\ scanner.backend \in Control
         /\ scanner.backend = "hp3900" => pc = "answer"
         /\ Now \in Registers /\ watched > 0
         /\ latched \in Registers \cup {{}} /\ byte \in Registers \cup {{}}
         /\ {} \in Registers
         /\ 0 \in 0..Answers /\ got \in 0..Answers
         /\ failures \in 0..MaxFailures /\ shown \in BOOLEAN /\ spent \in BOOLEAN
<1>1. scanner \in Scanners /\ Now \in Registers
  BY Typed
<1>2. scanner.backend \in Control /\ (scanner.backend = "hp3900" => pc = "answer")
  BY DEF IInv, PhaseInv
<1>3. scanner.backend \notin Bulk
  BY <1>2 DEF Bulk, Control
<1>4. {} \in Registers
  BY <1>3 DEF Registers
<1>5. 0 \in 0..Answers
  BY <1>1, Parts
<1>6. watched > 0
  BY <1>1, ScannersAssumption DEF IInv, TypeInv, Options
<1> QED
  BY <1>1, <1>2, <1>4, <1>5, <1>6 DEF IInv, TypeInv

LEMMA RequestOkInv ==
  ASSUME IInv, SpentInv, RequestOk
  PROVE  IInv' /\ SpentInv'
<1>1. /\ UNCHANGED <<device, pressed, pipe, halted, byte, button, value, failures, spent>>
      /\ pc = "request" /\ pc' = "answer" /\ latched' = Now
      /\ shown' = Shows(pressed) /\ got' = 0
  BY DEF RequestOk, BeginRound
<1>2. /\ scanner \in Scanners /\ scanner.backend \in Control /\ Now \in Registers
      /\ byte \in Registers \cup {{}} /\ 0 \in 0..Answers
      /\ failures \in 0..MaxFailures /\ shown \in BOOLEAN /\ spent \in BOOLEAN
  BY <1>1, ControlPlaces
<1>3. Decode(scanner, latched') = watched => shown'
  BY <1>1 DEF Shows, Now
<1>4. shown' \in BOOLEAN /\ button' \in 0..255
  BY <1>1 DEF Shows, IInv, TypeInv
<1>5. IInv'
  BY <1>1, <1>2, <1>3, <1>4, ControlStep
<1>6. SpentInv'
  BY <1>1 DEF SpentInv, Shows, Now, device
<1> QED
  BY <1>5, <1>6

LEMMA RequestFailsInv ==
  ASSUME IInv, SpentInv, RequestFails
  PROVE  IInv' /\ SpentInv'
<1>1. /\ UNCHANGED <<device, pressed, pipe, halted, byte, value>>
      /\ pc = "request" /\ Fails /\ shown' = Shows(pressed) /\ got' = 0
      /\ IF scanner.backend \in Unchecked
         THEN pc' = "answer" /\ button' = button
         ELSE pc' = "compare" /\ button' = 0
      /\ latched' \in IF scanner.backend = "niash" THEN {{}, {1}, {2}, {3}, {4}} ELSE {latched}
  BY DEF RequestFails, BeginRound, Return
<1>2. /\ scanner \in Scanners /\ scanner.backend \in Control /\ watched > 0
      /\ latched \in Registers \cup {{}} /\ byte \in Registers \cup {{}} /\ 0 \in 0..Answers
  BY <1>1, ControlPlaces
<1>3. latched' \in Registers \cup {{}}
  BY <1>1, <1>2 DEF Registers
<1>4. shown' \in BOOLEAN /\ button' \in 0..255
  <2>1. button \in 0..255 /\ 0 \in 0..255
    BY DEF IInv, TypeInv
  <2>2. button' = button \/ button' = 0
    BY <1>1
  <2> QED
    BY <1>1, <2>1, <2>2 DEF Shows
<1>5. failures' \in 0..MaxFailures /\ ~spent' /\ spent' \in BOOLEAN
  BY <1>1, AfterFailure, MaxFailuresAssumption
<1>6. /\ pc' \in {"answer", "compare"}
      /\ scanner.backend \notin Unchecked => pc' = "compare" /\ button' # watched
  BY <1>1, <1>2
<1>7. IInv'
  BY <1>1, <1>2, <1>3, <1>4, <1>5, <1>6, ControlStep
<1>8. SpentInv'
  BY <1>5 DEF SpentInv
<1> QED
  BY <1>7, <1>8

LEMMA AnswerOkInv ==
  ASSUME IInv, SpentInv, AnswerOk
  PROVE  IInv' /\ SpentInv'
<1>1. /\ UNCHANGED <<device, pressed, pipe, halted, latched, value, failures, spent>>
      /\ pc = "answer"
      /\ byte' = IF scanner.backend = "hp3900" THEN Now ELSE latched
      /\ IF scanner.backend = "hp5590" THEN pc' = "confirm" /\ button' = button
         ELSE button' = Decode(scanner, byte') /\ pc' = "compare"
      /\ IF scanner.backend = "hp3900" THEN shown' = Shows(pressed) /\ got' = 0
         ELSE shown' = shown /\ got' = got
  BY DEF AnswerOk, BeginRound, Return
<1>2. /\ scanner \in Scanners /\ scanner.backend \in Control /\ Now \in Registers
      /\ latched \in Registers \cup {{}} /\ 0 \in 0..Answers /\ got \in 0..Answers
      /\ failures \in 0..MaxFailures /\ shown \in BOOLEAN /\ spent \in BOOLEAN
  BY <1>1, ControlPlaces
<1>3. /\ byte' \in Registers \cup {{}} /\ latched' \in Registers \cup {{}}
      /\ got' \in 0..Answers /\ failures' \in 0..MaxFailures /\ spent' \in BOOLEAN
  BY <1>1, <1>2
<1>4. shown' \in BOOLEAN
  BY <1>1, <1>2 DEF Shows
<1>5. button' \in 0..255
  <2>1. button \in 0..255 /\ Decode(scanner, byte') \in 0..255
    BY <1>2, DecodeRange DEF IInv, TypeInv
  <2>2. button' = button \/ button' = Decode(scanner, byte')
    BY <1>1
  <2> QED
    BY <2>1, <2>2
<1>6. scanner.backend \notin Unchecked => (Decode(scanner, byte') = watched => shown')
  <2>1. CASE scanner.backend = "hp3900"
    BY <1>1, <2>1 DEF Shows, Now
  <2>2. CASE scanner.backend # "hp3900"
    <3>1. scanner.backend \notin Unchecked => Told(latched)
      BY <1>1, <2>2 DEF IInv, ShownInv
    <3> QED
      BY <1>1, <2>2, <3>1 DEF Told
  <2> QED
    BY <2>1, <2>2
<1>7. /\ pc' \in {"confirm", "compare"}
      /\ scanner.backend = "hp3900" => pc' # "confirm"
      /\ pc' = "compare" => button' = Decode(scanner, byte')
  BY <1>1
<1>8. IInv'
  BY <1>1, <1>2, <1>3, <1>4, <1>5, <1>6, <1>7, ControlStep
<1>9. SpentInv'
  <2> SUFFICES ASSUME spent PROVE SpentInv'
    BY <1>1 DEF SpentInv
  <2>1. scanner' = scanner /\ watched' = watched /\ Now' = Now /\ Shows(pressed)' = Shows(pressed)
    BY <1>1 DEF device, Now, Shows
  <2>2. byte' = Now
    BY <1>1 DEF SpentInv
  <2>3. halted = {} /\ (value[watched] = 1 \/ ~Shows(pressed))
    BY DEF SpentInv
  <2>4. pipe = <<>>
    BY <1>2 DEF IInv, PhaseInv, Bulk, Control
  <2> QED
    BY <1>1, <1>7, <2>1, <2>2, <2>3, <2>4 DEF SpentInv
<1> QED
  BY <1>8, <1>9

LEMMA AnswerFailsInv ==
  ASSUME IInv, SpentInv, AnswerFails
  PROVE  IInv' /\ SpentInv'
<1>1. /\ UNCHANGED <<device, pressed, pipe, halted, latched, byte, value>>
      /\ pc = "answer" /\ pc' = "compare" /\ Fails
      /\ button' \in IF scanner.backend = "artec_eplus48u" THEN 0..4 ELSE {0}
      /\ IF scanner.backend = "hp3900" THEN shown' = Shows(pressed) /\ got' = 0
         ELSE shown' = shown /\ got' = got
  BY DEF AnswerFails, BeginRound, Return
<1>2. /\ scanner \in Scanners /\ scanner.backend \in Control /\ watched > 0
      /\ latched \in Registers \cup {{}} /\ byte \in Registers \cup {{}}
      /\ 0 \in 0..Answers /\ got \in 0..Answers /\ shown \in BOOLEAN
  BY <1>1, ControlPlaces
<1>3. shown' \in BOOLEAN /\ got' \in 0..Answers
  BY <1>1, <1>2 DEF Shows
<1>4. failures' \in 0..MaxFailures /\ ~spent' /\ spent' \in BOOLEAN
  BY <1>1, AfterFailure, MaxFailuresAssumption
<1>5. button' \in 0..255 /\ (scanner.backend \notin Unchecked => button' # watched)
  BY <1>1, <1>2 DEF Unchecked
<1>6. IInv'
  BY <1>1, <1>2, <1>3, <1>4, <1>5, ControlStep
<1>7. SpentInv'
  BY <1>4 DEF SpentInv
<1> QED
  BY <1>6, <1>7

LEMMA ConfirmInv ==
  ASSUME IInv, SpentInv, Confirm
  PROVE  IInv' /\ SpentInv'
<1>1. /\ UNCHANGED <<device, pressed, pipe, halted, latched, got, byte, value, shown>>
      /\ pc = "confirm" /\ pc' = "compare"
      /\ \/ button' = Decode(scanner, byte) /\ UNCHANGED <<failures, spent>>
         \/ Fails /\ button' = 0
  BY DEF Confirm, Return
<1>2. /\ scanner \in Scanners /\ scanner.backend \in Control /\ watched > 0
      /\ latched \in Registers \cup {{}} /\ byte \in Registers \cup {{}}
      /\ got \in 0..Answers /\ failures \in 0..MaxFailures
      /\ shown \in BOOLEAN /\ spent \in BOOLEAN
  BY <1>1, ControlPlaces
<1>3. CASE button' = Decode(scanner, byte) /\ UNCHANGED <<failures, spent>>
  <2>1. button' \in 0..255
    BY <1>2, <1>3, DecodeRange
  <2>2. scanner.backend \notin Unchecked => (button' = watched => shown')
    BY <1>1, <1>3 DEF IInv, ShownInv, Told
  <2>3. IInv'
    BY <1>1, <1>2, <1>3, <2>1, <2>2, ControlStep
  <2>4. SpentInv'
    <3> SUFFICES ASSUME spent PROVE SpentInv'
      BY <1>3 DEF SpentInv
    <3>1. scanner' = scanner /\ watched' = watched /\ Now' = Now /\ Shows(pressed)' = Shows(pressed)
      BY <1>1 DEF device, Now, Shows
    <3>2. byte = Now /\ halted = {} /\ (value[watched] = 1 \/ ~Shows(pressed))
      BY <1>1 DEF SpentInv
    <3>3. pipe = <<>>
      BY <1>2 DEF IInv, PhaseInv, Bulk, Control
    <3> QED
      BY <1>1, <1>3, <3>1, <3>2, <3>3 DEF SpentInv
  <2> QED
    BY <2>3, <2>4
<1>4. CASE Fails /\ button' = 0
  <2>1. failures' \in 0..MaxFailures /\ ~spent' /\ spent' \in BOOLEAN
    BY <1>4, AfterFailure, MaxFailuresAssumption
  <2>2. IInv'
    BY <1>1, <1>2, <1>4, <2>1, ControlStep
  <2>3. SpentInv'
    BY <2>1 DEF SpentInv
  <2> QED
    BY <2>2, <2>3
<1> QED
  BY <1>1, <1>3, <1>4

\* The comparison: an action runs only where nothing is left in the device.
LEMMA CompareInv ==
  ASSUME IInv, SpentInv, Compare
  PROVE  IInv' /\ SpentInv'
<1>1. /\ UNCHANGED <<device, pressed, pipe, halted, latched, got, failures, shown>>
      /\ pc = "compare" /\ pc' \in {"script", Start}
      /\ value' = [o \in Options |-> NewValue(o)]
      /\ spent' = (spent \/ Fires(watched)) /\ button' = 0 /\ byte' = {}
  BY DEF Compare
<1>2. /\ scanner' = scanner /\ keys' = keys /\ watched' = watched
      /\ Registers' = Registers /\ Packets' = Packets
      /\ Expected' = Expected /\ Answers' = Answers /\ Position' = Position
      /\ Options' = Options
  BY <1>1, Frame
<1>3. scanner \in Scanners /\ watched \in Options /\ spent \in BOOLEAN
  BY DEF IInv, TypeInv
<1>4. TypeInv'
  <2>1. value' \in [Options -> 0..1]
    BY <1>1 DEF NewValue
  <2>2. spent' \in BOOLEAN
    BY <1>1, <1>3 DEF Fires
  <2> QED
    BY <1>1, <1>2, <2>1, <2>2 DEF IInv, TypeInv
<1>5. PhaseInv'
  BY <1>1, <1>2, <1>3, Kinds DEF IInv, PhaseInv
<1>6. InOrder(pipe)'
  BY <1>1, <1>2 DEF IInv, InOrder
<1>7. pc' \in {"script", "write", "answer", "request"}
      /\ (pc' = "answer" => scanner.backend = "hp3900")
  BY <1>1, <1>3, Kinds
<1>8. PipeInv'
  BY <1>1, <1>2, <1>7 DEF IInv, PipeInv, Stale
<1>9. ShownInv'
  BY <1>1, <1>2, <1>7 DEF ShownInv
<1>10. SpentInv'
  <2> SUFFICES ASSUME spent'
               PROVE  halted = {} /\ pipe = <<>> /\ (value'[watched] = 1 \/ ~Shows(pressed))
    <3>1. Shows(pressed)' = Shows(pressed)
      BY <1>1, <1>2 DEF Shows
    <3> QED
      BY <1>1, <1>2, <1>7, <3>1 DEF SpentInv
  <2>1. value'[watched] = IF button > 0 /\ button = watched THEN 1 ELSE 0
    BY <1>1, <1>3 DEF NewValue
  <2>2. CASE Fires(watched)
    BY <1>1, <2>1, <2>2 DEF Fires, IInv, PipeInv
  <2>3. CASE spent
    <3>1. halted = {} /\ pipe = <<>> /\ button = Decode(scanner, Now)
      BY <1>1, <2>3 DEF SpentInv
    <3>2. watched > 0
      BY <1>3, ScannersAssumption DEF Options
    <3>3. Shows(pressed) => button = watched
      BY <3>1 DEF Shows, Now
    <3> QED
      BY <2>1, <3>1, <3>2, <3>3
  <2> QED
    BY <1>1, <2>2, <2>3
<1> QED
  BY <1>4, <1>5, <1>6, <1>8, <1>9, <1>10 DEF IInv

LEMMA ScriptEndsInv ==
  ASSUME IInv, SpentInv, ScriptEnds
  PROVE  IInv' /\ SpentInv'
<1>1. /\ UNCHANGED <<device, pressed, pipe, halted, latched, got, byte, button, value, failures,
                     shown, spent>>
      /\ pc = "script" /\ pc' = Start
  BY DEF ScriptEnds
<1>2. /\ scanner' = scanner /\ keys' = keys /\ watched' = watched
      /\ Registers' = Registers /\ Packets' = Packets
      /\ Expected' = Expected /\ Answers' = Answers /\ Position' = Position
      /\ Options' = Options
  BY <1>1, Frame
<1>3. scanner \in Scanners
  BY DEF IInv, TypeInv
<1>4. TypeInv'
  BY <1>1, <1>2 DEF IInv, TypeInv
<1>5. PhaseInv'
  BY <1>1, <1>2, <1>3, Kinds DEF IInv, PhaseInv
<1>6. InOrder(pipe)'
  BY <1>1, <1>2 DEF IInv, InOrder
<1>7. pc' \in {"write", "answer", "request"} /\ (pc' = "answer" => scanner.backend = "hp3900")
  BY <1>1, <1>3, Kinds
<1>8. PipeInv'
  BY <1>1, <1>2, <1>7 DEF IInv, PipeInv, Stale
<1>9. ShownInv'
  BY <1>1, <1>2, <1>7 DEF ShownInv
<1>10. SpentInv'
  <2>1. Shows(pressed)' = Shows(pressed)
    BY <1>1, <1>2 DEF Shows
  <2> QED
    BY <1>1, <1>2, <1>7, <2>1 DEF SpentInv
<1> QED
  BY <1>4, <1>5, <1>6, <1>8, <1>9, <1>10 DEF IInv

LEMMA StutterInv ==
  ASSUME IInv, SpentInv, UNCHANGED vars
  PROVE  IInv' /\ SpentInv'
<1>1. /\ UNCHANGED <<device, pressed, pipe, halted, latched, pc, got, byte, button, value,
                     failures, shown, spent>>
  BY DEF vars
<1>2. /\ scanner' = scanner /\ keys' = keys /\ watched' = watched
      /\ Registers' = Registers /\ Packets' = Packets
      /\ Expected' = Expected /\ Answers' = Answers /\ Position' = Position
      /\ Options' = Options
  BY <1>1, Frame
<1>3. TypeInv' /\ PhaseInv'
  BY <1>1, <1>2 DEF IInv, TypeInv, PhaseInv
<1>4. InOrder(pipe)' /\ PipeInv'
  BY <1>1, <1>2 DEF IInv, InOrder, PipeInv, Stale
<1>5. ShownInv'
  BY <1>1, <1>2 DEF IInv, ShownInv, Told
<1>6. SpentInv'
  <2>1. Shows(pressed)' = Shows(pressed) /\ Now' = Now
    BY <1>1, <1>2 DEF Shows, Now
  <2> QED
    BY <1>1, <1>2, <2>1 DEF SpentInv
<1> QED
  BY <1>3, <1>4, <1>5, <1>6 DEF IInv

\* No step leaves the invariant.
LEMMA Preserved ==
  ASSUME IInv, SpentInv, [Next]_vars
  PROVE  IInv' /\ SpentInv'
<1>1. CASE WriteOk
  BY <1>1, WriteOkInv
<1>2. CASE WriteFails
  BY <1>2, WriteFailsInv
<1>3. CASE WriteHalted
  BY <1>3, WriteHaltedInv
<1>4. CASE ReadOk
  BY <1>4, ReadOkInv
<1>5. CASE ReadOther
  BY <1>5, ReadOtherInv
<1>6. CASE ReadFails
  BY <1>6, ReadFailsInv
<1>7. CASE Flush
  BY <1>7, FlushInv
<1>8. CASE RequestOk
  BY <1>8, RequestOkInv
<1>9. CASE RequestFails
  BY <1>9, RequestFailsInv
<1>10. CASE AnswerOk
  BY <1>10, AnswerOkInv
<1>11. CASE AnswerFails
  BY <1>11, AnswerFailsInv
<1>12. CASE Confirm
  BY <1>12, ConfirmInv
<1>13. CASE Compare
  BY <1>13, CompareInv
<1>14. CASE ScriptEnds
  BY <1>14, ScriptEndsInv
<1>15. CASE \E k \in keys : Press(k)
  BY <1>15, PressInv
<1>16. CASE UNCHANGED vars
  BY <1>16, StutterInv
<1> QED
  BY <1>1, <1>2, <1>3, <1>4, <1>5, <1>6, <1>7, <1>8, <1>9, <1>10, <1>11, <1>12, <1>13, <1>14,
     <1>15, <1>16 DEF Next, Round

-----------------------------------------------------------------------------
(* The theorems                                                            *)

\* The inductive invariant holds in every reachable state, however many
\* transfers fail: the device and the poller disagree only where the poller
\* will notice it, and no more packets are left than failures explain.
THEOREM Inductive == Spec => [](IInv /\ SpentInv)
<1>1. IInv /\ SpentInv /\ [Next]_vars => IInv' /\ SpentInv'
  BY Preserved
<1> QED
  BY Initially, <1>1, PTL DEF Spec

\* TypeOK, with its bound on what failures leave in the device: one answer
\* for each of them, and that of this round (libusb_flush, libusbi.c:317).
THEOREM TypeCorrect == Spec => []TypeOK
<1>1. IInv => TypeOK
  <2> SUFFICES ASSUME IInv PROVE TypeOK
    OBVIOUS
  <2>1. /\ scanner \in Scanners /\ pipe \in Seq(Packets) /\ Len(pipe) \in Nat
        /\ failures \in Nat /\ Answers * failures \in Nat
    BY Typed
  <2>2. Answers \in 1..3 /\ (scanner.backend = "snapscan" => Answers = 3)
    BY <2>1, Parts
  <2>3. Registers \subseteq SUBSET (0..15)
    <3>1. \A P \in SUBSET keys : Register(scanner, P) \subseteq 0..15
      BY <2>1, RegisterRange DEF IInv, TypeInv
    <3> QED
      BY <3>1 DEF Registers
  <2>4. pipe \in Seq(Packet)
    <3>1. Packets \subseteq Packet
      BY <2>3 DEF Packets, Packet, Heads
    <3> QED
      BY <2>1, <3>1, SeqMonotonic
  <2>5. latched \subseteq 0..15 /\ byte \subseteq 0..15
    BY <2>3 DEF IInv, TypeInv
  <2>6. failures \in 0..MaxFailures /\ Answers * failures <= Answers * MaxFailures
    <3>1. failures \in 0..MaxFailures
      BY DEF IInv, TypeInv
    <3> QED
      BY <2>1, <3>1, OneMore, MaxFailuresAssumption
  <2>7. Len(pipe) <= (1 + MaxFailures) * Answers
    <3>1. Len(pipe) <= Answers * failures + Answers
      <4>1. CASE pc \in {"write", "script", "compare"}
        BY <2>1, <2>2, <4>1, EmptyPipe DEF IInv, PipeInv
      <4>2. CASE pc = "read"
        <5>1. got \in Nat
          BY DEF IInv, TypeInv
        <5> QED
          BY <2>1, <2>2, <4>2, <5>1 DEF IInv, PipeInv
      <4>3. CASE pc = "flush"
        BY <2>1, <2>2, <4>3 DEF IInv, PipeInv
      <4>4. CASE pc \in {"request", "answer", "confirm"}
        BY <2>1, <2>2, <4>4, EmptyPipe DEF IInv, PhaseInv
      <4> QED
        BY <4>1, <4>2, <4>3, <4>4 DEF IInv, PhaseInv
    <3>2. CASE Answers = 1
      BY <2>1, <2>6, <3>1, <3>2, MaxFailuresAssumption
    <3>3. CASE Answers = 2
      BY <2>1, <2>6, <3>1, <3>3, MaxFailuresAssumption
    <3>4. CASE Answers = 3
      BY <2>1, <2>6, <3>1, <3>4, MaxFailuresAssumption
    <3> QED
      BY <2>2, <3>2, <3>3, <3>4
  <2>8. pc \in {"write", "read", "flush", "request", "answer", "confirm", "compare", "script"}
    BY DEF IInv, PhaseInv
  <2> QED
    BY <2>4, <2>5, <2>7, <2>8 DEF IInv, TypeInv, TypeOK, Answers
<1> QED
  BY Inductive, <1>1, PTL

\* A button that scanbtnd_get_button returns was down in this very round,
\* whatever failed before, for every backend that looks at the result of its
\* transfers (libusb_flush, libusbi.c:317).
THEOREM FreshButton == Spec => []NoStaleButton
<1>1. IInv => NoStaleButton
  BY DEF IInv, ShownInv, NoStaleButton
<1> QED
  BY Inductive, <1>1, PTL

\* An action that waits for the change from 0 runs once for a key that is
\* held down (opts[].value, scanbuttond_wrapper.c:540 and :557).  One that
\* waits for a change from 1 runs in every round in which the key is down;
\* the hypothesis excludes it.
THEOREM RunsOnce ==
  ASSUME Trigger.from = 0
  PROVE  Spec => OncePerPress
<1>1. IInv /\ SpentInv /\ [Next]_vars
        => [pc = "compare" /\ pc' = "script" /\ button = watched => ~spent]_vars
  <2> SUFFICES ASSUME IInv, SpentInv, Next,
                      pc = "compare", pc' = "script", button = watched, spent
               PROVE  FALSE
    OBVIOUS
  <2>1. Compare
    BY DEF Next, Round, WriteOk, WriteFails, WriteHalted, ReadOk, ReadOther, ReadFails, Flush,
           RequestOk, RequestFails, AnswerOk, AnswerFails, Confirm, ScriptEnds, Press
  <2>2. Start # "script"
    BY Kinds DEF IInv, TypeInv
  <2>3. PICK o \in Options : Fires(o)
    BY <2>1, <2>2 DEF Compare
  <2>4. value[watched] = 0
    BY <2>3 DEF Fires
  <2>5. Shows(pressed)
    BY DEF SpentInv, Shows, Now
  <2> QED
    BY <2>4, <2>5 DEF SpentInv
<1> QED
  BY Inductive, <1>1, PTL DEF OncePerPress, Spec
=============================================================================
