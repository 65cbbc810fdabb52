------------------------ MODULE CommandGateway_proofs ------------------------
(***************************************************************************)
(* Proofs about the pedestal and the gateway, for any panel and any        *)
(* number of moves, restarts and lines on their way.                       *)
(***************************************************************************)
EXTENDS CommandGateway, FiniteSetTheorems, SequenceTheorems, TLAPS

-----------------------------------------------------------------------------
(* The invariant                                                           *)

Assignment == {WriteLVar(l, v) : l \in Written, v \in Int}
UpLine == {Begin} \cup {ObserveLVar(l) : l \in Observed} \cup Assignment
Event == [lvar : Observed \cup {""}, value : Int]
Contact == {-1, OFF, ON}

PanelTypeOK ==
  /\ pressed \subseteq Button /\ closed \subseteq Master /\ keys \subseteq Key
  /\ knob \in [Knob -> Level] /\ selector \in Int

SketchTypeOK ==
  /\ polled \in Event /\ scanned \subseteq Button /\ lights \subseteq {CLR_LGT} \cup Pages
  /\ reading \in [Knob -> Level]
  /\ switch \in [Master \cup Detent -> [state : Contact, age : 0..(Debounce + 1)]]
  /\ pos \in Int /\ lastKey \in Int

TypeOK ==
  /\ PanelTypeOK /\ SketchTypeOK
  /\ com \in {"closed", "begin", "open"} /\ up \in Seq(UpLine) /\ down \in Seq(Event)
  /\ told \subseteq Button \cup Knob /\ heard \subseteq Observed
  /\ typing \in [key : Int, stage : {"none", "down", "seen", "due", "missed"}]
  /\ lvars \in [Written \cup Observed -> Int] /\ observers \in [Observed -> Nat]
  /\ watches \in Seq([lvar : Observed, seen : Int])

\* The next line the gateway takes for the beginning of a session is one.
Greeted ==
  \/ com = "open"
  \/ com = "begin" /\ up # <<>> /\ Head(up) = Begin

\* What the open port makes of each input.
InputsShown ==
  /\ \A b \in Button \cap told : Latest(b) = (IF b \in scanned THEN 1 ELSE 0)
  /\ \A k \in Knob \cap told : Latest(k) = Bright(reading[k])
  /\ \A m \in Master : switch[m].state # -1 => Latest(MasterLVar[m]) = switch[m].state
  /\ pos # -1 => Latest("AB_PDS_ignition") = pos

\* A key that is alone stays so, and the keypad has it once it has been seen.
KeyAlone ==
  /\ typing.stage = "down" => keys = {typing.key}
  /\ typing.stage = "seen" => keys = {typing.key} /\ lastKey = typing.key
  /\ typing.stage = "due" => keys = {} /\ lastKey = typing.key
  /\ typing.stage # "missed"

\* The lights show a value of an LVAR.
ShowsValue(l, v) ==
  IF l = "ECAM_MODE" THEN lights \ {CLR_LGT} = {v} \cap Pages
  ELSE CLR_LGT \in lights <=> v # 0

\* What the lights come to when the lines on their way have been read.
WillShow(l, v) ==
  \/ /\ \A i \in DOMAIN down : down[i].lvar # l
     /\ ShowsValue(l, v)
  \/ \E i \in DOMAIN down :
       /\ down[i] = [lvar |-> l, value |-> v]
       /\ \A j \in DOMAIN down : down[j].lvar = l => j <= i

\* The last event of an LVAR came from one of its watches.
EventsReach ==
  com = "open" => \A l \in heard : \E i \in DOMAIN watches :
                    watches[i].lvar = l /\ WillShow(l, watches[i].seen)

\* The event that stays polled is the last that changed its lights.
PolledShown == polled.lvar \in Observed => ShowsValue(polled.lvar, polled.value)

\* A session begins with nothing heard: what is left of an earlier one is lost.
NothingHeard == Greeted /\ com # "open" => heard = {}

WatchesObserve == \A i \in DOMAIN watches : observers[watches[i].lvar] > 0

GatewayInv ==
  /\ TypeOK
  /\ Greeted => InputsShown
  /\ KeyAlone
  /\ EventsReach
  /\ PolledShown
  /\ NothingHeard
  /\ WatchesObserve

-----------------------------------------------------------------------------
(* Extremes of sets of numbers, and sequences of the elements of a set      *)

\* A set of numbers up to a bound has a least one.
LEMMA LeastNumber ==
  ASSUME NEW S \in SUBSET Nat, S # {}
  PROVE  \E m \in S : \A y \in S : m <= y
  <1> DEFINE R == {r \in Nat \X Nat : r[1] < r[2]}
  <1>1. IsWellFoundedOn(R, Nat)
    <2>1. R = OpToRel(<, Nat)
      BY DEF OpToRel
    <2> QED BY <2>1, NatLessThanWellFounded
  <1> HIDE DEF R
  <1>2. PICK m \in S : \A y \in S : ~(<<y, m>> \in R)
    BY <1>1, WFMin
  <1>3. ASSUME NEW y \in S
        PROVE  m <= y
    <2>1. y \in Nat /\ m \in Nat /\ ~(<<y, m>> \in R)
      BY <1>2
    <2>2. ~(y < m)
      BY <2>1 DEF R
    <2> QED BY <2>1, <2>2
  <1> QED BY <1>3

\* The least of some numbers.
LEMMA MinProperties ==
  ASSUME NEW S \in SUBSET Nat, S # {}
  PROVE  Min(S) \in S /\ \A y \in S : Min(S) <= y
  BY LeastNumber DEF Min

\* The greatest of some numbers up to n.
LEMMA MaxProperties ==
  ASSUME NEW n \in Nat, NEW T \in SUBSET (0..n), T # {}
  PROVE  Max(T) \in T /\ \A y \in T : Max(T) >= y
  <1> DEFINE S == {n - t : t \in T}
  <1>1. S \in SUBSET Nat /\ S # {}
    <2>1. \A t \in T : t \in 0..n /\ n - t \in Nat
      OBVIOUS
    <2> QED BY <2>1
  <1>2. PICK m \in S : \A y \in S : m <= y
    <2> HIDE DEF S
    <2> QED BY <1>1, LeastNumber
  <1>3. PICK t \in T : m = n - t
    BY <1>2 DEF S
  <1>4. ASSUME NEW y \in T
        PROVE  t >= y
    <2>1. n - y \in S /\ y \in 0..n /\ t \in 0..n
      BY DEF S
    <2>2. n - t <= n - y
      BY <2>1, <1>2, <1>3
    <2> QED BY <2>1, <2>2
  <1> QED
    BY <1>4 DEF Max

LEMMA MinOfTwo ==
  ASSUME NEW a \in Int, NEW b \in Int
  PROVE  Min({a, b}) = IF a <= b THEN a ELSE b
  <1>1. PICK x \in {a, b} : \A y \in {a, b} : x <= y
    OBVIOUS
  <1>2. Min({a, b}) \in {a, b} /\ \A y \in {a, b} : Min({a, b}) <= y
    BY <1>1 DEF Min
  <1> QED BY <1>2

\* SetToSeq lists each element.
LEMMA SetToSeqProperties ==
  ASSUME NEW S, IsFiniteSet(S)
  PROVE  /\ SetToSeq(S) \in Seq(S)
         /\ \A x \in S : \E i \in 1..Len(SetToSeq(S)) : SetToSeq(S)[i] = x
  <1> DEFINE n == Cardinality(S)
             f == SetToSeq(S)
  <1>1. n \in Nat /\ ExistsBijection(1..n, S)
    BY FS_CardinalityType
  <1>2. \E g \in [1..n -> S] : IsInjective(g)
    BY <1>1 DEF ExistsBijection, Bijection, Injection
  <1>3. f \in [1..n -> S] /\ IsInjective(f)
    BY <1>2 DEF SetToSeq
  <1>4. f \in Injection(1..n, S)
    BY <1>3 DEF Injection
  <1>5. IsFiniteSet(1..n) /\ Cardinality(1..n) = n
    BY <1>1, FS_Interval
  <1>6. f \in Surjection(1..n, S)
    BY <1>4, <1>5, FS_Injection
  <1>7. f \in Seq(S) /\ Len(f) = n
    BY <1>1, <1>3
  <1> QED
    BY <1>6, <1>7 DEF Surjection

LEMMA ImageFinite ==
  ASSUME NEW S, IsFiniteSet(S), NEW T \in SUBSET S, NEW f
  PROVE  IsFiniteSet({f[x] : x \in T})
  <1>1. IsFiniteSet(T)
    BY FS_Subset
  <1> DEFINE g == [x \in T |-> f[x]]
             U == {f[x] : x \in T}
  <1>2. g \in Surjection(T, U)
    BY DEF Surjection
  <1> QED
    BY <1>1, <1>2, FS_Surjection

-----------------------------------------------------------------------------
(* The lines on their way to the gateway                                    *)

LEMMA LineKinds ==
  /\ \A u \in UpLine :
       /\ u.cmd \in {"BEGIN", "OBS_LVAR", "WRITE_LVAR"}
       /\ u.cmd = "BEGIN" <=> u = Begin
       /\ u.cmd = "OBS_LVAR" => u.lvar \in Observed
       /\ u.cmd = "WRITE_LVAR" => u.lvar \in Written /\ u.value \in Int
  /\ \A u \in Assignment : u.cmd = "WRITE_LVAR" /\ u.lvar \in Written /\ u.value \in Int
  /\ \A l, v : /\ WriteLVar(l, v).cmd = "WRITE_LVAR"
               /\ WriteLVar(l, v).lvar = l /\ WriteLVar(l, v).value = v
               /\ l \in Written /\ v \in Int => WriteLVar(l, v) \in Assignment
  /\ Assignment \subseteq UpLine
  BY DEF UpLine, Assignment, Begin, ObserveLVar, WriteLVar

Writes(q, l) == {i \in DOMAIN q : q[i].cmd = "WRITE_LVAR" /\ q[i].lvar = l}
LatestIn(q, f, l) == IF Writes(q, l) = {} THEN f[l] ELSE q[Max(Writes(q, l))].value

LEMMA LatestIsIn ==
  /\ \A l : Latest(l) = LatestIn(up, lvars, l)
  /\ \A l : Latest(l)' = LatestIn(up', lvars', l)
  BY DEF Latest, LatestIn, Writes

\* The last line that writes an LVAR tells what it comes to.
LEMMA LatestLast ==
  ASSUME NEW q \in Seq(UpLine), NEW f, NEW l, NEW i \in Writes(q, l),
         \A j \in Writes(q, l) : j <= i
  PROVE  LatestIn(q, f, l) = q[i].value
  <1>1. Writes(q, l) \in SUBSET (0..Len(q)) /\ Len(q) \in Nat
    BY LenProperties DEF Writes
  <1>2. Max(Writes(q, l)) \in Writes(q, l) /\ Max(Writes(q, l)) >= i
    BY <1>1, MaxProperties
  <1>3. Max(Writes(q, l)) = i
    BY <1>1, <1>2
  <1> QED
    BY <1>3 DEF LatestIn

\* If any line writes an LVAR, one is the last.
LEMMA LastWrite ==
  ASSUME NEW q \in Seq(UpLine), NEW l, Writes(q, l) # {}
  PROVE  \E i \in Writes(q, l) : \A j \in Writes(q, l) : j <= i
  <1>1. Writes(q, l) \in SUBSET (0..Len(q)) /\ Len(q) \in Nat
    BY LenProperties DEF Writes
  <1>2. Max(Writes(q, l)) \in Writes(q, l) /\ \A j \in Writes(q, l) : Max(Writes(q, l)) >= j
    BY <1>1, MaxProperties
  <1> QED
    BY <1>1, <1>2

\* Lines that do not write an LVAR leave it, and lines that agree tell.
LEMMA LatestAppended ==
  ASSUME NEW q \in Seq(UpLine), NEW lines \in Seq(UpLine), NEW f, NEW l
  PROVE  /\ Writes(lines, l) = {} => LatestIn(q \o lines, f, l) = LatestIn(q, f, l)
         /\ \A v : Writes(lines, l) # {} /\ (\A i \in Writes(lines, l) : lines[i].value = v)
                     => LatestIn(q \o lines, f, l) = v
  <1> DEFINE r == q \o lines
  <1>1. /\ r \in Seq(UpLine) /\ Len(r) = Len(q) + Len(lines)
        /\ Len(q) \in Nat /\ Len(lines) \in Nat
        /\ DOMAIN r = 1..Len(r) /\ DOMAIN q = 1..Len(q) /\ DOMAIN lines = 1..Len(lines)
    BY ConcatProperties, LenProperties
  <1>2. \A i \in 1..Len(q) : r[i] = q[i]
    BY <1>1, ConcatProperties
  <1>3. \A i \in 1..Len(lines) : r[Len(q) + i] = lines[i]
    <2>1. \A i \in 1..Len(q) + Len(lines) : r[i] = IF i <= Len(q) THEN q[i] ELSE lines[i - Len(q)]
      BY ConcatProperties
    <2> QED BY <1>1, <2>1
  <1>4. \A i \in 1..Len(r) : i \in 1..Len(q) \/ \E j \in 1..Len(lines) : i = Len(q) + j
    <2>1. \A i \in 1..Len(r) : i > Len(q) => i - Len(q) \in 1..Len(lines) /\ i = Len(q) + (i - Len(q))
      BY <1>1
    <2> QED BY <1>1, <2>1
  <1> HIDE DEF r
  <1>5. Writes(q, l) \subseteq Writes(r, l)
    BY <1>1, <1>2 DEF Writes
  <1>6. \A i \in Writes(lines, l) : Len(q) + i \in Writes(r, l)
    BY <1>1, <1>3 DEF Writes
  <1>7. \A i \in Writes(r, l) : i \in Writes(q, l) \/ \E j \in Writes(lines, l) : i = Len(q) + j
    <2>1. ASSUME NEW i \in Writes(r, l)
          PROVE  i \in Writes(q, l) \/ \E j \in Writes(lines, l) : i = Len(q) + j
      <3>1. i \in 1..Len(r) /\ r[i].cmd = "WRITE_LVAR" /\ r[i].lvar = l
        BY <1>1 DEF Writes
      <3>2. CASE i \in 1..Len(q)
        BY <1>1, <1>2, <3>1, <3>2 DEF Writes
      <3>3. CASE \E j \in 1..Len(lines) : i = Len(q) + j
        BY <1>1, <1>3, <3>1, <3>3 DEF Writes
      <3> QED BY <1>4, <3>1, <3>2, <3>3
    <2> QED BY <2>1
  <1>8. ASSUME Writes(lines, l) = {}
        PROVE  LatestIn(r, f, l) = LatestIn(q, f, l)
    <2>1. Writes(r, l) = Writes(q, l)
      BY <1>5, <1>7, <1>8
    <2>2. CASE Writes(q, l) = {}
      BY <2>1, <2>2 DEF LatestIn
    <2>3. CASE Writes(q, l) # {}
      <3>1. PICK i \in Writes(q, l) : \A j \in Writes(q, l) : j <= i
        BY <2>3, LastWrite
      <3>2. LatestIn(q, f, l) = q[i].value
        BY <3>1, LatestLast
      <3>3. LatestIn(r, f, l) = r[i].value
        BY <1>1, <2>1, <3>1, LatestLast
      <3>4. i \in 1..Len(q)
        BY <1>1 DEF Writes
      <3> QED BY <1>2, <3>2, <3>3, <3>4
    <2> QED BY <2>2, <2>3
  <1>9. ASSUME NEW v, Writes(lines, l) # {}, \A i \in Writes(lines, l) : lines[i].value = v
        PROVE  LatestIn(r, f, l) = v
    <2>1. PICK i \in Writes(lines, l) : \A j \in Writes(lines, l) : j <= i
      BY <1>9, LastWrite
    <2>2. Len(q) + i \in Writes(r, l)
      BY <1>6
    <2>3. i \in 1..Len(lines) /\ \A j \in Writes(q, l) : j \in 1..Len(q)
      BY <1>1 DEF Writes
    <2>4. \A j \in Writes(lines, l) : j \in 1..Len(lines)
      BY <1>1 DEF Writes
    <2>5. \A j \in Writes(r, l) : j <= Len(q) + i
      BY <1>1, <1>7, <2>1, <2>3, <2>4
    <2>6. LatestIn(r, f, l) = r[Len(q) + i].value
      BY <1>1, <2>2, <2>5, LatestLast
    <2> QED
      BY <1>3, <1>9, <2>3, <2>6
  <1> QED
    BY <1>8, <1>9 DEF r

\* What an LVAR comes to stays when the first line is executed.
LEMMA LatestTail ==
  ASSUME NEW q \in Seq(UpLine), q # <<>>, NEW f \in [Written \cup Observed -> Int], NEW l \in Written
  PROVE  LET g == IF Head(q).cmd = "WRITE_LVAR" THEN [f EXCEPT ![Head(q).lvar] = Head(q).value] ELSE f
         IN  LatestIn(Tail(q), g, l) = LatestIn(q, f, l)
  <1> DEFINE t == Tail(q)
             g == IF Head(q).cmd = "WRITE_LVAR" THEN [f EXCEPT ![Head(q).lvar] = Head(q).value] ELSE f
  <1>1. /\ t \in Seq(UpLine) /\ Len(q) \in Nat \ {0} /\ Len(t) = Len(q) - 1
        /\ DOMAIN t = 1..Len(t) /\ DOMAIN q = 1..Len(q)
        /\ Head(q) = q[1] /\ Head(q) \in UpLine
        /\ \A i \in 1..Len(t) : t[i] = q[i + 1]
    BY HeadTailProperties, LenProperties, EmptySeq
  <1>2. /\ Head(q).cmd = "WRITE_LVAR" /\ Head(q).lvar = l => g[l] = Head(q).value
        /\ ~(Head(q).cmd = "WRITE_LVAR" /\ Head(q).lvar = l) => g[l] = f[l]
    BY <1>1, LineKinds
  <1> HIDE DEF t, g
  <1>3. \A i \in Writes(t, l) : i + 1 \in Writes(q, l) /\ i \in 1..Len(t)
    BY <1>1 DEF Writes
  <1>4. \A i \in Writes(q, l) : i \in 1..Len(q) /\ (i = 1 \/ i - 1 \in Writes(t, l))
    <2>1. \A i \in 1..Len(q) : i = 1 \/ (i - 1 \in 1..Len(t) /\ t[i - 1] = q[i])
      BY <1>1
    <2> QED BY <1>1, <2>1 DEF Writes
  <1>5. 1 \in Writes(q, l) <=> Head(q).cmd = "WRITE_LVAR" /\ Head(q).lvar = l
    <2>1. 1 \in 1..Len(q)
      BY <1>1
    <2> QED BY <1>1, <2>1 DEF Writes
  <1>6. CASE Writes(t, l) # {}
    <2>1. PICK i \in Writes(t, l) : \A j \in Writes(t, l) : j <= i
      BY <1>1, <1>6, LastWrite
    <2>2. i + 1 \in Writes(q, l) /\ i \in 1..Len(t)
      BY <1>3
    <2>3. \A j \in Writes(q, l) : j <= i + 1
      BY <1>1, <1>4, <2>1, <2>2
    <2>4. LatestIn(q, f, l) = q[i + 1].value
      BY <2>2, <2>3, LatestLast
    <2>5. LatestIn(t, g, l) = t[i].value
      BY <1>1, <2>1, LatestLast
    <2> QED BY <1>1, <2>2, <2>4, <2>5 DEF t, g
  <1>7. CASE Writes(t, l) = {} /\ 1 \in Writes(q, l)
    <2>1. \A j \in Writes(q, l) : j <= 1
      BY <1>4, <1>7
    <2>2. LatestIn(q, f, l) = q[1].value
      BY <1>7, <2>1, LatestLast
    <2>3. LatestIn(t, g, l) = g[l]
      BY <1>7 DEF LatestIn
    <2> QED BY <1>1, <1>2, <1>5, <1>7, <2>2, <2>3 DEF t, g
  <1>8. CASE Writes(t, l) = {} /\ 1 \notin Writes(q, l)
    <2>1. Writes(q, l) = {}
      BY <1>4, <1>8
    <2> QED BY <1>2, <1>5, <1>8, <2>1 DEF LatestIn, t, g
  <1> QED
    BY <1>6, <1>7, <1>8

-----------------------------------------------------------------------------
(* What the device sends in a loop                                          *)

LoopLines == InputLines \o EngineLines \o KeyLines(readKeyType)

Changed == {n \in Master : check(n) # switch[n]}

ButtonLines ==
  {WriteLVar(b, 1) : b \in {x \in inputActivated : inputActivated = {x}}} \cup
  {WriteLVar(b, 0) : b \in {x \in inputDeactivated : inputDeactivated = {x}}}
KnobLines == {WriteLVar(k, Bright(knob[k])) : k \in Turned}
MasterLines == {WriteLVar(MasterLVar[m], check(m).state) : m \in Changed}
RotaryLines == {WriteLVar("AB_PDS_ignition", c) : c \in {checkRotary} \ {-1, pos}}
OtherLines == {u \in Assignment : u.lvar \in KeyLVars \cup {"AB_ECAM_TOconf"}}

LEMMA ContactsType ==
  ASSUME TypeOK
  PROVE  /\ \A p \in Master \cup Detent :
              /\ check(p) \in [state : Contact, age : 0..(Debounce + 1)]
              /\ check(p) = switch[p] \/ check(p).state # switch[p].state
         /\ checkRotary \in Int
         /\ readKey \in Int /\ readKeyType \in Int
         /\ keys # {} => readKey \in keys /\ readKey >= 0
  <1>1. \A p \in Master \cup Detent :
          /\ check(p) \in [state : Contact, age : 0..(Debounce + 1)]
          /\ check(p) = switch[p] \/ check(p).state # switch[p].state
    BY PedestalAssumption DEF TypeOK, SketchTypeOK, check, digitalRead, Contact, ON, OFF
  <1>2. checkRotary \in Int
    <2> DEFINE on == {p \in Detent : check(p).state = ON}
    <2>1. on \in SUBSET (0..(23 + NumPos)) /\ 23 + NumPos \in Nat
      BY PedestalAssumption DEF Detent
    <2>2. CASE on = {}
      BY <2>2 DEF checkRotary
    <2>3. CASE on # {}
      <3> HIDE DEF on
      <3>1. Max(on) \in on
        BY <2>1, <2>3, MaxProperties
      <3>2. Max(on) \in 0..(23 + NumPos)
        BY <2>1, <3>1
      <3>3. Max(on) \in Int
        BY <3>2
      <3>4. Max(on) - 24 \in Int
        BY <3>3
      <3> QED BY <2>3, <3>4 DEF checkRotary, on
    <2> QED BY <2>2, <2>3
  <1>3. keys # {} => readKey \in keys
    <2>1. keys \in SUBSET Nat
      BY PedestalAssumption DEF TypeOK, PanelTypeOK
    <2> QED BY <2>1, MinProperties DEF readKey
  <1>4. keys # {} => readKey >= 0 /\ readKey \in Int
    <2>1. \A k \in keys : k \in 0..127
      BY PedestalAssumption DEF TypeOK, PanelTypeOK
    <2>2. keys # {} => readKey \in 0..127
      BY <1>3, <2>1
    <2> QED BY <2>2
  <1>5. keys = {} => readKey = -1
    BY DEF readKey
  <1>6. readKey \in Int
    BY <1>4, <1>5
  <1>7. readKeyType \in Int
    BY DEF TypeOK, SketchTypeOK, readKeyType
  <1> QED
    BY <1>1, <1>2, <1>3, <1>4, <1>6, <1>7

\* The state of a set of buttons is sent if it is one button's.
LEMMA ButtonStateLines ==
  ASSUME NEW S \in SUBSET Button, NEW v \in {0, 1}
  PROVE  LET q == sendButtonState(S, v)
         IN  /\ q \in Seq(Assignment)
             /\ Range(q) \subseteq {WriteLVar(b, v) : b \in {x \in S : S = {x}}} \cup OtherLines
             /\ {WriteLVar(b, v) : b \in {x \in S : S = {x}}} \subseteq Range(q)
  <1> DEFINE q == sendButtonState(S, v)
  <1>1. IsFiniteSet(S)
    BY GatewayAssumption, FS_Subset
  <1>2. Cardinality(S) = 1 <=> \E x : S = {x}
    BY <1>1, FS_Singleton
  <1>3. CASE Cardinality(S) # 1
    <2>1. q = <<>>
      BY <1>3 DEF sendButtonState
    <2>2. {x \in S : S = {x}} = {}
      BY <1>2, <1>3
    <2> QED BY <2>1, <2>2 DEF Range
  <1>4. CASE Cardinality(S) = 1
    <2>1. PICK b : S = {b}
      BY <1>2, <1>4
    <2>2. (CHOOSE x \in S : TRUE) = b /\ b \in Button
      BY <2>1
    <2> DEFINE u == WriteLVar(b, v)
               w == WriteLVar("AB_ECAM_TOconf", 1)
    <2>3. q = <<u>> \o (IF b = "AB_ECAM_TOCFG" /\ v = 1 THEN <<w>> ELSE <<>>)
      BY <1>4, <2>2 DEF sendButtonState
    <2>4. u \in Assignment /\ w \in Assignment /\ w \in OtherLines
      <3>1. b \in Written /\ "AB_ECAM_TOconf" \in Written /\ v \in Int
        BY <2>2 DEF Written
      <3>2. w.lvar = "AB_ECAM_TOconf" /\ w \in Assignment
        BY <3>1, LineKinds
      <3> QED BY <3>1, <3>2, LineKinds DEF OtherLines
    <2> HIDE DEF u, w
    <2>5. PICK r \in {<<>>, <<w>>} : q = <<u>> \o r
      BY <2>3
    <2>6. Range(q) \subseteq {u, w} /\ u \in Range(q) /\ q \in Seq(Assignment)
      <3>1. <<u>> \in Seq(Assignment) /\ Range(<<u>>) = {u}
        BY <2>4 DEF Range
      <3>2. r \in Seq(Assignment) /\ Range(r) \subseteq {w}
        <4>1. CASE r = <<>>
          BY <4>1 DEF Range
        <4>2. CASE r = <<w>>
          BY <4>2, <2>4 DEF Range
        <4> QED BY <4>1, <4>2
      <3>3. q \in Seq(Assignment) /\ Range(q) = Range(<<u>>) \cup Range(r)
        BY <2>5, <3>1, <3>2, ConcatProperties, RangeConcatenation
      <3> QED BY <3>1, <3>2, <3>3
    <2>7. {x \in S : S = {x}} = {b}
      BY <2>1
    <2>8. {WriteLVar(x, v) : x \in {x \in S : S = {x}}} = {u}
      BY <2>7 DEF u
    <2> HIDE DEF q
    <2> QED BY <2>4, <2>6, <2>8 DEF q
  <1> QED
    BY <1>3, <1>4

LEMMA KeyLinesType ==
  ASSUME NEW key \in Int
  PROVE  KeyLines(key) \in Seq(Assignment) /\ Range(KeyLines(key)) \subseteq OtherLines
  <1>1. \A l \in KeyLVars, v \in Int : WriteLVar(l, v) \in Assignment /\ WriteLVar(l, v) \in OtherLines
    <2>1. \A l \in KeyLVars : l \in Written
      BY DEF Written
    <2> QED BY <2>1, LineKinds DEF OtherLines
  <1>2. KeyLines(key) = <<>> \/ \E u \in OtherLines : KeyLines(key) = <<u>>
    <2>1. CASE key < 0 \/ key \in {25, 77}
      <3>1. \/ KeyLines(key) = <<>>
            \/ key \in DOMAIN KeyLVar /\ KeyLines(key) = <<WriteLVar(KeyLVar[key], 1)>>
        BY <2>1 DEF KeyLines
      <3>2. key \in DOMAIN KeyLVar => KeyLVar[key] \in KeyLVars
        BY DEF KeyLVars
      <3> QED BY <1>1, <3>1, <3>2
    <2>2. CASE ~(key < 0 \/ key \in {25, 77}) /\ key \in DOMAIN KeyLVar
      <3>1. KeyLines(key) = <<WriteLVar(KeyLVar[key], 1)>> /\ KeyLVar[key] \in KeyLVars
        BY <2>2 DEF KeyLines, KeyLVars
      <3> QED BY <1>1, <3>1
    <2>3. CASE ~(key < 0 \/ key \in {25, 77}) /\ key \notin DOMAIN KeyLVar
      <3>1. KeyLines(key) = <<WriteLVar("MCDU_UNKNOWN", key)>> /\ "MCDU_UNKNOWN" \in KeyLVars
        BY <2>3 DEF KeyLines, KeyLVars
      <3> QED BY <1>1, <3>1
    <2> QED BY <2>1, <2>2, <2>3
  <1>3. OtherLines \subseteq Assignment
    BY DEF OtherLines
  <1>4. CASE KeyLines(key) = <<>>
    BY <1>4 DEF Range
  <1>5. ASSUME NEW u \in OtherLines, KeyLines(key) = <<u>>
        PROVE  KeyLines(key) \in Seq(Assignment) /\ Range(KeyLines(key)) \subseteq OtherLines
    <2>1. u \in Assignment
      BY <1>3
    <2>2. <<u>> \in Seq(Assignment) /\ \A i \in DOMAIN <<u>> : <<u>>[i] = u
      BY <2>1
    <2>3. Range(<<u>>) \subseteq OtherLines
      BY <2>2 DEF Range
    <2> QED BY <1>5, <2>2, <2>3
  <1> QED
    BY <1>2, <1>4, <1>5

\* SetToSeq of a finite set of lines.
LEMMA LinesOfSet ==
  ASSUME NEW S \in SUBSET Assignment, IsFiniteSet(S)
  PROVE  SetToSeq(S) \in Seq(Assignment) /\ Range(SetToSeq(S)) = S
  <1>1. /\ SetToSeq(S) \in Seq(S)
        /\ \A x \in S : \E i \in 1..Len(SetToSeq(S)) : SetToSeq(S)[i] = x
    BY SetToSeqProperties
  <1>2. SetToSeq(S) \in Seq(Assignment)
    BY <1>1, SeqMonotonic
  <1>3. Range(SetToSeq(S)) = {SetToSeq(S)[i] : i \in 1..Len(SetToSeq(S))}
    BY <1>1, RangeEquality
  <1>4. Range(SetToSeq(S)) \subseteq S
    BY <1>1, RangeOfSeq
  <1> QED
    BY <1>1, <1>2, <1>3, <1>4

LEMMA KnobType ==
  ASSUME TypeOK, NEW k \in Knob
  PROVE  knob[k] \in 0..1023 /\ Bright(knob[k]) \in Int
  <1>1. knob[k] \in 0..1023
    <2>1. knob[k] \in Level
      BY DEF TypeOK, PanelTypeOK
    <2>2. Level \subseteq 0..1023
      BY PedestalAssumption
    <2> QED BY <2>1, <2>2
  <1>2. \A n \in 0..1023 : 20 - (n * 20) \div 1023 \in Int
    OBVIOUS
  <1> QED
    BY <1>1, <1>2 DEF Bright

\* The lines of a loop are those of the inputs that changed.
LEMMA LoopLinesAre ==
  ASSUME TypeOK
  PROVE  /\ LoopLines \in Seq(Assignment)
         /\ Range(LoopLines) \subseteq ButtonLines \cup KnobLines \cup MasterLines \cup RotaryLines \cup OtherLines
         /\ ButtonLines \cup KnobLines \cup MasterLines \cup RotaryLines \subseteq Range(LoopLines)
  <1> DEFINE on == sendButtonState(inputActivated, 1)
             off == sendButtonState(inputDeactivated, 0)
             knobs == SetToSeq(KnobLines)
             masters == SetToSeq(MasterLines)
             rotary == IF checkRotary \notin {-1, pos} THEN <<WriteLVar("AB_PDS_ignition", checkRotary)>> ELSE <<>>
             rest == KeyLines(readKeyType)
  <1>1. LoopLines = ((on \o off) \o knobs) \o (masters \o rotary) \o rest
    BY DEF LoopLines, InputLines, EngineLines, KnobLines, MasterLines, Changed
  <1>2. /\ on \in Seq(Assignment) /\ off \in Seq(Assignment)
        /\ Range(on) \cup Range(off) \subseteq ButtonLines \cup OtherLines
        /\ ButtonLines \subseteq Range(on) \cup Range(off)
    <2>1. inputActivated \in SUBSET Button /\ inputDeactivated \in SUBSET Button
      BY DEF TypeOK, PanelTypeOK, SketchTypeOK, inputActivated, inputDeactivated
    <2> QED BY <2>1, ButtonStateLines DEF ButtonLines
  <1>3. knobs \in Seq(Assignment) /\ Range(knobs) = KnobLines
    <2> DEFINE f == [k \in Knob |-> WriteLVar(k, Bright(knob[k]))]
    <2>1. \A k \in Knob : Bright(knob[k]) \in Int
      BY KnobType
    <2>2. \A k \in Knob : f[k] \in Assignment
      BY <2>1, LineKinds DEF Written
    <2>3. Turned \in SUBSET Knob
      BY DEF Turned
    <2>4. KnobLines = {f[k] : k \in Turned}
      BY <2>3 DEF KnobLines
    <2> HIDE DEF f
    <2>5. IsFiniteSet(KnobLines)
      BY <2>3, <2>4, ImageFinite, GatewayAssumption
    <2>6. KnobLines \in SUBSET Assignment
      BY <2>2, <2>3, <2>4
    <2> QED BY <2>5, <2>6, LinesOfSet
  <1>4. masters \in Seq(Assignment) /\ Range(masters) = MasterLines
    <2> DEFINE f == [m \in Master |-> WriteLVar(MasterLVar[m], check(m).state)]
    <2>1. \A m \in Master : check(m).state \in Int
      BY ContactsType DEF Contact, ON, OFF
    <2>2. \A m \in Master : MasterLVar[m] \in Written
      BY DEF Written, MasterLVars
    <2>3. \A m \in Master : f[m] \in Assignment
      BY <2>1, <2>2, LineKinds
    <2>4. Changed \in SUBSET Master
      BY DEF Changed
    <2>5. MasterLines = {f[m] : m \in Changed}
      BY <2>4 DEF MasterLines
    <2> HIDE DEF f
    <2>6. IsFiniteSet(MasterLines)
      BY <2>4, <2>5, ImageFinite, GatewayAssumption
    <2>7. MasterLines \in SUBSET Assignment
      BY <2>3, <2>4, <2>5
    <2> QED BY <2>6, <2>7, LinesOfSet
  <1>5. rotary \in Seq(Assignment) /\ Range(rotary) = RotaryLines
    <2> DEFINE u == WriteLVar("AB_PDS_ignition", checkRotary)
    <2>1. u \in Assignment
      BY ContactsType, LineKinds DEF Written
    <2>2. CASE checkRotary \in {-1, pos}
      <3>1. rotary = <<>> /\ RotaryLines = {}
        BY <2>2 DEF RotaryLines
      <3> HIDE DEF rotary
      <3> QED BY <3>1 DEF Range
    <2>3. CASE checkRotary \notin {-1, pos}
      <3>1. rotary = <<u>>
        BY <2>3
      <3>2. {checkRotary} \ {-1, pos} = {checkRotary}
        BY <2>3
      <3>3. RotaryLines = {u}
        BY <3>2 DEF RotaryLines
      <3> HIDE DEF rotary, u
      <3>4. <<u>> \in Seq(Assignment) /\ Range(<<u>>) = {u}
        BY <2>1 DEF Range
      <3> QED BY <3>1, <3>3, <3>4
    <2> QED BY <2>2, <2>3
  <1>6. rest \in Seq(Assignment) /\ Range(rest) \subseteq OtherLines
    BY ContactsType, KeyLinesType
  <1> HIDE DEF on, off, knobs, masters, rotary, rest
  <1> DEFINE buttons == on \o off
             inputs == buttons \o knobs
             engines == masters \o rotary
             front == inputs \o engines
  <1>7. buttons \in Seq(Assignment) /\ Range(buttons) = Range(on) \cup Range(off)
    BY <1>2, ConcatProperties, RangeConcatenation
  <1> HIDE DEF buttons
  <1>8. inputs \in Seq(Assignment) /\ Range(inputs) = Range(buttons) \cup Range(knobs)
    BY <1>3, <1>7, ConcatProperties, RangeConcatenation
  <1>9. engines \in Seq(Assignment) /\ Range(engines) = Range(masters) \cup Range(rotary)
    BY <1>4, <1>5, ConcatProperties, RangeConcatenation
  <1> HIDE DEF inputs, engines
  <1>10. front \in Seq(Assignment) /\ Range(front) = Range(inputs) \cup Range(engines)
    BY <1>8, <1>9, ConcatProperties, RangeConcatenation
  <1> HIDE DEF front
  <1>11. front \o rest \in Seq(Assignment) /\ Range(front \o rest) = Range(front) \cup Range(rest)
    BY <1>6, <1>10, ConcatProperties, RangeConcatenation
  <1>12. LoopLines = front \o rest
    BY <1>1 DEF front, inputs, engines, buttons
  <1>13. Range(LoopLines) = Range(on) \cup Range(off) \cup KnobLines \cup MasterLines \cup RotaryLines \cup Range(rest)
    BY <1>3, <1>4, <1>5, <1>7, <1>8, <1>9, <1>10, <1>11, <1>12
  <1> QED
    BY <1>2, <1>6, <1>11, <1>12, <1>13

\* What the lines of a loop make of an LVAR.
LEMMA LatestOfLines ==
  ASSUME NEW q \in Seq(UpLine), NEW lines \in Seq(Assignment), NEW f, NEW l
  PROVE  /\ (\A u \in Range(lines) : u.lvar # l) => LatestIn(q \o lines, f, l) = LatestIn(q, f, l)
         /\ \A v : WriteLVar(l, v) \in Range(lines) /\ (\A u \in Range(lines) : u.lvar = l => u.value = v)
                     => LatestIn(q \o lines, f, l) = v
  <1>1. lines \in Seq(UpLine)
    BY LineKinds, SeqMonotonic
  <1>2. \A i \in Writes(lines, l) : lines[i] \in Range(lines) /\ lines[i].lvar = l
    BY DEF Writes, Range
  <1>3. \A v : WriteLVar(l, v) \in Range(lines) => Writes(lines, l) # {}
    <2>1. \A v : WriteLVar(l, v) \in Range(lines) => \E i \in DOMAIN lines : lines[i] = WriteLVar(l, v)
      BY DEF Range
    <2> QED BY <2>1, LineKinds DEF Writes
  <1>4. (\A u \in Range(lines) : u.lvar # l) => Writes(lines, l) = {}
    BY <1>2
  <1>5. ASSUME \A u \in Range(lines) : u.lvar # l
        PROVE  LatestIn(q \o lines, f, l) = LatestIn(q, f, l)
    BY <1>1, <1>4, <1>5, LatestAppended
  <1>6. ASSUME NEW v, WriteLVar(l, v) \in Range(lines), \A u \in Range(lines) : u.lvar = l => u.value = v
        PROVE  LatestIn(q \o lines, f, l) = v
    <2>1. Writes(lines, l) # {} /\ \A i \in Writes(lines, l) : lines[i].value = v
      BY <1>2, <1>3, <1>6
    <2> QED BY <1>1, <2>1, LatestAppended
  <1> QED
    BY <1>5, <1>6

\* Each line writes the LVAR of its own input.
LEMMA LinesApart ==
  /\ \A u \in ButtonLines : TypeOK => u.lvar \in Button
  /\ \A u \in KnobLines : u.lvar \in Knob
  /\ \A u \in MasterLines : u.lvar \in MasterLVars
  /\ \A u \in RotaryLines : u.lvar = "AB_PDS_ignition"
  /\ \A u \in OtherLines : u.lvar \in KeyLVars \cup {"AB_ECAM_TOconf"}
  /\ Button \cap (Knob \cup MasterLVars \cup KeyLVars \cup {"AB_PDS_ignition", "AB_ECAM_TOconf"}) = {}
  /\ Knob \cap (MasterLVars \cup KeyLVars \cup {"AB_PDS_ignition", "AB_ECAM_TOconf"}) = {}
  /\ MasterLVars \cap (KeyLVars \cup {"AB_PDS_ignition", "AB_ECAM_TOconf"}) = {}
  /\ "AB_PDS_ignition" \notin KeyLVars \cup {"AB_ECAM_TOconf"}
  <1>1. /\ \A u \in ButtonLines : TypeOK => u.lvar \in Button
        /\ \A u \in KnobLines : u.lvar \in Knob
        /\ \A u \in MasterLines : u.lvar \in MasterLVars
        /\ \A u \in RotaryLines : u.lvar = "AB_PDS_ignition"
    <2>1. \A u \in ButtonLines : TypeOK => u.lvar \in Button
      BY LineKinds DEF ButtonLines, inputActivated, inputDeactivated, TypeOK, PanelTypeOK, SketchTypeOK
    <2>2. \A u \in KnobLines : u.lvar \in Knob
      BY LineKinds DEF KnobLines, Turned
    <2>3. \A u \in MasterLines : u.lvar \in MasterLVars
      BY LineKinds DEF MasterLines, MasterLVars, Changed
    <2>4. \A u \in RotaryLines : u.lvar = "AB_PDS_ignition"
      BY LineKinds DEF RotaryLines
    <2> QED BY <2>1, <2>2, <2>3, <2>4
  <1>2. \A u \in OtherLines : u.lvar \in KeyLVars \cup {"AB_ECAM_TOconf"}
    BY DEF OtherLines
  <1> QED
    BY <1>1, <1>2, GatewayAssumption

\* After a loop the LVARs come to what its inputs show.
LEMMA LoopShows ==
  ASSUME TypeOK, InputsShown, up' = up \o LoopLines, UNCHANGED lvars, processInputs, engine
  PROVE  InputsShown'
  <1> DEFINE R == Range(LoopLines)
  <1>1. /\ LoopLines \in Seq(Assignment) /\ up \in Seq(UpLine)
        /\ R \subseteq ButtonLines \cup KnobLines \cup MasterLines \cup RotaryLines \cup OtherLines
        /\ ButtonLines \cup KnobLines \cup MasterLines \cup RotaryLines \subseteq R
    BY LoopLinesAre DEF TypeOK
  <1>2. \A l : (\A u \in R : u.lvar # l) => Latest(l)' = Latest(l)
    BY <1>1, LatestOfLines, LatestIsIn
  <1>3. \A l, v : WriteLVar(l, v) \in R /\ (\A u \in R : u.lvar = l => u.value = v) => Latest(l)' = v
    BY <1>1, LatestOfLines, LatestIsIn
  <1> HIDE DEF R
  <1>4. ASSUME NEW b \in Button, b \in told'
        PROVE  Latest(b)' = (IF b \in scanned' THEN 1 ELSE 0)
    <2>1. \A u \in R : u.lvar = b => u \in ButtonLines
      BY <1>1, LinesApart
    <2>2. IsFiniteSet(inputActivated) /\ IsFiniteSet(inputDeactivated)
      <3>1. inputActivated \in SUBSET Button /\ inputDeactivated \in SUBSET Button
        BY DEF TypeOK, PanelTypeOK, SketchTypeOK, inputActivated, inputDeactivated
      <3> QED BY <3>1, GatewayAssumption, FS_Subset
    <2>3. b \notin Turned
      BY LinesApart DEF Turned
    <2>4. b \in inputActivated => Cardinality(inputActivated) = 1
      BY <1>4, <2>3 DEF processInputs, inputActivated, inputDeactivated
    <2>5. b \in inputDeactivated => Cardinality(inputDeactivated) = 1
      BY <1>4, <2>3 DEF processInputs, inputActivated, inputDeactivated
    <2>6. CASE b \in inputActivated
      <3>1. inputActivated = {b}
        BY <2>2, <2>4, <2>6, FS_Singleton
      <3>2. b \notin inputDeactivated /\ b \in scanned'
        BY <2>6 DEF inputActivated, inputDeactivated, processInputs
      <3>3. WriteLVar(b, 1) \in ButtonLines
        BY <3>1 DEF ButtonLines
      <3>4. \A u \in ButtonLines : u.lvar = b => u.value = 1
        BY <3>2, LineKinds DEF ButtonLines
      <3> QED BY <1>1, <1>3, <2>1, <3>2, <3>3, <3>4
    <2>7. CASE b \in inputDeactivated
      <3>1. inputDeactivated = {b}
        BY <2>2, <2>5, <2>7, FS_Singleton
      <3>2. b \notin inputActivated /\ b \notin scanned'
        BY <2>7 DEF inputActivated, inputDeactivated, processInputs
      <3>3. WriteLVar(b, 0) \in ButtonLines
        BY <3>1 DEF ButtonLines
      <3>4. \A u \in ButtonLines : u.lvar = b => u.value = 0
        BY <3>2, LineKinds DEF ButtonLines
      <3> QED BY <1>1, <1>3, <2>1, <3>2, <3>3, <3>4
    <2>8. CASE b \notin inputActivated \cup inputDeactivated
      <3>1. \A u \in ButtonLines : u.lvar # b
        BY <2>8, LineKinds DEF ButtonLines
      <3>2. Latest(b)' = Latest(b)
        BY <1>2, <2>1, <3>1
      <3>3. b \in told
        BY <1>4, <2>3, <2>8 DEF processInputs
      <3>4. b \in scanned <=> b \in scanned'
        BY <2>8 DEF inputActivated, inputDeactivated, processInputs
      <3> QED BY <3>2, <3>3, <3>4 DEF InputsShown
    <2> QED BY <2>6, <2>7, <2>8
  <1>5. ASSUME NEW k \in Knob, k \in told'
        PROVE  Latest(k)' = Bright(reading'[k])
    <2>1. \A u \in R : u.lvar = k => u \in KnobLines
      BY <1>1, LinesApart
    <2>2. CASE k \in Turned
      <3>1. reading'[k] = knob[k]
        BY <2>2 DEF processInputs
      <3>2. WriteLVar(k, Bright(knob[k])) \in KnobLines
        BY <2>2 DEF KnobLines
      <3>3. \A u \in KnobLines : u.lvar = k => u.value = Bright(knob[k])
        BY LineKinds DEF KnobLines
      <3> QED BY <1>1, <1>3, <2>1, <3>1, <3>2, <3>3
    <2>3. CASE k \notin Turned
      <3>1. reading'[k] = reading[k]
        BY <2>3 DEF processInputs
      <3>2. \A u \in KnobLines : u.lvar # k
        BY <2>3, LineKinds DEF KnobLines
      <3>3. Latest(k)' = Latest(k)
        BY <1>2, <2>1, <3>2
      <3>4. k \in told
        <4>1. k \notin inputActivated \cup inputDeactivated
          BY LinesApart DEF TypeOK, PanelTypeOK, SketchTypeOK, inputActivated, inputDeactivated
        <4>2. told' \subseteq told \cup Turned \cup inputActivated \cup inputDeactivated
          BY DEF processInputs
        <4> QED BY <1>5, <2>3, <4>1, <4>2
      <3> QED BY <3>1, <3>3, <3>4 DEF InputsShown
    <2> QED BY <2>2, <2>3
  <1>6. ASSUME NEW m \in Master, switch'[m].state # -1
        PROVE  Latest(MasterLVar[m])' = switch'[m].state
    <2>1. MasterLVar[m] \in MasterLVars
      BY DEF MasterLVars
    <2>2. \A u \in R : u.lvar = MasterLVar[m] => u \in MasterLines
      BY <1>1, <2>1, LinesApart
    <2>3. switch'[m] = check(m)
      BY DEF engine, TypeOK, SketchTypeOK
    <2>4. CASE m \in Changed
      <3>1. WriteLVar(MasterLVar[m], check(m).state) \in MasterLines
        BY <2>4 DEF MasterLines
      <3>2. \A u \in MasterLines : u.lvar = MasterLVar[m] => u.value = check(m).state
        BY LineKinds, GatewayAssumption DEF MasterLines, Changed
      <3> QED BY <1>1, <1>3, <2>2, <2>3, <3>1, <3>2
    <2>5. CASE m \notin Changed
      <3>1. switch'[m] = switch[m]
        BY <2>3, <2>5 DEF Changed
      <3>2. \A u \in MasterLines : u.lvar # MasterLVar[m]
        BY <2>5, LineKinds, GatewayAssumption DEF MasterLines, Changed
      <3>3. Latest(MasterLVar[m])' = Latest(MasterLVar[m])
        BY <1>2, <2>2, <3>2
      <3> QED BY <1>6, <3>1, <3>3 DEF InputsShown
    <2> QED BY <2>4, <2>5
  <1>7. ASSUME pos' # -1
        PROVE  Latest("AB_PDS_ignition")' = pos'
    <2>1. \A u \in R : u.lvar = "AB_PDS_ignition" => u \in RotaryLines
      BY <1>1, LinesApart
    <2>2. pos' = checkRotary
      BY DEF engine
    <2>3. CASE checkRotary # pos
      <3>1. WriteLVar("AB_PDS_ignition", checkRotary) \in RotaryLines
        BY <1>7, <2>2, <2>3 DEF RotaryLines
      <3>2. \A u \in RotaryLines : u.value = checkRotary
        BY LineKinds DEF RotaryLines
      <3> QED BY <1>1, <1>3, <2>1, <2>2, <3>1, <3>2
    <2>4. CASE checkRotary = pos
      <3>1. RotaryLines = {}
        BY <2>4 DEF RotaryLines
      <3>2. Latest("AB_PDS_ignition")' = Latest("AB_PDS_ignition")
        BY <1>2, <2>1, <3>1
      <3> QED BY <1>7, <2>2, <2>4, <3>2 DEF InputsShown
    <2> QED BY <2>3, <2>4
  <1> QED
    BY <1>4, <1>5, <1>6, <1>7 DEF InputsShown

-----------------------------------------------------------------------------
(* Loops of the device                                                      *)

\* The lights of an LVAR are of its last event only.
LEMMA LightsFollow ==
  ASSUME NEW event \in Event, processOutputs(event), lights \subseteq {CLR_LGT} \cup Pages
  PROVE  /\ lights' \subseteq {CLR_LGT} \cup Pages
         /\ event.lvar \in Observed => ShowsValue(event.lvar, event.value)'
         /\ \A v : \A l \in Observed : l # event.lvar /\ ShowsValue(l, v) => ShowsValue(l, v)'
  <1>1. CASE event.lvar = "AB_ECAM_CLR_Light"
    <2>1. lights' = IF event.value # 0 THEN lights \cup {CLR_LGT} ELSE lights \ {CLR_LGT}
      BY <1>1 DEF processOutputs
    <2>2. lights' \ {CLR_LGT} = lights \ {CLR_LGT}
      BY <2>1
    <2>3. CLR_LGT \in lights' <=> event.value # 0
      BY <2>1
    <2> QED BY <1>1, <2>1, <2>2, <2>3 DEF ShowsValue, Observed
  <1>2. CASE event.lvar = "ECAM_MODE"
    <2>1. lights' = (lights \cap {CLR_LGT}) \cup ({event.value} \cap Pages)
      BY <1>2 DEF processOutputs
    <2>2. CLR_LGT \notin Pages
      BY DEF CLR_LGT, Pages
    <2>3. lights' \ {CLR_LGT} = {event.value} \cap Pages
      BY <2>1, <2>2
    <2>4. CLR_LGT \in lights' <=> CLR_LGT \in lights
      BY <2>1, <2>2
    <2> QED BY <1>2, <2>1, <2>3, <2>4 DEF ShowsValue, Observed
  <1>3. CASE event.lvar \notin Observed
    <2>1. lights' = lights
      BY <1>3 DEF processOutputs, Observed
    <2> QED BY <1>3, <2>1 DEF ShowsValue
  <1> QED
    BY <1>1, <1>2, <1>3 DEF Observed

LEMMA AfterType ==
  ASSUME TypeOK, NEW event \in Event, NEW rest \in Seq(Event), After(event, rest)
  PROVE  PanelTypeOK' /\ SketchTypeOK' /\ up' \in Seq(UpLine) /\ down' \in Seq(Event)
         /\ told' \subseteq Button \cup Knob
         /\ typing' \in [key : Int, stage : {"none", "down", "seen", "due", "missed"}]
  <1>1. PanelTypeOK'
    BY DEF TypeOK, PanelTypeOK, After, panelVars
  <1>2. SketchTypeOK'
    <2>1. polled' \in Event /\ scanned' \subseteq Button
      BY DEF After, processInputs, TypeOK, PanelTypeOK
    <2>2. lights' \subseteq {CLR_LGT} \cup Pages
      BY LightsFollow DEF After, TypeOK, SketchTypeOK
    <2>3. reading' \in [Knob -> Level]
      BY DEF After, processInputs, TypeOK, PanelTypeOK, SketchTypeOK
    <2>4. switch' \in [Master \cup Detent -> [state : Contact, age : 0..(Debounce + 1)]]
      <3>1. DOMAIN switch = Master \cup Detent
            /\ \A p \in Master \cup Detent : switch[p] \in [state : Contact, age : 0..(Debounce + 1)]
        BY DEF TypeOK, SketchTypeOK
      <3>2. \A p \in Master \cup Detent : check(p) \in [state : Contact, age : 0..(Debounce + 1)]
        BY ContactsType
      <3>3. \A checked :
              [p \in Master \cup Detent |-> IF p \in checked THEN check(p) ELSE switch[p]]
                \in [Master \cup Detent -> [state : Contact, age : 0..(Debounce + 1)]]
        BY <3>1, <3>2
      <3> QED BY <3>1, <3>3 DEF After, engine
    <2>5. pos' \in Int /\ lastKey' \in Int
      BY ContactsType DEF After, engine, mcdu
    <2> QED BY <2>1, <2>2, <2>3, <2>4, <2>5 DEF SketchTypeOK
  <1>3. up' \in Seq(UpLine)
    <2>1. LoopLines \in Seq(UpLine)
      BY LoopLinesAre, LineKinds, SeqMonotonic
    <2>2. up \in Seq(UpLine)
      BY DEF TypeOK
    <2>3. up \o LoopLines \in Seq(UpLine)
      BY <2>1, <2>2, ConcatProperties
    <2> QED BY <2>2, <2>3 DEF After, Send, LoopLines
  <1>4. down' \in Seq(Event)
    BY DEF After
  <1>5. told' \subseteq Button \cup Knob
    <2>1. inputActivated \subseteq Button /\ inputDeactivated \subseteq Button /\ Turned \subseteq Knob
      BY DEF TypeOK, PanelTypeOK, SketchTypeOK, inputActivated, inputDeactivated, Turned
    <2>2. told' \subseteq told \cup Turned \cup inputActivated \cup inputDeactivated
      BY DEF After, processInputs
    <2> QED BY <2>1, <2>2 DEF TypeOK
  <1>6. typing' \in [key : Int, stage : {"none", "down", "seen", "due", "missed"}]
    <2>1. \/ typing' = typing \/ typing' = NoKey
          \/ \E s \in {"seen", "missed"} : typing' = [typing EXCEPT !.stage = s]
      BY DEF After, mcdu
    <2> QED BY <2>1 DEF TypeOK, NoKey
  <1> QED
    BY <1>1, <1>2, <1>3, <1>4, <1>5, <1>6

\* A key that was alone is typed when it is up.
LEMMA AfterKeys ==
  ASSUME TypeOK, KeyAlone, NEW event, NEW rest, After(event, rest)
  PROVE  KeyAlone'
  <1>1. keys' = keys /\ lastKey' = readKey /\ mcdu
    BY DEF After, panelVars, mcdu
  <1>2. \A k \in Nat : keys = {k} => readKey = k
    <2>1. ASSUME NEW k \in Nat, keys = {k}
          PROVE  readKey = k
      BY <2>1, MinProperties DEF readKey
    <2> QED BY <2>1
  <1>3. \A k : keys = {k} => k \in Nat
    <2>1. \A k \in keys : k \in 0..127
      BY PedestalAssumption DEF TypeOK, PanelTypeOK
    <2> QED BY <2>1
  <1>4. typing.stage \in {"none", "down", "seen", "due", "missed"}
        /\ DOMAIN typing = {"key", "stage"}
    BY DEF TypeOK
  <1>5. CASE typing.stage = "down"
    <2>1. typing' = [typing EXCEPT !.stage = "seen"]
      BY <1>1, <1>5 DEF mcdu
    <2>2. typing'.stage = "seen" /\ typing'.key = typing.key
      BY <1>4, <2>1
    <2> QED BY <1>1, <1>2, <1>3, <1>5, <2>2 DEF KeyAlone
  <1>6. CASE typing.stage = "due"
    <2>1. readKey = -1 /\ readKeyType = typing.key
      BY <1>6 DEF KeyAlone, readKey, readKeyType
    <2>2. typing' = NoKey
      BY <1>1, <1>6, <2>1 DEF mcdu
    <2> QED BY <2>2 DEF KeyAlone, NoKey
  <1>7. CASE typing.stage \in {"none", "seen", "missed"}
    <2>1. typing' = typing
      BY <1>1, <1>7 DEF mcdu
    <2> QED BY <1>1, <1>2, <1>3, <1>7, <2>1 DEF KeyAlone
  <1> QED
    BY <1>4, <1>5, <1>6, <1>7

\* Nothing but a beginning is taken for one.
LEMMA AfterGreeted ==
  ASSUME TypeOK, NEW event, NEW rest, After(event, rest), Greeted'
  PROVE  Greeted /\ com' = com /\ up' = up \o LoopLines
  <1>1. com' = com /\ up' = IF com = "closed" THEN up ELSE up \o LoopLines
    BY DEF After, Send, LoopLines
  <1>2. com # "closed" /\ up' = up \o LoopLines
    BY <1>1 DEF Greeted
  <1>3. LoopLines \in Seq(Assignment) /\ LoopLines \in Seq(UpLine) /\ up \in Seq(UpLine)
    BY LoopLinesAre, LineKinds, SeqMonotonic DEF TypeOK
  <1>4. CASE com = "begin" /\ up = <<>>
    <2>1. up' = LoopLines
      BY <1>2, <1>3, <1>4, ConcatEmptySeq
    <2>2. up' # <<>> /\ Head(up') = Begin
      BY <1>1, <1>4 DEF Greeted
    <2>3. Head(up') \in Assignment
      BY <1>3, <2>1, <2>2, HeadTailProperties
    <2>4. Begin.cmd = "BEGIN"
      BY DEF Begin
    <2> QED BY <2>2, <2>3, <2>4, LineKinds
  <1>5. CASE com = "begin" /\ up # <<>>
    <2>1. Head(up') = Head(up)
      <3>1. Len(up) \in Nat \ {0} /\ Len(LoopLines) \in Nat
        BY <1>3, <1>5, EmptySeq, LenProperties
      <3>2. 1 \in 1..Len(up) + Len(LoopLines) /\ 1 <= Len(up)
        BY <3>1
      <3>3. up'[1] = up[1]
        BY <1>2, <1>3, <3>2, ConcatProperties
      <3> QED BY <3>3
    <2> QED BY <1>1, <1>2, <1>5, <2>1 DEF Greeted
  <1> QED
    BY <1>1, <1>2, <1>4, <1>5 DEF Greeted

\* A line that is read takes effect if it is the last of its LVAR.
LEMMA LineRead ==
  ASSUME TypeOK, down # <<>>, After(Head(down), Tail(down)),
         NEW l \in Observed, NEW v, WillShow(l, v)
  PROVE  WillShow(l, v)'
  <1> DEFINE e == Head(down)
  <1>1. /\ down' = Tail(down) /\ Len(down) \in Nat \ {0} /\ Len(down') = Len(down) - 1
        /\ DOMAIN down = 1..Len(down) /\ DOMAIN down' = 1..Len(down')
        /\ e = down[1] /\ e \in Event
        /\ \A i \in 1..Len(down') : down'[i] = down[i + 1]
    BY HeadTailProperties, LenProperties, EmptySeq DEF After, TypeOK
  <1>2. processOutputs(e) /\ lights \subseteq {CLR_LGT} \cup Pages
    BY DEF After, TypeOK, SketchTypeOK
  <1>3. CASE /\ \A i \in DOMAIN down : down[i].lvar # l
             /\ ShowsValue(l, v)
    <2>1. \A i \in DOMAIN down' : down'[i].lvar # l
      BY <1>1, <1>3
    <2>2. e.lvar # l
      BY <1>1, <1>3
    <2>3. ShowsValue(l, v)'
      BY <1>1, <1>2, <1>3, <2>2, LightsFollow
    <2> QED BY <2>1, <2>3 DEF WillShow
  <1>4. ASSUME NEW i \in DOMAIN down, down[i] = [lvar |-> l, value |-> v],
               \A j \in DOMAIN down : down[j].lvar = l => j <= i
        PROVE  WillShow(l, v)'
    <2>1. CASE i = 1
      <3>1. \A j \in DOMAIN down' : down'[j].lvar # l
        BY <1>1, <1>4, <2>1
      <3>2. e.lvar = l /\ e.value = v
        BY <1>1, <1>4, <2>1
      <3>3. ShowsValue(l, v)'
        BY <1>1, <1>2, <3>2, LightsFollow
      <3> QED BY <3>1, <3>3 DEF WillShow
    <2>2. CASE i # 1
      <3>1. i - 1 \in DOMAIN down' /\ down'[i - 1] = [lvar |-> l, value |-> v]
        BY <1>1, <1>4, <2>2
      <3>2. \A j \in DOMAIN down' : down'[j].lvar = l => j <= i - 1
        BY <1>1, <1>4
      <3> QED BY <3>1, <3>2 DEF WillShow
    <2> QED BY <2>1, <2>2
  <1> QED
    BY <1>3, <1>4 DEF WillShow

LEMMA NoEventProperties ==
  NoEvent \in Event /\ <<NoEvent>> \in Seq(Event) /\ NoEvent.lvar \notin Observed
  <1>1. NoEvent \in Event /\ NoEvent.lvar \notin Observed
    BY DEF NoEvent, Event, Observed
  <1> QED
    BY <1>1

\* A line that is cut disturbs no other LVAR: the event that stays in place has
\* been shown.
LEMMA LineCut ==
  ASSUME TypeOK, PolledShown, down # <<>>,
         NEW event \in Event, event \in {polled, NoEvent} \/ event.lvar = Head(down).lvar,
         After(event, <<NoEvent>> \o Tail(down)),
         NEW l \in Observed, NEW v, WillShow(l, v),
         Head(down).lvar # l \/ \E i \in 2..Len(down) : down[i].lvar = l
  PROVE  WillShow(l, v)'
  <1>1. NoEvent \in Event /\ <<NoEvent>> \in Seq(Event) /\ NoEvent.lvar \notin Observed
    BY NoEventProperties
  <1>2. /\ Tail(down) \in Seq(Event) /\ Len(down) \in Nat \ {0} /\ Len(Tail(down)) = Len(down) - 1
        /\ DOMAIN down = 1..Len(down) /\ Head(down) = down[1]
        /\ \A i \in 1..Len(Tail(down)) : Tail(down)[i] = down[i + 1]
    BY HeadTailProperties, LenProperties, EmptySeq DEF TypeOK
  <1>3. /\ down' = <<NoEvent>> \o Tail(down) /\ down' \in Seq(Event)
        /\ Len(down') = Len(down) /\ DOMAIN down' = 1..Len(down)
        /\ down'[1] = NoEvent
        /\ \A i \in 2..Len(down) : down'[i] = down[i]
    <2>1. down' = <<NoEvent>> \o Tail(down)
      BY DEF After
    <2>2. Len(<<NoEvent>>) = 1 /\ <<NoEvent>>[1] = NoEvent
      OBVIOUS
    <2>3. /\ down' \in Seq(Event) /\ Len(down') = 1 + Len(Tail(down))
          /\ \A i \in 1..1 + Len(Tail(down)) :
               down'[i] = IF i <= 1 THEN <<NoEvent>>[i] ELSE Tail(down)[i - 1]
      BY <1>1, <1>2, <2>1, <2>2, ConcatProperties
    <2>4. \A i \in 2..Len(down) : i - 1 \in 1..Len(Tail(down)) /\ i \in 1..1 + Len(Tail(down))
      BY <1>2
    <2>5. 1 \in 1..1 + Len(Tail(down))
      BY <1>2
    <2>6. \A i \in 2..Len(down) : down'[i] = down[i]
      BY <1>2, <2>3, <2>4
    <2> QED BY <1>2, <2>1, <2>2, <2>3, <2>5, <2>6, LenProperties
  <1>4. ASSUME \A i \in DOMAIN down : down[i].lvar # l, ShowsValue(l, v)
        PROVE  WillShow(l, v)'
    <2>1. \A i \in DOMAIN down' : down'[i].lvar # l
      <3>1. \A i \in 1..Len(down) : i = 1 \/ i \in 2..Len(down)
        BY <1>2
      <3> QED BY <1>1, <1>2, <1>3, <1>4, <3>1
    <2>2. processOutputs(event) /\ lights \subseteq {CLR_LGT} \cup Pages
      BY DEF After, TypeOK, SketchTypeOK
    <2>3. ShowsValue(l, v)'
      <3>1. CASE event.lvar # l
        BY <1>4, <2>2, <3>1, LightsFollow
      <3>2. CASE event.lvar = l
        <4>1. Head(down).lvar # l
          BY <1>2, <1>4
        <4>2. event = polled
          BY <1>1, <3>2, <4>1
        <4>3. ShowsValue(l, event.value)
          BY <3>2, <4>2 DEF PolledShown
        <4>4. ShowsValue(l, event.value)'
          BY <2>2, <3>2, LightsFollow
        <4> QED
          BY <1>4, <4>3, <4>4 DEF ShowsValue
      <3> QED BY <3>1, <3>2
    <2> QED BY <2>1, <2>3 DEF WillShow
  <1>5. ASSUME NEW i \in DOMAIN down, down[i] = [lvar |-> l, value |-> v],
               \A j \in DOMAIN down : down[j].lvar = l => j <= i
        PROVE  WillShow(l, v)'
    <2>1. i # 1
      <3>1. CASE Head(down).lvar # l
        BY <1>2, <1>5, <3>1
      <3>2. CASE \E j \in 2..Len(down) : down[j].lvar = l
        BY <1>2, <1>5, <3>2
      <3> QED BY <3>1, <3>2
    <2>2. i \in 2..Len(down)
      BY <1>2, <2>1
    <2>3. i \in DOMAIN down' /\ down'[i] = [lvar |-> l, value |-> v]
      BY <1>2, <1>3, <1>5, <2>2
    <2>4. \A j \in DOMAIN down' : down'[j].lvar = l => j <= i
      <3>1. \A j \in 1..Len(down) : j = 1 \/ j \in 2..Len(down)
        BY <1>2
      <3> QED BY <1>2, <1>3, <1>5, <2>2, <3>1
    <2> QED BY <2>3, <2>4 DEF WillShow
  <1> QED
    BY <1>4, <1>5 DEF WillShow

\* One event that is read, one that is cut or none: the invariant holds.
LEMMA LoopInv ==
  ASSUME GatewayInv, Loop
  PROVE  GatewayInv'
  <1>1. TypeOK
    BY DEF GatewayInv
  <1>2. UNCHANGED <<lvars, observers, watches>>
    BY DEF Loop, gatewayVars
  <1>3. \A s \in Seq(Event) : s # <<>> => Head(s) \in Event /\ Tail(s) \in Seq(Event)
    BY HeadTailProperties
  <1>4. NoEvent \in Event
    BY DEF NoEvent, Event
  <1>5. \A event \in Event, rest \in Seq(Event) : After(event, rest) /\ heard' \subseteq heard =>
          /\ TypeOK' /\ (Greeted' => InputsShown') /\ KeyAlone'
          /\ PolledShown' /\ NothingHeard' /\ WatchesObserve'
          /\ com' = com
    <2> SUFFICES ASSUME NEW event \in Event, NEW rest \in Seq(Event),
                        After(event, rest), heard' \subseteq heard
                 PROVE  /\ TypeOK' /\ (Greeted' => InputsShown') /\ KeyAlone'
                        /\ PolledShown' /\ NothingHeard' /\ WatchesObserve'
                        /\ com' = com
      OBVIOUS
    <2>1. com' = com
      BY DEF After
    <2>2. TypeOK'
      BY <1>1, <1>2, <2>1, AfterType DEF TypeOK
    <2>3. Greeted' => Greeted /\ up' = up \o LoopLines
      BY <1>1, AfterGreeted
    <2>4. Greeted' => InputsShown'
      BY <1>1, <1>2, <2>3, LoopShows DEF After, GatewayInv
    <2>5. KeyAlone'
      BY <1>1, AfterKeys DEF GatewayInv
    <2>6. PolledShown'
      <3>1. polled' = event /\ processOutputs(event) /\ lights \subseteq {CLR_LGT} \cup Pages
        BY <1>1 DEF After, TypeOK, SketchTypeOK
      <3> QED BY <3>1, LightsFollow DEF PolledShown, ShowsValue
    <2>7. NothingHeard'
      BY <2>1, <2>3 DEF NothingHeard, GatewayInv
    <2>8. WatchesObserve'
      BY <1>2 DEF WatchesObserve, GatewayInv
    <2> QED BY <2>1, <2>2, <2>4, <2>5, <2>6, <2>7, <2>8
  <1>6. (\A l \in heard' : l \in heard /\ \A v : WillShow(l, v) => WillShow(l, v)') /\ com' = com => EventsReach'
    BY <1>2 DEF EventsReach, GatewayInv
  <1>7. down \in Seq(Event) /\ heard \subseteq Observed
    BY <1>1 DEF TypeOK
  <1>8. CASE loop /\ down = <<>>
    <2>1. After(NoEvent, <<>>) /\ heard' = heard
      BY <1>8 DEF loop
    <2>2. <<>> \in Seq(Event) /\ down' = <<>>
      BY <2>1 DEF After
    <2>3. ASSUME NEW l \in Observed, NEW v, WillShow(l, v)
          PROVE  WillShow(l, v)'
      <3>1. ShowsValue(l, v)
        BY <1>8, <2>3 DEF WillShow
      <3>2. lights' = lights
        BY <2>1 DEF After, processOutputs, NoEvent
      <3> QED BY <2>2, <3>1, <3>2 DEF WillShow, ShowsValue
    <2> QED BY <1>4, <1>5, <1>6, <1>7, <2>1, <2>2, <2>3 DEF GatewayInv
  <1>9. CASE loop /\ down # <<>>
    <2>1. After(Head(down), Tail(down)) /\ heard' = heard
      BY <1>9 DEF loop
    <2>2. \A l \in Observed : \A v : WillShow(l, v) => WillShow(l, v)'
      BY <1>1, <1>9, <2>1, LineRead
    <2> QED BY <1>3, <1>5, <1>6, <1>7, <1>9, <2>1, <2>2 DEF GatewayInv
  <1>10. CASE loop_cut
    <2> DEFINE short == [Head(down) EXCEPT !.value = @ \div 10]
    <2>1. down # <<>> /\ Head(down) \in Event /\ Tail(down) \in Seq(Event)
      BY <1>3, <1>7, <1>10 DEF loop_cut
    <2>2. short \in Event /\ short.lvar = Head(down).lvar
      <3>1. \A n \in Int : n \div 10 \in Int
        OBVIOUS
      <3> QED BY <2>1, <3>1 DEF Event
    <2>3. PICK event \in {polled, NoEvent} \cup {short} : After(event, <<NoEvent>> \o Tail(down))
      BY <1>10 DEF loop_cut
    <2>4. heard' = IF \E i \in 2..Len(down) : down[i].lvar = Head(down).lvar
                   THEN heard ELSE heard \ {Head(down).lvar}
      BY <1>10 DEF loop_cut
    <2> HIDE DEF short
    <2>5. event \in Event /\ (event \in {polled, NoEvent} \/ event.lvar = Head(down).lvar)
      BY <1>1, <1>4, <2>2 DEF TypeOK, SketchTypeOK
    <2>6. <<NoEvent>> \o Tail(down) \in Seq(Event)
      <3>1. <<NoEvent>> \in Seq(Event)
        BY <1>4
      <3> QED BY <2>1, <3>1, ConcatProperties
    <2>7. \A l \in heard' : l \in heard /\ (Head(down).lvar # l \/ \E i \in 2..Len(down) : down[i].lvar = l)
      BY <2>4
    <2>8. ASSUME NEW l \in heard'
          PROVE  l \in heard /\ \A v : WillShow(l, v) => WillShow(l, v)'
      <3>1. l \in Observed /\ PolledShown
        BY <1>7, <2>7, <2>8 DEF GatewayInv
      <3> QED BY <1>1, <2>1, <2>3, <2>5, <2>7, <2>8, <3>1, LineCut
    <2>9. heard' \subseteq heard
      BY <2>4
    <2> QED BY <1>5, <1>6, <2>3, <2>5, <2>6, <2>8, <2>9 DEF GatewayInv
  <1> QED
    BY <1>8, <1>9, <1>10 DEF Loop

-----------------------------------------------------------------------------
(* The gateway, the pilot and the clock                                     *)

LEMMA InputsStay ==
  ASSUME TypeOK, InputsShown, UNCHANGED <<told, scanned, reading, pos>>,
         \A m \in Master : switch'[m].state = switch[m].state,
         \A l \in Written : Latest(l)' = Latest(l)
  PROVE  InputsShown'
  <1>1. \A m \in Master : MasterLVar[m] \in Written
    BY DEF Written, MasterLVars
  <1> QED
    BY <1>1 DEF InputsShown, Written

\* A first line that is executed changes nothing that an LVAR comes to.
LEMMA FirstLine ==
  ASSUME TypeOK, up # <<>>, up' = Tail(up), UNCHANGED <<panelVars, sketchVars, historyVars>>,
         IF Head(up).cmd = "WRITE_LVAR" THEN lvars' = [lvars EXCEPT ![Head(up).lvar] = Head(up).value]
                                        ELSE lvars' = lvars
  PROVE  /\ InputsShown => InputsShown'
         /\ PanelTypeOK' /\ SketchTypeOK' /\ up' \in Seq(UpLine) /\ Head(up) \in UpLine
         /\ lvars' \in [Written \cup Observed -> Int]
         /\ KeyAlone => KeyAlone'
         /\ PolledShown => PolledShown'
  <1>1. up \in Seq(UpLine) /\ lvars \in [Written \cup Observed -> Int]
    BY DEF TypeOK
  <1>2. Head(up) \in UpLine /\ up' \in Seq(UpLine)
    BY <1>1, HeadTailProperties
  <1>3. \A l \in Written : Latest(l)' = Latest(l)
    BY <1>1, LatestTail, LatestIsIn
  <1>4. lvars' \in [Written \cup Observed -> Int]
    BY <1>1, <1>2, LineKinds
  <1>5. InputsShown => InputsShown'
    BY <1>3, InputsStay DEF historyVars, sketchVars
  <1> QED
    BY <1>2, <1>4, <1>5
    DEF TypeOK, PanelTypeOK, SketchTypeOK, panelVars, sketchVars, historyVars, KeyAlone,
        PolledShown, ShowsValue

LEMMA LeaveType ==
  ASSUME Leave
  PROVE  /\ com' = "closed" /\ observers' \in [Observed -> Nat]
         /\ watches' = <<>> /\ watches' \in Seq([lvar : Observed, seen : Int])
         /\ ~Greeted' /\ WatchesObserve' /\ EventsReach' /\ NothingHeard'
  BY DEF Leave, Greeted, WatchesObserve, EventsReach, NothingHeard

LEMMA ReadBeginLineInv ==
  ASSUME GatewayInv, ReadBeginLine
  PROVE  GatewayInv'
  <1>1. /\ TypeOK /\ com = "begin" /\ up # <<>> /\ up' = Tail(up) /\ lvars' = lvars /\ down' = down
        /\ UNCHANGED <<panelVars, sketchVars, historyVars>>
    BY DEF ReadBeginLine, GatewayInv
  <1>2. UNCHANGED <<told, heard, typing>>
    BY <1>1 DEF historyVars
  <1>3. CASE Head(up) = Begin
    <2>1. com' = "open" /\ UNCHANGED <<observers, watches>>
      BY <1>3 DEF ReadBeginLine
    <2>2. Greeted /\ heard = {}
      BY <1>1, <1>3 DEF Greeted, NothingHeard, GatewayInv
    <2>3. Head(up).cmd # "WRITE_LVAR"
      BY <1>3 DEF Begin
    <2>4. /\ InputsShown' /\ PanelTypeOK' /\ SketchTypeOK' /\ up' \in Seq(UpLine)
          /\ lvars' \in [Written \cup Observed -> Int] /\ KeyAlone' /\ PolledShown'
      BY <1>1, <2>2, <2>3, FirstLine DEF GatewayInv
    <2>5. EventsReach' /\ NothingHeard' /\ WatchesObserve'
      BY <1>2, <2>1, <2>2 DEF EventsReach, NothingHeard, WatchesObserve, GatewayInv
    <2>6. TypeOK'
      BY <1>1, <1>2, <2>1, <2>4 DEF TypeOK
    <2> QED BY <2>4, <2>5, <2>6 DEF GatewayInv
  <1>4. CASE Head(up) # Begin
    <2>1. Leave
      BY <1>4 DEF ReadBeginLine
    <2>2. PanelTypeOK' /\ SketchTypeOK' /\ up' \in Seq(UpLine) /\ KeyAlone' /\ PolledShown'
      <3>1. up' \in Seq(UpLine)
        BY <1>1, HeadTailProperties DEF TypeOK
      <3> QED
        BY <1>1, <3>1 DEF GatewayInv, TypeOK, PanelTypeOK, SketchTypeOK, panelVars, sketchVars,
           historyVars, KeyAlone, PolledShown, ShowsValue
    <2>3. TypeOK'
      BY <1>1, <1>2, <2>1, <2>2, LeaveType DEF TypeOK
    <2> QED BY <2>1, <2>2, <2>3, LeaveType DEF GatewayInv
  <1> QED
    BY <1>3, <1>4

LEMMA ProcessWriteLVarInv ==
  ASSUME GatewayInv, ProcessWriteLVar
  PROVE  GatewayInv'
  <1>1. /\ TypeOK /\ com = "open" /\ up # <<>> /\ up' = Tail(up) /\ down' = down
        /\ Head(up).cmd = "WRITE_LVAR"
        /\ lvars' = [lvars EXCEPT ![Head(up).lvar] = Head(up).value]
        /\ UNCHANGED <<panelVars, sketchVars, historyVars>>
        /\ UNCHANGED <<com, observers, watches>>
    BY DEF ProcessWriteLVar, OnDataReceived, GatewayInv
  <1>2. UNCHANGED <<told, heard, typing, lights>>
    BY <1>1 DEF historyVars, sketchVars
  <1>3. /\ InputsShown' /\ PanelTypeOK' /\ SketchTypeOK' /\ up' \in Seq(UpLine)
        /\ lvars' \in [Written \cup Observed -> Int] /\ KeyAlone' /\ PolledShown'
    BY <1>1, FirstLine DEF GatewayInv, Greeted
  <1>4. EventsReach' /\ NothingHeard' /\ WatchesObserve'
    BY <1>1, <1>2 DEF EventsReach, WillShow, ShowsValue, NothingHeard, WatchesObserve, GatewayInv
  <1>5. TypeOK'
    BY <1>1, <1>2, <1>3 DEF TypeOK
  <1> QED
    BY <1>3, <1>4, <1>5 DEF GatewayInv

LEMMA ProcessObserveLVarInv ==
  ASSUME GatewayInv, ProcessObserveLVar
  PROVE  GatewayInv'
  <1> DEFINE l == Head(up).lvar
             w == [lvar |-> l, seen |-> IF CallsAtFirst THEN -1 ELSE lvars[l]]
  <1>1. /\ TypeOK /\ com = "open" /\ up # <<>> /\ up' = Tail(up) /\ down' = down
        /\ Head(up).cmd = "OBS_LVAR" /\ lvars' = lvars /\ com' = com
        /\ observers' = [observers EXCEPT ![l] = @ + 1] /\ watches' = Append(watches, w)
        /\ UNCHANGED <<panelVars, sketchVars, historyVars>>
    BY DEF ProcessObserveLVar, OnDataReceived, GatewayInv
  <1>2. UNCHANGED <<told, heard, typing, lights>>
    BY <1>1 DEF historyVars, sketchVars
  <1>3. /\ InputsShown' /\ PanelTypeOK' /\ SketchTypeOK' /\ up' \in Seq(UpLine) /\ Head(up) \in UpLine
        /\ lvars' \in [Written \cup Observed -> Int] /\ KeyAlone' /\ PolledShown'
    BY <1>1, FirstLine DEF GatewayInv, Greeted
  <1>4. l \in Observed
    BY <1>1, <1>3, LineKinds
  <1>5. w \in [lvar : Observed, seen : Int]
    <2>1. lvars[l] \in Int
      BY <1>1, <1>4 DEF TypeOK
    <2> QED BY <1>4, <2>1
  <1>6. watches \in Seq([lvar : Observed, seen : Int]) /\ observers \in [Observed -> Nat]
    BY <1>1 DEF TypeOK
  <1> HIDE DEF l, w
  <1>7. /\ watches' \in Seq([lvar : Observed, seen : Int]) /\ observers' \in [Observed -> Nat]
        /\ DOMAIN watches' = 1..Len(watches) + 1 /\ DOMAIN watches = 1..Len(watches)
        /\ Len(watches) \in Nat /\ watches'[Len(watches) + 1] = w
        /\ \A i \in 1..Len(watches) : watches'[i] = watches[i]
    BY <1>1, <1>4, <1>5, <1>6, AppendProperties, LenProperties
  <1>8. w.lvar = l
    BY DEF w
  <1>9. WatchesObserve'
    <2>1. ASSUME NEW i \in 1..Len(watches)
          PROVE  observers'[watches'[i].lvar] > 0
      <3>1. observers[watches[i].lvar] > 0 /\ watches[i].lvar \in Observed
        <4>1. i \in DOMAIN watches
          BY <1>7
        <4>2. watches[i] \in [lvar : Observed, seen : Int]
          BY <1>6, ElementOfSeq
        <4> QED BY <4>1, <4>2 DEF GatewayInv, WatchesObserve
      <3> QED BY <1>1, <1>4, <1>6, <1>7, <3>1
    <2>2. observers'[l] > 0
      BY <1>1, <1>4, <1>6
    <2> QED BY <1>7, <1>8, <2>1, <2>2 DEF WatchesObserve
  <1>10. EventsReach'
    <2>1. \A k \in heard : \E i \in DOMAIN watches : watches[i].lvar = k /\ WillShow(k, watches[i].seen)
      BY <1>1 DEF EventsReach, GatewayInv
    <2>2. \A k, v : WillShow(k, v) => WillShow(k, v)'
      BY <1>1, <1>2 DEF WillShow, ShowsValue
    <2>3. \A i \in DOMAIN watches : i \in DOMAIN watches' /\ watches'[i] = watches[i]
      BY <1>7
    <2> QED BY <1>2, <2>1, <2>2, <2>3 DEF EventsReach
  <1>11. NothingHeard'
    BY <1>1 DEF NothingHeard
  <1>12. TypeOK'
    BY <1>1, <1>2, <1>3, <1>7 DEF TypeOK
  <1> QED
    BY <1>3, <1>9, <1>10, <1>11, <1>12 DEF GatewayInv

LEMMA UnknownCommandInv ==
  ASSUME GatewayInv, UnknownCommand
  PROVE  GatewayInv'
  <1>1. /\ TypeOK /\ com = "open" /\ up # <<>> /\ up' = Tail(up) /\ down' = down
        /\ Head(up).cmd = "BEGIN" /\ lvars' = lvars
        /\ UNCHANGED <<panelVars, sketchVars, historyVars>>
        /\ Leave \/ UNCHANGED <<com, observers, watches>>
    BY DEF UnknownCommand, OnDataReceived, GatewayInv
  <1>2. UNCHANGED <<told, heard, typing, lights>>
    BY <1>1 DEF historyVars, sketchVars
  <1>3. /\ InputsShown' /\ PanelTypeOK' /\ SketchTypeOK' /\ up' \in Seq(UpLine)
        /\ lvars' \in [Written \cup Observed -> Int] /\ KeyAlone' /\ PolledShown'
    BY <1>1, FirstLine DEF GatewayInv, Greeted
  <1>4. CASE Leave
    <2>1. TypeOK'
      BY <1>1, <1>2, <1>3, <1>4, LeaveType DEF TypeOK
    <2> QED BY <1>3, <1>4, <2>1, LeaveType DEF GatewayInv
  <1>5. CASE UNCHANGED <<com, observers, watches>>
    <2>1. EventsReach' /\ NothingHeard' /\ WatchesObserve'
      BY <1>1, <1>2, <1>5 DEF EventsReach, WillShow, ShowsValue, NothingHeard, WatchesObserve, GatewayInv
    <2>2. TypeOK'
      BY <1>1, <1>2, <1>3, <1>5 DEF TypeOK
    <2> QED BY <1>3, <2>1, <2>2 DEF GatewayInv
  <1> QED
    BY <1>1, <1>4, <1>5

\* An event that fits gives each observer its line: the last is of the value
\* that the watch has seen.
LEMMA OnLVarModifiedInv ==
  ASSUME GatewayInv, NEW n \in 1..Len(watches), OnLVarModified(n)
  PROVE  GatewayInv'
  <1> DEFINE l == watches[n].lvar
             line == [lvar |-> l, value |-> lvars[l]]
             room == RxLines - Len(down)
             sent == Min({observers[l], room})
             lines == [i \in 1..sent |-> line]
  <1>1. /\ TypeOK /\ com = "open" /\ n \in DOMAIN watches
        /\ watches' = [watches EXCEPT ![n].seen = lvars[l]]
        /\ down' = down \o lines
        /\ heard' = IF observers[l] > room THEN heard \ {l} ELSE heard \cup {l}
        /\ UNCHANGED <<panelVars, sketchVars, com, up, told, typing, lvars, observers>>
    BY DEF OnLVarModified, GatewayInv
  <1>2. /\ watches \in Seq([lvar : Observed, seen : Int]) /\ observers \in [Observed -> Nat]
        /\ down \in Seq(Event) /\ lvars \in [Written \cup Observed -> Int]
    BY <1>1 DEF TypeOK
  <1>3. l \in Observed /\ watches[n] \in [lvar : Observed, seen : Int]
    <2>1. watches[n] \in [lvar : Observed, seen : Int]
      BY <1>2, ElementOfSeq
    <2> QED BY <2>1
  <1>4. observers[l] \in Nat /\ observers[l] > 0 /\ room \in Int /\ lvars[l] \in Int
    <2>1. observers[l] > 0
      BY <1>1 DEF WatchesObserve, GatewayInv
    <2>2. Len(down) \in Nat /\ RxLines \in Nat
      BY <1>2, LenProperties, GatewayAssumption
    <2> QED BY <1>2, <1>3, <2>1, <2>2
  <1>5. line \in Event
    BY <1>3, <1>4 DEF Event
  <1>6. sent = IF observers[l] <= room THEN observers[l] ELSE room
    BY <1>4, MinOfTwo
  <1> HIDE DEF l, line, room, sent
  <1>7. lines \in Seq(Event) /\ (sent > 0 => Len(lines) = sent) /\ \A i \in DOMAIN lines : lines[i] = line
    <2>1. sent \in Int
      BY <1>4, <1>6
    <2>2. CASE sent > 0
      BY <1>5, <2>1, <2>2
    <2>3. CASE ~(sent > 0)
      <3>1. 1..sent = {}
        BY <2>1, <2>3
      <3>2. lines = <<>>
        BY <3>1
      <3> HIDE DEF lines
      <3> QED BY <2>3, <3>2
    <2> QED BY <2>2, <2>3
  <1> HIDE DEF lines
  <1>8. /\ down' \in Seq(Event) /\ Len(down') = Len(down) + Len(lines)
        /\ Len(down) \in Nat /\ Len(lines) \in Nat
        /\ DOMAIN down = 1..Len(down) /\ DOMAIN lines = 1..Len(lines)
        /\ DOMAIN down' = 1..Len(down) + Len(lines)
        /\ \A i \in 1..Len(down) + Len(lines) :
             down'[i] = IF i <= Len(down) THEN down[i] ELSE lines[i - Len(down)]
    BY <1>1, <1>2, <1>7, ConcatProperties, LenProperties
  <1>9. \A i \in 1..Len(down) : down'[i] = down[i]
    BY <1>8
  <1>10. \A i \in Len(down) + 1 .. Len(down) + Len(lines) : down'[i] = line
    <2>1. \A i \in Len(down) + 1 .. Len(down) + Len(lines) :
            i - Len(down) \in 1..Len(lines) /\ i \in 1..Len(down) + Len(lines) /\ ~(i <= Len(down))
      BY <1>8
    <2> QED BY <1>7, <1>8, <2>1
  <1>11. /\ watches' \in Seq([lvar : Observed, seen : Int]) /\ DOMAIN watches' = DOMAIN watches
         /\ watches'[n] = [watches[n] EXCEPT !.seen = lvars[l]]
         /\ \A i \in DOMAIN watches : watches'[i].lvar = watches[i].lvar
         /\ \A i \in DOMAIN watches : i # n => watches'[i] = watches[i]
    <2> DEFINE x == [watches[n] EXCEPT !.seen = lvars[l]]
    <2>1. x \in [lvar : Observed, seen : Int] /\ x.lvar = watches[n].lvar
      BY <1>3, <1>4
    <2>2. watches' = [watches EXCEPT ![n] = x]
      BY <1>1
    <2> HIDE DEF x
    <2>3. n \in 1..Len(watches) /\ DOMAIN watches = 1..Len(watches)
      BY <1>2, LenProperties
    <2>4. watches' \in Seq([lvar : Observed, seen : Int]) /\ Len(watches') = Len(watches)
      BY <1>2, <2>1, <2>2, <2>3, ExceptSeq
    <2>5. DOMAIN watches' = DOMAIN watches /\ watches'[n] = x
          /\ \A i \in DOMAIN watches : i # n => watches'[i] = watches[i]
      BY <2>2, <2>3, <1>1
    <2> QED BY <2>1, <2>4, <2>5 DEF x
  <1>12. lights' = lights
    BY <1>1 DEF sketchVars
  <1>13. ASSUME NEW k \in Observed, k # l, NEW v, WillShow(k, v)
         PROVE  WillShow(k, v)'
    <2>1. line.lvar = l
      BY DEF line
    <2>2. \A i \in DOMAIN down' : i \in 1..Len(down) \/ (i \in Len(down) + 1 .. Len(down) + Len(lines))
      BY <1>8
    <2>3. \A i \in DOMAIN down' : down'[i].lvar = k => i \in 1..Len(down) /\ down'[i] = down[i]
      BY <1>9, <1>10, <1>13, <2>1, <2>2
    <2>4. \A i \in DOMAIN down : i \in DOMAIN down' /\ down'[i] = down[i]
      BY <1>8, <1>9
    <2>5. CASE (\A i \in DOMAIN down : down[i].lvar # k) /\ ShowsValue(k, v)
      <3>1. \A i \in DOMAIN down' : down'[i].lvar # k
        BY <1>8, <2>3, <2>5
      <3> QED BY <1>12, <2>5, <3>1 DEF WillShow, ShowsValue
    <2>6. CASE \E i \in DOMAIN down : /\ down[i] = [lvar |-> k, value |-> v]
                                      /\ \A j \in DOMAIN down : down[j].lvar = k => j <= i
      <3>1. PICK i \in DOMAIN down : /\ down[i] = [lvar |-> k, value |-> v]
                                     /\ \A j \in DOMAIN down : down[j].lvar = k => j <= i
        BY <2>6
      <3>2. i \in DOMAIN down' /\ down'[i] = [lvar |-> k, value |-> v]
        BY <2>4, <3>1
      <3>3. \A j \in DOMAIN down' : down'[j].lvar = k => j <= i
        BY <1>8, <2>3, <3>1
      <3> QED BY <3>2, <3>3 DEF WillShow
    <2> QED BY <1>13, <2>5, <2>6 DEF WillShow
  <1>14. ASSUME observers[l] <= room
         PROVE  WillShow(l, lvars[l])'
    <2>1. sent > 0 /\ Len(lines) > 0
      BY <1>4, <1>6, <1>7, <1>14
    <2> DEFINE i == Len(down) + Len(lines)
    <2>2. i \in DOMAIN down' /\ i \in Len(down) + 1 .. Len(down) + Len(lines)
      BY <1>8, <2>1
    <2>3. down'[i] = [lvar |-> l, value |-> lvars[l]]
      BY <1>10, <2>2 DEF line
    <2>4. \A j \in DOMAIN down' : j <= i
      BY <1>8
    <2>5. lvars' = lvars /\ l' = l
      <3>1. watches'[n].lvar = watches[n].lvar
        BY <1>1, <1>11
      <3> QED BY <1>1, <3>1 DEF l
    <2> HIDE DEF i
    <2> QED BY <2>2, <2>3, <2>4, <2>5 DEF WillShow
  <1>15. EventsReach'
    <2> SUFFICES ASSUME NEW k \in heard'
                 PROVE  \E i \in DOMAIN watches' :
                          watches'[i].lvar = k /\ WillShow(k, watches[i].seen)'
      BY DEF EventsReach
    <2>1. CASE k = l
      <3>1. observers[l] <= room
        BY <1>1, <1>4, <2>1
      <3>2. watches'[n].lvar = l /\ watches'[n].seen = lvars[l]
        BY <1>1, <1>3, <1>11 DEF l
      <3>3. WillShow(l, lvars[l])'
        BY <1>14, <3>1
      <3>4. l' = l /\ lvars' = lvars
        BY <1>1, <3>2 DEF l
      <3>5. WillShow(k, watches[n].seen)'
        BY <2>1, <3>2, <3>3, <3>4 DEF WillShow, ShowsValue
      <3> QED BY <1>1, <1>11, <2>1, <3>2, <3>5
    <2>2. CASE k # l
      <3>1. k \in heard /\ k \in Observed
        BY <1>1, <2>2 DEF TypeOK
      <3>2. PICK i \in DOMAIN watches : watches[i].lvar = k /\ WillShow(k, watches[i].seen)
        BY <1>1, <3>1 DEF EventsReach, GatewayInv
      <3>3. i # n
        BY <2>2, <3>2 DEF l
      <3>4. watches'[i] = watches[i] /\ i \in DOMAIN watches'
        BY <1>11, <3>2, <3>3
      <3>5. PICK v : v = watches[i].seen
        OBVIOUS
      <3>6. WillShow(k, v)'
        BY <1>13, <2>2, <3>1, <3>2, <3>5
      <3>7. WillShow(k, watches[i].seen)'
        BY <3>4, <3>5, <3>6 DEF WillShow, ShowsValue
      <3> QED BY <3>2, <3>4, <3>7
    <2> QED BY <2>1, <2>2
  <1>16. WatchesObserve'
    BY <1>1, <1>11 DEF WatchesObserve, GatewayInv
  <1>17. heard' \subseteq Observed
    BY <1>1, <1>3 DEF TypeOK
  <1>18. TypeOK'
    BY <1>1, <1>8, <1>11, <1>17 DEF TypeOK, PanelTypeOK, SketchTypeOK, panelVars, sketchVars
  <1>19. InputsShown'
    <2>1. \A l_1 \in Written : Latest(l_1)' = Latest(l_1)
      BY <1>1 DEF Latest
    <2> QED BY <1>1, <2>1, InputsStay DEF sketchVars, GatewayInv, Greeted
  <1>20. KeyAlone' /\ PolledShown' /\ NothingHeard'
    BY <1>1 DEF KeyAlone, PolledShown, ShowsValue, NothingHeard, GatewayInv, panelVars, sketchVars
  <1> QED
    BY <1>15, <1>16, <1>18, <1>19, <1>20 DEF GatewayInv

\* A device that starts has shown nothing and heard nothing.
LEMMA BootInv ==
  ASSUME TypeOK, Boot, UNCHANGED panelVars
  PROVE  /\ PanelTypeOK' /\ SketchTypeOK' /\ InputsShown' /\ KeyAlone' /\ PolledShown'
         /\ told' = {} /\ heard' = {}
         /\ typing' \in [key : Int, stage : {"none", "down", "seen", "due", "missed"}]
         /\ Setup \in Seq(UpLine)
  <1>1. PanelTypeOK'
    BY DEF TypeOK, PanelTypeOK, panelVars
  <1>2. SketchTypeOK'
    <2>1. \A k \in Knob : 0 \in Level
      BY PedestalAssumption
    <2>2. polled' \in Event
      BY NoEventProperties DEF Boot
    <2>3. switch' \in [Master \cup Detent -> [state : Contact, age : 0..(Debounce + 1)]]
      <3>1. 0 \in 0..(Debounce + 1)
        BY PedestalAssumption
      <3>2. [state |-> -1, age |-> 0] \in [state : Contact, age : 0..(Debounce + 1)]
        BY <3>1 DEF Contact
      <3> QED BY <3>2 DEF Boot
    <2> QED BY <2>1, <2>2, <2>3 DEF Boot, SketchTypeOK
  <1>3. InputsShown'
    BY DEF Boot, InputsShown
  <1>4. KeyAlone' /\ typing' \in [key : Int, stage : {"none", "down", "seen", "due", "missed"}]
    BY DEF Boot, KeyAlone, NoKey
  <1>5. PolledShown'
    BY NoEventProperties DEF Boot, PolledShown
  <1>6. Setup \in Seq(UpLine)
    BY DEF Setup, UpLine, Observed
  <1> QED
    BY <1>1, <1>2, <1>3, <1>4, <1>5, <1>6 DEF Boot

LEMMA InitGatewayInv == Init => GatewayInv
  <1> SUFFICES ASSUME Init
               PROVE  GatewayInv
    OBVIOUS
  <1>1. PanelTypeOK
    BY PedestalAssumption DEF Init, PedestalInit, PanelTypeOK
  <1>2. SketchTypeOK
    <2>1. polled \in Event
      BY NoEventProperties DEF Init, PedestalInit
    <2>2. switch \in [Master \cup Detent -> [state : Contact, age : 0..(Debounce + 1)]]
      <3>1. 0 \in 0..(Debounce + 1)
        BY PedestalAssumption
      <3>2. [state |-> -1, age |-> 0] \in [state : Contact, age : 0..(Debounce + 1)]
        BY <3>1 DEF Contact
      <3> QED BY <3>2 DEF Init, PedestalInit
    <2> QED BY <2>1, <2>2, PedestalAssumption DEF Init, PedestalInit, SketchTypeOK
  <1>3. /\ com \in {"closed", "begin", "open"} /\ up \in Seq(UpLine) /\ down \in Seq(Event)
        /\ told = {} /\ heard = {} /\ com = "begin"
    BY DEF Init, PedestalInit, Setup, UpLine, Observed
  <1>4. typing \in [key : Int, stage : {"none", "down", "seen", "due", "missed"}] /\ KeyAlone
    BY DEF Init, PedestalInit, NoKey, KeyAlone
  <1>5. /\ lvars \in [Written \cup Observed -> Int] /\ observers \in [Observed -> Nat]
        /\ watches = <<>> /\ watches \in Seq([lvar : Observed, seen : Int])
    BY DEF Init
  <1>6. TypeOK
    BY <1>1, <1>2, <1>3, <1>4, <1>5 DEF TypeOK
  <1>7. InputsShown
    BY DEF Init, PedestalInit, InputsShown
  <1>8. PolledShown
    BY NoEventProperties DEF Init, PedestalInit, PolledShown
  <1>9. EventsReach /\ NothingHeard /\ WatchesObserve
    BY <1>3, <1>5 DEF EventsReach, NothingHeard, WatchesObserve
  <1> QED
    BY <1>4, <1>6, <1>7, <1>8, <1>9 DEF GatewayInv

LEMMA OpenConnectionInv ==
  ASSUME GatewayInv, OpenConnection
  PROVE  GatewayInv'
  <1>1. /\ TypeOK /\ com' = "begin" /\ down' = <<>> /\ UNCHANGED <<panelVars, lvars>>
        /\ observers' = [l \in Observed |-> 0] /\ watches' = <<>>
    BY DEF OpenConnection, Restart, GatewayInv
  <1>2. /\ EventsReach' /\ WatchesObserve'
        /\ down' \in Seq(Event) /\ com' \in {"closed", "begin", "open"}
        /\ observers' \in [Observed -> Nat] /\ watches' \in Seq([lvar : Observed, seen : Int])
    BY <1>1 DEF EventsReach, WatchesObserve
  <1>3. CASE Boot /\ up' = Setup
    <2>1. /\ PanelTypeOK' /\ SketchTypeOK' /\ InputsShown' /\ KeyAlone' /\ PolledShown'
          /\ told' = {} /\ heard' = {} /\ up' \in Seq(UpLine)
          /\ typing' \in [key : Int, stage : {"none", "down", "seen", "due", "missed"}]
      BY <1>1, <1>3, BootInv
    <2>2. TypeOK'
      BY <1>1, <1>2, <2>1 DEF TypeOK
    <2>3. NothingHeard'
      BY <2>1 DEF NothingHeard
    <2> QED BY <1>2, <2>1, <2>2, <2>3 DEF GatewayInv
  <1>4. CASE up' = <<>> /\ told' = {} /\ UNCHANGED <<sketchVars, heard, typing>>
    <2>1. ~Greeted' /\ NothingHeard'
      BY <1>1, <1>4 DEF Greeted, NothingHeard
    <2>2. PanelTypeOK' /\ SketchTypeOK' /\ KeyAlone' /\ PolledShown'
      BY <1>1, <1>4 DEF GatewayInv, TypeOK, PanelTypeOK, SketchTypeOK, panelVars, sketchVars,
         KeyAlone, PolledShown, ShowsValue
    <2>3. up' \in Seq(UpLine)
      BY <1>4
    <2>4. TypeOK'
      BY <1>1, <1>2, <1>4, <2>2, <2>3 DEF TypeOK
    <2> QED BY <1>2, <2>1, <2>2, <2>4 DEF GatewayInv
  <1> QED
    BY <1>3, <1>4 DEF OpenConnection

LEMMA ResetDeviceInv ==
  ASSUME GatewayInv, ResetDevice
  PROVE  GatewayInv'
  <1>1. /\ TypeOK /\ Boot /\ Send(Setup) /\ down' = <<>> /\ UNCHANGED <<panelVars, lvars>>
        /\ UNCHANGED <<com, observers, watches>>
    BY DEF ResetDevice, Restart, GatewayInv
  <1>2. /\ PanelTypeOK' /\ SketchTypeOK' /\ InputsShown' /\ KeyAlone' /\ PolledShown'
        /\ told' = {} /\ heard' = {} /\ Setup \in Seq(UpLine)
        /\ typing' \in [key : Int, stage : {"none", "down", "seen", "due", "missed"}]
    BY <1>1, BootInv
  <1>3. up' \in Seq(UpLine)
    BY <1>1, <1>2, ConcatProperties DEF Send, TypeOK
  <1>4. TypeOK'
    BY <1>1, <1>2, <1>3 DEF TypeOK
  <1>5. EventsReach' /\ NothingHeard'
    BY <1>2 DEF EventsReach, NothingHeard
  <1>6. WatchesObserve'
    BY <1>1 DEF WatchesObserve, GatewayInv
  <1> QED
    BY <1>2, <1>4, <1>5, <1>6 DEF GatewayInv

\* What the pilot moves leaves the device and the lines as they are.
LEMMA MoveInv ==
  ASSUME GatewayInv, Move
  PROVE  GatewayInv'
  <1>1. /\ TypeOK
        /\ UNCHANGED <<sketchVars, com, up, down, told, heard, lvars, observers, watches>>
    BY DEF Move, gatewayVars, GatewayInv
  <1>2. PanelTypeOK'
    <2>1. CASE \E b \in Button : Press(b)
      BY <1>1, <2>1 DEF Press, TypeOK, PanelTypeOK
    <2>2. CASE \E k \in Knob, level \in Level : Turn(k, level)
      BY <1>1, <2>2 DEF Turn, TypeOK, PanelTypeOK
    <2>3. CASE \E m \in Master : Throw(m)
      BY <1>1, <2>3 DEF Throw, TypeOK, PanelTypeOK
    <2>4. CASE \E p \in -1..(NumPos - 1) : Select(p)
      <3>1. \A p \in -1..(NumPos - 1) : p \in Int
        BY PedestalAssumption
      <3> QED BY <1>1, <2>4, <3>1 DEF Select, TypeOK, PanelTypeOK
    <2>5. CASE \E k \in Key : KeyDown(k) \/ KeyUp(k)
      BY <1>1, <2>5 DEF KeyDown, KeyUp, TypeOK, PanelTypeOK
    <2> QED BY <2>1, <2>2, <2>3, <2>4, <2>5 DEF Move
  <1>3. KeyAlone' /\ typing' \in [key : Int, stage : {"none", "down", "seen", "due", "missed"}]
    <2>1. CASE UNCHANGED <<keys, typing>>
      BY <1>1, <2>1 DEF KeyAlone, GatewayInv, TypeOK, sketchVars
    <2>2. ASSUME NEW k \in Key, KeyDown(k)
          PROVE  KeyAlone' /\ typing' \in [key : Int, stage : {"none", "down", "seen", "due", "missed"}]
      <3>1. k \in Int
        BY PedestalAssumption
      <3>2. CASE keys = {} /\ typing.stage = "none"
        <4>1. typing' = [key |-> k, stage |-> "down"] /\ keys' = {k}
          BY <2>2, <3>2 DEF KeyDown
        <4> QED BY <3>1, <4>1 DEF KeyAlone
      <3>3. CASE ~(keys = {} /\ typing.stage = "none")
        <4>1. typing' = NoKey
          BY <2>2, <3>3 DEF KeyDown
        <4> QED BY <4>1 DEF KeyAlone, NoKey
      <3> QED BY <3>2, <3>3
    <2>3. ASSUME NEW k \in Key, KeyUp(k)
          PROVE  KeyAlone' /\ typing' \in [key : Int, stage : {"none", "down", "seen", "due", "missed"}]
      <3>1. k \in Int
        BY PedestalAssumption
      <3>2. CASE typing = [key |-> k, stage |-> "seen"]
        <4>1. typing.stage = "seen" /\ typing.key = k
          BY <3>2
        <4>2. keys = {k} /\ lastKey = k
          BY <4>1 DEF KeyAlone, GatewayInv
        <4>3. typing' = [key |-> k, stage |-> "due"] /\ keys' = {} /\ lastKey' = k
          BY <1>1, <2>3, <3>2, <4>2 DEF KeyUp, sketchVars
        <4> QED BY <3>1, <4>3 DEF KeyAlone
      <3>3. CASE typing # [key |-> k, stage |-> "seen"]
        <4>1. typing' = NoKey
          BY <2>3, <3>3 DEF KeyUp
        <4> QED BY <4>1 DEF KeyAlone, NoKey
      <3> QED BY <3>2, <3>3
    <2> QED BY <2>1, <2>2, <2>3 DEF Move, Press, Turn, Throw, Select
  <1>4. TypeOK'
    BY <1>1, <1>2, <1>3 DEF TypeOK, SketchTypeOK, sketchVars
  <1>5. \A l \in Written : Latest(l)' = Latest(l)
    BY <1>1 DEF Latest
  <1>6. (Greeted' => InputsShown')
    BY <1>1, <1>5, InputsStay DEF Greeted, GatewayInv, sketchVars
  <1>7. EventsReach' /\ PolledShown' /\ NothingHeard' /\ WatchesObserve'
    BY <1>1 DEF EventsReach, WillShow, PolledShown, ShowsValue, NothingHeard, Greeted,
       WatchesObserve, GatewayInv, sketchVars
  <1> QED
    BY <1>3, <1>4, <1>6, <1>7 DEF GatewayInv

LEMMA SetLVarInv ==
  ASSUME GatewayInv, NEW l \in Observed, SetLVar(l)
  PROVE  GatewayInv'
  <1>1. TypeOK /\ UNCHANGED <<pedestalVars, observers, watches>>
    BY DEF SetLVar, GatewayInv
  <1>2. PICK v \in LVarValue[l] : lvars' = [lvars EXCEPT ![l] = v]
    BY DEF SetLVar
  <1>3. v \in Int /\ l \notin Written
    BY GatewayAssumption
  <1>4. \A k \in Written : lvars'[k] = lvars[k]
    BY <1>1, <1>2, <1>3 DEF TypeOK
  <1>5. \A k \in Written : Latest(k)' = Latest(k)
    BY <1>1, <1>4 DEF Latest, pedestalVars
  <1>6. TypeOK'
    BY <1>1, <1>2, <1>3 DEF TypeOK, PanelTypeOK, SketchTypeOK, pedestalVars, panelVars, sketchVars, historyVars
  <1>7. Greeted' => InputsShown'
    BY <1>1, <1>5, InputsStay DEF Greeted, GatewayInv, pedestalVars, sketchVars, historyVars
  <1>8. KeyAlone' /\ EventsReach' /\ PolledShown' /\ NothingHeard' /\ WatchesObserve'
    BY <1>1 DEF KeyAlone, EventsReach, WillShow, PolledShown, ShowsValue, NothingHeard, Greeted,
       WatchesObserve, GatewayInv, pedestalVars, panelVars, sketchVars, historyVars
  <1> QED
    BY <1>6, <1>7, <1>8 DEF GatewayInv

LEMMA TickInv ==
  ASSUME GatewayInv, Tick, UNCHANGED gatewayVars
  PROVE  GatewayInv'
  <1>1. /\ TypeOK /\ UNCHANGED <<panelVars, polled, scanned, lights, reading, pos, lastKey>>
        /\ UNCHANGED <<com, up, down, historyVars, lvars, observers, watches>>
        /\ switch' = [p \in DOMAIN switch |-> [switch[p] EXCEPT !.age = Min({@ + 1, Debounce + 1})]]
    BY DEF Tick, gatewayVars, GatewayInv
  <1>2. \A n \in 0..(Debounce + 1) : Min({n + 1, Debounce + 1}) \in 0..(Debounce + 1)
    <2> SUFFICES ASSUME NEW n \in 0..(Debounce + 1)
                 PROVE  Min({n + 1, Debounce + 1}) \in 0..(Debounce + 1)
      OBVIOUS
    <2>1. n + 1 \in Int /\ Debounce + 1 \in Int /\ Debounce \in Nat
      BY PedestalAssumption
    <2>2. Min({n + 1, Debounce + 1}) = IF n + 1 <= Debounce + 1 THEN n + 1 ELSE Debounce + 1
      BY <2>1, MinOfTwo
    <2> QED BY <2>1, <2>2
  <1>3. switch \in [Master \cup Detent -> [state : Contact, age : 0..(Debounce + 1)]]
    BY <1>1 DEF TypeOK, SketchTypeOK
  <1>4. \A p \in Master \cup Detent :
          switch'[p].state = switch[p].state /\ switch'[p] \in [state : Contact, age : 0..(Debounce + 1)]
    BY <1>1, <1>2, <1>3
  <1>5. switch' \in [Master \cup Detent -> [state : Contact, age : 0..(Debounce + 1)]]
    BY <1>1, <1>3, <1>4
  <1>6. TypeOK'
    BY <1>1, <1>5 DEF TypeOK, PanelTypeOK, SketchTypeOK, panelVars, historyVars
  <1>7. \A l \in Written : Latest(l)' = Latest(l)
    BY <1>1 DEF Latest
  <1>8. Greeted' => InputsShown'
    BY <1>1, <1>4, <1>7, InputsStay DEF Greeted, GatewayInv, historyVars
  <1>9. KeyAlone' /\ EventsReach' /\ PolledShown' /\ NothingHeard' /\ WatchesObserve'
    BY <1>1 DEF KeyAlone, EventsReach, WillShow, PolledShown, ShowsValue, NothingHeard, Greeted,
       WatchesObserve, GatewayInv, panelVars, historyVars
  <1> QED
    BY <1>6, <1>8, <1>9 DEF GatewayInv

LEMMA StutterInv ==
  ASSUME GatewayInv, UNCHANGED vars
  PROVE  GatewayInv'
  <1>1. /\ UNCHANGED <<pressed, knob, closed, selector, keys, polled, scanned, lights, reading, switch, pos, lastKey>>
        /\ UNCHANGED <<com, up, down, told, heard, typing, lvars, observers, watches>>
    BY DEF vars, pedestalVars, panelVars, sketchVars, historyVars, gatewayVars
  <1>2. TypeOK'
    BY <1>1 DEF GatewayInv, TypeOK, PanelTypeOK, SketchTypeOK
  <1>3. Greeted' => InputsShown'
    BY <1>1 DEF GatewayInv, Greeted, InputsShown, Latest
  <1>4. KeyAlone' /\ EventsReach' /\ PolledShown' /\ NothingHeard' /\ WatchesObserve'
    BY <1>1 DEF KeyAlone, EventsReach, WillShow, PolledShown, ShowsValue, NothingHeard, Greeted,
       WatchesObserve, GatewayInv
  <1> QED
    BY <1>2, <1>3, <1>4 DEF GatewayInv

-----------------------------------------------------------------------------
(* The theorems                                                             *)

LEMMA NextGatewayInv == GatewayInv /\ [Next]_vars => GatewayInv'
  <1> SUFFICES ASSUME GatewayInv, [Next]_vars
               PROVE  GatewayInv'
    OBVIOUS
  <1>1. CASE ReadBeginLine
    BY <1>1, ReadBeginLineInv
  <1>2. CASE ProcessWriteLVar
    BY <1>2, ProcessWriteLVarInv
  <1>3. CASE ProcessObserveLVar
    BY <1>3, ProcessObserveLVarInv
  <1>4. CASE UnknownCommand
    BY <1>4, UnknownCommandInv
  <1>5. CASE \E i \in 1..Len(watches) : OnLVarModified(i)
    BY <1>5, OnLVarModifiedInv
  <1>6. CASE OpenConnection
    BY <1>6, OpenConnectionInv
  <1>7. CASE ResetDevice
    BY <1>7, ResetDeviceInv
  <1>8. CASE Loop
    BY <1>8, LoopInv
  <1>9. CASE Move
    BY <1>9, MoveInv
  <1>10. CASE \E l \in Observed : SetLVar(l)
    BY <1>10, SetLVarInv
  <1>11. CASE Tick /\ UNCHANGED <<gatewayVars, moves, restarts>>
    BY <1>11, TickInv
  <1>12. CASE UNCHANGED vars
    BY <1>12, StutterInv
  <1> QED
    BY <1>1, <1>2, <1>3, <1>4, <1>5, <1>6, <1>7, <1>8, <1>9, <1>10, <1>11, <1>12 DEF Next

\* Whatever the pilot, the aircraft, the keystrokes and the resets do, the
\* pedestal and the gateway keep their invariant.
THEOREM GatewayInvariant == Spec => []GatewayInv
  <1> QED
    BY InitGatewayInv, NextGatewayInv, PTL DEF Spec

\* The aircraft comes to show the inputs of the pedestal, and a key that is
\* pressed alone and scanned is typed when it is released.
THEOREM InputsReachAlways == Spec => []InputsReach
  <1>1. GatewayInv => InputsReach
    BY DEF GatewayInv, Greeted, InputsShown, KeyAlone, InputsReach
  <1> QED
    BY <1>1, GatewayInvariant, PTL

\* The lights show the LVARs whose last event was neither cut nor lost, once
\* the gateway has seen their value and the device has read its lines.
THEOREM LightsShowAlways == Spec => []LightsShow
  <1>1. GatewayInv => LightsShow
    <2> SUFFICES ASSUME GatewayInv, com = "open", NEW l \in heard
                 PROVE  \/ \E i \in DOMAIN watches : watches[i].lvar = l /\ watches[i].seen # lvars[l]
                        \/ \E i \in DOMAIN down : down[i].lvar = l
                        \/ Shown(l)
      BY DEF LightsShow
    <2>1. PICK i \in DOMAIN watches : watches[i].lvar = l /\ WillShow(l, watches[i].seen)
      BY DEF GatewayInv, EventsReach
    <2>2. CASE watches[i].seen = lvars[l] /\ \A j \in DOMAIN down : down[j].lvar # l
      BY <2>1, <2>2 DEF WillShow, ShowsValue, Shown
    <2> QED BY <2>1, <2>2
  <1> QED
    BY <1>1, GatewayInvariant, PTL
=============================================================================
