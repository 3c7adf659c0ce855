------------------------------ MODULE UnitProofs ------------------------------
(***************************************************************************)
(* The unit's power button, its start-up, the simulator that stands for    *)
(* its devices, and the collectors of its measurements, for any capacities *)
(* and numbers of presses, losses, configurations, starts, keys and        *)
(* answers.  The inductive invariant of each component has a name that     *)
(* ends in Sound.                                                          *)
(***************************************************************************)
EXTENDS PowerButton, Startup, Simulator, Collectors, FiniteSetTheorems, SequenceTheorems, TLAPS

----------------------------------------------------------------------------
(* Levels on their way *)

\* Where the button goes down in a sequence of signals, and how often.
Places(s) == {i \in 1..Len(s) : s[i] = "Down"}
Downs(s) == Cardinality(Places(s))

\* A press that no release follows.
Open(s) == \E i \in 1..Len(s) : s[i] = "Down" /\ \A j \in 1..Len(s) : j > i => s[j] # "Up"
HasUp(s) == \E i \in 1..Len(s) : s[i] = "Up"

\* The last level told by s, after another or by itself.
LastLevel(s, before) == IF Open(s) THEN "Down" ELSE IF HasUp(s) THEN "Up" ELSE before
Later(x, before) == IF x \in Level THEN x ELSE before

\* Between two presses there is a release.
Spaced(s, before) ==
    /\ before = "Down" =>
          \A i \in 1..Len(s) : s[i] = "Down" => \E k \in 1..(i - 1) : s[k] = "Up"
    /\ \A i, j \in 1..Len(s) :
          i < j /\ s[i] = "Down" /\ s[j] = "Down" => \E k \in i..j : s[k] = "Up"

LEMMA EmptyTells ==
    ASSUME NEW before \in Level
    PROVE  /\ ~HasUp(<<>>) /\ LastLevel(<<>>, before) = before /\ Spaced(<<>>, before)
           /\ Downs(<<>>) = 0
<1>1. Len(<<>>) = 0
  OBVIOUS
<1>2. Places(<<>>) = {}
  BY <1>1 DEF Places
<1>3. \A i \in 1..Len(<<>>) : FALSE
  BY <1>1
<1>4. ~HasUp(<<>>) /\ ~Open(<<>>) /\ Spaced(<<>>, before)
  BY <1>3 DEF HasUp, Open, Spaced
<1>5. LastLevel(<<>>, before) = before
  BY <1>4 DEF LastLevel
<1>6. Downs(<<>>) = 0
  BY <1>2, FS_EmptySet DEF Downs
<1>7. QED
  BY <1>4, <1>5, <1>6

LEMMA PlacesFinite ==
    ASSUME NEW S, NEW s \in Seq(S)
    PROVE  IsFiniteSet(Places(s)) /\ Downs(s) \in Nat
<1>1. Len(s) \in Nat /\ Places(s) \in SUBSET (1..Len(s)) /\ IsFiniteSet(1..Len(s))
  BY LenProperties, FS_Interval DEF Places
<1>2. IsFiniteSet(Places(s))
  BY <1>1, FS_Subset
<1>3. QED
  BY <1>2, FS_CardinalityType DEF Downs

\* One more at the end.
LEMMA AppendTells ==
    ASSUME NEW S, NEW s \in Seq(S), NEW x \in S, NEW before \in Level
    PROVE  /\ HasUp(Append(s, x)) <=> HasUp(s) \/ x = "Up"
           /\ LastLevel(Append(s, x), before) = Later(x, LastLevel(s, before))
           /\ Spaced(s, before) /\ (x = "Down" => LastLevel(s, before) = "Up")
                => Spaced(Append(s, x), before)
<1> DEFINE t == Append(s, x)
<1>1. /\ Len(t) = Len(s) + 1 /\ Len(s) \in Nat /\ t[Len(s) + 1] = x
      /\ \A i \in 1..Len(s) : t[i] = s[i]
  BY AppendProperties, LenProperties
<1> HIDE DEF t
<1>2. HasUp(t) <=> HasUp(s) \/ x = "Up"
  BY <1>1 DEF HasUp
<1>3. Open(t) <=> x = "Down" \/ (x # "Up" /\ Open(s))
  <2>1. ASSUME x = "Down" PROVE Open(t)
    BY <1>1, <2>1 DEF Open
  <2>2. ASSUME x # "Up", Open(s) PROVE Open(t)
    <3>1. PICK i \in 1..Len(s) : s[i] = "Down" /\ \A j \in 1..Len(s) : j > i => s[j] # "Up"
      BY <2>2 DEF Open
    <3>2. \A j \in 1..Len(t) : j > i => t[j] # "Up"
      BY <1>1, <2>2, <3>1
    <3>3. QED
      BY <1>1, <3>1, <3>2 DEF Open
  <2>3. ASSUME Open(t), x # "Down" PROVE x # "Up" /\ Open(s)
    <3>1. PICK i \in 1..Len(t) : t[i] = "Down" /\ \A j \in 1..Len(t) : j > i => t[j] # "Up"
      BY <2>3 DEF Open
    <3>2. i \in 1..Len(s)
      BY <1>1, <2>3, <3>1
    <3>3. QED
      BY <1>1, <3>1, <3>2 DEF Open
  <2>4. QED
    BY <2>1, <2>2, <2>3
<1>4. LastLevel(t, before) = Later(x, LastLevel(s, before))
  BY <1>2, <1>3 DEF LastLevel, Later, Level
<1>5. ASSUME Spaced(s, before), x = "Down" => LastLevel(s, before) = "Up"
      PROVE  Spaced(t, before)
  <2>1. ASSUME before = "Down", NEW i \in 1..Len(t), t[i] = "Down"
        PROVE  \E k \in 1..(i - 1) : t[k] = "Up"
    <3>1. CASE i \in 1..Len(s)
      <4>1. PICK k \in 1..(i - 1) : s[k] = "Up"
        BY <1>1, <1>5, <2>1, <3>1 DEF Spaced
      <4>2. QED
        BY <1>1, <3>1, <4>1
    <3>2. CASE i = Len(s) + 1
      <4>1. HasUp(s)
        BY <1>1, <1>5, <2>1, <3>2 DEF LastLevel
      <4>2. QED
        BY <1>1, <3>2, <4>1 DEF HasUp
    <3>3. QED
      BY <1>1, <3>1, <3>2
  <2>2. ASSUME NEW i \in 1..Len(t), NEW j \in 1..Len(t), i < j, t[i] = "Down", t[j] = "Down"
        PROVE  \E k \in i..j : t[k] = "Up"
    <3>1. i \in 1..Len(s)
      BY <1>1, <2>2
    <3>2. CASE j \in 1..Len(s)
      <4>1. PICK k \in i..j : s[k] = "Up"
        BY <1>1, <1>5, <2>2, <3>1, <3>2 DEF Spaced
      <4>2. QED
        BY <1>1, <3>1, <3>2, <4>1
    <3>3. CASE j = Len(s) + 1
      <4>1. ~Open(s)
        BY <1>1, <1>5, <2>2, <3>3 DEF LastLevel
      <4>2. PICK k \in 1..Len(s) : k > i /\ s[k] = "Up"
        BY <1>1, <2>2, <3>1, <4>1 DEF Open
      <4>3. QED
        BY <1>1, <3>1, <3>3, <4>2
    <3>4. QED
      BY <1>1, <3>2, <3>3
  <2>3. QED
    BY <2>1, <2>2 DEF Spaced
<1>6. QED
  BY <1>2, <1>4, <1>5 DEF t

LEMMA AppendCounts ==
    ASSUME NEW S, NEW s \in Seq(S), NEW x \in S
    PROVE  Downs(Append(s, x)) = Downs(s) + (IF x = "Down" THEN 1 ELSE 0)
<1> DEFINE t == Append(s, x)
<1>1. /\ Len(t) = Len(s) + 1 /\ Len(s) \in Nat /\ t[Len(s) + 1] = x
      /\ \A i \in 1..Len(s) : t[i] = s[i]
  BY AppendProperties, LenProperties
<1> HIDE DEF t
<1>2. IsFiniteSet(Places(s)) /\ Downs(s) \in Nat
  BY PlacesFinite
<1>3. CASE x = "Down"
  <2>1. Places(t) = Places(s) \cup {Len(s) + 1} /\ Len(s) + 1 \notin Places(s)
    BY <1>1, <1>3 DEF Places
  <2>2. QED
    BY <1>2, <1>3, <2>1, FS_AddElement DEF Downs, t
<1>4. CASE x # "Down"
  <2>1. Places(t) = Places(s)
    BY <1>1, <1>4 DEF Places
  <2>2. QED
    BY <1>2, <1>4, <2>1 DEF Downs, t
<1>5. QED
  BY <1>3, <1>4

\* The first is taken.
LEMMA HeadTells ==
    ASSUME NEW S, NEW s \in Seq(S), s # <<>>, NEW before \in Level
    PROVE  /\ Head(s) \in S /\ Tail(s) \in Seq(S) /\ Len(Tail(s)) = Len(s) - 1 /\ Len(s) \in Nat
           /\ HasUp(s) <=> HasUp(Tail(s)) \/ Head(s) = "Up"
           /\ LastLevel(Tail(s), Later(Head(s), before)) = LastLevel(s, before)
           /\ Spaced(s, before) => /\ Head(s) = "Down" => before = "Up"
                                   /\ Spaced(Tail(s), Later(Head(s), before))
<1> DEFINE t == Tail(s)
           x == Head(s)
<1>1. /\ x \in S /\ t \in Seq(S) /\ Len(t) = Len(s) - 1 /\ Len(s) \in Nat \ {0} /\ s[1] = x
      /\ \A i \in 1..Len(t) : t[i] = s[i + 1]
  BY HeadTailProperties, EmptySeq
<1> HIDE DEF t, x
<1>2. HasUp(s) <=> HasUp(t) \/ x = "Up"
  <2>1. ASSUME HasUp(s), x # "Up" PROVE HasUp(t)
    <3>1. PICK i \in 1..Len(s) : s[i] = "Up"
      BY <2>1 DEF HasUp
    <3>2. i - 1 \in 1..Len(t) /\ t[i - 1] = s[i]
      BY <1>1, <2>1, <3>1
    <3>3. QED
      BY <3>1, <3>2 DEF HasUp
  <2>2. ASSUME HasUp(t) \/ x = "Up" PROVE HasUp(s)
    BY <1>1, <2>2 DEF HasUp
  <2>3. QED
    BY <2>1, <2>2
<1>3. Open(s) <=> Open(t) \/ (x = "Down" /\ ~HasUp(t))
  <2>1. ASSUME Open(s), ~(x = "Down" /\ ~HasUp(t)) PROVE Open(t)
    <3>1. PICK i \in 1..Len(s) : s[i] = "Down" /\ \A j \in 1..Len(s) : j > i => s[j] # "Up"
      BY <2>1 DEF Open
    <3>2. i # 1
      <4> SUFFICES ASSUME i = 1 PROVE FALSE
        OBVIOUS
      <4>1. PICK k \in 1..Len(t) : t[k] = "Up"
        BY <1>1, <2>1, <3>1 DEF HasUp
      <4>2. QED
        BY <1>1, <3>1, <4>1
    <3>3. /\ i - 1 \in 1..Len(t) /\ t[i - 1] = "Down"
          /\ \A j \in 1..Len(t) : j > i - 1 => t[j] # "Up"
      BY <1>1, <3>1, <3>2
    <3>4. QED
      BY <3>3 DEF Open
  <2>2. ASSUME Open(t) PROVE Open(s)
    <3>1. PICK i \in 1..Len(t) : t[i] = "Down" /\ \A j \in 1..Len(t) : j > i => t[j] # "Up"
      BY <2>2 DEF Open
    <3>2. i + 1 \in 1..Len(s) /\ s[i + 1] = "Down"
      BY <1>1, <3>1
    <3>3. \A j \in 1..Len(s) : j > i + 1 => j - 1 \in 1..Len(t) /\ s[j] = t[j - 1] /\ j - 1 > i
      BY <1>1, <3>1
    <3>4. QED
      BY <3>1, <3>2, <3>3 DEF Open
  <2>3. ASSUME x = "Down", ~HasUp(t) PROVE Open(s)
    <3>1. \A j \in 1..Len(s) : j > 1 => j - 1 \in 1..Len(t) /\ s[j] = t[j - 1]
      BY <1>1
    <3>2. QED
      BY <1>1, <2>3, <3>1 DEF Open, HasUp
  <2>4. QED
    BY <2>1, <2>2, <2>3
<1>4. LastLevel(t, Later(x, before)) = LastLevel(s, before)
  BY <1>2, <1>3 DEF LastLevel, Later, Level
<1>5. ASSUME Spaced(s, before) PROVE (x = "Down" => before = "Up") /\ Spaced(t, Later(x, before))
  <2>1. x = "Down" => before = "Up"
    <3> SUFFICES ASSUME x = "Down", before = "Down" PROVE FALSE
      BY DEF Level
    <3>1. \E k \in 1..(1 - 1) : s[k] = "Up"
      BY <1>1, <1>5 DEF Spaced
    <3>2. QED
      BY <3>1
  <2>2. ASSUME Later(x, before) = "Down", NEW i \in 1..Len(t), t[i] = "Down"
        PROVE  \E k \in 1..(i - 1) : t[k] = "Up"
    <3>1. i + 1 \in 1..Len(s) /\ s[i + 1] = "Down"
      BY <1>1, <2>2
    <3>2. PICK k \in 1..(i + 1) : s[k] = "Up"
      <4>1. CASE x = "Down"
        BY <1>1, <1>5, <3>1, <4>1 DEF Spaced
      <4>2. CASE x # "Down"
        <5>1. before = "Down"
          BY <2>2, <4>2 DEF Later
        <5>2. PICK k \in 1..((i + 1) - 1) : s[k] = "Up"
          BY <1>5, <3>1, <5>1 DEF Spaced
        <5>3. QED
          BY <5>2
      <4>3. QED
        BY <4>1, <4>2
    <3>3. x # "Up" /\ k # i + 1
      BY <2>2, <3>1, <3>2 DEF Later, Level
    <3>4. k - 1 \in 1..(i - 1) /\ t[k - 1] = s[k]
      BY <1>1, <3>2, <3>3
    <3>5. QED
      BY <3>2, <3>4
  <2>3. ASSUME NEW i \in 1..Len(t), NEW j \in 1..Len(t), i < j, t[i] = "Down", t[j] = "Down"
        PROVE  \E k \in i..j : t[k] = "Up"
    <3>1. /\ i + 1 \in 1..Len(s) /\ j + 1 \in 1..Len(s) /\ i + 1 < j + 1
          /\ s[i + 1] = "Down" /\ s[j + 1] = "Down"
      BY <1>1, <2>3
    <3>2. PICK k \in (i + 1)..(j + 1) : s[k] = "Up"
      BY <1>5, <3>1 DEF Spaced
    <3>3. k - 1 \in i..j /\ t[k - 1] = s[k]
      BY <1>1, <2>3, <3>2
    <3>4. QED
      BY <3>2, <3>3
  <2>4. QED
    BY <2>1, <2>2, <2>3 DEF Spaced
<1>6. QED
  BY <1>1, <1>2, <1>4, <1>5 DEF t, x

\* The first i are taken.
LEMMA RestTells ==
    ASSUME NEW S, NEW s \in Seq(S), NEW i \in 0..Len(s), NEW before \in Level
    PROVE  LET t == SubSeq(s, i + 1, Len(s))
           IN  /\ t \in Seq(S) /\ Len(t) = Len(s) - i
               /\ \A j \in 1..Len(t) : t[j] = s[j + i]
               /\ LastLevel(t, "Up") = "Up" \/ LastLevel(s, before) = "Down"
               /\ Spaced(s, before) => Spaced(t, "Up")
<1> DEFINE t == SubSeq(s, i + 1, Len(s))
<1>1. Len(s) \in Nat /\ \A j \in (i + 1)..Len(s) : s[j] \in S
  BY LenProperties, ElementOfSeq
<1>2. /\ t \in Seq(S) /\ Len(t) = IF i + 1 <= Len(s) THEN Len(s) - (i + 1) + 1 ELSE 0
      /\ \A j \in 1..(Len(s) - (i + 1) + 1) : t[j] = s[(i + 1) + j - 1]
  BY <1>1, SubSeqProperties
<1> HIDE DEF t
<1>3. t \in Seq(S) /\ Len(t) = Len(s) - i /\ \A j \in 1..Len(t) : t[j] = s[j + i]
  BY <1>1, <1>2, SMTT(30)
<1>4. Open(t) => Open(s)
  <2> SUFFICES ASSUME Open(t) PROVE Open(s)
    OBVIOUS
  <2>1. PICK k \in 1..Len(t) : t[k] = "Down" /\ \A j \in 1..Len(t) : j > k => t[j] # "Up"
    BY DEF Open
  <2>2. k + i \in 1..Len(s) /\ s[k + i] = "Down"
    BY <1>1, <1>3, <2>1
  <2>3. \A j \in 1..Len(s) : j > k + i => j - i \in 1..Len(t) /\ s[j] = t[j - i] /\ j - i > k
    BY <1>1, <1>3, <2>1
  <2>4. QED
    BY <2>1, <2>2, <2>3 DEF Open
<1>5. LastLevel(t, "Up") = "Up" \/ LastLevel(s, before) = "Down"
  BY <1>4 DEF LastLevel
<1>6. Spaced(s, before) => Spaced(t, "Up")
  <2> SUFFICES ASSUME Spaced(s, before),
                      NEW a \in 1..Len(t), NEW b \in 1..Len(t), a < b, t[a] = "Down", t[b] = "Down"
               PROVE  \E k \in a..b : t[k] = "Up"
    BY DEF Spaced
  <2>1. /\ a + i \in 1..Len(s) /\ b + i \in 1..Len(s) /\ a + i < b + i
        /\ s[a + i] = "Down" /\ s[b + i] = "Down"
    BY <1>1, <1>3
  <2>2. PICK k \in (a + i)..(b + i) : s[k] = "Up"
    BY <2>1 DEF Spaced
  <2>3. k - i \in a..b /\ t[k - i] = s[k]
    BY <1>1, <1>3, <2>2, SMTT(30)
  <2>4. QED
    BY <2>2, <2>3
<1>7. QED
  BY <1>3, <1>5, <1>6 DEF t

\* What is taken is not counted again.
LEMMA RestCounts ==
    ASSUME NEW S, NEW s \in Seq(S), NEW i \in 0..Len(s), NEW t \in Seq(S),
           Len(t) = Len(s) - i, \A j \in 1..Len(t) : t[j] = s[j + i]
    PROVE  Downs(t) <= Downs(s) - (IF i = 1 /\ s[1] = "Down" THEN 1 ELSE 0)
<1> DEFINE left == IF i = 1 THEN Places(s) \ {1} ELSE Places(s)
           shift == [j \in Places(t) |-> j + i]
<1>1. IsFiniteSet(Places(s)) /\ Downs(s) \in Nat /\ Len(s) \in Nat /\ Len(t) \in Nat
  BY PlacesFinite, LenProperties
<1>2. /\ IsFiniteSet(left)
      /\ Cardinality(left) = Downs(s) - (IF i = 1 /\ s[1] = "Down" THEN 1 ELSE 0)
  <2>1. CASE i = 1
    <3>1. 1 \in Places(s) <=> s[1] = "Down"
      BY <1>1, <2>1 DEF Places
    <3>2. QED
      BY <1>1, <2>1, <3>1, FS_RemoveElement, SMTT(30) DEF Downs
  <2>2. CASE i # 1
    BY <1>1, <2>2 DEF Downs
  <2>3. QED
    BY <2>1, <2>2
<1>3. \A j \in Places(t) : j + i \in left
  BY <1>1, SMTT(30) DEF Places
<1> HIDE DEF left
<1>4. shift \in Injection(Places(t), left)
  <2>1. shift \in [Places(t) -> left]
    BY <1>3
  <2>2. \A a, b \in Places(t) : shift[a] = shift[b] => a = b
    BY <1>1 DEF Places
  <2>3. QED
    BY <2>1, <2>2 DEF Injection, IsInjective
<1> HIDE DEF shift
<1>5. Cardinality(Places(t)) <= Cardinality(left)
  BY <1>2, <1>4, FS_Injection
<1>6. QED
  BY <1>2, <1>5 DEF Downs

\* What came before matters less when it was a release.
LEMMA AfterRelease ==
    ASSUME NEW s, NEW before \in Level, NEW lower \in Level, lower = "Down" => before = "Down"
    PROVE  /\ LastLevel(s, before) \in Level
           /\ LastLevel(s, lower) = "Down" => LastLevel(s, before) = "Down"
           /\ Spaced(s, before) => Spaced(s, lower)
  BY DEF LastLevel, Spaced, Level

----------------------------------------------------------------------------
(* The power button *)

Polling == [alive : BOOLEAN, seeded : BOOLEAN, sampled : BOOLEAN, confirmed : Level,
            pending : BOOLEAN, age : 0..Debounce, waiting : Level \cup {Absent}]
GpioStates == [at : {"Read", "Forward", "Lost", "Reconcile"}, signal : Signal \cup {Absent},
               then : {"Read", "Lost", Absent}]
TaskStates == [at : {"Idle", "Timing", "Sending", "Held"}, left : 0..Hold,
               event : Events \cup {Absent}]

PowerShape ==
    /\ poll \in Polling /\ gpio \in GpioStates /\ task \in TaskStates
    /\ {pin, level} \subseteq Level /\ {room, prompt} \subseteq BOOLEAN
    /\ edges \in Seq(Level \cup {"Other"}) /\ Len(edges) <= EdgeCap
    /\ signals \in Seq(Signal) /\ Len(signals) <= SignalCap
    /\ gpio.at = "Forward" <=> gpio.signal \in Signal
    /\ gpio.at = "Forward" => gpio.then \in {"Read", "Lost"}
    /\ gpio.at = "Lost" \/ gpio.then = "Lost" => ~poll.alive
    /\ task.at = "Sending" <=> task.event \in Events
    /\ longest \in 0..Hold /\ presses \in 0..MaxPresses /\ losses \in 0..MaxLosses /\ acted \in Nat

\* Where presses are that have not acted: with power_button_task, in the queues, and with
\* the poller, which may also still confirm one.  A lost stream may tell one of its own.
TaskHas == IF task.at \in {"Timing", "Sending"} THEN 1 ELSE 0
GpioHas == IF (gpio.at = "Forward" /\ gpio.signal = "Down") \/ gpio.at = "Reconcile" THEN 1 ELSE 0
PollHas == IF poll.waiting = "Down" THEN 1 ELSE 0
PollMay == IF ~poll.alive \/ (poll.seeded /\ pin = "Down" /\ poll.confirmed = "Up") THEN 1 ELSE 0

PressesAreSpent ==
    acted + TaskHas + Downs(signals) + GpioHas + Downs(edges) + PollHas + PollMay
        <= presses + losses

\* The last level told before the signals, the forwarded one, the edges, and all of them.
BeforeSignals == IF task.at = "Timing" THEN "Down" ELSE "Up"
BeforeGpio == LastLevel(signals, BeforeSignals)
BeforeEdges == IF gpio.at = "Forward" THEN Later(gpio.signal, BeforeGpio) ELSE BeforeGpio
LastTold == LastLevel(edges, BeforeEdges)

\* Presses and releases alternate on their way, and the poller's level ends the line.
Alternates ==
    /\ Spaced(signals, BeforeSignals) /\ Spaced(edges, BeforeEdges)
    /\ gpio.at = "Forward" /\ gpio.signal = "Down" => BeforeGpio = "Up"
    /\ poll.waiting = "Down" => LastTold = "Up" /\ poll.confirmed = "Down"
    /\ poll.waiting = Absent /\ poll.confirmed = "Up" => LastTold = "Up"

UpOnItsWay == HasUp(signals) \/ (gpio.at = "Forward" /\ gpio.signal = "Up") \/ HasUp(edges)

\* The timer does not run out before a release that came in time is among the signals.
ReleaseIsInTime ==
    task.at = "Timing" =>
        /\ \/ HasUp(signals)
           \/ longest + task.left >= Hold
           \/ task.left >= 1 /\ (UpOnItsWay \/ poll.waiting = "Up")
        /\ ~UpOnItsWay /\ task.left < Hold /\ ~poll.sampled => gpio.at = "Read" /\ edges = <<>>
        /\ ~UpOnItsWay /\ task.left < Hold /\ poll.waiting = "Up" => task.left >= 1 /\ ~poll.sampled

\* The stream has not been lost.
Undisturbed ==
    /\ poll.alive /\ poll.seeded /\ gpio.at \in {"Read", "Forward"}
    /\ gpio.at = "Forward" => gpio.then = "Read" /\ gpio.signal \in Level
    /\ signals \in Seq(Level)

PowerSound ==
    /\ PowerShape /\ PressesAreSpent
    /\ losses = 0 => Undisturbed /\ Alternates /\ ReleaseIsInTime

LEMMA PowerConstants ==
    /\ Hold \in Nat \ {0} /\ Debounce \in Nat \ {0} /\ EdgeCap \in Nat \ {0}
    /\ SignalCap \in Nat \ {0} /\ MaxPresses \in Nat \ {0} /\ MaxLosses \in Nat
  BY PowerButtonAssumption

LEMMA OnceIsTrue == PowerShape /\ PressesAreSpent => PowerTypeOK /\ EachPressActsOnce
<1> SUFFICES ASSUME PowerShape, PressesAreSpent PROVE PowerTypeOK /\ EachPressActsOnce
  OBVIOUS
<1>1. Downs(signals) \in Nat /\ Downs(edges) \in Nat
  BY PlacesFinite DEF PowerShape
<1>2. EachPressActsOnce /\ acted <= presses + losses
  <2>1. /\ GpioHas \in {0, 1} /\ PollHas \in {0, 1} /\ PollMay \in {0, 1} /\ TaskHas \in {0, 1}
        /\ (IF task.at = "Sending" THEN 1 ELSE 0) \in {0, TaskHas}
    BY DEF TaskHas, GpioHas, PollHas, PollMay
  <2>2. acted \in Nat /\ presses \in Nat /\ losses \in Nat /\ PressesAreSpent
    BY PowerConstants DEF PowerShape
  <2> HIDE DEF GpioHas, PollHas, PollMay, TaskHas
  <2>3. acted + TaskHas <= presses + losses
    BY <1>1, <2>1, <2>2 DEF PressesAreSpent
  <2>4. QED
    BY <2>1, <2>2, <2>3 DEF EachPressActsOnce
<1>3. acted \in 0..(MaxPresses + MaxLosses)
  BY <1>2, PowerConstants DEF PowerShape
<1>4. PowerTypeOK
  BY <1>3 DEF PowerShape, PowerTypeOK, Polling, GpioStates, TaskStates
<1>5. QED
  BY <1>2, <1>4

LEMMA InitPower == PowerInit => PowerSound
<1> SUFFICES ASSUME PowerInit PROVE PowerSound
  OBVIOUS
<1>1. /\ <<>> \in Seq(Level \cup {"Other"}) /\ <<>> \in Seq(Signal) /\ <<>> \in Seq(Level)
      /\ Len(<<>>) = 0
  BY EmptySeq
<1>2. /\ poll \in Polling /\ poll = Poller(pin) /\ gpio \in GpioStates /\ task \in TaskStates
      /\ {pin, level} \subseteq Level /\ {room, prompt} \subseteq BOOLEAN
  BY PowerConstants
     DEF PowerInit, Polling, GpioStates, TaskStates, Poller, Gpio, Task, Level, Signal, Events
<1>3. /\ gpio.at = "Read" /\ gpio.signal = Absent /\ gpio.then = Absent /\ task.at = "Idle"
      /\ task.event = Absent /\ Absent \notin Signal /\ Absent \notin Events
  BY DEF PowerInit, Gpio, Task, Absent, Signal, Level, Events
<1>4. PowerShape
  BY <1>1, <1>2, <1>3, PowerConstants DEF PowerInit, PowerShape, Absent
<1>5. PressesAreSpent
  <2>1. Downs(<<>>) = 0
    BY EmptyTells DEF Level
  <2>2. TaskHas = 0 /\ GpioHas = 0 /\ PollHas = 0 /\ PollMay = 0
    BY <1>2, <1>3 DEF TaskHas, GpioHas, PollHas, PollMay, Poller, Absent
  <2>3. QED
    BY <2>1, <2>2, <1>2, PowerConstants DEF PowerInit, PressesAreSpent, Level
<1>6. Undisturbed
  BY <1>1, <1>2, <1>3 DEF PowerInit, Undisturbed, Poller
<1>7. Alternates
  <2>1. BeforeSignals = "Up" /\ BeforeGpio = "Up" /\ BeforeEdges = "Up" /\ LastTold = "Up"
    BY <1>3, EmptyTells
       DEF PowerInit, BeforeSignals, BeforeGpio, BeforeEdges, LastTold, Level
  <2>2. Spaced(<<>>, "Up")
    BY EmptyTells DEF Level
  <2>3. QED
    BY <1>2, <1>3, <2>1, <2>2 DEF PowerInit, Alternates, Poller, Absent
<1>8. ReleaseIsInTime
  BY <1>3 DEF ReleaseIsInTime
<1>9. QED
  BY <1>4, <1>5, <1>6, <1>7, <1>8 DEF PowerSound

\* The fields of the poller that a sample changes.
LEMMA PollerFields ==
    ASSUME NEW q \in Polling
    PROVE  /\ [q EXCEPT !.pending = FALSE, !.age = 0] \in Polling
           /\ [q EXCEPT !.pending = TRUE] \in Polling
           /\ \A l \in Level :
                 [q EXCEPT !.confirmed = l, !.pending = FALSE, !.age = 0] \in Polling
<1>1. 0 \in 0..Debounce
  BY PowerConstants
<1>2. [q EXCEPT !.pending = FALSE, !.age = 0] \in Polling
  BY <1>1, Zenon DEF Polling
<1>3. [q EXCEPT !.pending = TRUE] \in Polling
  BY Zenon DEF Polling
<1>4. ASSUME NEW l \in Level
      PROVE  [q EXCEPT !.confirmed = l, !.pending = FALSE, !.age = 0] \in Polling
  BY <1>1, Zenon DEF Polling
<1>5. QED
  BY <1>2, <1>3, <1>4

LEMMA PollerKeeps ==
    ASSUME NEW q \in Polling,
           NEW r \in {[q EXCEPT !.pending = FALSE, !.age = 0], [q EXCEPT !.pending = TRUE], q}
    PROVE  /\ r.waiting = q.waiting /\ r.alive = q.alive /\ r.seeded = q.seeded
           /\ r.sampled = q.sampled /\ r.confirmed = q.confirmed
  BY DEF Polling

\* What a sample leaves: a level that waits is retried first, and a level that is
\* confirmed is sent, waits, or is merged.
LEMMA SampleTells ==
    ASSUME PowerShape, Sample
    PROVE  \E e \in Seq(Level \cup {"Other"}), w \in Level \cup {Absent} :
             /\ \/ e = edges /\ w = poll.waiting /\ (w = Absent \/ Len(edges) >= EdgeCap)
                \/ /\ e = Append(edges, poll.waiting) /\ w = Absent
                   /\ poll.waiting \in Level /\ Len(edges) < EdgeCap
             /\ Len(e) <= EdgeCap
             /\ \/ edges' = e /\ poll'.waiting = w /\ poll'.confirmed = poll.confirmed
                \/ /\ poll.confirmed # pin /\ poll'.confirmed = pin
                   /\ \/ /\ w \in Level /\ edges' = e
                         /\ poll'.waiting = IF w = "Down" \/ pin = "Up" THEN pin ELSE w
                      \/ /\ w = Absent /\ Len(e) < EdgeCap
                         /\ edges' = Append(e, pin) /\ poll'.waiting = Absent
                      \/ w = Absent /\ Len(e) >= EdgeCap /\ edges' = e /\ poll'.waiting = pin
             /\ poll' \in Polling /\ poll'.alive = poll.alive /\ poll'.seeded = poll.seeded
             /\ poll'.sampled = TRUE
             /\ ~poll.sampled
<1> DEFINE retries == poll.waiting # Absent /\ Len(edges) < EdgeCap
           e == IF retries THEN Append(edges, poll.waiting) ELSE edges
           p == [poll EXCEPT !.sampled = TRUE, !.waiting = IF retries THEN Absent ELSE @]
           w == p.waiting
<1>1. /\ poll \in Polling /\ pin \in Level /\ edges \in Seq(Level \cup {"Other"})
      /\ Len(edges) <= EdgeCap /\ Len(edges) \in Nat /\ EdgeCap \in Nat \ {0}
      /\ Absent \notin Level /\ Debounce \in Nat
  BY PowerConstants, LenProperties DEF PowerShape, Absent, Level
<1>2. /\ p \in Polling /\ w = IF retries THEN Absent ELSE poll.waiting
      /\ p.alive = poll.alive /\ p.seeded = poll.seeded /\ p.sampled = TRUE
      /\ p.confirmed = poll.confirmed
  BY <1>1 DEF Polling
<1>3. e \in Seq(Level \cup {"Other"}) /\ Len(e) <= EdgeCap
  <2>1. CASE retries
    <3>1. poll.waiting \in Level \cup {"Other"}
      BY <1>1, <2>1 DEF Polling
    <3>2. e \in Seq(Level \cup {"Other"}) /\ Len(e) = Len(edges) + 1
      BY <1>1, <2>1, <3>1, AppendProperties
    <3>3. QED
      BY <1>1, <2>1, <3>2
  <2>2. CASE ~retries
    BY <1>1, <2>2
  <2>3. QED
    BY <2>1, <2>2
<1>4. SampleAfterRetry(p, e) /\ ~poll.sampled
  BY DEF Sample
<1>5. /\ \/ e = edges /\ w = poll.waiting /\ (w = Absent \/ Len(edges) >= EdgeCap)
         \/ /\ e = Append(edges, poll.waiting) /\ w = Absent
            /\ poll.waiting \in Level /\ Len(edges) < EdgeCap
      /\ w \in Level \cup {Absent}
  BY <1>1, <1>2 DEF Polling
<1> HIDE DEF e, p, w, retries
<1>6. CASE /\ edges' = e /\ poll' \in {[p EXCEPT !.pending = FALSE, !.age = 0],
                                       [p EXCEPT !.pending = TRUE], p}
  <2>1. /\ poll' \in Polling /\ poll'.waiting = p.waiting /\ poll'.confirmed = poll.confirmed
        /\ poll'.alive = poll.alive /\ poll'.seeded = poll.seeded /\ poll'.sampled = TRUE
    <3>1. /\ poll' \in Polling /\ poll'.waiting = p.waiting /\ poll'.confirmed = p.confirmed
          /\ poll'.alive = p.alive /\ poll'.seeded = p.seeded /\ poll'.sampled = p.sampled
      BY <1>2, <1>6, PollerFields, PollerKeeps
    <3>2. QED
      BY <1>2, <3>1
  <2>2. p.waiting = w
    BY DEF w
  <2>3. QED
    BY <1>3, <1>4, <1>5, <1>6, <2>1, <2>2
<1>7. CASE pin # p.confirmed /\ Deliver(p, e, [p EXCEPT !.confirmed = pin, !.pending = FALSE, !.age = 0])
  <2> DEFINE change == [p EXCEPT !.confirmed = pin, !.pending = FALSE, !.age = 0]
  <2>1. /\ change \in Polling /\ change.waiting = w /\ change.confirmed = pin
        /\ change.alive = poll.alive /\ change.seeded = poll.seeded /\ change.sampled = TRUE
    <3>1. change \in Polling
      BY <1>1, <1>2, PollerFields
    <3>2. change = [p EXCEPT !.confirmed = pin, !.pending = FALSE, !.age = 0]
      OBVIOUS
    <3> HIDE DEF change
    <3>3. /\ change.waiting = p.waiting /\ change.confirmed = pin
          /\ change.alive = p.alive /\ change.seeded = p.seeded /\ change.sampled = p.sampled
      <4>1. p \in Polling
        BY <1>2
      <4>2. QED
        BY <3>2, <4>1 DEF Polling
    <3>4. QED
      BY <1>2, <3>1, <3>3 DEF w
  <2>2. \A l \in Level \cup {Absent} :
           LET q == [change EXCEPT !.waiting = l]
           IN  /\ q \in Polling /\ q.waiting = l /\ q.confirmed = pin
               /\ q.alive = poll.alive /\ q.seeded = poll.seeded /\ q.sampled = TRUE
    BY <2>1 DEF Polling
  <2>3. p.waiting = w /\ Deliver(p, e, change)
    BY <1>7 DEF w
  <2> HIDE DEF change
  <2>4. CASE w # Absent
    <3> DEFINE l == IF w = "Down" \/ pin = "Up" THEN pin ELSE w
    <3>1. edges' = e /\ poll' = [change EXCEPT !.waiting = l] /\ l \in Level /\ w \in Level
      BY <1>1, <1>5, <2>3, <2>4 DEF Deliver
    <3> HIDE DEF l
    <3>2. /\ poll' \in Polling /\ poll'.waiting = l /\ poll'.confirmed = pin
          /\ poll'.alive = poll.alive /\ poll'.seeded = poll.seeded /\ poll'.sampled = TRUE
      BY <2>2, <3>1
    <3>3. poll'.waiting = IF w = "Down" \/ pin = "Up" THEN pin ELSE w
      BY <3>2 DEF l
    <3>4. QED
      BY <1>2, <1>3, <1>4, <1>5, <1>7, <3>1, <3>2, <3>3
  <2>5. CASE w = Absent /\ Len(e) < EdgeCap
    BY <1>2, <1>3, <1>4, <1>5, <1>7, <2>1, <2>3, <2>5 DEF Deliver
  <2>6. CASE w = Absent /\ ~(Len(e) < EdgeCap)
    <3>1. edges' = e /\ poll' = [change EXCEPT !.waiting = pin]
      BY <2>3, <2>6 DEF Deliver
    <3>2. /\ poll' \in Polling /\ poll'.waiting = pin /\ poll'.confirmed = pin
          /\ poll'.alive = poll.alive /\ poll'.seeded = poll.seeded /\ poll'.sampled = TRUE
      BY <1>1, <2>2, <3>1
    <3>3. Len(e) >= EdgeCap
      BY <1>1, <1>3, <2>6, LenProperties
    <3>4. QED
      BY <1>2, <1>3, <1>4, <1>5, <1>7, <2>6, <3>1, <3>2, <3>3
  <2>7. QED
    BY <2>4, <2>5, <2>6
<1>8. QED
  BY <1>4, <1>6, <1>7 DEF SampleAfterRetry

\* The signals that are left when the timer has run out.
LEMMA TimerTells ==
    ASSUME PowerShape, TimerFires
    PROVE  /\ task.at = "Timing" /\ task.left = 0
           /\ UNCHANGED <<pin, poll, level, edges, gpio, room, prompt, presses, acted, longest,
                          losses>>
           /\ \/ /\ signals' = <<>> /\ task' = Sending("PowerButtonHeld")
                 /\ \A i \in 1..Len(signals) : signals[i] = "Down"
              \/ \E i \in 1..Len(signals) :
                   /\ signals' = SubSeq(signals, i + 1, Len(signals))
                   /\ task' \in {Sending("PowerButtonPressed"), Task("Idle")}
                   /\ signals[i] # "Down"
<1>1. DOMAIN signals = 1..Len(signals) /\ Len(signals) \in Nat
  BY LenProperties DEF PowerShape
<1>2. QED
  BY <1>1 DEF TimerFires, TaskStays

\* What the tasks become.
LEMMA TaskFields ==
    /\ \A a \in {"Idle", "Held"} :
          Task(a) \in TaskStates /\ Task(a).at = a /\ Task(a).event = Absent
    /\ LET t == [Task("Timing") EXCEPT !.left = Hold]
       IN  t \in TaskStates /\ t.at = "Timing" /\ t.event = Absent /\ t.left = Hold
    /\ \A e \in Events :
          Sending(e) \in TaskStates /\ Sending(e).at = "Sending" /\ Sending(e).event = e
    /\ Absent \notin Events
<1>1. 0 \in 0..Hold /\ Hold \in 0..Hold
  BY PowerConstants
<1>2. QED
  BY <1>1 DEF Task, Sending, TaskStates, Absent, Events

LEMMA GpioFields ==
    /\ \A a \in {"Read", "Lost", "Reconcile"} :
          /\ Gpio(a) \in GpioStates /\ Gpio(a).at = a /\ Gpio(a).signal = Absent
          /\ Gpio(a).then = Absent
    /\ \A x \in Signal, n \in {"Read", "Lost"} :
          /\ Forward(x, n) \in GpioStates /\ Forward(x, n).at = "Forward"
          /\ Forward(x, n).signal = x /\ Forward(x, n).then = n
    /\ Absent \notin Signal /\ Absent # "Lost"
  BY DEF Gpio, Forward, GpioStates, Absent, Signal, Level

LEMMA SeedFields ==
    ASSUME poll \in Polling, pin \in Level
    PROVE  LET seed == [Poller(pin) EXCEPT !.sampled = poll.sampled]
               new == [Poller("Up") EXCEPT !.seeded = FALSE, !.sampled = poll.sampled]
           IN  /\ seed \in Polling /\ seed.alive /\ seed.seeded /\ seed.waiting = Absent
               /\ seed.confirmed = pin
               /\ new \in Polling /\ new.alive /\ ~new.seeded /\ new.waiting = Absent
<1>1. 0 \in 0..Debounce /\ poll.sampled \in BOOLEAN /\ "Up" \in Level
  BY PowerConstants DEF Polling, Level
<1>2. [Poller(pin) EXCEPT !.sampled = poll.sampled] \in Polling
  BY <1>1 DEF Polling, Poller
<1>3. [Poller("Up") EXCEPT !.seeded = FALSE, !.sampled = poll.sampled] \in Polling
  BY <1>1 DEF Polling, Poller
<1>4. QED
  BY <1>1, <1>2, <1>3 DEF Poller

\* The sequences that the tasks leave.
LEMMA QueuesShrink ==
    ASSUME NEW S, NEW s \in Seq(S), s # <<>>
    PROVE  /\ Head(s) \in S /\ Tail(s) \in Seq(S) /\ Len(Tail(s)) = Len(s) - 1 /\ Len(s) \in Nat
           /\ Downs(Tail(s)) <= Downs(s) - (IF Head(s) = "Down" THEN 1 ELSE 0)
           /\ Downs(s) \in Nat /\ Downs(Tail(s)) \in Nat
<1>1. /\ Head(s) \in S /\ Tail(s) \in Seq(S) /\ Len(Tail(s)) = Len(s) - 1
      /\ Len(s) \in Nat \ {0} /\ Head(s) = s[1]
      /\ \A i \in 1..Len(Tail(s)) : Tail(s)[i] = s[i + 1]
  BY HeadTailProperties, EmptySeq
<1>2. 1 \in 0..Len(s)
  BY <1>1
<1>3. Downs(Tail(s)) <= Downs(s) - (IF 1 = 1 /\ s[1] = "Down" THEN 1 ELSE 0)
  BY <1>1, <1>2, RestCounts
<1>4. QED
  BY <1>1, <1>3, PlacesFinite

LEMMA SignalsKept ==
    ASSUME PowerShape, NEW i \in 1..Len(signals)
    PROVE  LET rest == SubSeq(signals, i + 1, Len(signals))
           IN  rest \in Seq(Signal) /\ Len(rest) <= SignalCap /\ Downs(rest) <= Downs(signals)
               /\ Downs(rest) \in Nat
<1> DEFINE rest == SubSeq(signals, i + 1, Len(signals))
<1>1. signals \in Seq(Signal) /\ Len(signals) \in Nat /\ Len(signals) <= SignalCap
      /\ SignalCap \in Nat /\ "Up" \in Level /\ i \in 0..Len(signals)
  BY LenProperties, PowerConstants DEF PowerShape, Level
<1>2. /\ rest \in Seq(Signal) /\ Len(rest) = Len(signals) - i
      /\ \A j \in 1..Len(rest) : rest[j] = signals[j + i]
  BY <1>1, RestTells
<1> HIDE DEF rest
<1>3. Downs(rest) <= Downs(signals) - (IF i = 1 /\ signals[1] = "Down" THEN 1 ELSE 0)
  BY <1>1, <1>2, RestCounts
<1>4. Downs(rest) \in Nat /\ Downs(signals) \in Nat
  BY <1>1, <1>2, PlacesFinite
<1>5. QED
  BY <1>1, <1>2, <1>3, <1>4 DEF rest

LEMMA PowerShapeKept == PowerShape /\ [PowerNext]_powerVars => PowerShape'
<1> SUFFICES ASSUME PowerShape, [PowerNext]_powerVars PROVE PowerShape'
  OBVIOUS
<1> USE PowerConstants
<1>0. /\ Len(edges) \in Nat /\ Len(signals) \in Nat /\ "Other" \in Level \cup {"Other"}
      /\ {"Down", "Up"} \subseteq Level /\ Level \subseteq Signal /\ "Interrupted" \in Signal
  BY LenProperties DEF PowerShape, Level, Signal
<1>1. CASE Press \/ Release
  BY <1>0, <1>1 DEF PowerShape, Press, Release
<1>2. CASE OtherEdge
  <2>1. edges' \in Seq(Level \cup {"Other"}) /\ Len(edges') = Len(edges) + 1
    BY <1>0, <1>2, AppendProperties DEF PowerShape, OtherEdge
  <2>2. QED
    BY <1>0, <1>2, <2>1 DEF PowerShape, OtherEdge
<1>3. CASE Wedge
  BY <1>3 DEF PowerShape, Wedge
<1>4. CASE Seed
  <2>1. poll' \in Polling /\ poll'.alive /\ poll.alive
    BY <1>4, SeedFields DEF PowerShape, Seed
  <2>2. QED
    BY <1>4, <2>1 DEF PowerShape, Seed
<1>5. CASE Sample
  <2>1. /\ poll' \in Polling /\ poll'.alive = poll.alive /\ level' = pin
        /\ UNCHANGED <<pin, gpio, signals, task, room, prompt, presses, acted, longest, losses>>
    BY <1>5, SampleTells DEF Sample
  <2>2. edges' \in Seq(Level \cup {"Other"}) /\ Len(edges') <= EdgeCap
    <3>1. PICK e \in Seq(Level \cup {"Other"}) :
             Len(e) <= EdgeCap /\ (edges' = e \/ (Len(e) < EdgeCap /\ edges' = Append(e, pin)))
      BY <1>5, SampleTells
    <3>2. Len(e) \in Nat /\ pin \in Level \cup {"Other"}
      BY LenProperties DEF PowerShape
    <3>3. Append(e, pin) \in Seq(Level \cup {"Other"}) /\ Len(Append(e, pin)) = Len(e) + 1
      BY <3>2, AppendProperties
    <3>4. QED
      BY <3>1, <3>2, <3>3
  <2>3. QED
    BY <2>1, <2>2 DEF PowerShape
<1>6. CASE StreamLost
  <2>1. poll' \in Polling /\ ~poll'.alive
    BY <1>6 DEF PowerShape, StreamLost, Polling
  <2>2. QED
    BY <1>6, <2>1 DEF PowerShape, StreamLost
<1>7. CASE GpioReads
  <2>1. /\ gpio.at = "Read" /\ edges # <<>> /\ edges' = Tail(edges)
        /\ gpio' = IF Head(edges) = "Other" THEN gpio ELSE Forward(Head(edges), "Read")
        /\ UNCHANGED <<pin, poll, level, signals, task, room, prompt, presses, acted, longest, losses>>
    BY <1>7 DEF GpioReads, GpioStays
  <2>2. /\ Head(edges) \in Level \cup {"Other"} /\ edges' \in Seq(Level \cup {"Other"})
        /\ Len(edges') = Len(edges) - 1
    BY <2>1, QueuesShrink DEF PowerShape
  <2>3. CASE Head(edges) = "Other"
    BY <1>0, <2>1, <2>2, <2>3 DEF PowerShape
  <2>4. CASE Head(edges) # "Other"
    <3>1. Head(edges) \in Signal
      BY <1>0, <2>2, <2>4
    <3>2. /\ gpio' \in GpioStates /\ gpio'.at = "Forward" /\ gpio'.signal \in Signal
          /\ gpio'.then = "Read"
      BY <2>1, <2>4, <3>1, GpioFields
    <3>3. QED
      BY <1>0, <2>1, <2>2, <3>2 DEF PowerShape
  <2>5. QED
    BY <2>3, <2>4
<1>8. CASE GpioForwards
  <2>1. /\ gpio.at = "Forward" /\ Len(signals) < SignalCap
        /\ signals' = Append(signals, gpio.signal) /\ gpio' = Gpio(gpio.then)
        /\ UNCHANGED <<pin, poll, level, edges, task, room, prompt, presses, acted, longest, losses>>
    BY <1>8 DEF GpioForwards, GpioStays
  <2>2. gpio.signal \in Signal /\ gpio.then \in {"Read", "Lost"}
    BY <2>1 DEF PowerShape
  <2>3. signals' \in Seq(Signal) /\ Len(signals') = Len(signals) + 1
    BY <2>1, <2>2, AppendProperties DEF PowerShape
  <2>4. /\ gpio' \in GpioStates /\ gpio'.at = gpio.then /\ gpio'.signal \notin Signal
        /\ gpio'.then # "Lost"
    BY <2>1, <2>2, GpioFields
  <2>5. QED
    BY <1>0, <2>1, <2>2, <2>3, <2>4 DEF PowerShape
<1>9. CASE GpioLoses
  <2>1. /\ gpio' \in GpioStates /\ gpio'.at = "Forward" /\ gpio'.signal \in Signal
        /\ gpio'.then = "Lost" /\ ~poll.alive
    BY <1>0, <1>9, GpioFields DEF GpioLoses
  <2>2. QED
    BY <1>9, <2>1 DEF PowerShape, GpioLoses, GpioStays
<1>10. CASE Reconcile
  <2>1. /\ gpio' \in GpioStates /\ gpio'.at = "Forward" /\ gpio'.signal \in Signal
        /\ gpio'.then = "Read"
    BY <1>0, <1>10, GpioFields DEF Reconcile, PowerShape
  <2>2. QED
    BY <1>10, <2>1 DEF PowerShape, Reconcile, GpioStays
<1>11. CASE Rebuild
  <2>1. /\ gpio' \in GpioStates /\ gpio'.at = "Reconcile" /\ gpio'.signal \notin Signal
        /\ gpio'.then # "Lost"
    BY <1>11, GpioFields DEF Rebuild
  <2>2. poll' \in Polling
    BY <1>11, SeedFields DEF Rebuild, PowerShape
  <2>3. QED
    BY <1>11, <2>1, <2>2 DEF PowerShape, Rebuild
<1>12. CASE TaskTakes
  <2>1. signals' \in Seq(Signal) /\ Len(signals') = Len(signals) - 1
    BY <1>12, QueuesShrink DEF PowerShape, TaskTakes
  <2>2. /\ task' \in TaskStates /\ (task'.at = "Sending" <=> task'.event \in Events)
    BY <1>12, TaskFields DEF PowerShape, TaskTakes
  <2>3. QED
    BY <1>0, <1>12, <2>1, <2>2 DEF PowerShape, TaskTakes, TaskStays
<1>13. CASE TaskHears
  <2>1. signals' \in Seq(Signal) /\ Len(signals') = Len(signals) - 1 /\ Head(signals) \in Signal
    BY <1>13, QueuesShrink DEF PowerShape, TaskHears
  <2>2. task' \in {task, Sending("PowerButtonPressed"), Task("Idle")}
    BY <1>13, <2>1 DEF TaskHears, Signal, Level
  <2>3. /\ task' \in TaskStates /\ (task'.at = "Sending" <=> task'.event \in Events)
    BY <2>2, TaskFields DEF PowerShape, Events
  <2>4. UNCHANGED <<pin, poll, level, edges, gpio, room, prompt, presses, acted, longest, losses>>
    BY <1>13 DEF TaskHears, TaskStays
  <2>5. Len(signals') <= SignalCap
    BY <1>0, <2>1 DEF PowerShape
  <2>6. QED
    BY <2>1, <2>3, <2>4, <2>5 DEF PowerShape
<1>14. CASE TimerFires
  <2>1. signals' \in Seq(Signal) /\ Len(signals') <= SignalCap
    <3>1. CASE signals' = <<>>
      <4>1. <<>> \in Seq(Signal) /\ Len(<<>>) = 0
        BY EmptySeq
      <4>2. QED
        BY <3>1, <4>1
    <3>2. CASE \E i \in 1..Len(signals) : signals' = SubSeq(signals, i + 1, Len(signals))
      BY <3>2, SignalsKept
    <3>3. QED
      BY <1>14, <3>1, <3>2, TimerTells
  <2>2. task' \in {Sending("PowerButtonHeld"), Sending("PowerButtonPressed"), Task("Idle")}
    BY <1>14, TimerTells
  <2>3. /\ task' \in TaskStates /\ (task'.at = "Sending" <=> task'.event \in Events)
    BY <2>2, TaskFields DEF Events
  <2>4. UNCHANGED <<pin, poll, level, edges, gpio, room, prompt, presses, acted, longest, losses>>
    BY <1>14, TimerTells
  <2>5. QED
    BY <2>1, <2>3, <2>4 DEF PowerShape
<1>15. CASE Send
  <2>1. /\ task' \in TaskStates /\ (task'.at = "Sending" <=> task'.event \in Events)
    BY <1>15, TaskFields DEF Send
  <2>2. QED
    BY <1>15, <2>1 DEF PowerShape, Send
<1>16. CASE Pass
  <2> DEFINE older == IF poll.pending /\ poll.age < Debounce THEN poll.age + 1 ELSE poll.age
             less == IF task.left > 0 THEN task.left - 1 ELSE 0
  <2>1. /\ poll' = [poll EXCEPT !.sampled = FALSE, !.age = older]
        /\ task' = [task EXCEPT !.left = less]
        /\ longest' \in {longest} \cup (IF longest < Hold THEN {longest + 1} ELSE {})
        /\ UNCHANGED <<pin, level, edges, gpio, signals, room, prompt, presses, acted, losses>>
    BY <1>16 DEF Pass
  <2>2. older \in 0..Debounce /\ less \in 0..Hold
    BY DEF PowerShape, Polling, TaskStates
  <2> HIDE DEF older, less
  <2>3. poll \in Polling /\ task \in TaskStates
    BY DEF PowerShape
  <2>4. poll' \in Polling
    BY <2>1, <2>2, <2>3, Zenon DEF Polling
  <2>5. poll'.alive = poll.alive
    BY <2>1, <2>3 DEF Polling
  <2>6. task' \in TaskStates
    BY <2>1, <2>2, <2>3, Zenon DEF TaskStates
  <2>7. task'.at = task.at /\ task'.event = task.event
    BY <2>1, <2>3 DEF TaskStates
  <2>8. longest' \in 0..Hold
    BY <2>1 DEF PowerShape
  <2>9. QED
    BY <2>1, <2>4, <2>5, <2>6, <2>7, <2>8 DEF PowerShape
<1>17. CASE UNCHANGED powerVars
  BY <1>17 DEF powerVars, PowerShape
<1>18. QED
  BY <1>1, <1>2, <1>3, <1>4, <1>5, <1>6, <1>7, <1>8, <1>9, <1>10, <1>11, <1>12, <1>13, <1>14,
     <1>15, <1>16, <1>17 DEF PowerNext, GpioTask, PowerButtonTask

\* What is counted.
LEMMA SpentCounts ==
    ASSUME PowerShape
    PROVE  /\ {TaskHas, GpioHas, PollHas, PollMay} \subseteq {0, 1}
           /\ {Downs(signals), Downs(edges), acted, presses, losses} \subseteq Nat
<1>1. Downs(signals) \in Nat /\ Downs(edges) \in Nat
  BY PlacesFinite DEF PowerShape
<1>2. acted \in Nat /\ presses \in Nat /\ losses \in Nat
  BY PowerConstants DEF PowerShape
<1>3. QED
  BY <1>1, <1>2 DEF TaskHas, GpioHas, PollHas, PollMay

\* A sample tells no level twice, and confirms a press only once.
LEMMA SampleCounts ==
    ASSUME PowerShape, Sample
    PROVE  /\ Downs(edges') \in Nat /\ PollHas' \in {0, 1} /\ PollMay' \in {0, 1}
           /\ Downs(edges') + PollHas' + PollMay' <= Downs(edges) + PollHas + PollMay
<1>0. /\ {TaskHas, GpioHas, PollHas, PollMay} \subseteq {0, 1}
      /\ {Downs(signals), Downs(edges), acted, presses, losses} \subseteq Nat
  BY SpentCounts
<1>1. PICK e \in Seq(Level \cup {"Other"}), w \in Level \cup {Absent} :
           /\ \/ e = edges /\ w = poll.waiting
              \/ e = Append(edges, poll.waiting) /\ w = Absent /\ poll.waiting \in Level
           /\ \/ edges' = e /\ poll'.waiting = w /\ poll'.confirmed = poll.confirmed
              \/ /\ poll.confirmed # pin /\ poll'.confirmed = pin
                 /\ \/ /\ w \in Level /\ edges' = e
                       /\ poll'.waiting = IF w = "Down" \/ pin = "Up" THEN pin ELSE w
                    \/ w = Absent /\ edges' = Append(e, pin) /\ poll'.waiting = Absent
                    \/ w = Absent /\ edges' = e /\ poll'.waiting = pin
           /\ poll'.alive = poll.alive /\ poll'.seeded = poll.seeded
  BY SampleTells
<1>2. /\ UNCHANGED <<pin, gpio, signals, task, acted, losses, presses>>
      /\ poll.alive /\ poll.seeded /\ pin \in Level /\ poll.confirmed \in Level
  BY DEF Sample, PowerShape, Polling
<1>3. /\ Downs(e) + (IF w = "Down" THEN 1 ELSE 0) = Downs(edges) + PollHas
      /\ Downs(e) \in Nat
  <2>1. CASE e = edges /\ w = poll.waiting
    BY <1>0, <2>1 DEF PollHas
  <2>2. CASE e = Append(edges, poll.waiting) /\ w = Absent /\ poll.waiting \in Level
    <3>1. Downs(e) = Downs(edges) + (IF poll.waiting = "Down" THEN 1 ELSE 0)
      BY <2>2, AppendCounts DEF PowerShape
    <3>2. QED
      BY <1>0, <2>2, <3>1 DEF PollHas, Absent
  <2>3. QED
    BY <1>1, <2>1, <2>2
<1>4. CASE edges' = e /\ poll'.waiting = w /\ poll'.confirmed = poll.confirmed
  <2>1. PollHas' = (IF w = "Down" THEN 1 ELSE 0) /\ PollMay' = PollMay
    BY <1>1, <1>2, <1>4 DEF PollHas, PollMay
  <2>2. Downs(edges') \in Nat /\ Downs(edges') + PollHas' = Downs(edges) + PollHas
    BY <1>3, <1>4, <2>1
  <2>3. QED
    BY <1>0, <2>1, <2>2 DEF PollHas
<1>5. CASE poll.confirmed # pin /\ poll'.confirmed = pin
  <2>1. PollMay = (IF pin = "Down" THEN 1 ELSE 0) /\ PollMay' = 0
    BY <1>1, <1>2, <1>5 DEF PollMay, Level
  <2>2. Downs(edges') + PollHas' <= Downs(e) + (IF w = "Down" THEN 1 ELSE 0)
                                      + (IF pin = "Down" THEN 1 ELSE 0)
    <3>1. CASE /\ w \in Level /\ edges' = e
               /\ poll'.waiting = IF w = "Down" \/ pin = "Up" THEN pin ELSE w
      BY <1>2, <1>3, <3>1 DEF PollHas, Level
    <3>2. CASE w = Absent /\ edges' = Append(e, pin) /\ poll'.waiting = Absent
      <4>1. Downs(edges') = Downs(e) + (IF pin = "Down" THEN 1 ELSE 0)
        BY <1>2, <3>2, AppendCounts
      <4>2. QED
        BY <1>3, <3>2, <4>1 DEF PollHas, Absent
    <3>3. CASE w = Absent /\ edges' = e /\ poll'.waiting = pin
      BY <1>2, <1>3, <3>3 DEF PollHas, Absent
    <3>4. QED
      BY <1>1, <1>2, <1>5, <3>1, <3>2, <3>3
  <2>3. Downs(edges') \in Nat /\ PollHas' \in {0, 1}
    <3>1. edges' \in Seq(Level \cup {"Other"})
      BY <1>1, <1>2, AppendProperties
    <3>2. QED
      BY <3>1, PlacesFinite DEF PollHas
  <2>4. Downs(edges') + PollHas' <= Downs(edges) + PollHas + PollMay
    BY <1>0, <1>3, <2>1, <2>2, <2>3
  <2>5. QED
    BY <1>0, <2>1, <2>3, <2>4
<1>6. QED
  BY <1>1, <1>4, <1>5

LEMMA PressesSpentKept ==
    PowerShape /\ PressesAreSpent /\ [PowerNext]_powerVars => PressesAreSpent'
<1> SUFFICES ASSUME PowerShape, PressesAreSpent, [PowerNext]_powerVars PROVE PressesAreSpent'
  OBVIOUS
<1>0. /\ {TaskHas, GpioHas, PollHas, PollMay} \subseteq {0, 1}
      /\ {Downs(signals), Downs(edges), acted, presses, losses} \subseteq Nat
      /\ acted + TaskHas + Downs(signals) + GpioHas + Downs(edges) + PollHas + PollMay
            <= presses + losses
  BY SpentCounts DEF PressesAreSpent
<1>1. CASE Press \/ Release
  <2>1. /\ UNCHANGED <<TaskHas, GpioHas, PollHas, Downs(signals), Downs(edges), acted, losses>>
    BY <1>1 DEF Press, Release, TaskHas, GpioHas, PollHas
  <2>2. \/ presses' = presses + 1 /\ PollMay' \in {0, 1}
        \/ presses' = presses /\ PollMay' \in {0, PollMay}
    BY <1>1 DEF Press, Release, PollMay
  <2>3. QED
    BY <1>0, <2>1, <2>2 DEF PressesAreSpent
<1>2. CASE OtherEdge
  <2>1. Downs(edges') = Downs(edges)
    <3>1. Downs(edges') = Downs(edges) + 0
      BY <1>2, AppendCounts DEF OtherEdge, PowerShape
    <3>2. QED
      BY <1>0, <3>1
  <2>2. UNCHANGED <<TaskHas, GpioHas, PollHas, PollMay, Downs(signals), acted, losses, presses>>
    BY <1>2 DEF OtherEdge, TaskHas, GpioHas, PollHas, PollMay
  <2>3. QED
    BY <1>0, <2>1, <2>2 DEF PressesAreSpent
<1>3. CASE Wedge \/ UNCHANGED powerVars
  <2>1. UNCHANGED <<TaskHas, GpioHas, PollHas, PollMay, Downs(signals), Downs(edges), acted,
                    losses, presses>>
    BY <1>3 DEF Wedge, powerVars, TaskHas, GpioHas, PollHas, PollMay
  <2>2. QED
    BY <1>0, <2>1 DEF PressesAreSpent
<1>4. CASE Seed
  <2>1. /\ poll'.alive /\ poll'.seeded /\ poll'.waiting = Absent /\ poll'.confirmed = pin
        /\ UNCHANGED <<pin, gpio, signals, edges, task, acted, losses, presses>>
    BY <1>4, SeedFields DEF Seed, PowerShape
  <2>2. /\ PollHas' = 0 /\ PollMay' = 0
        /\ UNCHANGED <<TaskHas, GpioHas, Downs(signals), Downs(edges), acted, losses, presses>>
    BY <2>1 DEF TaskHas, GpioHas, PollHas, PollMay, Absent
  <2>3. QED
    BY <1>0, <2>2 DEF PressesAreSpent
<1>5. CASE Sample
  <2>1. /\ Downs(edges') \in Nat /\ PollHas' \in {0, 1} /\ PollMay' \in {0, 1}
        /\ Downs(edges') + PollHas' + PollMay' <= Downs(edges) + PollHas + PollMay
    BY <1>5, SampleCounts
  <2>2. UNCHANGED <<TaskHas, GpioHas, Downs(signals), acted, losses, presses>>
    BY <1>5 DEF Sample, TaskHas, GpioHas
  <2>3. QED
    BY <1>0, <2>1, <2>2 DEF PressesAreSpent
<1>6. CASE StreamLost
  <2>1. /\ poll'.waiting = poll.waiting /\ losses' = losses + 1
        /\ UNCHANGED <<pin, gpio, signals, edges, task, acted, presses>>
    BY <1>6 DEF StreamLost, PowerShape, Polling
  <2>2. /\ UNCHANGED <<TaskHas, GpioHas, PollHas, Downs(signals), Downs(edges), acted, presses>>
        /\ losses' = losses + 1 /\ PollMay' \in {0, 1} /\ PollMay = PollMay
    BY <2>1 DEF TaskHas, GpioHas, PollHas, PollMay
  <2>3. QED
    BY <1>0, <2>2 DEF PressesAreSpent
<1>7. CASE GpioReads
  <2>1. /\ gpio.at = "Read" /\ edges # <<>> /\ edges' = Tail(edges)
        /\ gpio' = IF Head(edges) = "Other" THEN gpio ELSE Forward(Head(edges), "Read")
        /\ UNCHANGED <<pin, poll, signals, task, acted, losses, presses>>
    BY <1>7 DEF GpioReads, GpioStays
  <2>2. /\ Downs(edges') <= Downs(edges) - (IF Head(edges) = "Down" THEN 1 ELSE 0)
        /\ Downs(edges') \in Nat /\ Head(edges) \in Level \cup {"Other"}
    BY <2>1, QueuesShrink DEF PowerShape
  <2>3. GpioHas' <= GpioHas + (IF Head(edges) = "Down" THEN 1 ELSE 0) /\ GpioHas' \in {0, 1}
    BY <2>1, <2>2 DEF GpioHas, Forward, Level
  <2>4. UNCHANGED <<TaskHas, PollHas, PollMay, Downs(signals), acted, losses, presses>>
    BY <2>1 DEF TaskHas, PollHas, PollMay
  <2>5. GpioHas' + Downs(edges') <= GpioHas + Downs(edges)
    BY <1>0, <2>2, <2>3
  <2>6. QED
    BY <1>0, <2>2, <2>3, <2>4, <2>5 DEF PressesAreSpent
<1>8. CASE GpioForwards
  <2>1. /\ gpio.at = "Forward" /\ signals' = Append(signals, gpio.signal)
        /\ gpio.signal \in Signal /\ gpio.then \in {"Read", "Lost"} /\ gpio' = Gpio(gpio.then)
        /\ UNCHANGED <<pin, poll, edges, task, acted, losses, presses>>
    BY <1>8 DEF GpioForwards, GpioStays, PowerShape
  <2>2. Downs(signals') = Downs(signals) + (IF gpio.signal = "Down" THEN 1 ELSE 0)
    BY <2>1, AppendCounts DEF PowerShape
  <2>3. GpioHas = (IF gpio.signal = "Down" THEN 1 ELSE 0) /\ GpioHas' = 0
    BY <2>1 DEF GpioHas, Gpio
  <2>4. UNCHANGED <<TaskHas, PollHas, PollMay, Downs(edges), acted, losses, presses>>
    BY <2>1 DEF TaskHas, PollHas, PollMay
  <2>5. GpioHas' + Downs(signals') = GpioHas + Downs(signals) /\ Downs(signals') \in Nat
    BY <1>0, <2>2, <2>3
  <2>6. QED
    BY <1>0, <2>3, <2>4, <2>5 DEF PressesAreSpent
<1>9. CASE GpioLoses \/ Reconcile
  <2>1. GpioHas' <= GpioHas /\ GpioHas' \in {0, 1}
    BY <1>9 DEF GpioLoses, Reconcile, GpioHas, Forward
  <2>2. UNCHANGED <<TaskHas, PollHas, PollMay, Downs(signals), Downs(edges), acted, losses, presses>>
    BY <1>9 DEF GpioLoses, Reconcile, GpioStays, TaskHas, PollHas, PollMay
  <2>3. QED
    BY <1>0, <2>1, <2>2 DEF PressesAreSpent
<1>10. CASE Rebuild
  <2>1. /\ gpio.at = "Lost" /\ ~poll.alive /\ gpio' = Gpio("Reconcile")
        /\ poll'.alive /\ ~poll'.seeded /\ poll'.waiting = Absent
        /\ UNCHANGED <<pin, edges, signals, task, acted, losses, presses>>
    BY <1>10, SeedFields DEF Rebuild, PowerShape
  <2>2. /\ PollMay = 1 /\ PollMay' = 0 /\ GpioHas' = 1 /\ PollHas' = 0
        /\ UNCHANGED <<TaskHas, Downs(signals), Downs(edges), acted, losses, presses>>
    BY <2>1 DEF PollMay, GpioHas, PollHas, TaskHas, Gpio, Absent
  <2>3. QED
    BY <1>0, <2>2 DEF PressesAreSpent
<1>11. CASE TaskTakes
  <2>1. /\ task.at = "Idle" /\ signals # <<>> /\ signals' = Tail(signals)
        /\ task' = IF Head(signals) = "Down" THEN [Task("Timing") EXCEPT !.left = Hold] ELSE task
        /\ UNCHANGED <<pin, poll, gpio, edges, acted, losses, presses>>
    BY <1>11 DEF TaskTakes, TaskStays
  <2>2. /\ Downs(signals') <= Downs(signals) - (IF Head(signals) = "Down" THEN 1 ELSE 0)
        /\ Downs(signals') \in Nat
    BY <2>1, QueuesShrink DEF PowerShape
  <2>3. TaskHas' = (IF Head(signals) = "Down" THEN 1 ELSE 0) /\ TaskHas = 0
    BY <2>1, TaskFields DEF TaskHas
  <2>4. UNCHANGED <<GpioHas, PollHas, PollMay, Downs(edges), acted, losses, presses>>
    BY <2>1 DEF GpioHas, PollHas, PollMay
  <2>5. TaskHas' + Downs(signals') <= TaskHas + Downs(signals) /\ TaskHas' \in {0, 1}
    BY <1>0, <2>2, <2>3
  <2>6. QED
    BY <1>0, <2>2, <2>4, <2>5 DEF PressesAreSpent
<1>12. CASE TaskHears
  <2>1. /\ task.at \in {"Timing", "Held"} /\ signals # <<>> /\ signals' = Tail(signals)
        /\ UNCHANGED <<pin, poll, gpio, edges, acted, losses, presses>>
    BY <1>12 DEF TaskHears, TaskStays
  <2>2. /\ Downs(signals') <= Downs(signals) - (IF Head(signals) = "Down" THEN 1 ELSE 0)
        /\ Downs(signals') \in Nat /\ Head(signals) \in Signal
    BY <2>1, QueuesShrink DEF PowerShape
  <2>3. task' \in {task, Task("Idle")} \/ (task.at = "Timing" /\ task' = Sending("PowerButtonPressed"))
    BY <1>12, <2>1, <2>2 DEF TaskHears, Signal, Level
  <2>4. TaskHas' \in {0, TaskHas}
    BY <2>1, <2>3, TaskFields DEF TaskHas, Events
  <2>5. UNCHANGED <<GpioHas, PollHas, PollMay, Downs(edges), acted, losses, presses>>
    BY <2>1 DEF GpioHas, PollHas, PollMay
  <2>6. Downs(signals') <= Downs(signals)
    BY <1>0, <2>2
  <2>7. QED
    BY <1>0, <2>2, <2>4, <2>5, <2>6 DEF PressesAreSpent
<1>13. CASE TimerFires
  <2>1. /\ task.at = "Timing"
        /\ UNCHANGED <<pin, poll, edges, gpio, presses, acted, losses>>
        /\ task' \in {Sending("PowerButtonHeld"), Sending("PowerButtonPressed"), Task("Idle")}
    BY <1>13, TimerTells
  <2>2. Downs(signals') <= Downs(signals) /\ Downs(signals') \in Nat
    <3>1. CASE signals' = <<>>
      <4>1. Downs(<<>>) = 0
        BY EmptyTells DEF Level
      <4>2. QED
        BY <1>0, <3>1, <4>1
    <3>2. CASE \E i \in 1..Len(signals) : signals' = SubSeq(signals, i + 1, Len(signals))
      BY <3>2, SignalsKept
    <3>3. QED
      BY <1>13, <3>1, <3>2, TimerTells
  <2>3. TaskHas = 1 /\ TaskHas' \in {0, 1}
    BY <2>1 DEF TaskHas
  <2>4. UNCHANGED <<GpioHas, PollHas, PollMay, Downs(edges), acted, losses, presses>>
    BY <2>1 DEF GpioHas, PollHas, PollMay
  <2>5. QED
    BY <1>0, <2>2, <2>3, <2>4 DEF PressesAreSpent
<1>14. CASE Send
  <2>1. TaskHas = 1 /\ TaskHas' = 0 /\ acted' = acted + 1
    BY <1>14, TaskFields DEF Send, TaskHas
  <2>2. UNCHANGED <<GpioHas, PollHas, PollMay, Downs(signals), Downs(edges), losses, presses>>
    BY <1>14 DEF Send, GpioHas, PollHas, PollMay
  <2>3. QED
    BY <1>0, <2>1, <2>2 DEF PressesAreSpent
<1>15. CASE Pass
  <2>1. /\ task'.at = task.at /\ poll'.alive = poll.alive /\ poll'.seeded = poll.seeded
        /\ poll'.waiting = poll.waiting /\ poll'.confirmed = poll.confirmed
    BY <1>15 DEF Pass, PowerShape, Polling, TaskStates
  <2>2. UNCHANGED <<pin, gpio, edges, signals, acted, losses, presses>>
    BY <1>15 DEF Pass
  <2>3. UNCHANGED <<TaskHas, GpioHas, PollHas, PollMay, Downs(signals), Downs(edges), acted,
                    losses, presses>>
    BY <2>1, <2>2 DEF TaskHas, GpioHas, PollHas, PollMay
  <2>4. QED
    BY <1>0, <2>3 DEF PressesAreSpent
<1>16. QED
  BY <1>1, <1>2, <1>3, <1>4, <1>5, <1>6, <1>7, <1>8, <1>9, <1>10, <1>11, <1>12, <1>13, <1>14,
     <1>15 DEF PowerNext, GpioTask, PowerButtonTask

----------------------------------------------------------------------------
(* The line from the pin to the timer, while the stream is not lost *)

Line == Undisturbed /\ Alternates /\ ReleaseIsInTime

LEMMA LineLevels ==
    ASSUME PowerShape
    PROVE  /\ {BeforeSignals, BeforeGpio, BeforeEdges, LastTold} \subseteq Level
           /\ task.at = "Timing" /\ ~UpOnItsWay => LastTold = "Down"
<1>1. BeforeSignals \in Level
  BY DEF BeforeSignals, Level
<1>2. BeforeGpio \in Level
  BY <1>1 DEF BeforeGpio, LastLevel, Level
<1>3. BeforeEdges \in Level
  BY <1>2 DEF BeforeEdges, Later, Level
<1>4. LastTold \in Level
  BY <1>3 DEF LastTold, LastLevel, Level
<1>5. ASSUME task.at = "Timing", ~UpOnItsWay PROVE LastTold = "Down"
  <2>1. BeforeSignals = "Down" /\ ~HasUp(signals) /\ ~HasUp(edges)
    BY <1>5 DEF BeforeSignals, UpOnItsWay
  <2>2. BeforeGpio = "Down"
    BY <2>1 DEF BeforeGpio, LastLevel
  <2>3. BeforeEdges = "Down"
    BY <1>5, <2>2 DEF BeforeEdges, Later, Level, UpOnItsWay
  <2>4. QED
    BY <2>1, <2>3 DEF LastTold, LastLevel
<1>6. QED
  BY <1>1, <1>2, <1>3, <1>4, <1>5

\* What power_button_task takes may leave a release as the last level told, never a press.
LEMMA Lowered ==
    ASSUME PowerShape, Alternates, UNCHANGED <<gpio, edges, poll>>,
           Spaced(signals', BeforeSignals'),
           BeforeGpio' = "Down" => BeforeGpio = "Down"
    PROVE  Alternates'
<1>1. /\ {BeforeSignals, BeforeGpio, BeforeEdges, LastTold} \subseteq Level
      /\ {BeforeGpio', BeforeEdges', LastTold'} \subseteq Level
  <2>1. BeforeGpio' \in Level
    BY DEF BeforeGpio, LastLevel, BeforeSignals, Level
  <2>2. BeforeEdges' \in Level
    BY <2>1 DEF BeforeEdges, Later, Level
  <2>3. LastTold' \in Level
    BY <2>2 DEF LastTold, LastLevel, Level
  <2>4. QED
    BY <2>1, <2>2, <2>3, LineLevels
<1>2. BeforeEdges' = "Down" => BeforeEdges = "Down"
  BY <1>1 DEF BeforeEdges, Later, Level
<1>3. /\ LastTold' = "Down" => LastTold = "Down"
      /\ Spaced(edges, BeforeEdges) => Spaced(edges, BeforeEdges')
  <2>1. /\ LastLevel(edges, BeforeEdges') = "Down" => LastLevel(edges, BeforeEdges) = "Down"
        /\ Spaced(edges, BeforeEdges) => Spaced(edges, BeforeEdges')
    BY <1>1, <1>2, AfterRelease
  <2>2. QED
    BY <2>1 DEF LastTold
<1>4. Spaced(edges, BeforeEdges)
  BY DEF Alternates
<1>5. Spaced(edges', BeforeEdges')
  BY <1>3, <1>4
<1>6. gpio'.at = "Forward" /\ gpio'.signal = "Down" => BeforeGpio' = "Up"
  BY <1>1 DEF Alternates, Level
<1>7. /\ poll'.waiting = "Down" => LastTold' = "Up" /\ poll'.confirmed = "Down"
      /\ poll'.waiting = Absent /\ poll'.confirmed = "Up" => LastTold' = "Up"
  BY <1>1, <1>3 DEF Alternates, Level
<1>8. QED
  BY <1>5, <1>6, <1>7 DEF Alternates

\* Steps that leave the line alone.
LEMMA LineUnmoved ==
    ASSUME Line,
           UNCHANGED <<poll, gpio, signals, edges, task, longest>>
    PROVE  Line'
<1>1. UNCHANGED <<BeforeSignals, BeforeGpio, BeforeEdges, LastTold, UpOnItsWay>>
  BY DEF BeforeSignals, BeforeGpio, BeforeEdges, LastTold, UpOnItsWay
<1>2. QED
  BY <1>1 DEF Line, Undisturbed, Alternates, ReleaseIsInTime

LEMMA LineOtherEdge ==
    ASSUME PowerShape, Line, OtherEdge
    PROVE  Line'
<1>1. /\ edges' = Append(edges, "Other") /\ gpio.at = "Forward"
      /\ UNCHANGED <<poll, gpio, signals, task, longest>>
  BY DEF OtherEdge
<1>2. UNCHANGED <<BeforeSignals, BeforeGpio, BeforeEdges>>
  BY <1>1 DEF BeforeSignals, BeforeGpio, BeforeEdges
<1>3. /\ HasUp(edges') <=> HasUp(edges)
      /\ LastLevel(edges', BeforeEdges) = LastLevel(edges, BeforeEdges)
      /\ Spaced(edges, BeforeEdges) => Spaced(edges', BeforeEdges)
  <2>1. edges \in Seq(Level \cup {"Other"}) /\ "Other" \in Level \cup {"Other"} /\ BeforeEdges \in Level
    BY LineLevels DEF PowerShape
  <2>2. Later("Other", LastLevel(edges, BeforeEdges)) = LastLevel(edges, BeforeEdges)
    BY DEF Later, Level
  <2>3. QED
    BY <1>1, <2>1, <2>2, AppendTells
<1>4. LastTold' = LastTold /\ (UpOnItsWay' <=> UpOnItsWay)
  BY <1>1, <1>2, <1>3 DEF LastTold, UpOnItsWay
<1>5. Alternates'
  BY <1>1, <1>2, <1>3, <1>4 DEF Line, Alternates
<1>6. ReleaseIsInTime'
  BY <1>1, <1>4 DEF Line, ReleaseIsInTime
<1>7. QED
  BY <1>1, <1>5, <1>6 DEF Line, Undisturbed

LEMMA LineGpioReads ==
    ASSUME PowerShape, Line, GpioReads
    PROVE  Line'
<1>1. /\ gpio.at = "Read" /\ edges # <<>> /\ edges' = Tail(edges)
      /\ gpio' = IF Head(edges) = "Other" THEN gpio ELSE Forward(Head(edges), "Read")
      /\ UNCHANGED <<poll, signals, task, longest>>
  BY DEF GpioReads, GpioStays
<1>2. BeforeEdges = BeforeGpio /\ BeforeEdges \in Level /\ UNCHANGED <<BeforeSignals, BeforeGpio>>
  BY <1>1, LineLevels DEF BeforeSignals, BeforeGpio, BeforeEdges
<1>3. /\ Head(edges) \in Level \cup {"Other"}
      /\ HasUp(edges) <=> HasUp(edges') \/ Head(edges) = "Up"
      /\ LastLevel(edges', Later(Head(edges), BeforeEdges)) = LastLevel(edges, BeforeEdges)
      /\ Head(edges) = "Down" => BeforeEdges = "Up"
      /\ Spaced(edges', Later(Head(edges), BeforeEdges))
  <2>1. edges \in Seq(Level \cup {"Other"}) /\ Spaced(edges, BeforeEdges)
    BY DEF PowerShape, Line, Alternates
  <2>2. QED
    BY <1>1, <1>2, <2>1, HeadTells
<1>4. \/ Head(edges) = "Other" /\ gpio' = gpio
      \/ /\ Head(edges) \in Level /\ gpio'.at = "Forward" /\ gpio'.signal = Head(edges)
         /\ gpio'.then = "Read"
  BY <1>1, <1>3 DEF Forward
<1>5. BeforeEdges' = Later(Head(edges), BeforeEdges)
  BY <1>1, <1>2, <1>4 DEF BeforeEdges, Later, Level
<1>6. LastTold' = LastTold /\ (UpOnItsWay' <=> UpOnItsWay)
  BY <1>1, <1>3, <1>4, <1>5 DEF LastTold, UpOnItsWay
<1>7. Alternates'
  BY <1>1, <1>2, <1>3, <1>4, <1>5, <1>6 DEF Line, Alternates
<1>8. ReleaseIsInTime'
  BY <1>1, <1>6 DEF Line, ReleaseIsInTime
<1>9. Undisturbed'
  BY <1>1, <1>4 DEF Line, Undisturbed
<1>10. QED
  BY <1>7, <1>8, <1>9 DEF Line

LEMMA LineGpioForwards ==
    ASSUME PowerShape, Line, GpioForwards
    PROVE  Line'
<1>1. /\ gpio.at = "Forward" /\ signals' = Append(signals, gpio.signal) /\ gpio' = Gpio(gpio.then)
      /\ UNCHANGED <<poll, edges, task, longest>>
  BY DEF GpioForwards, GpioStays
<1>2. /\ gpio.signal \in Level /\ gpio'.at = "Read" /\ signals \in Seq(Level)
  BY <1>1 DEF Line, Undisturbed, Gpio
<1>3. BeforeSignals' = BeforeSignals /\ BeforeSignals \in Level /\ BeforeEdges = Later(gpio.signal, BeforeGpio)
  BY <1>1, LineLevels DEF BeforeSignals, BeforeEdges
<1>4. /\ HasUp(signals') <=> HasUp(signals) \/ gpio.signal = "Up"
      /\ LastLevel(signals', BeforeSignals) = Later(gpio.signal, LastLevel(signals, BeforeSignals))
      /\ Spaced(signals', BeforeSignals)
      /\ signals' \in Seq(Level)
  <2>1. /\ gpio.signal = "Down" => LastLevel(signals, BeforeSignals) = "Up"
        /\ Spaced(signals, BeforeSignals)
    BY <1>1 DEF Line, Alternates, BeforeGpio
  <2>2. signals' \in Seq(Level)
    BY <1>1, <1>2, AppendProperties
  <2>3. QED
    BY <1>1, <1>2, <1>3, <2>1, <2>2, AppendTells
<1>5. BeforeGpio' = BeforeEdges /\ BeforeEdges' = BeforeEdges
  BY <1>2, <1>3, <1>4 DEF BeforeGpio, BeforeEdges
<1>6. LastTold' = LastTold /\ (UpOnItsWay' <=> UpOnItsWay)
  BY <1>1, <1>2, <1>4, <1>5 DEF LastTold, UpOnItsWay
<1>7. Alternates'
  BY <1>1, <1>2, <1>3, <1>4, <1>5, <1>6 DEF Line, Alternates
<1>8. ReleaseIsInTime'
  BY <1>1, <1>4, <1>6 DEF Line, ReleaseIsInTime
<1>9. Undisturbed'
  BY <1>1, <1>2, <1>4 DEF Line, Undisturbed
<1>10. QED
  BY <1>7, <1>8, <1>9 DEF Line

LEMMA LineTaskTakes ==
    ASSUME PowerShape, Line, TaskTakes
    PROVE  Line'
<1>1. /\ task.at = "Idle" /\ signals # <<>> /\ signals' = Tail(signals)
      /\ task' = IF Head(signals) = "Down" THEN [Task("Timing") EXCEPT !.left = Hold] ELSE task
      /\ UNCHANGED <<poll, gpio, edges, longest>>
  BY DEF TaskTakes, TaskStays
<1>2. BeforeSignals = "Up" /\ "Up" \in Level
  BY <1>1 DEF BeforeSignals, Level
<1>3. /\ Head(signals) \in Level /\ signals' \in Seq(Level)
      /\ LastLevel(signals', Later(Head(signals), "Up")) = LastLevel(signals, "Up")
      /\ Spaced(signals', Later(Head(signals), "Up"))
  <2>1. signals \in Seq(Level) /\ Spaced(signals, "Up")
    BY <1>2 DEF Line, Undisturbed, Alternates
  <2>2. QED
    BY <1>1, <1>2, <2>1, HeadTells
<1>4. \/ Head(signals) = "Down" /\ task'.at = "Timing" /\ task'.left = Hold
      \/ Head(signals) = "Up" /\ task'.at = "Idle"
  BY <1>1, <1>3, TaskFields DEF Level
<1>5. BeforeSignals' = Later(Head(signals), "Up")
  BY <1>3, <1>4 DEF BeforeSignals, Later
<1>6. BeforeGpio' = BeforeGpio
  BY <1>2, <1>3, <1>5 DEF BeforeGpio
<1>7. BeforeEdges' = BeforeEdges /\ LastTold' = LastTold
  <2>1. BeforeEdges' = BeforeEdges
    BY <1>1, <1>6 DEF BeforeEdges
  <2>2. QED
    BY <1>1, <2>1 DEF LastTold
<1>8. Alternates'
  BY <1>1, <1>3, <1>5, <1>6, <1>7 DEF Line, Alternates
<1>9. ReleaseIsInTime'
  <2>1. longest' + Hold >= Hold /\ ~(Hold < Hold)
    BY <1>1, PowerConstants DEF PowerShape
  <2>2. QED
    BY <1>4, <2>1 DEF ReleaseIsInTime
<1>10. Undisturbed'
  BY <1>1, <1>3 DEF Line, Undisturbed
<1>11. QED
  BY <1>8, <1>9, <1>10 DEF Line

LEMMA LineTaskHears ==
    ASSUME PowerShape, Line, TaskHears
    PROVE  Line'
<1>1. /\ task.at \in {"Timing", "Held"} /\ signals # <<>> /\ signals' = Tail(signals)
      /\ UNCHANGED <<poll, gpio, edges, longest>>
  BY DEF TaskHears, TaskStays
<1>2. BeforeSignals \in Level
  BY LineLevels
<1>3. /\ Head(signals) \in Level /\ signals' \in Seq(Level)
      /\ LastLevel(signals', Later(Head(signals), BeforeSignals)) = LastLevel(signals, BeforeSignals)
      /\ Head(signals) = "Down" => BeforeSignals = "Up"
      /\ Spaced(signals', Later(Head(signals), BeforeSignals))
  <2>1. signals \in Seq(Level) /\ Spaced(signals, BeforeSignals)
    BY DEF Line, Undisturbed, Alternates
  <2>2. QED
    BY <1>1, <1>2, <2>1, HeadTells
<1>4. task'.at # "Timing"
  <2>1. CASE Head(signals) = "Down"
    <3>1. task.at # "Timing"
      BY <1>3, <2>1 DEF BeforeSignals
    <3>2. task' = task
      BY <2>1 DEF TaskHears
    <3>3. QED
      BY <3>1, <3>2
  <2>2. CASE Head(signals) = "Up"
    <3>1. task' \in {Sending("PowerButtonPressed"), Task("Idle")}
      BY <1>1, <2>2 DEF TaskHears
    <3>2. QED
      BY <3>1, TaskFields DEF Events
  <2>3. QED
    BY <1>3, <2>1, <2>2 DEF Level
<1>5. BeforeSignals' = "Up" /\ "Up" \in Level
  BY <1>4 DEF BeforeSignals, Level
<1>6. Later(Head(signals), BeforeSignals) \in Level
  BY <1>3 DEF Later
<1>7. /\ LastLevel(signals', "Up") = "Down" => LastLevel(signals, BeforeSignals) = "Down"
      /\ Spaced(signals', "Up")
  BY <1>3, <1>5, <1>6, AfterRelease
<1>8. Alternates'
  <2>1. BeforeGpio' = "Down" => BeforeGpio = "Down"
    BY <1>5, <1>7 DEF BeforeGpio
  <2>2. Spaced(signals', BeforeSignals') /\ Alternates
    BY <1>5, <1>7 DEF Line
  <2>3. QED
    BY <1>1, <2>1, <2>2, Lowered
<1>9. ReleaseIsInTime'
  BY <1>4 DEF ReleaseIsInTime
<1>10. Undisturbed'
  BY <1>1, <1>3 DEF Line, Undisturbed
<1>11. QED
  BY <1>8, <1>9, <1>10 DEF Line

LEMMA LineTimerFires ==
    ASSUME PowerShape, Line, TimerFires
    PROVE  Line'
<1>1. /\ UNCHANGED <<poll, gpio, edges, longest>> /\ task'.at # "Timing"
  BY TimerTells, TaskFields DEF Events
<1>2. BeforeSignals' = "Up" /\ "Up" \in Level /\ BeforeSignals \in Level
  BY <1>1, LineLevels DEF BeforeSignals, Level
<1>3. /\ signals' \in Seq(Level) /\ Spaced(signals', "Up")
      /\ LastLevel(signals', "Up") = "Down" => LastLevel(signals, BeforeSignals) = "Down"
  <2>1. CASE signals' = <<>>
    <3>1. <<>> \in Seq(Level) /\ LastLevel(<<>>, "Up") = "Up" /\ Spaced(<<>>, "Up")
      BY <1>2, EmptyTells, EmptySeq
    <3>2. QED
      BY <2>1, <3>1
  <2>2. CASE \E i \in 1..Len(signals) : signals' = SubSeq(signals, i + 1, Len(signals))
    <3>1. signals \in Seq(Level) /\ Spaced(signals, BeforeSignals) /\ Len(signals) \in Nat
      BY LenProperties DEF Line, Undisturbed, Alternates
    <3>2. PICK i \in 1..Len(signals) : signals' = SubSeq(signals, i + 1, Len(signals))
      BY <2>2
    <3>3. i \in 0..Len(signals)
      BY <3>1
    <3>4. /\ signals' \in Seq(Level)
          /\ LastLevel(signals', "Up") = "Up" \/ LastLevel(signals, BeforeSignals) = "Down"
          /\ Spaced(signals, BeforeSignals) => Spaced(signals', "Up")
      BY <1>2, <3>1, <3>2, <3>3, RestTells
    <3>5. QED
      BY <3>1, <3>4
  <2>3. QED
    BY <2>1, <2>2, TimerTells
<1>4. Alternates'
  <2>1. BeforeGpio' = "Down" => BeforeGpio = "Down"
    BY <1>2, <1>3 DEF BeforeGpio
  <2>2. Spaced(signals', BeforeSignals') /\ Alternates
    BY <1>2, <1>3 DEF Line
  <2>3. QED
    BY <1>1, <2>1, <2>2, Lowered
<1>5. ReleaseIsInTime'
  BY <1>1 DEF ReleaseIsInTime
<1>6. Undisturbed'
  BY <1>1, <1>3 DEF Line, Undisturbed
<1>7. QED
  BY <1>4, <1>5, <1>6 DEF Line

LEMMA LineSend ==
    ASSUME PowerShape, Line, Send
    PROVE  Line'
<1>1. /\ task.at = "Sending" /\ task'.at # "Timing" /\ UNCHANGED <<poll, gpio, signals, edges>>
  BY TaskFields DEF Send
<1>2. UNCHANGED <<BeforeSignals, BeforeGpio>>
  BY <1>1 DEF BeforeSignals, BeforeGpio
<1>3. UNCHANGED <<BeforeEdges, LastTold>>
  BY <1>1, <1>2 DEF BeforeEdges, LastTold
<1>4. QED
  BY <1>1, <1>2, <1>3 DEF Line, Undisturbed, Alternates, ReleaseIsInTime

LEMMA LineSample ==
    ASSUME PowerShape, Line, Sample
    PROVE  Line'
<1>1. PICK e \in Seq(Level \cup {"Other"}), w \in Level \cup {Absent} :
             /\ \/ e = edges /\ w = poll.waiting /\ (w = Absent \/ Len(edges) >= EdgeCap)
                \/ /\ e = Append(edges, poll.waiting) /\ w = Absent
                   /\ poll.waiting \in Level /\ Len(edges) < EdgeCap
             /\ \/ edges' = e /\ poll'.waiting = w /\ poll'.confirmed = poll.confirmed
                \/ /\ poll.confirmed # pin /\ poll'.confirmed = pin
                   /\ \/ /\ w \in Level /\ edges' = e
                         /\ poll'.waiting = IF w = "Down" \/ pin = "Up" THEN pin ELSE w
                      \/ /\ w = Absent /\ Len(e) < EdgeCap
                         /\ edges' = Append(e, pin) /\ poll'.waiting = Absent
                      \/ w = Absent /\ Len(e) >= EdgeCap /\ edges' = e /\ poll'.waiting = pin
             /\ poll'.alive = poll.alive /\ poll'.seeded = poll.seeded /\ poll'.sampled = TRUE
             /\ ~poll.sampled
  BY SampleTells
<1>2. /\ UNCHANGED <<pin, gpio, signals, task, longest>> /\ pin \in Level /\ poll.confirmed \in Level
      /\ poll.waiting \in Level \cup {Absent} /\ Absent \notin Level
  BY DEF Sample, PowerShape, Polling, Absent, Level
<1>3. UNCHANGED <<BeforeSignals, BeforeGpio, BeforeEdges>> /\ BeforeEdges \in Level
  BY <1>2, LineLevels DEF BeforeSignals, BeforeGpio, BeforeEdges
<1> DEFINE T == LastLevel(e, BeforeEdges)
\* What the retry leaves.
<1>4. /\ T \in Level /\ Spaced(e, BeforeEdges)
      /\ w = "Down" => T = "Up" /\ poll.confirmed = "Down"
      /\ w = Absent /\ poll.confirmed = "Up" => T = "Up"
      /\ HasUp(e) \/ w = "Up" <=> HasUp(edges) \/ poll.waiting = "Up"
      /\ HasUp(edges) => HasUp(e)
  <2>1. /\ Spaced(edges, BeforeEdges) /\ edges \in Seq(Level \cup {"Other"})
        /\ poll.waiting = "Down" => LastLevel(edges, BeforeEdges) = "Up" /\ poll.confirmed = "Down"
        /\ poll.waiting = Absent /\ poll.confirmed = "Up" => LastLevel(edges, BeforeEdges) = "Up"
    BY DEF Line, Alternates, LastTold, PowerShape
  <2>2. CASE e = edges /\ w = poll.waiting
    BY <1>3, <2>1, <2>2, AfterRelease
  <2>3. CASE e = Append(edges, poll.waiting) /\ w = Absent /\ poll.waiting \in Level
    <3>1. /\ HasUp(e) <=> HasUp(edges) \/ poll.waiting = "Up"
          /\ T = Later(poll.waiting, LastLevel(edges, BeforeEdges))
          /\ Spaced(e, BeforeEdges)
      BY <1>3, <2>1, <2>3, AppendTells
    <3>2. T = poll.waiting
      BY <2>3, <3>1 DEF Later
    <3> HIDE DEF T
    <3>3. QED
      BY <1>2, <2>1, <2>3, <3>1, <3>2 DEF Level
  <2>4. QED
    BY <1>1, <2>2, <2>3
<1> HIDE DEF T
\* What the sample leaves.
<1>5. /\ Spaced(edges', BeforeEdges)
      /\ poll'.waiting = "Down" => LastLevel(edges', BeforeEdges) = "Up" /\ poll'.confirmed = "Down"
      /\ poll'.waiting = Absent /\ poll'.confirmed = "Up" => LastLevel(edges', BeforeEdges) = "Up"
      /\ HasUp(e) => HasUp(edges')
      /\ HasUp(e) \/ w = "Up" => HasUp(edges') \/ poll'.waiting = "Up"
  <2>1. CASE edges' = e /\ poll'.waiting = w /\ poll'.confirmed = poll.confirmed
    BY <1>4, <2>1 DEF T
  <2>2. CASE /\ poll.confirmed # pin /\ poll'.confirmed = pin
             /\ w \in Level /\ edges' = e
             /\ poll'.waiting = IF w = "Down" \/ pin = "Up" THEN pin ELSE w
    <3>1. poll'.waiting = "Up"
      BY <1>2, <1>4, <2>2 DEF Level
    <3>2. QED
      BY <1>2, <1>4, <2>2, <3>1 DEF Level
  <2>3. CASE /\ poll.confirmed # pin /\ poll'.confirmed = pin
             /\ w = Absent /\ edges' = Append(e, pin) /\ poll'.waiting = Absent
    <3>1. pin = "Down" => T = "Up"
      BY <1>2, <1>4, <2>3 DEF Level
    <3>2. /\ HasUp(edges') <=> HasUp(e) \/ pin = "Up"
          /\ LastLevel(edges', BeforeEdges) = Later(pin, LastLevel(e, BeforeEdges))
          /\ Spaced(e, BeforeEdges) /\ (pin = "Down" => LastLevel(e, BeforeEdges) = "Up")
                => Spaced(edges', BeforeEdges)
      BY <1>2, <1>3, <2>3, AppendTells
    <3>3. LastLevel(edges', BeforeEdges) = pin
      BY <1>2, <3>2 DEF Later
    <3>4. Spaced(edges', BeforeEdges)
      BY <1>4, <3>1, <3>2 DEF T
    <3>5. QED
      BY <1>2, <2>3, <3>2, <3>3, <3>4 DEF Level, Absent
  <2>4. CASE /\ poll.confirmed # pin /\ poll'.confirmed = pin
             /\ w = Absent /\ edges' = e /\ poll'.waiting = pin
    <3>1. pin = "Down" => T = "Up"
      BY <1>2, <1>4, <2>4 DEF Level
    <3>2. QED
      BY <1>2, <1>4, <2>4, <3>1 DEF Level, T
  <2>5. QED
    BY <1>1, <2>1, <2>2, <2>3, <2>4
<1>6. Alternates'
  <2>1. LastTold' = LastLevel(edges', BeforeEdges)
    BY <1>3 DEF LastTold
  <2>2. QED
    BY <1>2, <1>3, <1>5, <2>1 DEF Line, Alternates
<1>7. /\ UpOnItsWay => UpOnItsWay'
      /\ UpOnItsWay \/ poll.waiting = "Up" => UpOnItsWay' \/ poll'.waiting = "Up"
  BY <1>2, <1>4, <1>5 DEF UpOnItsWay
\* A release that is confirmed early finds room.
<1>8. ASSUME task.at = "Timing", ~UpOnItsWay', task.left < Hold PROVE poll'.waiting # "Up"
  <2>1. gpio.at = "Read" /\ edges = <<>> /\ ~UpOnItsWay
    BY <1>1, <1>7, <1>8 DEF Line, ReleaseIsInTime
  <2>2. LastTold = "Down"
    BY <1>8, <2>1, LineLevels
  <2>3. poll.waiting # "Down"
    BY <2>2 DEF Line, Alternates
  <2>4. Len(edges) = 0 /\ EdgeCap \in Nat \ {0}
    BY <2>1, PowerConstants, EmptySeq
  <2>5. ~HasUp(edges')
    BY <1>8 DEF UpOnItsWay
  <2>6. ~HasUp(e)
    BY <1>5, <2>5
  <2>7. poll.waiting # "Up"
    <3> SUFFICES ASSUME poll.waiting = "Up" PROVE FALSE
      OBVIOUS
    <3>1. w = "Up"
      BY <1>4, <2>6
    <3>2. QED
      BY <1>1, <1>2, <2>4, <3>1 DEF Level
  <2>8. e = edges /\ w = Absent
    BY <1>1, <1>2, <2>3, <2>7 DEF Level
  <2>9. QED
    BY <1>1, <1>2, <2>4, <2>8 DEF Level
<1>9. ReleaseIsInTime'
  BY <1>1, <1>2, <1>7, <1>8 DEF Line, ReleaseIsInTime
<1>10. Undisturbed'
  BY <1>1, <1>2 DEF Line, Undisturbed
<1>11. QED
  BY <1>6, <1>9, <1>10 DEF Line

\* A polling interval shortens the timer by as much as it lengthens the press, unless
\* a release is already on its way.
LEMMA LinePass ==
    ASSUME PowerShape, Line, Pass, Hold > 1
    PROVE  Line'
<1> USE PowerConstants
<1>1. /\ poll'.alive = poll.alive /\ poll'.seeded = poll.seeded /\ poll'.waiting = poll.waiting
      /\ poll'.confirmed = poll.confirmed /\ ~poll'.sampled
      /\ task'.at = task.at /\ task'.left = (IF task.left > 0 THEN task.left - 1 ELSE 0)
      /\ UNCHANGED <<gpio, edges, signals>>
  BY DEF Pass, PowerShape, Polling, TaskStates
<1>2. /\ poll.alive /\ poll.sampled
      /\ gpio.at = "Read" => edges = <<>>
      /\ gpio.at = "Forward" => Len(signals) >= SignalCap
      /\ gpio.at \in {"Read", "Forward"}
      /\ longest' = IF poll.confirmed = "Down" /\ longest < Hold THEN longest + 1 ELSE longest
  BY DEF Pass, Line, Undisturbed
<1>3. longest \in 0..Hold /\ task.left \in 0..Hold /\ poll.confirmed \in Level
      /\ poll.waiting \in Level \cup {Absent}
  BY DEF PowerShape, Polling, TaskStates
<1>4. UNCHANGED <<BeforeSignals, BeforeGpio, BeforeEdges, LastTold, UpOnItsWay>>
  BY <1>1 DEF BeforeSignals, BeforeGpio, BeforeEdges, LastTold, UpOnItsWay
<1>5. Alternates' /\ Undisturbed'
  BY <1>1, <1>4 DEF Line, Alternates, Undisturbed
<1>6. ReleaseIsInTime'
  <2> SUFFICES ASSUME task.at = "Timing" PROVE ReleaseIsInTime'
    BY <1>1 DEF ReleaseIsInTime
  <2>1. CASE HasUp(signals)
    <3>1. UpOnItsWay' /\ HasUp(signals')
      BY <1>1, <1>4, <2>1 DEF UpOnItsWay
    <3>2. QED
      BY <3>1 DEF ReleaseIsInTime
  <2>2. CASE ~HasUp(signals)
    <3>1. gpio.at = "Read" /\ edges = <<>>
      <4> SUFFICES ASSUME gpio.at = "Forward" PROVE FALSE
        BY <1>2
      <4>1. signals \in Seq(Level) /\ Spaced(signals, "Down") /\ Len(signals) \in Nat
        BY LenProperties DEF Line, Undisturbed, Alternates, BeforeSignals
      <4>2. 1 \in 1..Len(signals)
        BY <1>2, <4>1
      <4>3. signals[1] \in Level
        BY <4>1, <4>2, ElementOfSeq
      <4>4. signals[1] = "Down"
        BY <2>2, <4>2, <4>3 DEF HasUp, Level
      <4>5. \E k \in 1..(1 - 1) : signals[k] = "Up"
        BY <4>1, <4>2, <4>4 DEF Spaced
      <4>6. QED
        BY <4>5
    <3>2. ~UpOnItsWay
      <4>1. ~HasUp(<<>>)
        BY EmptyTells DEF Level
      <4>2. QED
        BY <2>2, <3>1, <4>1 DEF UpOnItsWay
    <3>3. LastTold = "Down"
      BY <3>2, LineLevels
    <3>4. poll.waiting = "Up" \/ poll.confirmed = "Down"
      BY <1>3, <3>3 DEF Line, Alternates, Level
    <3>5. CASE poll.waiting = "Up"
      <4>1. task.left = Hold
        BY <1>2, <1>3, <3>2, <3>5 DEF Line, ReleaseIsInTime
      <4>2. task'.left >= 1
        BY <1>1, <4>1
      <4>3. QED
        BY <1>1, <3>1, <3>5, <4>2 DEF ReleaseIsInTime
    <3>6. CASE poll.waiting # "Up" /\ poll.confirmed = "Down"
      <4>1. longest + task.left >= Hold
        BY <2>2, <3>2, <3>6 DEF Line, ReleaseIsInTime
      <4>2. longest' + task'.left >= Hold
        BY <1>1, <1>2, <1>3, <3>6, <4>1
      <4>3. QED
        BY <1>1, <3>1, <3>6, <4>2 DEF ReleaseIsInTime
    <3>7. QED
      BY <3>4, <3>5, <3>6
  <2>3. QED
    BY <2>1, <2>2
<1>7. QED
  BY <1>5, <1>6 DEF Line

LEMMA PowerLineKept ==
    ASSUME PowerShape, losses = 0 => Line, [PowerNext]_powerVars, Hold > 1
    PROVE  losses' = 0 => Line'
<1> SUFFICES ASSUME losses' = 0 PROVE Line'
  OBVIOUS
<1>1. CASE StreamLost
  <2>1. losses \in Nat /\ losses' = losses + 1
    BY <1>1, PowerConstants DEF StreamLost, PowerShape
  <2>2. QED
    BY <2>1
<1>2. CASE ~StreamLost
  <2>1. losses = 0
    BY <1>2 DEF PowerNext, powerVars, Press, Release, OtherEdge, Wedge, Seed, Sample, GpioTask,
                GpioReads, GpioForwards, GpioLoses, Reconcile, GpioStays, Rebuild,
                PowerButtonTask, TaskTakes, TaskHears, TimerFires, Send, TaskStays, Pass
  <2>2. Line /\ Undisturbed
    BY <2>1 DEF Line
  <2>3. ~Seed /\ ~GpioLoses /\ ~Reconcile /\ ~Rebuild
    BY <2>2 DEF Undisturbed, Seed, GpioLoses, Reconcile, Rebuild
  <2>4. CASE Press \/ Release \/ Wedge \/ UNCHANGED powerVars
    <3>1. UNCHANGED <<poll, gpio, signals, edges, task, longest>>
      BY <2>4 DEF Press, Release, Wedge, powerVars
    <3>2. QED
      BY <2>2, <3>1, LineUnmoved
  <2>5. QED
    BY <1>2, <2>2, <2>3, <2>4, LineOtherEdge, LineSample, LineGpioReads, LineGpioForwards,
       LineTaskTakes, LineTaskHears, LineTimerFires, LineSend, LinePass
       DEF PowerNext, GpioTask, PowerButtonTask
<1>3. QED
  BY <1>1, <1>2

\* A step to a power-off comes from a press that was held.
LEMMA HeldInTime ==
    ASSUME PowerShape, losses = 0 => Line, [PowerNext]_powerVars,
           task'.event = "PowerButtonHeld", task.at # "Sending", losses = 0
    PROVE  longest >= Hold
<1>1. task.event = Absent /\ Absent # "PowerButtonHeld"
  BY DEF PowerShape, TaskStates, Absent
<1>2. TimerFires
  <2>1. CASE TaskTakes
    BY <1>1, <2>1, TaskFields DEF TaskTakes
  <2>2. CASE TaskHears
    <3>1. signals \in Seq(Signal) /\ signals # <<>>
      BY <2>2 DEF PowerShape, TaskHears
    <3>2. Head(signals) \in Signal
      BY <3>1, HeadTailProperties
    <3>3. task' \in {task, Sending("PowerButtonPressed"), Task("Idle")}
      BY <2>2, <3>2 DEF TaskHears, Signal, Level
    <3>4. QED
      BY <1>1, <3>3, TaskFields DEF Events
  <2>3. CASE Pass
    BY <1>1, <2>3 DEF Pass, PowerShape, TaskStates
  <2>4. ~Send
    BY DEF Send
  <2>5. CASE UNCHANGED task
    BY <1>1, <2>5
  <2>6. QED
    BY <2>1, <2>2, <2>3, <2>4, <2>5
       DEF PowerNext, powerVars, Press, Release, OtherEdge, Wedge, Seed, Sample, StreamLost,
           GpioTask, GpioReads, GpioForwards, GpioLoses, Reconcile, GpioStays, Rebuild,
           PowerButtonTask
<1>3. task.at = "Timing" /\ task.left = 0 /\ ~HasUp(signals)
  <2>1. task' # Sending("PowerButtonPressed") /\ task' # Task("Idle")
    BY <1>1, TaskFields DEF Events
  <2>2. \A i \in 1..Len(signals) : signals[i] = "Down"
    BY <1>2, <2>1, TimerTells
  <2>3. QED
    BY <1>2, <2>2, TimerTells DEF HasUp
<1>4. longest + 0 >= Hold
  BY <1>3 DEF Line, ReleaseIsInTime
<1>5. QED
  BY <1>4, PowerConstants DEF PowerShape

\* No press of the button acts twice and nothing else acts, and the power goes off only
\* when the button was down for the whole threshold, for any queues, window and threshold
\* of more than one polling interval: a release that came in time reaches
\* power_button_task before its timer, through every queue (poll_edges, gpio_task).
THEOREM PowerOffIsHeld == ASSUME Hold > 1 PROVE PowerSpec => ButtonIsTrue
<1>1. PowerInit => PowerSound
  BY InitPower
<1>2. PowerSound /\ [PowerNext]_powerVars => PowerSound'
  <2> SUFFICES ASSUME PowerSound, [PowerNext]_powerVars PROVE PowerSound'
    OBVIOUS
  <2>1. PowerShape /\ (losses = 0 => Line)
    BY DEF PowerSound, Line
  <2>2. losses' = 0 => Line'
    BY <2>1, PowerLineKept
  <2>3. QED
    BY <2>2, PowerShapeKept, PressesSpentKept DEF PowerSound, Line
<1>3. PowerSound => PowerTypeOK /\ EachPressActsOnce
  BY OnceIsTrue DEF PowerSound
<1>4. PowerSound /\ [PowerNext]_powerVars
        => [task'.event = "PowerButtonHeld" /\ task.at # "Sending" /\ losses = 0
              => longest >= Hold]_powerVars
  BY HeldInTime DEF PowerSound, Line
<1>5. QED
  BY <1>1, <1>2, <1>3, <1>4, PTL DEF PowerSpec, ButtonIsTrue, HeldMeansHeld

----------------------------------------------------------------------------
(* Start-up *)

Own(bcm, roles) == \A a, b \in roles : bcm[a] = bcm[b] => a = b

\* A configuration whose adapters are built has a pin for each role and a threshold; what
\* the unit has checked still holds when it loads and builds, unless something changed.
StartupSound ==
    /\ StartupTypeOK /\ PinsFailForOthers /\ DefaultsOnlyWithoutFile
    /\ at \in {"probe", "adapters"} => Own(config.bcm, ClaimedRoles(config))
    /\ at \in {"probe", "adapters", "runtime", "loop"} /\ config.button => config.hold_ms > 0
    /\ by = "unit" /\ ~changed /\ at \in {"probe", "load", "adapters"} =>
         /\ config_path_to_read # "error" /\ validate_config(Loaded) /\ config = Loaded
         /\ at # "probe" => /\ Claims(config, InputRoles(config))
                            /\ config.led => Claims(config, {"status_led"})

LEMMA OwnPins ==
    ASSUME NEW bcm, NEW roles
    PROVE  IsInjective(Restrict(bcm, roles)) <=> Own(bcm, roles)
  BY DEF IsInjective, Restrict, Own

LEMMA StartupTypes ==
    /\ Default \in Configs /\ NoFlags \in Flags /\ DefaultHold \in Nat \ {0}
    /\ Settings \subseteq Configs /\ MaxChanges \in Nat /\ Booted \in Nat
    /\ \A c \in Configs :
         /\ c.button \in BOOLEAN /\ c.led \in BOOLEAN /\ c.hold_ms \in Nat /\ c.mock \in BOOLEAN
         /\ c.simulator \in BOOLEAN
         /\ \A v \in BOOLEAN : [c EXCEPT !.button = v] \in Configs
         /\ \A h \in Nat : [c EXCEPT !.button = TRUE, !.hold_ms = h] \in Configs
<1>1. Default \in Configs
  BY StartupAssumption DEF Default, Configs, PinRoles
<1>2. NoFlags \in Flags
  BY DEF NoFlags, Flags
<1>3. ASSUME NEW c \in Configs
      PROVE  /\ c.button \in BOOLEAN /\ c.led \in BOOLEAN /\ c.hold_ms \in Nat /\ c.mock \in BOOLEAN
             /\ c.simulator \in BOOLEAN
             /\ \A v \in BOOLEAN : [c EXCEPT !.button = v] \in Configs
             /\ \A h \in Nat : [c EXCEPT !.button = TRUE, !.hold_ms = h] \in Configs
  <2>1. /\ c.button \in BOOLEAN /\ c.led \in BOOLEAN /\ c.hold_ms \in Nat /\ c.mock \in BOOLEAN
        /\ c.simulator \in BOOLEAN
    BY DEF Configs
  <2>2. \A v \in BOOLEAN : [c EXCEPT !.button = v] \in Configs
    BY Zenon DEF Configs
  <2>3. \A h \in Nat : [c EXCEPT !.button = TRUE, !.hold_ms = h] \in Configs
    BY Zenon DEF Configs
  <2>4. QED
    BY <2>1, <2>2, <2>3
<1>4. QED
  BY <1>1, <1>2, <1>3, StartupAssumption

LEMMA LoadedTypes ==
    ASSUME settings \in Settings, override \in Overrides
    PROVE  Loaded \in Configs
<1>1. (IF config_path_to_read = "file" THEN settings ELSE Default) \in Configs
  BY StartupTypes
<1>2. \A c \in Configs : apply_env_overrides(c) \in Configs
  BY StartupTypes DEF apply_env_overrides
<1>3. QED
  BY <1>1, <1>2 DEF Loaded

LEMMA InitStartup == StartupInit => StartupSound
<1> SUFFICES ASSUME StartupInit PROVE StartupSound
  OBVIOUS
<1>1. /\ audio \in BOOLEAN /\ disk \in BOOLEAN /\ changed \in BOOLEAN /\ mock \in BOOLEAN
      /\ ready \in BOOLEAN
  BY DEF StartupInit
<1>2. /\ changes \in 0..MaxChanges /\ boots \in 0..Booted /\ config \in Configs /\ flags \in Flags
      /\ taken \subseteq Pins
  <2>1. changes \in 0..MaxChanges /\ boots \in 0..Booted
    BY StartupAssumption DEF StartupInit
  <2>2. config \in Configs /\ flags \in Flags /\ taken \subseteq Pins
    BY StartupTypes DEF StartupInit
  <2>3. QED
    BY <2>1, <2>2
<1>3. StartupTypeOK
  BY <1>1, <1>2 DEF StartupInit, StartupTypeOK, Steps
<1>4. QED
  BY <1>3 DEF StartupInit, StartupSound, PinsFailForOthers, DefaultsOnlyWithoutFile

\* The world is the same, and so is what would be loaded from it.
LEMMA WorldUnmoved ==
    ASSUME UNCHANGED world
    PROVE  /\ Loaded' = Loaded /\ config_path_to_read' = config_path_to_read
           /\ validate_config(Loaded)' <=> validate_config(Loaded)
           /\ UNCHANGED <<file, settings, override, taken, audio, disk>>
  BY DEF world, Loaded, config_path_to_read, apply_env_overrides, validate_config, ClaimedRoles,
         InputRoles

\* A load takes a configuration that is valid, or fails.
LEMMA LoadTells ==
    ASSUME StartupTypeOK, NEW next \in Steps \ {"failed"}, load_config(next)
    PROVE  \/ /\ config_path_to_read # "error" /\ validate_config(Loaded)
              /\ config' = Loaded /\ config' \in Configs /\ at' = next /\ UNCHANGED <<why, boots>>
              /\ source' = config_path_to_read /\ source' \in {"file", "defaults"}
              /\ source' = "defaults" => file = "absent"
              /\ Own(config'.bcm, ClaimedRoles(config')) /\ (config'.button => config'.hold_ms > 0)
           \/ /\ ~(config_path_to_read # "error" /\ validate_config(Loaded))
              /\ at' = "failed" /\ why' = "config" /\ UNCHANGED <<config, source, boots>>
<1>1. CASE config_path_to_read # "error" /\ validate_config(Loaded)
  <2>1. /\ config' = Loaded /\ source' = config_path_to_read /\ at' = next /\ UNCHANGED <<why, boots>>
    BY <1>1 DEF load_config
  <2>2. Loaded \in Configs
    BY LoadedTypes DEF StartupTypeOK
  <2>3. config_path_to_read \in {"file", "defaults"} /\ (config_path_to_read = "defaults" => file = "absent")
    BY <1>1 DEF config_path_to_read, StartupTypeOK
  <2>4. /\ Own(Loaded.bcm, ClaimedRoles(Loaded)) /\ (Loaded.button => Loaded.hold_ms > 0)
    BY <1>1, OwnPins DEF validate_config
  <2>5. QED
    BY <1>1, <2>1, <2>2, <2>3, <2>4
<1>2. CASE ~(config_path_to_read # "error" /\ validate_config(Loaded))
  BY <1>2 DEF load_config
<1>3. QED
  BY <1>1, <1>2

\* When the pins of a valid configuration fail, another has one of them.
LEMMA TakenByOthers ==
    ASSUME config \in Configs, Own(config.bcm, ClaimedRoles(config))
    PROVE  /\ ~Claims(config, InputRoles(config))
                => \E r \in ClaimedRoles(config) : config.bcm[r] \in taken
           /\ config.led /\ ~Claims(config, {"status_led"})
                => \E r \in ClaimedRoles(config) : config.bcm[r] \in taken
<1>1. \A roles \in SUBSET ClaimedRoles(config) :
         ~Claims(config, roles) => \E r \in ClaimedRoles(config) : config.bcm[r] \in taken
  <2> SUFFICES ASSUME NEW roles \in SUBSET ClaimedRoles(config), ~Claims(config, roles)
               PROVE  \E r \in ClaimedRoles(config) : config.bcm[r] \in taken
    OBVIOUS
  <2>1. Own(config.bcm, roles)
    BY DEF Own
  <2>2. IsInjective(Restrict(config.bcm, roles))
    BY <2>1, OwnPins
  <2>3. QED
    BY <2>2 DEF Claims
<1>2. /\ InputRoles(config) \in SUBSET ClaimedRoles(config)
      /\ config.led => {"status_led"} \in SUBSET ClaimedRoles(config)
  BY DEF ClaimedRoles
<1>3. QED
  BY <1>1, <1>2

LEMMA StartupTypesKept == StartupTypeOK /\ [StartupNext]_startupVars => StartupTypeOK'
<1> SUFFICES ASSUME StartupTypeOK, [StartupNext]_startupVars PROVE StartupTypeOK'
  OBVIOUS
<1>0. /\ settings \in Settings /\ config \in Configs /\ flags \in Flags /\ taken \subseteq Pins
      /\ changes \in 0..MaxChanges /\ boots \in 0..Booted
      /\ audio \in BOOLEAN /\ disk \in BOOLEAN /\ changed \in BOOLEAN /\ mock \in BOOLEAN
      /\ ready \in BOOLEAN
  BY DEF StartupTypeOK
<1>1. CASE Check
  <2>1. "probe" \in Steps \ {"failed"}
    BY DEF Steps
  <2>2. \/ /\ config' \in Configs /\ at' = "probe" /\ source' \in {"file", "defaults"}
           /\ UNCHANGED <<why, boots>>
        \/ at' = "failed" /\ why' = "config" /\ UNCHANGED <<config, source, boots>>
    BY <1>1, <2>1, LoadTells DEF Check
  <2>3. UNCHANGED <<file, settings, override, taken, audio, disk, changes, changed, by, flags,
                    surface, mock, ready>>
    BY <1>1 DEF Check, world, mode
  <2>4. QED
    BY <2>2, <2>3 DEF StartupTypeOK, Steps
<1>2. CASE run_cli
  <2>1. "adapters" \in Steps \ {"failed"}
    BY DEF Steps
  <2>2. \/ /\ config' \in Configs /\ at' = "adapters" /\ source' \in {"file", "defaults"}
           /\ UNCHANGED <<why, boots>>
        \/ at' = "failed" /\ why' = "config" /\ UNCHANGED <<config, source, boots>>
    BY <1>2, <2>1, LoadTells DEF run_cli
  <2>3. UNCHANGED <<file, settings, override, taken, audio, disk, changes, changed, by, flags, ready>>
    BY <1>2 DEF run_cli, world
  <2>4. mock' \in BOOLEAN /\ surface' \in {"headless", "monitor", "simulator"}
    <3>1. flags.mock \in BOOLEAN /\ config'.mock \in BOOLEAN
      BY <1>0, <2>2, StartupTypes DEF Flags
    <3>2. QED
      BY <1>2, <3>1 DEF run_cli
  <2>5. QED
    BY <2>2, <2>3, <2>4 DEF StartupTypeOK, Steps
<1>3. CASE check_runtime \/ build_pi_adapters \/ build_mock_adapters
  <2>1. /\ \/ at' = "failed" /\ why' \in {"gpio", "led", "disk"}
           \/ at' \in {"load", "runtime"} /\ why' = why
        /\ UNCHANGED <<file, settings, override, taken, audio, disk, changes, changed, by, flags,
                       surface, mock, config, source, ready, boots>>
    BY <1>3 DEF check_runtime, build_pi_adapters, build_mock_adapters, Fails, Proceeds, world, mode
  <2>2. QED
    BY <2>1 DEF StartupTypeOK, Steps
<1>4. CASE run_simulator
  <2>1. RepairsHold(config) \in Configs
    BY <1>0, StartupTypes DEF RepairsHold
  <2>2. /\ \/ at' = "failed" /\ why' = "disk" /\ config' = config
           \/ at' = "runtime" /\ why' = why /\ config' = RepairsHold(config)
        /\ UNCHANGED <<file, settings, override, taken, audio, disk, changes, changed, by, flags,
                       surface, mock, source, ready, boots>>
    BY <1>4 DEF run_simulator, Fails, Proceeds, world, mode
  <2>3. QED
    BY <1>0, <2>1, <2>2 DEF StartupTypeOK, Steps
<1>5. CASE run_runtime
  <2>1. /\ \/ at' = "failed" /\ why' = "disk" /\ ready' = ready
           \/ at' = "loop" /\ why' = why /\ ready' \in BOOLEAN
        /\ UNCHANGED <<file, settings, override, taken, audio, disk, changes, changed, by, flags,
                       surface, mock, config, source, boots>>
    BY <1>5 DEF run_runtime, Fails, Proceeds, world, mode
  <2>2. QED
    BY <2>1 DEF StartupTypeOK, Steps
<1>6. CASE Started \/ Restarts
  <2>1. /\ by' \in {"unit", "shell"} /\ flags' \in Flags /\ at' \in {"check", "load"}
        /\ why' = "nothing" /\ ready' = FALSE /\ source' = "none" /\ changed' = FALSE
        /\ UNCHANGED <<file, settings, override, taken, audio, disk, changes, config, surface, mock>>
    BY <1>6, StartupTypes DEF Started, Restarts, Begins, world, mode
  <2>2. boots' \in 0..Booted
    BY <1>0, <1>6, StartupAssumption DEF Started, Restarts
  <2>3. QED
    BY <2>1, <2>2 DEF StartupTypeOK, Steps
<1>7. CASE GivesUp \/ Stops
  <2>1. /\ at' = "off" /\ ready' \in {ready, FALSE}
        /\ UNCHANGED <<file, settings, override, taken, audio, disk, changes, changed, by, flags,
                       config, source, surface, mock, why, boots>>
    BY <1>7 DEF GivesUp, Stops, world, mode
  <2>2. QED
    BY <2>1 DEF StartupTypeOK, Steps
<1>8. CASE StartTimesOut \/ Crashes
  <2>1. /\ at' = "failed" /\ why' \in {"timeout", "crash"}
        /\ UNCHANGED <<file, settings, override, taken, audio, disk, changes, changed, by, flags,
                       config, source, surface, mock, ready>>
    BY <1>8 DEF StartTimesOut, Crashes, Fails, world, mode
  <2>2. boots' \in 0..Booted
    BY <1>0, <1>8, StartupAssumption DEF StartTimesOut, Crashes, Fails
  <2>3. QED
    BY <2>1, <2>2 DEF StartupTypeOK, Steps
<1>9. CASE Change
  <2>1. /\ changes' \in 0..MaxChanges /\ changed' = TRUE
        /\ UNCHANGED <<by, flags, at, config, source, surface, mock, why, ready, boots>>
    BY <1>0, <1>9, StartupAssumption DEF Change, process, mode
  <2>2. /\ file' \in {"absent", "unreadable", "present"} /\ settings' \in Settings
        /\ override' \in Overrides /\ taken' \subseteq Pins
    BY <1>0, <1>9 DEF Change, StartupTypeOK
  <2>3. audio' \in BOOLEAN /\ disk' \in BOOLEAN
    BY <1>0, <1>9 DEF Change
  <2>4. QED
    BY <2>1, <2>2, <2>3 DEF StartupTypeOK
<1>10. CASE UNCHANGED startupVars
  BY <1>10 DEF startupVars, world, process, mode, StartupTypeOK
<1>11. QED
  BY <1>1, <1>2, <1>3, <1>4, <1>5, <1>6, <1>7, <1>8, <1>9, <1>10 DEF StartupNext, Process

LEMMA StartupKept == StartupSound /\ [StartupNext]_startupVars => StartupSound'
<1> SUFFICES ASSUME StartupSound, [StartupNext]_startupVars PROVE StartupSound'
  OBVIOUS
<1>0. StartupTypeOK /\ StartupTypeOK' /\ config \in Configs
  BY StartupTypesKept DEF StartupSound, StartupTypeOK
<1>1. CASE Check \/ run_cli
  <2>1. PICK next \in {"probe", "adapters"} : load_config(next)
    BY <1>1 DEF Check, run_cli
  <2>2. next \in Steps \ {"failed"}
    BY DEF Steps
  <2>3. UNCHANGED <<world, changed, by, file>> /\ at # "failed"
    BY <1>1 DEF Check, run_cli, world
  <2>4. CASE at' = "failed"
    <3>1. why' = "config" /\ UNCHANGED <<config, source>>
      BY <1>0, <2>1, <2>2, <2>4, LoadTells
    <3>2. QED
      BY <1>0, <2>3, <2>4, <3>1 DEF StartupSound, PinsFailForOthers, DefaultsOnlyWithoutFile
  <2>5. CASE at' # "failed"
    <3>1. /\ config_path_to_read # "error" /\ validate_config(Loaded) /\ config' = Loaded
          /\ at' = next /\ (source' = "defaults" => file = "absent")
          /\ Own(config'.bcm, ClaimedRoles(config')) /\ (config'.button => config'.hold_ms > 0)
      BY <1>0, <2>1, <2>2, <2>5, LoadTells
    <3>2. /\ Loaded' = Loaded /\ config_path_to_read' # "error" /\ validate_config(Loaded)'
      BY <2>3, <3>1, WorldUnmoved
    <3>3. ASSUME by' = "unit", ~changed', at' = "adapters"
          PROVE  Claims(config, InputRoles(config))' /\ (config.led => Claims(config, {"status_led"}))'
      <4>1. at = "load"
        BY <1>1, <2>2, <3>1, <3>3, LoadTells, <1>0 DEF Check, run_cli, Steps
      <4>2. /\ config = Loaded /\ Claims(config, InputRoles(config))
            /\ config.led => Claims(config, {"status_led"})
        BY <2>3, <3>3, <4>1 DEF StartupSound
      <4>3. config' = config /\ taken' = taken
        BY <2>3, <3>1, <4>2 DEF world
      <4>4. QED
        BY <4>2, <4>3 DEF Claims, InputRoles
    <3>4. QED
      BY <1>0, <2>3, <2>5, <3>1, <3>2, <3>3
         DEF StartupSound, PinsFailForOthers, DefaultsOnlyWithoutFile
  <2>6. QED
    BY <2>4, <2>5
<1>2. CASE check_runtime \/ build_pi_adapters
  <2>1. /\ UNCHANGED <<world, changed, by, config, source>>
        /\ Own(config.bcm, ClaimedRoles(config)) /\ (config.button => config.hold_ms > 0)
    BY <1>2 DEF check_runtime, build_pi_adapters, Fails, Proceeds, StartupSound
  <2>2. /\ Loaded' = Loaded /\ config_path_to_read' = config_path_to_read
        /\ validate_config(Loaded)' <=> validate_config(Loaded)
        /\ UNCHANGED <<file, taken>>
    BY <2>1, WorldUnmoved
  <2>3. /\ (\E r \in ClaimedRoles(config) : config.bcm[r] \in taken)
              => (\E r \in ClaimedRoles(config) : config.bcm[r] \in taken)'
        /\ Claims(config, InputRoles(config))' <=> Claims(config, InputRoles(config))
        /\ (config.led => Claims(config, {"status_led"}))' <=> (config.led => Claims(config, {"status_led"}))
    BY <2>1, <2>2 DEF ClaimedRoles, InputRoles, Claims
  <2>4. CASE at' = "failed"
    <3>1. why' \in {"gpio", "led"} => \E r \in ClaimedRoles(config) : config.bcm[r] \in taken
      BY <1>0, <1>2, <2>1, <2>4, TakenByOthers
         DEF check_runtime, build_pi_adapters, Fails, Proceeds
    <3>2. QED
      BY <1>0, <2>1, <2>2, <2>3, <2>4, <3>1 DEF StartupSound, PinsFailForOthers, DefaultsOnlyWithoutFile
  <2>5. CASE at' # "failed"
    <3>1. /\ at' \in {"load", "runtime"}
          /\ Claims(config, InputRoles(config)) /\ (config.led => Claims(config, {"status_led"}))
          /\ at' = "load" => at = "probe"
      BY <1>2, <2>5 DEF check_runtime, build_pi_adapters, Fails, Proceeds
    <3>2. QED
      BY <1>0, <2>1, <2>2, <2>3, <2>5, <3>1
         DEF StartupSound, PinsFailForOthers, DefaultsOnlyWithoutFile
  <2>6. QED
    BY <2>4, <2>5
<1>3. CASE build_mock_adapters
  <2>1. /\ UNCHANGED <<file, changed, by, config, source>> /\ at = "adapters" /\ at' = "runtime"
    BY <1>3 DEF build_mock_adapters, Proceeds, world
  <2>2. QED
    BY <1>0, <2>1 DEF StartupSound, PinsFailForOthers, DefaultsOnlyWithoutFile
<1>4. CASE run_simulator
  <2>1. /\ UNCHANGED <<file, changed, by, source>> /\ at = "adapters"
        /\ \/ at' = "failed" /\ why' = "disk"
           \/ at' = "runtime" /\ config' = RepairsHold(config)
    BY <1>4 DEF run_simulator, Fails, Proceeds, world
  <2>2. RepairsHold(config).hold_ms > 0
    <3>1. CASE config.button
      BY <2>1, <3>1 DEF RepairsHold, StartupSound
    <3>2. CASE ~config.button
      <4>1. config.hold_ms \in Nat /\ DefaultHold \in Nat \ {0}
        BY <1>0, StartupTypes
      <4>2. RepairsHold(config).hold_ms = IF config.hold_ms = 0 THEN DefaultHold ELSE config.hold_ms
        BY <1>0, <3>2 DEF RepairsHold, Configs
      <4>3. QED
        BY <4>1, <4>2
    <3>3. QED
      BY <3>1, <3>2
  <2>3. QED
    BY <1>0, <2>1, <2>2 DEF StartupSound, PinsFailForOthers, DefaultsOnlyWithoutFile
<1>5. CASE run_runtime
  <2>1. /\ UNCHANGED <<file, changed, by, source, config>> /\ at = "runtime"
        /\ (at' = "failed" /\ why' = "disk") \/ at' = "loop"
    BY <1>5 DEF run_runtime, Fails, Proceeds, world
  <2>2. QED
    BY <1>0, <2>1 DEF StartupSound, PinsFailForOthers, DefaultsOnlyWithoutFile
<1>6. CASE Started \/ Restarts
  <2>1. /\ source' = "none" /\ (by' = "unit" => at' = "check") /\ at' \in {"check", "load"}
    BY <1>6 DEF Started, Restarts, Begins
  <2>2. QED
    BY <1>0, <2>1 DEF StartupSound, PinsFailForOthers, DefaultsOnlyWithoutFile
<1>7. CASE GivesUp \/ Stops \/ StartTimesOut \/ Crashes
  <2>1. /\ UNCHANGED <<file, changed, source>>
        /\ at' = "off" \/ (at' = "failed" /\ why' \in {"timeout", "crash"})
    BY <1>7 DEF GivesUp, Stops, StartTimesOut, Crashes, Fails, world
  <2>2. QED
    BY <1>0, <2>1 DEF StartupSound, PinsFailForOthers, DefaultsOnlyWithoutFile
<1>8. CASE Change
  <2>1. changed' = TRUE /\ UNCHANGED <<at, config>>
    BY <1>8 DEF Change, process
  <2>2. QED
    BY <1>0, <2>1 DEF StartupSound, PinsFailForOthers, DefaultsOnlyWithoutFile, ClaimedRoles, InputRoles
<1>9. CASE UNCHANGED startupVars
  <2>1. UNCHANGED <<world, changed, by, at, config, source, why, file, taken>>
    BY <1>9 DEF startupVars, process, world
  <2>2. /\ Loaded' = Loaded /\ config_path_to_read' = config_path_to_read
        /\ validate_config(Loaded)' <=> validate_config(Loaded)
    BY <2>1, WorldUnmoved
  <2>3. /\ Claims(config, InputRoles(config))' <=> Claims(config, InputRoles(config))
        /\ (config.led => Claims(config, {"status_led"}))' <=> (config.led => Claims(config, {"status_led"}))
        /\ ClaimedRoles(config)' = ClaimedRoles(config)
    BY <2>1 DEF ClaimedRoles, InputRoles, Claims
  <2>4. QED
    BY <1>0, <2>1, <2>2, <2>3 DEF StartupSound, PinsFailForOthers, DefaultsOnlyWithoutFile
<1>10. QED
  BY <1>1, <1>2, <1>3, <1>4, <1>5, <1>6, <1>7, <1>8, <1>9 DEF StartupNext, Process

\* What the check let pass fails of the disk only.
LEMMA CheckCovers ==
    ASSUME StartupSound, [StartupNext]_startupVars,
           at \in {"load", "adapters"}, at' = "failed", by = "unit", ~changed
    PROVE  why' = "disk"
<1>1. /\ StartupTypeOK /\ config_path_to_read # "error" /\ validate_config(Loaded)
      /\ Claims(config, InputRoles(config)) /\ (config.led => Claims(config, {"status_led"}))
  BY DEF StartupSound
<1>2. ~run_cli
  BY <1>1 DEF run_cli, load_config
<1>3. CASE build_pi_adapters
  BY <1>1, <1>3 DEF build_pi_adapters, Fails, Proceeds
<1>4. CASE run_simulator
  BY <1>4 DEF run_simulator, Fails, Proceeds
<1>5. QED
  BY <1>2, <1>3, <1>4
     DEF StartupNext, Process, Check, check_runtime, build_mock_adapters, run_runtime, Proceeds,
         Started, Restarts, GivesUp, StartTimesOut, Crashes, Stops, Change, process, startupVars

\* For any configurations, flags and changes of the hardware: a configuration that is
\* accepted never stands in its own way, the threshold of the button is positive, built-in
\* defaults stand in for no file only, and what `check` let pass does not keep `run` from
\* its pins (load_config, check_runtime, build_pi_adapters, run_simulator).
THEOREM AcceptedConfigurationsRun == StartupSpec => StartsAsConfigured
<1>1. StartupInit => StartupSound
  BY InitStartup
<1>2. StartupSound /\ [StartupNext]_startupVars => StartupSound'
  BY StartupKept
<1>3. StartupSound
        => StartupTypeOK /\ PinsFailForOthers /\ HoldIsPositive /\ DefaultsOnlyWithoutFile
  BY DEF StartupSound, HoldIsPositive
<1>4. StartupSound /\ [StartupNext]_startupVars
        => [(at \in {"load", "adapters"} /\ at' = "failed" /\ by = "unit" /\ ~changed)
              => why' = "disk"]_startupVars
  BY CheckCovers
<1>5. QED
  BY <1>1, <1>2, <1>3, <1>4, PTL DEF StartupSpec, StartsAsConfigured, CheckCoversPins

----------------------------------------------------------------------------
(* The simulator: records and edges on their way *)

FeedRecords == Edges \cup [role : {"state"}, value : Phases]
Fall(e) == e.role = "RotaryPulse" /\ e.value = FALSE

\* The level of a kind that was told before place i of s, which begins after b.
Told(s, kind, b, i, v) ==
    \/ v = b /\ \A j \in 1..(i - 1) : s[j].role # kind
    \/ \E j \in 1..(i - 1) : /\ s[j].role = kind /\ s[j].value = v
                             /\ \A m \in (j + 1)..(i - 1) : s[m].role # kind
Ends(s, kind, b, v) == Told(s, kind, b, Len(s) + 1, v)

\* The hook edges that move the hook, and the falling edges after place i.
Moves(s, b, i) == s[i].role = "Hook" /\ ~Told(s, "Hook", b, i, s[i].value)
FallsAfter(s, i) == {j \in 1..Len(s) : j > i /\ Fall(s[j])}
FallsFrom(s, i) == Cardinality(FallsAfter(s, i))

LEMMA ToldAfterAppend ==
    ASSUME NEW S, NEW s \in Seq(S), NEW r \in S, NEW kind, NEW b, NEW v
    PROVE  /\ \A i \in 1..(Len(s) + 1) :
                 Told(Append(s, r), kind, b, i, v) <=> Told(s, kind, b, i, v)
           /\ r.role = kind => (Ends(Append(s, r), kind, b, v) <=> v = r.value)
           /\ r.role # kind => (Ends(Append(s, r), kind, b, v) <=> Ends(s, kind, b, v))
<1> DEFINE t == Append(s, r)
<1>1. /\ Len(t) = Len(s) + 1 /\ Len(s) \in Nat /\ t[Len(s) + 1] = r
      /\ \A i \in 1..Len(s) : t[i] = s[i]
  BY AppendProperties, LenProperties
<1> HIDE DEF t
<1>2. ASSUME NEW i \in 1..(Len(s) + 1)
      PROVE  Told(t, kind, b, i, v) <=> Told(s, kind, b, i, v)
  <2>1. \A j \in 1..(i - 1) : t[j] = s[j]
    BY <1>1
  <2>2. \A j \in 1..(i - 1) : \A m \in (j + 1)..(i - 1) : t[m] = s[m]
    BY <1>1
  <2>3. QED
    BY <2>1, <2>2 DEF Told
<1>3. ASSUME r.role = kind PROVE Ends(t, kind, b, v) <=> v = r.value
  <2>1. ASSUME Ends(t, kind, b, v) PROVE v = r.value
    <3>1. ~ \A j \in 1..(Len(s) + 1) : t[j].role # kind
      BY <1>1, <1>3
    <3>2. PICK j \in 1..(Len(s) + 1) : /\ t[j].value = v
                                       /\ \A m \in (j + 1)..(Len(s) + 1) : t[m].role # kind
      BY <1>1, <2>1, <3>1 DEF Ends, Told
    <3>3. j = Len(s) + 1
      BY <1>1, <1>3, <3>2
    <3>4. QED
      BY <1>1, <3>2, <3>3
  <2>2. ASSUME v = r.value PROVE Ends(t, kind, b, v)
    <3>1. /\ t[Len(s) + 1].role = kind /\ t[Len(s) + 1].value = v
          /\ \A m \in (Len(s) + 2)..(Len(s) + 1) : t[m].role # kind
      BY <1>1, <1>3, <2>2
    <3>2. QED
      BY <1>1, <3>1 DEF Ends, Told
  <2>3. QED
    BY <2>1, <2>2
<1>4. ASSUME r.role # kind PROVE Ends(t, kind, b, v) <=> Ends(s, kind, b, v)
  <2>1. ASSUME Ends(t, kind, b, v) PROVE Ends(s, kind, b, v)
    <3>1. CASE v = b /\ \A j \in 1..(Len(s) + 1) : t[j].role # kind
      BY <1>1, <3>1 DEF Ends, Told
    <3>2. CASE \E j \in 1..(Len(s) + 1) : /\ t[j].role = kind /\ t[j].value = v
                                          /\ \A m \in (j + 1)..(Len(s) + 1) : t[m].role # kind
      <4>1. PICK j \in 1..(Len(s) + 1) : /\ t[j].role = kind /\ t[j].value = v
                                         /\ \A m \in (j + 1)..(Len(s) + 1) : t[m].role # kind
        BY <3>2
      <4>2. j \in 1..Len(s) /\ s[j].role = kind /\ s[j].value = v
        BY <1>1, <1>4, <4>1
      <4>3. \A m \in (j + 1)..Len(s) : s[m].role # kind
        BY <1>1, <4>1, <4>2
      <4>4. QED
        BY <1>1, <4>2, <4>3 DEF Ends, Told
    <3>3. QED
      BY <1>1, <2>1, <3>1, <3>2 DEF Ends, Told
  <2>2. ASSUME Ends(s, kind, b, v) PROVE Ends(t, kind, b, v)
    <3>1. CASE v = b /\ \A j \in 1..Len(s) : s[j].role # kind
      BY <1>1, <1>4, <3>1 DEF Ends, Told
    <3>2. CASE \E j \in 1..Len(s) : /\ s[j].role = kind /\ s[j].value = v
                                    /\ \A m \in (j + 1)..Len(s) : s[m].role # kind
      <4>1. PICK j \in 1..Len(s) : /\ s[j].role = kind /\ s[j].value = v
                                   /\ \A m \in (j + 1)..Len(s) : s[m].role # kind
        BY <3>2
      <4>2. \A m \in (j + 1)..(Len(s) + 1) : t[m].role # kind
        BY <1>1, <1>4, <4>1
      <4>3. j \in 1..(Len(s) + 1) /\ t[j].role = kind /\ t[j].value = v
        BY <1>1, <4>1
      <4>4. QED
        BY <1>1, <4>2, <4>3 DEF Ends, Told
    <3>3. QED
      BY <1>1, <2>2, <3>1, <3>2 DEF Ends, Told
  <2>3. QED
    BY <2>1, <2>2
<1>5. QED
  BY <1>2, <1>3, <1>4 DEF t

LEMMA ToldAfterTail ==
    ASSUME NEW S, NEW s \in Seq(S), s # <<>>, NEW kind, NEW b, NEW v, NEW i \in 1..Len(s)
    PROVE  LET c == IF Head(s).role = kind THEN Head(s).value ELSE b
           IN  Told(Tail(s), kind, c, i, v) <=> Told(s, kind, b, i + 1, v)
<1> DEFINE t == Tail(s)
           c == IF Head(s).role = kind THEN Head(s).value ELSE b
<1>1. /\ Len(s) \in Nat \ {0} /\ Len(t) = Len(s) - 1 /\ Head(s) = s[1]
      /\ \A j \in 1..Len(t) : t[j] = s[j + 1]
  BY HeadTailProperties, LenProperties, EmptySeq
<1> HIDE DEF t, c
<1>2. \A j \in 1..(i - 1) : t[j] = s[j + 1]
  BY <1>1
<1>3. ASSUME Told(t, kind, c, i, v) PROVE Told(s, kind, b, i + 1, v)
  <2>1. CASE v = c /\ \A j \in 1..(i - 1) : t[j].role # kind
    <3>1. \A m \in 2..i : s[m].role # kind
      <4>1. \A m \in 2..i : m - 1 \in 1..(i - 1) /\ t[m - 1] = s[m]
        BY <1>1, <1>2
      <4>2. QED
        BY <2>1, <4>1
    <3>2. CASE s[1].role = kind
      <4>1. s[1].value = v /\ 1 \in 1..i /\ \A m \in (1 + 1)..i : s[m].role # kind
        BY <1>1, <2>1, <3>1, <3>2 DEF c
      <4>2. QED
        BY <1>1, <3>2, <4>1 DEF Told
    <3>3. CASE s[1].role # kind
      <4>1. v = b /\ \A j \in 1..i : s[j].role # kind
        BY <1>1, <2>1, <3>1, <3>3 DEF c
      <4>2. QED
        BY <1>1, <4>1 DEF Told
    <3>4. QED
      BY <3>2, <3>3
  <2>2. CASE \E j \in 1..(i - 1) : /\ t[j].role = kind /\ t[j].value = v
                                   /\ \A m \in (j + 1)..(i - 1) : t[m].role # kind
    <3>1. PICK j \in 1..(i - 1) : /\ t[j].role = kind /\ t[j].value = v
                                  /\ \A m \in (j + 1)..(i - 1) : t[m].role # kind
      BY <2>2
    <3>2. \A m \in (j + 2)..i : m - 1 \in (j + 1)..(i - 1) /\ t[m - 1] = s[m]
      BY <1>1, <1>2
    <3>3. \A m \in ((j + 1) + 1)..i : s[m].role # kind
      BY <3>1, <3>2
    <3>4. j + 1 \in 1..i /\ s[j + 1].role = kind /\ s[j + 1].value = v
      BY <1>1, <1>2, <3>1
    <3>5. QED
      BY <1>1, <3>3, <3>4, SMTT(30) DEF Told
  <2>3. QED
    BY <1>3, <2>1, <2>2 DEF Told
<1>4. ASSUME Told(s, kind, b, i + 1, v) PROVE Told(t, kind, c, i, v)
  <2>1. CASE v = b /\ \A j \in 1..i : s[j].role # kind
    <3>1. v = c
      BY <1>1, <2>1 DEF c
    <3>2. \A j \in 1..(i - 1) : t[j].role # kind
      BY <1>1, <1>2, <2>1
    <3>3. QED
      BY <3>1, <3>2 DEF Told
  <2>2. CASE \E j \in 1..i : /\ s[j].role = kind /\ s[j].value = v
                             /\ \A m \in (j + 1)..i : s[m].role # kind
    <3>1. PICK j \in 1..i : /\ s[j].role = kind /\ s[j].value = v
                            /\ \A m \in (j + 1)..i : s[m].role # kind
      BY <2>2
    <3>2. CASE j = 1
      <4>1. v = c
        BY <1>1, <3>1, <3>2 DEF c
      <4>2. \A m \in 1..(i - 1) : t[m].role # kind
        BY <1>1, <1>2, <3>1, <3>2
      <4>3. QED
        BY <4>1, <4>2 DEF Told
    <3>3. CASE j # 1
      <4>1. j - 1 \in 1..(i - 1) /\ t[j - 1].role = kind /\ t[j - 1].value = v
        BY <1>1, <1>2, <3>1, <3>3
      <4>2. \A m \in ((j - 1) + 1)..(i - 1) : t[m].role # kind
        BY <1>1, <1>2, <3>1, <3>3
      <4>3. QED
        BY <4>1, <4>2 DEF Told
    <3>4. QED
      BY <3>2, <3>3
  <2>3. QED
    BY <1>1, <1>4, <2>1, <2>2 DEF Told
<1>5. QED
  BY <1>3, <1>4 DEF t, c

\* Only one level was told last.
LEMMA ToldOnce ==
    ASSUME NEW s, NEW kind, NEW b, NEW i \in Nat, NEW v, NEW w,
           Told(s, kind, b, i, v), Told(s, kind, b, i, w)
    PROVE  v = w
<1>1. CASE \A j \in 1..(i - 1) : s[j].role # kind
  BY <1>1 DEF Told
<1>2. CASE \E j \in 1..(i - 1) : s[j].role = kind
  <2>1. PICK j \in 1..(i - 1) : /\ s[j].role = kind /\ s[j].value = v
                                /\ \A m \in (j + 1)..(i - 1) : s[m].role # kind
    BY <1>2 DEF Told
  <2>2. PICK k \in 1..(i - 1) : /\ s[k].role = kind /\ s[k].value = w
                                /\ \A m \in (k + 1)..(i - 1) : s[m].role # kind
    BY <1>2 DEF Told
  <2>3. j = k
    BY <2>1, <2>2
  <2>4. QED
    BY <2>1, <2>2, <2>3
<1>3. QED
  BY <1>1, <1>2
LEMMA FallsCounted ==
    ASSUME NEW S, NEW s \in Seq(S), NEW i
    PROVE  /\ IsFiniteSet(FallsAfter(s, i)) /\ FallsFrom(s, i) \in Nat
           /\ (\A j \in 1..Len(s) : s[j].role # "RotaryPulse") => FallsFrom(s, i) = 0
           /\ i = Len(s) => FallsFrom(s, i) = 0
<1>1. Len(s) \in Nat /\ FallsAfter(s, i) \in SUBSET (1..Len(s)) /\ IsFiniteSet(1..Len(s))
  BY LenProperties, FS_Interval DEF FallsAfter
<1>2. IsFiniteSet(FallsAfter(s, i))
  BY <1>1, FS_Subset
<1>3. FallsFrom(s, i) \in Nat
  BY <1>2, FS_CardinalityType DEF FallsFrom
<1>4. ASSUME \A j \in 1..Len(s) : s[j].role # "RotaryPulse" PROVE FallsFrom(s, i) = 0
  <2>1. FallsAfter(s, i) = {}
    BY <1>4 DEF FallsAfter, Fall
  <2>2. QED
    BY <2>1, FS_EmptySet DEF FallsFrom
<1>5. ASSUME i = Len(s) PROVE FallsFrom(s, i) = 0
  <2>1. FallsAfter(s, i) = {}
    BY <1>1, <1>5 DEF FallsAfter
  <2>2. QED
    BY <2>1, FS_EmptySet DEF FallsFrom
<1>6. QED
  BY <1>2, <1>3, <1>4, <1>5

LEMMA FallsAfterAppend ==
    ASSUME NEW S, NEW s \in Seq(S), NEW r \in S, NEW i \in 0..Len(s)
    PROVE  FallsFrom(Append(s, r), i) = FallsFrom(s, i) + (IF Fall(r) THEN 1 ELSE 0)
<1> DEFINE t == Append(s, r)
<1>1. /\ Len(t) = Len(s) + 1 /\ Len(s) \in Nat /\ t[Len(s) + 1] = r
      /\ \A j \in 1..Len(s) : t[j] = s[j]
  BY AppendProperties, LenProperties
<1> HIDE DEF t
<1>2. FallsAfter(t, i) = IF Fall(r) THEN FallsAfter(s, i) \cup {Len(s) + 1} ELSE FallsAfter(s, i)
  <2>1. \A j : j \in FallsAfter(t, i) <=>
                   j \in FallsAfter(s, i) \/ (j = Len(s) + 1 /\ Fall(r))
    BY <1>1 DEF FallsAfter
  <2>2. QED
    BY <2>1
<1>3. Len(s) + 1 \notin FallsAfter(s, i) /\ IsFiniteSet(FallsAfter(s, i)) /\ FallsFrom(s, i) \in Nat
  <2>1. Len(s) + 1 \notin FallsAfter(s, i)
    BY <1>1 DEF FallsAfter
  <2>2. QED
    BY <2>1, FallsCounted
<1>4. CASE Fall(r)
  <2>1. FallsAfter(t, i) = FallsAfter(s, i) \cup {Len(s) + 1}
    BY <1>2, <1>4
  <2>2. FallsFrom(t, i) = FallsFrom(s, i) + 1
    BY <1>3, <2>1, FS_AddElement DEF FallsFrom
  <2>3. QED
    BY <1>4, <2>2 DEF t
<1>5. CASE ~Fall(r)
  BY <1>2, <1>3, <1>5 DEF FallsFrom, t
<1>6. QED
  BY <1>4, <1>5

LEMMA FallsAfterTail ==
    ASSUME NEW S, NEW s \in Seq(S), s # <<>>
    PROVE  /\ \A i \in 0..(Len(s) - 1) : FallsFrom(Tail(s), i) = FallsFrom(s, i + 1)
           /\ FallsFrom(s, 0) = FallsFrom(s, 1) + (IF Fall(Head(s)) THEN 1 ELSE 0)
<1> DEFINE t == Tail(s)
<1>1. /\ Len(s) \in Nat \ {0} /\ Len(t) = Len(s) - 1 /\ Head(s) = s[1] /\ t \in Seq(S)
      /\ \A j \in 1..Len(t) : t[j] = s[j + 1]
  BY HeadTailProperties, LenProperties, EmptySeq
<1> HIDE DEF t
<1>2. ASSUME NEW i \in 0..(Len(s) - 1) PROVE FallsFrom(t, i) = FallsFrom(s, i + 1)
  <2> DEFINE shift == [j \in FallsAfter(t, i) |-> j + 1]
  <2>1. IsFiniteSet(FallsAfter(t, i)) /\ IsFiniteSet(FallsAfter(s, i + 1))
    BY <1>1, FallsCounted
  <2>2. shift \in [FallsAfter(t, i) -> FallsAfter(s, i + 1)]
    BY <1>1 DEF FallsAfter
  <2>3. \A x, y \in FallsAfter(t, i) : shift[x] = shift[y] => x = y
    BY <1>1 DEF FallsAfter
  <2>4. \A y \in FallsAfter(s, i + 1) : \E x \in FallsAfter(t, i) : shift[x] = y
    <3> SUFFICES ASSUME NEW y \in FallsAfter(s, i + 1)
                 PROVE  \E x \in FallsAfter(t, i) : shift[x] = y
      OBVIOUS
    <3>1. y - 1 \in FallsAfter(t, i) /\ (y - 1) + 1 = y
      BY <1>1 DEF FallsAfter
    <3>2. QED
      BY <3>1
  <2> HIDE DEF shift
  <2>5. shift \in Bijection(FallsAfter(t, i), FallsAfter(s, i + 1))
    BY <2>2, <2>3, <2>4 DEF Bijection, Injection, Surjection, IsInjective
  <2>6. Cardinality(FallsAfter(t, i)) = Cardinality(FallsAfter(s, i + 1))
    BY <2>1, <2>5, FS_Bijection DEF ExistsBijection
  <2>7. QED
    BY <2>6 DEF FallsFrom
<1>3. FallsAfter(s, 0) = IF Fall(s[1]) THEN FallsAfter(s, 1) \cup {1} ELSE FallsAfter(s, 1)
  <2>1. \A j : j \in FallsAfter(s, 0) <=> j \in FallsAfter(s, 1) \/ (j = 1 /\ Fall(s[1]))
    BY <1>1 DEF FallsAfter
  <2>2. QED
    BY <2>1
<1>4. 1 \notin FallsAfter(s, 1) /\ IsFiniteSet(FallsAfter(s, 1)) /\ FallsFrom(s, 1) \in Nat
  <2>1. 1 \notin FallsAfter(s, 1)
    BY <1>1 DEF FallsAfter
  <2>2. QED
    BY <2>1, FallsCounted
<1>5. CASE Fall(s[1])
  <2>1. FallsAfter(s, 0) = FallsAfter(s, 1) \cup {1}
    BY <1>3, <1>5
  <2>2. FallsFrom(s, 0) = FallsFrom(s, 1) + 1
    BY <1>4, <2>1, FS_AddElement DEF FallsFrom
  <2>3. QED
    BY <1>1, <1>2, <1>5, <2>2 DEF t
<1>6. CASE ~Fall(s[1])
  BY <1>1, <1>2, <1>3, <1>4, <1>6 DEF FallsFrom, t
<1>7. QED
  BY <1>5, <1>6

LEMMA FallsOfDigit ==
    ASSUME NEW n \in Nat
    PROVE  /\ Pulses(n) \in Seq(Edges) /\ FallsFrom(Pulses(n), 0) = n
           /\ Len(Pulses(n)) = 2 * n
           /\ \A i \in 1..(2 * n) : Pulses(n)[i].role = "RotaryPulse"
<1> DEFINE t == Pulses(n)
           shift == [k \in 1..n |-> 2 * k - 1]
<1>1. \A i \in 1..(2 * n) : t[i] = Edge("RotaryPulse", i % 2 = 0)
  BY DEF Pulses
<1>2. \A i \in 1..(2 * n) : Edge("RotaryPulse", i % 2 = 0) \in Edges
  BY DEF Edge, Edges, Roles
<1>3. t \in [1..(2 * n) -> Edges]
  BY <1>2 DEF Pulses
<1>4. t \in Seq(Edges) /\ Len(t) = 2 * n
  <2>1. 2 * n \in Nat
    OBVIOUS
  <2>2. t \in Seq(Edges)
    <3> HIDE DEF t
    <3>1. \E m \in Nat : t \in [1..m -> Edges]
      BY <1>3, <2>1
    <3>2. QED
      BY <3>1, SeqDef
  <2>3. Len(t) \in Nat /\ 1..Len(t) = 1..(2 * n)
    <3> HIDE DEF t
    <3>1. DOMAIN t = 1..(2 * n)
      BY <1>3
    <3>2. QED
      BY <2>2, <3>1, LenProperties
  <2>4. Len(t) = 2 * n
    <3> HIDE DEF t
    <3>1. CASE n = 0
      BY <2>3, <3>1
    <3>2. CASE n # 0
      <4>1. (2 * n \in 1..Len(t) /\ Len(t) \in 1..(2 * n)) \/ Len(t) = 0
        BY <2>3, <3>2
      <4>2. QED
        BY <2>3, <3>2, <4>1
    <3>3. QED
      BY <3>1, <3>2
  <2>5. QED
    BY <2>2, <2>4
<1>5. \A i \in 1..(2 * n) : t[i].role = "RotaryPulse" /\ (Fall(t[i]) <=> i % 2 # 0)
  <2> SUFFICES ASSUME NEW i \in 1..(2 * n)
               PROVE  t[i].role = "RotaryPulse" /\ (Fall(t[i]) <=> i % 2 # 0)
    OBVIOUS
  <2>1. t[i] = Edge("RotaryPulse", i % 2 = 0)
    BY <1>1
  <2> HIDE DEF t
  <2>2. t[i].role = "RotaryPulse" /\ t[i].value = (i % 2 = 0)
    BY <2>1 DEF Edge
  <2>3. CASE i % 2 = 0
    <3>1. t[i].value = TRUE
      BY <2>2, <2>3, Zenon
    <3>2. QED
      BY <2>2, <2>3, <3>1 DEF Fall
  <2>4. CASE i % 2 # 0
    <3>1. t[i].value = FALSE
      BY <2>2, <2>4, Zenon
    <3>2. QED
      BY <2>2, <2>4, <3>1 DEF Fall
  <2>5. QED
    BY <2>3, <2>4
<1> HIDE DEF t
<1>6. FallsAfter(t, 0) = {i \in 1..(2 * n) : i % 2 # 0}
  BY <1>4, <1>5 DEF FallsAfter
<1>7. shift \in [1..n -> FallsAfter(t, 0)]
  BY <1>6
<1>8. \A x, y \in 1..n : shift[x] = shift[y] => x = y
  OBVIOUS
<1>9. \A y \in FallsAfter(t, 0) : \E x \in 1..n : shift[x] = y
  <2> SUFFICES ASSUME NEW y \in FallsAfter(t, 0) PROVE \E x \in 1..n : shift[x] = y
    OBVIOUS
  <2>1. PICK x \in 1..n : y = 2 * x - 1
    <3>1. (y + 1) \div 2 \in 1..n /\ y = 2 * ((y + 1) \div 2) - 1
      BY <1>6
    <3>2. QED
      BY <3>1
  <2>2. QED
    BY <2>1
<1> HIDE DEF shift
<1>10. shift \in Bijection(1..n, FallsAfter(t, 0))
  BY <1>7, <1>8, <1>9 DEF Bijection, Injection, Surjection, IsInjective
<1>11. IsFiniteSet(1..n) /\ Cardinality(1..n) = n
  BY FS_Interval
<1>12. Cardinality(FallsAfter(t, 0)) = n
  <2>1. IsFiniteSet(FallsAfter(t, 0))
    BY <1>4, FallsCounted
  <2>2. QED
    BY <1>10, <1>11, <2>1, FS_Bijection DEF ExistsBijection
<1>13. QED
  BY <1>4, <1>5, <1>12 DEF FallsFrom, t

\* Two sequences of edges, the second after the first.
LEMMA OneAfterAnother ==
    ASSUME NEW S, NEW s \in Seq(S), NEW t \in Seq(S)
    PROVE  /\ s \o t \in Seq(S)
           /\ \A e \in S : s \o Append(t, e) = Append(s \o t, e)
           /\ s # <<>> => /\ s \o t # <<>> /\ Head(s \o t) = Head(s)
                          /\ Tail(s) \o t = Tail(s \o t)
           /\ t # <<>> => Append(s, Head(t)) \o Tail(t) = s \o t
<1>1. s \o t \in Seq(S) /\ Len(s) \in Nat /\ Len(t) \in Nat /\ Len(s \o t) = Len(s) + Len(t)
  BY ConcatProperties, LenProperties
<1>2. ASSUME NEW e \in S PROVE s \o Append(t, e) = Append(s \o t, e)
  <2>1. <<e>> \in Seq(S)
    OBVIOUS
  <2>2. Append(t, e) = t \o <<e>> /\ Append(s \o t, e) = (s \o t) \o <<e>>
    BY <1>1, AppendIsConcat
  <2>3. QED
    BY <2>1, <2>2, ConcatAssociative
<1>3. ASSUME s # <<>>
      PROVE  s \o t # <<>> /\ Head(s \o t) = Head(s) /\ Tail(s) \o t = Tail(s \o t)
  <2> DEFINE all == s \o t
             tail == Tail(s) \o t
  <2>1. /\ Len(s) > 0 /\ \A i \in 1..Len(s) : all[i] = s[i]
        /\ \A i \in 1..Len(t) : all[Len(s) + i] = t[i]
    BY <1>1, <1>3, ConcatProperties, EmptySeq
  <2>2. all # <<>> /\ Head(all) = all[1] /\ Head(s) = s[1]
    BY <1>1, <1>3, <2>1, EmptySeq
  <2>3. /\ Tail(s) \in Seq(S) /\ Len(Tail(s)) = Len(s) - 1
        /\ \A i \in 1..Len(Tail(s)) : Tail(s)[i] = s[i + 1]
    BY <1>3, HeadTailProperties
  <2>4. /\ tail \in Seq(S) /\ Len(tail) = Len(s) - 1 + Len(t)
        /\ \A i \in 1..Len(Tail(s)) : tail[i] = Tail(s)[i]
        /\ \A i \in 1..Len(t) : tail[Len(Tail(s)) + i] = t[i]
    BY <2>3, ConcatProperties
  <2>5. /\ Tail(all) \in Seq(S) /\ Len(Tail(all)) = Len(all) - 1
        /\ \A i \in 1..Len(Tail(all)) : Tail(all)[i] = all[i + 1]
    BY <1>1, <2>2, HeadTailProperties
  <2> HIDE DEF all, tail
  <2>6. ASSUME NEW i \in 1..Len(tail) PROVE tail[i] = Tail(all)[i]
    <3>1. CASE i < Len(s)
      BY <1>1, <2>1, <2>3, <2>4, <2>5, <3>1 DEF all
    <3>2. CASE ~(i < Len(s))
      <4> DEFINE k == i - (Len(s) - 1)
      <4>1. k \in 1..Len(t) /\ i = Len(Tail(s)) + k /\ i + 1 = Len(s) + k
        BY <1>1, <2>3, <2>4, <3>2
      <4> HIDE DEF k
      <4>2. tail[i] = t[k] /\ all[i + 1] = t[k]
        BY <2>1, <2>4, <4>1
      <4>3. QED
        BY <1>1, <2>4, <2>5, <4>2 DEF all
    <3>3. QED
      BY <3>1, <3>2
  <2>7. Len(tail) = Len(Tail(all))
    BY <1>1, <2>4, <2>5 DEF all
  <2>8. tail = Tail(all)
    BY <2>4, <2>5, <2>6, <2>7, SeqEqual
  <2>9. QED
    BY <2>1, <2>2, <2>8 DEF all, tail
<1>4. ASSUME t # <<>> PROVE Append(s, Head(t)) \o Tail(t) = s \o t
  <2>1. Head(t) \in S /\ Tail(t) \in Seq(S) /\ <<Head(t)>> \in Seq(S)
    BY <1>4, HeadTailProperties
  <2>2. <<Head(t)>> \o Tail(t) = t
    BY <1>4, ConcatSimplifications
  <2>3. Append(s, Head(t)) = s \o <<Head(t)>>
    BY <2>1, AppendIsConcat
  <2>4. QED
    BY <2>1, <2>2, <2>3, ConcatAssociative
<1>5. QED
  BY <1>1, <1>2, <1>3, <1>4

\* The place k of s is left out, and Past(k, i) is where the place i of the rest was.
Past(k, i) == IF i < k THEN i ELSE i + 1
Without(s, t, k) ==
    /\ Len(s) = Len(t) + 1 /\ k \in 1..Len(s)
    /\ \A i \in 1..Len(t) : t[i] = s[Past(k, i)]

LEMMA PastCovers ==
    ASSUME NEW n \in Nat, NEW k \in 1..(n + 1)
    PROVE  /\ \A i \in 1..n : Past(k, i) \in 1..(n + 1) /\ Past(k, i) # k
           /\ \A m \in 1..(n + 1) : m # k => \E i \in 1..n : Past(k, i) = m
           /\ \A i, j \in 0..(n + 1) : i < j <=> Past(k, i) < Past(k, j)
           /\ Past(k, 0) = 0 /\ Past(k, n + 1) = n + 2
<1>1. ASSUME NEW m \in 1..(n + 1), m # k PROVE \E i \in 1..n : Past(k, i) = m
  <2>1. CASE m < k
    BY <2>1 DEF Past
  <2>2. CASE m > k
    <3>1. m - 1 \in 1..n /\ Past(k, m - 1) = m
      BY <2>2 DEF Past
    <3>2. QED
      BY <3>1
  <2>3. QED
    BY <1>1, <2>1, <2>2
<1>2. QED
  BY <1>1 DEF Past

\* A record of another kind tells nothing.
LEMMA ToldWithout ==
    ASSUME NEW s, NEW t, NEW k, Len(t) \in Nat, Without(s, t, k), NEW kind, s[k].role # kind,
           NEW b, NEW v, NEW i \in 1..(Len(t) + 1)
    PROVE  Told(t, kind, b, i, v) <=> Told(s, kind, b, Past(k, i), v)
<1> DEFINE n == Len(t)
<1>1. /\ n \in Nat /\ k \in 1..(n + 1) /\ i \in 0..(n + 1)
      /\ \A j \in 1..n : t[j] = s[Past(k, j)]
  BY DEF Without
<1> HIDE DEF n
<1>2. /\ \A j \in 1..n : Past(k, j) \in 1..(n + 1) /\ Past(k, j) # k
      /\ \A m \in 1..(n + 1) : m # k => \E j \in 1..n : Past(k, j) = m
      /\ \A p, q \in 0..(n + 1) : p < q <=> Past(k, p) < Past(k, q)
      /\ Past(k, i) \in 1..(n + 2)
  <2>1. i \in 1..(n + 1)
    BY DEF n
  <2>2. Past(k, i) \in 1..(n + 2)
    BY <1>1, <2>1 DEF Past
  <2>3. QED
    BY <1>1, <2>2, PastCovers
<1>3. \A j \in 1..(i - 1) : j \in 1..n /\ Past(k, j) \in 1..(Past(k, i) - 1)
  <2> SUFFICES ASSUME NEW j \in 1..(i - 1) PROVE j \in 1..n /\ Past(k, j) \in 1..(Past(k, i) - 1)
    OBVIOUS
  <2>1. j \in 1..n /\ j < i /\ j \in 0..(n + 1)
    BY <1>1 DEF n
  <2>2. QED
    BY <1>1, <1>2, <2>1
<1>4. \A m \in 1..(Past(k, i) - 1) : m # k => \E j \in 1..(i - 1) : Past(k, j) = m
  <2> SUFFICES ASSUME NEW m \in 1..(Past(k, i) - 1), m # k
               PROVE  \E j \in 1..(i - 1) : Past(k, j) = m
    OBVIOUS
  <2>1. m \in 1..(n + 1)
    BY <1>1, <1>2
  <2>2. PICK j \in 1..n : Past(k, j) = m
    BY <1>2, <2>1
  <2>3. j < i
    BY <1>1, <1>2, <2>2
  <2>4. QED
    BY <1>1, <2>2, <2>3
<1>5. ASSUME Told(t, kind, b, i, v) PROVE Told(s, kind, b, Past(k, i), v)
  <2>1. CASE v = b /\ \A j \in 1..(i - 1) : t[j].role # kind
    <3>1. \A m \in 1..(Past(k, i) - 1) : s[m].role # kind
      BY <1>1, <1>3, <1>4, <2>1
    <3>2. QED
      BY <2>1, <3>1 DEF Told
  <2>2. CASE \E j \in 1..(i - 1) : /\ t[j].role = kind /\ t[j].value = v
                                   /\ \A m \in (j + 1)..(i - 1) : t[m].role # kind
    <3>1. PICK j \in 1..(i - 1) : /\ t[j].role = kind /\ t[j].value = v
                                  /\ \A m \in (j + 1)..(i - 1) : t[m].role # kind
      BY <2>2
    <3>2. /\ Past(k, j) \in 1..(Past(k, i) - 1)
          /\ s[Past(k, j)].role = kind /\ s[Past(k, j)].value = v
      BY <1>1, <1>3, <3>1
    <3>3. ASSUME NEW m \in (Past(k, j) + 1)..(Past(k, i) - 1) PROVE s[m].role # kind
      <4>1. CASE m = k
        BY <4>1
      <4>2. CASE m # k
        <5>1. PICK l \in 1..(i - 1) : Past(k, l) = m
          BY <1>2, <1>3, <1>4, <4>2
        <5>2. j < l
          <6>1. j \in 0..(n + 1) /\ l \in 0..(n + 1) /\ Past(k, j) < Past(k, l)
            BY <1>1, <1>2, <1>3, <5>1
          <6>2. QED
            BY <1>2, <6>1
        <5>3. QED
          BY <1>1, <1>3, <3>1, <5>1, <5>2
      <4>3. QED
        BY <4>1, <4>2
    <3>4. QED
      BY <3>2, <3>3 DEF Told
  <2>3. QED
    BY <1>5, <2>1, <2>2 DEF Told
<1>6. ASSUME Told(s, kind, b, Past(k, i), v) PROVE Told(t, kind, b, i, v)
  <2>1. CASE v = b /\ \A m \in 1..(Past(k, i) - 1) : s[m].role # kind
    <3>1. \A j \in 1..(i - 1) : t[j].role # kind
      BY <1>1, <1>3, <2>1
    <3>2. QED
      BY <2>1, <3>1 DEF Told
  <2>2. CASE \E m \in 1..(Past(k, i) - 1) :
                /\ s[m].role = kind /\ s[m].value = v
                /\ \A l \in (m + 1)..(Past(k, i) - 1) : s[l].role # kind
    <3>1. PICK m \in 1..(Past(k, i) - 1) :
                /\ s[m].role = kind /\ s[m].value = v
                /\ \A l \in (m + 1)..(Past(k, i) - 1) : s[l].role # kind
      BY <2>2
    <3>2. PICK j \in 1..(i - 1) : Past(k, j) = m
      BY <1>4, <3>1
    <3>3. t[j].role = kind /\ t[j].value = v
      BY <1>1, <1>3, <3>1, <3>2
    <3>4. ASSUME NEW l \in (j + 1)..(i - 1) PROVE t[l].role # kind
      <4>1. /\ l \in 1..(i - 1) /\ l \in 1..n /\ Past(k, l) \in 1..(Past(k, i) - 1)
            /\ j \in 0..(n + 1) /\ l \in 0..(n + 1) /\ j < l
        BY <1>1, <1>3
      <4>2. m < Past(k, l)
        BY <1>2, <3>2, <4>1
      <4>3. Past(k, l) \in (m + 1)..(Past(k, i) - 1)
        BY <1>2, <4>1, <4>2
      <4>4. QED
        BY <1>1, <3>1, <4>1, <4>3
    <3>5. QED
      BY <3>2, <3>3, <3>4 DEF Told
  <2>3. QED
    BY <1>6, <2>1, <2>2 DEF Told
<1>7. QED
  BY <1>5, <1>6

\* The falling edges after a place, when another edge is left out.
LEMMA FallsWithout ==
    ASSUME NEW S, NEW s \in Seq(S), NEW t \in Seq(S), NEW k, Without(s, t, k), ~Fall(s[k]),
           NEW i \in 0..Len(t)
    PROVE  FallsFrom(t, i) = FallsFrom(s, Past(k, i))
<1> DEFINE n == Len(t)
           past == [j \in FallsAfter(t, i) |-> Past(k, j)]
<1>1. /\ n \in Nat /\ k \in 1..(n + 1) /\ i \in 0..(n + 1) /\ Len(s) = n + 1
      /\ \A j \in 1..n : t[j] = s[Past(k, j)]
  BY LenProperties DEF Without
<1>2. /\ \A j \in 1..n : Past(k, j) \in 1..(n + 1) /\ Past(k, j) # k
      /\ \A m \in 1..(n + 1) : m # k => \E j \in 1..n : Past(k, j) = m
      /\ \A p, q \in 0..(n + 1) : p < q <=> Past(k, p) < Past(k, q)
  BY <1>1, PastCovers
<1>3. \A j \in FallsAfter(t, i) : j \in 1..n /\ j > i /\ Fall(t[j])
  BY DEF FallsAfter
<1>4. \A y : y \in FallsAfter(s, Past(k, i)) <=> y \in 1..(n + 1) /\ y > Past(k, i) /\ Fall(s[y])
  BY <1>1 DEF FallsAfter
<1> HIDE DEF n
<1>5. past \in [FallsAfter(t, i) -> FallsAfter(s, Past(k, i))]
  <2>1. ASSUME NEW j \in FallsAfter(t, i) PROVE Past(k, j) \in FallsAfter(s, Past(k, i))
    <3>1. j \in 1..n /\ i < j /\ i \in 0..(n + 1) /\ j \in 0..(n + 1) /\ Fall(t[j])
      BY <1>1, <1>3
    <3>2. Past(k, i) < Past(k, j) /\ Past(k, j) \in 1..(n + 1) /\ t[j] = s[Past(k, j)]
      BY <1>1, <1>2, <3>1
    <3>3. Past(k, i) \in Int /\ Past(k, j) \in Int
      BY <1>1, <3>1 DEF Past
    <3>4. QED
      BY <1>4, <3>1, <3>2, <3>3
  <2>2. QED
    BY <2>1
<1>6. \A x, y \in FallsAfter(t, i) : past[x] = past[y] => x = y
  <2> SUFFICES ASSUME NEW x \in FallsAfter(t, i), NEW y \in FallsAfter(t, i), past[x] = past[y]
               PROVE  x = y
    OBVIOUS
  <2>1. x \in Int /\ y \in Int /\ k \in Int
    BY <1>1, <1>3
  <2>2. Past(k, x) = Past(k, y)
    OBVIOUS
  <2>3. QED
    BY <2>1, <2>2 DEF Past
<1>7. \A y \in FallsAfter(s, Past(k, i)) : \E x \in FallsAfter(t, i) : past[x] = y
  <2> SUFFICES ASSUME NEW y \in FallsAfter(s, Past(k, i))
               PROVE  \E x \in FallsAfter(t, i) : Past(k, x) = y
    OBVIOUS
  <2>1. y \in 1..(n + 1) /\ y > Past(k, i) /\ Fall(s[y]) /\ y # k
    BY <1>4
  <2>2. PICK x \in 1..n : Past(k, x) = y
    BY <1>2, <2>1
  <2>3. Past(k, i) < Past(k, x)
    BY <1>1, <2>1, <2>2 DEF Past
  <2>4. x > i /\ Fall(t[x])
    BY <1>1, <1>2, <2>1, <2>2, <2>3
  <2>5. QED
    BY <2>2, <2>4 DEF FallsAfter, n
<1> HIDE DEF past
<1>8. past \in Bijection(FallsAfter(t, i), FallsAfter(s, Past(k, i)))
  BY <1>5, <1>6, <1>7 DEF Bijection, Injection, Surjection, IsInjective
<1>9. IsFiniteSet(FallsAfter(t, i)) /\ IsFiniteSet(FallsAfter(s, Past(k, i)))
  BY FallsCounted
<1>10. QED
  BY <1>8, <1>9, FS_Bijection DEF ExistsBijection, FallsFrom

----------------------------------------------------------------------------
(* The simulator: its invariant *)

OnHook == IF core.phase = "on_hook" THEN TRUE ELSE FALSE
HookInHand == todo # <<>> /\ Head(todo).role = "Hook"
HookUnsent == HookInHand /\ stage # "publish"

\* The falling edges not yet sent, and those of the first digit keyed since the hook moved.
Unsent == FallsFrom(todo, IF stage = "publish" THEN 1 ELSE 0)
Total == IF keyed = <<>> THEN 0 ELSE PulsesOf(keyed[1])

TerminalShape ==
    /\ hook_on_hook \in BOOLEAN /\ current_state \in Phases
    /\ keys \in 0..MaxKeys /\ keyed \in Seq(Digits)
HandlerShape ==
    /\ todo \in Seq(Edges) /\ stage \in {"store", "send", "publish"}
    /\ releases \in 0..keys
    /\ HookInHand => Len(todo) = 1
    /\ ~HookInHand => \A i \in 1..Len(todo) : todo[i].role # "Hook"
    /\ stage # "store" => todo # <<>>
    /\ (stage # "store" /\ HookInHand) => hook_on = Head(todo).value
PortShape == hook_on \in BOOLEAN /\ pinEdges \in Seq(Edges) /\ Len(pinEdges) <= CHANNEL_CAPACITY
IntakeShape == eventQueue \in Seq(Edges) /\ Len(eventQueue) <= Waiting /\ edgeDropped \in BOOLEAN
TelemetryShape ==
    lagged \in BOOLEAN /\ lost \in BOOLEAN /\ feed \in Seq(FeedRecords) /\ Len(feed) <= RETAINED
BoothShape ==
    /\ core.phase \in Phases /\ core.n \in 0..MAX_PULSES_PER_DIGIT
    /\ core.phase \in {"on_hook", "dial_tone"} => core.n = 0
    /\ web \in Nat
SimulatorShape ==
    TerminalShape /\ HandlerShape /\ PortShape /\ IntakeShape /\ TelemetryShape /\ BoothShape

\* The edges that gpio_task has still to take end with the pin.
HookPending == \E i \in 1..Len(pinEdges) : pinEdges[i].role = "Hook"
PinIsCurrent == HookUnsent \/ Ends(pinEdges, "Hook", hook_on, hook_on)

\* What telemetry still has to tell ends with the present, unless a record was missed.
ScreenSound ==
    ~lost => /\ HookInHand \/ HookPending \/ Ends(feed, "Hook", hook_on_hook, hook_on)
             /\ Ends(feed, "state", current_state, core.phase)

\* And so do the edges on their way to the booth, the oldest first, unless one was dropped.
Way == eventQueue \o pinEdges
BoothSound ==
    web = 0 /\ ~edgeDropped =>
        /\ commands = <<>>
        /\ HookUnsent \/ Ends(Way, "Hook", OnHook, hook_on)

\* Of total pulses keyed, the falling edges still on their way in s and not yet sent follow
\* the last edge that moves the hook; if none is on its way, the rest are counted.
Matches(s, b, phase, n, unsent, total) ==
    \/ /\ \A i \in 1..Len(s) : ~Moves(s, b, i)
       /\ phase \in {"dial_tone", "dialing"} => n + FallsFrom(s, 0) + unsent = total
    \/ \E m \in 1..Len(s) : /\ Moves(s, b, m) /\ \A i \in (m + 1)..Len(s) : ~Moves(s, b, i)
                            /\ FallsFrom(s, m) + unsent = total

\* The digits keyed since the hook moved are only counted while there is but one.
MoveUnsent == HookUnsent /\ ~Ends(Way, "Hook", OnHook, Head(todo).value)
DigitSound ==
    web = 0 /\ ~edgeDropped /\ Len(keyed) <= 1 =>
        /\ MoveUnsent => keyed = <<>>
        /\ ~MoveUnsent => Matches(Way, OnHook, core.phase, core.n, Unsent, Total)

SimulatorSound == SimulatorShape /\ PinIsCurrent /\ ScreenSound /\ BoothSound /\ DigitSound

LEMMA SimulatorConstants ==
    /\ Digits \subseteq 0..9 /\ CHANNEL_CAPACITY \in Nat \ {0} /\ RETAINED \in Nat \ {0}
    /\ MAX_PULSES_PER_DIGIT \in Nat \ {0} /\ MaxKeys \in Nat /\ MaxWebEvents \in Nat
    /\ EVENT_CHANNEL \in Nat \ {0} /\ Waiting \in Nat \ {0}
<1>1. \A n : n \in {CHANNEL_CAPACITY, EVENT_CHANNEL, RETAINED} => n \in Nat \ {0}
  BY SimulatorAssumption
<1>2. CHANNEL_CAPACITY \in Nat \ {0} /\ EVENT_CHANNEL \in Nat \ {0} /\ RETAINED \in Nat \ {0}
  BY <1>1
<1>3. QED
  BY <1>2, SimulatorAssumption DEF Waiting

\* A record that is published comes last, unless one gives way for it.
LEMMA PublishedComesLast ==
    ASSUME SimulatorShape, NEW r \in FeedRecords, Published(<<r>>)
    PROVE  /\ feed' \in Seq(FeedRecords) /\ Len(feed') <= RETAINED
           /\ lagged' \in BOOLEAN /\ lost' \in BOOLEAN
           /\ ~lost' => ~lost /\ feed' = Append(feed, r)
<1> DEFINE all == feed \o <<r>>
           over == Len(all) - RETAINED
<1>1. feed \in Seq(FeedRecords) /\ lagged \in BOOLEAN /\ lost \in BOOLEAN /\ RETAINED \in Nat \ {0}
  BY SimulatorConstants DEF SimulatorShape, TelemetryShape
<1>2. all = Append(feed, r) /\ all \in Seq(FeedRecords) /\ Len(all) \in Nat
  BY <1>1, AppendIsConcat, AppendProperties, LenProperties
<1>3. IF over > 0 THEN /\ feed' = SubSeq(all, over + 1, Len(all))
                       /\ lagged' = TRUE /\ lost' = TRUE
      ELSE feed' = all /\ lagged' = lagged /\ lost' = lost
  BY DEF Published
<1> HIDE DEF all
<1>4. CASE over > 0
  <2> DEFINE n == over + 1
  <2> HIDE DEF n
  <2>2. \A i \in n..Len(all) : all[i] \in FeedRecords
    <3>1. \A i \in n..Len(all) : i \in 1..Len(all)
      BY <1>1, <1>2, <1>4 DEF n
    <3>2. QED
      BY <1>2, <3>1, ElementOfSeq
  <2>3. /\ SubSeq(all, n, Len(all)) \in Seq(FeedRecords)
        /\ Len(SubSeq(all, n, Len(all))) = RETAINED
    <3>1. n \in Int /\ Len(all) \in Int /\ n <= Len(all) /\ Len(all) - n + 1 = RETAINED
      BY <1>1, <1>2, <1>4 DEF n
    <3>2. QED
      BY <2>2, <3>1, SubSeqProperties
  <2>4. feed' = SubSeq(all, n, Len(all)) /\ lagged' = TRUE /\ lost' = TRUE
    BY <1>3, <1>4 DEF n
  <2>5. Len(feed') <= RETAINED
    BY <1>1, <2>3, <2>4
  <2>6. lagged' \in BOOLEAN /\ lost' \in BOOLEAN /\ lost'
    BY <2>4, Zenon
  <2>7. QED
    BY <2>3, <2>4, <2>5, <2>6
<1>5. CASE ~(over > 0)
  BY <1>1, <1>2, <1>3, <1>5, SMTT(30)
<1>6. QED
  BY <1>4, <1>5

LEMMA InitSimulator == SimulatorInit => SimulatorSound
<1> SUFFICES ASSUME SimulatorInit PROVE SimulatorSound
  OBVIOUS
<1>1. /\ <<>> \in Seq(Edges) /\ <<>> \in Seq(FeedRecords) /\ <<>> \in Seq(Digits) /\ Len(<<>>) = 0
  BY EmptySeq
<1>2. core.phase = "on_hook" /\ core.n = 0 /\ todo = <<>> /\ ~HookInHand /\ keyed = <<>>
  BY DEF SimulatorInit, Core, HookInHand
<1>3. TerminalShape
  <2>1. hook_on_hook \in BOOLEAN
    BY Zenon DEF SimulatorInit
  <2>2. QED
    BY <1>1, <2>1, SimulatorConstants DEF SimulatorInit, TerminalShape, Phases
<1>4. HandlerShape /\ BoothShape
  BY <1>1, <1>2, SimulatorConstants DEF SimulatorInit, HandlerShape, BoothShape, Phases
<1>5. PortShape /\ IntakeShape /\ TelemetryShape
  <2>1. hook_on \in BOOLEAN /\ lagged \in BOOLEAN /\ lost \in BOOLEAN /\ edgeDropped \in BOOLEAN
    BY Zenon DEF SimulatorInit
  <2>2. QED
    BY <1>1, <2>1, SimulatorConstants DEF SimulatorInit, PortShape, IntakeShape, TelemetryShape
<1>6. \A kind, b : Ends(<<>>, kind, b, b)
  BY <1>1 DEF Ends, Told
<1>7. OnHook = TRUE
  BY <1>2 DEF OnHook
<1>8. Way = <<>> /\ pinEdges = <<>>
  BY DEF SimulatorInit, Way
<1>9. PinIsCurrent /\ ScreenSound /\ BoothSound
  BY <1>2, <1>6, <1>7, <1>8 DEF SimulatorInit, PinIsCurrent, ScreenSound, BoothSound
<1>10. DigitSound
  <2>1. FallsFrom(<<>>, 0) = 0
    BY <1>1, FallsCounted
  <2>2. ~MoveUnsent
    BY <1>2 DEF MoveUnsent, HookUnsent
  <2>3. \A i \in 1..Len(<<>>) : ~Moves(<<>>, OnHook, i)
    BY <1>1
  <2>4. Matches(Way, OnHook, core.phase, core.n, Unsent, Total)
    BY <1>2, <1>8, <2>3 DEF Matches
  <2>5. QED
    BY <2>2, <2>4 DEF DigitSound
<1>11. QED
  BY <1>3, <1>4, <1>5, <1>9, <1>10 DEF SimulatorSound, SimulatorShape

LEMMA ShapeGivesTypes == SimulatorShape => SimulatorTypeOK
<1> SUFFICES ASSUME SimulatorShape PROVE SimulatorTypeOK
  OBVIOUS
<1>1. {hook_on_hook, hook_on, lagged, lost, edgeDropped} \subseteq BOOLEAN
  BY Zenon DEF SimulatorShape, TerminalShape, PortShape, IntakeShape, TelemetryShape
<1>2. releases \in 0..MaxKeys
  BY SimulatorConstants DEF SimulatorShape, TerminalShape, HandlerShape
<1>3. QED
  BY <1>1, <1>2 DEF SimulatorShape, TerminalShape, HandlerShape, PortShape, IntakeShape,
                    TelemetryShape, BoothShape, SimulatorTypeOK

\* An event the booth handles: its phase, and what telemetry is told of it.
LEMMA HandledIsTold ==
    ASSUME SimulatorShape, NEW event, Handles(event)
    PROVE  /\ core'.phase \in Phases /\ core'.n \in 0..MAX_PULSES_PER_DIGIT
           /\ core'.phase \in {"on_hook", "dial_tone"} => core'.n = 0
           /\ TelemetryShape'
           /\ ~lost' => /\ ~lost
                        /\ IF core'.phase = core.phase THEN feed' = feed
                           ELSE feed' = Append(feed, StateTransition(core'.phase))
<1>1. /\ core.phase \in Phases /\ core.n \in 0..MAX_PULSES_PER_DIGIT
      /\ core.phase \in {"on_hook", "dial_tone"} => core.n = 0
      /\ core' = handle(core, event) /\ MAX_PULSES_PER_DIGIT \in Nat \ {0}
  BY SimulatorConstants DEF SimulatorShape, BoothShape, Handles
<1>2. /\ core'.phase \in Phases /\ core'.n \in 0..MAX_PULSES_PER_DIGIT
      /\ core'.phase \in {"on_hook", "dial_tone"} => core'.n = 0
  <2>1. CASE event = "HookOn"
    BY <1>1, <2>1 DEF handle, Core, Phases
  <2>2. CASE event = "HookOff"
    BY <1>1, <2>2 DEF handle, Core, Phases
  <2>3. CASE event = "RotaryPulse"
    BY <1>1, <2>3 DEF handle, handle_pulse, Core, Phases
  <2>4. CASE event = "Tick"
    BY <1>1, <2>4 DEF handle, Core, Phases
  <2>5. CASE event \notin {"HookOn", "HookOff", "RotaryPulse", "Tick"}
    BY <1>1, <2>5 DEF handle
  <2>6. QED
    BY <2>1, <2>2, <2>3, <2>4, <2>5
<1>3. CASE core'.phase = core.phase
  <2>1. feed' = feed /\ lagged' = lagged /\ lost' = lost
    BY <1>3 DEF Handles, telemetry
  <2>2. TelemetryShape'
    BY <2>1 DEF SimulatorShape, TelemetryShape
  <2>3. QED
    BY <1>2, <1>3, <2>1, <2>2
<1>4. CASE core'.phase # core.phase
  <2>1. StateTransition(core'.phase) \in FeedRecords
    BY <1>2 DEF StateTransition, FeedRecords
  <2>2. Published(<<StateTransition(core'.phase)>>)
    BY <1>4 DEF Handles
  <2>3. QED
    BY <1>2, <1>4, <2>1, <2>2, PublishedComesLast DEF TelemetryShape
<1>5. QED
  BY <1>3, <1>4
\* What is left when the first edge was published moves no hook.
LEMMA RestHasNoHook ==
    ASSUME SimulatorShape, todo # <<>>, todo' = Tail(todo)
    PROVE  ~HookInHand' /\ \A i \in 1..Len(todo') : todo'[i].role # "Hook"
<1>1. /\ todo' \in Seq(Edges) /\ Len(todo') = Len(todo) - 1 /\ Len(todo) \in Nat
      /\ \A i \in 1..Len(todo') : todo'[i] = todo[i + 1] /\ i + 1 \in 1..Len(todo)
  BY HeadTailProperties, LenProperties DEF SimulatorShape, HandlerShape
<1>2. \A i \in 1..Len(todo') : todo'[i].role # "Hook"
  <2>1. CASE HookInHand
    <3>1. Len(todo) = 1
      BY <2>1 DEF SimulatorShape, HandlerShape
    <3>2. QED
      BY <1>1, <3>1
  <2>2. CASE ~HookInHand
    BY <1>1, <2>2 DEF SimulatorShape, HandlerShape
  <2>3. QED
    BY <2>1, <2>2
<1>3. todo' # <<>> => Head(todo') = todo'[1] /\ 1 \in 1..Len(todo')
  BY <1>1, HeadTailProperties, EmptySeq, LenProperties
<1>4. QED
  BY <1>2, <1>3 DEF HookInHand

LEMMA SimulatorShapeKept == SimulatorShape /\ [SimulatorNext]_simulatorVars => SimulatorShape'
<1> SUFFICES ASSUME SimulatorShape, [SimulatorNext]_simulatorVars PROVE SimulatorShape'
  OBVIOUS
<1>1. /\ TerminalShape /\ HandlerShape /\ PortShape /\ IntakeShape /\ TelemetryShape
      /\ BoothShape
  BY DEF SimulatorShape
<1>2. UNCHANGED <<intake>> => IntakeShape'
  BY <1>1 DEF intake, IntakeShape
<1>3. UNCHANGED <<terminal>> => TerminalShape'
  BY <1>1 DEF terminal, TerminalShape
<1>4. UNCHANGED <<handler, hook_on, keys>> => HandlerShape'
  BY <1>1 DEF handler, HandlerShape, HookInHand
<1>5. UNCHANGED <<port>> => PortShape'
  BY <1>1 DEF port, PortShape
<1>6. UNCHANGED <<telemetry>> => TelemetryShape'
  BY <1>1 DEF telemetry, TelemetryShape
<1>7. UNCHANGED <<core, web>> => BoothShape'
  BY <1>1 DEF BoothShape
<1>8. /\ <<>> \in Seq(Edges) /\ Len(<<>>) = 0
      /\ \A role \in Roles, high \in BOOLEAN :
            /\ <<Edge(role, high)>> \in Seq(Edges) /\ Edge(role, high) \in Edges
            /\ Len(<<Edge(role, high)>>) = 1
            /\ Head(<<Edge(role, high)>>) = Edge(role, high) /\ Edge(role, high).role = role
            /\ \A i \in 1..1 : <<Edge(role, high)>>[i].role = role
  BY DEF Edge, Edges
<1>9. CASE toggle_hook
  <2>1. todo = <<>> /\ keys' \in 0..MaxKeys /\ releases \in 0..keys'
    BY <1>1, <1>9, SimulatorConstants DEF toggle_hook, Presses, TerminalShape, HandlerShape
  <2>2. keyed' \in Seq(Digits)
    BY <1>1, <1>9, EmptySeq DEF toggle_hook, TerminalShape
  <2>3. TerminalShape'
    <3>1. hook_on_hook' \in BOOLEAN
      BY <1>1, <1>9, Zenon DEF toggle_hook
    <3>2. QED
      BY <1>1, <1>9, <2>1, <2>2, <3>1 DEF toggle_hook, TerminalShape
  <2>4. /\ todo' \in Seq(Edges) /\ Len(todo') = 1 /\ Head(todo').role = "Hook" /\ todo' # <<>>
        /\ stage' = stage /\ stage = "store" /\ releases' = releases
    <3>1. hook_on_hook' \in BOOLEAN /\ "Hook" \in Roles
      BY <2>3 DEF TerminalShape, Roles
    <3>2. todo' = <<Edge("Hook", hook_on_hook')>>
      BY <1>9, Zenon DEF toggle_hook
    <3>3. stage' = stage /\ stage = "store" /\ releases' = releases
      BY <1>1, <1>9, <2>1 DEF toggle_hook, HandlerShape
    <3>4. QED
      BY <1>8, <3>1, <3>2, <3>3
  <2>5. HandlerShape'
    BY <2>1, <2>4 DEF HandlerShape, HookInHand
  <2>6. QED
    BY <1>2, <1>5, <1>6, <1>7, <1>9, <2>3, <2>5 DEF toggle_hook, booth, SimulatorShape
<1>10. CASE dial_digit
  <2>1. todo = <<>> /\ stage = "store" /\ stage' = stage /\ releases' = releases
    BY <1>1, <1>10 DEF dial_digit, Presses, HandlerShape
  <2>2. keys' \in 0..MaxKeys /\ releases \in 0..keys'
    BY <1>1, <1>10, SimulatorConstants DEF dial_digit, Presses, TerminalShape, HandlerShape
  <2>3. /\ keyed' \in Seq(Digits) /\ todo' \in Seq(Edges)
        /\ \A i \in 1..Len(todo') : todo'[i].role # "Hook"
    <3>1. CASE hook_on_hook
      BY <1>1, <1>8, <1>10, <2>1, <3>1 DEF dial_digit, TerminalShape
    <3>2. CASE ~hook_on_hook
      <4>1. PICK digit \in Digits : /\ todo' = Pulses(PulsesOf(digit))
                                    /\ keyed' = Append(keyed, digit)
        BY <1>10, <3>2 DEF dial_digit
      <4>2. PulsesOf(digit) \in Nat
        BY SimulatorConstants DEF PulsesOf
      <4>3. keyed' \in Seq(Digits)
        BY <1>1, <4>1, AppendProperties DEF TerminalShape
      <4>4. QED
        BY <4>1, <4>2, <4>3, FallsOfDigit
    <3>3. QED
      BY <3>1, <3>2
  <2>4. TerminalShape'
    BY <1>1, <1>10, <2>2, <2>3 DEF dial_digit, TerminalShape
  <2>5. ~HookInHand'
    <3>1. todo' # <<>> => Head(todo') = todo'[1] /\ 1 \in 1..Len(todo')
      BY <2>3, HeadTailProperties, EmptySeq, LenProperties
    <3>2. QED
      BY <2>3, <3>1 DEF HookInHand
  <2>6. HandlerShape'
    BY <2>1, <2>2, <2>3, <2>5 DEF HandlerShape
  <2>7. QED
    BY <1>2, <1>5, <1>6, <1>7, <1>10, <2>4, <2>6 DEF dial_digit, booth, SimulatorShape
<1>11. ASSUME Presses, todo' = <<Edge("PowerButton", TRUE), Edge("PowerButton", FALSE)>>
              \/ todo' = <<Edge("PowerButton", TRUE)>>,
              releases' \in {releases, releases + 1}, stage' = stage
       PROVE  HandlerShape'
  <2>1. stage = "store" /\ releases' \in 0..keys'
    BY <1>1, <1>11 DEF Presses, HandlerShape, TerminalShape
  <2>2. Edge("PowerButton", TRUE) \in Edges /\ Edge("PowerButton", FALSE) \in Edges
    BY <1>8 DEF Roles
  <2>3. /\ todo' \in Seq(Edges) /\ todo' # <<>> /\ Head(todo').role # "Hook"
        /\ \A i \in 1..Len(todo') : todo'[i].role # "Hook"
    <3>1. CASE todo' = <<Edge("PowerButton", TRUE), Edge("PowerButton", FALSE)>>
      BY <2>2, <3>1 DEF Edge
    <3>2. CASE todo' = <<Edge("PowerButton", TRUE)>>
      BY <2>2, <3>2 DEF Edge
    <3>3. QED
      BY <1>11, <3>1, <3>2
  <2>4. QED
    BY <1>11, <2>1, <2>3 DEF HandlerShape, HookInHand
<1>12. CASE short_power_press \/ long_power_press
  <2>1. HandlerShape'
    BY <1>11, <1>12 DEF short_power_press, long_power_press
  <2>2. TerminalShape'
    <3>1. keys' \in 0..MaxKeys
      <4>1. Presses
        BY <1>12 DEF short_power_press, long_power_press
      <4>2. QED
        BY <1>1, <4>1, SimulatorConstants DEF Presses, TerminalShape
    <3>2. hook_on_hook' = hook_on_hook /\ current_state' = current_state /\ keyed' = keyed
      BY <1>12 DEF short_power_press, long_power_press
    <3>3. QED
      BY <1>1, <3>1, <3>2 DEF TerminalShape
  <2>3. QED
    BY <1>2, <1>5, <1>6, <1>7, <1>12, <2>1, <2>2
       DEF short_power_press, long_power_press, booth, SimulatorShape
<1>13. CASE StoresPin
  <2>1. todo # <<>> => Head(todo) \in Edges
    BY <1>1, HeadTailProperties DEF HandlerShape
  <2>2. hook_on' \in BOOLEAN
    BY <1>1, <1>13, <2>1 DEF StoresPin, PortShape, Edges
  <2>3. PortShape'
    BY <1>1, <1>13, <2>2 DEF StoresPin, PortShape
  <2>4. /\ todo # <<>> /\ todo' = todo /\ stage' = "send" /\ releases' = releases /\ keys' = keys
        /\ HookInHand => hook_on' = Head(todo).value
    BY <1>13 DEF StoresPin, HookInHand, terminal
  <2>5. HandlerShape'
    BY <1>1, <2>4 DEF HandlerShape, HookInHand
  <2>6. QED
    BY <1>2, <1>3, <1>6, <1>7, <1>13, <2>3, <2>5 DEF StoresPin, booth, SimulatorShape
<1>14. CASE SendsEdge
  <2>1. Head(todo) \in Edges
    BY <1>1, <1>14, HeadTailProperties DEF HandlerShape, SendsEdge
  <2>2. pinEdges' \in Seq(Edges) /\ Len(pinEdges') = Len(pinEdges) + 1 /\ Len(pinEdges) \in Nat
    BY <1>1, <1>14, <2>1, AppendProperties, LenProperties DEF PortShape, SendsEdge
  <2>3. PortShape'
    BY <1>1, <1>14, <2>2, SimulatorConstants DEF PortShape, SendsEdge
  <2>4. /\ todo # <<>> /\ todo' = todo /\ stage = "send" /\ stage' = "publish"
        /\ releases' = releases /\ keys' = keys /\ hook_on' = hook_on
    BY <1>14 DEF SendsEdge, terminal
  <2>5. HandlerShape'
    BY <1>1, <2>4 DEF HandlerShape, HookInHand
  <2>6. QED
    BY <1>2, <1>3, <1>6, <1>7, <1>14, <2>3, <2>5 DEF SendsEdge, booth, SimulatorShape
<1>15. CASE PublishesEdge
  <2>1. todo \in Seq(Edges) /\ todo # <<>> /\ Head(todo) \in Edges
    BY <1>1, <1>15, HeadTailProperties DEF HandlerShape, PublishesEdge
  <2>2. TelemetryShape'
    <3>1. Head(todo) \in FeedRecords
      BY <2>1 DEF FeedRecords
    <3>2. QED
      BY <1>15, <3>1, PublishedComesLast DEF PublishesEdge, TelemetryShape
  <2>3. /\ todo' \in Seq(Edges) /\ stage' = "store" /\ releases' \in 0..keys'
        /\ \A i \in 1..Len(todo') : todo'[i] = todo[i + 1] /\ i + 1 \in 1..Len(todo)
        /\ Len(todo') = Len(todo) - 1 /\ Len(todo) \in Nat
    BY <1>1, <1>15, <2>1, HeadTailProperties, LenProperties
       DEF PublishesEdge, HandlerShape, terminal
  <2>4. todo' = Tail(todo)
    BY <1>15 DEF PublishesEdge
  <2>5. ~HookInHand' /\ \A i \in 1..Len(todo') : todo'[i].role # "Hook"
    BY <2>1, <2>4, RestHasNoHook
  <2>6. HandlerShape'
    BY <2>3, <2>4, <2>5 DEF HandlerShape
  <2>7. QED
    BY <1>2, <1>3, <1>5, <1>7, <1>15, <2>2, <2>6 DEF PublishesEdge, booth, SimulatorShape
<1>16. CASE Releases
  <2>1. Edge("PowerButton", FALSE) \in Edges /\ Edge("PowerButton", FALSE) \in FeedRecords
    BY <1>8 DEF Roles, FeedRecords
  <2>2. TelemetryShape'
    BY <1>16, <2>1, PublishedComesLast DEF Releases, TelemetryShape
  <2>3. pinEdges' \in Seq(Edges) /\ Len(pinEdges') = Len(pinEdges) + 1 /\ Len(pinEdges) \in Nat
    BY <1>1, <1>16, <2>1, AppendProperties, LenProperties DEF PortShape, Releases
  <2>4. PortShape'
    <3>1. hook_on' = hook_on /\ Len(pinEdges) < CHANNEL_CAPACITY
      BY <1>16 DEF Releases
    <3>2. QED
      BY <1>1, <2>3, <3>1, SimulatorConstants DEF PortShape
  <2>5. /\ todo' = todo /\ stage' = stage /\ releases' \in 0..keys' /\ hook_on' = hook_on
    BY <1>1, <1>16 DEF Releases, terminal, HandlerShape, TerminalShape
  <2>6. HandlerShape'
    BY <1>1, <2>5 DEF HandlerShape, HookInHand
  <2>7. QED
    BY <1>2, <1>3, <1>7, <1>16, <2>2, <2>4, <2>6 DEF Releases, booth, SimulatorShape
<1>17. CASE NotesLag
  <2>1. TelemetryShape'
    BY <1>1, <1>17, Zenon DEF NotesLag, TelemetryShape
  <2>2. QED
    BY <1>2, <1>3, <1>4, <1>5, <1>7, <1>17, <2>1 DEF NotesLag, booth, terminal, port, SimulatorShape
<1>18. CASE ingest
  <2>1. /\ feed \in Seq(FeedRecords) /\ feed # <<>> /\ Head(feed) \in FeedRecords
        /\ feed' \in Seq(FeedRecords) /\ Len(feed') = Len(feed) - 1 /\ Len(feed) \in Nat
    BY <1>1, <1>18, HeadTailProperties, LenProperties DEF TelemetryShape, ingest
  <2>2. TelemetryShape'
    BY <1>1, <1>18, <2>1, SimulatorConstants DEF TelemetryShape, ingest
  <2>3. /\ Head(feed).role = "state" => Head(feed).value \in Phases
        /\ Head(feed).role = "Hook" => Head(feed).value \in BOOLEAN
    BY <2>1 DEF FeedRecords, Edges, Roles
  <2>4. hook_on_hook' \in BOOLEAN /\ current_state' \in Phases
    BY <1>1, <1>18, <2>3 DEF ingest, HookOf, TerminalShape
  <2>5. TerminalShape'
    BY <1>1, <1>18, <2>4 DEF ingest, TerminalShape
  <2>6. QED
    BY <1>2, <1>4, <1>5, <1>7, <1>18, <2>2, <2>5 DEF ingest, booth, port, SimulatorShape
<1>19. ASSUME NEW event, Handles(event), web' = web PROVE TelemetryShape' /\ BoothShape'
  BY <1>1, <1>19, HandledIsTold DEF BoothShape
<1>20. CASE ReadsEdge
  <2>1. /\ pinEdges' \in Seq(Edges) /\ Len(pinEdges') = Len(pinEdges) - 1 /\ Len(pinEdges) \in Nat
        /\ Head(pinEdges) \in Edges /\ Head(pinEdges) \in FeedRecords
    BY <1>1, <1>20, HeadTailProperties, LenProperties DEF PortShape, ReadsEdge, FeedRecords
  <2>2. PortShape'
    BY <1>1, <1>20, <2>1, SimulatorConstants DEF PortShape, ReadsEdge
  <2>3. TelemetryShape'
    BY <1>20, <2>1, PublishedComesLast DEF ReadsEdge, TelemetryShape
  <2>4. IntakeShape'
    <3>1. CASE UNCHANGED intake
      BY <1>2, <3>1
    <3>2. CASE queue_event(Head(pinEdges))
      <4>1. CASE UNCHANGED eventQueue /\ edgeDropped' = TRUE
        <5>1. edgeDropped' \in BOOLEAN
          BY <4>1, Zenon
        <5>2. QED
          BY <1>1, <4>1, <5>1 DEF IntakeShape
      <4>2. CASE /\ Len(eventQueue) < Waiting
                 /\ eventQueue' = Append(eventQueue, Head(pinEdges)) /\ UNCHANGED edgeDropped
        <5>1. /\ eventQueue' \in Seq(Edges) /\ Len(eventQueue') = Len(eventQueue) + 1
              /\ Len(eventQueue) \in Nat
          BY <1>1, <2>1, <4>2, AppendProperties, LenProperties DEF IntakeShape
        <5>2. QED
          BY <1>1, <4>2, <5>1, SimulatorConstants DEF IntakeShape
      <4>3. QED
        BY <3>2, <4>1, <4>2 DEF queue_event
    <3>3. QED
      BY <1>20, <3>1, <3>2 DEF ReadsEdge
  <2>5. QED
    BY <1>3, <1>4, <1>7, <1>20, <2>2, <2>3, <2>4 DEF ReadsEdge, terminal, booth, SimulatorShape
<1>21. CASE HearsEvent
  <2>1. /\ eventQueue' \in Seq(Edges) /\ Len(eventQueue') = Len(eventQueue) - 1
        /\ Len(eventQueue) \in Nat
    BY <1>1, <1>21, HeadTailProperties, LenProperties DEF IntakeShape, HearsEvent
  <2>2. IntakeShape'
    BY <1>1, <1>21, <2>1, SimulatorConstants DEF IntakeShape, HearsEvent
  <2>3. QED
    BY <1>3, <1>4, <1>5, <1>19, <1>21, <2>2 DEF HearsEvent, terminal, port, SimulatorShape
<1>22. CASE TimesOut \/ HearsWeb
  BY <1>2, <1>3, <1>4, <1>5, <1>19, <1>22 DEF TimesOut, HearsWeb, terminal, port, SimulatorShape
<1>23. CASE WebSends
  <2>1. BoothShape'
    BY <1>1, <1>23 DEF WebSends, BoothShape
  <2>2. QED
    BY <1>2, <1>3, <1>4, <1>5, <1>6, <1>23, <2>1 DEF WebSends, terminal, port, SimulatorShape
<1>24. CASE UNCHANGED simulatorVars
  BY <1>2, <1>3, <1>4, <1>5, <1>6, <1>7, <1>24 DEF simulatorVars, terminal, port, booth, SimulatorShape
<1>25. QED
  BY <1>9, <1>10, <1>12, <1>13, <1>14, <1>15, <1>16, <1>17, <1>18, <1>20, <1>21, <1>22, <1>23,
     <1>24 DEF SimulatorNext

LEMMA EndsAfterTail ==
    ASSUME NEW S, NEW s \in Seq(S), s # <<>>, NEW kind, NEW b, NEW v
    PROVE  LET c == IF Head(s).role = kind THEN Head(s).value ELSE b
           IN  Ends(Tail(s), kind, c, v) <=> Ends(s, kind, b, v)
<1>1. Len(s) \in 1..Len(s) /\ Len(Tail(s)) + 1 = Len(s)
  BY HeadTailProperties, LenProperties, EmptySeq
<1>2. QED
  BY <1>1, ToldAfterTail DEF Ends

\* What is on its way to the terminal.
HookToTell == HookInHand \/ HookPending

LEMMA PendingAfterAppend ==
    ASSUME SimulatorShape, NEW e \in Edges, pinEdges' = Append(pinEdges, e), HookPending
    PROVE  HookPending'
<1>1. /\ Len(pinEdges') = Len(pinEdges) + 1 /\ Len(pinEdges) \in Nat
      /\ \A i \in 1..Len(pinEdges) : pinEdges'[i] = pinEdges[i]
  BY AppendProperties, LenProperties DEF SimulatorShape, PortShape
<1>2. PICK i \in 1..Len(pinEdges) : pinEdges[i].role = "Hook"
  BY DEF HookPending
<1>3. i \in 1..Len(pinEdges') /\ pinEdges'[i].role = "Hook"
  BY <1>1, <1>2
<1>4. QED
  BY <1>3 DEF HookPending

LEMMA PinIsCurrentKept ==
    SimulatorShape /\ PinIsCurrent /\ [SimulatorNext]_simulatorVars => PinIsCurrent'
<1> SUFFICES ASSUME SimulatorShape, PinIsCurrent, [SimulatorNext]_simulatorVars, ~HookUnsent'
             PROVE  Ends(pinEdges', "Hook", hook_on', hook_on')
  BY DEF PinIsCurrent, Ends, Told
<1>1. HandlerShape /\ pinEdges \in Seq(Edges)
  BY DEF SimulatorShape, PortShape
<1>2. ASSUME ~HookUnsent PROVE Ends(pinEdges, "Hook", hook_on, hook_on)
  BY <1>2 DEF PinIsCurrent
<1>3. CASE toggle_hook
  <2>1. stage' = "store" /\ HookInHand'
    BY <1>1, <1>3 DEF toggle_hook, Presses, HandlerShape, HookInHand, Edge
  <2>2. QED
    BY <2>1 DEF HookUnsent
<1>4. CASE dial_digit \/ short_power_press \/ long_power_press \/ NotesLag \/ ingest
  <2>1. ~HookUnsent /\ hook_on' = hook_on /\ pinEdges' = pinEdges
    BY <1>4 DEF dial_digit, short_power_press, long_power_press, Presses, NotesLag, ingest,
                HookUnsent, HookInHand, port
  <2>2. QED
    BY <1>2, <2>1
<1>5. CASE StoresPin
  <2>1. /\ pinEdges' = pinEdges /\ stage' # "publish" /\ (HookInHand \/ hook_on' = hook_on)
        /\ HookInHand => HookInHand'
    BY <1>5 DEF StoresPin, HookInHand
  <2>2. QED
    BY <1>2, <2>1 DEF HookUnsent
<1>6. CASE SendsEdge
  <2>1. /\ pinEdges' = Append(pinEdges, Head(todo)) /\ hook_on' = hook_on /\ todo # <<>>
        /\ Head(todo) \in Edges /\ stage = "send"
    BY <1>1, <1>6, HeadTailProperties DEF SendsEdge, HandlerShape
  <2>2. CASE Head(todo).role = "Hook"
    <3>1. hook_on = Head(todo).value
      BY <1>1, <2>1, <2>2 DEF HandlerShape, HookInHand
    <3>2. QED
      BY <1>1, <2>1, <2>2, <3>1, ToldAfterAppend
  <2>3. CASE Head(todo).role # "Hook"
    <3>1. Ends(pinEdges, "Hook", hook_on, hook_on)
      BY <1>2, <2>3 DEF HookUnsent, HookInHand
    <3>2. QED
      BY <1>1, <2>1, <2>3, <3>1, ToldAfterAppend
  <2>4. QED
    BY <2>2, <2>3
<1>7. CASE PublishesEdge
  <2>1. ~HookUnsent /\ hook_on' = hook_on /\ pinEdges' = pinEdges
    BY <1>7 DEF PublishesEdge, HookUnsent, port
  <2>2. QED
    BY <1>2, <2>1
<1>8. CASE Releases
  <2> DEFINE e == Edge("PowerButton", FALSE)
  <2>1. e \in Edges /\ e.role # "Hook"
    BY DEF Edge, Edges, Roles
  <2>2. pinEdges' = Append(pinEdges, e) /\ hook_on' = hook_on /\ (HookUnsent => HookUnsent')
    BY <1>8 DEF Releases, HookUnsent, HookInHand
  <2> HIDE DEF e
  <2>3. QED
    BY <1>1, <1>2, <2>1, <2>2, ToldAfterAppend
<1>9. CASE ReadsEdge
  <2>1. /\ pinEdges' = Tail(pinEdges) /\ pinEdges # <<>> /\ hook_on' = hook_on
        /\ HookUnsent => HookUnsent'
    BY <1>9 DEF ReadsEdge, HookUnsent, HookInHand, handler
  <2>2. Ends(pinEdges, "Hook", hook_on, hook_on)
    BY <1>2, <2>1
  <2>3. LET told == IF Head(pinEdges).role = "Hook" THEN Head(pinEdges).value ELSE hook_on
        IN  Ends(pinEdges', "Hook", told, hook_on)
    BY <1>1, <2>1, <2>2, EndsAfterTail
  <2>4. QED
    BY <2>1, <2>3 DEF Ends, Told
<1>10. CASE HearsEvent \/ TimesOut \/ WebSends \/ HearsWeb \/ UNCHANGED simulatorVars
  <2>1. pinEdges' = pinEdges /\ hook_on' = hook_on /\ todo' = todo /\ stage' = stage
    BY <1>10 DEF HearsEvent, TimesOut, WebSends, HearsWeb, simulatorVars, port, handler
  <2>2. QED
    BY <1>2, <2>1 DEF HookUnsent, HookInHand
<1>11. QED
  BY <1>3, <1>4, <1>5, <1>6, <1>7, <1>8, <1>9, <1>10 DEF SimulatorNext

LEMMA ScreenSoundKept ==
    SimulatorShape /\ PinIsCurrent /\ ScreenSound /\ [SimulatorNext]_simulatorVars => ScreenSound'
<1> SUFFICES ASSUME SimulatorShape, PinIsCurrent, ScreenSound, [SimulatorNext]_simulatorVars, ~lost'
             PROVE  /\ HookToTell' \/ Ends(feed', "Hook", hook_on_hook', hook_on')
                    /\ Ends(feed', "state", current_state', core'.phase)
  BY DEF ScreenSound, HookToTell, Ends, Told
<1>1. TerminalShape /\ HandlerShape /\ PortShape /\ TelemetryShape /\ BoothShape
  BY DEF SimulatorShape
<1>2. ASSUME UNCHANGED telemetry
      PROVE  /\ feed' = feed /\ Ends(feed, "state", current_state, core.phase)
             /\ HookToTell \/ Ends(feed, "Hook", hook_on_hook, hook_on)
  BY <1>2 DEF telemetry, ScreenSound, HookToTell
<1>3. CASE toggle_hook
  <2>1. HookToTell'
    BY <1>3 DEF toggle_hook, Edge, HookInHand, HookToTell
  <2>2. QED
    BY <1>2, <1>3, <2>1 DEF toggle_hook, booth
<1>4. CASE dial_digit \/ short_power_press \/ long_power_press
  <2>1. /\ ~HookInHand /\ UNCHANGED telemetry /\ hook_on_hook' = hook_on_hook /\ hook_on' = hook_on
        /\ current_state' = current_state /\ core' = core /\ pinEdges' = pinEdges
    BY <1>4 DEF dial_digit, short_power_press, long_power_press, Presses, HookInHand, port, booth
  <2>2. HookToTell => HookToTell'
    BY <2>1 DEF HookToTell, HookPending
  <2>3. QED
    BY <1>2, <2>1, <2>2
<1>5. CASE StoresPin
  <2>1. /\ UNCHANGED telemetry /\ hook_on_hook' = hook_on_hook /\ current_state' = current_state
        /\ core' = core /\ (HookInHand \/ hook_on' = hook_on) /\ (HookInHand => HookInHand')
        /\ pinEdges' = pinEdges
    BY <1>5 DEF StoresPin, HookInHand, terminal, booth
  <2>2. HookToTell => HookToTell'
    BY <2>1 DEF HookToTell, HookPending
  <2>3. QED
    BY <1>2, <2>1, <2>2 DEF HookToTell
<1>6. CASE SendsEdge \/ WebSends \/ UNCHANGED simulatorVars
  <2>1. /\ UNCHANGED telemetry /\ hook_on_hook' = hook_on_hook /\ current_state' = current_state
        /\ core' = core /\ hook_on' = hook_on /\ todo' = todo
        /\ (pinEdges' = pinEdges \/ SendsEdge)
    BY <1>6 DEF SendsEdge, WebSends, simulatorVars, terminal, handler, port, booth
  <2>2. HookPending => HookPending'
    <3>1. CASE pinEdges' = pinEdges
      BY <3>1 DEF HookPending
    <3>2. CASE SendsEdge
      <4>1. Head(todo) \in Edges /\ pinEdges' = Append(pinEdges, Head(todo))
        BY <1>1, <3>2, HeadTailProperties DEF SendsEdge, HandlerShape
      <4>2. QED
        BY <4>1, PendingAfterAppend
    <3>3. QED
      BY <2>1, <3>1, <3>2
  <2>3. HookToTell => HookToTell'
    BY <2>1, <2>2 DEF HookToTell, HookInHand
  <2>4. QED
    BY <1>2, <2>1, <2>3
<1>7. ASSUME NEW r \in FeedRecords, Published(<<r>>)
      PROVE  /\ feed' = Append(feed, r) /\ Ends(feed, "state", current_state, core.phase)
             /\ HookToTell \/ Ends(feed, "Hook", hook_on_hook, hook_on)
             /\ \A kind, b, v :
                   /\ r.role = kind => (Ends(feed', kind, b, v) <=> v = r.value)
                   /\ r.role # kind => (Ends(feed', kind, b, v) <=> Ends(feed, kind, b, v))
  <2>1. feed' = Append(feed, r) /\ ~lost
    BY <1>7, PublishedComesLast
  <2>2. feed \in Seq(FeedRecords)
    BY <1>1 DEF TelemetryShape
  <2>3. QED
    BY <2>1, <2>2, ToldAfterAppend DEF ScreenSound, HookToTell
<1>8. CASE PublishesEdge
  <2>1. /\ todo # <<>> /\ Head(todo) \in Edges /\ Head(todo) \in FeedRecords
        /\ Published(<<Head(todo)>>) /\ stage = "publish"
        /\ hook_on_hook' = hook_on_hook /\ current_state' = current_state
        /\ core' = core /\ hook_on' = hook_on /\ pinEdges' = pinEdges
    BY <1>1, <1>8, HeadTailProperties
       DEF PublishesEdge, HandlerShape, FeedRecords, terminal, port, booth
  <2>2. Head(todo).role # "state"
    BY <2>1 DEF Edges, Roles
  <2>3. Ends(feed', "state", current_state, core.phase)
    BY <1>7, <2>1, <2>2
  <2>4. HookPending' \/ Ends(feed', "Hook", hook_on_hook, hook_on)
    <3>1. CASE Head(todo).role = "Hook"
      <4>1. hook_on = Head(todo).value
        BY <1>1, <2>1, <3>1 DEF HandlerShape, HookInHand
      <4>2. QED
        BY <1>7, <2>1, <3>1, <4>1
    <3>2. CASE Head(todo).role # "Hook"
      <4>1. HookPending => HookPending'
        BY <2>1 DEF HookPending
      <4>2. QED
        BY <1>7, <2>1, <3>2, <4>1 DEF HookInHand, HookToTell
    <3>3. QED
      BY <3>1, <3>2
  <2>5. QED
    BY <2>1, <2>3, <2>4 DEF HookToTell
<1>9. CASE Releases
  <2> DEFINE r == Edge("PowerButton", FALSE)
  <2>1. r \in FeedRecords /\ r.role = "PowerButton" /\ r \in Edges
    BY DEF Edge, Edges, Roles, FeedRecords
  <2>2. /\ Published(<<r>>) /\ todo' = todo /\ pinEdges' = Append(pinEdges, r)
        /\ hook_on_hook' = hook_on_hook /\ current_state' = current_state
        /\ core' = core /\ hook_on' = hook_on
    BY <1>9 DEF Releases, terminal, booth
  <2> HIDE DEF r
  <2>3. Ends(feed', "state", current_state, core.phase)
    BY <1>7, <2>1, <2>2
  <2>4. HookToTell \/ Ends(feed', "Hook", hook_on_hook, hook_on)
    BY <1>7, <2>1, <2>2
  <2>5. HookToTell => HookToTell'
    BY <2>1, <2>2, PendingAfterAppend DEF HookInHand, HookToTell
  <2>6. QED
    BY <2>2, <2>3, <2>4, <2>5
<1>10. CASE NotesLag
  <2>1. /\ ~HookInHand /\ feed' = feed /\ lost' = lost
        /\ hook_on_hook' = hook_on_hook /\ current_state' = current_state
        /\ core' = core /\ hook_on' = hook_on /\ pinEdges' = pinEdges
    BY <1>10 DEF NotesLag, HookInHand, terminal, port, booth
  <2>2. HookPending => HookPending'
    BY <2>1 DEF HookPending
  <2>3. QED
    BY <2>1, <2>2 DEF ScreenSound, HookToTell
<1>11. CASE ingest
  <2>1. /\ ~HookInHand /\ feed' = Tail(feed) /\ feed # <<>> /\ lost' = lost
        /\ hook_on_hook' = IF Head(feed).role = "Hook" THEN Head(feed).value ELSE hook_on_hook
        /\ current_state' = IF Head(feed).role = "state" THEN Head(feed).value ELSE current_state
        /\ core' = core /\ hook_on' = hook_on /\ pinEdges' = pinEdges
    BY <1>11 DEF ingest, HookInHand, HookOf, port, booth
  <2>2. feed \in Seq(FeedRecords)
    BY <1>1 DEF TelemetryShape
  <2>3. /\ HookPending \/ Ends(feed, "Hook", hook_on_hook, hook_on)
        /\ Ends(feed, "state", current_state, core.phase)
    BY <2>1 DEF ScreenSound
  <2>4. HookPending' \/ Ends(feed', "Hook", hook_on_hook', hook_on)
    <3>1. HookPending => HookPending'
      BY <2>1 DEF HookPending
    <3>2. Ends(feed', "Hook", hook_on_hook', hook_on) <=> Ends(feed, "Hook", hook_on_hook, hook_on)
      BY <2>1, <2>2, EndsAfterTail
    <3>3. QED
      BY <2>3, <3>1, <3>2
  <2>5. Ends(feed', "state", current_state', core.phase)
    BY <2>1, <2>2, <2>3, EndsAfterTail
  <2>6. QED
    BY <2>1, <2>4, <2>5 DEF HookToTell
<1>12. CASE HearsEvent \/ TimesOut \/ HearsWeb
  <2>1. /\ todo' = todo /\ hook_on_hook' = hook_on_hook /\ current_state' = current_state
        /\ hook_on' = hook_on /\ pinEdges' = pinEdges /\ \E event : Handles(event)
    BY <1>12 DEF HearsEvent, TimesOut, HearsWeb, terminal, handler, port
  <2>2. PICK event : Handles(event)
    BY <2>1
  <2>3. /\ ~lost /\ core'.phase \in Phases
        /\ IF core'.phase = core.phase THEN feed' = feed
           ELSE feed' = Append(feed, StateTransition(core'.phase))
    BY <2>2, HandledIsTold
  <2>4. /\ Ends(feed, "state", current_state, core.phase)
        /\ HookToTell \/ Ends(feed, "Hook", hook_on_hook, hook_on)
    BY <2>3 DEF ScreenSound, HookToTell
  <2>5. HookToTell => HookToTell'
    BY <2>1 DEF HookInHand, HookPending, HookToTell
  <2>6. CASE core'.phase = core.phase
    BY <2>1, <2>3, <2>4, <2>5, <2>6
  <2>7. CASE core'.phase # core.phase
    <3> DEFINE r == StateTransition(core'.phase)
    <3>1. r.role = "state" /\ r.value = core'.phase /\ r \in FeedRecords
      BY <2>3 DEF StateTransition, FeedRecords
    <3>2. feed' = Append(feed, r) /\ feed \in Seq(FeedRecords)
      BY <1>1, <2>3, <2>7 DEF TelemetryShape
    <3> HIDE DEF r
    <3>3. Ends(feed', "state", current_state, core'.phase)
      BY <3>1, <3>2, ToldAfterAppend
    <3>4. HookToTell \/ Ends(feed', "Hook", hook_on_hook, hook_on)
      BY <2>4, <3>1, <3>2, ToldAfterAppend
    <3>5. QED
      BY <2>1, <2>5, <3>3, <3>4
  <2>8. QED
    BY <2>6, <2>7
<1>13. CASE ReadsEdge
  <2> DEFINE e == Head(pinEdges)
  <2>1. /\ pinEdges # <<>> /\ pinEdges \in Seq(Edges) /\ e \in Edges /\ e \in FeedRecords
        /\ pinEdges' = Tail(pinEdges) /\ Published(<<e>>) /\ todo' = todo
        /\ hook_on_hook' = hook_on_hook /\ current_state' = current_state
        /\ core' = core /\ hook_on' = hook_on /\ stage' = stage
    BY <1>1, <1>13, HeadTailProperties
       DEF ReadsEdge, PortShape, FeedRecords, terminal, handler, booth
  <2>2. /\ Len(pinEdges) \in Nat \ {0} /\ Len(pinEdges') = Len(pinEdges) - 1 /\ e = pinEdges[1]
        /\ \A i \in 1..Len(pinEdges') : pinEdges'[i] = pinEdges[i + 1]
    BY <2>1, HeadTailProperties, LenProperties, EmptySeq
  <2>3. e.role # "state"
    BY <2>1 DEF Edges, Roles
  <2> HIDE DEF e
  <2>4. Ends(feed', "state", current_state, core.phase)
    BY <1>7, <2>1, <2>3
  <2>5. CASE HookInHand
    <3>1. HookToTell'
      BY <2>1, <2>5 DEF HookInHand, HookToTell
    <3>2. QED
      BY <2>1, <2>4, <3>1
  <2>6. CASE ~HookInHand /\ e.role # "Hook"
    <3>1. HookPending => HookPending'
      <4> SUFFICES ASSUME NEW i \in 1..Len(pinEdges), pinEdges[i].role = "Hook" PROVE HookPending'
        BY DEF HookPending
      <4>1. i - 1 \in 1..Len(pinEdges') /\ pinEdges'[i - 1] = pinEdges[i]
        BY <2>2, <2>6
      <4>2. QED
        BY <4>1 DEF HookPending
    <3>2. HookPending \/ Ends(feed', "Hook", hook_on_hook, hook_on)
      BY <1>7, <2>1, <2>6 DEF HookToTell
    <3>3. QED
      BY <2>1, <2>4, <3>1, <3>2 DEF HookToTell
  <2>7. CASE ~HookInHand /\ e.role = "Hook"
    <3>1. Ends(pinEdges, "Hook", hook_on, hook_on)
      BY <2>7 DEF PinIsCurrent, HookUnsent
    <3>2. Ends(pinEdges', "Hook", e.value, hook_on)
      BY <2>1, <2>7, <3>1, EndsAfterTail DEF e
    <3>3. HookPending' \/ e.value = hook_on
      BY <2>2, <3>2 DEF HookPending, Ends, Told
    <3>4. e.value = hook_on => Ends(feed', "Hook", hook_on_hook, hook_on)
      BY <1>7, <2>1, <2>7
    <3>5. QED
      BY <2>1, <2>4, <3>3, <3>4 DEF HookToTell
  <2>8. QED
    BY <2>5, <2>6, <2>7
<1>14. QED
  BY <1>3, <1>4, <1>5, <1>6, <1>8, <1>9, <1>10, <1>11, <1>12, <1>13 DEF SimulatorNext

\* An edge the booth hears: the position of the hook, and the digit being dialled.
LEMMA HeardEdge ==
    ASSUME SimulatorShape, NEW e \in Edges, core' = handle(core, event_from_gpio(e))
    PROVE  /\ e.role = "Hook" => OnHook' = e.value
           /\ e.role # "Hook" => OnHook' = OnHook
           /\ e.role = "Hook" /\ e.value # OnHook => core'.n = 0
           /\ (e.role = "Hook" /\ e.value = OnHook) \/ (e.role # "Hook" /\ ~Fall(e)) =>
                 core'.phase = core.phase /\ core'.n = core.n
           /\ Fall(e) /\ core'.phase \in {"dial_tone", "dialing"} =>
                 core.phase \in {"dial_tone", "dialing"}
           /\ /\ Fall(e) /\ core.phase \in {"dial_tone", "dialing"}
              /\ core.n < MAX_PULSES_PER_DIGIT
              => core'.n = core.n + 1
<1>1. /\ core.phase \in Phases /\ core.n \in 0..MAX_PULSES_PER_DIGIT
      /\ core.phase \in {"on_hook", "dial_tone"} => core.n = 0
  BY DEF SimulatorShape, BoothShape
<1>2. e.role \in {"Hook", "RotaryPulse", "PowerButton"} /\ e.value \in BOOLEAN
  BY DEF Edges, Roles
<1>3. CASE e.role = "Hook"
  <2>1. CASE e.value = TRUE
    <3>1. core'.phase = "on_hook" /\ core'.n = 0
      BY <1>3, <2>1 DEF event_from_gpio, handle, Core
    <3>2. QED
      BY <1>1, <1>3, <2>1, <3>1 DEF OnHook, Fall
  <2>2. CASE e.value = FALSE
    <3>1. /\ core.phase = "on_hook" => core'.phase = "dial_tone" /\ core'.n = 0
          /\ core.phase # "on_hook" => core' = core
      BY <1>3, <2>2 DEF event_from_gpio, handle, Core
    <3>2. QED
      BY <1>1, <1>3, <2>2, <3>1 DEF OnHook, Fall
  <2>3. QED
    BY <1>2, <2>1, <2>2
<1>4. CASE e.role = "RotaryPulse"
  <2>1. CASE e.value = TRUE
    <3>1. core' = core
      BY <1>4, <2>1 DEF event_from_gpio, handle
    <3>2. QED
      BY <1>4, <2>1, <3>1 DEF OnHook, Fall
  <2>2. CASE e.value = FALSE
    <3>1. core' = handle_pulse(core) /\ Fall(e)
      BY <1>4, <2>2 DEF event_from_gpio, handle, Fall
    <3>2. /\ core'.phase = "on_hook" <=> core.phase = "on_hook"
          /\ core'.phase \in {"dial_tone", "dialing"} => core.phase \in {"dial_tone", "dialing"}
          /\ core.phase \in {"dial_tone", "dialing"} /\ core.n < MAX_PULSES_PER_DIGIT
               => core'.n = core.n + 1
      BY <1>1, <3>1, SimulatorConstants DEF handle_pulse, Core
    <3>3. OnHook' = OnHook
      BY <3>2 DEF OnHook
    <3>4. QED
      BY <1>4, <3>1, <3>2, <3>3
  <2>3. QED
    BY <1>2, <2>1, <2>2
<1>5. CASE e.role = "PowerButton"
  <2>1. core' = core
    BY <1>5 DEF event_from_gpio, handle
  <2>2. QED
    BY <1>5, <2>1 DEF OnHook, Fall
<1>6. QED
  BY <1>2, <1>3, <1>4, <1>5

LEMMA WebCounts ==
    ASSUME SimulatorShape, [SimulatorNext]_simulatorVars
    PROVE  (web' = 0 => web = 0) /\ (~edgeDropped' => ~edgeDropped)
<1>1. CASE WebSends
  BY <1>1 DEF WebSends, SimulatorShape, BoothShape, intake
<1>2. CASE ReadsEdge
  BY <1>2 DEF ReadsEdge, queue_event, booth, intake
<1>3. CASE HearsEvent \/ TimesOut \/ HearsWeb
  BY <1>3 DEF HearsEvent, TimesOut, HearsWeb, intake
<1>4. CASE toggle_hook \/ dial_digit \/ short_power_press \/ long_power_press
  <2>1. UNCHANGED <<booth, intake>>
    BY <1>4 DEF toggle_hook, dial_digit, short_power_press, long_power_press
  <2>2. QED
    BY <2>1, Zenon DEF booth, intake
<1>5. CASE \/ StoresPin \/ SendsEdge \/ PublishesEdge \/ Releases \/ NotesLag \/ ingest
           \/ UNCHANGED simulatorVars
  <2>1. UNCHANGED <<booth, intake>>
    BY <1>5 DEF StoresPin, SendsEdge, PublishesEdge, Releases, NotesLag, ingest, simulatorVars
  <2>2. QED
    BY <2>1, Zenon DEF booth, intake
<1>6. QED
  BY <1>1, <1>2, <1>3, <1>4, <1>5 DEF SimulatorNext

\* What a step does to the edges on their way to the booth.
LEMMA WayOfSteps ==
    ASSUME SimulatorShape
    PROVE  /\ Way \in Seq(Edges)
           /\ UNCHANGED <<eventQueue, pinEdges>> => Way' = Way
           /\ SendsEdge => Way' = Append(Way, Head(todo))
           /\ Releases => Way' = Append(Way, Edge("PowerButton", FALSE))
           /\ HearsEvent => /\ Way # <<>> /\ Way' = Tail(Way) /\ Head(Way) \in Edges
                            /\ core' = handle(core, event_from_gpio(Head(Way)))
           /\ ReadsEdge /\ ~edgeDropped' =>
                 \/ Way' = Way
                 \/ /\ pinEdges # <<>> /\ Way' = eventQueue \o Tail(pinEdges)
                    /\ Head(pinEdges).role # "Hook" /\ ~Fall(Head(pinEdges))
<1>1. eventQueue \in Seq(Edges) /\ pinEdges \in Seq(Edges) /\ todo \in Seq(Edges)
  BY DEF SimulatorShape, IntakeShape, PortShape, HandlerShape
<1>2. Way \in Seq(Edges)
  BY <1>1, OneAfterAnother DEF Way
<1>3. UNCHANGED <<eventQueue, pinEdges>> => Way' = Way
  BY DEF Way
<1>4. ASSUME SendsEdge PROVE Way' = Append(Way, Head(todo))
  <2>1. Head(todo) \in Edges /\ pinEdges' = Append(pinEdges, Head(todo)) /\ eventQueue' = eventQueue
    BY <1>1, <1>4, HeadTailProperties DEF SendsEdge, intake
  <2>2. QED
    BY <1>1, <2>1, OneAfterAnother DEF Way
<1>5. ASSUME Releases PROVE Way' = Append(Way, Edge("PowerButton", FALSE))
  <2> DEFINE e == Edge("PowerButton", FALSE)
  <2>1. e \in Edges
    BY DEF Edge, Edges, Roles
  <2>2. pinEdges' = Append(pinEdges, e) /\ eventQueue' = eventQueue
    BY <1>5 DEF Releases, intake
  <2> HIDE DEF e
  <2>3. Way' = Append(Way, e)
    BY <1>1, <2>1, <2>2, OneAfterAnother DEF Way
  <2>4. QED
    BY <2>3 DEF e
<1>6. ASSUME HearsEvent
      PROVE  /\ Way # <<>> /\ Way' = Tail(Way) /\ Head(Way) \in Edges
             /\ core' = handle(core, event_from_gpio(Head(Way)))
  <2>1. /\ eventQueue # <<>> /\ eventQueue' = Tail(eventQueue) /\ pinEdges' = pinEdges
        /\ core' = handle(core, event_from_gpio(Head(eventQueue))) /\ Head(eventQueue) \in Edges
    BY <1>1, <1>6, HeadTailProperties DEF HearsEvent, Handles, port
  <2>2. Way # <<>> /\ Head(Way) = Head(eventQueue) /\ Way' = Tail(Way)
    BY <1>1, <2>1, OneAfterAnother DEF Way
  <2>3. QED
    BY <2>1, <2>2
<1>7. ASSUME ReadsEdge, ~edgeDropped'
      PROVE  \/ Way' = Way
             \/ /\ pinEdges # <<>> /\ Way' = eventQueue \o Tail(pinEdges)
                /\ Head(pinEdges).role # "Hook" /\ ~Fall(Head(pinEdges))
  <2>1. pinEdges # <<>> /\ pinEdges' = Tail(pinEdges) /\ Head(pinEdges) \in Edges
    BY <1>1, <1>7, HeadTailProperties DEF ReadsEdge
  <2>2. CASE event_from_gpio(Head(pinEdges)) = "none"
    <3>1. eventQueue' = eventQueue
      BY <1>7, <2>2 DEF ReadsEdge, intake
    <3>2. Head(pinEdges).role # "Hook" /\ ~Fall(Head(pinEdges))
      BY <2>1, <2>2 DEF event_from_gpio, Fall, Edges, Roles
    <3>3. QED
      BY <2>1, <3>1, <3>2 DEF Way
  <2>3. CASE event_from_gpio(Head(pinEdges)) # "none"
    <3>1. eventQueue' = Append(eventQueue, Head(pinEdges))
      BY <1>7, <2>3 DEF ReadsEdge, queue_event
    <3>2. QED
      BY <1>1, <2>1, <3>1, OneAfterAnother DEF Way
  <2>4. QED
    BY <2>2, <2>3
<1>8. QED
  BY <1>2, <1>3, <1>4, <1>5, <1>6, <1>7

\* An edge that moves no hook and does not count is left out of the way.
LEMMA EndsWithout ==
    ASSUME NEW S, NEW s \in Seq(S), NEW p \in Seq(S), p # <<>>
    PROVE  /\ Without(s \o p, s \o Tail(p), Len(s) + 1) /\ (s \o p)[Len(s) + 1] = Head(p)
           /\ \A kind, b, v : Head(p).role # kind =>
                 (Ends(s \o Tail(p), kind, b, v) <=> Ends(s \o p, kind, b, v))
<1> DEFINE a == s \o p
           t == s \o Tail(p)
           k == Len(s) + 1
<1>1. /\ Len(s) \in Nat /\ Len(p) \in Nat \ {0} /\ Head(p) = p[1]
      /\ Tail(p) \in Seq(S) /\ Len(Tail(p)) = Len(p) - 1
      /\ \A i \in 1..(Len(p) - 1) : Tail(p)[i] = p[i + 1]
  BY HeadTailProperties, LenProperties, EmptySeq
<1>2. /\ Len(a) = Len(s) + Len(p) /\ Len(t) = Len(s) + Len(p) - 1
      /\ \A i \in 1..Len(s) : a[i] = s[i] /\ t[i] = s[i]
      /\ \A i \in 1..Len(p) : a[Len(s) + i] = p[i]
      /\ \A i \in 1..(Len(p) - 1) : t[Len(s) + i] = Tail(p)[i]
  BY <1>1, ConcatProperties
<1> HIDE DEF a, t
<1>3. a[k] = Head(p)
  BY <1>1, <1>2
<1>4. ASSUME NEW i \in 1..Len(t) PROVE t[i] = a[Past(k, i)]
  <2>1. CASE i < k
    BY <1>1, <1>2, <2>1 DEF Past
  <2>2. CASE i >= k
    <3> DEFINE j == i - Len(s)
    <3>1. j \in 1..(Len(p) - 1) /\ i = Len(s) + j /\ i + 1 = Len(s) + (j + 1) /\ j + 1 \in 1..Len(p)
      BY <1>1, <1>2, <2>2
    <3> HIDE DEF j
    <3>2. t[i] = p[j + 1] /\ a[i + 1] = p[j + 1]
      BY <1>1, <1>2, <3>1
    <3>3. Past(k, i) = i + 1
      BY <1>1, <2>2 DEF Past
    <3>4. QED
      BY <3>2, <3>3
  <2>3. QED
    BY <1>1, <1>2, <2>1, <2>2
<1>5. Without(a, t, k) /\ Len(t) \in Nat /\ Past(k, Len(t) + 1) = Len(a) + 1
  BY <1>1, <1>2, <1>4 DEF Without, Past
<1>6. ASSUME NEW kind, NEW b, NEW v, Head(p).role # kind
      PROVE  Ends(t, kind, b, v) <=> Ends(a, kind, b, v)
  <2>1. Len(t) + 1 \in 1..(Len(t) + 1) /\ a[k].role # kind
    BY <1>3, <1>5, <1>6
  <2> HIDE DEF k
  <2>2. Told(t, kind, b, Len(t) + 1, v) <=> Told(a, kind, b, Past(k, Len(t) + 1), v)
    BY <1>5, <2>1, ToldWithout
  <2>3. QED
    BY <1>5, <2>2 DEF Ends
<1>7. QED
  BY <1>3, <1>5, <1>6 DEF a, t

\* What gpio_task takes it puts back on the way, or it is of no account.
LEMMA ReadsOrLeavesOut ==
    ASSUME SimulatorShape, ReadsEdge, ~edgeDropped', NEW b, NEW v
    PROVE  Ends(Way', "Hook", b, v) <=> Ends(Way, "Hook", b, v)
<1>1. eventQueue \in Seq(Edges) /\ pinEdges \in Seq(Edges)
  BY DEF SimulatorShape, IntakeShape, PortShape
<1>2. CASE Way' = Way
  BY <1>2
<1>3. CASE /\ pinEdges # <<>> /\ Way' = eventQueue \o Tail(pinEdges)
           /\ Head(pinEdges).role # "Hook"
  BY <1>1, <1>3, EndsWithout DEF Way
<1>4. QED
  BY <1>2, <1>3, WayOfSteps

LEMMA BoothSoundKept ==
    SimulatorShape /\ BoothSound /\ [SimulatorNext]_simulatorVars => BoothSound'
<1> SUFFICES ASSUME SimulatorShape, BoothSound, [SimulatorNext]_simulatorVars,
                    web' = 0, ~edgeDropped'
             PROVE  /\ commands' = <<>>
                    /\ HookUnsent' \/ Ends(Way', "Hook", OnHook', hook_on')
  BY DEF BoothSound, Ends, Told
<1>1. HandlerShape /\ BoothShape /\ Way \in Seq(Edges)
  BY WayOfSteps DEF SimulatorShape
<1>2. web = 0 /\ commands = <<>> /\ (HookUnsent \/ Ends(Way, "Hook", OnHook, hook_on))
  BY WebCounts DEF BoothSound
<1>3. CASE toggle_hook
  <2>1. stage = "store" /\ stage' = stage /\ HookInHand' /\ commands' = commands
    BY <1>1, <1>3 DEF toggle_hook, Presses, HandlerShape, HookInHand, Edge, booth
  <2>2. QED
    BY <1>2, <2>1 DEF HookUnsent
<1>4. CASE dial_digit \/ short_power_press \/ long_power_press \/ NotesLag \/ ingest
  <2>1. ~HookUnsent /\ hook_on' = hook_on /\ Way' = Way /\ core' = core /\ commands' = commands
    BY <1>4 DEF dial_digit, short_power_press, long_power_press, Presses, NotesLag, ingest,
                HookUnsent, HookInHand, port, booth, intake, Way
  <2>2. QED
    BY <1>2, <2>1 DEF OnHook
<1>5. CASE StoresPin
  <2>1. /\ Way' = Way /\ OnHook' = OnHook /\ commands' = commands /\ stage' # "publish"
        /\ HookInHand \/ hook_on' = hook_on
        /\ HookInHand => HookInHand'
    BY <1>5 DEF StoresPin, HookInHand, booth, OnHook, intake, Way
  <2>2. QED
    BY <1>2, <2>1 DEF HookUnsent
<1>6. CASE SendsEdge
  <2>1. /\ Way' = Append(Way, Head(todo)) /\ OnHook' = OnHook /\ commands' = commands
        /\ hook_on' = hook_on /\ Head(todo) \in Edges /\ todo # <<>> /\ stage = "send"
    BY <1>1, <1>6, HeadTailProperties, WayOfSteps DEF SendsEdge, booth, OnHook, HandlerShape
  <2>2. CASE Head(todo).role = "Hook"
    <3>1. hook_on = Head(todo).value
      BY <1>1, <2>1, <2>2 DEF HandlerShape, HookInHand
    <3>2. Ends(Way', "Hook", OnHook, hook_on)
      BY <1>1, <2>1, <2>2, <3>1, ToldAfterAppend
    <3>3. QED
      BY <1>2, <2>1, <3>2
  <2>3. CASE Head(todo).role # "Hook"
    <3>1. Ends(Way, "Hook", OnHook, hook_on)
      BY <1>2, <2>3 DEF HookUnsent, HookInHand
    <3>2. Ends(Way', "Hook", OnHook, hook_on)
      BY <1>1, <2>1, <2>3, <3>1, ToldAfterAppend
    <3>3. QED
      BY <1>2, <2>1, <3>2
  <2>4. QED
    BY <2>2, <2>3
<1>7. CASE PublishesEdge
  <2>1. ~HookUnsent /\ hook_on' = hook_on /\ Way' = Way /\ OnHook' = OnHook /\ commands' = commands
    BY <1>7 DEF PublishesEdge, HookUnsent, port, booth, OnHook, intake, Way
  <2>2. QED
    BY <1>2, <2>1
<1>8. CASE Releases
  <2> DEFINE r == Edge("PowerButton", FALSE)
  <2>1. r \in Edges /\ r.role # "Hook"
    BY DEF Edge, Edges, Roles
  <2>2. /\ Way' = Append(Way, r) /\ hook_on' = hook_on /\ OnHook' = OnHook
        /\ commands' = commands /\ (HookUnsent => HookUnsent')
    BY <1>8, WayOfSteps DEF Releases, HookUnsent, HookInHand, booth, OnHook
  <2> HIDE DEF r
  <2>3. QED
    BY <1>1, <1>2, <2>1, <2>2, ToldAfterAppend
<1>9. CASE HearsEvent
  <2>1. /\ Way' = Tail(Way) /\ Way # <<>>
        /\ Head(Way) \in Edges /\ core' = handle(core, event_from_gpio(Head(Way)))
        /\ hook_on' = hook_on /\ commands' = commands /\ (HookUnsent => HookUnsent')
    BY <1>9, WayOfSteps DEF HearsEvent, HookUnsent, HookInHand, handler, port
  <2>2. OnHook' = IF Head(Way).role = "Hook" THEN Head(Way).value ELSE OnHook
    BY <2>1, HeardEdge
  <2>3. Ends(Way', "Hook", OnHook', hook_on) <=> Ends(Way, "Hook", OnHook, hook_on)
    BY <1>1, <2>1, <2>2, EndsAfterTail
  <2>4. QED
    BY <1>2, <2>1, <2>3
<1>10. CASE TimesOut
  <2>1. core.phase = "dialing" /\ core' = Core("dialed", core.n % 10)
    BY <1>10 DEF TimesOut, Handles, handle
  <2>2. /\ OnHook' = OnHook /\ Way' = Way /\ hook_on' = hook_on
        /\ commands' = commands /\ (HookUnsent => HookUnsent')
    BY <1>10, <2>1 DEF TimesOut, HookUnsent, HookInHand, handler, port, OnHook, Core,
       intake, Way
  <2>3. QED
    BY <1>2, <2>2
<1>11. CASE UNCHANGED simulatorVars
  <2>1. /\ Way' = Way /\ hook_on' = hook_on /\ commands' = commands /\ core' = core
        /\ todo' = todo /\ stage' = stage
    BY <1>11 DEF simulatorVars, handler, port, booth, intake, Way
  <2>2. QED
    BY <1>2, <2>1 DEF HookUnsent, HookInHand, OnHook
<1>12. CASE WebSends
  BY <1>1, <1>2, <1>12 DEF WebSends, BoothShape
<1>13. CASE HearsWeb
  BY <1>2, <1>13 DEF HearsWeb
<1>14. CASE ReadsEdge
  <2>1. /\ hook_on' = hook_on /\ commands' = commands /\ (HookUnsent => HookUnsent')
        /\ OnHook' = OnHook
    BY <1>14 DEF ReadsEdge, HookUnsent, HookInHand, handler, booth, OnHook
  <2>2. Ends(Way', "Hook", OnHook, hook_on) <=> Ends(Way, "Hook", OnHook, hook_on)
    BY <1>14, ReadsOrLeavesOut
  <2>3. QED
    BY <1>2, <2>1, <2>2
<1>15. QED
  BY <1>3, <1>4, <1>5, <1>6, <1>7, <1>8, <1>9, <1>10, <1>11, <1>12, <1>13,
     <1>14 DEF SimulatorNext
\* An edge is sent: one that moves the hook, when nothing was keyed since; another counts.
LEMMA MatchesAfterAppend ==
    ASSUME NEW s \in Seq(Edges), NEW r \in Edges, NEW b, NEW phase, NEW n \in Nat, NEW total
    PROVE  /\ r.role = "Hook" /\ ~Ends(s, "Hook", b, r.value) =>
                 Matches(Append(s, r), b, phase, n, 0, 0)
           /\ \A u, w \in Nat :
                 /\ r.role = "Hook" => Ends(s, "Hook", b, r.value)
                 /\ w = u + (IF Fall(r) THEN 1 ELSE 0)
                 /\ Matches(s, b, phase, n, w, total)
                 => Matches(Append(s, r), b, phase, n, u, total)
<1> DEFINE t == Append(s, r)
           f == IF Fall(r) THEN 1 ELSE 0
<1>1. /\ Len(t) = Len(s) + 1 /\ Len(s) \in Nat /\ t[Len(s) + 1] = r /\ t \in Seq(Edges)
      /\ \A i \in 1..Len(s) : t[i] = s[i]
  BY AppendProperties, LenProperties
<1>2. \A i \in 0..Len(s) : FallsFrom(t, i) = FallsFrom(s, i) + f /\ FallsFrom(s, i) \in Nat
  BY FallsAfterAppend, FallsCounted
<1>3. \A v : \A i \in 1..(Len(s) + 1) : Told(t, "Hook", b, i, v) <=> Told(s, "Hook", b, i, v)
  BY ToldAfterAppend
<1>4. FallsFrom(t, Len(t)) = 0
  BY <1>1, FallsCounted
<1> HIDE DEF t
<1>5. /\ \A i \in 1..Len(s) : Moves(t, b, i) <=> Moves(s, b, i)
      /\ Moves(t, b, Len(s) + 1) <=> r.role = "Hook" /\ ~Ends(s, "Hook", b, r.value)
  <2>1. \A i \in 1..Len(s) : Moves(t, b, i) <=> Moves(s, b, i)
    BY <1>1, <1>3 DEF Moves
  <2>2. Moves(t, b, Len(s) + 1) <=> r.role = "Hook" /\ ~Ends(s, "Hook", b, r.value)
    BY <1>1, <1>3 DEF Moves, Ends
  <2>3. QED
    BY <2>1, <2>2
<1>6. ASSUME r.role = "Hook", ~Ends(s, "Hook", b, r.value) PROVE Matches(t, b, phase, n, 0, 0)
  <2>1. Len(t) \in 1..Len(t) /\ Moves(t, b, Len(t)) /\ FallsFrom(t, Len(t)) + 0 = 0
    BY <1>1, <1>4, <1>5, <1>6
  <2>2. \A i \in (Len(t) + 1)..Len(t) : ~Moves(t, b, i)
    BY <1>1
  <2>3. QED
    BY <2>1, <2>2 DEF Matches
<1>7. ASSUME NEW u \in Nat, NEW w \in Nat, r.role = "Hook" => Ends(s, "Hook", b, r.value),
             w = u + f, Matches(s, b, phase, n, w, total)
      PROVE  Matches(t, b, phase, n, u, total)
  <2>1. ~Moves(t, b, Len(s) + 1)
    BY <1>5, <1>7
  <2>2. CASE /\ \A i \in 1..Len(s) : ~Moves(s, b, i)
             /\ phase \in {"dial_tone", "dialing"} => n + FallsFrom(s, 0) + w = total
    <3>1. \A i \in 1..Len(t) : ~Moves(t, b, i)
      BY <1>1, <1>5, <2>1, <2>2
    <3>2. n + FallsFrom(t, 0) + u = n + FallsFrom(s, 0) + w
      BY <1>1, <1>2, <1>7
    <3>3. QED
      BY <2>2, <3>1, <3>2 DEF Matches
  <2>3. CASE \E m \in 1..Len(s) : /\ Moves(s, b, m) /\ \A i \in (m + 1)..Len(s) : ~Moves(s, b, i)
                                  /\ FallsFrom(s, m) + w = total
    <3>1. PICK m \in 1..Len(s) : /\ Moves(s, b, m) /\ \A i \in (m + 1)..Len(s) : ~Moves(s, b, i)
                                 /\ FallsFrom(s, m) + w = total
      BY <2>3
    <3>2. Moves(t, b, m) /\ m \in 1..Len(t)
      BY <1>1, <1>5, <3>1
    <3>3. \A i \in (m + 1)..Len(t) : ~Moves(t, b, i)
      BY <1>1, <1>5, <2>1, <3>1
    <3>4. FallsFrom(t, m) + u = total
      BY <1>1, <1>2, <1>7, <3>1
    <3>5. QED
      BY <3>2, <3>3, <3>4 DEF Matches
  <2>4. QED
    BY <1>7, <2>2, <2>3 DEF Matches
<1>8. QED
  BY <1>6, <1>7 DEF t

\* An edge is heard: the booth moves the hook, or counts a pulse.
LEMMA MatchesAfterTail ==
    ASSUME NEW s \in Seq(Edges), s # <<>>, NEW b, NEW phase, NEW n \in Nat, NEW p, NEW k \in Nat,
           NEW u \in Nat, NEW total \in Nat, Matches(s, b, phase, n, u, total),
           Head(s).role = "Hook" /\ Head(s).value # b => k = 0,
           (Head(s).role = "Hook" /\ Head(s).value = b) \/ (Head(s).role # "Hook" /\ ~Fall(Head(s)))
                => p = phase /\ k = n,
           Fall(Head(s)) /\ p \in {"dial_tone", "dialing"} => phase \in {"dial_tone", "dialing"},
           Fall(Head(s)) /\ phase \in {"dial_tone", "dialing"} /\ n < total => k = n + 1
    PROVE  Matches(Tail(s), IF Head(s).role = "Hook" THEN Head(s).value ELSE b, p, k, u, total)
<1> DEFINE t == Tail(s)
           c == IF Head(s).role = "Hook" THEN Head(s).value ELSE b
           active == {"dial_tone", "dialing"}
<1>1. /\ Len(s) \in Nat \ {0} /\ Len(t) = Len(s) - 1 /\ Head(s) = s[1] /\ t \in Seq(Edges)
      /\ \A j \in 1..Len(t) : t[j] = s[j + 1]
  BY HeadTailProperties, LenProperties, EmptySeq
<1>2. /\ \A i \in 0..(Len(s) - 1) : FallsFrom(t, i) = FallsFrom(s, i + 1) /\ FallsFrom(t, i) \in Nat
      /\ FallsFrom(s, 0) = FallsFrom(s, 1) + (IF Fall(Head(s)) THEN 1 ELSE 0)
  BY <1>1, FallsAfterTail, FallsCounted
<1>3. \A v : \A i \in 1..Len(s) : Told(t, "Hook", c, i, v) <=> Told(s, "Hook", b, i + 1, v)
  BY ToldAfterTail
<1>4. Moves(s, b, 1) <=> Head(s).role = "Hook" /\ Head(s).value # b
  BY <1>1 DEF Moves, Told
<1> HIDE DEF t, c
<1>5. \A i \in 1..Len(t) : Moves(t, c, i) <=> Moves(s, b, i + 1)
  BY <1>1, <1>3 DEF Moves
<1>6. CASE /\ \A i \in 1..Len(s) : ~Moves(s, b, i)
           /\ phase \in active => n + FallsFrom(s, 0) + u = total
  <2>1. \A i \in 1..Len(t) : ~Moves(t, c, i)
    BY <1>1, <1>5, <1>6
  <2>2. ~(Head(s).role = "Hook" /\ Head(s).value # b)
    BY <1>1, <1>4, <1>6
  <2>3. FallsFrom(t, 0) = FallsFrom(s, 1) /\ FallsFrom(t, 0) \in Nat
    BY <1>1, <1>2
  <2>4. ASSUME p \in active PROVE k + FallsFrom(t, 0) + u = total
    <3>1. CASE Fall(Head(s))
      <4>1. phase \in active /\ n + FallsFrom(t, 0) + 1 + u = total
        BY <1>2, <1>6, <2>3, <2>4, <3>1
      <4>2. k = n + 1
        BY <2>3, <3>1, <4>1
      <4>3. QED
        BY <2>3, <4>1, <4>2
    <3>2. CASE ~Fall(Head(s))
      <4>1. p = phase /\ k = n
        BY <2>2, <3>2
      <4>2. n + FallsFrom(t, 0) + u = total
        BY <1>2, <1>6, <2>3, <2>4, <3>2, <4>1
      <4>3. QED
        BY <4>1, <4>2
    <3>3. QED
      BY <3>1, <3>2
  <2>5. QED
    BY <2>1, <2>4 DEF Matches, t, c
<1>7. CASE \E m \in 1..Len(s) : /\ Moves(s, b, m) /\ \A i \in (m + 1)..Len(s) : ~Moves(s, b, i)
                                /\ FallsFrom(s, m) + u = total
  <2>1. PICK m \in 1..Len(s) : /\ Moves(s, b, m) /\ \A i \in (m + 1)..Len(s) : ~Moves(s, b, i)
                               /\ FallsFrom(s, m) + u = total
    BY <1>7
  <2>2. CASE m = 1
    <3>1. \A i \in 1..Len(t) : ~Moves(t, c, i)
      BY <1>1, <1>5, <2>1, <2>2
    <3>2. k = 0 /\ FallsFrom(t, 0) = FallsFrom(s, 1) /\ FallsFrom(t, 0) \in Nat
      BY <1>1, <1>2, <1>4, <2>1, <2>2
    <3>3. k + FallsFrom(t, 0) + u = total
      BY <2>1, <2>2, <3>2
    <3>4. QED
      BY <3>1, <3>3 DEF Matches, t, c
  <2>3. CASE m # 1
    <3> DEFINE l == m - 1
    <3>1. l \in 1..Len(t) /\ l + 1 = m
      BY <1>1, <2>1, <2>3
    <3> HIDE DEF l
    <3>2. Moves(t, c, l) /\ FallsFrom(t, l) + u = total
      BY <1>1, <1>2, <1>5, <2>1, <3>1
    <3>3. \A i \in (l + 1)..Len(t) : ~Moves(t, c, i)
      BY <1>1, <1>5, <2>1, <3>1
    <3>4. QED
      BY <3>1, <3>2, <3>3 DEF Matches, t, c
  <2>4. QED
    BY <2>2, <2>3
<1>8. QED
  BY <1>6, <1>7 DEF Matches

\* An edge that moves no hook and does not count is left out.
LEMMA MatchesWithout ==
    ASSUME NEW s \in Seq(Edges), NEW t \in Seq(Edges), NEW k, Without(s, t, k),
           s[k].role # "Hook", ~Fall(s[k]), NEW b, NEW phase, NEW n, NEW u, NEW total,
           Matches(s, b, phase, n, u, total)
    PROVE  Matches(t, b, phase, n, u, total)
<1> DEFINE l == Len(t)
<1>1. /\ l \in Nat /\ k \in 1..(l + 1) /\ Len(s) = l + 1
      /\ \A i \in 1..l : t[i] = s[Past(k, i)]
  BY LenProperties DEF Without
<1>2. /\ \A i \in 1..l : Past(k, i) \in 1..(l + 1) /\ Past(k, i) # k
      /\ \A m \in 1..(l + 1) : m # k => \E i \in 1..l : Past(k, i) = m
      /\ \A i, j \in 0..(l + 1) : i < j <=> Past(k, i) < Past(k, j)
      /\ Past(k, 0) = 0
  BY <1>1, PastCovers
<1>3. \A i \in 0..l : FallsFrom(t, i) = FallsFrom(s, Past(k, i))
  BY FallsWithout
<1>4. \A v : \A i \in 1..(l + 1) : Told(t, "Hook", b, i, v) <=> Told(s, "Hook", b, Past(k, i), v)
  BY <1>1, ToldWithout
<1> HIDE DEF l
<1>5. \A i \in 1..l : Moves(t, b, i) <=> Moves(s, b, Past(k, i))
  BY <1>1, <1>4 DEF Moves
<1>6. CASE /\ \A i \in 1..Len(s) : ~Moves(s, b, i)
           /\ phase \in {"dial_tone", "dialing"} => n + FallsFrom(s, 0) + u = total
  <2>1. \A i \in 1..l : ~Moves(t, b, i)
    BY <1>1, <1>2, <1>5, <1>6
  <2>2. FallsFrom(t, 0) = FallsFrom(s, 0)
    BY <1>1, <1>2, <1>3
  <2>3. QED
    BY <1>6, <2>1, <2>2 DEF Matches, l
<1>7. CASE \E m \in 1..Len(s) : /\ Moves(s, b, m) /\ \A i \in (m + 1)..Len(s) : ~Moves(s, b, i)
                                /\ FallsFrom(s, m) + u = total
  <2>1. PICK m \in 1..Len(s) : /\ Moves(s, b, m) /\ \A i \in (m + 1)..Len(s) : ~Moves(s, b, i)
                               /\ FallsFrom(s, m) + u = total
    BY <1>7
  <2>2. m # k
    BY <2>1 DEF Moves
  <2>3. PICK j \in 1..l : Past(k, j) = m
    BY <1>1, <1>2, <2>1, <2>2
  <2>4. Moves(t, b, j) /\ FallsFrom(t, j) + u = total
    BY <1>1, <1>3, <1>5, <2>1, <2>3
  <2>5. ASSUME NEW i \in (j + 1)..l PROVE ~Moves(t, b, i)
    <3>1. i \in 1..l /\ i \in 0..(l + 1) /\ j \in 0..(l + 1) /\ j < i
      BY <1>1
    <3>2. m < Past(k, i) /\ Past(k, i) \in 1..(l + 1)
      BY <1>2, <2>3, <3>1
    <3>3. Past(k, i) \in (m + 1)..Len(s)
      BY <1>1, <2>1, <3>2
    <3>4. QED
      BY <1>5, <2>1, <3>1, <3>3
  <2>6. QED
    BY <2>4, <2>5 DEF Matches, l
<1>8. QED
  BY <1>6, <1>7 DEF Matches

LEMMA UnsentFacts ==
    ASSUME SimulatorShape
    PROVE  /\ Unsent \in Nat
           /\ todo = <<>> => Unsent = 0
           /\ stage = "publish" => Unsent = FallsFrom(todo, 1)
           /\ stage # "publish" => Unsent = FallsFrom(todo, 0)
<1>1. todo \in Seq(Edges)
  BY DEF SimulatorShape, HandlerShape
<1>2. todo = <<>> => \A i \in 1..Len(todo) : todo[i].role # "RotaryPulse"
  BY EmptySeq
<1>3. QED
  BY <1>1, <1>2, FallsCounted DEF Unsent

LEMMA DigitSoundKept ==
    ASSUME MAX_PULSES_PER_DIGIT >= 10
    PROVE  SimulatorSound /\ [SimulatorNext]_simulatorVars => DigitSound'
<1> SUFFICES ASSUME SimulatorSound, [SimulatorNext]_simulatorVars, web' = 0, ~edgeDropped',
                    Len(keyed') <= 1
             PROVE  /\ MoveUnsent' => keyed' = <<>>
                    /\ ~MoveUnsent' =>
                         Matches(Way', OnHook', core'.phase, core'.n, Unsent', Total')
  BY DEF DigitSound, Matches, Moves, FallsFrom, FallsAfter, Told
<1>1. SimulatorShape /\ BoothSound /\ DigitSound /\ web = 0 /\ ~edgeDropped
  BY WebCounts DEF SimulatorSound
<1>2. TerminalShape /\ HandlerShape /\ PortShape /\ BoothShape
  BY <1>1 DEF SimulatorShape
<1>3. /\ core.n \in Nat /\ Way \in Seq(Edges) /\ todo \in Seq(Edges)
      /\ commands = <<>> /\ (HookUnsent \/ Ends(Way, "Hook", OnHook, hook_on))
  BY <1>1, <1>2, WayOfSteps DEF BoothShape, HandlerShape, BoothSound
<1>4. /\ Unsent \in Nat /\ (todo = <<>> => Unsent = 0)
      /\ stage = "publish" => Unsent = FallsFrom(todo, 1)
      /\ stage # "publish" => Unsent = FallsFrom(todo, 0)
  BY <1>1, UnsentFacts
<1>5. SimulatorShape'
  BY <1>1, SimulatorShapeKept
<1>6. ASSUME keyed' = keyed
      PROVE  /\ MoveUnsent => keyed = <<>>
             /\ ~MoveUnsent => Matches(Way, OnHook, core.phase, core.n, Unsent, Total)
             /\ Total' = Total
  BY <1>1, <1>6 DEF DigitSound, Total
<1>7. CASE toggle_hook
  <2>1. /\ todo = <<>> /\ stage = "store" /\ stage' = stage /\ Way' = Way
        /\ core' = core /\ OnHook' = OnHook /\ todo' = <<Edge("Hook", hook_on_hook')>>
        /\ (hook_on_hook' <=> ~hook_on_hook)
        /\ ~HookUnsent /\ ~MoveUnsent
    BY <1>2, <1>7, Zenon DEF toggle_hook, Presses, HandlerShape, port, booth, OnHook,
       HookUnsent, HookInHand, MoveUnsent, intake, Way
  <2>2. /\ Head(todo') = Edge("Hook", hook_on_hook') /\ Head(todo').value = hook_on_hook'
        /\ HookUnsent' /\ Ends(Way, "Hook", OnHook, hook_on)
        /\ \A i \in 1..Len(todo') : todo'[i].role # "RotaryPulse"
    BY <1>3, <2>1 DEF HookUnsent, HookInHand, Edge
  <2>3. MoveUnsent' <=> ~Ends(Way, "Hook", OnHook, hook_on_hook')
    BY <2>1, <2>2 DEF MoveUnsent, Ends, Told
  <2>4. CASE hook_on_hook = hook_on
    <3>1. keyed' = <<>>
      BY <1>7, <2>4 DEF toggle_hook
    <3>2. hook_on_hook' # hook_on
      <4>1. hook_on_hook \in BOOLEAN /\ hook_on \in BOOLEAN /\ hook_on_hook' \in BOOLEAN
        BY <1>2, <1>5 DEF TerminalShape, PortShape, SimulatorShape
      <4>2. QED
        BY <2>1, <2>4, <4>1
    <3>3. Len(Way) + 1 \in Nat
      BY <1>3, LenProperties
    <3>4. ~Ends(Way, "Hook", OnHook, hook_on_hook')
      BY <2>2, <3>2, <3>3, ToldOnce DEF Ends
    <3>5. QED
      BY <2>3, <3>1, <3>4
  <2>5. CASE hook_on_hook # hook_on
    <3>1. keyed' = keyed
      BY <1>7, <2>5 DEF toggle_hook
    <3>2. hook_on_hook' = hook_on
      <4>1. hook_on_hook \in BOOLEAN /\ hook_on \in BOOLEAN /\ hook_on_hook' \in BOOLEAN
        BY <1>2, <1>5 DEF TerminalShape, PortShape, SimulatorShape
      <4>2. QED
        BY <2>1, <2>5, <4>1
    <3>3. ~MoveUnsent'
      BY <2>2, <2>3, <3>2
    <3>4. Unsent' = 0
      <4>1. todo' \in Seq(Edges)
        BY <1>5 DEF SimulatorShape, HandlerShape
      <4>2. \A i : FallsFrom(todo', i) = 0
        BY <2>2, <4>1, FallsCounted
      <4>3. QED
        BY <4>2 DEF Unsent
    <3>5. QED
      BY <1>4, <1>6, <2>1, <3>1, <3>3, <3>4
  <2>6. QED
    BY <2>4, <2>5
<1>8. CASE dial_digit
  <2>1. /\ todo = <<>> /\ stage = "store" /\ stage' = stage /\ Way' = Way
        /\ core' = core /\ OnHook' = OnHook /\ ~MoveUnsent
    BY <1>2, <1>8 DEF dial_digit, Presses, HandlerShape, port, booth, OnHook,
       HookUnsent, HookInHand, MoveUnsent, intake, Way
  <2>2. CASE hook_on_hook
    <3>1. todo' = todo /\ keyed' = keyed
      BY <1>8, <2>2 DEF dial_digit
    <3>2. ~MoveUnsent' /\ Unsent' = Unsent
      BY <2>1, <3>1 DEF MoveUnsent, HookUnsent, HookInHand, Unsent
    <3>3. QED
      BY <1>6, <2>1, <3>1, <3>2
  <2>3. CASE ~hook_on_hook
    <3>1. PICK digit \in Digits : /\ todo' = Pulses(PulsesOf(digit))
                                  /\ keyed' = Append(keyed, digit)
      BY <1>8, <2>3 DEF dial_digit
    <3>2. PulsesOf(digit) \in Nat
      BY SimulatorConstants DEF PulsesOf
    <3>3. keyed = <<>> /\ keyed' # <<>> /\ keyed'[1] = digit
      <4>1. keyed \in Seq(Digits)
        BY <1>2 DEF TerminalShape
      <4>2. Len(keyed') = Len(keyed) + 1 /\ Len(keyed) \in Nat /\ keyed'[Len(keyed) + 1] = digit
        BY <3>1, <4>1, AppendProperties, LenProperties
      <4>3. Len(keyed) = 0
        BY <4>2
      <4>4. QED
        BY <4>1, <4>2, <4>3, EmptySeq
    <3>4. Total = 0 /\ Total' = PulsesOf(digit) /\ Unsent = 0
      BY <1>4, <2>1, <3>3 DEF Total
    <3>5. Unsent' = PulsesOf(digit)
      BY <2>1, <3>1, <3>2, FallsOfDigit DEF Unsent
    <3>6. ~MoveUnsent'
      <4>1. \A i \in 1..Len(todo') : todo'[i].role = "RotaryPulse"
        BY <3>1, <3>2, FallsOfDigit
      <4>2. todo' \in Seq(Edges)
        BY <1>5 DEF SimulatorShape, HandlerShape
      <4>3. todo' # <<>> => Head(todo') = todo'[1] /\ 1 \in 1..Len(todo')
        BY <4>2, HeadTailProperties, EmptySeq, LenProperties
      <4>4. QED
        BY <4>1, <4>3 DEF MoveUnsent, HookUnsent, HookInHand
    <3>7. Matches(Way, OnHook, core.phase, core.n, 0, 0)
      BY <1>1, <2>1, <3>3, <3>4, EmptySeq DEF DigitSound
    <3>8. \A k \in Nat : Matches(Way, OnHook, core.phase, core.n, k, k)
      <4>1. \A i : FallsFrom(Way, i) \in Nat
        BY <1>3, FallsCounted
      <4>2. \A i : FallsFrom(Way, i) + 0 = 0 => \A k \in Nat : FallsFrom(Way, i) + k = k
        BY <4>1
      <4>3. core.n + FallsFrom(Way, 0) + 0 = 0
               => \A k \in Nat : core.n + FallsFrom(Way, 0) + k = k
        BY <1>3, <4>1
      <4>4. QED
        BY <3>7, <4>2, <4>3 DEF Matches
    <3>9. QED
      BY <2>1, <3>2, <3>4, <3>5, <3>6, <3>8
  <2>4. QED
    BY <2>2, <2>3
<1>9. CASE short_power_press \/ long_power_press
  <2>1. /\ todo = <<>> /\ Way' = Way /\ keyed' = keyed
        /\ core' = core /\ OnHook' = OnHook /\ ~MoveUnsent
        /\ \/ todo' = <<Edge("PowerButton", TRUE), Edge("PowerButton", FALSE)>>
           \/ todo' = <<Edge("PowerButton", TRUE)>>
    BY <1>9 DEF short_power_press, long_power_press, Presses, port, booth, OnHook,
       HookUnsent, HookInHand, MoveUnsent, intake, Way
  <2>2. \A i \in 1..Len(todo') : todo'[i].role = "PowerButton"
    BY <2>1 DEF Edge
  <2>3. Head(todo').role = "PowerButton"
    BY <2>1 DEF Edge
  <2>4. ~MoveUnsent'
    BY <2>3 DEF MoveUnsent, HookUnsent, HookInHand
  <2>5. Unsent' = 0
    <3>1. todo' \in Seq(Edges) /\ \A i \in 1..Len(todo') : todo'[i].role # "RotaryPulse"
      BY <1>5, <2>2 DEF SimulatorShape, HandlerShape
    <3>2. \A i : FallsFrom(todo', i) = 0
      BY <3>1, FallsCounted
    <3>3. QED
      BY <3>2 DEF Unsent
  <2>6. QED
    BY <1>4, <1>6, <2>1, <2>4, <2>5
<1>10. CASE StoresPin
  <2>1. /\ todo' = todo /\ stage = "store" /\ stage' = "send" /\ Way' = Way
        /\ keyed' = keyed /\ core' = core
    BY <1>10 DEF StoresPin, terminal, booth, intake, Way
  <2>2. (MoveUnsent' <=> MoveUnsent) /\ Unsent' = Unsent /\ OnHook' = OnHook
    BY <2>1 DEF MoveUnsent, HookUnsent, HookInHand, Unsent, OnHook, Ends, Told
  <2>3. QED
    BY <1>6, <2>1, <2>2
<1>11. CASE SendsEdge
  <2>1. /\ todo' = todo /\ stage = "send" /\ stage' = "publish" /\ todo # <<>>
        /\ Way' = Append(Way, Head(todo)) /\ Head(todo) \in Edges
        /\ keyed' = keyed /\ core' = core /\ OnHook' = OnHook
    BY <1>1, <1>3, <1>11, HeadTailProperties, WayOfSteps DEF SendsEdge, terminal, booth, OnHook
  <2>2. ~MoveUnsent'
    BY <2>1 DEF MoveUnsent, HookUnsent
  <2>3. /\ Unsent = FallsFrom(todo, 0) /\ Unsent' = FallsFrom(todo, 1)
        /\ Unsent = Unsent' + (IF Fall(Head(todo)) THEN 1 ELSE 0) /\ Unsent' \in Nat
    BY <1>3, <1>4, <2>1, FallsAfterTail, FallsCounted DEF Unsent
  <2>4. CASE MoveUnsent
    <3>1. /\ Head(todo).role = "Hook" /\ ~Ends(Way, "Hook", OnHook, Head(todo).value)
          /\ HookInHand
      BY <2>4 DEF MoveUnsent, HookUnsent, HookInHand
    <3>2. Total = 0
      BY <1>6, <2>1, <2>4 DEF Total
    <3>3. Unsent' = 0
      <4>1. Len(todo) = 1
        BY <1>2, <3>1 DEF HandlerShape
      <4>2. QED
        BY <1>3, <2>3, <4>1, FallsCounted
    <3>4. Matches(Way', OnHook, core.phase, core.n, 0, 0)
      BY <1>3, <2>1, <3>1, MatchesAfterAppend
    <3>5. QED
      BY <1>6, <2>1, <2>2, <3>2, <3>3, <3>4
  <2>5. CASE ~MoveUnsent
    <3>1. Head(todo).role = "Hook" => Ends(Way, "Hook", OnHook, Head(todo).value)
      BY <2>1, <2>5 DEF MoveUnsent, HookUnsent, HookInHand
    <3>2. Matches(Way, OnHook, core.phase, core.n, Unsent, Total)
      BY <1>6, <2>1, <2>5
    <3>3. Matches(Way', OnHook, core.phase, core.n, Unsent', Total)
      BY <1>3, <1>4, <2>1, <2>3, <3>1, <3>2, MatchesAfterAppend
    <3>4. QED
      BY <1>6, <2>1, <2>2, <3>3
  <2>6. QED
    BY <2>4, <2>5
<1>12. CASE PublishesEdge
  <2>1. /\ todo # <<>> /\ todo' = Tail(todo) /\ stage = "publish" /\ stage' = "store"
        /\ Way' = Way /\ keyed' = keyed /\ core' = core /\ OnHook' = OnHook
    BY <1>12 DEF PublishesEdge, terminal, port, booth, OnHook, intake, Way
  <2>2. ~MoveUnsent /\ ~MoveUnsent'
    BY <1>1, <2>1, RestHasNoHook DEF MoveUnsent, HookUnsent
  <2>3. 0 \in 0..(Len(todo) - 1)
    BY <1>3, <2>1, LenProperties, EmptySeq
  <2>4. FallsFrom(Tail(todo), 0) = FallsFrom(todo, 1)
    BY <1>3, <2>1, <2>3, FallsAfterTail
  <2>5. Unsent' = Unsent
    BY <1>4, <2>1, <2>4 DEF Unsent
  <2>6. QED
    BY <1>6, <2>1, <2>2, <2>5
<1>13. CASE Releases
  <2> DEFINE r == Edge("PowerButton", FALSE)
  <2>1. r \in Edges /\ r.role = "PowerButton" /\ ~Fall(r)
    BY DEF Edge, Edges, Roles, Fall
  <2>2. /\ Way' = Append(Way, r) /\ keyed' = keyed /\ core' = core /\ OnHook' = OnHook
        /\ todo' = todo /\ stage' = stage
    BY <1>1, <1>13, WayOfSteps DEF Releases, terminal, booth, OnHook
  <2> HIDE DEF r
  <2>3. \A v : Ends(Way', "Hook", OnHook, v) <=> Ends(Way, "Hook", OnHook, v)
    BY <1>3, <2>1, <2>2, ToldAfterAppend
  <2>4. (MoveUnsent' <=> MoveUnsent) /\ Unsent' = Unsent
    <3>1. MoveUnsent' <=> HookUnsent' /\ ~Ends(Way', "Hook", OnHook', Head(todo').value)
      BY DEF MoveUnsent, Ends, Told
    <3>2. (HookUnsent' <=> HookUnsent) /\ Unsent' = Unsent
      BY <2>2 DEF HookUnsent, HookInHand, Unsent
    <3>3. QED
      BY <2>2, <2>3, <3>1, <3>2 DEF MoveUnsent
  <2>5. CASE MoveUnsent
    BY <1>6, <2>2, <2>4, <2>5
  <2>6. CASE ~MoveUnsent
    <3>1. Matches(Way', OnHook, core.phase, core.n, Unsent, Total)
      <4>1. Matches(Way, OnHook, core.phase, core.n, Unsent, Total)
        BY <1>6, <2>2, <2>6
      <4>2. Unsent = Unsent + (IF Fall(r) THEN 1 ELSE 0)
        BY <1>4, <2>1
      <4>3. QED
        BY <1>3, <1>4, <2>1, <2>2, <4>1, <4>2, MatchesAfterAppend
    <3>2. QED
      BY <1>6, <2>2, <2>4, <2>6, <3>1
  <2>7. QED
    BY <2>5, <2>6
<1>14. CASE NotesLag \/ ingest \/ UNCHANGED simulatorVars
  <2>1. /\ Way' = Way /\ keyed' = keyed /\ core' = core /\ todo' = todo /\ stage' = stage
    BY <1>14 DEF NotesLag, ingest, simulatorVars, terminal, handler, port, booth, intake, Way
  <2>2. (MoveUnsent' <=> MoveUnsent) /\ Unsent' = Unsent /\ OnHook' = OnHook
    BY <2>1 DEF MoveUnsent, HookUnsent, HookInHand, Unsent, OnHook, Ends, Told
  <2>3. QED
    BY <1>6, <2>1, <2>2
<1>15. CASE HearsEvent
  <2>1. /\ Way' = Tail(Way) /\ Way # <<>>
        /\ Head(Way) \in Edges /\ core' = handle(core, event_from_gpio(Head(Way)))
        /\ keyed' = keyed /\ todo' = todo /\ stage' = stage
    BY <1>1, <1>15, WayOfSteps DEF HearsEvent, handler, terminal
  <2> DEFINE e == Head(Way)
  <2>2. /\ OnHook' = IF e.role = "Hook" THEN e.value ELSE OnHook
        /\ e.role = "Hook" /\ e.value # OnHook => core'.n = 0
        /\ (e.role = "Hook" /\ e.value = OnHook) \/ (e.role # "Hook" /\ ~Fall(e)) =>
              core'.phase = core.phase /\ core'.n = core.n
        /\ Fall(e) /\ core'.phase \in {"dial_tone", "dialing"} =>
              core.phase \in {"dial_tone", "dialing"}
        /\ Fall(e) /\ core.phase \in {"dial_tone", "dialing"} /\ core.n < MAX_PULSES_PER_DIGIT =>
              core'.n = core.n + 1
    BY <1>1, <2>1, HeardEdge
  <2>3. \A v : Ends(Way', "Hook", OnHook', v) <=> Ends(Way, "Hook", OnHook, v)
    BY <1>3, <2>1, <2>2, EndsAfterTail
  <2>4. (MoveUnsent' <=> MoveUnsent) /\ Unsent' = Unsent
    <3>1. MoveUnsent' <=> HookUnsent' /\ ~Ends(Way', "Hook", OnHook', Head(todo').value)
      BY DEF MoveUnsent, Ends, Told
    <3>2. (HookUnsent' <=> HookUnsent) /\ Unsent' = Unsent
      BY <2>1 DEF HookUnsent, HookInHand, Unsent
    <3>3. QED
      BY <2>1, <2>3, <3>1, <3>2 DEF MoveUnsent
  <2>5. CASE MoveUnsent
    BY <1>6, <2>1, <2>4, <2>5
  <2>6. CASE ~MoveUnsent
    <3>1. Matches(Way, OnHook, core.phase, core.n, Unsent, Total)
      BY <1>6, <2>1, <2>6
    <3>2. Total \in 0..10
      <4>1. keyed \in Seq(Digits)
        BY <1>2 DEF TerminalShape
      <4>2. keyed # <<>> => keyed[1] \in Digits
        BY <4>1, HeadTailProperties
      <4>3. CASE keyed = <<>>
        BY <4>3 DEF Total
      <4>4. CASE keyed # <<>>
        <5>1. keyed[1] \in 0..9
          BY <4>2, <4>4, SimulatorConstants
        <5>2. QED
          BY <4>4, <5>1 DEF Total, PulsesOf
      <4>5. QED
        BY <4>3, <4>4
    <3>3. core'.n \in Nat
      BY <1>5 DEF SimulatorShape, BoothShape
    <3>4. core.n < Total => core.n < MAX_PULSES_PER_DIGIT
      BY <1>3, <3>2, SimulatorConstants
    <3>5. Fall(e) /\ core.phase \in {"dial_tone", "dialing"} /\ core.n < Total => core'.n = core.n + 1
      BY <2>2, <3>4
    <3> HIDE DEF e
    <3>6. Matches(Tail(Way), IF e.role = "Hook" THEN e.value ELSE OnHook, core'.phase, core'.n,
                  Unsent, Total)
      <4>1. Total \in Nat
        BY <3>2
      <4>2. QED
        BY <1>3, <1>4, <2>1, <2>2, <3>1, <3>3, <3>5, <4>1, MatchesAfterTail DEF e
    <3>7. QED
      BY <1>6, <2>1, <2>2, <2>4, <2>6, <3>6
  <2>7. QED
    BY <2>5, <2>6
<1>16. CASE TimesOut
  <2>1. core.phase = "dialing" /\ core' = Core("dialed", core.n % 10)
    BY <1>16 DEF TimesOut, Handles, handle
  <2>2. /\ Way' = Way /\ keyed' = keyed /\ todo' = todo /\ stage' = stage
        /\ OnHook' = OnHook /\ core'.phase = "dialed"
    BY <1>16, <2>1 DEF TimesOut, terminal, handler, port, OnHook, Core, intake, Way
  <2>3. (MoveUnsent' <=> MoveUnsent) /\ Unsent' = Unsent
    BY <2>2 DEF MoveUnsent, HookUnsent, HookInHand, Unsent, Ends, Told
  <2>4. Matches(Way, OnHook, core.phase, core.n, Unsent, Total)
          => Matches(Way, OnHook, "dialed", core'.n, Unsent, Total)
    BY DEF Matches
  <2>5. QED
    BY <1>6, <2>2, <2>3, <2>4
<1>17. CASE WebSends
  BY <1>1, <1>17 DEF WebSends
<1>18. CASE HearsWeb
  BY <1>3, <1>18 DEF HearsWeb
<1>19. CASE ReadsEdge
  <2>1. keyed' = keyed /\ todo' = todo /\ stage' = stage /\ core' = core /\ OnHook' = OnHook
    BY <1>19 DEF ReadsEdge, terminal, handler, booth, OnHook
  <2>2. \A v : Ends(Way', "Hook", OnHook, v) <=> Ends(Way, "Hook", OnHook, v)
    BY <1>1, <1>19, ReadsOrLeavesOut
  <2>3. (MoveUnsent' <=> MoveUnsent) /\ Unsent' = Unsent
    <3>1. MoveUnsent' <=> HookUnsent' /\ ~Ends(Way', "Hook", OnHook', Head(todo').value)
      BY DEF MoveUnsent, Ends, Told
    <3>2. (HookUnsent' <=> HookUnsent) /\ Unsent' = Unsent
      BY <2>1 DEF HookUnsent, HookInHand, Unsent
    <3>3. QED
      BY <2>1, <2>2, <3>1, <3>2 DEF MoveUnsent
  <2>4. \A n, u, total : Matches(Way, OnHook, core.phase, n, u, total)
                             => Matches(Way', OnHook, core.phase, n, u, total)
    <3>1. CASE Way' = Way
      BY <3>1
    <3>2. CASE /\ pinEdges # <<>> /\ Way' = eventQueue \o Tail(pinEdges)
               /\ Head(pinEdges).role # "Hook" /\ ~Fall(Head(pinEdges))
      <4>1. eventQueue \in Seq(Edges) /\ pinEdges \in Seq(Edges)
        BY <1>1 DEF SimulatorShape, IntakeShape, PortShape
      <4>2. Tail(pinEdges) \in Seq(Edges)
        BY <3>2, <4>1, HeadTailProperties
      <4>3. PICK k : /\ Way' \in Seq(Edges) /\ Without(Way, Way', k)
                     /\ Way[k].role # "Hook" /\ ~Fall(Way[k])
        BY <3>2, <4>1, <4>2, EndsWithout, OneAfterAnother DEF Way
      <4>4. QED
        BY <1>3, <4>3, MatchesWithout
    <3>3. QED
      BY <1>1, <1>19, <3>1, <3>2, WayOfSteps
  <2>5. QED
    BY <1>6, <2>1, <2>3, <2>4
<1>20. QED
  BY <1>7, <1>8, <1>9, <1>10, <1>11, <1>12, <1>13, <1>14, <1>15, <1>16, <1>17, <1>18,
     <1>19
     DEF SimulatorNext
LEMMA SoundIsTrue ==
    SimulatorSound => SimulatorTypeOK /\ ScreenIsCurrent /\ BoothFollowsPin
<1> SUFFICES ASSUME SimulatorSound PROVE SimulatorTypeOK /\ ScreenIsCurrent /\ BoothFollowsPin
  OBVIOUS
<1>1. SimulatorTypeOK
  BY ShapeGivesTypes DEF SimulatorSound
<1>2. \A kind, b, v : Ends(<<>>, kind, b, v) <=> v = b
  BY EmptySeq DEF Ends, Told
<1>3. ScreenIsCurrent
  <2> SUFFICES ASSUME Quiet, ~lost PROVE hook_on_hook = hook_on /\ current_state = core.phase
    BY DEF ScreenIsCurrent
  <2>1. ~HookInHand /\ ~HookPending /\ feed = <<>>
    BY EmptySeq DEF Quiet, HookInHand, HookPending
  <2>2. Ends(feed, "Hook", hook_on_hook, hook_on) /\ Ends(feed, "state", current_state, core.phase)
    BY <2>1 DEF SimulatorSound, ScreenSound
  <2>3. QED
    BY <1>2, <2>1, <2>2
<1>4. BoothFollowsPin
  <2> SUFFICES ASSUME Quiet, web = 0, ~edgeDropped PROVE core.phase = "on_hook" <=> hook_on
    BY DEF BoothFollowsPin
  <2>1. ~HookUnsent /\ Way = <<>>
    BY EmptySeq, ConcatEmptySeq DEF Quiet, HookUnsent, HookInHand, Way
  <2>2. Ends(Way, "Hook", OnHook, hook_on)
    BY <2>1 DEF SimulatorSound, BoothSound
  <2>3. hook_on = OnHook
    BY <1>2, <2>1, <2>2
  <2>4. QED
    BY <2>3 DEF OnHook
<1>5. QED
  BY <1>1, <1>3, <1>4

LEMMA ToSetOfBoth ==
    ASSUME NEW S, NEW s \in Seq(S), NEW t \in Seq(S)
    PROVE  /\ s \o t \in Seq(S)
           /\ ToSet(s) \subseteq ToSet(s \o t) /\ ToSet(t) \subseteq ToSet(s \o t)
           /\ ToSet(s \o t) \subseteq ToSet(s) \cup ToSet(t)
<1> DEFINE all == s \o t
<1>1. /\ all \in Seq(S) /\ Len(all) = Len(s) + Len(t) /\ Len(s) \in Nat /\ Len(t) \in Nat
      /\ DOMAIN all = 1..Len(all) /\ DOMAIN s = 1..Len(s) /\ DOMAIN t = 1..Len(t)
      /\ \A i \in 1..Len(s) : all[i] = s[i]
      /\ \A i \in 1..Len(t) : all[Len(s) + i] = t[i]
  BY ConcatProperties, LenProperties
<1> HIDE DEF all
<1>2. \A i \in 1..Len(s) : i \in 1..Len(all)
  BY <1>1
<1>3. \A i \in 1..Len(t) : Len(s) + i \in 1..Len(all)
  BY <1>1
<1>4. \A i \in 1..Len(all) :
         i \in 1..Len(s) \/ (i - Len(s) \in 1..Len(t) /\ i = Len(s) + (i - Len(s)))
  BY <1>1
<1>5. ToSet(s) \subseteq ToSet(all) /\ ToSet(t) \subseteq ToSet(all)
  BY <1>1, <1>2, <1>3 DEF ToSet
<1>6. ToSet(all) \subseteq ToSet(s) \cup ToSet(t)
  <2> SUFFICES ASSUME NEW i \in 1..Len(all) PROVE all[i] \in ToSet(s) \cup ToSet(t)
    BY <1>1 DEF ToSet
  <2>1. CASE i \in 1..Len(s)
    BY <1>1, <2>1 DEF ToSet
  <2>2. CASE i - Len(s) \in 1..Len(t) /\ i = Len(s) + (i - Len(s))
    <3>1. all[i] = t[i - Len(s)]
      BY <1>1, <2>2
    <3>2. QED
      BY <1>1, <2>2, <3>1 DEF ToSet
  <2>3. QED
    BY <1>4, <2>1, <2>2
<1>7. QED
  BY <1>1, <1>5, <1>6 DEF all

LEMMA DecodedIsKeyed ==
    ASSUME SimulatorSound, SimulatorNext, Decodes, web = 0, ~edgeDropped, Len(keyed) = 1
    PROVE  core'.n = keyed[1]
<1>1. /\ keyed \in Seq(Digits) /\ pinEdges \in Seq(Edges) /\ todo \in Seq(Edges) /\ core.n \in Nat
      /\ eventQueue \in Seq(Edges) /\ Way \in Seq(Edges) /\ commands = <<>> /\ Digits \subseteq 0..9
  <2>1. SimulatorShape /\ commands = <<>>
    BY DEF SimulatorSound, BoothSound
  <2>2. Way \in Seq(Edges) /\ Digits \subseteq 0..9
    BY <2>1, SimulatorConstants, WayOfSteps
  <2>3. QED
    BY <2>1, <2>2 DEF SimulatorShape, TerminalShape, HandlerShape, PortShape, IntakeShape, BoothShape
<1>2. TimesOut
  <2>1. core.phase = "dialing" /\ core'.phase = "dialed"
    BY DEF Decodes
  <2>2. ~HearsWeb
    BY <1>1 DEF HearsWeb
  <2>3. ~HearsEvent
    <3> SUFFICES ASSUME HearsEvent PROVE FALSE
      OBVIOUS
    <3>1. core' = handle(core, event_from_gpio(Head(Way))) /\ Head(Way) \in Edges
      BY WayOfSteps DEF SimulatorSound
    <3>2. event_from_gpio(Head(Way)) \in {"HookOn", "HookOff", "RotaryPulse", "none"}
      BY <3>1 DEF event_from_gpio, Edges, Roles
    <3>3. core'.phase # "dialed"
      BY <2>1, <3>1, <3>2 DEF handle, handle_pulse, Core
    <3>4. QED
      BY <2>1, <3>3
  <2>4. core' # core
    BY <2>1
  <2>5. QED
    BY <2>2, <2>3, <2>4 DEF SimulatorNext, toggle_hook, dial_digit, short_power_press,
       long_power_press, StoresPin, SendsEdge, PublishesEdge, Releases, NotesLag, ingest,
       ReadsEdge, WebSends, booth
<1>3. /\ core'.n = core.n % 10
      /\ \A e \in ToSet(todo \o pinEdges \o eventQueue) : e.role # "RotaryPulse"
  BY <1>2 DEF TimesOut, Handles, handle, Core
<1>4. /\ \A i \in 1..Len(todo) : todo[i].role # "RotaryPulse"
      /\ \A i \in 1..Len(Way) : Way[i].role # "RotaryPulse"
  <2>1. \A s, t \in Seq(Edges) :
           /\ s \o t \in Seq(Edges)
           /\ ToSet(s) \subseteq ToSet(s \o t) /\ ToSet(t) \subseteq ToSet(s \o t)
           /\ ToSet(s \o t) \subseteq ToSet(s) \cup ToSet(t)
    BY ToSetOfBoth
  <2>2. ToSet(todo) \cup ToSet(Way) \subseteq ToSet(todo \o pinEdges \o eventQueue)
    <3>1. todo \o pinEdges \in Seq(Edges)
      BY <1>1, <2>1
    <3>2. ToSet(Way) \subseteq ToSet(eventQueue) \cup ToSet(pinEdges)
      BY <1>1, <2>1 DEF Way
    <3>3. /\ ToSet(todo \o pinEdges) \subseteq ToSet(todo \o pinEdges \o eventQueue)
          /\ ToSet(eventQueue) \subseteq ToSet(todo \o pinEdges \o eventQueue)
      BY <1>1, <2>1, <3>1
    <3>4. /\ ToSet(todo) \subseteq ToSet(todo \o pinEdges)
          /\ ToSet(pinEdges) \subseteq ToSet(todo \o pinEdges)
      BY <1>1, <2>1
    <3>5. QED
      BY <3>2, <3>3, <3>4
  <2>3. \A i \in 1..Len(todo) : todo[i] \in ToSet(todo)
    BY <1>1, LenProperties DEF ToSet
  <2>4. \A i \in 1..Len(Way) : Way[i] \in ToSet(Way)
    BY <1>1, LenProperties DEF ToSet
  <2>5. QED
    BY <1>3, <2>2, <2>3, <2>4
<1>5. Unsent = 0 /\ \A i : FallsFrom(Way, i) = 0
  BY <1>1, <1>4, FallsCounted DEF Unsent
<1>6. keyed # <<>> /\ keyed[1] \in 0..9 /\ Total = PulsesOf(keyed[1])
  <2>1. keyed # <<>> /\ keyed[1] \in Digits
    <3>1. 1 \in 1..Len(keyed)
      OBVIOUS
    <3>2. keyed # <<>>
      BY EmptySeq
    <3>3. QED
      BY <1>1, <3>1, <3>2, ElementOfSeq
  <2>2. QED
    BY <1>1, <2>1 DEF Total
<1>7. Matches(Way, OnHook, core.phase, core.n, 0, Total)
  BY <1>5, <1>6 DEF SimulatorSound, DigitSound
<1>8. core.n = Total
  <2>1. core.phase = "dialing" /\ PulsesOf(keyed[1]) \in Nat \ {0}
    BY <1>6 DEF Decodes, PulsesOf
  <2>2. CASE core.n + FallsFrom(Way, 0) + 0 = Total
    BY <1>1, <1>5, <2>2
  <2>3. CASE \E m \in 1..Len(Way) : FallsFrom(Way, m) + 0 = Total
    BY <1>5, <1>6, <2>1, <2>3
  <2>4. QED
    BY <1>7, <2>1, <2>2, <2>3 DEF Matches
<1>9. QED
  BY <1>3, <1>6, <1>8 DEF PulsesOf

\* For any keys, digits, capacities and events of the page: when all is quiet the terminal
\* shows the pin and the booth's state, whether or not gpio_task has dropped an event; and
\* unless it has, the booth is on the hook just when the pin is, and a digit keyed alone is
\* the digit the booth decodes.  A group of pulses must hold the ten of a zero, and
\* MAX_PULSES_PER_DIGIT of booth-core is 10 (simulator.rs, GpioInjector::push, gpio_task,
\* queue_event, event_from_gpio).
THEOREM SimulatorStandsIn ==
    ASSUME MAX_PULSES_PER_DIGIT >= 10
    PROVE  SimulatorSpec => SimulatorIsTrue
<1>1. SimulatorInit => SimulatorSound
  BY InitSimulator
<1>2. SimulatorSound /\ [SimulatorNext]_simulatorVars => SimulatorSound'
  BY SimulatorShapeKept, PinIsCurrentKept, ScreenSoundKept, BoothSoundKept, DigitSoundKept
     DEF SimulatorSound
<1>3. SimulatorSound => SimulatorTypeOK /\ ScreenIsCurrent /\ BoothFollowsPin
  BY SoundIsTrue
<1>4. SimulatorSound /\ [SimulatorNext]_simulatorVars
         => [Decodes /\ web = 0 /\ ~edgeDropped /\ Len(keyed) = 1 => core'.n = keyed[1]]_simulatorVars
  BY DecodedIsKeyed
<1>5. QED
  BY <1>1, <1>2, <1>3, <1>4, PTL DEF SimulatorSpec, SimulatorIsTrue, DigitIsHeard

----------------------------------------------------------------------------
(* The weather collector: what is on show between two polls *)

\* What an answer in order is exported as.
Observations ==
    [temperature : Int, observed_at : Int, fetched_at : Nat, condition : Conditions]

\* The first n series that are set for s have the values of s.
SetSoFar(s, n) == \A i \in 1..n : gauges[Writes(s)[i][1]] = Writes(s)[i][2]

\* The gauges are those of s, and its condition is the only one on show.
Shown(s) ==
    /\ gauges["temperature"] = s.temperature /\ gauges["observed_at"] = s.observed_at
    /\ gauges["fetched_at"] = s.fetched_at
    /\ \A c \in Conditions : gauges[c] = IF c = s.condition THEN 1 ELSE 0

\* The gauges may be those of two answers only while they are written, and then the newer
\* answer has reached just the series that are set.
WeatherSound ==
    /\ pc \in {"waiting", "sending", "reading", "writing"}
    /\ declared \in Declared \cup {Undeclared}
    /\ received \in Nat /\ received <= MAX_RESPONSE_BYTES
    /\ gauges \in [Series -> Int] /\ counted \in Reasons \cup {"none"}
    /\ latest \in Observations \cup {NoSample}
    /\ written \in 0..(4 + Len(OUTDOOR_WEATHER_CONDITIONS))
    /\ pc = "writing" => latest \in Observations /\ sample = latest /\ SetSoFar(latest, written)
    /\ pc # "writing" => /\ sample = NoSample
                         /\ latest # NoSample => Shown(latest)
                         /\ gauges["fetch_success"] # Unset =>
                                (gauges["fetch_success"] = 1 <=> counted = "none")

----------------------------------------------------------------------------
(* The weather collector: the series and the writes *)

\* The list of the conditions, and the other series.
Listed == OUTDOOR_WEATHER_CONDITIONS
Plainly == {"temperature", "observed_at", "fetched_at", "fetch_success"}

\* The list names every condition once, and none of the other series.
LEMMA ConditionsAreListed ==
    /\ Len(Listed) = 17 /\ DOMAIN Listed = 1..17
    /\ \A i, j \in 1..17 : Listed[i] = Listed[j] => i = j
    /\ \A i \in 1..17 : Listed[i] \notin Plainly
<1> DEFINE L == Listed
<1>1. Len(L) = 17 /\ DOMAIN L = 1..17
  <2>1. Len(L) = 17
    BY DEF Listed, OUTDOOR_WEATHER_CONDITIONS
  <2>2. DOMAIN L = 1..17
    BY DEF Listed, OUTDOOR_WEATHER_CONDITIONS
  <2> QED
    BY <2>1, <2>2
<1>2. \A i, j \in 1..17 : L[i] = L[j] => i = j
  BY DEF Listed, OUTDOOR_WEATHER_CONDITIONS
<1>3. \A i \in 1..17 : L[i] \notin Plainly
  BY DEF Listed, OUTDOOR_WEATHER_CONDITIONS, Plainly
<1> QED
  BY <1>1, <1>2, <1>3

\* Every code has a condition of the list.
LEMMA CodesAreListed == \A code : condition_for_code(code) \in Conditions
<1>1. {"clear_sky", "mainly_clear", "partly_cloudy", "overcast", "fog", "rime_fog", "drizzle",
       "freezing_drizzle", "rain", "freezing_rain", "snowfall", "snow_grains", "rain_showers",
       "snow_showers", "thunderstorm", "thunderstorm_with_hail", "unknown"}
        \subseteq Conditions
  <2>1. Conditions = {Listed[i] : i \in 1..17}
    BY ConditionsAreListed DEF Conditions, ToSet, Listed
  <2> QED
    BY <2>1 DEF Listed, OUTDOOR_WEATHER_CONDITIONS
<1> QED
  BY <1>1 DEF condition_for_code

\* The series in the order they are set: each once.
LEMMA WritesAre ==
    ASSUME NEW s \in Observations
    PROVE  /\ Len(Writes(s)) = 21
           /\ \A i \in 1..21 : Writes(s)[i] \in Series \X Int
           /\ \A i, j \in 1..21 : Writes(s)[i][1] = Writes(s)[j][1] => i = j
           /\ Writes(s)[1] = <<"temperature", s.temperature>>
           /\ Writes(s)[2] = <<"observed_at", s.observed_at>>
           /\ Writes(s)[3] = <<"fetched_at", s.fetched_at>>
           /\ Writes(s)[4] = <<"fetch_success", 1>>
           /\ \A i \in 1..17 :
                 Writes(s)[4 + i] = <<Listed[i], IF Listed[i] = s.condition THEN 1 ELSE 0>>
<1> DEFINE T == Series \X Int
           a == << <<"temperature", s.temperature>>, <<"observed_at", s.observed_at>>,
                   <<"fetched_at", s.fetched_at>>, <<"fetch_success", 1>> >>
           b == [i \in DOMAIN Listed |-> <<Listed[i], IF Listed[i] = s.condition THEN 1 ELSE 0>>]
           w == Writes(s)
<1>1. w = a \o b
  BY DEF Writes, Listed
<1>2. s.temperature \in Int /\ s.observed_at \in Int /\ s.fetched_at \in Int
  BY DEF Observations
<1>3. Series = Plainly \cup {Listed[i] : i \in 1..17}
  BY ConditionsAreListed DEF Series, Conditions, ToSet, Plainly, Listed
<1>4. /\ a[1] = <<"temperature", s.temperature>> /\ a[2] = <<"observed_at", s.observed_at>>
      /\ a[3] = <<"fetched_at", s.fetched_at>> /\ a[4] = <<"fetch_success", 1>>
      /\ a \in Seq(T) /\ Len(a) = 4
  <2>1. /\ <<"temperature", s.temperature>> \in T /\ <<"observed_at", s.observed_at>> \in T
        /\ <<"fetched_at", s.fetched_at>> \in T /\ <<"fetch_success", 1>> \in T
    BY <1>2, <1>3 DEF Plainly
  <2> HIDE DEF T
  <2> QED
    BY <2>1
<1>5. /\ \A i \in 1..17 : b[i] = <<Listed[i], IF Listed[i] = s.condition THEN 1 ELSE 0>>
      /\ b \in Seq(T) /\ Len(b) = 17
  <2>1. DOMAIN Listed = 1..17
    BY ConditionsAreListed
  <2>2. \A i \in 1..17 : b[i] = <<Listed[i], IF Listed[i] = s.condition THEN 1 ELSE 0>>
                         /\ b[i] \in T
    BY <1>3, <2>1
  <2>3. b \in [1..17 -> T]
    BY <2>1, <2>2
  <2> HIDE DEF b, T
  <2>4. 17 \in Nat
    OBVIOUS
  <2>5. b \in Seq(T)
    <3>1. Seq(T) = UNION {[1..n -> T] : n \in Nat}
      BY SeqDef, Zenon
    <3> QED
      BY <2>3, <2>4, <3>1, Zenon
  <2>6. DOMAIN b = 1..17
    BY <2>3
  <2>7. Len(b) = 17
    BY <2>4, <2>5, <2>6, LenProperties
  <2> QED
    BY <2>2, <2>5, <2>7
<1> HIDE DEF a, b, w
<1>6. Len(w) = 21 /\ w \in Seq(T)
      /\ \A i \in 1..21 : w[i] = IF i <= 4 THEN a[i] ELSE b[i - 4]
  <2>1. w \in Seq(T) /\ Len(w) = Len(a) + Len(b)
        /\ \A i \in 1..(Len(a) + Len(b)) : w[i] = IF i <= Len(a) THEN a[i] ELSE b[i - Len(a)]
    BY <1>1, <1>4, <1>5, ConcatProperties
  <2> QED
    BY <1>4, <1>5, <2>1
<1>7. w[1] = a[1] /\ w[2] = a[2] /\ w[3] = a[3] /\ w[4] = a[4]
  BY <1>6
<1>8. \A i \in 1..17 : w[4 + i] = b[i]
  <2>1. ASSUME NEW i \in 1..17  PROVE w[4 + i] = b[i]
    <3>1. 4 + i \in 1..21 /\ ~(4 + i <= 4) /\ (4 + i) - 4 = i
      OBVIOUS
    <3> QED
      BY <1>6, <3>1
  <2> QED
    BY <2>1
<1>9. \A i \in 1..21 : w[i] \in T
  <2>1. Len(w) = 21 /\ w \in Seq(T)
    BY <1>6
  <2> HIDE DEF T
  <2>2. w \in [1..Len(w) -> T]
    BY <2>1, LenProperties
  <2> QED
    BY <2>1, <2>2
<1>10. ASSUME NEW i \in 1..21
       PROVE  IF i <= 4 THEN i \in {1, 2, 3, 4} /\ w[i][1] \in Plainly
              ELSE i - 4 \in 1..17 /\ w[i][1] = Listed[i - 4]
  <2>1. CASE i <= 4
    <3>1. i \in {1, 2, 3, 4}
      BY <2>1
    <3> QED
      BY <1>4, <1>7, <2>1, <3>1 DEF Plainly
  <2>2. CASE ~(i <= 4)
    <3>1. i - 4 \in 1..17
      BY <2>2
    <3>2. w[i] = b[i - 4]
      BY <1>6, <2>2
    <3>3. b[i - 4] = <<Listed[i - 4], IF Listed[i - 4] = s.condition THEN 1 ELSE 0>>
      BY <1>5, <3>1
    <3>4. w[i][1] = Listed[i - 4]
      BY <3>2, <3>3
    <3> QED
      BY <2>2, <3>1, <3>4
  <2> QED
    BY <2>1, <2>2
<1>11. ASSUME NEW i \in 1..21, NEW j \in 1..21, w[i][1] = w[j][1]  PROVE i = j
  <2>1. CASE i <= 4 /\ j <= 4
    <3>1. i \in {1, 2, 3, 4} /\ j \in {1, 2, 3, 4}
      BY <2>1
    <3>2. /\ w[1][1] = "temperature" /\ w[2][1] = "observed_at"
          /\ w[3][1] = "fetched_at" /\ w[4][1] = "fetch_success"
      BY <1>4, <1>7
    <3> QED
      BY <1>11, <3>1, <3>2
  <2>2. CASE ~(i <= 4) /\ ~(j <= 4)
    <3>1. i - 4 \in 1..17 /\ j - 4 \in 1..17 /\ Listed[i - 4] = Listed[j - 4]
      BY <1>10, <1>11, <2>2
    <3>2. i - 4 = j - 4
      BY <3>1, ConditionsAreListed
    <3> QED
      BY <3>2
  <2>3. CASE (i <= 4) # (j <= 4)
    <3>1. \/ w[i][1] \in Plainly /\ j - 4 \in 1..17 /\ w[j][1] = Listed[j - 4]
          \/ w[j][1] \in Plainly /\ i - 4 \in 1..17 /\ w[i][1] = Listed[i - 4]
      <4>1. CASE i <= 4 /\ ~(j <= 4)
        BY <1>10, <4>1
      <4>2. CASE j <= 4 /\ ~(i <= 4)
        BY <1>10, <4>2
      <4> QED
        BY <2>3, <4>1, <4>2
    <3>2. \E k \in 1..17 : Listed[k] \in Plainly
      BY <1>11, <3>1
    <3> QED
      BY <3>2, ConditionsAreListed
  <2> QED
    BY <2>1, <2>2, <2>3
<1> QED
  BY <1>4, <1>5, <1>6, <1>7, <1>8, <1>9, <1>11 DEF w, T

----------------------------------------------------------------------------
(* The weather collector: the steps *)

\* What the provider may give, and the marks that are none of it.
LEMMA WeatherNumbers ==
    /\ MAX_RESPONSE_BYTES \in Nat /\ Chunks \subseteq Nat \ {0}
    /\ Temperatures \subseteq Int /\ Times \subseteq Int /\ Stamps \subseteq Nat
    /\ Unset = -999 /\ NoSample \notin Observations
<1>1. NoSample \notin Observations
  BY DEF NoSample, Observations, Unset
<1> QED
  BY <1>1, WeatherCollectorAssumption DEF Unset

\* The flag is a series of its own.
LEMMA FlagIsASeries ==
    /\ "fetch_success" \in Series /\ "fetch_success" \notin Conditions
    /\ Conditions \subseteq Series /\ Plainly \subseteq Series
    /\ Conditions = {Listed[i] : i \in 1..17}
    /\ Series = Plainly \cup {Listed[i] : i \in 1..17}
<1>1. Conditions = {Listed[i] : i \in 1..17}
  BY ConditionsAreListed DEF Conditions, ToSet, Listed
<1> QED
  BY <1>1, ConditionsAreListed DEF Series, Plainly

\* Twenty-one series are set for a sample.
LEMMA WrittenCounts == 4 + Len(OUTDOOR_WEATHER_CONDITIONS) = 21
  BY ConditionsAreListed DEF Listed

\* Nothing is on show before the first poll.
LEMMA WeatherStarts == WeatherInit => WeatherSound
<1> SUFFICES ASSUME WeatherInit  PROVE WeatherSound
  OBVIOUS
<1>1. gauges \in [Series -> Int] /\ gauges["fetch_success"] = Unset
  BY WeatherNumbers, FlagIsASeries DEF WeatherInit
<1>2. written \in 0..(4 + Len(OUTDOOR_WEATHER_CONDITIONS))
  BY WrittenCounts DEF WeatherInit
<1> QED
  BY <1>1, <1>2, WeatherNumbers DEF WeatherInit, WeatherSound

\* A poll that fails marks the gauges and touches no other.
LEMMA FailureMarks ==
    ASSUME WeatherSound, NEW reason \in Reasons, PollFails(reason), pc # "writing"
    PROVE  WeatherSound'
<1>1. /\ gauges' = [gauges EXCEPT !["fetch_success"] = 0] /\ counted' = reason
      /\ pc' = "waiting" /\ declared' = Undeclared /\ received' = 0
      /\ sample' = sample /\ written' = written /\ latest' = latest
  BY DEF PollFails, Marked
<1>2. /\ gauges \in [Series -> Int] /\ sample = NoSample
      /\ latest # NoSample => Shown(latest)
      /\ latest \in Observations \cup {NoSample}
      /\ written \in 0..(4 + Len(OUTDOOR_WEATHER_CONDITIONS))
  BY DEF WeatherSound
<1>3. /\ gauges' \in [Series -> Int] /\ gauges'["fetch_success"] = 0
      /\ \A s \in Series : s # "fetch_success" => gauges'[s] = gauges[s]
  BY <1>1, <1>2, FlagIsASeries
<1>4. ASSUME latest' # NoSample  PROVE Shown(latest)'
  <2>1. Shown(latest)
    BY <1>1, <1>2, <1>4
  <2>2. /\ gauges'["temperature"] = gauges["temperature"]
        /\ gauges'["observed_at"] = gauges["observed_at"]
        /\ gauges'["fetched_at"] = gauges["fetched_at"]
    BY <1>3, FlagIsASeries DEF Plainly
  <2>3. \A c \in Conditions : gauges'[c] = gauges[c]
    BY <1>3, FlagIsASeries
  <2> QED
    BY <1>1, <2>1, <2>2, <2>3 DEF Shown
<1>5. reason # "none"
  BY DEF Reasons
<1>6. gauges'["fetch_success"] # 1
  BY <1>3
<1>7. received' \in Nat /\ received' <= MAX_RESPONSE_BYTES
  BY <1>1, WeatherNumbers
<1> QED
  BY <1>1, <1>2, <1>3, <1>4, <1>5, <1>6, <1>7 DEF WeatherSound

\* While the gauges stay, what they show stays.
LEMMA ShowStays ==
    ASSUME WeatherSound, pc # "writing", pc' \in {"waiting", "sending", "reading"},
           declared' \in Declared \cup {Undeclared},
           received' \in Nat, received' <= MAX_RESPONSE_BYTES,
           UNCHANGED <<sample, written, gauges, counted, latest>>
    PROVE  WeatherSound'
  BY DEF WeatherSound, Shown

\* The head of the answer is refused, or what it declares is within the cap.
LEMMA AnswerIsSound == WeatherSound /\ Answers => WeatherSound'
<1> SUFFICES ASSUME WeatherSound, Answers  PROVE WeatherSound'
  OBVIOUS
<1>1. pc # "writing"
  BY DEF Answers
<1>2. CASE \E reason \in Reasons : PollFails(reason)
  BY <1>1, <1>2, FailureMarks
<1>3. CASE /\ pc' = "reading" /\ declared' \in Declared \cup {Undeclared} /\ received' = 0
           /\ UNCHANGED <<sample, written, gauges, counted, latest>>
  <2>1. received' \in Nat /\ received' <= MAX_RESPONSE_BYTES
    BY <1>3, WeatherNumbers
  <2> QED
    BY <1>1, <1>3, <2>1, ShowStays
<1>4. "http" \in Reasons /\ "response_too_large" \in Reasons
  BY DEF Reasons
<1> QED
  BY <1>2, <1>3, <1>4 DEF Answers

\* A chunk that would pass the cap ends the poll.
LEMMA ChunkIsSound == WeatherSound /\ Chunk => WeatherSound'
<1> SUFFICES ASSUME WeatherSound, NEW length \in Chunks, pc = "reading",
                    IF received + length > MAX_RESPONSE_BYTES
                    THEN PollFails("response_too_large")
                    ELSE /\ received' = received + length
                         /\ UNCHANGED <<pc, declared, sample, written, gauges, counted, latest>>
             PROVE  WeatherSound'
  BY DEF Chunk
<1>1. /\ received \in Nat /\ length \in Nat /\ MAX_RESPONSE_BYTES \in Nat
      /\ declared \in Declared \cup {Undeclared}
  BY WeatherNumbers DEF WeatherSound
<1>2. CASE received + length > MAX_RESPONSE_BYTES
  BY <1>2, FailureMarks DEF Reasons
<1>3. CASE ~(received + length > MAX_RESPONSE_BYTES)
  <2>1. /\ received' = received + length /\ pc' = "reading" /\ declared' = declared
        /\ UNCHANGED <<sample, written, gauges, counted, latest>>
    BY <1>3
  <2>2. received' \in Nat /\ received' <= MAX_RESPONSE_BYTES
    BY <1>1, <1>3, <2>1
  <2> QED
    BY <1>1, <2>1, <2>2, ShowStays
<1> QED
  BY <1>2, <1>3

\* An answer is a sample only when every value of it is in range.
LEMMA ParsesIsSound == WeatherSound /\ Parses => WeatherSound'
<1> SUFFICES ASSUME WeatherSound, pc = "reading",
                    NEW temperature \in Temperatures, NEW time \in Times,
                    NEW code \in Codes, NEW stamp \in Stamps,
                    IF Valid(temperature, time)
                    THEN /\ pc' = "writing" /\ sample' = OutdoorSample(temperature, time, code, stamp)
                         /\ written' = 0
                         /\ latest' = IF time >= 0 /\ temperature \in -100..100
                                      THEN OutdoorSample(temperature, time, code, stamp) ELSE latest
                         /\ declared' = Undeclared /\ received' = 0
                         /\ UNCHANGED <<gauges, counted>>
                    ELSE PollFails("invalid_data")
             PROVE  WeatherSound'
  BY DEF Parses, Complete
<1> DEFINE s == OutdoorSample(temperature, time, code, stamp)
<1>1. s \in Observations
  BY WeatherNumbers, CodesAreListed DEF OutdoorSample, Observations
<1>2. CASE ~Valid(temperature, time)
  BY <1>2, FailureMarks DEF Reasons
<1>3. CASE Valid(temperature, time)
  <2>1. time >= 0 /\ temperature \in -100..100
    BY <1>3, WeatherNumbers DEF Valid, bounded
  <2> HIDE DEF s
  <2>2. /\ pc' = "writing" /\ sample' = s /\ latest' = s /\ written' = 0
        /\ declared' = Undeclared /\ received' = 0 /\ gauges' = gauges /\ counted' = counted
    BY <1>3, <2>1 DEF s
  <2>3. \A i \in 1..written' : FALSE
    BY <2>2
  <2>4. SetSoFar(latest, written)'
    BY <2>3 DEF SetSoFar
  <2>5. received' \in Nat /\ received' <= MAX_RESPONSE_BYTES
    BY <2>2, WeatherNumbers
  <2>6. written' \in 0..(4 + Len(OUTDOOR_WEATHER_CONDITIONS))
    BY <2>2, WrittenCounts
  <2> QED
    BY <1>1, <2>2, <2>4, <2>5, <2>6 DEF WeatherSound
<1> QED
  BY <1>2, <1>3

\* No series that is set for a sample is set for it again.
LEMMA WritesNextIsSound == WeatherSound /\ WritesNext => WeatherSound'
<1> SUFFICES ASSUME WeatherSound, WritesNext  PROVE WeatherSound'
  OBVIOUS
<1>1. /\ pc = "writing" /\ latest \in Observations /\ sample = latest
      /\ SetSoFar(latest, written) /\ gauges \in [Series -> Int] /\ written \in 0..21
  BY WrittenCounts DEF WeatherSound, WritesNext
<1> DEFINE w == Writes(latest)
           n == written + 1
<1>2. /\ Len(w) = 21 /\ \A i \in 1..21 : w[i] \in Series \X Int
      /\ \A i, j \in 1..21 : w[i][1] = w[j][1] => i = j
  BY <1>1, WritesAre
<1>3. /\ written < 21 /\ written' = n /\ gauges' = [gauges EXCEPT ![w[n][1]] = w[n][2]]
      /\ UNCHANGED <<pc, declared, received, sample, counted, latest>>
  BY <1>1, <1>2 DEF WritesNext
<1> HIDE DEF w
<1>4. n \in 1..21 /\ written' \in 0..21
  BY <1>1, <1>3
<1>5. w[n][1] \in Series /\ w[n][2] \in Int
  BY <1>2, <1>4
<1>6. gauges' \in [Series -> Int] /\ gauges'[w[n][1]] = w[n][2]
      /\ \A x \in Series : x # w[n][1] => gauges'[x] = gauges[x]
  BY <1>1, <1>3, <1>5
<1>7. ASSUME NEW i \in 1..n  PROVE gauges'[w[i][1]] = w[i][2]
  <2>1. CASE i = n
    BY <1>6, <2>1
  <2>2. CASE i # n
    <3>1. i \in 1..written /\ i \in 1..21
      BY <1>1, <1>4, <2>2
    <3>2. gauges[w[i][1]] = w[i][2]
      BY <1>1, <3>1 DEF SetSoFar, w
    <3>3. w[i][1] \in Series /\ w[i][1] # w[n][1]
      BY <1>2, <1>4, <2>2, <3>1
    <3> QED
      BY <1>6, <3>2, <3>3
  <2> QED
    BY <2>1, <2>2
<1>8. SetSoFar(latest, written)'
  BY <1>3, <1>7 DEF SetSoFar, w
<1> QED
  BY <1>1, <1>3, <1>4, <1>6, <1>8, WrittenCounts DEF WeatherSound

\* When every series is set the gauges are those of the sample.
LEMMA WrittenIsSound == WeatherSound /\ Written => WeatherSound'
<1> SUFFICES ASSUME WeatherSound, Written  PROVE WeatherSound'
  OBVIOUS
<1>1. /\ latest \in Observations /\ sample = latest /\ SetSoFar(latest, written)
      /\ written = Len(Writes(latest))
  BY DEF WeatherSound, Written
<1>2. /\ pc' = "waiting" /\ counted' = "none" /\ sample' = NoSample /\ written' = 0
      /\ UNCHANGED <<declared, received, gauges, latest>>
  BY DEF Written
<1> DEFINE w == Writes(latest)
<1>3. /\ Len(w) = 21
      /\ w[1] = <<"temperature", latest.temperature>> /\ w[2] = <<"observed_at", latest.observed_at>>
      /\ w[3] = <<"fetched_at", latest.fetched_at>> /\ w[4] = <<"fetch_success", 1>>
      /\ \A i \in 1..17 : w[4 + i] = <<Listed[i], IF Listed[i] = latest.condition THEN 1 ELSE 0>>
  BY <1>1, WritesAre
<1>4. \A i \in 1..21 : gauges[w[i][1]] = w[i][2]
  BY <1>1, <1>3 DEF SetSoFar
<1> HIDE DEF w
<1>5. /\ gauges["temperature"] = latest.temperature /\ gauges["observed_at"] = latest.observed_at
      /\ gauges["fetched_at"] = latest.fetched_at /\ gauges["fetch_success"] = 1
  BY <1>3, <1>4
<1>6. ASSUME NEW c \in Conditions  PROVE gauges[c] = IF c = latest.condition THEN 1 ELSE 0
  <2>1. PICK i \in 1..17 : c = Listed[i]
    BY FlagIsASeries
  <2>2. 4 + i \in 1..21
    OBVIOUS
  <2>3. gauges[w[4 + i][1]] = w[4 + i][2]
    BY <1>4, <2>2
  <2> QED
    BY <1>3, <2>1, <2>3
<1>7. Shown(latest)
  BY <1>5, <1>6 DEF Shown
<1>8. Shown(latest)'
  BY <1>2, <1>7 DEF Shown
<1>9. written' \in 0..(4 + Len(OUTDOOR_WEATHER_CONDITIONS))
  BY <1>2, WrittenCounts
<1> QED
  BY <1>1, <1>2, <1>5, <1>8, <1>9 DEF WeatherSound

\* No step leaves the gauges of two answers on show.
LEMMA WeatherStep == WeatherSound /\ [WeatherNext]_weatherVars => WeatherSound'
<1> SUFFICES ASSUME WeatherSound, [WeatherNext]_weatherVars  PROVE WeatherSound'
  OBVIOUS
<1>1. CASE Ticks
  <2>1. /\ declared \in Declared \cup {Undeclared} /\ received \in Nat
        /\ received <= MAX_RESPONSE_BYTES
    BY DEF WeatherSound
  <2> QED
    BY <1>1, <2>1, ShowStays DEF Ticks
<1>2. CASE PollTimesOut
  BY <1>2, FailureMarks DEF PollTimesOut, Reasons
<1>3. CASE CannotParse
  <2>1. pc = "reading" /\ \E reason \in Reasons : PollFails(reason)
    BY <1>3 DEF CannotParse, Complete, Reasons
  <2> QED
    BY <2>1, FailureMarks
<1>4. CASE UNCHANGED weatherVars
  BY <1>4 DEF weatherVars, WeatherSound, Shown, SetSoFar
<1> QED
  BY <1>1, <1>2, <1>3, <1>4, AnswerIsSound, ChunkIsSound, ParsesIsSound, WritesNextIsSound,
     WrittenIsSound DEF WeatherNext

\* What is sound is current.
LEMMA WeatherSoundIsCurrent == WeatherSound => WeatherInv
<1> SUFFICES ASSUME WeatherSound  PROVE WeatherInv
  OBVIOUS
<1>1. WeatherTypeOK
  <2>1. \A s \in Observations : s.condition \in Conditions
    BY DEF Observations
  <2> QED
    BY <2>1 DEF WeatherSound, WeatherTypeOK
<1>2. ASSUME pc = "waiting", latest # NoSample
      PROVE  /\ gauges["temperature"] = latest.temperature
             /\ gauges["observed_at"] = latest.observed_at
             /\ gauges["fetched_at"] = latest.fetched_at
             /\ {c \in Conditions : gauges[c] = 1} = {latest.condition}
  <2>1. Shown(latest) /\ latest \in Observations
    BY <1>2 DEF WeatherSound
  <2>2. latest.condition \in Conditions
    BY <2>1 DEF Observations
  <2>3. \A c \in Conditions : gauges[c] = 1 <=> c = latest.condition
    BY <2>1 DEF Shown
  <2> QED
    BY <2>1, <2>2, <2>3 DEF Shown
<1>3. FlagShowsLatestPoll
  BY DEF WeatherSound, FlagShowsLatestPoll
<1>4. BodyIsBounded
  BY DEF WeatherSound, BodyIsBounded
<1> QED
  BY <1>1, <1>2, <1>3, <1>4 DEF WeatherInv, ShowsLatestObservation

\* For any provider, any answer and any cap: between two polls the weather gauges are those of
\* one answer, the newest that was in order, exactly its condition is on show, the flag says
\* how the last poll went, and no more than the cap is held.
THEOREM WeatherIsCurrent == WeatherSpec => []WeatherInv
<1>1. WeatherInit /\ [][WeatherNext]_weatherVars => []WeatherSound
  BY WeatherStarts, WeatherStep, PTL
<1> QED
  BY <1>1, WeatherSoundIsCurrent, PTL DEF WeatherSpec

----------------------------------------------------------------------------
(* The power meter, the sampler and the pusher *)

\* The gauges of the meter show reading r.
MeterShows(r) ==
    meterGauges.power = r.power /\ meterGauges.fetched_at = r.fetched_at

\* A reading on its way is the newest; one that has arrived is in the gauges and, once, with
\* the sampler; and the pusher's clock is that of the operator's last snapshot.
SnapshotSound ==
    /\ SnapshotTypeOK
    /\ meter \in {"waiting", "asking"} =>
          /\ reading = NoReading
          /\ meterGauges.up # NoSeries => (meterGauges.up = 1 <=> ~failed)
          /\ latestReading # NoReading => MeterShows(latestReading) /\ shelly = <<latestReading>>
    /\ meter \in {"exporting", "storing"} => reading \in Readings /\ reading = latestReading /\ ~failed
    /\ meter = "storing" => meterGauges.up = 1 /\ MeterShows(reading)
    /\ sampler = "recorded" => fanGauges = FanGauges(snapshot.fan)
    /\ elapsed = accepted
\* What the gauges may show and what the sampler may take.
LEMMA SnapshotNumbers ==
    /\ INTERVAL \in Nat /\ HOUR \in Nat /\ CAPACITY \in Nat \ {0} /\ Powers \subseteq Nat
    /\ MeterStamps \subseteq Nat /\ Speeds \subseteq Nat /\ CpuTemperatures \subseteq Nat
    /\ Missing = -1 /\ NoSeries = -2 /\ NoFan = -2
  BY SystemSnapshotsAssumption DEF Missing, NoSeries, NoFan

\* The bus is a bounded sequence of records.
Bus(q) == q \in Seq(Snapshots \cup {Other}) /\ Len(q) <= CAPACITY

LEMMA BusIsBounded ==
    ASSUME NEW q PROVE q \in BoundedSeq(Snapshots \cup {Other}, CAPACITY) <=> Bus(q)
<1> DEFINE S == Snapshots \cup {Other}
<1>1. BoundedSeq(S, CAPACITY) = UNION {[1..m -> S] : m \in 0..CAPACITY}
  BY DEF BoundedSeq, SeqOf
<1> HIDE DEF S
<1>2. ASSUME NEW m \in 0..CAPACITY, q \in [1..m -> S]  PROVE q \in Seq(S) /\ Len(q) <= CAPACITY
  <2>1. m \in Nat
    BY SnapshotNumbers
  <2>2. q \in Seq(S)
    BY <1>2, <2>1
  <2>3. Len(q) = m
    BY <1>2, <2>1, <2>2, LenProperties
  <2> QED
    BY <2>1, <2>2, <2>3, SnapshotNumbers
<1>3. ASSUME q \in Seq(S), Len(q) <= CAPACITY  PROVE \E m \in 0..CAPACITY : q \in [1..m -> S]
  BY <1>3, LenProperties, SnapshotNumbers
<1> QED
  BY <1>1, <1>2, <1>3 DEF Bus, S

\* A record that comes, and one that is taken, leave the bus bounded.
LEMMA BusMoves ==
    ASSUME NEW q, Bus(q)
    PROVE  /\ \A r \in Snapshots \cup {Other} :
                 Bus(IF Len(q) = CAPACITY THEN Append(Tail(q), r) ELSE Append(q, r))
           /\ q # <<>> => Bus(Tail(q)) /\ Head(q) \in Snapshots \cup {Other}
<1> DEFINE S == Snapshots \cup {Other}
<1>1. q \in Seq(S) /\ Len(q) \in Nat /\ Len(q) <= CAPACITY /\ CAPACITY \in Nat \ {0}
  BY SnapshotNumbers, LenProperties DEF Bus
<1> HIDE DEF S
<1>2. ASSUME q # <<>>
      PROVE  Tail(q) \in Seq(S) /\ Len(Tail(q)) = Len(q) - 1 /\ Head(q) \in S
  BY <1>1, <1>2, HeadTailProperties
<1>3. ASSUME NEW r \in S, NEW s \in Seq(S)
      PROVE  Append(s, r) \in Seq(S) /\ Len(Append(s, r)) = Len(s) + 1
  BY <1>3, AppendProperties
<1>4. ASSUME NEW r \in S, Len(q) = CAPACITY  PROVE Bus(Append(Tail(q), r))
  <2>1. q # <<>>
    BY <1>1, <1>4, EmptySeq
  <2>2. Tail(q) \in Seq(S) /\ Len(Tail(q)) = Len(q) - 1
    BY <1>2, <2>1
  <2> QED
    BY <1>1, <1>3, <1>4, <2>2 DEF Bus, S
<1>5. ASSUME NEW r \in S, Len(q) # CAPACITY  PROVE Bus(Append(q, r))
  <2>1. Len(q) + 1 <= CAPACITY
    BY <1>1, <1>5
  <2> QED
    BY <1>1, <1>3, <2>1 DEF Bus, S
<1>6. ASSUME q # <<>>  PROVE Bus(Tail(q))
  BY <1>1, <1>2, <1>6 DEF Bus, S
<1> QED
  BY <1>2, <1>4, <1>5, <1>6 DEF S

\* The variables of the meter, of the sampler, of the bus and of the pusher.
MeterPart == <<meter, reading, meterGauges, shelly, latestReading, failed>>
SamplerPart == <<sampler, snapshot, fanGauges, cpuGauge>>
PusherPart == <<pusher, elapsed, accepted, news>>

\* SnapshotSound, part by part.
MeterSound ==
    /\ meter \in {"waiting", "asking", "exporting", "storing"}
    /\ reading \in Readings \cup {NoReading} /\ latestReading \in Readings \cup {NoReading}
    /\ meterGauges \in [up : {NoSeries, 0, 1}, power : Powers \cup {Missing, NoSeries},
                        fetched_at : MeterStamps \cup {NoSeries}]
    /\ shelly \in {<<>>} \cup {<<r>> : r \in Readings} /\ failed \in BOOLEAN
    /\ meter \in {"waiting", "asking"} =>
          /\ reading = NoReading
          /\ meterGauges.up # NoSeries => (meterGauges.up = 1 <=> ~failed)
          /\ latestReading # NoReading => MeterShows(latestReading) /\ shelly = <<latestReading>>
    /\ meter \in {"exporting", "storing"} => reading \in Readings /\ reading = latestReading /\ ~failed
    /\ meter = "storing" => meterGauges.up = 1 /\ MeterShows(reading)
SamplerSound ==
    /\ fanGauges \in [available : {NoSeries, 0, 1}, tachometer : {NoSeries, 0, 1},
                      rpm : Speeds \cup {Missing, NoSeries}]
    /\ cpuGauge \in CpuTemperatures \cup {NoSeries}
    /\ sampler \in {"waiting", "sampled", "recorded"} /\ snapshot \in Snapshots
    /\ sampler = "recorded" => fanGauges = FanGauges(snapshot.fan)
PusherSound ==
    /\ Bus(queue) /\ overrun \in BOOLEAN
    /\ pusher \in {"receiving", "pushing"} /\ news \in BOOLEAN
    /\ elapsed \in 0..INTERVAL /\ elapsed = accepted

LEMMA SnapshotParts == SnapshotSound <=> MeterSound /\ SamplerSound /\ PusherSound
<1>1. queue \in BoundedSeq(Snapshots \cup {Other}, CAPACITY) <=> Bus(queue)
  BY BusIsBounded
<1> QED
  BY <1>1 DEF SnapshotSound, SnapshotTypeOK, MeterSound, SamplerSound, PusherSound

\* The steps of the meter's collector.
LEMMA MeterMoves == MeterSound /\ Meter => MeterSound'
<1> SUFFICES ASSUME MeterSound, Meter  PROVE MeterSound'
  OBVIOUS
<1>0. /\ Missing = -1 /\ NoSeries = -2 /\ Missing # NoSeries
      /\ MeterStamps \subseteq Nat /\ \A r \in Readings : r # NoReading
      /\ \A r \in Readings : r.power \in Powers \cup {Missing} /\ r.fetched_at \in MeterStamps
  <2>1. NoSeries \notin Nat
    BY SnapshotNumbers
  <2>2. \A r \in Readings : r.power \in Powers \cup {Missing} /\ r.fetched_at \in MeterStamps
    BY DEF Readings
  <2>3. NoReading.fetched_at = NoSeries
    BY DEF NoReading
  <2> QED
    BY <2>1, <2>2, <2>3, SnapshotNumbers
<1>1. CASE Asks
  BY <1>1 DEF Asks, MeterSound, MeterShows, registry
<1>2. CASE MeterAnswers
  BY <1>0, <1>2 DEF MeterAnswers, MeterSound, MeterShows, registry
<1>3. CASE MeterAnswersNot
  <2>1. meterGauges' = [meterGauges EXCEPT !.up = 0]
    BY <1>3 DEF MeterAnswersNot
  <2>2. /\ meterGauges' \in [up : {NoSeries, 0, 1}, power : Powers \cup {Missing, NoSeries},
                             fetched_at : MeterStamps \cup {NoSeries}]
        /\ meterGauges'.up = 0 /\ meterGauges'.power = meterGauges.power
        /\ meterGauges'.fetched_at = meterGauges.fetched_at
    BY <2>1 DEF MeterSound
  <2> QED
    BY <1>3, <2>2 DEF MeterAnswersNot, MeterSound, MeterShows
<1>4. CASE Exports
  <2>1. meterGauges' = [up |-> 1, power |-> reading.power, fetched_at |-> reading.fetched_at]
        /\ reading \in Readings
    BY <1>4 DEF Exports, MeterSound, record_shelly_device_gauges
  <2>2. /\ meterGauges' \in [up : {NoSeries, 0, 1}, power : Powers \cup {Missing, NoSeries},
                             fetched_at : MeterStamps \cup {NoSeries}]
        /\ meterGauges'.up = 1 /\ meterGauges'.power = reading.power
        /\ meterGauges'.fetched_at = reading.fetched_at
    BY <1>0, <2>1
  <2> QED
    BY <1>4, <2>2 DEF Exports, MeterSound, MeterShows
<1>5. CASE Stores
  <2>1. shelly' = <<reading>> /\ reading \in Readings
    <3>1. reading \in Readings /\ shelly \in {<<>>} \cup {<<r>> : r \in Readings}
          /\ shelly' = record_shelly_device(reading)
      BY <1>5 DEF Stores, MeterSound
    <3>2. ASSUME NEW r \in Readings, shelly = <<r>>  PROVE [shelly EXCEPT ![1] = reading] = <<reading>>
      BY <3>2
    <3> QED
      BY <3>1, <3>2 DEF record_shelly_device
  <2> QED
    BY <1>0, <1>5, <2>1 DEF Stores, MeterSound, MeterShows, registry
<1> QED
  BY <1>1, <1>2, <1>3, <1>4, <1>5 DEF Meter

\* The steps of the sampler.
LEMMA SamplerMoves ==
    MeterSound /\ SamplerSound /\ (Samples \/ Records \/ Publishes) => SamplerSound'
<1> SUFFICES ASSUME MeterSound, SamplerSound, Samples \/ Records \/ Publishes  PROVE SamplerSound'
  OBVIOUS
<1>1. CASE Samples
  <2>1. snapshot' \in Snapshots
    BY <1>1 DEF Samples, Snapshots, MeterSound
  <2> QED
    BY <1>1, <2>1 DEF Samples, SamplerSound, registry
<1>2. CASE Records
  <2>1. snapshot.fan \in Speeds \cup {Missing, NoFan}
        /\ snapshot.temperature \in CpuTemperatures \cup {Missing}
    BY DEF SamplerSound, Snapshots, Fans
  <2>2. fanGauges' = FanGauges(snapshot.fan)
        /\ cpuGauge' = IF snapshot.temperature = Missing THEN cpuGauge ELSE snapshot.temperature
    BY <1>2 DEF Records
  <2>3. fanGauges' \in [available : {NoSeries, 0, 1}, tachometer : {NoSeries, 0, 1},
                        rpm : Speeds \cup {Missing, NoSeries}]
    BY <2>1, <2>2 DEF FanGauges
  <2> QED
    BY <1>2, <2>1, <2>2, <2>3 DEF Records, SamplerSound
<1>3. CASE Publishes
  BY <1>3 DEF Publishes, SamplerSound, registry
<1> QED
  BY <1>1, <1>2, <1>3

\* The bus, the pusher and the clock.
LEMMA PusherMoves ==
    SamplerSound /\ PusherSound /\ (Publishes \/ PublishesOther \/ Pusher \/ Clock) => PusherSound'
<1> SUFFICES ASSUME SamplerSound, PusherSound, Publishes \/ PublishesOther \/ Pusher \/ Clock
             PROVE  PusherSound'
  OBVIOUS
<1>0. Bus(queue) /\ snapshot \in Snapshots /\ INTERVAL \in Nat
  BY SnapshotNumbers DEF PusherSound, SamplerSound
<1>1. ASSUME NEW r \in Snapshots \cup {Other}, Enqueued(r)  PROVE Bus(queue') /\ overrun' \in BOOLEAN
  BY <1>0, <1>1, BusMoves DEF Enqueued
<1>2. CASE Publishes
  BY <1>0, <1>1, <1>2 DEF Publishes, PusherSound, push
<1>3. CASE PublishesOther
  BY <1>1, <1>3 DEF PublishesOther, PusherSound, push
<1>4. CASE Lags
  BY <1>4 DEF Lags, PusherSound, push
<1>5. CASE Receives
  BY <1>0, <1>5, BusMoves DEF Receives, PusherSound
<1>6. CASE Pushed
  BY <1>0, <1>6 DEF Pushed, PusherSound, bus
<1>7. CASE PushFails
  BY <1>7 DEF PushFails, PusherSound, bus
<1>8. CASE Clock
  BY <1>0, <1>8 DEF Clock, PusherSound, bus
<1> QED
  BY <1>2, <1>3, <1>4, <1>5, <1>6, <1>7, <1>8 DEF Pusher

\* Every step of the meter, the sampler, the bus and the pusher.
LEMMA SnapshotStep == SnapshotSound /\ [SnapshotNext]_snapshotVars => SnapshotSound'
<1> SUFFICES ASSUME MeterSound, SamplerSound, PusherSound, [SnapshotNext]_snapshotVars
             PROVE  MeterSound' /\ SamplerSound' /\ PusherSound'
  BY SnapshotParts, PTL
<1>1. UNCHANGED MeterPart => MeterSound'
  BY DEF MeterSound, MeterPart, MeterShows
<1>2. UNCHANGED SamplerPart => SamplerSound'
  BY DEF SamplerSound, SamplerPart
<1>3. UNCHANGED <<bus, PusherPart>> => PusherSound'
  BY DEF PusherSound, PusherPart, bus
<1>4. CASE Meter
  <2>1. UNCHANGED SamplerPart /\ UNCHANGED <<bus, PusherPart>>
    BY <1>4 DEF Meter, Asks, MeterAnswers, MeterAnswersNot, Exports, Stores, SamplerPart,
                PusherPart, bus, push, registry
  <2> QED
    BY <1>2, <1>3, <1>4, <2>1, MeterMoves
<1>5. CASE Samples \/ Records \/ Publishes
  <2>1. UNCHANGED MeterPart /\ (UNCHANGED <<bus, PusherPart>> \/ Publishes)
    BY <1>5 DEF Samples, Records, Publishes, MeterPart, PusherPart, bus, push, registry
  <2> QED
    BY <1>1, <1>3, <1>5, <2>1, SamplerMoves, PusherMoves
<1>6. CASE PublishesOther \/ Pusher \/ Clock
  <2>1. UNCHANGED MeterPart /\ UNCHANGED SamplerPart
    BY <1>6 DEF PublishesOther, Pusher, Clock, Lags, Receives, Pushed, PushFails, MeterPart,
                SamplerPart, bus, push, registry
  <2> QED
    BY <1>1, <1>2, <1>6, <2>1, PusherMoves
<1>7. CASE UNCHANGED snapshotVars
  <2>1. UNCHANGED MeterPart /\ UNCHANGED SamplerPart /\ UNCHANGED <<bus, PusherPart>>
    BY <1>7 DEF snapshotVars, MeterPart, SamplerPart, PusherPart, bus, push, registry
  <2> QED
    BY <1>1, <1>2, <1>3, <2>1
<1> QED
  BY <1>4, <1>5, <1>6, <1>7 DEF SnapshotNext, Sampler

\* The meter has not answered yet, and nothing has been pushed.
LEMMA SnapshotStarts == SnapshotInit => SnapshotSound
<1> SUFFICES ASSUME SnapshotInit  PROVE MeterSound /\ SamplerSound /\ PusherSound
  BY SnapshotParts
<1>1. MeterSound
  BY DEF SnapshotInit, MeterSound
<1>2. NoSnapshot \in Snapshots
  BY DEF NoSnapshot, Snapshots, Fans
<1>3. SamplerSound
  BY <1>2 DEF SnapshotInit, SamplerSound
<1>4. Bus(<<>>)
  BY SnapshotNumbers DEF Bus
<1>5. PusherSound
  <2> DEFINE ago == IF HOUR < INTERVAL THEN HOUR ELSE INTERVAL
  <2>1. ago \in 0..INTERVAL
    BY SnapshotNumbers
  <2>2. /\ queue = <<>> /\ overrun = FALSE /\ pusher = "receiving" /\ news = FALSE
        /\ elapsed = ago /\ accepted = ago
    BY DEF SnapshotInit
  <2>3. Bus(queue)
    BY <1>4, <2>2
  <2> QED
    BY <2>1, <2>2, <2>3 DEF PusherSound
<1> QED
  BY <1>1, <1>3, <1>5

\* What is sound is current.
LEMMA SnapshotSoundIsCurrent == SnapshotSound => SnapshotInv
<1> SUFFICES ASSUME SnapshotSound  PROVE SnapshotInv
  OBVIOUS
<1>1. MeterSound /\ SamplerSound /\ PusherSound
  BY SnapshotParts
<1>2. SnapshotTypeOK
  BY DEF SnapshotSound
<1>3. UpShowsLatestPoll
  BY <1>1 DEF UpShowsLatestPoll, MeterSound
<1>4. MeterShowsNewestReading
  <2> SUFFICES ASSUME meter = "waiting", latestReading # NoReading
               PROVE  /\ [power |-> meterGauges.power, fetched_at |-> meterGauges.fetched_at]
                           = latestReading
                      /\ shelly = <<latestReading>>
    BY DEF MeterShowsNewestReading
  <2>1. latestReading \in Readings /\ MeterShows(latestReading) /\ shelly = <<latestReading>>
    BY <1>1 DEF MeterSound
  <2> QED
    BY <2>1 DEF MeterShows, Readings
<1>5. FanShowsLastSample
  <2> SUFFICES ASSUME sampler = "recorded"
               PROVE  /\ fanGauges.available = 1 <=> snapshot.fan # NoFan
                      /\ fanGauges.rpm = IF snapshot.fan \in Speeds THEN snapshot.fan ELSE Missing
    BY DEF FanShowsLastSample
  <2>1. snapshot.fan \in Speeds \cup {Missing, NoFan} /\ fanGauges = FanGauges(snapshot.fan)
    BY <1>1 DEF SamplerSound, Snapshots, Fans
  <2>2. Missing \notin Speeds /\ NoFan \notin Speeds /\ Missing # NoFan
    BY SnapshotNumbers
  <2> QED
    BY <2>1, <2>2 DEF FanGauges
<1> QED
  BY <1>2, <1>3, <1>4, <1>5 DEF SnapshotInv

\* For any meter, fan and operator: between two polls the gauges of the meter are those of its
\* newest reading, no field of an older one among them, and up is the last poll's; after a
\* sample the fan's gauges are those of that sample; the sampler keeps one reading of the
\* device, the newest.
THEOREM GaugesShowTheNewest == SnapshotSpec => []SnapshotInv
<1>1. SnapshotInit /\ [][SnapshotNext]_snapshotVars => []SnapshotSound
  BY SnapshotStarts, SnapshotStep, PTL
<1> QED
  BY <1>1, SnapshotSoundIsCurrent, PTL DEF SnapshotSpec

\* A pusher that skips a snapshot has had one taken within the interval.
LEMMA SkipIsSoon == SnapshotSound /\ [SnapshotNext]_snapshotVars
                    => [Skips => accepted < INTERVAL]_snapshotVars
<1> SUFFICES ASSUME SamplerSound, PusherSound, SnapshotNext, Skips  PROVE accepted < INTERVAL
  BY SnapshotParts
<1>1. /\ queue \in Seq(Snapshots \cup {Other}) /\ Len(queue) \in Nat /\ queue # <<>>
      /\ Tail(queue) \in Seq(Snapshots \cup {Other}) /\ Len(Tail(queue)) = Len(queue) - 1
      /\ CAPACITY \in Nat \ {0}
  BY HeadTailProperties, LenProperties, SnapshotNumbers DEF PusherSound, Bus, Skips
<1>2. queue' # queue /\ queue' = Tail(queue) /\ Head(queue) # Other /\ pusher' = "receiving"
  <2>1. queue' = Tail(queue) /\ Head(queue) # Other /\ pusher' = "receiving"
    BY DEF Skips
  <2>2. Len(queue') # Len(queue)
    <3>1. Len(queue') = Len(Tail(queue))
      BY <2>1
    <3>2. \A n \in Nat : n - 1 # n
      OBVIOUS
    <3> QED
      BY <1>1, <3>1, <3>2
  <2> QED
    BY <2>1, <2>2
<1>3. ASSUME NEW r, Enqueued(r), r \in Snapshots \cup {Other}  PROVE FALSE
  <2>1. \A s \in Seq(Snapshots \cup {Other}) : Len(Append(s, r)) = Len(s) + 1
    BY <1>3, AppendProperties
  <2>2. queue' = Append(Tail(queue), r) \/ queue' = Append(queue, r)
    BY <1>3 DEF Enqueued
  <2>3. Len(Append(Tail(queue), r)) = Len(queue) - 1 + 1 /\ Len(Append(queue, r)) = Len(queue) + 1
    BY <1>1, <2>1
  <2>4. Len(queue') = Len(queue) - 1
    BY <1>1, <1>2
  <2> QED
    BY <1>1, <2>2, <2>3, <2>4
<1>4. ~Publishes /\ ~PublishesOther
  BY <1>3 DEF Publishes, PublishesOther, SamplerSound
<1>5. ~(Meter \/ Samples \/ Records \/ Lags \/ Pushed \/ PushFails \/ Clock)
  BY <1>2 DEF Meter, Asks, MeterAnswers, MeterAnswersNot, Exports, Stores, Samples, Records,
              Lags, Pushed, PushFails, Clock, bus
<1>6. Receives
  BY <1>4, <1>5 DEF SnapshotNext, Sampler, Pusher
<1> QED
  BY <1>2, <1>6 DEF Receives, PusherSound

\* For any answers of provider, meter and fan: the gauges that the collectors write are
\* current between two polls, also of those that run beside each other.
THEOREM CollectorsAreCurrent == CollectorsSpec => []GaugesAreCurrent
  BY WeatherIsCurrent, GaugesShowTheNewest, PTL DEF CollectorsSpec, GaugesAreCurrent

\* The operator's outages cost no more than an interval: a snapshot is skipped only while the
\* one before it that the operator took is younger than that, or, when the interval is longer
\* than an hour, while the start is as recent; for any capacity of the bus.
THEOREM FailedPushesAreMadeGood == SnapshotSpec => SkipsOnlyAfterSuccess
<1>1. SnapshotInit /\ [][SnapshotNext]_snapshotVars => []SnapshotSound
  BY SnapshotStarts, SnapshotStep, PTL
<1>2. SnapshotSound /\ [SnapshotNext]_snapshotVars => [Skips => accepted < INTERVAL]_snapshotVars
  BY SkipIsSoon
<1> QED
  BY <1>1, <1>2, PTL DEF SnapshotSpec, SkipsOnlyAfterSuccess
==============================================================================
