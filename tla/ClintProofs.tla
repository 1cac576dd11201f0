----------------------------- MODULE ClintProofs ------------------------------
(***************************************************************************)
(* Proofs about Clint, for every range of the two halves of mtime, every   *)
(* ratio of the clocks and every time a step of the hart may take.         *)
(***************************************************************************)
EXTENDS Clint, Quotients

(* Where each function may be, and where its reads of mtime come back.     *)
Within(label) ==
  /\ label = "add" => call \in {"spin_ticks", "sleep_ticks"}
  /\ label = "poll" => call \in {"spin_until", "spin_ticks"}
  /\ label \in {"check", "set_high", "set_low", "set_mtie", "set_mie", "wfi", "waiting"} =>
       call \in {"sleep_until", "sleep_ticks"}
  /\ label \in {"freq_0", "freq_started", "freq_ended"} => call = "core_freq"

Reads == {"add", "poll", "check", "freq_0", "freq_started", "freq_ended"}

ControlInv ==
  /\ pc \in Labels /\ call \in Calls \cup {"none"}
  /\ ret \in Labels
  /\ pc \in {"first", "second"} => ret \in Reads /\ Within(ret)
  /\ Within(pc)

\* Numbers without the bounds of a model.
NumberInv ==
  /\ cycle \in Nat /\ half \in Nat /\ now \in Nat /\ arg \in Nat /\ tgt \in Nat /\ cmp \in Nat
  /\ epoch \in [time : Nat, phase : 0 .. CyclesPerTick - 1]
  /\ order \in Orders
  /\ meas \in [start_mcycle : Nat, start_mtime : Nat, end_mcycle : Nat, end_mtime : Nat]
  /\ mtie \in BOOLEAN /\ mie \in BOOLEAN

(* The comparator is written in two halves.                                *)
ArmInv ==
  /\ pc = "set_low" => High(cmp) = High(tgt)
  /\ pc \in {"set_mtie", "set_mie", "wfi", "waiting"} => cmp = tgt

(* What has been read of mtime is never ahead of it.                       *)
SpinInv ==
  order = "high_first" =>
    /\ pc = "second" => half <= High(Mtime)
    /\ now <= Mtime
    /\ Finished({"spin_until", "spin_ticks"}) => tgt <= now

(* The cycle in which mtime becomes t.  A reading t was taken in a cycle c *)
(* exactly if Edge(t) <= c < Edge(t + 1).                                  *)
Edge(t) == CyclesPerTick * (t - epoch.time) - epoch.phase

\* mtime has not carried since the start.
Calm == High(epoch.time) = High(Mtime)

(* A round is three steps: to a capture of mcycle, to the first load of    *)
(* mtime, to the second.  The build decides which load counts; Before      *)
(* bounds the cycles from it to the next capture, Behind those from the    *)
(* capture to it.                                                          *)
Twice == MaxStall + MaxStall
Before == IF order = "high_first" THEN MaxStall ELSE Twice
Behind == IF order = "high_first" THEN Twice ELSE MaxStall

\* The time that a reader of the low half will come back with.
Reading == HalfRange * High(epoch.time) + half

ReadingInv ==
  /\ pc = "second" /\ order = "high_first" => half = High(epoch.time)
  /\ pc = "second" /\ order = "low_first" =>
       half < HalfRange /\ Edge(Reading) < cycle /\ Edge(Reading + 1) > cycle - MaxStall
  /\ pc \in {"freq_0", "freq_started", "freq_ended"} =>
       Edge(now) < cycle /\ Edge(now + 1) > cycle - Before

\* The round that began when mcycle was c and that comes back at a label.
RoundInv(c, label) ==
  /\ pc = "first" /\ ret = label => c < cycle /\ cycle <= c + MaxStall
  /\ pc = "second" /\ ret = label =>
       /\ c < cycle /\ cycle <= c + Twice
       /\ order = "low_first" => Edge(Reading) <= c + Behind /\ Edge(Reading + 1) > c
  /\ pc = label =>
       /\ c < cycle /\ cycle <= c + Twice + MaxStall
       /\ Edge(now) <= c + Behind /\ Edge(now + 1) > c

Heading(label) == pc = label \/ (pc \in {"first", "second"} /\ ret = label)

(* The tick that starts the measurement, and the one that ends it, are     *)
(* bracketed by the readings before and after the capture of mcycle.       *)
StartInv ==
  Heading("freq_started") =>
    Edge(meas.end_mtime) <= meas.start_mcycle /\ Edge(meas.end_mtime + 1) > meas.start_mcycle - Before

Goal == meas.start_mtime + (IF NumTicks = 0 THEN 1 ELSE NumTicks)

EndInv ==
  Heading("freq_ended") \/ Finished({"core_freq"}) =>
    /\ Edge(meas.start_mtime) > meas.start_mcycle - Before
    /\ Edge(meas.start_mtime) <= meas.start_mcycle + Behind
    /\ Edge(meas.start_mtime) <= meas.end_mcycle
    /\ Edge(Goal) > meas.end_mcycle - Before
    /\ NumTicks = 0 => meas.end_mcycle <= meas.start_mcycle + Twice + MaxStall

DoneInv ==
  Finished({"core_freq"}) =>
    Edge(meas.end_mtime) <= meas.end_mcycle + Behind /\ meas.end_mtime >= meas.start_mtime + NumTicks

Measuring ==
  /\ ReadingInv
  /\ RoundInv(meas.start_mcycle, "freq_started") /\ RoundInv(meas.end_mcycle, "freq_ended")
  /\ StartInv /\ EndInv /\ DoneInv

FreqInv == Calm => Measuring

ClintInv == NumberInv /\ ControlInv /\ ArmInv /\ SpinInv /\ FreqInv

------------------------------------------------------------------------------
(* mtime.                                                                  *)
LEMMA Sizes ==
  /\ HalfRange \in Nat \ {0} /\ HalfRange \in Nat /\ HalfRange >= 1
  /\ CyclesPerTick \in Nat \ {0} /\ CyclesPerTick \in Nat /\ CyclesPerTick >= 1
  /\ MaxStall \in Nat /\ MaxStall >= 1
BY ClintAssumption

LEMMA HalfFacts ==
  ASSUME NEW t \in Nat
  PROVE  /\ High(t) \in Nat /\ Low(t) \in 0 .. HalfRange - 1
         /\ High(t) * HalfRange \in Nat /\ HalfRange * High(t) = High(t) * HalfRange
         /\ t = High(t) * HalfRange + Low(t)
<1>1. t \div HalfRange \in Int /\ t % HalfRange \in 0 .. HalfRange - 1
      /\ t = HalfRange * (t \div HalfRange) + (t % HalfRange)
  BY Sizes, DivisionFacts
<1>2. 0 <= t \div HalfRange
  <2>1. 0 <= t \div HalfRange <=> HalfRange * 0 <= t
    BY Sizes, QuotientBound
  <2>. QED  BY <2>1, Sizes
<1>3. High(t) \in Nat /\ Low(t) \in 0 .. HalfRange - 1 /\ t = HalfRange * High(t) + Low(t)
  BY <1>1, <1>2 DEF High, Low
<1>4. \A q \in Nat : HalfRange * q \in Nat /\ HalfRange * q = q * HalfRange
  BY Sizes, SMTT(20)
<1>. QED  BY <1>3, <1>4

\* Two halves put together.
LEMMA JoinFacts ==
  ASSUME NEW q \in Nat, NEW r \in 0 .. HalfRange - 1
  PROVE  /\ q * HalfRange + r \in Nat
         /\ High(q * HalfRange + r) = q /\ Low(q * HalfRange + r) = r
<1>1. HalfRange * q = q * HalfRange /\ q * HalfRange \in Nat
  BY Sizes, SMTT(20)
<1>2. (HalfRange * q + r) \div HalfRange = q /\ (HalfRange * q + r) % HalfRange = r
  BY Sizes, QuotientUnique
<1>. QED  BY <1>1, <1>2 DEF High, Low

LEMMA HighMonotone ==
  ASSUME NEW t \in Nat, NEW u \in Nat, t <= u
  PROVE  High(t) <= High(u)
<1>1. High(t) \in Nat /\ HalfRange * High(t) <= t
  BY HalfFacts, Sizes
<1>2. High(t) <= u \div HalfRange <=> HalfRange * High(t) <= u
  BY <1>1, Sizes, QuotientBound
<1>. QED  BY <1>1, <1>2, Sizes DEF High

LEMMA EdgeFacts ==
  ASSUME NumberInv, NEW t \in Int, NEW c \in Nat
  PROVE  /\ Edge(t) \in Int /\ MtimeAt(c) \in Nat /\ MtimeAt(c) >= epoch.time
         /\ t <= MtimeAt(c) <=> Edge(t) <= c
<1>1. epoch.time \in Nat /\ epoch.phase \in 0 .. CyclesPerTick - 1
  BY DEF NumberInv
<1>. DEFINE a == epoch.phase + c
            k == t - epoch.time
<1>2. a \in Nat /\ k \in Int
  BY <1>1, Sizes
<1>3. CyclesPerTick * k \in Int
  BY <1>2, Sizes, ProductFacts
<1>4. a \div CyclesPerTick \in Int
  BY <1>2, Sizes, DivisionFacts
<1>5. k <= a \div CyclesPerTick <=> CyclesPerTick * k <= a
  BY <1>2, Sizes, QuotientBound
<1>6. 0 <= a \div CyclesPerTick <=> CyclesPerTick * 0 <= a
  BY <1>2, Sizes, QuotientBound
<1>. DEFINE q == a \div CyclesPerTick
            e == CyclesPerTick * k
<1>7. MtimeAt(c) = epoch.time + q /\ Edge(t) = e - epoch.phase
  BY DEF MtimeAt, Edge
<1>8. q \in Nat /\ e \in Int /\ (k <= q <=> e <= a)
  BY <1>2, <1>3, <1>4, <1>5, <1>6, Sizes
<1>. HIDE DEF q, e
<1>. QED  BY <1>1, <1>7, <1>8, Sizes

LEMMA EdgeOrder ==
  ASSUME NumberInv, NEW t \in Int, NEW u \in Int
  PROVE  /\ Edge(t) \in Int /\ Edge(u) \in Int
         /\ t <= u => Edge(t) <= Edge(u)
         /\ t < u => Edge(t) < Edge(u)
         /\ Edge(u) - Edge(t) = (u - t) * CyclesPerTick
<1>1. epoch.time \in Nat /\ epoch.phase \in Nat
  BY Sizes DEF NumberInv
<1>. DEFINE j == t - epoch.time
            k == u - epoch.time
<1>2. j \in Int /\ k \in Int /\ k - j = u - t
  BY <1>1
<1>3. /\ CyclesPerTick * j \in Int /\ CyclesPerTick * k \in Int
      /\ j <= k => CyclesPerTick * j <= CyclesPerTick * k
      /\ j < k => CyclesPerTick * j + CyclesPerTick <= CyclesPerTick * k
  BY <1>2, Sizes, ProductFacts
<1>4. CyclesPerTick * k - CyclesPerTick * j = (k - j) * CyclesPerTick
  <2>. HIDE DEF j, k
  <2>. QED  BY <1>2, Sizes, SMTT(20)
<1>. DEFINE ej == CyclesPerTick * j
            ek == CyclesPerTick * k
<1>5. Edge(t) = ej - epoch.phase /\ Edge(u) = ek - epoch.phase
  BY DEF Edge
<1>6. (t <= u <=> j <= k) /\ (t < u <=> j < k)
  BY <1>1
<1>7. /\ ej \in Int /\ ek \in Int /\ (j <= k => ej <= ek) /\ (j < k => ej + CyclesPerTick <= ek)
      /\ ek - ej = (u - t) * CyclesPerTick
  BY <1>2, <1>3, <1>4
<1>. HIDE DEF ej, ek, j, k
<1>8. Edge(t) \in Int /\ Edge(u) \in Int /\ Edge(u) - Edge(t) = ek - ej
  BY <1>1, <1>5, <1>7
<1>9. (t <= u => Edge(t) <= Edge(u)) /\ (t < u => Edge(t) < Edge(u))
  BY <1>1, <1>2, <1>5, <1>6, <1>7, Sizes
<1>. QED  BY <1>7, <1>8, <1>9

------------------------------------------------------------------------------
(* Every step of the hart takes its time.                                  *)
Elapses == cycle' \in Nat /\ cycle < cycle' /\ cycle' <= cycle + MaxStall /\ UNCHANGED timer

LEMMA StepElapses ==
  ASSUME NumberInv, NEW from, NEW to, Step(from, to)
  PROVE  Elapses
<1>1. PICK d \in 1 .. MaxStall : cycle' = cycle + d
  BY DEF Step
<1>. QED  BY <1>1, Sizes DEF Step, Elapses, NumberInv

LEMMA NextElapses == NumberInv /\ Next => Elapses
<1>. SUFFICES ASSUME NumberInv, Next PROVE Elapses
  OBVIOUS
<1>1. ASSUME NEW c \in Calls, NEW n \in Ticks, Begin(c, n)  PROVE Elapses
  BY <1>1, StepElapses DEF Begin, GetMtime
<1>2. CASE ReadFirst \/ ReadSecond \/ AddTicks \/ SpinAgain \/ SpinDone
  BY <1>2, StepElapses DEF ReadFirst, ReadSecond, AddTicks, SpinAgain, SpinDone, GetMtime
<1>3. CASE CaptureStart \/ CaptureEnd \/ FreqDone \/ SleepReturn \/ SleepArm
  BY <1>3, StepElapses DEF CaptureStart, CaptureEnd, FreqDone, SleepReturn, SleepArm, GetMtime
<1>4. CASE SetMtimecmpHigh \/ SetMtimecmpLow \/ EnableTimer \/ TimerTrap \/ Wfi \/ Waiting
  BY <1>4, StepElapses DEF SetMtimecmpHigh, SetMtimecmpLow, EnableTimer, TimerTrap, Wfi, Waiting
<1>. QED  BY <1>1, <1>2, <1>3, <1>4 DEF Next

LEMMA MtimeFacts ==
  ASSUME NumberInv
  PROVE  /\ Mtime \in Nat /\ Mtime >= epoch.time /\ epoch.time \in Nat
         /\ High(Mtime) \in Nat /\ Low(Mtime) \in 0 .. HalfRange - 1
         /\ High(epoch.time) \in Nat /\ High(epoch.time) <= High(Mtime)
         /\ Edge(Mtime) <= cycle /\ Edge(Mtime + 1) > cycle
<1>1. cycle \in Nat /\ epoch.time \in Nat
  BY DEF NumberInv
<1>2. Mtime \in Nat /\ Mtime >= epoch.time
  BY <1>1, EdgeFacts DEF Mtime
<1>3. Mtime \in Int /\ Mtime + 1 \in Int
  BY <1>2
<1>4. Mtime <= MtimeAt(cycle) <=> Edge(Mtime) <= cycle
  BY <1>1, <1>3, EdgeFacts
<1>5. Edge(Mtime + 1) \in Int /\ (Mtime + 1 <= MtimeAt(cycle) <=> Edge(Mtime + 1) <= cycle)
  BY <1>1, <1>3, EdgeFacts
<1>6. MtimeAt(cycle) = Mtime
  BY DEF Mtime
<1>7. Edge(Mtime) <= cycle /\ Edge(Mtime + 1) > cycle
  BY <1>1, <1>2, <1>4, <1>5, <1>6
<1>. QED  BY <1>1, <1>2, <1>7, HalfFacts, HighMonotone

\* mtime does not go back; if it has not carried, it had not before.
LEMMA MtimeGrows ==
  ASSUME NumberInv, Elapses
  PROVE  /\ Mtime' \in Nat /\ Mtime <= Mtime' /\ High(Mtime) <= High(Mtime)'
         /\ Calm' => Calm
         /\ \A t : Edge(t)' = Edge(t)
<1>1. epoch' = epoch /\ cycle \in Nat /\ cycle' \in Nat /\ cycle <= cycle'
  BY DEF Elapses, timer, NumberInv
<1>2. Mtime' = MtimeAt(cycle')
  BY <1>1 DEF Mtime, MtimeAt
<1>3. Mtime \in Nat /\ Edge(Mtime) <= cycle /\ Edge(Mtime) \in Int
  BY MtimeFacts, EdgeOrder
<1>4. MtimeAt(cycle') \in Nat /\ (Mtime <= MtimeAt(cycle') <=> Edge(Mtime) <= cycle')
  BY <1>1, <1>3, EdgeFacts
<1>5. Mtime' \in Nat /\ Mtime <= Mtime'
  BY <1>1, <1>2, <1>3, <1>4
<1>6. High(Mtime) <= High(Mtime') /\ High(Mtime') \in Nat /\ High(Mtime)' = High(Mtime')
  BY <1>3, <1>5, HighMonotone, HalfFacts DEF High
<1>7. High(epoch.time)' = High(epoch.time)
  BY <1>1 DEF High
<1>8. High(epoch.time) <= High(Mtime) /\ High(epoch.time) \in Nat /\ High(Mtime) \in Nat
  BY MtimeFacts
<1>9. Calm' => Calm
  BY <1>6, <1>7, <1>8 DEF Calm
<1>10. \A t : Edge(t)' = Edge(t)
  BY <1>1 DEF Edge
<1>. QED  BY <1>5, <1>6, <1>9, <1>10

------------------------------------------------------------------------------
(* The numbers, and where the hart is.                                     *)
LEMMA InitialInv == Init => NumberInv /\ ControlInv /\ ArmInv
<1>. SUFFICES ASSUME Init PROVE NumberInv /\ ControlInv /\ ArmInv
  OBVIOUS
<1>1. NumberInv
  <2>1. epoch \in [time : Nat, phase : 0 .. CyclesPerTick - 1]
    BY ClintAssumption DEF Init
  <2>. QED  BY <2>1 DEF Init, NumberInv
<1>2. ControlInv
  BY DEF Init, ControlInv, Within, Labels, Reads
<1>3. ArmInv
  BY DEF Init, ArmInv
<1>. QED  BY <1>1, <1>2, <1>3

LEMMA ControlStep ==
  ASSUME NumberInv, ControlInv, Next
  PROVE  ControlInv'
<1>. USE DEF ControlInv, Within, Reads, Labels, Step, GetMtime
<1>1. ASSUME NEW c \in Calls, NEW n \in Ticks, Begin(c, n)  PROVE ControlInv'
  BY <1>1 DEF Begin
<1>2. CASE ReadFirst
  BY <1>2 DEF ReadFirst
<1>3. CASE ReadSecond
  BY <1>3 DEF ReadSecond
<1>4. CASE AddTicks
  BY <1>4 DEF AddTicks
<1>5. CASE SpinAgain \/ SpinDone
  BY <1>5 DEF SpinAgain, SpinDone
<1>6. CASE CaptureStart
  BY <1>6 DEF CaptureStart
<1>7. CASE CaptureEnd
  BY <1>7 DEF CaptureEnd
<1>8. CASE FreqDone \/ SleepReturn \/ SleepArm
  BY <1>8 DEF FreqDone, SleepReturn, SleepArm
<1>9. CASE SetMtimecmpHigh \/ SetMtimecmpLow
  BY <1>9 DEF SetMtimecmpHigh, SetMtimecmpLow
<1>10. CASE EnableTimer
  BY <1>10 DEF EnableTimer
<1>11. CASE TimerTrap \/ Wfi \/ Waiting
  BY <1>11 DEF TimerTrap, Wfi, Waiting
<1>. QED
  BY <1>1, <1>2, <1>3, <1>4, <1>5, <1>6, <1>7, <1>8, <1>9, <1>10, <1>11 DEF Next

LEMMA NumberStep ==
  ASSUME NumberInv, Next
  PROVE  NumberInv'
<1>1. Elapses
  BY NextElapses
<1>2. cycle' \in Nat /\ epoch' \in [time : Nat, phase : 0 .. CyclesPerTick - 1] /\ order' \in Orders
  BY <1>1 DEF Elapses, NumberInv, timer
<1>3. High(Mtime) \in Nat /\ Low(Mtime) \in Nat /\ Mtime \in Nat
  BY MtimeFacts, Sizes
<1>. DEFINE Others == /\ half' \in Nat /\ now' \in Nat /\ arg' \in Nat /\ tgt' \in Nat /\ cmp' \in Nat
                      /\ meas' \in [start_mcycle : Nat, start_mtime : Nat, end_mcycle : Nat, end_mtime : Nat]
                      /\ mtie' \in BOOLEAN /\ mie' \in BOOLEAN
<1>4. ASSUME NEW c \in Calls, NEW n \in Ticks, Begin(c, n)  PROVE Others
  <2>1. n \in Nat /\ epoch.time + n \in Nat
    BY ClintAssumption DEF NumberInv
  <2>. QED  BY <1>4, <2>1 DEF Begin, NumberInv, irq
<1>5. ASSUME ReadFirst PROVE Others
  BY <1>3, <1>5 DEF ReadFirst, NumberInv, irq
<1>6. ASSUME ReadSecond PROVE Others
  <2>1. half * HalfRange + Low(Mtime) \in Nat /\ High(Mtime) * HalfRange + half \in Nat
    <3>1. half \in Nat /\ \A q \in Nat : q * HalfRange \in Nat
      BY Sizes, SMTT(20) DEF NumberInv
    <3>. QED  BY <1>3, <3>1
  <2>. QED  BY <1>6, <2>1 DEF ReadSecond, NumberInv, irq
<1>7. ASSUME AddTicks \/ SpinAgain \/ SpinDone PROVE Others
  BY <1>7 DEF AddTicks, SpinAgain, SpinDone, NumberInv, irq
<1>8. ASSUME CaptureStart PROVE Others
  BY <1>8 DEF CaptureStart, NumberInv, irq
<1>9. ASSUME CaptureEnd PROVE Others
  BY <1>9 DEF CaptureEnd, NumberInv, irq
<1>10. ASSUME FreqDone PROVE Others
  BY <1>10 DEF FreqDone, NumberInv, irq
<1>11. ASSUME SleepReturn \/ SleepArm \/ Wfi \/ Waiting \/ EnableTimer \/ TimerTrap PROVE Others
  BY <1>11 DEF SleepReturn, SleepArm, Wfi, Waiting, EnableTimer, TimerTrap, NumberInv, irq
<1>12. ASSUME SetMtimecmpHigh \/ SetMtimecmpLow PROVE Others
  <2>1. High(tgt) * HalfRange + Low(cmp) \in Nat /\ High(cmp) * HalfRange + Low(tgt) \in Nat
    <3>1. /\ High(tgt) \in Nat /\ Low(tgt) \in 0 .. HalfRange - 1
          /\ High(cmp) \in Nat /\ Low(cmp) \in 0 .. HalfRange - 1
      BY HalfFacts DEF NumberInv
    <3>. QED  BY <3>1, JoinFacts
  <2>. QED  BY <1>12, <2>1 DEF SetMtimecmpHigh, SetMtimecmpLow, NumberInv
<1>13. Others
  BY <1>4, <1>5, <1>6, <1>7, <1>8, <1>9, <1>10, <1>11, <1>12 DEF Next
<1>. QED  BY <1>2, <1>13 DEF NumberInv

------------------------------------------------------------------------------
(* clint_sleep_until: the two halves of the comparator.                    *)
LEMMA ArmStep ==
  ASSUME NumberInv, ControlInv, ArmInv, Next
  PROVE  ArmInv'
<1>. USE DEF ArmInv, Step, GetMtime
<1>1. ASSUME NEW c \in Calls, NEW n \in Ticks, Begin(c, n)  PROVE ArmInv'
  BY <1>1 DEF Begin
<1>2. CASE \/ AddTicks \/ ReadFirst \/ SpinAgain \/ SpinDone \/ CaptureStart \/ CaptureEnd
           \/ FreqDone \/ SleepReturn \/ SleepArm
  BY <1>2 DEF AddTicks, ReadFirst, SpinAgain, SpinDone, CaptureStart, CaptureEnd, FreqDone,
              SleepReturn, SleepArm
<1>3. CASE ReadSecond
  BY <1>3 DEF ReadSecond, ControlInv, Reads
<1>4. CASE EnableTimer \/ TimerTrap \/ Wfi \/ Waiting
  BY <1>4 DEF EnableTimer, TimerTrap, Wfi, Waiting, irq
<1>5. /\ High(tgt) \in Nat /\ Low(tgt) \in 0 .. HalfRange - 1 /\ tgt = High(tgt) * HalfRange + Low(tgt)
      /\ High(cmp) \in Nat /\ Low(cmp) \in 0 .. HalfRange - 1
  BY HalfFacts DEF NumberInv
<1>6. CASE SetMtimecmpHigh
  <2>1. High(cmp') = High(tgt)
    BY <1>5, <1>6, JoinFacts DEF SetMtimecmpHigh
  <2>2. tgt' = tgt /\ pc' = "set_low" /\ High(cmp)' = High(cmp') /\ High(tgt)' = High(tgt)
    BY <1>6 DEF SetMtimecmpHigh, High
  <2>. QED  BY <2>1, <2>2
<1>7. CASE SetMtimecmpLow
  <2>1. High(cmp) = High(tgt) /\ cmp' = High(cmp) * HalfRange + Low(tgt) /\ tgt' = tgt /\ pc' = "set_mtie"
    BY <1>7 DEF SetMtimecmpLow
  <2>2. cmp' = tgt
    BY <1>5, <2>1
  <2>. QED  BY <2>1, <2>2
<1>. QED  BY <1>1, <1>2, <1>3, <1>4, <1>6, <1>7 DEF Next

------------------------------------------------------------------------------
(* clint_spin_until: the high half is read first.                          *)
LEMMA SpinStep ==
  ASSUME NumberInv, ControlInv, SpinInv, Next
  PROVE  SpinInv'
<1>1. SUFFICES ASSUME order' = "high_first"
               PROVE  /\ pc' = "second" => half' <= High(Mtime)'
                      /\ now' <= Mtime'
                      /\ Finished({"spin_until", "spin_ticks"})' => tgt' <= now'
  BY DEF SpinInv
<1>2. Elapses
  BY NextElapses
<1>3. order = "high_first" /\ Mtime' \in Nat /\ Mtime <= Mtime' /\ High(Mtime) <= High(Mtime)'
  BY <1>1, <1>2, MtimeGrows DEF Elapses, timer
<1>4. /\ Mtime \in Nat /\ High(Mtime) \in Nat /\ Low(Mtime) \in 0 .. HalfRange - 1
      /\ Mtime = High(Mtime) * HalfRange + Low(Mtime)
      /\ now \in Nat /\ half \in Nat
  BY MtimeFacts, HalfFacts DEF NumberInv
<1>5. /\ pc = "second" => half <= High(Mtime)
      /\ now <= Mtime
      /\ Finished({"spin_until", "spin_ticks"}) => tgt <= now
  BY <1>3 DEF SpinInv
<1>6. High(Mtime)' \in Nat
  <2>1. High(Mtime') \in Nat
    BY <1>3, HalfFacts
  <2>. QED  BY <2>1 DEF High
<1>7. now' <= Mtime' /\ (now' = now \/ pc = "second")
  <2>1. CASE ReadSecond
    <3>1. now' = half * HalfRange + Low(Mtime) /\ half <= High(Mtime)
      BY <1>3, <1>5, <2>1 DEF ReadSecond, Step
    <3>2. half * HalfRange <= High(Mtime) * HalfRange /\ half * HalfRange \in Nat
          /\ High(Mtime) * HalfRange \in Nat
      <4>1. \A i, j \in Nat : i <= j => HalfRange * i <= HalfRange * j
        BY Sizes, ProductFacts
      <4>2. \A i \in Nat : i * HalfRange = HalfRange * i /\ HalfRange * i \in Nat
        BY Sizes, SMTT(20)
      <4>. QED  BY <1>4, <3>1, <4>1, <4>2
    <3>3. now' <= Mtime
      BY <1>4, <3>1, <3>2
    <3>4. now' \in Nat
      BY NumberStep DEF NumberInv
    <3>. QED  BY <1>3, <1>4, <2>1, <3>3, <3>4 DEF ReadSecond, Step
  <2>2. CASE ~ReadSecond
    <3>1. now' = now
      BY <2>2 DEF Next, Begin, ReadFirst, AddTicks, SpinAgain, SpinDone, CaptureStart, CaptureEnd,
        FreqDone, SleepReturn, SleepArm, SetMtimecmpHigh, SetMtimecmpLow, EnableTimer, TimerTrap, Wfi,
        Waiting
    <3>. QED  BY <1>3, <1>4, <1>5, <3>1
  <2>. QED  BY <2>1, <2>2
<1>8. pc' = "second" => half' <= High(Mtime)'
  <2>1. pc' = "second" => ReadFirst
    BY DEF Next, Begin, ReadSecond, AddTicks, SpinAgain, SpinDone, CaptureStart, CaptureEnd,
        FreqDone, SleepReturn, SleepArm, SetMtimecmpHigh, SetMtimecmpLow, EnableTimer, TimerTrap, Wfi,
        Waiting, Step, GetMtime, ControlInv, Reads
  <2>2. ReadFirst => half' = High(Mtime)
    BY <1>3 DEF ReadFirst
  <2>. QED  BY <1>3, <1>4, <1>6, <2>1, <2>2
<1>9. Finished({"spin_until", "spin_ticks"})' => tgt' <= now'
  <2>1. ASSUME pc' = "done", call' \in {"spin_until", "spin_ticks"}  PROVE SpinDone
    BY <2>1 DEF Next, Begin, ReadFirst, ReadSecond, AddTicks, SpinAgain, CaptureStart, CaptureEnd,
        FreqDone, SleepReturn, SleepArm, SetMtimecmpHigh, SetMtimecmpLow, EnableTimer, TimerTrap, Wfi,
        Waiting, Step, GetMtime, ControlInv, Within, Reads
  <2>2. SpinDone => tgt' <= now'
    BY DEF SpinDone, NumberInv
  <2>. QED  BY <2>1, <2>2 DEF Finished
<1>. QED  BY <1>7, <1>8, <1>9

------------------------------------------------------------------------------
(* clint_get_core_freq.  A step of the hart while mtime does not carry.    *)
Sets == {"first", "second", "freq_0", "freq_started", "freq_ended"}
MayMeasure == pc \in Sets \/ Finished({"core_freq"})

CalmStep == NumberInv /\ ControlInv /\ Calm /\ Measuring /\ Elapses /\ NumberInv'

LEMMA CalmFacts ==
  ASSUME CalmStep
  PROVE  /\ cycle \in Nat /\ cycle' \in Nat /\ cycle < cycle' /\ cycle' <= cycle + MaxStall
         /\ now \in Nat /\ now' \in Nat /\ half \in Nat /\ half' \in Nat
         /\ meas.start_mcycle \in Nat /\ meas.end_mcycle \in Nat
         /\ meas.start_mtime \in Nat /\ meas.end_mtime \in Nat
         /\ meas'.start_mcycle \in Nat /\ meas'.end_mcycle \in Nat
         /\ meas'.start_mtime \in Nat /\ meas'.end_mtime \in Nat
         /\ MaxStall \in Nat /\ MaxStall >= 1 /\ Twice = MaxStall + MaxStall /\ Twice \in Nat
         /\ order' = order /\ order \in {"high_first", "low_first"}
         /\ Before' = Before /\ Behind' = Behind /\ Before \in Nat /\ Behind \in Nat
         /\ High(epoch.time) = High(Mtime)
BY Sizes, ClintAssumption
   DEF CalmStep, NumberInv, Elapses, timer, Twice, Before, Behind, Calm

LEMMA EdgePrimes ==
  ASSUME CalmStep
  PROVE  /\ Edge(now)' = Edge(now') /\ Edge(now + 1)' = Edge(now' + 1)
         /\ Edge(Reading)' = Edge(Reading') /\ Edge(Reading + 1)' = Edge(Reading' + 1)
         /\ Edge(meas.start_mtime)' = Edge(meas'.start_mtime)
         /\ Edge(meas.end_mtime)' = Edge(meas'.end_mtime)
         /\ Edge(meas.end_mtime + 1)' = Edge(meas'.end_mtime + 1)
         /\ Edge(Goal)' = Edge(Goal')
         /\ Reading' = HalfRange * High(epoch.time) + half'
         /\ Goal' = meas'.start_mtime + (IF NumTicks = 0 THEN 1 ELSE NumTicks)
BY DEF CalmStep, Elapses, timer, Edge, Reading, Goal, High

LEMMA EdgeInts ==
  ASSUME NumberInv
  PROVE  \A t \in Int : Edge(t) \in Int /\ (\A u \in Int : t <= u => Edge(t) <= Edge(u))
BY EdgeOrder

\* A step that leaves the measurement alone.
LEMMA AwayStep ==
  ASSUME CalmStep,
         ~MayMeasure' \/ (pc' = "first" /\ ret' \notin {"freq_started", "freq_ended"})
  PROVE  Measuring'
BY DEF MayMeasure, Sets, Finished, Measuring, ReadingInv, RoundInv, StartInv, EndInv, DoneInv, Heading

LEMMA ReadFirstStep ==
  ASSUME CalmStep, ReadFirst
  PROVE  Measuring'
<1>1. /\ pc = "first" /\ pc' = "second" /\ ret' = ret /\ meas' = meas /\ now' = now /\ call' = call
      /\ half' = IF order = "high_first" THEN High(Mtime) ELSE Low(Mtime)
  BY DEF ReadFirst, Step
<1>2. /\ Mtime \in Nat /\ Edge(Mtime) <= cycle /\ Edge(Mtime + 1) > cycle
      /\ High(Mtime) \in Nat /\ Low(Mtime) \in 0 .. HalfRange - 1
      /\ HalfRange * High(Mtime) = High(Mtime) * HalfRange
      /\ Mtime = High(Mtime) * HalfRange + Low(Mtime)
  BY MtimeFacts, HalfFacts DEF CalmStep
<1>3. order = "low_first" => Reading' = Mtime /\ half' < HalfRange
  <2>1. order = "low_first" => half' = Low(Mtime)
    BY <1>1
  <2>2. Reading' = HalfRange * High(Mtime) + half'
    BY CalmFacts, EdgePrimes
  <2>. QED  BY <1>2, <2>1, <2>2, Sizes
<1>4. Edge(Mtime) \in Int /\ Edge(Mtime + 1) \in Int
  BY <1>2, EdgeInts DEF CalmStep
<1>5. ReadingInv'
  <2>1. order = "high_first" => half' = High(epoch.time)'
    <3>1. High(epoch.time)' = High(epoch.time)
      BY DEF CalmStep, Elapses, timer, High
    <3>. QED  BY <1>1, <3>1, CalmFacts
  <2>2. order = "low_first" => Edge(Reading') < cycle' /\ Edge(Reading' + 1) > cycle' - MaxStall
    BY <1>2, <1>3, <1>4, CalmFacts
  <2>. QED  BY <1>1, <1>3, <2>1, <2>2, CalmFacts, EdgePrimes DEF ReadingInv
<1>6. ASSUME NEW c \in Nat, NEW c1 \in Nat, NEW label \in {"freq_started", "freq_ended"},
             RoundInv(c, label), c1 = c, ret = label
      PROVE  /\ c < cycle' /\ cycle' <= c + Twice
             /\ order = "low_first" => Edge(Reading') <= c + Behind /\ Edge(Reading' + 1) > c
  <2>1. c < cycle /\ cycle <= c + MaxStall
    BY <1>1, <1>6 DEF RoundInv
  <2>2. order = "low_first" => Behind = MaxStall
    BY DEF Behind
  <2>. QED  BY <1>2, <1>3, <1>4, <2>1, <2>2, CalmFacts
<1>7. RoundInv(meas.start_mcycle, "freq_started")'
  BY <1>1, <1>6, CalmFacts, EdgePrimes DEF RoundInv, CalmStep, Measuring, Twice
<1>8. RoundInv(meas.end_mcycle, "freq_ended")'
  BY <1>1, <1>6, CalmFacts, EdgePrimes DEF RoundInv, CalmStep, Measuring, Twice
<1>9. /\ Edge(meas.start_mtime)' = Edge(meas.start_mtime) /\ Edge(meas.end_mtime)' = Edge(meas.end_mtime)
      /\ Edge(meas.end_mtime + 1)' = Edge(meas.end_mtime + 1) /\ Edge(Goal)' = Edge(Goal)
      /\ Before' = Before /\ Behind' = Behind
  BY <1>1, CalmFacts, EdgePrimes DEF Goal
<1>10. StartInv' /\ EndInv' /\ DoneInv'
  BY <1>1, <1>9 DEF CalmStep, Measuring, StartInv, EndInv, DoneInv, Heading, Finished, Twice
<1>. QED  BY <1>5, <1>7, <1>8, <1>10 DEF Measuring

LEMMA ReadSecondStep ==
  ASSUME CalmStep, ReadSecond
  PROVE  Measuring'
<1>1. /\ pc = "second" /\ pc' = ret /\ ret' = ret /\ meas' = meas /\ half' = half /\ call' = call
      /\ now' = IF order = "high_first" THEN half * HalfRange + Low(Mtime) ELSE High(Mtime) * HalfRange + half
      /\ ret \in Reads
  BY DEF ReadSecond, Step, CalmStep, ControlInv
<1>2. /\ Mtime \in Nat /\ Edge(Mtime) <= cycle /\ Edge(Mtime + 1) > cycle
      /\ HalfRange * High(Mtime) = High(Mtime) * HalfRange
      /\ Mtime = High(Mtime) * HalfRange + Low(Mtime)
  BY MtimeFacts, HalfFacts DEF CalmStep
<1>3. /\ order = "high_first" => now' = Mtime
      /\ order = "low_first" => now' = Reading
  BY <1>1, <1>2, CalmFacts DEF CalmStep, Measuring, ReadingInv, Reading
<1>4. Edge(Mtime) \in Int /\ Edge(Mtime + 1) \in Int /\ Edge(now') \in Int /\ Edge(now' + 1) \in Int
  BY <1>2, EdgeInts, CalmFacts DEF CalmStep
<1>5. Edge(now') < cycle' /\ Edge(now' + 1) > cycle' - Before
  <2>1. order = "high_first" => Before = MaxStall
    BY DEF Before
  <2>2. order = "low_first" => /\ Before = MaxStall + MaxStall
                              /\ Edge(Reading) < cycle /\ Edge(Reading + 1) > cycle - MaxStall
    BY <1>1 DEF Before, Twice, CalmStep, Measuring, ReadingInv
  <2>. QED  BY <1>2, <1>3, <1>4, <2>1, <2>2, CalmFacts
<1>6. ASSUME NEW c \in Nat, NEW label \in {"freq_started", "freq_ended"}, RoundInv(c, label), ret = label
      PROVE  /\ c < cycle' /\ cycle' <= c + Twice + MaxStall
             /\ Edge(now') <= c + Behind /\ Edge(now' + 1) > c
  <2>1. /\ c < cycle /\ cycle <= c + Twice
        /\ order = "low_first" => Edge(Reading) <= c + Behind /\ Edge(Reading + 1) > c
    BY <1>1, <1>6 DEF RoundInv
  <2>2. order = "high_first" => Behind = Twice
    BY DEF Behind
  <2>. QED  BY <1>2, <1>3, <1>4, <2>1, <2>2, CalmFacts
<1>7. ReadingInv'
  BY <1>1, <1>5, CalmFacts, EdgePrimes DEF ReadingInv, Reads
<1>8. RoundInv(meas.start_mcycle, "freq_started")'
  BY <1>1, <1>6, CalmFacts, EdgePrimes DEF RoundInv, CalmStep, Measuring, Twice, Reads
<1>9. RoundInv(meas.end_mcycle, "freq_ended")'
  BY <1>1, <1>6, CalmFacts, EdgePrimes DEF RoundInv, CalmStep, Measuring, Twice, Reads
<1>10. /\ Edge(meas.start_mtime)' = Edge(meas.start_mtime) /\ Edge(meas.end_mtime)' = Edge(meas.end_mtime)
      /\ Edge(meas.end_mtime + 1)' = Edge(meas.end_mtime + 1) /\ Edge(Goal)' = Edge(Goal)
      /\ Before' = Before /\ Behind' = Behind
  BY <1>1, CalmFacts, EdgePrimes DEF Goal
<1>11. StartInv' /\ EndInv' /\ DoneInv'
  BY <1>1, <1>10 DEF CalmStep, Measuring, StartInv, EndInv, DoneInv, Heading, Finished, Twice, Reads
<1>. QED  BY <1>7, <1>8, <1>9, <1>11 DEF Measuring

LEMMA CaptureStartStep ==
  ASSUME CalmStep, CaptureStart
  PROVE  Measuring'
<1>1. /\ pc \in {"freq_0", "freq_started"} /\ pc' = "first" /\ ret' = "freq_started"
      /\ now' = now /\ call' = call
  BY DEF CaptureStart, GetMtime, Step
<1>2. meas'.start_mcycle = cycle /\ meas'.end_mtime = now
  BY DEF CaptureStart, CalmStep, NumberInv
<1>3. Edge(now) < cycle /\ Edge(now + 1) > cycle - Before
  BY <1>1 DEF CalmStep, Measuring, ReadingInv
<1>4. Edge(now) \in Int /\ Edge(now + 1) \in Int
  BY EdgeInts, CalmFacts DEF CalmStep
<1>5. RoundInv(meas.start_mcycle, "freq_started")'
  BY <1>1, <1>2, CalmFacts DEF RoundInv
<1>6. StartInv'
  <2>1. Edge(meas.end_mtime)' = Edge(now) /\ Edge(meas.end_mtime + 1)' = Edge(now + 1)
    BY <1>2, EdgePrimes
  <2>. QED  BY <1>2, <1>3, <1>4, <2>1, CalmFacts DEF StartInv
<1>7. ReadingInv' /\ RoundInv(meas.end_mcycle, "freq_ended")' /\ EndInv' /\ DoneInv'
  BY <1>1 DEF ReadingInv, RoundInv, EndInv, DoneInv, Heading, Finished
<1>. QED  BY <1>5, <1>6, <1>7 DEF Measuring

(* The first tick seen is the edge between the last reading before it and  *)
(* this one; a reading that is short of the goal is one short of it.       *)
LEMMA CaptureEndStep ==
  ASSUME CalmStep, CaptureEnd
  PROVE  Measuring'
<1>1. /\ pc' = "first" /\ ret' = "freq_ended" /\ now' = now /\ call' = call
      /\ \/ pc = "freq_started" /\ now # meas.end_mtime
         \/ pc = "freq_ended" /\ now < meas.start_mtime + NumTicks
  BY DEF CaptureEnd, GetMtime, Step
<1>2. /\ meas'.end_mcycle = cycle /\ meas'.start_mcycle = meas.start_mcycle
      /\ meas'.start_mtime = IF pc = "freq_started" THEN now ELSE meas.start_mtime
  BY DEF CaptureEnd, CalmStep, NumberInv
<1>3. Edge(now) < cycle /\ Edge(now + 1) > cycle - Before
  BY <1>1 DEF CalmStep, Measuring, ReadingInv
<1>. DEFINE goal == meas'.start_mtime + (IF NumTicks = 0 THEN 1 ELSE NumTicks)
            mt == meas'.start_mtime
<1>4. /\ NumTicks \in Nat /\ goal \in Nat /\ mt \in Nat
      /\ NumberInv
  BY CalmFacts, ClintAssumption DEF CalmStep
<1>5. /\ Edge(now) \in Int /\ Edge(now + 1) \in Int /\ Edge(goal) \in Int /\ Edge(mt) \in Int
      /\ Edge(meas.start_mtime) \in Int /\ Edge(meas.end_mtime + 1) \in Int
  BY <1>4, EdgeInts, CalmFacts
<1>6. /\ Edge(mt) > meas.start_mcycle - Before /\ Edge(mt) <= meas.start_mcycle + Behind
      /\ Edge(mt) <= cycle
      /\ Edge(goal) > cycle - Before
      /\ NumTicks = 0 => cycle <= meas.start_mcycle + Twice + MaxStall
  <2>1. CASE pc = "freq_started" /\ now # meas.end_mtime
    <3>1. /\ meas.start_mcycle < cycle /\ cycle <= meas.start_mcycle + Twice + MaxStall
          /\ Edge(now) <= meas.start_mcycle + Behind /\ Edge(now + 1) > meas.start_mcycle
      BY <2>1 DEF CalmStep, Measuring, RoundInv
    <3>2. Edge(meas.end_mtime) <= meas.start_mcycle /\ Edge(meas.end_mtime + 1) > meas.start_mcycle - Before
      BY <2>1 DEF CalmStep, Measuring, StartInv, Heading
    <3>3. now >= meas.end_mtime + 1
      <4>1. now + 1 <= meas.end_mtime => Edge(now + 1) <= Edge(meas.end_mtime)
        BY <1>4, EdgeInts, CalmFacts
      <4>2. Edge(meas.end_mtime) \in Int
        BY <1>4, EdgeInts, CalmFacts
      <4>3. ~(now + 1 <= meas.end_mtime)
        BY <1>5, <3>1, <3>2, <4>1, <4>2, CalmFacts
      <4>. QED  BY <2>1, <4>3, CalmFacts
    <3>4. Edge(now) > meas.start_mcycle - Before
      <4>1. Edge(meas.end_mtime + 1) <= Edge(now)
        BY <1>4, <3>3, EdgeInts, CalmFacts
      <4>. QED  BY <1>5, <3>2, <4>1, CalmFacts
    <3>5. mt = now /\ now + 1 <= goal
      BY <1>2, <1>4, <2>1, CalmFacts
    <3>6. Edge(now + 1) <= Edge(goal)
      BY <1>4, <3>5, EdgeInts, CalmFacts
    <3>. QED  BY <1>3, <1>5, <3>1, <3>4, <3>5, <3>6, CalmFacts
  <2>2. CASE pc = "freq_ended" /\ now < meas.start_mtime + NumTicks
    <3>1. /\ meas.end_mcycle < cycle /\ Edge(now + 1) > meas.end_mcycle
      BY <2>2 DEF CalmStep, Measuring, RoundInv
    <3>2. /\ Edge(meas.start_mtime) > meas.start_mcycle - Before
          /\ Edge(meas.start_mtime) <= meas.start_mcycle + Behind
          /\ Edge(meas.start_mtime) <= meas.end_mcycle
      BY <2>2 DEF CalmStep, Measuring, EndInv, Heading
    <3>3. mt = meas.start_mtime
      BY <1>2, <2>2
    <3>4. now >= meas.start_mtime
      <4>1. now + 1 <= meas.start_mtime => Edge(now + 1) <= Edge(meas.start_mtime)
        BY <1>4, EdgeInts, CalmFacts
      <4>. QED  BY <1>5, <3>1, <3>2, <4>1, CalmFacts
    <3>5. NumTicks # 0 /\ now + 1 <= goal
      BY <1>4, <2>2, <3>3, <3>4, CalmFacts
    <3>6. Edge(now + 1) <= Edge(goal)
      BY <1>4, <3>5, EdgeInts, CalmFacts
    <3>. QED  BY <1>3, <1>5, <3>1, <3>2, <3>3, <3>5, <3>6, CalmFacts
  <2>. QED  BY <1>1, <2>1, <2>2
<1>7. EndInv'
  <2>1. Edge(meas.start_mtime)' = Edge(mt) /\ Edge(Goal)' = Edge(goal)
    BY EdgePrimes
  <2>2. Twice' = Twice
    BY DEF Twice
  <2>. HIDE DEF mt, goal
  <2>. QED  BY <1>2, <1>6, <2>1, <2>2, CalmFacts DEF EndInv
<1>8. RoundInv(meas.end_mcycle, "freq_ended")'
  BY <1>1, <1>2, CalmFacts DEF RoundInv
<1>9. ReadingInv' /\ RoundInv(meas.start_mcycle, "freq_started")' /\ StartInv' /\ DoneInv'
  BY <1>1 DEF ReadingInv, RoundInv, StartInv, DoneInv, Heading, Finished
<1>. QED  BY <1>7, <1>8, <1>9 DEF Measuring

LEMMA FreqDoneStep ==
  ASSUME CalmStep, FreqDone
  PROVE  Measuring'
<1>1. /\ pc = "freq_ended" /\ pc' = "done" /\ now >= meas.start_mtime + NumTicks
      /\ now' = now /\ call' = call
  BY DEF FreqDone, Step
<1>2. /\ meas'.end_mcycle = meas.end_mcycle /\ meas'.start_mcycle = meas.start_mcycle
      /\ meas'.start_mtime = meas.start_mtime /\ meas'.end_mtime = now
  BY DEF FreqDone, CalmStep, NumberInv
<1>3. EndInv'
  <2>1. Edge(meas.start_mtime)' = Edge(meas.start_mtime) /\ Edge(Goal)' = Edge(Goal) /\ Twice' = Twice
    BY <1>2, EdgePrimes DEF Goal, Twice
  <2>2. Heading("freq_ended")
    BY <1>1 DEF Heading
  <2>3. EndInv
    BY DEF CalmStep, Measuring
  <2>. QED  BY <1>2, <2>1, <2>2, <2>3, CalmFacts DEF EndInv
<1>4. DoneInv'
  <2>1. Edge(meas.end_mtime)' = Edge(now)
    BY <1>2, EdgePrimes
  <2>2. Edge(now) <= meas.end_mcycle + Behind
    BY <1>1 DEF CalmStep, Measuring, RoundInv
  <2>. QED  BY <1>1, <1>2, <2>1, <2>2, CalmFacts DEF DoneInv
<1>5. /\ ReadingInv' /\ StartInv'
      /\ RoundInv(meas.start_mcycle, "freq_started")' /\ RoundInv(meas.end_mcycle, "freq_ended")'
  BY <1>1 DEF ReadingInv, RoundInv, StartInv, Heading
<1>. QED  BY <1>3, <1>4, <1>5 DEF Measuring

LEMMA FreqStep ==
  ASSUME NumberInv, ControlInv, FreqInv, Next
  PROVE  FreqInv'
<1>1. SUFFICES ASSUME Calm' PROVE Measuring'
  BY DEF FreqInv
<1>2. CalmStep
  <2>1. Elapses
    BY NextElapses
  <2>2. Calm
    BY <1>1, <2>1, MtimeGrows
  <2>. QED  BY <2>1, <2>2, NumberStep DEF CalmStep, FreqInv
<1>3. CASE ReadFirst
  BY <1>2, <1>3, ReadFirstStep
<1>4. CASE ReadSecond
  BY <1>2, <1>4, ReadSecondStep
<1>5. CASE CaptureStart \/ CaptureEnd \/ FreqDone
  BY <1>2, <1>5, CaptureStartStep, CaptureEndStep, FreqDoneStep
<1>. DEFINE Away == ~MayMeasure' \/ (pc' = "first" /\ ret' \notin {"freq_started", "freq_ended"})
<1>6. ASSUME NEW c \in Calls, NEW n \in Ticks, Begin(c, n)  PROVE Away
  BY <1>6 DEF Begin, GetMtime, Step
<1>7. ASSUME AddTicks \/ SpinAgain \/ SpinDone \/ SleepReturn \/ SleepArm  PROVE Away
  BY <1>7 DEF AddTicks, SpinAgain, SpinDone, SleepReturn, SleepArm, GetMtime, Step, MayMeasure, Sets,
              Finished, ControlInv, Within
<1>8. ASSUME SetMtimecmpHigh \/ SetMtimecmpLow \/ EnableTimer \/ TimerTrap \/ Wfi \/ Waiting
      PROVE  Away
  BY <1>8 DEF SetMtimecmpHigh, SetMtimecmpLow, EnableTimer, TimerTrap, Wfi, Waiting, Step, MayMeasure,
              Sets, Finished, ControlInv, Within
<1>9. Away => Measuring'
  BY <1>2, AwayStep
<1>. QED  BY <1>3, <1>4, <1>5, <1>6, <1>7, <1>8, <1>9 DEF Next

------------------------------------------------------------------------------
(* The theorems.                                                           *)
LEMMA InitialClint == Init => ClintInv
<1>. SUFFICES ASSUME Init PROVE ClintInv
  OBVIOUS
<1>1. NumberInv /\ ControlInv /\ ArmInv
  BY InitialInv
<1>2. SpinInv
  <2>1. Mtime \in Nat
    BY <1>1, MtimeFacts
  <2>. QED  BY <2>1 DEF Init, SpinInv, Finished
<1>3. FreqInv
  BY DEF Init, FreqInv, Measuring, ReadingInv, RoundInv, StartInv, EndInv, DoneInv, Heading, Finished
<1>. QED  BY <1>1, <1>2, <1>3 DEF ClintInv

LEMMA ClintStep == ClintInv /\ [Next]_vars => ClintInv'
<1>. SUFFICES ASSUME ClintInv, [Next]_vars PROVE ClintInv'
  OBVIOUS
<1>1. CASE Next
  BY <1>1, NumberStep, ControlStep, ArmStep, SpinStep, FreqStep DEF ClintInv
<1>2. CASE UNCHANGED vars
  <2>. USE <1>2 DEF vars
  <2>1. NumberInv' /\ ControlInv' /\ ArmInv'
    BY DEF ClintInv, NumberInv, ControlInv, Within, ArmInv, High
  <2>2. Mtime' = Mtime /\ High(Mtime)' = High(Mtime) /\ High(epoch.time)' = High(epoch.time)
    BY DEF Mtime, MtimeAt, High
  <2>3. SpinInv'
    BY <2>2 DEF ClintInv, SpinInv, Finished
  <2>4. FreqInv'
    BY <2>2 DEF ClintInv, FreqInv, Calm, Measuring, ReadingInv, RoundInv, StartInv, EndInv, DoneInv, Heading,
                Finished, Edge, Reading, Goal, Before, Behind, Twice
  <2>. QED  BY <2>1, <2>3, <2>4 DEF ClintInv
<1>. QED  BY <1>1, <1>2

(* A sleep's comparator holds the whole of its target before the timer     *)
(* interrupt can be taken, for every range of its halves.                  *)
THEOREM ComparatorWhole == Spec => []ArmedForTarget
<1>1. ClintInv => ArmedForTarget
  BY DEF ClintInv, ArmInv, ArmedForTarget
<1>. QED  BY <1>1, InitialClint, ClintStep, PTL DEF Spec

(* In a build that reads the high half first no spin ends before its       *)
(* target, for every range of the halves and every carry between them.     *)
THEOREM SpinsLongEnough == Orders = {"high_first"} => (Spec => []SpinNotEarly)
<1>. SUFFICES ASSUME Orders = {"high_first"}
              PROVE  Spec => []SpinNotEarly
  OBVIOUS
<1>1. ClintInv => SpinNotEarly
  <2>. SUFFICES ASSUME ClintInv, Finished({"spin_until", "spin_ticks"})
                PROVE  Mtime >= tgt
    BY DEF SpinNotEarly
  <2>1. order = "high_first" /\ Mtime \in Nat /\ now \in Nat /\ tgt \in Nat
    BY MtimeFacts DEF ClintInv, NumberInv
  <2>. QED  BY <2>1 DEF ClintInv, SpinInv
<1>. QED  BY <1>1, InitialClint, ClintStep, PTL DEF Spec

(* For both orders, every ratio of the clocks and every stall, the         *)
(* measured frequency is right up to one polling round.                    *)
THEOREM MeasuresRight == Spec => []FreqAccurate
<1>1. ClintInv => FreqAccurate
  <2>. SUFFICES ASSUME ClintInv, Finished({"core_freq"}), High(epoch.time) = High(Mtime)
                PROVE  LET cycles == meas.end_mcycle - meas.start_mcycle
                           ticks  == meas.end_mtime - meas.start_mtime
                           round  == 3 * MaxStall
                       IN  /\ ticks >= NumTicks
                           /\ cycles - ticks * CyclesPerTick \in -round .. round
    BY DEF FreqAccurate
  <2>. DEFINE ticks == meas.end_mtime - meas.start_mtime
              start == Edge(meas.start_mtime)
              end == Edge(meas.end_mtime)
              scaled == ticks * CyclesPerTick
  <2>1. NumberInv /\ Measuring
    BY DEF ClintInv, FreqInv, Calm
  <2>2. /\ meas.start_mcycle \in Nat /\ meas.end_mcycle \in Nat
        /\ meas.start_mtime \in Nat /\ meas.end_mtime \in Nat
        /\ order \in {"high_first", "low_first"}
        /\ NumTicks \in Nat /\ CyclesPerTick \in Nat /\ MaxStall \in Nat
    BY <2>1, Sizes, ClintAssumption DEF NumberInv
  <2>3. /\ start > meas.start_mcycle - Before /\ start <= meas.start_mcycle + Behind
        /\ start <= meas.end_mcycle
        /\ Edge(Goal) > meas.end_mcycle - Before
        /\ NumTicks = 0 => meas.end_mcycle <= meas.start_mcycle + Twice + MaxStall
        /\ end <= meas.end_mcycle + Behind /\ meas.end_mtime >= meas.start_mtime + NumTicks
    BY <2>1 DEF Measuring, EndInv, DoneInv
  <2>4. /\ Before \in Nat /\ Behind \in Nat /\ Before + Behind = 3 * MaxStall
        /\ Twice + MaxStall = 3 * MaxStall
    BY <2>2 DEF Before, Behind, Twice
  <2>5. start \in Int /\ end \in Int /\ end - start = scaled /\ ticks \in Nat
    <3>0. meas.start_mtime \in Int /\ meas.end_mtime \in Int /\ NumberInv
      BY <2>1, <2>2
    <3>1. /\ Edge(meas.start_mtime) \in Int /\ Edge(meas.end_mtime) \in Int
          /\ Edge(meas.end_mtime) - Edge(meas.start_mtime) = (meas.end_mtime - meas.start_mtime) * CyclesPerTick
      BY <3>0, EdgeOrder, Zenon
    <3>2. ticks \in Nat
      BY <2>2, <2>3
    <3>. QED  BY <3>1, <3>2
  <2>6. Goal \in Nat /\ Edge(Goal) \in Int /\ (Goal <= meas.end_mtime => Edge(Goal) <= end)
    <3>1. Goal \in Nat
      BY <2>2 DEF Goal
    <3>. QED  BY <2>1, <2>2, <3>1, EdgeInts
  <2>7. Goal > meas.end_mtime => NumTicks = 0 /\ ticks = 0
    BY <2>2, <2>3 DEF Goal
  <2>. HIDE DEF start, end
  <2>8. ticks >= NumTicks
    BY <2>2, <2>3
  <2>9. CASE Goal <= meas.end_mtime
    <3>. HIDE DEF scaled
    <3>1. scaled \in Int
      BY <2>5
    <3>2. meas.end_mcycle - meas.start_mcycle - scaled \in -(3 * MaxStall) .. 3 * MaxStall
      BY <2>2, <2>3, <2>4, <2>5, <2>6, <2>9, <3>1
    <3>. QED  BY <2>8, <3>2 DEF scaled
  <2>10. CASE Goal > meas.end_mtime
    <3>1. ticks = 0 /\ NumTicks = 0
      BY <2>7, <2>10
    <3>2. scaled = 0
      BY <2>2, <3>1
    <3>3. scaled \in Int /\ meas.end_mcycle - meas.start_mcycle - scaled = meas.end_mcycle - meas.start_mcycle
      BY <2>2, <3>2
    <3>. HIDE DEF scaled
    <3>4. /\ meas.end_mcycle <= meas.start_mcycle + 3 * MaxStall
          /\ meas.start_mcycle - Before < meas.end_mcycle
      <4>1. meas.end_mcycle <= meas.start_mcycle + Twice + MaxStall /\ Twice \in Nat
        BY <2>2, <2>3, <3>1 DEF Twice
      <4>2. meas.end_mcycle <= meas.start_mcycle + 3 * MaxStall
        BY <2>2, <2>4, <4>1
      <4>3. start \in Int /\ meas.start_mcycle - Before < start /\ start <= meas.end_mcycle
        BY <2>2, <2>3, <2>4, <2>5
      <4>4. meas.start_mcycle - Before < meas.end_mcycle
        BY <2>2, <2>4, <4>3
      <4>. QED  BY <4>2, <4>4
    <3>5. meas.end_mcycle - meas.start_mcycle \in -(3 * MaxStall) .. 3 * MaxStall
      BY <2>2, <2>4, <3>4
    <3>. QED  BY <2>8, <3>3, <3>5 DEF scaled
  <2>. QED  BY <2>2, <2>6, <2>9, <2>10
<1>. QED  BY <1>1, InitialClint, ClintStep, PTL DEF Spec

------------------------------------------------------------------------------
(* The registers' widths.                                                  *)
TypeInv == TypeOK /\ ClintInv /\ arg \in Ticks \cup {0}

LEMMA RangeFacts ==
  /\ MaxTime \in Nat
  /\ \A t \in 0 .. MaxTime : High(t) \in 0 .. HalfRange - 1 /\ Low(t) \in 0 .. HalfRange - 1
  /\ \A q, r \in 0 .. HalfRange - 1 : q * HalfRange + r \in 0 .. MaxTime
<1>1. HalfRange * HalfRange \in Nat /\ HalfRange * HalfRange >= 1
  BY Sizes, SMTT(20)
<1>2. MaxTime \in Nat /\ MaxTime + 1 = HalfRange * HalfRange
  BY <1>1 DEF MaxTime
<1>3. ASSUME NEW t \in 0 .. MaxTime
      PROVE  High(t) \in 0 .. HalfRange - 1 /\ Low(t) \in 0 .. HalfRange - 1
  <2>1. t \in Nat
    BY <1>2
  <2>2. High(t) \in Nat /\ Low(t) \in 0 .. HalfRange - 1
    BY <2>1, HalfFacts
  <2>3. HalfRange <= t \div HalfRange <=> HalfRange * HalfRange <= t
    BY <2>1, Sizes, QuotientBound
  <2>4. ~(HalfRange * HalfRange <= t)
    BY <1>1, <1>2
  <2>. QED  BY <2>2, <2>3, <2>4, Sizes DEF High
<1>4. ASSUME NEW q \in 0 .. HalfRange - 1, NEW r \in 0 .. HalfRange - 1
      PROVE  q * HalfRange + r \in 0 .. MaxTime
  <2>1. HalfRange * q \in Int /\ HalfRange * q + HalfRange <= HalfRange * HalfRange
    BY Sizes, ProductFacts
  <2>2. HalfRange * q = q * HalfRange /\ 0 <= HalfRange * q
    BY Sizes, SMTT(20)
  <2>. QED  BY <1>1, <1>2, <2>1, <2>2, Sizes
<1>. QED  BY <1>2, <1>3, <1>4

\* No time that is read lies behind the last one.
LEMMA TimeBound ==
  ASSUME TypeInv, NoWrap
  PROVE  /\ LastTime(epoch.time) \in Nat
         /\ Mtime \in Nat /\ Mtime <= LastTime(epoch.time)
         /\ \A n \in Ticks \cup {0} : n \in Nat /\ LastTime(epoch.time) + n <= MaxTime
<1>1. epoch.time \in StartTimes /\ epoch.time \in Nat /\ epoch.phase \in 0 .. CyclesPerTick - 1
      /\ cycle \in 0 .. MaxCycle /\ MaxCycle \in Nat
  BY ClintAssumption DEF TypeInv, TypeOK, ClintInv, NumberInv
<1>. DEFINE a == epoch.phase + cycle
            z == CyclesPerTick - 1 + MaxCycle
            q == a \div CyclesPerTick
<1>2. a \in Nat /\ z \in Nat /\ a <= z
  BY <1>1, Sizes
<1>3. q \in Int /\ CyclesPerTick * q <= a
  <2>1. q \in Int
    BY <1>2, Sizes, DivisionFacts
  <2>2. q <= a \div CyclesPerTick <=> CyclesPerTick * q <= a
    BY <1>2, <2>1, Sizes, QuotientBound
  <2>. QED  BY <2>1, <2>2
<1>4. z \div CyclesPerTick \in Int /\ (q <= z \div CyclesPerTick <=> CyclesPerTick * q <= z)
  <2>1. z \div CyclesPerTick \in Int
    BY <1>2, Sizes, DivisionFacts
  <2>. HIDE DEF q
  <2>2. q <= z \div CyclesPerTick <=> CyclesPerTick * q <= z
    BY <1>2, <1>3, Sizes, QuotientBound
  <2>. QED  BY <2>1, <2>2
<1>5. CyclesPerTick * q \in Int
  BY <1>3, Sizes, ProductFacts
<1>6. q <= z \div CyclesPerTick
  BY <1>2, <1>3, <1>4, <1>5
<1>7. Mtime = epoch.time + q /\ LastTime(epoch.time) = epoch.time + (z \div CyclesPerTick)
  BY DEF Mtime, MtimeAt, LastTime
<1>8. Mtime \in Nat
  BY MtimeFacts DEF TypeInv, ClintInv
<1>9. LastTime(epoch.time) \in Nat /\ Mtime <= LastTime(epoch.time)
  <2>. HIDE DEF q, z
  <2>. QED  BY <1>1, <1>3, <1>4, <1>6, <1>7, <1>8
<1>10. \A n \in Ticks \cup {0} : n \in Nat /\ LastTime(epoch.time) + n <= MaxTime
  BY <1>1, ClintAssumption DEF NoWrap
<1>. QED  BY <1>8, <1>9, <1>10

LEMMA TypeStep ==
  ASSUME TypeInv, NoWrap, Orders = {"high_first"}, [Next]_vars
  PROVE  TypeInv'
<1>1. CASE UNCHANGED vars
  BY <1>1, ClintStep DEF vars, TypeInv, TypeOK
<1>2. CASE Next
  <2>1. ClintInv' /\ order = "high_first" /\ order' \in Orders /\ order' = "high_first"
    BY ClintStep DEF TypeInv, ClintInv, NumberInv
  <2>2. cycle' \in 0 .. MaxCycle /\ epoch' = epoch /\ cycle' \in Nat
    <3>1. cycle' \in Nat /\ epoch' = epoch
      BY <1>2, NextElapses DEF TypeInv, ClintInv, Elapses, timer
    <3>2. cycle' <= MaxCycle
      BY <1>2, Sizes, ClintAssumption DEF Next, Begin, ReadFirst, ReadSecond, AddTicks, SpinAgain, SpinDone,
         CaptureStart, CaptureEnd, FreqDone, SleepReturn, SleepArm, SetMtimecmpHigh, SetMtimecmpLow,
         EnableTimer, TimerTrap, Wfi, Waiting, Step, GetMtime, TypeInv, ClintInv, NumberInv
    <3>. QED  BY <3>1, <3>2, ClintAssumption
  <2>3. /\ LastTime(epoch.time) \in Nat /\ Mtime \in Nat /\ Mtime <= LastTime(epoch.time)
        /\ \A n \in Ticks \cup {0} : n \in Nat /\ LastTime(epoch.time) + n <= MaxTime
    BY TimeBound
  <2>4. MaxTime \in Nat /\ Mtime \in 0 .. MaxTime /\ LastTime(epoch.time) <= MaxTime
    <3>1. LastTime(epoch.time) + 0 <= MaxTime
      BY <2>3
    <3>. QED  BY <2>3, <3>1, RangeFacts
  <2>5. now <= Mtime /\ now \in Nat /\ epoch.time \in Nat /\ epoch.time <= Mtime
    BY <2>1, MtimeFacts DEF TypeInv, ClintInv, NumberInv, SpinInv
  <2>6. half' \in 0 .. HalfRange - 1
    <3>1. High(Mtime) \in 0 .. HalfRange - 1
      BY <2>4, RangeFacts
    <3>2. half' = half \/ half' = High(Mtime)
      BY <1>2, <2>1 DEF Next, Begin, ReadFirst, ReadSecond, AddTicks, SpinAgain, SpinDone, CaptureStart,
        CaptureEnd, FreqDone, SleepReturn, SleepArm, SetMtimecmpHigh, SetMtimecmpLow, EnableTimer,
        TimerTrap, Wfi, Waiting
    <3>. QED  BY <3>1, <3>2 DEF TypeInv, TypeOK
  <2>7. now' \in 0 .. MaxTime
    <3>1. CASE ReadSecond
      <4>1. now' = half * HalfRange + Low(Mtime)
        BY <2>1, <3>1 DEF ReadSecond
      <4>2. half \in 0 .. HalfRange - 1 /\ Low(Mtime) \in 0 .. HalfRange - 1
        BY <2>4, RangeFacts DEF TypeInv, TypeOK
      <4>. QED  BY <4>1, <4>2, RangeFacts
    <3>2. CASE ~ReadSecond
      BY <1>2, <3>2 DEF Next, Begin, ReadFirst, AddTicks, SpinAgain, SpinDone, CaptureStart, CaptureEnd,
        FreqDone, SleepReturn, SleepArm, SetMtimecmpHigh, SetMtimecmpLow, EnableTimer, TimerTrap, Wfi,
        Waiting, TypeInv, TypeOK
    <3>. QED  BY <3>1, <3>2
  <2>8. arg' \in Ticks \cup {0} /\ tgt' \in 0 .. MaxTime
    <3>1. ASSUME NEW c \in Calls, NEW n \in Ticks, Begin(c, n)
          PROVE  arg' \in Ticks \cup {0} /\ tgt' \in 0 .. MaxTime
      <4>1. epoch.time + n \in 0 .. MaxTime
        BY <2>3, <2>4, <2>5
      <4>. QED  BY <3>1, <4>1 DEF Begin, TypeInv, TypeOK
    <3>2. CASE AddTicks
      <4>1. tgt' = now + arg /\ arg' = arg /\ arg \in Ticks \cup {0}
        BY <3>2 DEF AddTicks, TypeInv
      <4>2. now + arg \in 0 .. MaxTime
        BY <2>3, <2>4, <2>5, <4>1
      <4>. QED  BY <4>1, <4>2
    <3>3. CASE ~AddTicks /\ ~(\E c \in Calls, n \in Ticks : Begin(c, n))
      BY <1>2, <3>3 DEF Next, ReadFirst, ReadSecond, SpinAgain, SpinDone, CaptureStart, CaptureEnd,
        FreqDone, SleepReturn, SleepArm, SetMtimecmpHigh, SetMtimecmpLow, EnableTimer, TimerTrap, Wfi,
        Waiting, TypeInv, TypeOK
    <3>. QED  BY <3>1, <3>2, <3>3
  <2>9. arg' \in 0 .. MaxTime
    BY <2>3, <2>4, <2>8
  <2>10. cmp' \in 0 .. MaxTime
    <3>1. /\ High(tgt) \in 0 .. HalfRange - 1 /\ Low(tgt) \in 0 .. HalfRange - 1
          /\ High(cmp) \in 0 .. HalfRange - 1 /\ Low(cmp) \in 0 .. HalfRange - 1
      BY RangeFacts DEF TypeInv, TypeOK
    <3>2. \/ cmp' = cmp
          \/ cmp' = High(tgt) * HalfRange + Low(cmp) \/ cmp' = High(cmp) * HalfRange + Low(tgt)
      BY <1>2 DEF Next, Begin, ReadFirst, ReadSecond, AddTicks, SpinAgain, SpinDone, CaptureStart,
        CaptureEnd, FreqDone, SleepReturn, SleepArm, SetMtimecmpHigh, SetMtimecmpLow, EnableTimer,
        TimerTrap, Wfi, Waiting, irq
    <3>. QED  BY <3>1, <3>2, RangeFacts DEF TypeInv, TypeOK
  <2>11. meas' \in Capture
    <3>1. now \in 0 .. MaxTime /\ cycle \in 0 .. MaxCycle /\ meas \in Capture
      BY DEF TypeInv, TypeOK
    <3>2. CASE CaptureStart \/ CaptureEnd \/ FreqDone
      BY <3>1, <3>2 DEF CaptureStart, CaptureEnd, FreqDone, Capture
    <3>3. CASE ~(CaptureStart \/ CaptureEnd \/ FreqDone)
      BY <1>2, <3>1, <3>3 DEF Next, Begin, ReadFirst, ReadSecond, AddTicks, SpinAgain, SpinDone,
        SleepReturn, SleepArm, SetMtimecmpHigh, SetMtimecmpLow, EnableTimer, TimerTrap, Wfi, Waiting
    <3>. QED  BY <3>2, <3>3
  <2>. QED
    BY <2>1, <2>2, <2>6, <2>7, <2>8, <2>9, <2>10, <2>11
    DEF TypeInv, TypeOK, ClintInv, NumberInv, ControlInv
<1>. QED  BY <1>1, <1>2

(* In a build that reads the high half first every number fits its         *)
(* register, as long as mtime itself does not wrap.                        *)
THEOREM ClintTyped == NoWrap /\ Orders = {"high_first"} => (Spec => []TypeOK)
<1>. SUFFICES ASSUME NoWrap, Orders = {"high_first"}
              PROVE  Spec => []TypeOK
  OBVIOUS
<1>1. Init => TypeInv
  <2>. SUFFICES ASSUME Init PROVE TypeInv
    OBVIOUS
  <2>1. ClintInv
    BY InitialClint
  <2>2. MaxTime \in Nat /\ MaxCycle \in Nat
    BY RangeFacts, ClintAssumption
  <2>3. 0 \in 0 .. MaxTime /\ 0 \in 0 .. MaxCycle /\ 0 \in 0 .. HalfRange - 1
    BY <2>2, Sizes
  <2>4. meas \in Capture
    BY <2>3 DEF Init, Capture
  <2>5. pc \in Labels /\ ret \in Labels
    BY DEF Init, Labels
  <2>6. TypeOK
    BY <2>3, <2>4, <2>5 DEF Init, TypeOK
  <2>. QED  BY <2>1, <2>6 DEF Init, TypeInv
<1>2. TypeInv /\ [Next]_vars => TypeInv'
  BY TypeStep
<1>3. TypeInv => TypeOK
  BY DEF TypeInv
<1>. QED  BY <1>1, <1>2, <1>3, PTL DEF Spec
==============================================================================
