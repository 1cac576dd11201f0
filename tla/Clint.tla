-------------------------------- MODULE Clint --------------------------------
(***************************************************************************)
(* The CLINT timer as software uses it: mtime is 64 bits wide and read as  *)
(* two 32-bit registers while it keeps counting; the spin loops poll it,   *)
(* clint_get_core_freq measures the core clock against it, and             *)
(* clint_sleep_until waits for the timer interrupt.                        *)
(*                                                                         *)
(* Every step of the hart takes 1 to MaxStall core cycles, and mtime ticks *)
(* once every CyclesPerTick of them.  One call is made at a time.          *)
(***************************************************************************)
EXTENDS Integers, FiniteSets

CONSTANTS
  HalfRange,      (* Values of one half of mtime; 2^32 in the hardware.     *)
  CyclesPerTick,  (* Core clock cycles per tick of the real-time clock.     *)
  MaxStall,       (* Bound: cycles one step of the hart may take.           *)
  MaxCycle,       (* Bound: cycles a behaviour runs for.                    *)
  StartTimes,     (* Values of mtime when the behaviour starts.             *)
  Orders,         (* Orders in which the build may read the halves of mtime;*)
                  (* C leaves the order of the operands of | open.          *)
  Calls,          (* Functions the software calls.                          *)
  Ticks,          (* Arguments of clint_spin_ticks and clint_sleep_ticks.   *)
  NumTicks        (* ref_freq / ref_time_inv, the measurement's length.     *)

ASSUME ClintAssumption ==
  /\ HalfRange \in Nat \ {0} /\ CyclesPerTick \in Nat \ {0}
  /\ MaxStall \in Nat \ {0} /\ MaxCycle \in Nat
  /\ StartTimes \subseteq Nat /\ Ticks \subseteq Nat
  /\ NumTicks \in Nat
  /\ Orders \subseteq {"high_first", "low_first"}
  /\ Calls \subseteq {"spin_until", "spin_ticks", "sleep_until", "sleep_ticks", "core_freq"}

VARIABLES
  cycle,   (* mcycle.                                                    *)
  epoch,   (* mtime when cycle was 0, and the phase of the RTC.          *)
  call,    (* The function being executed.                               *)
  pc,      (* Where in it the hart is.                                   *)
  order,   (* The order in which this build reads mtime.                 *)
  half,    (* The half of mtime read first.                              *)
  ret,     (* Where clint_get_mtime returns to.                          *)
  now,     (* What it returned.                                          *)
  arg,     (* The number of ticks or the target the caller gave.         *)
  tgt,     (* The target of a spin or a sleep.                           *)
  meas,    (* The capture variables of clint_get_core_freq.              *)
  cmp,     (* mtimecmp of the hart.                                      *)
  mtie,    (* mie.MTIE.                                                  *)
  mie      (* mstatus.MIE.                                               *)

vars == <<cycle, epoch, call, pc, order, half, ret, now, arg, tgt, meas, cmp, mtie, mie>>
timer == <<epoch, order>>
irq == <<cmp, mtie, mie>>

MtimeAt(c) == epoch.time + (epoch.phase + c) \div CyclesPerTick
Mtime == MtimeAt(cycle)
High(t) == t \div HalfRange
Low(t) == t % HalfRange
MaxTime == HalfRange * HalfRange - 1

\* Premise of a proof: mtime does not wrap around, nor does the sum of a
\* time and an argument.
LastTime(t) == t + ((CyclesPerTick - 1 + MaxCycle) \div CyclesPerTick)
NoWrap == \A t \in StartTimes : \A n \in Ticks \cup {0} : LastTime(t) + n <= MaxTime

Capture == [start_mcycle : 0 .. MaxCycle, start_mtime : 0 .. MaxTime,
            end_mcycle : 0 .. MaxCycle, end_mtime : 0 .. MaxTime]

Labels == {"idle", "first", "second", "add", "poll", "check", "set_high", "set_low",
           "set_mtie", "set_mie", "wfi", "waiting", "freq_0", "freq_started",
           "freq_ended", "done"}

TypeOK ==
  /\ cycle \in 0 .. MaxCycle
  /\ epoch \in [time : StartTimes, phase : 0 .. CyclesPerTick - 1]
  /\ call \in Calls \cup {"none"}
  /\ pc \in Labels
  /\ order \in Orders
  /\ half \in 0 .. HalfRange - 1
  /\ ret \in Labels
  /\ now \in 0 .. MaxTime
  /\ {arg, tgt} \subseteq 0 .. MaxTime
  /\ meas \in Capture
  /\ cmp \in 0 .. MaxTime
  /\ {mtie, mie} \subseteq BOOLEAN

Init ==
  /\ cycle = 0
  /\ epoch \in [time : StartTimes, phase : 0 .. CyclesPerTick - 1]
  /\ order \in Orders
  /\ call = "none" /\ pc = "idle" /\ ret = "idle"
  /\ half = 0 /\ now = 0 /\ arg = 0 /\ tgt = 0
  /\ meas = [start_mcycle |-> 0, start_mtime |-> 0, end_mcycle |-> 0, end_mtime |-> 0]
  /\ cmp = 0 /\ mtie = FALSE /\ mie = FALSE

\* One step of the hart, from one label to the next.
Step(from, to) ==
  /\ pc = from
  /\ pc' = to
  /\ \E d \in 1 .. MaxStall : cycle + d <= MaxCycle /\ cycle' = cycle + d
  /\ UNCHANGED timer

\* A call of clint_get_mtime that comes back at label `to`.
GetMtime(from, to) == Step(from, "first") /\ ret' = to

------------------------------------------------------------------------------
(* clint_get_mtime: two loads, put together.                               *)
ReadFirst ==
  /\ Step("first", "second")
  /\ half' = IF order = "high_first" THEN High(Mtime) ELSE Low(Mtime)
  /\ UNCHANGED <<call, ret, now, arg, tgt, meas, irq>>

\* Wrong version: the high half is shifted twice as far as it should be.
ReadSecondWide ==
  /\ Step("second", ret)
  /\ now' = half * HalfRange * HalfRange + Low(Mtime)
  /\ UNCHANGED <<call, half, ret, arg, tgt, meas, irq>>

ReadSecond ==
  /\ Step("second", ret)
  /\ now' = IF order = "high_first" THEN half * HalfRange + Low(Mtime)
                                    ELSE High(Mtime) * HalfRange + half
  /\ UNCHANGED <<call, half, ret, arg, tgt, meas, irq>>

(* A caller of this file's functions: ticks are added to the time it reads,*)
(* a target is used as it is.                                              *)
Begin(c, n) ==
  /\ pc \in {"idle", "done"}
  /\ call' = c
  /\ \/ /\ c \in {"spin_ticks", "sleep_ticks"} /\ GetMtime(pc, "add")
        /\ arg' = n /\ tgt' = tgt
     \/ /\ c \in {"spin_until", "sleep_until"}
        /\ GetMtime(pc, IF c = "spin_until" THEN "poll" ELSE "check")
        /\ arg' = n /\ tgt' = epoch.time + n
     \/ /\ c = "core_freq" /\ GetMtime(pc, "freq_0")
        /\ UNCHANGED <<arg, tgt>>
  /\ UNCHANGED <<half, now, meas, irq>>

AddTicks ==
  /\ GetMtime("add", IF call = "spin_ticks" THEN "poll" ELSE "check")
  /\ tgt' = now + arg
  /\ UNCHANGED <<call, half, now, arg, meas, irq>>

------------------------------------------------------------------------------
(* clint_spin_until                                                        *)
SpinAgain ==
  /\ now < tgt
  /\ GetMtime("poll", "poll")
  /\ UNCHANGED <<call, half, now, arg, tgt, meas, irq>>

\* Wrong version: a spin ends one tick early.
SpinDoneEarly ==
  /\ now + 1 >= tgt
  /\ Step("poll", "done")
  /\ UNCHANGED <<call, half, ret, now, arg, tgt, meas, irq>>

SpinDone ==
  /\ now >= tgt
  /\ Step("poll", "done")
  /\ UNCHANGED <<call, half, ret, now, arg, tgt, meas, irq>>

------------------------------------------------------------------------------
(* clint_get_core_freq: wait for a tick, then for NumTicks more.  Each     *)
(* capture reads mcycle before it reads mtime.                             *)
\* Wrong version: start_mcycle is captured once, before the loop.
CaptureStartOnce ==
  /\ pc \in {"freq_0", "freq_started"}
  /\ pc = "freq_started" => now = meas.end_mtime
  /\ GetMtime(pc, "freq_started")
  /\ meas' = IF pc = "freq_0"
               THEN [meas EXCEPT !.start_mcycle = cycle, !.end_mtime = now]
               ELSE meas
  /\ UNCHANGED <<call, half, now, arg, tgt, irq>>

CaptureStart ==
  /\ pc \in {"freq_0", "freq_started"}
  /\ pc = "freq_started" => now = meas.end_mtime
  /\ GetMtime(pc, "freq_started")
  /\ meas' = [meas EXCEPT !.start_mcycle = cycle,
                          !.end_mtime = IF pc = "freq_0" THEN now ELSE @]
  /\ UNCHANGED <<call, half, now, arg, tgt, irq>>

CaptureEnd ==
  /\ \/ pc = "freq_started" /\ now # meas.end_mtime
     \/ pc = "freq_ended" /\ now < meas.start_mtime + NumTicks
  /\ GetMtime(pc, "freq_ended")
  /\ meas' = [meas EXCEPT !.end_mcycle = cycle,
                          !.start_mtime = IF pc = "freq_started" THEN now ELSE @]
  /\ UNCHANGED <<call, half, now, arg, tgt, irq>>

FreqDone ==
  /\ now >= meas.start_mtime + NumTicks
  /\ Step("freq_ended", "done")
  /\ meas' = [meas EXCEPT !.end_mtime = now]
  /\ UNCHANGED <<call, half, ret, now, arg, tgt, irq>>

------------------------------------------------------------------------------
(* clint_sleep_until                                                       *)
SleepReturn ==
  /\ now < tgt
  /\ Step("check", "done")
  /\ UNCHANGED <<call, half, ret, now, arg, tgt, meas, irq>>

SleepArm ==
  /\ now >= tgt
  /\ Step("check", "set_high")
  /\ UNCHANGED <<call, half, ret, now, arg, tgt, meas, irq>>

SetMtimecmpHigh ==
  /\ Step("set_high", "set_low")
  /\ cmp' = High(tgt) * HalfRange + Low(cmp)
  /\ UNCHANGED <<call, half, ret, now, arg, tgt, meas, mtie, mie>>

\* Wrong version: the low half of the comparator is taken over as it is.
SetMtimecmpLowLost ==
  /\ Step("set_low", "set_mtie")
  /\ UNCHANGED <<call, half, ret, now, arg, tgt, meas, cmp, mtie, mie>>

SetMtimecmpLow ==
  /\ Step("set_low", "set_mtie")
  /\ cmp' = High(cmp) * HalfRange + Low(tgt)
  /\ UNCHANGED <<call, half, ret, now, arg, tgt, meas, mtie, mie>>

EnableTimer ==
  /\ \/ Step("set_mtie", "set_mie") /\ mtie' = TRUE /\ mie' = mie
     \/ Step("set_mie", "wfi") /\ mie' = TRUE /\ mtie' = mtie
  /\ UNCHANGED <<call, half, ret, now, arg, tgt, meas, cmp>>

TimerPending == mtie /\ Mtime >= cmp

(* A trap handler catching the timer interrupt, a level, has to keep it    *)
(* from firing again.  It goes back to the instruction it interrupted, or, *)
(* when the hart was stopped in wfi, to the one after it.                  *)
TimerTrap ==
  /\ TimerPending /\ mie
  /\ Step("wfi", "wfi") \/ Step("waiting", "done")
  /\ mtie' = FALSE
  /\ UNCHANGED <<call, half, ret, now, arg, tgt, meas, cmp, mie>>

Wfi ==
  /\ Step("wfi", "waiting")
  /\ UNCHANGED <<call, half, ret, now, arg, tgt, meas, irq>>

(* Time passes for a hart stopped in wfi.                                  *)
Waiting ==
  /\ Step("waiting", "waiting")
  /\ UNCHANGED <<call, half, ret, now, arg, tgt, meas, irq>>

------------------------------------------------------------------------------
Next ==
  \/ \E c \in Calls, n \in Ticks : Begin(c, n)
  \/ ReadFirst \/ ReadSecond \/ AddTicks
  \/ SpinAgain \/ SpinDone
  \/ CaptureStart \/ CaptureEnd \/ FreqDone
  \/ SleepReturn \/ SleepArm \/ SetMtimecmpHigh \/ SetMtimecmpLow \/ EnableTimer
  \/ TimerTrap \/ Wfi \/ Waiting

Spec == Init /\ [][Next]_vars

------------------------------------------------------------------------------
Finished(c) == pc = "done" /\ call \in c

(* A spin never ends before its target, although mtime may carry from its  *)
(* low into its high half between the two loads: reading the high half     *)
(* first can only make the time look earlier than it is.                   *)
SpinNotEarly == Finished({"spin_until", "spin_ticks"}) => Mtime >= tgt

(* The measured core clock is right up to the cycles of one polling round: *)
(* the captured number of cycles is that of the captured number of ticks,  *)
(* give or take a round, and at least NumTicks ticks were waited for.  As  *)
(* long as mtime does not carry meanwhile: the ROM measures after reset.   *)
FreqAccurate ==
  Finished({"core_freq"}) /\ High(epoch.time) = High(Mtime) =>
    LET cycles == meas.end_mcycle - meas.start_mcycle
        ticks  == meas.end_mtime - meas.start_mtime
        round  == 3 * MaxStall
    IN  /\ ticks >= NumTicks
        /\ cycles - ticks * CyclesPerTick \in -round .. round

(* When the hart may take the timer interrupt, the comparator holds the    *)
(* whole of the sleeper's target: neither half is left from an earlier one.*)
ArmedForTarget == mtie /\ pc \in {"set_mie", "wfi", "waiting"} => cmp = tgt

(* A sleep lasts until its target (clint.c:63, "Wait for interrupt,        *)
(* resuming from here").                                                   *)
SleepReachesTarget == Finished({"sleep_until", "sleep_ticks"}) => Mtime >= tgt
==============================================================================
