----------------------------- MODULE StartProofs -----------------------------
(***************************************************************************)
(* Proofs about ProgramStart, for every file, host, width of the bus,      *)
(* length of bursts, place of .bss and of the stacks, any number of traps  *)
(* and whatever the caller's registers: a host that has loaded a file has  *)
(* written just its sections; main finds the program as it was linked; and *)
(* the caller gets its stack back and, if the trap handler changes no      *)
(* register or does not run, the result.                                   *)
(***************************************************************************)
EXTENDS ProgramStart, Quotients

Frame == Top(program) - 3
Saved == stack[Frame] = CallerSp /\ stack[Frame + 1] = OwnGp(program) /\ stack[Frame + 2] = CallerRa

Before == {"away", "start", "setup"}
Inside == {"vector", "bss", "rem", "fp", "call", "main", "exit"}
Handling == {"wrap", "handler", "unwrap"}
After == {"shift", "base", "store", "returned"}

\* Of code that is interrupted with these registers.
Suspended(s, r) ==
  /\ back \in {"main", "exit"} => s = Frame /\ Saved
  /\ back = "main" => r = ExitRa
  /\ back \in {"shift", "base", "store"} => s = CallerSp /\ r = CallerRa

(* Before the frame is built the registers are the caller's; from then on  *)
(* the frame holds them, under every frame of a trap; in the end they are  *)
(* back.                                                                   *)
ContextInv ==
  /\ pc \in Before => sp = CallerSp /\ gp = CallerGp /\ ra = CallerRa
  /\ pc \in Inside => sp = Frame /\ Saved
  /\ pc = "main" => ra = ExitRa
  /\ pc \in Inside \cup Handling \cup After => gp = OwnGp(program)
  /\ pc = "wrap" => Suspended(sp, ra)
  /\ pc \in {"handler", "unwrap"} => sp \in 0 .. StackWords - 16 /\ Suspended(sp + 16, stack[sp + 15])
  /\ pc \in After => sp = CallerSp /\ ra = CallerRa

\* Where the result that main has returned is, on its way out at a label.
Result(at) ==
  /\ at \in {"exit", "shift", "base", "store", "returned"} => a0 = result
  /\ at \in {"base", "store"} => t0 = 2 * result + 1
  /\ at = "store" => base
  /\ at = "returned" => scratch = 2 * result + 1

(* It is there until a trap comes, or for good if the handler changes      *)
(* nothing.                                                                *)
ResultInv ==
  /\ pc \in Before \cup (Inside \ {"exit"}) => back = "main"
  /\ (Harmless \/ back = "main") /\ pc \notin Handling => Result(pc)
  /\ Harmless /\ pc \in Handling => Result(back)

StartInv ==
  /\ pc \in Labels /\ back \in Interruptible
  /\ program \in Programs
  /\ DOMAIN stack = 0 .. StackWords - 1
  /\ pc # "away" => hpc = "start"
  /\ pc = "lost" => entry # program.start \/ (~Harmless /\ traps > 0)
  /\ pc \in Handling => traps > 0
  /\ traps \in 0 .. MaxTraps
  /\ ContextInv /\ ResultInv

------------------------------------------------------------------------------
LEMMA InitialInv == Init => StartInv
<1>. SUFFICES ASSUME Init
              PROVE  StartInv
  OBVIOUS
<1>. USE DEF Init, Crt0Init
<1>1. /\ pc = "away" /\ back = "main" /\ program \in Programs /\ DOMAIN stack = 0 .. StackWords - 1
      /\ traps \in 0 .. MaxTraps
  BY Crt0Assumption
<1>2. ContextInv
  BY <1>1 DEF ContextInv, Before, Inside, Handling, After
<1>3. ResultInv
  BY <1>1 DEF ResultInv, Result, Before, Inside, Handling
<1>. QED  BY <1>1, <1>2, <1>3 DEF StartInv, Labels, Interruptible, Handling

\* The places of the frames, as numbers.
LEMMA FrameFacts ==
  ASSUME StartInv, Roomy
  PROVE  /\ StackWords \in Nat /\ CallerSp \in Nat /\ CallerSp \in 16 .. StackWords
         /\ Frame \in Nat /\ Frame \in 16 .. StackWords - 3
<1>1. Top(program) \in 19 .. StackWords
  BY DEF StartInv, Roomy
<1>. QED  BY <1>1, Crt0Assumption DEF Roomy, Frame

(* Loading, and the jump to the entry point.                               *)
LEMMA LoadStep ==
  ASSUME StartInv, Load
  PROVE  StartInv'
<1>1. UNCHANGED crt0
  BY DEF Load
<1>2. pc # "away" => UNCHANGED <<hpc, entry>>
  BY DEF Load, StartInv, HostNext, ReadElf, LoadHeader, GetSection, JtagWord, SlinkWrite, UartWrite, Written,
         Bursting
<1>. QED  BY <1>1, <1>2 DEF StartInv, ContextInv, ResultInv, Result, Harmless, Suspended, Saved, Frame,
                            crt0, run, registers, temporaries, trapping

LEMMA StartStep ==
  ASSUME StartInv, Start
  PROVE  StartInv'
<1>. USE DEF Start, Goto
<1>1. /\ pc = "away" /\ hpc = "start"
      /\ \/ pc' = "start"
         \/ pc' = "lost" /\ entry # program.start
      /\ UNCHANGED <<hpc, entry, run, registers, stack, trapping, result, scratch>>
  BY DEF host
<1>2. ContextInv'
  BY <1>1 DEF StartInv, ContextInv, Before, Inside, Handling, After, registers
<1>3. ResultInv'
  BY <1>1 DEF StartInv, ResultInv, Result, Before, Inside, Handling, trapping
<1>. QED  BY <1>1, <1>2, <1>3 DEF StartInv, Labels, Interruptible, Handling, run, trapping

\* What the rest of the invariant needs of a step of the runtime.
Onward ==
  /\ pc \notin {"away", "lost"} /\ pc' \in Labels \ {"away"}
  /\ back' \in Interruptible /\ traps' \in 0 .. MaxTraps
  /\ pc' \in Handling => traps' > 0
  /\ UNCHANGED <<hpc, entry, run>> /\ DOMAIN stack' = DOMAIN stack

LEMMA OnwardFacts ==
  ASSUME StartInv, Onward, ContextInv', ResultInv', pc' = "lost" => ~Harmless /\ traps' > 0
  PROVE  StartInv'
BY DEF StartInv, Onward, Harmless, run

(* Up to the call of main.                                                 *)
LEMMA EnterStep ==
  ASSUME StartInv, Enter, UNCHANGED host
  PROVE  StartInv'
<1>. USE DEF Enter, Goto
<1>1. Onward /\ pc = "start" /\ pc' \in {"setup", "parked"}
  BY DEF Onward, Labels, Interruptible, Handling, StartInv, host, trapping
<1>2. ContextInv'
  BY <1>1 DEF StartInv, ContextInv, Before, Inside, Handling, After, registers
<1>3. ResultInv'
  BY <1>1 DEF StartInv, ResultInv, Result, Harmless, Interruptible, Handling, Before, Inside, trapping
<1>. QED  BY <1>1, <1>2, <1>3, OnwardFacts

LEMMA SetUpStep ==
  ASSUME StartInv, Roomy, SetUp, UNCHANGED host
  PROVE  StartInv'
<1>. USE DEF SetUp, Goto
<1>1. Onward /\ pc = "setup" /\ pc' = "vector"
  BY DEF Onward, Labels, Interruptible, Handling, StartInv, host, trapping
<1>2. sp = CallerSp /\ gp = CallerGp /\ ra = CallerRa
  BY <1>1 DEF StartInv, ContextInv, Before
<1>3. UNCHANGED <<program, back>> /\ Frame' = Frame
  BY DEF run, trapping, Frame
<1>4. sp' = Frame /\ gp' = OwnGp(program)
  BY <1>2 DEF Frame, Top, OwnGp
<1>5. stack' = [stack EXCEPT ![Frame] = CallerSp, ![Frame + 1] = OwnGp(program), ![Frame + 2] = CallerRa]
  BY <1>2, <1>4
<1>6. Saved'
  <2>1. DOMAIN stack = 0 .. StackWords - 1
    BY DEF StartInv
  <2>2. /\ StackWords \in Nat /\ Frame \in Nat /\ Frame \in 16 .. StackWords - 3
    BY FrameFacts
  <2>3. /\ Frame \in 0 .. StackWords - 1
        /\ Frame + 1 \in 0 .. StackWords - 1
        /\ Frame + 2 \in 0 .. StackWords - 1
    BY <2>2
  <2>4. /\ stack'[Frame] = CallerSp
        /\ stack'[Frame + 1] = OwnGp(program)
        /\ stack'[Frame + 2] = CallerRa
    <3>. DEFINE f == [stack EXCEPT ![Frame] = CallerSp]
                g == [f EXCEPT ![Frame + 1] = OwnGp(program)]
    <3>1. DOMAIN f = DOMAIN stack /\ f[Frame] = CallerSp
      BY <2>1, <2>3
    <3>2. DOMAIN g = DOMAIN stack /\ g[Frame] = CallerSp /\ g[Frame + 1] = OwnGp(program)
      BY <3>1, <2>1, <2>2, <2>3
    <3>3. stack' = [g EXCEPT ![Frame + 2] = CallerRa]
      BY <1>5
    <3>. HIDE DEF f, g
    <3>4. Frame + 2 \in DOMAIN g /\ Frame + 2 # Frame /\ Frame + 2 # Frame + 1
      BY <3>2, <2>1, <2>2, <2>3
    <3>5. stack'[Frame + 2] = CallerRa
      BY <3>3, <3>4
    <3>6. stack'[Frame] = g[Frame] /\ stack'[Frame + 1] = g[Frame + 1]
      BY <3>2, <3>3, <3>4, <2>1, <2>3
    <3>. QED  BY <3>2, <3>5, <3>6
  <2>. QED  BY <2>4, <1>3 DEF Saved, OwnGp
<1>7. ContextInv'
  BY <1>1, <1>3, <1>4, <1>6 DEF ContextInv, Before, Inside, Handling, After
<1>8. ResultInv'
  BY <1>1, <1>3 DEF StartInv, ResultInv, Result, Harmless, Interruptible, Handling, Before, Inside
<1>. QED  BY <1>1, <1>7, <1>8, OnwardFacts

LEMMA ClearStep ==
  ASSUME StartInv, Vector \/ ZeroBss \/ ZeroByte \/ InitFp, UNCHANGED host
  PROVE  StartInv'
<1>. USE DEF Vector, ZeroBss, ZeroByte, InitFp, Goto
<1>1. Onward /\ pc \in {"vector", "bss", "rem", "fp"} /\ pc' \in {"bss", "rem", "fp", "call"}
  BY DEF Onward, Labels, Interruptible, Handling, StartInv, host, trapping
<1>2. UNCHANGED <<program, registers, stack, back>> /\ Saved' = Saved /\ Frame' = Frame
  BY DEF run, trapping, Saved, Frame
<1>3. ContextInv'
  BY <1>1, <1>2 DEF StartInv, ContextInv, Before, Inside, Handling, After, registers
<1>4. ResultInv'
  BY <1>1, <1>2 DEF StartInv, ResultInv, Result, Harmless, Interruptible, Handling, Before, Inside
<1>. QED  BY <1>1, <1>3, <1>4, OnwardFacts

LEMMA CallStep ==
  ASSUME StartInv, CallMain, UNCHANGED host
  PROVE  StartInv'
<1>. USE DEF CallMain, Goto
<1>1. Onward /\ pc = "call" /\ pc' = "main"
  BY DEF Onward, Labels, Interruptible, Handling, StartInv, host, trapping
<1>2. ra' = ExitRa /\ UNCHANGED <<program, sp, gp, stack, back>> /\ Saved' = Saved /\ Frame' = Frame
  BY DEF run, trapping, Saved, Frame
<1>3. ContextInv'
  BY <1>1, <1>2 DEF StartInv, ContextInv, Before, Inside, Handling, After
<1>4. ResultInv'
  BY <1>1, <1>2 DEF StartInv, ResultInv, Result, Harmless, Interruptible, Handling, Before, Inside
<1>. QED  BY <1>1, <1>3, <1>4, OnwardFacts

------------------------------------------------------------------------------
(* main.                                                                   *)
LEMMA WorkStep ==
  ASSUME StartInv, Work, UNCHANGED host
  PROVE  StartInv'
<1>. USE DEF Work
<1>1. Onward /\ pc = "main" /\ pc' = "main"
  BY DEF Onward, Labels, Interruptible, Handling, StartInv, host, trapping
<1>2. UNCHANGED <<program, registers, stack, back>> /\ Saved' = Saved /\ Frame' = Frame
  BY DEF run, trapping, Saved, Frame
<1>3. ContextInv'
  BY <1>1, <1>2 DEF StartInv, ContextInv, Before, Inside, Handling, After, registers
<1>4. ResultInv'
  BY <1>1, <1>2 DEF StartInv, ResultInv, Result, Harmless, Interruptible, Handling, Before, Inside
<1>. QED  BY <1>1, <1>3, <1>4, OnwardFacts

LEMMA LeaveStep ==
  ASSUME StartInv, Leave, UNCHANGED host
  PROVE  StartInv'
<1>. USE DEF Leave, Goto
<1>0. ra = ExitRa
  BY DEF StartInv, ContextInv
<1>1. Onward /\ pc = "main" /\ pc' = "exit"
  BY <1>0 DEF Onward, Labels, Interruptible, Handling, StartInv, host, trapping
<1>2. result' = a0' /\ UNCHANGED <<program, sp, gp, ra, stack, back>> /\ Saved' = Saved /\ Frame' = Frame
  BY DEF run, trapping, Saved, Frame
<1>3. ContextInv'
  BY <1>1, <1>2 DEF StartInv, ContextInv, Before, Inside, Handling, After
<1>4. ResultInv'
  BY <1>1, <1>2 DEF StartInv, ResultInv, Result, Harmless, Interruptible, Handling, Before, Inside
<1>. QED  BY <1>1, <1>3, <1>4, OnwardFacts

------------------------------------------------------------------------------
(* Traps.                                                                  *)
LEMMA TrapStep ==
  ASSUME StartInv, Trap, UNCHANGED host
  PROVE  StartInv'
<1>. USE DEF Trap, Goto
<1>1. Onward /\ pc \in Interruptible /\ pc' = "wrap" /\ back' = pc
  BY Crt0Assumption DEF Onward, Labels, Interruptible, Handling, StartInv, host
<1>2. /\ UNCHANGED <<program, registers, stack, temporaries, result, scratch>>
      /\ Saved' = Saved /\ Frame' = Frame /\ Harmless' = Harmless
  BY DEF run, Saved, Frame, Harmless
<1>3. Suspended(sp, ra)'
  BY <1>1, <1>2 DEF StartInv, ContextInv, Suspended, Interruptible, Inside, After, registers
<1>4. ContextInv'
  <2>1. OwnGp(program)' = OwnGp(program) /\ gp' = gp /\ gp = OwnGp(program)
    BY <1>1, <1>2 DEF OwnGp, registers, StartInv, ContextInv, Interruptible, Inside, After
  <2>. QED  BY <1>1, <1>3, <2>1 DEF ContextInv, Before, Inside, Handling, After
<1>5. Harmless => Result(back)'
  <2>1. Harmless => Result(pc)
    BY <1>1 DEF StartInv, ResultInv, Interruptible, Handling
  <2>2. \A at : Result(at)' = Result(at)
    BY <1>2 DEF Result, registers, temporaries
  <2>. QED  BY <1>1, <2>1, <2>2
<1>6. ResultInv'
  BY <1>1, <1>2, <1>5 DEF ResultInv, Handling, Before, Inside
<1>. QED  BY <1>1, <1>4, <1>6, OnwardFacts

LEMMA WrapStep ==
  ASSUME StartInv, Roomy, Wrap, UNCHANGED host
  PROVE  StartInv'
<1>. USE DEF Wrap, Goto
<1>1. Onward /\ pc = "wrap" /\ pc' = "handler"
  BY DEF Onward, Labels, Interruptible, Handling, StartInv, host, trapping
<1>2. UNCHANGED <<program, gp, back, a0, temporaries, result, scratch>> /\ Frame' = Frame /\ Harmless' = Harmless
  BY DEF run, trapping, Frame, Harmless
<1>3. Suspended(sp, ra) /\ back \in Interruptible /\ DOMAIN stack = 0 .. StackWords - 1
  BY <1>1 DEF StartInv, ContextInv
<1>4. sp \in 16 .. StackWords
  BY <1>3, FrameFacts DEF Suspended, Interruptible
<1>5. sp' \in 0 .. StackWords - 16 /\ sp' + 16 = sp /\ sp' + 15 \in 0 .. StackWords - 1
  BY <1>4, FrameFacts
<1>6. stack' = [stack EXCEPT ![sp' + 15] = ra]
  OBVIOUS
<1>7. stack'[sp' + 15] = ra
  BY <1>3, <1>5, <1>6
<1>8. back \in {"main", "exit"} => Saved'
  <2>. SUFFICES ASSUME back \in {"main", "exit"}
                PROVE  Saved'
    OBVIOUS
  <2>1. sp = Frame /\ Saved
    BY <1>3 DEF Suspended
  <2>2. sp' + 15 < Frame
    BY <2>1, <1>5, FrameFacts
  <2>3. stack'[Frame] = stack[Frame] /\ stack'[Frame + 1] = stack[Frame + 1] /\ stack'[Frame + 2] = stack[Frame + 2]
    BY <2>2, <1>3, <1>5, <1>6, FrameFacts
  <2>. QED  BY <2>1, <2>3, <1>2 DEF Saved
<1>9. Suspended(sp + 16, stack[sp + 15])'
  BY <1>2, <1>3, <1>5, <1>7, <1>8 DEF Suspended
<1>10. ContextInv'
  BY <1>1, <1>2, <1>5, <1>9 DEF StartInv, ContextInv, Before, Inside, Handling, After
<1>11. ResultInv'
  BY <1>1, <1>2 DEF StartInv, ResultInv, Result, Handling, Before, Inside, temporaries
<1>. QED  BY <1>1, <1>10, <1>11, OnwardFacts

LEMMA HandleStep ==
  ASSUME StartInv, Handle, UNCHANGED host
  PROVE  StartInv'
<1>. USE DEF Handle, Goto
<1>1. Onward /\ pc = "handler" /\ pc' = "unwrap"
  BY DEF Onward, Labels, Interruptible, Handling, StartInv, host, trapping
<1>2. /\ UNCHANGED <<program, sp, gp, stack, back, result, scratch>> /\ Saved' = Saved /\ Frame' = Frame
      /\ Harmless' = Harmless /\ (Harmless => UNCHANGED <<a0, t0, base>>)
  BY DEF run, trapping, temporaries, Saved, Frame, Harmless
<1>3. Suspended(sp + 16, stack[sp + 15])'
  BY <1>1, <1>2 DEF StartInv, ContextInv, Suspended
<1>4. ContextInv'
  BY <1>1, <1>2, <1>3 DEF StartInv, ContextInv, Before, Inside, Handling, After
<1>5. Harmless => Result(back)'
  BY <1>1, <1>2 DEF StartInv, ResultInv, Result, Handling
<1>6. ResultInv'
  BY <1>1, <1>2, <1>5 DEF ResultInv, Handling, Before, Inside
<1>. QED  BY <1>1, <1>4, <1>6, OnwardFacts

LEMMA UnwrapStep ==
  ASSUME StartInv, Unwrap, UNCHANGED host
  PROVE  StartInv'
<1>. USE DEF Unwrap, Goto
<1>1. /\ Onward /\ pc = "unwrap" /\ back \in Interruptible /\ traps' > 0
      /\ pc' = back \/ (back = "main" /\ pc' = "lost" /\ ~Harmless)
  BY DEF Onward, Labels, Interruptible, Handling, Harmless, StartInv, host, trapping
<1>2. /\ UNCHANGED <<program, gp, stack, back, a0, t0, base, result, scratch>>
      /\ Saved' = Saved /\ Frame' = Frame /\ Harmless' = Harmless
  BY DEF run, trapping, temporaries, Saved, Frame, Harmless
<1>3. Suspended(sp', ra')
  BY <1>1 DEF StartInv, ContextInv
<1>4. ContextInv'
  BY <1>1, <1>2, <1>3 DEF StartInv, ContextInv, Suspended, Interruptible, Before, Inside, Handling, After
<1>5. (Harmless \/ back = "main") => Result(pc)'
  <2>1. CASE pc' \in {"main", "lost"}
    BY <2>1 DEF Result
  <2>2. CASE pc' = back /\ back # "main"
    BY <1>1, <1>2, <2>2 DEF StartInv, ResultInv, Result, Handling
  <2>. QED  BY <1>1, <2>1, <2>2
<1>6. ResultInv'
  <2>1. /\ pc' \notin Handling /\ back' = back /\ (Harmless' <=> Harmless)
        /\ pc' \in Before \cup (Inside \ {"exit"}) => back = "main"
    BY <1>1, <1>2 DEF Interruptible, Handling, Before, Inside
  <2>. QED  BY <1>5, <2>1 DEF ResultInv, Result
<1>7. pc' = "lost" => ~Harmless /\ traps' > 0
  BY <1>1 DEF Interruptible
<1>. QED  BY <1>1, <1>4, <1>6, <1>7, OnwardFacts

------------------------------------------------------------------------------
(* _exit.                                                                  *)
LEMMA RestoreStep ==
  ASSUME StartInv, Restore, UNCHANGED host
  PROVE  StartInv'
<1>. USE DEF Restore, Goto
<1>1. Onward /\ pc = "exit" /\ pc' = "shift"
  BY DEF Onward, Labels, Interruptible, Handling, StartInv, host, trapping
<1>2. UNCHANGED <<program, a0, result, back>> /\ Harmless' = Harmless
  BY DEF run, trapping, Harmless
<1>3. sp' = CallerSp /\ gp' = OwnGp(program) /\ ra' = CallerRa
  BY <1>1 DEF StartInv, ContextInv, Inside, Saved
<1>4. ContextInv'
  BY <1>1, <1>2, <1>3 DEF ContextInv, Before, Inside, Handling, After
<1>5. ResultInv'
  BY <1>1, <1>2 DEF StartInv, ResultInv, Result, Handling, Before, Inside
<1>. QED  BY <1>1, <1>4, <1>5, OnwardFacts

\* The rest of _exit leaves the caller's registers alone.
LEMMA StoreSteps ==
  ASSUME StartInv, ShiftResult \/ LoadBase \/ StoreResult, UNCHANGED host
  PROVE  StartInv'
<1>. USE DEF ShiftResult, LoadBase, StoreResult, Goto
<1>1. Onward /\ pc \in {"shift", "base", "store"} /\ pc' \in {"base", "store", "returned"}
  BY DEF Onward, Labels, Interruptible, Handling, StartInv, host, trapping
<1>2. UNCHANGED <<program, sp, gp, ra, a0, result, back>> /\ Harmless' = Harmless
  BY DEF run, registers, trapping, Harmless
<1>3. ContextInv'
  BY <1>1, <1>2 DEF StartInv, ContextInv, Before, Inside, Handling, After
<1>4. ASSUME Harmless \/ back = "main"
      PROVE  Result(pc)'
  <2>1. Result(pc)
    BY <1>1, <1>4 DEF StartInv, ResultInv, Handling
  <2>2. CASE ShiftResult
    BY <1>2, <2>1, <2>2 DEF Result
  <2>3. CASE LoadBase
    BY <1>2, <2>1, <2>3 DEF Result
  <2>4. CASE StoreResult
    BY <1>2, <2>1, <2>4 DEF Result
  <2>. QED  BY <2>2, <2>3, <2>4
<1>5. ResultInv'
  BY <1>1, <1>2, <1>4 DEF ResultInv, Handling, Before, Inside
<1>. QED  BY <1>1, <1>3, <1>5, OnwardFacts

------------------------------------------------------------------------------
LEMMA StepCorrect ==
  ASSUME StartInv, Roomy, [Next]_vars
  PROVE  StartInv'
<1>1. CASE UNCHANGED vars
  BY <1>1 DEF vars, host, crt0, run, registers, temporaries, trapping, StartInv, ContextInv, ResultInv,
              Result, Harmless, Suspended, Saved, Frame
<1>2. CASE Run
  BY <1>2, EnterStep, SetUpStep, ClearStep, CallStep, WorkStep, LeaveStep, TrapStep, WrapStep,
     HandleStep, UnwrapStep, RestoreStep, StoreSteps DEF Run, Crt0Next
<1>. QED  BY <1>1, <1>2, LoadStep, StartStep DEF Next

(* For every layout of the stacks that has room, every program and any     *)
(* number of traps: a program that was entered comes back, unless a trap   *)
(* handler that changes registers has done main harm, to its caller's sp   *)
(* and ra, with its own gp, and with its result unless such a handler has  *)
(* run after main.                                                         *)
THEOREM ContextReturned == Roomy => (Spec => []ReturnsContext)
<1>. SUFFICES ASSUME Roomy
              PROVE  Spec => []ReturnsContext
  OBVIOUS
<1>1. StartInv /\ [Next]_vars => StartInv'
  BY StepCorrect
<1>2. StartInv => ReturnsContext
  <2>1. StartInv /\ pc = "returned" => sp = CallerSp /\ ra = CallerRa /\ gp = OwnGp(program)
    BY DEF StartInv, ContextInv, After
  <2>2. StartInv /\ pc = "returned" /\ (Harmless \/ back = "main") => Result(pc)
    BY DEF StartInv, ResultInv, Handling
  <2>. QED  BY <2>1, <2>2 DEF StartInv, Result, ReturnsContext
<1>. QED  BY <1>1, <1>2, InitialInv, PTL DEF Spec
------------------------------------------------------------------------------
(* The image.                                                              *)

\* The section of a program header, and where it ends.
SecOf(h) == SectionOf(file.phdrs[h])
End(s) == s.addr + s.len

(* What load_elf has stored are the sections of the headers it has come    *)
(* to, in their order.  Two headers with one address are not ascending.    *)
LoaderInv ==
  /\ hpc \notin {"open", "headers", "fatal"} /\ file.kind \notin Truncated => header = Len(file.phdrs) + 1
  /\ file.kind \in Truncated => header = 1 /\ entry = 0 /\ hpc # "headers"
  /\ \A s \in DOMAIN sections : \E h \in LoadHeaders : h < header /\ sections[s] = SecOf(h)
  /\ \A h \in LoadHeaders : h < header => \E s \in DOMAIN sections : sections[s] = SecOf(h)
  /\ Ascending => \A s, t \in DOMAIN sections : s < t => End(sections[s]) <= sections[t].addr
  /\ \A a \in DOMAIN mems : \E h \in LoadHeaders : h < header /\ file.phdrs[h].paddr = a
  /\ Ascending => \A h \in LoadHeaders : h < header =>
       /\ file.phdrs[h].paddr \in DOMAIN mems
       /\ mems[file.phdrs[h].paddr] = [k \in 1 .. file.phdrs[h].filesz |-> Byte(h, k - 1)]

(* The section that is written, and the buffer with its content.           *)
SectionInv ==
  /\ hpc \in {"open", "headers"} => index = 0
  /\ hpc = "start" => index = Len(sections)
  /\ hpc = "burst" =>
       /\ index \in DOMAIN sections /\ sec = sections[index]
       /\ Ascending => \A h \in LoadHeaders : SecOf(h) = sec =>
            \A a \in sec.addr .. End(sec) - 1 : BufferAt(a - sec.addr) = Content(h, a)
       /\ via = "slink" /\ Tidy /\ Shift # 0 => i = 0 \/ i > sec.len

(* The memory before the program runs: the sections that have been written *)
(* are there, of the one being written the part before the next burst; and *)
(* nothing else has changed, but for zeros that fill up a last word.       *)
Done(s) == s \in 1 .. index /\ (hpc = "burst" => s < index)
Filled(s, a) == mem[a] = Zero /\ a \in End(s) .. End(s) + WordBytes - 1
CellsInv ==
  pc = "away" /\ Tidy /\ hpc # "fatal" =>
    /\ \A h \in LoadHeaders : (\E s \in DOMAIN sections : Done(s) /\ sections[s] = SecOf(h)) => Loaded(h)
    /\ hpc = "burst" => \A h \in LoadHeaders : SecOf(h) = sec =>
         \A a \in Where : sec.addr <= a /\ a < From /\ a < End(sec) => mem[a] = Content(h, a)
    /\ \A a \in Where : mem[a] # Old =>
         \E s \in 1 .. index : a \in sections[s].addr .. End(sections[s]) - 1 \/ Filled(sections[s], a)

\* Where .bss is all zeros.
Ready == {"fp", "call", "returned"} \cup Interruptible \cup Handling

(* The program's memory from its start on: .bss is zero up to the next     *)
(* address, and the rest is as it was loaded.                              *)
ImageInv ==
  /\ pc \notin {"away", "lost"} /\ Tidy /\ Linked => \A h \in LoadHeaders : Loaded(h)
  /\ pc \in {"bss", "rem"} =>
       /\ t0 + t2 = program.end /\ t0 >= program.bss
       /\ \A a \in Where : program.bss <= a /\ a < t0 => mem[a] = Zero
  /\ pc = "rem" => t2 >= 1
  /\ pc \in Ready => \A a \in Where \cap (program.bss .. program.end - 1) : mem[a] = Zero
  /\ pc \in {"setup", "vector", "bss", "rem", "fp", "call"} => ~mie
  /\ pc = "call" => fs = 2 /\ zeroed

LoadingInv == HostTypeOK /\ LoaderInv /\ SectionInv /\ CellsInv /\ back # "away"
RunTyped == Crt0TypeOK /\ stack \in [0 .. StackWords - 1 -> Nat]
RunInv == StartInv /\ LoadingInv /\ RunTyped /\ ImageInv

LEMMA HeaderFacts ==
  ASSUME HostTypeOK
  PROVE  /\ file \in Files /\ file.phdrs \in Seq(ProgramHeader) /\ Len(file.phdrs) \in Nat
         /\ DOMAIN file.phdrs = 1 .. Len(file.phdrs)
         /\ \A h \in DOMAIN file.phdrs :
              /\ file.phdrs[h].paddr \in Nat /\ file.phdrs[h].filesz \in Nat /\ file.phdrs[h].memsz \in Nat
              /\ SecOf(h) = [addr |-> file.phdrs[h].paddr, len |-> file.phdrs[h].memsz]
              /\ Loadable(file.phdrs[h]) => SecOf(h) \in [addr : Nat, len : Nat \ {0}]
         /\ LoadHeaders \subseteq DOMAIN file.phdrs
         /\ \A h \in LoadHeaders : h \in Nat /\ h >= 1 /\ file.phdrs[h].memsz > 0
<1>1. file \in Files /\ file.phdrs \in Seq(ProgramHeader)
  BY ElfAssumption DEF HostTypeOK
<1>2. Len(file.phdrs) \in Nat /\ DOMAIN file.phdrs = 1 .. Len(file.phdrs)
  BY <1>1
<1>3. \A h \in DOMAIN file.phdrs : file.phdrs[h] \in ProgramHeader
  BY <1>1
<1>4. \A h \in DOMAIN file.phdrs :
        /\ file.phdrs[h].paddr \in Nat /\ file.phdrs[h].filesz \in Nat /\ file.phdrs[h].memsz \in Nat
  BY <1>3 DEF ProgramHeader
<1>5. \A h \in DOMAIN file.phdrs : SecOf(h) = [addr |-> file.phdrs[h].paddr, len |-> file.phdrs[h].memsz]
  BY DEF SecOf, SectionOf
<1>6. \A h \in DOMAIN file.phdrs : Loadable(file.phdrs[h]) => SecOf(h) \in [addr : Nat, len : Nat \ {0}]
  BY <1>4, <1>5 DEF Loadable
<1>7. /\ LoadHeaders \subseteq DOMAIN file.phdrs
      /\ \A h \in LoadHeaders : h \in Nat /\ h >= 1 /\ file.phdrs[h].memsz > 0
  BY <1>2 DEF LoadHeaders, Loadable
<1>. QED  BY <1>1, <1>2, <1>4, <1>5, <1>6, <1>7

\* What is said of the file does not change.
LEMMA SameFile ==
  ASSUME UNCHANGED <<file, via>>
  PROVE  /\ LoadHeaders' = LoadHeaders /\ (Ascending' <=> Ascending) /\ (Tidy' <=> Tidy)
         /\ \A h : SecOf(h)' = SecOf(h)
         /\ \A h, a : Content(h, a)' = Content(h, a)
<1>1. LoadHeaders' = LoadHeaders
  BY DEF LoadHeaders
<1>2. Ascending' <=> Ascending
  BY <1>1 DEF Ascending
<1>3. Tidy' <=> Tidy
  BY <1>1, <1>2 DEF Tidy, Fits
<1>. QED  BY <1>1, <1>2, <1>3 DEF SecOf, Content

------------------------------------------------------------------------------
(* load_elf.                                                               *)
LEMMA ReadElfLoads ==
  ASSUME HostTypeOK, LoaderInv, ReadElf
  PROVE  HostTypeOK' /\ LoaderInv'
<1>. USE DEF ReadElf
<1>1. /\ hpc = "open" /\ hpc' \in {"fatal", "next", "headers"}
      /\ hpc' = "next" => file.kind \in Truncated
      /\ hpc' = "headers" => file.kind \notin Truncated
      /\ file.kind \in Truncated => entry' = entry
      /\ entry' \in Nat
      /\ UNCHANGED <<via, file, header, sections, mems, index, sec, i, mem>>
  BY ElfAssumption DEF HostTypeOK, Rejected, Truncated
<1>2. HostTypeOK'
  BY <1>1 DEF HostTypeOK, HostLabels
<1>3. LoaderInv'
  BY <1>1, SameFile DEF LoaderInv
<1>. QED  BY <1>2, <1>3

LEMMA LoadHeaderLoads ==
  ASSUME HostTypeOK, LoaderInv, LoadHeader
  PROVE  HostTypeOK' /\ LoaderInv'
<1>. DEFINE ph == file.phdrs[header]
            content == [k \in 1 .. ph.filesz |-> Byte(header, k - 1)]
<1>1. /\ hpc = "headers" /\ UNCHANGED <<via, file, entry, index, bf, sec, i, mem>>
      /\ file.kind \notin Truncated
  BY DEF LoadHeader, LoaderInv
<1>2. /\ LoadHeaders' = LoadHeaders /\ (Ascending' <=> Ascending)
      /\ \A h : SecOf(h)' = SecOf(h)
  BY <1>1, SameFile
<1>3. header \in Nat /\ header >= 1 /\ header <= Len(file.phdrs) + 1
  BY HeaderFacts DEF HostTypeOK
<1>4. CASE header > Len(file.phdrs)
  <2>4. Len(file.phdrs) \in Nat
    BY HeaderFacts
  <2>5. ~(header <= Len(file.phdrs)) /\ header = Len(file.phdrs) + 1
    BY <1>3, <1>4, <2>4
  <2>1. hpc' = "next" /\ UNCHANGED <<header, sections, mems>> /\ header = Len(file.phdrs) + 1
    BY <2>5 DEF LoadHeader
  <2>2. HostTypeOK'
    BY <1>1, <2>1 DEF HostTypeOK, HostLabels
  <2>3. LoaderInv'
    BY <1>1, <1>2, <2>1 DEF LoaderInv
  <2>. QED  BY <2>2, <2>3
<1>5. CASE header <= Len(file.phdrs) /\ ~Loadable(ph)
  <2>1. hpc' = "headers" /\ header' = header + 1 /\ UNCHANGED <<sections, mems>>
    BY <1>1, <1>5 DEF LoadHeader
  <2>2. HostTypeOK'
    BY <1>1, <1>3, <1>5, <2>1, HeaderFacts DEF HostTypeOK, HostLabels
  <2>3. \A h \in LoadHeaders : h < header' <=> h < header
    BY <1>3, <1>5, <2>1, HeaderFacts DEF LoadHeaders
  <2>4. LoaderInv'
    BY <1>1, <1>2, <2>1, <2>3 DEF LoaderInv
  <2>. QED  BY <2>2, <2>4
<1>6. CASE header <= Len(file.phdrs) /\ Loadable(ph)
  <2>1. /\ hpc' = "headers" /\ header' = header + 1
        /\ sections' = Append(sections, SecOf(header))
        /\ mems' = [b \in DOMAIN mems \cup {ph.paddr} |-> IF b \in DOMAIN mems THEN mems[b] ELSE content]
    BY <1>1, <1>6 DEF LoadHeader, SecOf, Write
  <2>2. header \in LoadHeaders /\ header \in DOMAIN file.phdrs
    BY <1>3, <1>6, HeaderFacts DEF LoadHeaders
  <2>3. /\ SecOf(header) \in [addr : Nat, len : Nat \ {0}] /\ ph.paddr \in Nat
        /\ SecOf(header) = [addr |-> ph.paddr, len |-> ph.memsz]
    BY <1>6, <2>2, HeaderFacts
  <2>4. \A h \in LoadHeaders : h < header' <=> h < header \/ h = header
    BY <1>3, <2>1, HeaderFacts
  <2>5. sections \in Seq([addr : Nat, len : Nat \ {0}])
    BY DEF HostTypeOK
  <2>. DEFINE n == Len(sections)
  <2>6. /\ n \in Nat /\ DOMAIN sections = 1 .. n /\ DOMAIN sections' = 1 .. n + 1
        /\ \A s \in 1 .. n : sections'[s] = sections[s]
        /\ sections'[n + 1] = SecOf(header)
        /\ sections' \in Seq([addr : Nat, len : Nat \ {0}]) /\ Len(sections') = n + 1
    BY <2>1, <2>3, <2>5
  <2>0. /\ n + 1 \in DOMAIN sections' /\ DOMAIN sections \subseteq DOMAIN sections'
        /\ \A s \in DOMAIN sections' : s = n + 1 \/ s \in 1 .. n
        /\ \A s, t \in DOMAIN sections' : s < t /\ t # n + 1 => s \in 1 .. n /\ t \in 1 .. n
    <3>1. n \in Nat /\ DOMAIN sections = 1 .. n /\ DOMAIN sections' = 1 .. n + 1
      BY <2>6
    <3>. HIDE DEF n
    <3>. QED  BY <3>1
  <2>7. HostTypeOK'
    <3>1. DOMAIN mems' \subseteq Nat
      BY <2>1, <2>3 DEF HostTypeOK
    <3>2. header' \in 1 .. Len(file.phdrs) + 1
      BY <1>3, <1>6, <2>1, HeaderFacts
    <3>3. index \in 0 .. n + 1
      <4>1. index \in 0 .. Len(sections)
        BY DEF HostTypeOK
      <4>. QED  BY <2>6, <4>1
    <3>. QED  BY <1>1, <2>1, <2>6, <3>1, <3>2, <3>3 DEF HostTypeOK, HostLabels
  <2>. HIDE DEF n
  <2>8. \A s \in DOMAIN sections' : \E h \in LoadHeaders : h < header' /\ sections'[s] = SecOf(h)
    <3>. SUFFICES ASSUME NEW s \in DOMAIN sections'
                  PROVE  \E h \in LoadHeaders : h < header' /\ sections'[s] = SecOf(h)
      OBVIOUS
    <3>1. CASE s = n + 1
      BY <2>2, <2>4, <2>6, <3>1
    <3>2. CASE s \in 1 .. n
      BY <2>4, <2>6, <3>2 DEF LoaderInv
    <3>. QED  BY <2>6, <3>1, <3>2
  <2>9. \A h \in LoadHeaders : h < header' => \E s \in DOMAIN sections' : sections'[s] = SecOf(h)
    <3>. SUFFICES ASSUME NEW h \in LoadHeaders, h < header'
                  PROVE  \E s \in DOMAIN sections' : sections'[s] = SecOf(h)
      OBVIOUS
    <3>1. CASE h = header
      BY <2>0, <2>6, <3>1
    <3>2. CASE h < header
      <4>1. PICK s \in DOMAIN sections : sections[s] = SecOf(h)
        BY <3>2 DEF LoaderInv
      <4>. QED  BY <2>0, <2>6, <4>1
    <3>. QED  BY <2>4, <3>1, <3>2
  <2>10. ASSUME Ascending, NEW h \in LoadHeaders, h < header
         PROVE  End(SecOf(h)) <= ph.paddr /\ file.phdrs[h].paddr # ph.paddr
    <3>1. file.phdrs[h].paddr + file.phdrs[h].memsz <= ph.paddr
      BY <2>2, <2>10 DEF Ascending
    <3>2. /\ SecOf(h).addr = file.phdrs[h].paddr /\ SecOf(h).len = file.phdrs[h].memsz
          /\ file.phdrs[h].paddr \in Nat /\ file.phdrs[h].memsz \in Nat /\ file.phdrs[h].memsz > 0
      BY HeaderFacts
    <3>. QED  BY <2>3, <3>1, <3>2 DEF End
  <2>11. ASSUME Ascending, NEW s \in DOMAIN sections', NEW t \in DOMAIN sections', s < t
         PROVE  End(sections'[s]) <= sections'[t].addr
    <3>1. CASE t = n + 1
      <4>1. s \in 1 .. n /\ sections'[s] = sections[s] /\ sections'[t].addr = ph.paddr
        BY <2>3, <2>6, <2>11, <3>1
      <4>2. PICK h \in LoadHeaders : h < header /\ sections[s] = SecOf(h)
        BY <2>6, <4>1 DEF LoaderInv
      <4>. QED  BY <2>10, <2>11, <4>1, <4>2
    <3>2. CASE t # n + 1
      <4>1. s \in 1 .. n /\ t \in 1 .. n
        BY <2>0, <2>11, <3>2
      <4>. QED  BY <2>6, <2>11, <4>1 DEF LoaderInv
    <3>. QED  BY <3>1, <3>2
  <2>12. \A a \in DOMAIN mems' : \E h \in LoadHeaders : h < header' /\ file.phdrs[h].paddr = a
    BY <2>1, <2>2, <2>4 DEF LoaderInv
  <2>13. ASSUME Ascending, NEW h \in LoadHeaders, h < header'
         PROVE  /\ file.phdrs[h].paddr \in DOMAIN mems'
                /\ mems'[file.phdrs[h].paddr] = [k \in 1 .. file.phdrs[h].filesz |-> Byte(h, k - 1)]
    <3>1. CASE h = header
      <4>1. ph.paddr \notin DOMAIN mems
        BY <2>10, <2>13 DEF LoaderInv
      <4>. QED  BY <2>1, <3>1, <4>1
    <3>2. CASE h < header
      BY <2>1, <2>13, <3>2 DEF LoaderInv
    <3>. QED  BY <2>4, <2>13, <3>1, <3>2
  <2>14. LoaderInv'
    <3>1. /\ (hpc \notin {"open", "headers", "fatal"} /\ file.kind \notin Truncated => header = Len(file.phdrs) + 1)'
          /\ (file.kind \in Truncated => header = 1 /\ entry = 0 /\ hpc # "headers")'
      BY <1>1, <2>1
    <3>2. (\A s \in DOMAIN sections : \E h \in LoadHeaders : h < header /\ sections[s] = SecOf(h))'
      BY <1>2, <2>8
    <3>3. (\A h \in LoadHeaders : h < header => \E s \in DOMAIN sections : sections[s] = SecOf(h))'
      BY <1>2, <2>9
    <3>4. (Ascending => \A s, t \in DOMAIN sections : s < t => End(sections[s]) <= sections[t].addr)'
      BY <1>2, <2>11 DEF End
    <3>5. (\A a \in DOMAIN mems : \E h \in LoadHeaders : h < header /\ file.phdrs[h].paddr = a)'
      BY <1>1, <1>2, <2>12
    <3>6. (Ascending => \A h \in LoadHeaders : h < header =>
             /\ file.phdrs[h].paddr \in DOMAIN mems
             /\ mems[file.phdrs[h].paddr] = [k \in 1 .. file.phdrs[h].filesz |-> Byte(h, k - 1)])'
      BY <1>1, <1>2, <2>13
    <3>. QED  BY <3>1, <3>2, <3>3, <3>4, <3>5, <3>6 DEF LoaderInv
  <2>. QED  BY <2>7, <2>14
<1>. QED  BY <1>3, <1>4, <1>5, <1>6, HeaderFacts

------------------------------------------------------------------------------
(* The sections.                                                           *)

\* The header of the section at hand.
LEMMA OneHeader ==
  ASSUME HostTypeOK, LoaderInv, hpc \in {"next", "burst"}, NEW s \in DOMAIN sections
  PROVE  /\ \A h \in LoadHeaders : h < header
         /\ \E h \in LoadHeaders : sections[s] = SecOf(h)
         /\ sections[s].addr \in Nat /\ sections[s].len \in Nat /\ sections[s].len > 0
<1>1. PICK h \in LoadHeaders : h < header /\ sections[s] = SecOf(h)
  BY DEF LoaderInv
<1>2. h >= 1 /\ h \in Nat
  BY HeaderFacts
<1>3. file.kind \notin Truncated
  BY <1>1, <1>2 DEF LoaderInv
<1>4. header = Len(file.phdrs) + 1
  BY <1>3 DEF LoaderInv
<1>5. \A g \in LoadHeaders : g < header
  BY <1>4, HeaderFacts
<1>6. sections[s] \in [addr : Nat, len : Nat \ {0}]
  <2>. DEFINE Entries == [addr : Nat, len : Nat \ {0}]
  <2>1. sections \in Seq(Entries)
    BY DEF HostTypeOK
  <2>. HIDE DEF Entries
  <2>2. sections[s] \in Entries
    BY <2>1
  <2>. QED  BY <2>2 DEF Entries
<1>. QED  BY <1>1, <1>5, <1>6

\* The content of a header as the map has it.
LEMMA ContentFacts ==
  ASSUME HostTypeOK, LoaderInv, Ascending, NEW h \in LoadHeaders, h < header
  PROVE  LET content == mems[file.phdrs[h].paddr] IN
         /\ Len(content) = file.phdrs[h].filesz
         /\ \A k \in 1 .. Len(content) : content[k] = Byte(h, k - 1)
<1>. DEFINE n == file.phdrs[h].filesz
            content == [k \in 1 .. n |-> Byte(h, k - 1)]
<1>1. h \in Nat /\ n \in Nat
  BY HeaderFacts
<1>2. mems[file.phdrs[h].paddr] = content
  BY DEF LoaderInv
<1>. HIDE DEF n
<1>3. content \in Seq(Nat \X Nat) /\ DOMAIN content = 1 .. n
  <2>1. \A k \in 1 .. n : content[k] \in Nat \X Nat
    BY <1>1 DEF Byte
  <2>2. content \in [1 .. n -> Nat \X Nat]
    BY <2>1
  <2>. QED  BY <1>1, <2>2
<1>4. Len(content) = n
  <2>. HIDE DEF content
  <2>. QED  BY <1>1, <1>3
<1>. QED  BY <1>2, <1>4 DEF n

LEMMA GetSectionLoads ==
  ASSUME HostTypeOK, LoaderInv, CellsInv, GetSection, UNCHANGED pc
  PROVE  HostTypeOK' /\ LoaderInv' /\ SectionInv' /\ CellsInv'
<1>1. /\ hpc = "next" /\ hpc' \in {"burst", "fatal", "start"}
      /\ UNCHANGED <<via, file, header, entry, sections, mems, mem>>
  BY DEF GetSection
<1>2. /\ LoadHeaders' = LoadHeaders /\ (Ascending' <=> Ascending) /\ (Tidy' <=> Tidy)
      /\ \A h : SecOf(h)' = SecOf(h)
      /\ \A h, a : Content(h, a)' = Content(h, a)
  BY <1>1, SameFile
<1>3. LoaderInv'
  BY <1>1, <1>2 DEF LoaderInv
<1>4. /\ sections \in Seq([addr : Nat, len : Nat \ {0}]) /\ Len(sections) \in Nat
      /\ DOMAIN sections = 1 .. Len(sections) /\ index \in 0 .. Len(sections)
  BY DEF HostTypeOK
<1>5. CASE index < Len(sections)
  <2>1. /\ index' = index + 1 /\ sec' = sections[index'] /\ i' = 0 /\ hpc' \in {"burst", "fatal"}
        /\ hpc' = "burst" =>
             bf' = [k \in 1 .. sec'.len |-> IF k <= Len(mems[sec'.addr]) THEN mems[sec'.addr][k] ELSE Zero]
    BY <1>5 DEF GetSection
  <2>2. index' \in DOMAIN sections /\ index' \in Nat /\ index \in Nat
    BY <1>4, <1>5, <2>1
  <2>3. /\ sec' \in [addr : Nat, len : Nat \ {0}]
        /\ \A h \in LoadHeaders : h < header
        /\ sec'.addr \in Nat /\ sec'.len \in Nat
    <3>1. PICK s \in DOMAIN sections : s = index'
      BY <2>2
    <3>3. /\ \A h \in LoadHeaders : h < header
          /\ \E h \in LoadHeaders : sections[s] = SecOf(h)
      BY <1>1, <3>1, OneHeader
    <3>2. sections[s] \in [addr : Nat, len : Nat \ {0}]
      BY <3>3, HeaderFacts DEF LoadHeaders
    <3>. QED  BY <2>1, <3>1, <3>2, <3>3
  <2>4. HostTypeOK'
    BY <1>1, <1>4, <2>1, <2>2, <2>3 DEF HostTypeOK, HostLabels
  <2>5. ASSUME Ascending, hpc' = "burst", NEW h \in LoadHeaders, SecOf(h) = sec',
               NEW a \in sec'.addr .. End(sec') - 1
        PROVE  BufferAt(a - sec.addr)' = Content(h, a)
    <3>. DEFINE k == a - sec'.addr
                content == mems[file.phdrs[h].paddr]
    <3>1. /\ file.phdrs[h].paddr = sec'.addr /\ file.phdrs[h].filesz \in Nat
          /\ Len(content) = file.phdrs[h].filesz
          /\ \A j \in 1 .. Len(content) : content[j] = Byte(h, j - 1)
      BY <2>3, <2>5, HeaderFacts, ContentFacts
    <3>2. a \in Int /\ k \in 0 .. sec'.len - 1 /\ k + 1 \in 1 .. sec'.len /\ (k + 1) - 1 = k
      BY <2>3, <2>5 DEF End
    <3>3. BufferAt(a - sec.addr)' = bf'[k + 1]
      BY <3>2 DEF BufferAt
    <3>4. bf'[k + 1] = IF k + 1 <= Len(content) THEN content[k + 1] ELSE Zero
      BY <2>1, <2>5, <3>1, <3>2
    <3>5. Content(h, a) = IF k < file.phdrs[h].filesz THEN Byte(h, k) ELSE Zero
      BY <3>1 DEF Content
    <3>. HIDE DEF k, content
    <3>6. k \in Int /\ 0 <= k /\ Len(content) \in Nat
      BY <3>1, <3>2
    <3>7. CASE k < Len(content)
      <4>1. k + 1 \in 1 .. Len(content)
        BY <3>6, <3>7
      <4>2. content[k + 1] = Byte(h, k)
        BY <3>1, <3>2, <4>1
      <4>. QED  BY <3>1, <3>3, <3>4, <3>5, <3>6, <3>7, <4>1, <4>2
    <3>8. CASE ~(k < Len(content))
      <4>1. ~(k + 1 <= Len(content))
        BY <3>6, <3>8
      <4>. QED  BY <3>1, <3>3, <3>4, <3>5, <3>8, <4>1
    <3>. QED  BY <3>7, <3>8
  <2>6. SectionInv'
    <3>1. (hpc = "burst" => index \in DOMAIN sections /\ sec = sections[index])'
      BY <1>1, <2>1, <2>2
    <3>2. (hpc = "burst" => (Ascending => \A h \in LoadHeaders : SecOf(h) = sec =>
             \A a \in sec.addr .. End(sec) - 1 : BufferAt(a - sec.addr) = Content(h, a)))'
      BY <1>2, <2>5 DEF End
    <3>3. i' = 0
      BY <2>1
    <3>. QED  BY <2>1, <3>1, <3>2, <3>3 DEF SectionInv
  <2>7. CASE hpc' = "burst"
    <3>1. \A s : Done(s)' <=> Done(s)
      BY <1>1, <2>1, <2>2, <2>7 DEF Done
    <3>2. From' = sec'.addr
      BY <2>1, <2>3 DEF From
    <3>3. \A h \in LoadHeaders : Loaded(h)' <=> Loaded(h)
      BY <1>1, <1>2 DEF Loaded
    <3>4. ASSUME pc = "away", Tidy
          PROVE  \A a \in Where : mem'[a] # Old =>
                   \E s \in 1 .. index' : a \in sections[s].addr .. End(sections[s]) - 1 \/ Filled(sections[s], a)
      <4>1. 1 .. index \subseteq 1 .. index'
        BY <2>1, <2>2
      <4>2. \A a \in Where : mem[a] # Old =>
              \E s \in 1 .. index : a \in sections[s].addr .. End(sections[s]) - 1 \/ Filled(sections[s], a)
        BY <1>1, <3>4 DEF CellsInv
      <4>. QED  BY <1>1, <4>1, <4>2
    <3>5. \A s, a : Filled(s, a)' <=> Filled(s, a)
      BY <1>1 DEF Filled, End
    <3>6. \A a \in Where : ~(sec'.addr <= a /\ a < From')
      BY <2>3, <3>2, ElfAssumption
    <3>7. ASSUME pc = "away", Tidy
          PROVE  CellsInv'
      <4>1. (\A h \in LoadHeaders : (\E s \in DOMAIN sections : Done(s) /\ sections[s] = SecOf(h)) => Loaded(h))'
        BY <1>1, <1>2, <3>1, <3>3, <3>7 DEF CellsInv
      <4>2. (hpc = "burst" => \A h \in LoadHeaders : SecOf(h) = sec =>
               \A a \in Where : sec.addr <= a /\ a < From /\ a < End(sec) => mem[a] = Content(h, a))'
        BY <3>6
      <4>3. (\A a \in Where : mem[a] # Old =>
               \E s \in 1 .. index : a \in sections[s].addr .. End(sections[s]) - 1 \/ Filled(sections[s], a))'
        BY <1>1, <3>4, <3>7 DEF End, Filled
      <4>. QED  BY <4>1, <4>2, <4>3 DEF CellsInv
    <3>8. ~(pc = "away" /\ Tidy) => CellsInv'
      BY <1>2 DEF CellsInv
    <3>. QED  BY <1>3, <2>4, <2>6, <3>7, <3>8
  <2>. QED  BY <1>3, <2>1, <2>4, <2>6, <2>7 DEF CellsInv
<1>6. CASE ~(index < Len(sections))
  <2>1. hpc' = "start" /\ UNCHANGED <<index, sec, i, bf>>
    BY <1>6 DEF GetSection
  <2>2. HostTypeOK'
    BY <1>1, <2>1 DEF HostTypeOK, HostLabels
  <2>3. SectionInv'
    <3>1. index = Len(sections)
      <4>1. index \in 0 .. Len(sections) /\ Len(sections) \in Nat
        BY <1>4
      <4>. DEFINE n == Len(sections)
      <4>. HIDE DEF n
      <4>2. index = n
        BY <1>6, <4>1 DEF n
      <4>. QED  BY <4>2 DEF n
    <3>2. index' = Len(sections')
      BY <1>1, <2>1, <3>1
    <3>. QED  BY <2>1, <3>2 DEF SectionInv
  <2>4. (\A s : Done(s)' <=> Done(s)) /\ (\A h \in LoadHeaders : Loaded(h)' <=> Loaded(h))
        /\ (\A s, a : Filled(s, a)' <=> Filled(s, a))
    BY <1>1, <1>2, <2>1 DEF Done, Loaded, Filled, End
  <2>5. CellsInv'
    BY <1>1, <1>2, <2>1, <2>4 DEF CellsInv, End
  <2>. QED  BY <1>3, <2>2, <2>3, <2>5
<1>. QED  BY <1>5, <1>6

------------------------------------------------------------------------------
(* The bursts.                                                             *)

\* What a burst leaves alone.
LEMMA BurstFrame ==
  ASSUME HostTypeOK, LoaderInv, hpc = "burst", NEW n \in Nat, Advance(n), DOMAIN mem' = Where
  PROVE  /\ hpc' = "burst" /\ i' = i + n /\ i' \in Nat
         /\ UNCHANGED <<via, file, header, entry, sections, mems, index, bf, sec>>
         /\ HostTypeOK' /\ LoaderInv'
<1>1. /\ hpc' = "burst" /\ i' = i + n
      /\ UNCHANGED <<via, file, header, entry, sections, mems, index, bf, sec>>
  BY DEF Advance
<1>2. i' \in Nat
  BY <1>1 DEF HostTypeOK
<1>3. HostTypeOK'
  BY <1>1, <1>2 DEF HostTypeOK
<1>4. LoaderInv'
  BY <1>1, SameFile DEF LoaderInv, End
<1>. QED  BY <1>1, <1>2, <1>3, <1>4

(* A burst that writes the section's bytes of its n addresses, nothing     *)
(* before them, and no further than a word beyond the section.             *)
LEMMA BurstCells ==
  ASSUME HostTypeOK, LoaderInv, SectionInv, CellsInv, hpc = "burst", Tidy, UNCHANGED pc,
         NEW as, Land(as), NEW n \in Nat, Advance(n),
         \A a \in Where : a \in as => From <= a /\ a <= End(sec) + WordBytes - 1,
         \A a \in Where : From <= a /\ a < From + n /\ a < End(sec) => a \in as
  PROVE  CellsInv'
<1>1. /\ mem' = [a \in Where |-> IF a \in as THEN BufferAt(a - sec.addr) ELSE mem[a]]
      /\ DOMAIN mem' = Where /\ Where \subseteq Int
  BY ElfAssumption DEF Land
<1>2. /\ hpc' = "burst" /\ i' = i + n /\ i' \in Nat /\ i \in Nat
      /\ UNCHANGED <<via, file, header, entry, sections, mems, index, bf, sec>>
  BY <1>1, BurstFrame DEF HostTypeOK
<1>3. /\ LoadHeaders' = LoadHeaders /\ (Tidy' <=> Tidy) /\ (\A h : SecOf(h)' = SecOf(h))
      /\ \A h, a : Content(h, a)' = Content(h, a)
  BY <1>2, SameFile
<1>4. /\ index \in DOMAIN sections /\ sec = sections[index] /\ index \in Nat
      /\ sec.addr \in Nat /\ sec.len \in Nat /\ Ascending
  BY OneHeader DEF SectionInv, Tidy, HostTypeOK
<1>5. From = sec.addr + i /\ From' = From + n /\ End(sec) = sec.addr + sec.len /\ End(sec)' = End(sec)
  BY <1>2, <1>4 DEF From, End
<1>6. \A s : Done(s)' <=> Done(s)
  BY <1>2 DEF Done
<1>7. WordBytes \in Nat /\ WordBytes > 0
  BY ElfAssumption
<1>. DEFINE f == From
              e == End(sec)
<1>15. \A a \in as \cap Where : a \in Int /\ f <= a
  BY <1>1
<1>16. \A a \in Where : f <= a /\ a < f + n /\ a < e => a \in as
  OBVIOUS
<1>17. f \in Int /\ f >= sec.addr
  BY <1>2, <1>4, <1>5
<1>. HIDE DEF f, e
<1>8. SUFFICES ASSUME pc = "away"
               PROVE  CellsInv'
  BY DEF CellsInv
<1>9. ASSUME NEW h \in LoadHeaders, NEW s \in DOMAIN sections, Done(s), sections[s] = SecOf(h)
      PROVE  Loaded(h)'
  <2>1. Loaded(h)
    BY <1>8, <1>9 DEF CellsInv
  <2>2. s < index /\ s \in Nat
    BY <1>2, <1>9 DEF Done
  <2>3. End(sections[s]) <= sec.addr
    BY <1>4, <1>9, <2>2 DEF LoaderInv
  <2>4. /\ file.phdrs[h].paddr \in Nat /\ file.phdrs[h].memsz \in Nat
        /\ SecOf(h).addr = file.phdrs[h].paddr /\ SecOf(h).len = file.phdrs[h].memsz
    BY HeaderFacts
  <2>5. ASSUME NEW a \in Where \cap (file.phdrs[h].paddr .. file.phdrs[h].paddr + file.phdrs[h].memsz - 1)
        PROVE  mem'[a] = Content(h, a)
    <3>1. a \in Int /\ a < sec.addr
      BY <1>1, <1>4, <1>9, <2>3, <2>4, <2>5 DEF End
    <3>2. a \notin as
      <4>. SUFFICES ASSUME a \in as
                    PROVE  FALSE
        OBVIOUS
      <4>1. f <= a
        BY <1>15, <2>5
      <4>. QED  BY <1>4, <1>17, <3>1, <4>1
    <3>. QED  BY <1>1, <2>1, <2>5, <3>2 DEF Loaded
  <2>. QED  BY <1>2, <1>3, <2>5 DEF Loaded
<1>10. ASSUME NEW h \in LoadHeaders, SecOf(h) = sec,
              NEW a \in Where, sec.addr <= a, a < From + n, a < End(sec)
       PROVE  mem'[a] = Content(h, a)
  <2>1. a \in Int
    BY <1>1
  <2>2. CASE a < From
    <3>1. a \notin as
      <4>. SUFFICES ASSUME a \in as
                    PROVE  FALSE
        OBVIOUS
      <4>1. f <= a
        BY <1>15
      <4>. QED  BY <1>17, <2>1, <2>2, <4>1 DEF f
    <3>2. mem[a] = Content(h, a)
      BY <1>2, <1>8, <1>10, <2>2 DEF CellsInv
    <3>. QED  BY <1>1, <3>1, <3>2
  <2>3. CASE ~(a < From)
    <3>1. f <= a /\ a < f + n /\ a < e
      BY <1>10, <1>17, <2>1, <2>3 DEF f, e
    <3>4. a \in as
      BY <1>16, <3>1
    <3>2. a \in sec.addr .. End(sec) - 1
      BY <1>4, <1>5, <1>10, <2>1
    <3>3. BufferAt(a - sec.addr) = Content(h, a)
      BY <1>4, <1>10, <3>2 DEF SectionInv
    <3>. QED  BY <1>1, <3>3, <3>4
  <2>. QED  BY <2>2, <2>3
<1>11. ASSUME NEW a \in Where, mem'[a] # Old
       PROVE  \E s \in 1 .. index : a \in sections[s].addr .. End(sections[s]) - 1 \/ Filled(sections[s], a)'
  <2>1. a \in Int
    BY <1>1
  <2>2. CASE a \in as
    <3>1. From <= a /\ a <= End(sec) + WordBytes - 1 /\ index \in 1 .. index
      <4>1. index \in 1 .. index
        <5>1. sections \in Seq([addr : Nat, len : Nat \ {0}])
          BY DEF HostTypeOK
        <5>2. DOMAIN sections = 1 .. Len(sections) /\ Len(sections) \in Nat
          BY <5>1
        <5>. QED  BY <1>4, <5>2
      <4>. QED  BY <2>2, <4>1
    <3>2. CASE a < End(sec)
      <4>1. a \in sec.addr .. End(sec) - 1
        BY <1>2, <1>4, <1>5, <2>1, <3>1, <3>2
      <4>. QED  BY <1>4, <3>1, <4>1
    <3>3. CASE ~(a < End(sec))
      <4>1. a - sec.addr \notin 0 .. sec.len - 1
        BY <1>4, <1>5, <2>1, <3>3
      <4>2. mem'[a] = Zero
        BY <1>1, <2>2, <4>1 DEF BufferAt
      <4>3. a \in End(sec) .. End(sec) + WordBytes - 1
        BY <1>4, <1>5, <1>7, <2>1, <3>1, <3>3
      <4>4. Filled(sections[index], a)'
        BY <1>2, <1>4, <4>2, <4>3 DEF Filled, End
      <4>. QED  BY <1>2, <3>1, <4>4
    <3>. QED  BY <3>2, <3>3
  <2>3. CASE a \notin as
    <3>1. mem'[a] = mem[a]
      BY <1>1, <2>3
    <3>2. PICK s \in 1 .. index : a \in sections[s].addr .. End(sections[s]) - 1 \/ Filled(sections[s], a)
      BY <1>2, <1>8, <1>11, <3>1 DEF CellsInv
    <3>. QED  BY <1>2, <3>1, <3>2 DEF Filled, End
  <2>. QED  BY <2>2, <2>3
<1>12. (\A h \in LoadHeaders : (\E s \in DOMAIN sections : Done(s) /\ sections[s] = SecOf(h)) => Loaded(h))'
  BY <1>2, <1>3, <1>6, <1>9
<1>13. (\A h \in LoadHeaders : SecOf(h) = sec =>
          \A a \in Where : sec.addr <= a /\ a < From /\ a < End(sec) => mem[a] = Content(h, a))'
  BY <1>2, <1>3, <1>5, <1>10
<1>14. (\A a \in Where : mem[a] # Old =>
          \E s \in 1 .. index : a \in sections[s].addr .. End(sections[s]) - 1 \/ Filled(sections[s], a))'
  BY <1>2, <1>11 DEF End
<1>. QED  BY <1>12, <1>13, <1>14 DEF CellsInv

\* The header of the section being written, and what a host asks of it.
LEMMA SectionFacts ==
  ASSUME HostTypeOK, LoaderInv, SectionInv, hpc = "burst"
  PROVE  /\ sec.addr \in Nat /\ sec.len \in Nat /\ sec.len > 0 /\ i \in Nat
         /\ From = sec.addr + i /\ End(sec) = sec.addr + sec.len
         /\ WordBytes \in Nat \ {0} /\ Shift \in 0 .. WordBytes - 1
         /\ Tidy /\ via = "jtag" => Shift = 0
         /\ Tidy /\ via = "slink" /\ Shift # 0 => Shift + sec.len <= SlinkBurst
<1>1. sec.addr \in Nat /\ sec.len \in Nat /\ sec.len > 0 /\ \E h \in LoadHeaders : sec = SecOf(h)
  BY OneHeader DEF SectionInv
<1>2. i \in Nat
  BY DEF HostTypeOK
<1>3. WordBytes \in Nat \ {0}
  BY ElfAssumption
<1>4. Shift \in 0 .. WordBytes - 1
  <2>1. sec.addr \in Int
    BY <1>1
  <2>2. sec.addr % WordBytes \in 0 .. WordBytes - 1
    BY <1>3, <2>1, DivisionFacts
  <2>. QED  BY <2>2 DEF Shift, Offset
<1>5. PICK h \in LoadHeaders : sec = SecOf(h)
  BY <1>1
<1>6. sec.addr = file.phdrs[h].paddr /\ sec.len = file.phdrs[h].memsz
  BY <1>5, HeaderFacts
<1>7. ASSUME Tidy
      PROVE  /\ via = "jtag" => Shift = 0
             /\ via = "slink" /\ Shift # 0 => Shift + sec.len <= SlinkBurst
  <2>1. Fits(file.phdrs[h])
    BY <1>7 DEF Tidy
  <2>2. via = "jtag" => Offset(sec.addr) = 0
    BY <1>6, <2>1 DEF Fits
  <2>3. via = "slink" => Offset(sec.addr) = 0 \/ Offset(sec.addr) + sec.len <= SlinkBurst
    BY <1>6, <2>1 DEF Fits
  <2>. QED  BY <2>2, <2>3 DEF Shift
<1>. QED  BY <1>1, <1>2, <1>3, <1>4, <1>7 DEF From, End

\* What SectionInv says of the buffer stays true while the section is written.
LEMMA BurstSection ==
  ASSUME HostTypeOK, LoaderInv, SectionInv, hpc = "burst", NEW n \in Nat, Advance(n), DOMAIN mem' = Where,
         via = "slink" /\ Tidy /\ Shift # 0 => i' > sec.len
  PROVE  SectionInv'
<1>1. /\ hpc' = "burst" /\ UNCHANGED <<via, file, header, entry, sections, mems, index, bf, sec>>
  BY BurstFrame
<1>2. /\ LoadHeaders' = LoadHeaders /\ (Ascending' <=> Ascending) /\ (Tidy' <=> Tidy)
      /\ (\A h : SecOf(h)' = SecOf(h)) /\ (\A h, a : Content(h, a)' = Content(h, a))
  BY <1>1, SameFile
<1>3. \A k : BufferAt(k)' = BufferAt(k)
  BY <1>1 DEF BufferAt
<1>4. Shift' = Shift /\ End(sec)' = End(sec)
  BY <1>1 DEF Shift, Offset, End
<1>5. (index \in DOMAIN sections /\ sec = sections[index])'
  BY <1>1 DEF SectionInv
<1>6. (Ascending => \A h \in LoadHeaders : SecOf(h) = sec =>
         \A a \in sec.addr .. End(sec) - 1 : BufferAt(a - sec.addr) = Content(h, a))'
  BY <1>1, <1>2, <1>3, <1>4 DEF SectionInv
<1>7. (via = "slink" /\ Tidy /\ Shift # 0 => i = 0 \/ i > sec.len)'
  BY <1>1, <1>2, <1>4
<1>. QED  BY <1>1, <1>5, <1>6, <1>7 DEF SectionInv

\* A step that ends the simulation.
LEMMA EndedLoading ==
  ASSUME HostTypeOK, LoaderInv, hpc = "burst", hpc' = "fatal",
         UNCHANGED <<via, file, header, entry, sections, mems, index, bf, sec, i, mem>>
  PROVE  HostTypeOK' /\ LoaderInv' /\ SectionInv' /\ CellsInv'
<1>1. HostTypeOK'
  BY DEF HostTypeOK, HostLabels
<1>2. LoaderInv'
  BY SameFile DEF LoaderInv, End
<1>. QED  BY <1>1, <1>2 DEF SectionInv, CellsInv

LEMMA JtagWordLoads ==
  ASSUME HostTypeOK, LoaderInv, SectionInv, CellsInv, JtagWord, UNCHANGED pc
  PROVE  HostTypeOK' /\ LoaderInv' /\ SectionInv' /\ CellsInv'
<1>. DEFINE as == From .. From + WordBytes - 1
<1>1. hpc = "burst" /\ via = "jtag" /\ i <= sec.len /\ Advance(WordBytes)
  BY DEF JtagWord, Bursting
<1>2. /\ sec.addr \in Nat /\ sec.len \in Nat /\ i \in Nat /\ WordBytes \in Nat /\ WordBytes > 0
      /\ From = sec.addr + i /\ End(sec) = sec.addr + sec.len
      /\ Tidy => Shift = 0
  BY <1>1, SectionFacts
<1>3. Land(as) \/ (Shift # 0 /\ UNCHANGED mem)
  BY DEF JtagWord, Shift, as
<1>4. DOMAIN mem' = Where
  BY <1>3 DEF Land, HostTypeOK
<1>5. HostTypeOK' /\ LoaderInv' /\ hpc' = "burst" /\ UNCHANGED <<via, file>>
  BY <1>1, <1>2, <1>4, BurstFrame
<1>6. SectionInv'
  BY <1>1, <1>2, <1>4, BurstSection
<1>7. CASE Tidy
  <2>1. Land(as)
    BY <1>2, <1>3, <1>7
  <2>2. \A a \in Where : a \in as => From <= a /\ a <= End(sec) + WordBytes - 1
    BY <1>1, <1>2
  <2>3. \A a \in Where : From <= a /\ a < From + WordBytes /\ a < End(sec) => a \in as
    BY <1>2, ElfAssumption
  <2>. HIDE DEF as
  <2>4. CellsInv'
    BY <1>1, <1>2, <1>7, <2>1, <2>2, <2>3, BurstCells
  <2>. QED  BY <1>5, <1>6, <2>4
<1>8. CASE ~Tidy
  BY <1>5, <1>6, <1>8, SameFile DEF CellsInv
<1>. QED  BY <1>7, <1>8

LEMMA UartWriteLoads ==
  ASSUME HostTypeOK, LoaderInv, SectionInv, CellsInv, UartWrite, UNCHANGED pc
  PROVE  HostTypeOK' /\ LoaderInv' /\ SectionInv' /\ CellsInv'
<1>. DEFINE as == {a \in From .. From + UartBurst - 1 : a < sec.addr + sec.len}
<1>1. hpc = "burst" /\ via = "uart" /\ i <= sec.len /\ Advance(UartBurst) /\ Land(as)
  BY DEF UartWrite, Bursting
<1>2. /\ sec.addr \in Nat /\ sec.len \in Nat /\ i \in Nat /\ WordBytes \in Nat /\ WordBytes > 0
      /\ From = sec.addr + i /\ End(sec) = sec.addr + sec.len /\ UartBurst \in Nat
  BY <1>1, SectionFacts, ElfAssumption
<1>4. DOMAIN mem' = Where
  BY <1>1 DEF Land
<1>5. HostTypeOK' /\ LoaderInv' /\ hpc' = "burst" /\ UNCHANGED <<via, file>>
  BY <1>1, <1>2, <1>4, BurstFrame
<1>6. SectionInv'
  BY <1>1, <1>2, <1>4, BurstSection
<1>7. CASE Tidy
  <2>2. \A a \in Where : a \in as => From <= a /\ a <= End(sec) + WordBytes - 1
    BY <1>1, <1>2
  <2>3. \A a \in Where : From <= a /\ a < From + UartBurst /\ a < End(sec) => a \in as
    BY <1>2, ElfAssumption
  <2>. HIDE DEF as
  <2>4. CellsInv'
    BY <1>1, <1>2, <1>7, <2>2, <2>3, BurstCells
  <2>. QED  BY <1>5, <1>6, <2>4
<1>8. CASE ~Tidy
  BY <1>5, <1>6, <1>8, SameFile DEF CellsInv
<1>. QED  BY <1>7, <1>8

\* The address a is in beat b, and beats reach no further than a word beyond the section.
LEMMA BeatFacts ==
  ASSUME HostTypeOK, LoaderInv, SectionInv, hpc = "burst", via = "slink", i <= sec.len, Tidy
  PROVE  /\ \A a \in Where : a \in BeatBytes => From <= a /\ a <= End(sec) + WordBytes - 1
         /\ \A a \in Where : From <= a /\ a < From + SlinkBurst /\ a < End(sec) => a \in BeatBytes
<1>. DEFINE W == WordBytes
            f == From
            h == Shift
            Q == SlinkBurst \div WordBytes
<1>1. /\ sec.addr \in Nat /\ sec.len \in Nat /\ i \in Nat /\ W \in Nat \ {0}
      /\ f = sec.addr + i /\ End(sec) = sec.addr + sec.len /\ h \in 0 .. W - 1
      /\ h # 0 => h + sec.len <= SlinkBurst
  BY SectionFacts
<1>2. SlinkBurst \in Nat /\ SlinkBurst % WordBytes = 0 /\ Where \subseteq Int
  BY ElfAssumption
<1>3. Q \in Int /\ SlinkBurst = W * Q
  BY <1>1, <1>2, DivisionFacts
<1>4. h # 0 => i = 0
  BY <1>1 DEF SectionInv
<1>5. \A b : Beat(b) = f - h + b * W .. f - h + b * W + W - 1
  BY DEF Beat
<1>6. Beats = {b \in 0 .. Q - 1 : i + b * W - h < sec.len}
  BY DEF Beats
<1>. HIDE DEF W, f, h, Q
<1>7. ASSUME NEW a \in Where, a \in BeatBytes
      PROVE  f <= a /\ a <= End(sec) + W - 1
  <2>1. PICK b \in Beats : a \in Beat(b) /\ a >= f
    BY <1>7 DEF BeatBytes, f
  <2>2. b \in Int /\ i + b * W - h < sec.len
    BY <1>6, <2>1
  <2>3. PICK x \in Int : x = b * W
    BY <1>1, <2>2, ProductFacts
  <2>5. a \in f - h + x .. f - h + x + W - 1 /\ i + x - h < sec.len
    BY <1>5, <2>1, <2>2, <2>3, Zenon
  <2>4. a \in Int /\ a <= f - h + x + W - 1 /\ i + x - h < sec.len
    BY <1>1, <1>2, <2>3, <2>5
  <2>. QED  BY <1>1, <2>1, <2>3, <2>4
<1>8. ASSUME NEW a \in Where, f <= a, a < f + SlinkBurst, a < End(sec)
      PROVE  a \in BeatBytes
  <2>1. PICK d \in Int : d = a - f + h
    BY <1>1, <1>2
  <2>2. PICK b \in Int, r \in 0 .. W - 1 : d = W * b + r
    BY <1>1, <2>1, DivisionFacts
  <2>3. PICK x \in Int : x = W * b /\ x = b * W
    BY <1>1, <2>2, ProductFacts
  <2>4. d >= 0 /\ d < SlinkBurst
    <3>1. a \in Int /\ f \in Int
      BY <1>1, <1>2
    <3>2. CASE h = 0
      BY <1>1, <1>2, <1>8, <2>1, <3>1, <3>2
    <3>3. CASE h # 0
      BY <1>1, <1>2, <1>4, <1>8, <2>1, <3>1, <3>3
    <3>. QED  BY <3>2, <3>3
  <2>5. b >= 0
    <3>1. ~(b < 0)
      <4>1. b < 0 => W * b + W <= W * 0
        BY <1>1, <2>2, ProductFacts
      <4>2. W * 0 = 0
        BY <1>1
      <4>. QED  BY <1>1, <2>2, <2>3, <2>4, <4>1, <4>2
    <3>. QED  BY <2>2, <3>1
  <2>6. b < Q
    <3>1. Q <= b => W * Q <= W * b
      BY <1>1, <1>3, <2>2, ProductFacts
    <3>. QED  BY <1>1, <1>2, <1>3, <2>2, <2>3, <2>4, <3>1
  <2>7. a \in f - h + x .. f - h + x + W - 1
    BY <1>1, <1>2, <2>1, <2>2, <2>3
  <2>8. i + x - h < sec.len
    BY <1>1, <1>2, <1>8, <2>1, <2>2, <2>3
  <2>9. a \in Beat(b)
    BY <1>5, <2>3, <2>7, Zenon
  <2>10. b \in 0 .. Q - 1
    BY <1>3, <2>2, <2>5, <2>6
  <2>11. i + b * W - h < sec.len
    BY <2>3, <2>8, Zenon
  <2>12. b \in Beats
    BY <1>6, <2>10, <2>11, Zenon
  <2>. QED  BY <1>1, <1>2, <1>8, <2>9, <2>12 DEF BeatBytes, f
<1>. QED  BY <1>7, <1>8 DEF f, W

LEMMA SlinkWriteLoads ==
  ASSUME HostTypeOK, LoaderInv, SectionInv, CellsInv, SlinkWrite, UNCHANGED pc
  PROVE  HostTypeOK' /\ LoaderInv' /\ SectionInv' /\ CellsInv'
<1>1. hpc = "burst" /\ via = "slink" /\ i <= sec.len
  BY DEF SlinkWrite, Bursting
<1>2. CASE Beats = {}
  BY <1>1, <1>2, EndedLoading DEF SlinkWrite
<1>3. CASE Beats # {}
  <2>1. Land(BeatBytes) /\ Advance(SlinkBurst)
    BY <1>3 DEF SlinkWrite
  <2>2. DOMAIN mem' = Where
    BY <2>1 DEF Land
  <2>3. SlinkBurst \in Nat
    BY ElfAssumption
  <2>4. HostTypeOK' /\ LoaderInv' /\ hpc' = "burst" /\ UNCHANGED <<via, file>> /\ i' = i + SlinkBurst
    BY <1>1, <2>1, <2>2, <2>3, BurstFrame
  <2>5. via = "slink" /\ Tidy /\ Shift # 0 => i' > sec.len
    BY <1>1, <2>3, <2>4, SectionFacts
  <2>6. SectionInv'
    BY <1>1, <2>1, <2>2, <2>3, <2>5, BurstSection
  <2>7. CASE Tidy
    <3>1. /\ \A a \in Where : a \in BeatBytes => From <= a /\ a <= End(sec) + WordBytes - 1
          /\ \A a \in Where : From <= a /\ a < From + SlinkBurst /\ a < End(sec) => a \in BeatBytes
      BY <1>1, <2>7, BeatFacts
    <3>. DEFINE as == BeatBytes
    <3>2. /\ \A a \in Where : a \in as => From <= a /\ a <= End(sec) + WordBytes - 1
          /\ \A a \in Where : From <= a /\ a < From + SlinkBurst /\ a < End(sec) => a \in as
          /\ Land(as)
      BY <2>1, <3>1
    <3>. HIDE DEF as
    <3>3. CellsInv'
      BY <1>1, <2>1, <2>3, <2>7, <3>2, BurstCells
    <3>. QED  BY <2>4, <2>6, <3>3
  <2>8. CASE ~Tidy
    BY <2>4, <2>6, <2>8, SameFile DEF CellsInv
  <2>. QED  BY <2>7, <2>8
<1>. QED  BY <1>2, <1>3

LEMMA WrittenLoads ==
  ASSUME HostTypeOK, LoaderInv, SectionInv, CellsInv, Written, UNCHANGED pc
  PROVE  HostTypeOK' /\ LoaderInv' /\ SectionInv' /\ CellsInv'
<1>1. /\ hpc = "burst" /\ i > sec.len /\ hpc' = "next"
      /\ UNCHANGED <<via, file, header, entry, sections, mems, index, bf, sec, i, mem>>
  BY DEF Written
<1>2. HostTypeOK'
  BY <1>1 DEF HostTypeOK, HostLabels
<1>3. LoaderInv'
  BY <1>1, SameFile DEF LoaderInv, End
<1>4. SectionInv'
  BY <1>1 DEF SectionInv
<1>5. /\ LoadHeaders' = LoadHeaders /\ (Tidy' <=> Tidy) /\ (\A h : SecOf(h)' = SecOf(h))
      /\ \A h \in LoadHeaders : Loaded(h)' <=> Loaded(h)
      /\ \A s, a : Filled(s, a)' <=> Filled(s, a)
  BY <1>1, SameFile DEF Loaded, Filled, End
<1>6. ASSUME pc = "away", Tidy
      PROVE  CellsInv'
  <2>1. ASSUME NEW h \in LoadHeaders, NEW s \in DOMAIN sections, s \in 1 .. index, sections[s] = SecOf(h)
        PROVE  Loaded(h)
    <3>1. index \in Nat /\ sec = sections[index]
      BY <1>1 DEF SectionInv, HostTypeOK
    <3>2. CASE s < index
      BY <1>1, <1>6, <2>1, <3>2 DEF CellsInv, Done
    <3>3. CASE s = index
      <4>1. SecOf(h) = sec
        BY <2>1, <3>1, <3>3
      <4>2. /\ sec.addr \in Nat /\ sec.len \in Nat /\ i \in Nat
            /\ From = sec.addr + i /\ End(sec) = sec.addr + sec.len
        BY <1>1, SectionFacts
      <4>3. sec.addr = file.phdrs[h].paddr /\ sec.len = file.phdrs[h].memsz
        BY <4>1, HeaderFacts
      <4>4. \A a \in Where : sec.addr <= a /\ a < From /\ a < End(sec) => mem[a] = Content(h, a)
        BY <1>1, <1>6, <4>1 DEF CellsInv
      <4>5. ASSUME NEW a \in Where \cap (file.phdrs[h].paddr .. file.phdrs[h].paddr + file.phdrs[h].memsz - 1)
            PROVE  sec.addr <= a /\ a < From /\ a < End(sec)
          <5>1. a \in Int
            BY ElfAssumption
          <5>2. sec.addr <= a /\ a < sec.addr + sec.len
            BY <4>2, <4>3, <4>5, <5>1
          <5>3. i > sec.len
            BY <1>1
          <5>. QED  BY <4>2, <5>1, <5>2, <5>3
      <4>. QED  BY <4>4, <4>5 DEF Loaded
    <3>. QED  BY <2>1, <3>1, <3>2, <3>3
  <2>2. (\A h \in LoadHeaders : (\E s \in DOMAIN sections : Done(s) /\ sections[s] = SecOf(h)) => Loaded(h))'
    BY <1>1, <1>5, <2>1 DEF Done
  <2>3. (\A a \in Where : mem[a] # Old =>
           \E s \in 1 .. index : a \in sections[s].addr .. End(sections[s]) - 1 \/ Filled(sections[s], a))'
    BY <1>1, <1>5, <1>6 DEF CellsInv, End
  <2>. QED  BY <1>1, <2>2, <2>3 DEF CellsInv
<1>. QED  BY <1>2, <1>3, <1>4, <1>5, <1>6 DEF CellsInv

------------------------------------------------------------------------------
(* Loading as a whole.                                                     *)
LEMMA InitialLoading == Init => LoadingInv
<1>. SUFFICES ASSUME Init
              PROVE  LoadingInv
  OBVIOUS
<1>. USE DEF Init, HostInit, Crt0Init
<1>1. HostTypeOK
  <2>1. file.phdrs \in Seq(ProgramHeader)
    BY ElfAssumption
  <2>2. Len(file.phdrs) \in Nat
    BY <2>1
  <2>3. sections \in Seq([addr : Nat, len : Nat \ {0}]) /\ Len(sections) = 0 /\ DOMAIN mems = {}
    OBVIOUS
  <2>. QED  BY <2>2, <2>3 DEF HostTypeOK, HostLabels
<1>2. DOMAIN sections = {} /\ DOMAIN mems = {} /\ header = 1
  OBVIOUS
<1>3. \A h \in LoadHeaders : ~(h < header)
  BY <1>1, <1>2, HeaderFacts
<1>4. LoaderInv
  BY <1>2, <1>3 DEF LoaderInv
<1>5. SectionInv
  BY DEF SectionInv
<1>6. CellsInv
  BY <1>2 DEF CellsInv
<1>. QED  BY <1>1, <1>4, <1>5, <1>6 DEF LoadingInv

\* A step that is not the host's.
LEMMA LoadingKept ==
  ASSUME LoadingInv, UNCHANGED host, DOMAIN mem' = Where, back' # "away",
         pc' # "away" \/ UNCHANGED <<mem, pc>>
  PROVE  LoadingInv'
<1>. USE DEF LoadingInv, host
<1>1. HostTypeOK'
  BY DEF HostTypeOK
<1>2. LoaderInv'
  BY SameFile DEF LoaderInv, End
<1>3. /\ LoadHeaders' = LoadHeaders /\ (Ascending' <=> Ascending) /\ (Tidy' <=> Tidy)
      /\ (\A h : SecOf(h)' = SecOf(h)) /\ (\A h, a : Content(h, a)' = Content(h, a))
  BY SameFile
<1>4. SectionInv'
  <2>1. (\A k : BufferAt(k)' = BufferAt(k)) /\ Shift' = Shift /\ End(sec)' = End(sec)
    BY DEF BufferAt, Shift, Offset, End
  <2>2. (hpc = "burst" => (Ascending => \A h \in LoadHeaders : SecOf(h) = sec =>
           \A a \in sec.addr .. End(sec) - 1 : BufferAt(a - sec.addr) = Content(h, a)))'
    BY <1>3, <2>1 DEF SectionInv
  <2>. QED  BY <1>3, <2>1, <2>2 DEF SectionInv
<1>5. CellsInv'
  <2>1. CASE pc' # "away"
    BY <2>1 DEF CellsInv
  <2>2. CASE UNCHANGED <<mem, pc>>
    <3>1. (\A s : Done(s)' <=> Done(s)) /\ (\A h \in LoadHeaders : Loaded(h)' <=> Loaded(h))
      BY <1>3, <2>2 DEF Done, Loaded
    <3>2. (\A s, a : Filled(s, a)' <=> Filled(s, a)) /\ From' = From
      BY <2>2 DEF Filled, End, From
    <3>. QED  BY <1>3, <2>2, <3>1, <3>2 DEF CellsInv, End
  <2>. QED  BY <2>1, <2>2
<1>. QED  BY <1>1, <1>2, <1>4, <1>5

\* Before the first section is handed out.
LEMMA CellsUntouched ==
  ASSUME LoadingInv, hpc \in {"open", "headers"}, hpc' # "burst", UNCHANGED <<index, mem, pc, file, via>>
  PROVE  CellsInv'
<1>1. index = 0 /\ index' = 0 /\ 1 .. index = {} /\ (Tidy' <=> Tidy)
  BY SameFile DEF LoadingInv, SectionInv
<1>2. \A s : ~Done(s)'
  BY <1>1 DEF Done
<1>3. ASSUME pc = "away", Tidy
      PROVE  \A a \in Where : mem'[a] = Old
  BY <1>1, <1>3 DEF LoadingInv, CellsInv
<1>. QED  BY <1>1, <1>2, <1>3 DEF CellsInv

\* The steps of the runtime, and what each leaves behind.
LEMMA RunLabels ==
  ASSUME Run, back # "away"
  PROVE  /\ pc \notin {"away", "lost"} /\ pc' # "away" /\ back' # "away" /\ UNCHANGED <<host, run>>
         /\ mem' = [a \in Where |-> IF a \in Cleared THEN Zero ELSE mem[a]]
<1>. USE DEF Run, Crt0Next, Goto
<1>1. pc' # "away"
  BY DEF Enter, SetUp, Vector, ZeroBss, ZeroByte, InitFp, CallMain, Work, Leave, Trap, Wrap, Handle,
         Unwrap, Restore, ShiftResult, LoadBase, StoreResult
<1>2. pc \notin {"away", "lost"}
  BY DEF Interruptible, Enter, SetUp, Vector, ZeroBss, ZeroByte, InitFp, CallMain, Work, Leave, Trap, Wrap, Handle,
         Unwrap, Restore, ShiftResult, LoadBase, StoreResult
<1>3. UNCHANGED run
  BY DEF Enter, SetUp, Vector, ZeroBss, ZeroByte, InitFp, CallMain, Work, Leave, Trap, Wrap, Handle,
         Unwrap, Restore, ShiftResult, LoadBase, StoreResult
<1>4. back' # "away"
  <2>1. ~Trap => back' = back
    BY DEF Enter, SetUp, Vector, ZeroBss, ZeroByte, InitFp, CallMain, Work, Leave, Trap, Wrap, Handle,
           Unwrap, Restore, ShiftResult, LoadBase, StoreResult, trapping
  <2>2. Trap => back' # "away"
    BY DEF Trap, Interruptible
  <2>. QED  BY <2>1, <2>2
<1>. QED  BY <1>1, <1>2, <1>3, <1>4

LEMMA LoadingStep ==
  ASSUME LoadingInv, [Next]_vars
  PROVE  LoadingInv'
<1>1. CASE Load
  <2>1. HostNext /\ UNCHANGED <<pc, back>>
    BY <1>1 DEF Load, crt0, trapping
  <2>. USE DEF LoadingInv
  <2>2. CASE ReadElf \/ LoadHeader
    <3>1. HostTypeOK' /\ LoaderInv'
      BY <2>2, ReadElfLoads, LoadHeaderLoads
    <3>2. /\ hpc \in {"open", "headers"} /\ hpc' \in {"fatal", "next", "headers"}
          /\ UNCHANGED <<via, file, index, mem>>
      BY <2>2 DEF ReadElf, LoadHeader
    <3>3. SectionInv'
      BY <3>2 DEF SectionInv
    <3>4. CellsInv'
      BY <2>1, <3>2, CellsUntouched
    <3>. QED  BY <2>1, <3>1, <3>3, <3>4
  <2>3. CASE GetSection
    BY <2>1, <2>3, GetSectionLoads
  <2>4. CASE JtagWord \/ SlinkWrite \/ UartWrite \/ Written
    BY <2>1, <2>4, JtagWordLoads, SlinkWriteLoads, UartWriteLoads, WrittenLoads
  <2>. QED  BY <2>1, <2>2, <2>3, <2>4 DEF HostNext
<1>2. CASE Start
  <2>1. UNCHANGED <<host, mem, back>> /\ pc' \in {"start", "lost"}
    BY <1>2 DEF Start, Goto, trapping
  <2>. QED  BY <2>1, LoadingKept DEF LoadingInv, HostTypeOK
<1>3. CASE Run
  <2>1. UNCHANGED host /\ DOMAIN mem' = Where /\ pc' # "away" /\ back' # "away"
    BY <1>3, RunLabels DEF LoadingInv
  <2>. QED  BY <2>1, LoadingKept
<1>4. CASE UNCHANGED vars
  <2>1. UNCHANGED <<host, mem, pc, back>>
    BY <1>4 DEF vars, crt0, trapping
  <2>. QED  BY <2>1, LoadingKept DEF LoadingInv, HostTypeOK
<1>. QED  BY <1>1, <1>2, <1>3, <1>4 DEF Next

\* What a program is started on.
LEMMA AllLoaded ==
  ASSUME LoadingInv, JustLoaded
  PROVE  /\ DOMAIN sections = 1 .. index
         /\ \A s \in 1 .. index : \E h \in LoadHeaders : sections[s] = SecOf(h)
         /\ \A h \in LoadHeaders : Loaded(h)
<1>. USE DEF LoadingInv
<1>1. hpc = "start" /\ pc = "away" /\ file.kind \notin Truncated /\ Tidy
  BY DEF JustLoaded
<1>2. DOMAIN sections = 1 .. index
  <2>1. sections \in Seq([addr : Nat, len : Nat \ {0}])
    BY DEF HostTypeOK
  <2>2. DOMAIN sections = 1 .. Len(sections)
    BY <2>1
  <2>. QED  BY <1>1, <2>2 DEF SectionInv
<1>3. header = Len(file.phdrs) + 1
  BY <1>1 DEF LoaderInv
<1>4. \A h \in LoadHeaders : h < header
  BY <1>3, HeaderFacts
<1>5. ASSUME NEW h \in LoadHeaders
      PROVE  Loaded(h)
  <2>1. PICK s \in DOMAIN sections : sections[s] = SecOf(h)
    BY <1>4 DEF LoaderInv
  <2>2. Done(s)
    BY <1>1, <1>2 DEF Done
  <2>. QED  BY <1>1, <2>1, <2>2 DEF CellsInv
<1>6. \A s \in 1 .. index : \E h \in LoadHeaders : sections[s] = SecOf(h)
  BY <1>2 DEF LoaderInv
<1>. QED  BY <1>2, <1>5, <1>6

(* For every file, host, width of bus and length of bursts: if the file's  *)
(* sections ascend and the host can write where they start, a host that    *)
(* has loaded it has written each section, and beside them at most zeros   *)
(* that fill up a word.                                                    *)
THEOREM LoadsExactly == Spec => []LoadedExact
<1>1. LoadingInv => LoadedExact
  <2>. SUFFICES ASSUME LoadingInv, JustLoaded
                PROVE  /\ \A h \in LoadHeaders : Loaded(h)
                       /\ \A a \in Where \ UNION {SectionCells(h) : h \in LoadHeaders} :
                            mem[a] # Old => mem[a] = Zero /\ \E h \in LoadHeaders : a \in FillCells(h)
    BY DEF LoadedExact
  <2>1. ASSUME NEW a \in Where \ UNION {SectionCells(h) : h \in LoadHeaders}, mem[a] # Old
        PROVE  mem[a] = Zero /\ \E h \in LoadHeaders : a \in FillCells(h)
    <3>1. PICK s \in 1 .. index : a \in sections[s].addr .. End(sections[s]) - 1 \/ Filled(sections[s], a)
      BY <2>1 DEF LoadingInv, CellsInv, JustLoaded
    <3>2. PICK h \in LoadHeaders : sections[s] = SecOf(h)
      BY AllLoaded
    <3>3. /\ sections[s].addr = file.phdrs[h].paddr /\ sections[s].len = file.phdrs[h].memsz
          /\ file.phdrs[h].paddr \in Nat /\ file.phdrs[h].memsz \in Nat
      BY <3>2, HeaderFacts DEF LoadingInv
    <3>4. sections[s].addr .. End(sections[s]) - 1 = SectionCells(h)
      <4>1. End(sections[s]) = file.phdrs[h].paddr + file.phdrs[h].memsz
        BY <3>3 DEF End
      <4>2. End(sections[s]) - 1 = file.phdrs[h].paddr + (file.phdrs[h].memsz - 1)
        BY <3>3, <4>1
      <4>. QED  BY <3>3, <4>2 DEF SectionCells
    <3>5. Filled(sections[s], a)
      BY <2>1, <3>1, <3>4
    <3>. QED  BY <3>3, <3>5 DEF Filled, End, FillCells
  <2>. QED  BY <2>1, AllLoaded
<1>. QED  BY <1>1, InitialLoading, LoadingStep, PTL DEF Spec

------------------------------------------------------------------------------
(* The types of the runtime's registers and stack: no frame begins below   *)
(* the stack.                                                              *)
LEMMA TypedParts ==
  ASSUME RunTyped
  PROVE  /\ sp \in Nat /\ gp \in Nat /\ ra \in Nat /\ a0 \in Nat /\ t0 \in Nat /\ t2 \in Int
         /\ program.stack \in Nat /\ program.gp \in Nat /\ program.bss \in Nat /\ program.end \in Nat
         /\ program.start \in Nat /\ base \in BOOLEAN
         /\ Stride \in Nat /\ Stride > 0 /\ MaxTraps \in Nat /\ Returns \subseteq Nat
<1>1. {sp, gp, ra, a0, t0} \subseteq Nat /\ t2 \in Int /\ program \in Programs
  BY DEF RunTyped, Crt0TypeOK
<1>2. program \in [start : Nat, stack : Nat, gp : Nat, bss : Nat, end : Nat, handler : Handlers]
  BY <1>1, Crt0Assumption
<1>3. base \in BOOLEAN
  BY Zenon DEF RunTyped, Crt0TypeOK
<1>. QED  BY <1>1, <1>2, <1>3, Crt0Assumption

LEMMA InitialTyped == Init => RunTyped
<1>. SUFFICES ASSUME Init
              PROVE  RunTyped
  OBVIOUS
<1>. USE DEF Init, Crt0Init
<1>1. CallerSp \in Nat /\ MaxTraps \in Nat
  BY Crt0Assumption
<1>2. {sp, gp, ra, a0, t0} \subseteq Nat /\ t2 \in Int
  BY <1>1 DEF CallerGp, CallerRa
<1>3. stack \in [0 .. StackWords - 1 -> Nat] /\ DOMAIN stack = 0 .. StackWords - 1
  OBVIOUS
<1>4. traps \in 0 .. MaxTraps /\ result \in Returns \cup {0} /\ scratch \in Nat /\ pc \in Labels
  BY <1>1 DEF Labels
<1>5. {hart} \subseteq Harts /\ program \in Programs /\ back \in Interruptible /\ fs \in 0 .. 3
  BY DEF Interruptible
<1>6. mie \in BOOLEAN /\ base \in BOOLEAN /\ zeroed \in BOOLEAN
  BY Zenon
<1>. QED  BY <1>2, <1>3, <1>4, <1>5, <1>6, Zenon DEF RunTyped, Crt0TypeOK

\* Where the frames are, on the stack; sp is within it whenever it is used.
LEMMA FramesLie ==
  ASSUME StartInv, Roomy
  PROVE  /\ pc \in Inside => sp \in 0 .. StackWords - 3
         /\ pc = "wrap" => sp \in 16 .. StackWords
         /\ pc = "unwrap" => sp \in 0 .. StackWords - 16
<1>. USE DEF StartInv, ContextInv
<1>1. Frame \in 16 .. StackWords - 3 /\ CallerSp \in 16 .. StackWords /\ StackWords \in Nat /\ Frame \in Nat
  BY FrameFacts
<1>2. pc \in Inside => sp \in 0 .. StackWords - 3
  BY <1>1
<1>3. pc = "wrap" => sp \in 16 .. StackWords
  BY <1>1 DEF Suspended, Interruptible
<1>4. pc = "unwrap" => sp \in 0 .. StackWords - 16
  OBVIOUS
<1>. QED  BY <1>2, <1>3, <1>4

LEMMA RegistersTyped ==
  ASSUME StartInv, Roomy, RunTyped, Crt0Next
  PROVE  /\ sp' \in Nat /\ gp' \in Nat /\ ra' \in Nat /\ a0' \in Nat
         /\ stack' \in [0 .. StackWords - 1 -> Nat]
<1>. USE DEF Goto, registers
<1>1. /\ sp \in Nat /\ gp \in Nat /\ ra \in Nat /\ a0 \in Nat
      /\ program.stack \in Nat /\ program.gp \in Nat /\ Returns \subseteq Nat
  BY TypedParts
<1>2. stack \in [0 .. StackWords - 1 -> Nat] /\ StackWords \in Nat
  BY FrameFacts DEF RunTyped
<1>3. ASSUME Enter \/ Vector \/ ZeroBss \/ ZeroByte \/ InitFp \/ Work \/ Trap
               \/ ShiftResult \/ LoadBase \/ StoreResult
      PROVE  UNCHANGED <<sp, gp, ra, a0, stack>>
  BY <1>3 DEF Enter, Vector, ZeroBss, ZeroByte, InitFp, Work, Trap, ShiftResult, LoadBase, StoreResult
<1>4. CASE SetUp
  <2>1. sp = CallerSp
    BY <1>4 DEF SetUp, StartInv, ContextInv, Before
  <2>2. sp' = Frame /\ gp' \in Nat /\ UNCHANGED <<ra, a0>>
    BY <1>1, <1>4, <2>1 DEF SetUp, Frame, Top
  <2>3. sp' \in Nat
    BY <2>2, FrameFacts
  <2>4. stack' = [stack EXCEPT ![sp'] = sp, ![sp' + 1] = gp', ![sp' + 2] = ra]
    BY <1>4 DEF SetUp
  <2>. DEFINE f == [stack EXCEPT ![sp'] = sp]
              g == [f EXCEPT ![sp' + 1] = gp']
  <2>5. f \in [0 .. StackWords - 1 -> Nat]
    BY <1>1, <1>2
  <2>6. g \in [0 .. StackWords - 1 -> Nat]
    BY <2>2, <2>5
  <2>7. stack' = [g EXCEPT ![sp' + 2] = ra]
    BY <2>4
  <2>. HIDE DEF f, g
  <2>8. stack' \in [0 .. StackWords - 1 -> Nat]
    BY <1>1, <2>6, <2>7
  <2>. QED  BY <1>1, <2>2, <2>3, <2>8
<1>5. CASE CallMain
  BY <1>1, <1>2, <1>5 DEF CallMain, ExitRa
<1>6. CASE Leave
  BY <1>1, <1>2, <1>6 DEF Leave
<1>7. CASE Wrap
  <2>1. sp \in 16 .. StackWords
    BY <1>7, FramesLie DEF Wrap
  <2>2. sp' = sp - 16 /\ ra' = OtherRa /\ UNCHANGED <<gp, a0>> /\ stack' = [stack EXCEPT ![sp' + 15] = ra]
    BY <1>7 DEF Wrap
  <2>3. sp' \in Nat
    BY <1>2, <2>1, <2>2
  <2>4. stack' \in [0 .. StackWords - 1 -> Nat]
    BY <1>1, <1>2, <2>2
  <2>. QED  BY <1>1, <2>2, <2>3, <2>4 DEF OtherRa
<1>8. CASE Handle
  <2>1. a0' \in {0, a0} /\ UNCHANGED <<sp, gp, ra, stack>>
    BY <1>8 DEF Handle
  <2>. QED  BY <1>1, <1>2, <2>1
<1>9. CASE Unwrap
  <2>1. sp \in 0 .. StackWords - 16
    BY <1>9, FramesLie DEF Unwrap
  <2>2. ra' = stack[sp + 15] /\ sp' = sp + 16 /\ UNCHANGED <<gp, a0, stack>>
    BY <1>9 DEF Unwrap
  <2>3. sp + 15 \in 0 .. StackWords - 1
    BY <1>2, <2>1
  <2>. QED  BY <1>1, <1>2, <2>2, <2>3
<1>10. CASE Restore
  <2>1. sp \in 0 .. StackWords - 3
    BY <1>10, FramesLie DEF Restore, Inside
  <2>2. ra' = stack[sp + 2] /\ gp' = stack[sp + 1] /\ sp' = stack[sp] /\ UNCHANGED <<a0, stack>>
    BY <1>10 DEF Restore
  <2>3. sp \in 0 .. StackWords - 1 /\ sp + 1 \in 0 .. StackWords - 1 /\ sp + 2 \in 0 .. StackWords - 1
    BY <1>2, <2>1
  <2>. QED  BY <1>1, <1>2, <2>2, <2>3
<1>. QED  BY <1>1, <1>2, <1>3, <1>4, <1>5, <1>6, <1>7, <1>8, <1>9, <1>10 DEF Crt0Next

LEMMA TypedStep ==
  ASSUME StartInv, StartInv', Roomy, RunTyped, Run
  PROVE  RunTyped'
<1>. USE DEF Goto, temporaries, status, trapping, run
<1>1. Crt0Next
  BY DEF Run
<1>2. /\ sp' \in Nat /\ gp' \in Nat /\ ra' \in Nat /\ a0' \in Nat
      /\ stack' \in [0 .. StackWords - 1 -> Nat]
  BY <1>1, RegistersTyped
<1>3. /\ a0 \in Nat /\ t0 \in Nat /\ t2 \in Int /\ program.bss \in Nat /\ program.end \in Nat
      /\ Stride \in Nat /\ MaxTraps \in Nat /\ Returns \subseteq Nat
  BY TypedParts
<1>4. /\ hart \in Harts /\ mie \in BOOLEAN /\ fs \in 0 .. 3 /\ zeroed \in BOOLEAN
      /\ traps \in 0 .. MaxTraps /\ result \in Returns \cup {0} /\ scratch \in Nat
  BY DEF RunTyped, Crt0TypeOK
<1>5. t0' \in Nat /\ t2' \in Int
  <2>1. CASE Vector
    BY <1>3, <2>1 DEF Vector
  <2>2. CASE ZeroBss
    BY <1>3, <2>2 DEF ZeroBss
  <2>3. CASE ZeroByte
    BY <1>3, <2>3 DEF ZeroByte
  <2>4. CASE Handle
    <3>1. t0' \in {0, t0} /\ t2' = t2
      BY <2>4 DEF Handle
    <3>. QED  BY <1>3, <3>1
  <2>6. CASE ShiftResult \/ LoadBase
    <3>1. t0' \in {2 * a0 + 1, t0} /\ t2' = t2
      BY <2>6 DEF ShiftResult, LoadBase
    <3>. QED  BY <1>3, <3>1
  <2>5. ~(Vector \/ ZeroBss \/ ZeroByte \/ Handle \/ ShiftResult \/ LoadBase) => UNCHANGED <<t0, t2>>
    BY <1>1 DEF Crt0Next, Enter, SetUp, InitFp, CallMain, Work, Leave, Trap, Wrap, Unwrap,
                Restore, StoreResult
  <2>. QED  BY <1>3, <2>1, <2>2, <2>3, <2>4, <2>5, <2>6
<1>12. base' \in BOOLEAN
  <2>1. base' \in {FALSE, TRUE, base}
    BY <1>1, Zenon DEF Crt0Next, Enter, SetUp, Vector, ZeroBss, ZeroByte, InitFp, CallMain, Work, Leave, Trap,
                Wrap, Handle, Unwrap, Restore, ShiftResult, LoadBase, StoreResult
  <2>. QED  BY <2>1, TypedParts, Zenon
<1>6. mie' \in BOOLEAN /\ fs' \in 0 .. 3 /\ zeroed' \in BOOLEAN
  <2>1. CASE Enter \/ Trap \/ Unwrap
    BY <1>4, <2>1, Zenon DEF Enter, Trap, Unwrap
  <2>2. CASE Work
    BY <1>4, <2>2, Zenon DEF Work
  <2>3. CASE InitFp
    <3>1. ClearLow(3) = 2
      BY DEF ClearLow
    <3>2. fs' = 2 /\ zeroed' = (SetLow(fs) # 0) /\ mie' = mie
      BY <2>3, <3>1 DEF InitFp
    <3>3. fs' \in 0 .. 3
      BY <3>2
    <3>4. zeroed' = TRUE \/ zeroed' = FALSE
      BY <3>2, Zenon
    <3>. QED  BY <1>4, <3>2, <3>3, <3>4, Zenon
  <2>4. ~(Enter \/ Trap \/ Unwrap \/ Work \/ InitFp) => UNCHANGED status
    BY <1>1 DEF Crt0Next, SetUp, Vector, ZeroBss, ZeroByte, CallMain, Leave, Wrap, Handle,
                Restore, ShiftResult, LoadBase, StoreResult
  <2>. QED  BY <1>4, <2>1, <2>2, <2>3, <2>4, Zenon
<1>7. traps' \in 0 .. MaxTraps
  <2>1. CASE Trap
    BY <1>3, <1>4, <2>1 DEF Trap
  <2>2. ~Trap => UNCHANGED traps
    BY <1>1 DEF Crt0Next, Enter, SetUp, Vector, ZeroBss, ZeroByte, InitFp, CallMain, Work, Leave, Wrap,
                Handle, Unwrap, Restore, ShiftResult, LoadBase, StoreResult
  <2>. QED  BY <1>4, <2>1, <2>2
<1>8. result' \in Returns \cup {0} /\ scratch' \in Nat
  <2>1. CASE Leave
    BY <1>4, <2>1 DEF Leave
  <2>2. CASE StoreResult
    <3>1. t0 \in Nat /\ scratch \in Nat /\ result' = result /\ (scratch' = t0 \/ scratch' = scratch)
      BY <1>3, <1>4, <2>2 DEF StoreResult
    <3>. QED  BY <1>4, <3>1
  <2>3. ~(Leave \/ StoreResult) => UNCHANGED <<result, scratch>>
    BY <1>1 DEF Crt0Next, Enter, SetUp, Vector, ZeroBss, ZeroByte, InitFp, CallMain, Work, Trap, Wrap,
                Handle, Unwrap, Restore, ShiftResult, LoadBase
  <2>. QED  BY <1>4, <2>1, <2>2, <2>3
<1>9. hart' = hart
  BY <1>1 DEF Crt0Next, Enter, SetUp, Vector, ZeroBss, ZeroByte, InitFp, CallMain, Work, Leave, Trap, Wrap,
              Handle, Unwrap, Restore, ShiftResult, LoadBase, StoreResult
<1>10. /\ pc' \in Labels /\ back' \in Interruptible /\ program' \in Programs
       /\ DOMAIN stack' = 0 .. StackWords - 1
  BY DEF StartInv
<1>11. {sp', gp', ra', a0', t0'} \subseteq Nat
  BY <1>2, <1>5
<1>. QED  BY <1>2, <1>4, <1>5, <1>6, <1>7, <1>8, <1>9, <1>10, <1>11, <1>12, Zenon DEF RunTyped, Crt0TypeOK

LEMMA TypedNext ==
  ASSUME StartInv, StartInv', Roomy, RunTyped, [Next]_vars
  PROVE  RunTyped'
<1>1. CASE Run
  BY <1>1, TypedStep
<1>2. CASE Load \/ Start \/ UNCHANGED vars
  <2>1. UNCHANGED <<run, registers, temporaries, status, stack, trapping, result, scratch>>
    BY <1>2 DEF Load, Start, vars, crt0
  <2>2. pc' \in Labels
    BY DEF StartInv
  <2>. QED  BY <2>1, <2>2 DEF RunTyped, Crt0TypeOK, run, registers, temporaries, status, trapping
<1>. QED  BY <1>1, <1>2 DEF Next

(* For every file, host and program: nothing leaves its type, and in       *)
(* particular no frame is built below the stack, if the stacks have room.  *)
THEOREM ProgramTyped == Roomy => (Spec => []TypeOK)
<1>. SUFFICES ASSUME Roomy
              PROVE  Spec => []TypeOK
  OBVIOUS
<1>. DEFINE Typed == StartInv /\ LoadingInv /\ RunTyped
<1>1. Init => Typed
  BY InitialInv, InitialLoading, InitialTyped
<1>2. Typed /\ [Next]_vars => Typed'
  BY StepCorrect, LoadingStep, TypedNext
<1>3. Typed => TypeOK
  BY DEF LoadingInv, RunTyped, TypeOK
<1>. QED  BY <1>1, <1>2, <1>3, PTL DEF Spec

------------------------------------------------------------------------------
(* The image.                                                              *)

\* What is said of the image and of where it is linked does not change.
LEMMA SameImage ==
  ASSUME UNCHANGED <<host, run>>
  PROVE  /\ LoadHeaders' = LoadHeaders /\ (Tidy' <=> Tidy) /\ (Linked' <=> Linked)
         /\ program' = program /\ \A h, a : Content(h, a)' = Content(h, a)
<1>1. UNCHANGED <<file, via, program>>
  BY DEF host, run
<1>2. LoadHeaders' = LoadHeaders /\ (Tidy' <=> Tidy) /\ \A h, a : Content(h, a)' = Content(h, a)
  BY <1>1, SameFile
<1>3. Linked' <=> Linked
  BY <1>1, <1>2 DEF Linked, SectionCells
<1>. QED  BY <1>1, <1>2, <1>3

\* A turn of the loops clears .bss alone.
LEMMA ClearedFacts ==
  ASSUME RunTyped, ImageInv, Run
  PROVE  /\ Cleared \subseteq program.bss .. program.end - 1
         /\ pc = "bss" /\ t2 >= Stride => Cleared = t0 .. t0 + Stride - 1
         /\ pc = "rem" => Cleared = {t0}
         /\ ~(pc = "bss" /\ t2 >= Stride) /\ pc # "rem" => Cleared = {}
<1>1. /\ t0 \in Nat /\ t2 \in Int /\ Stride \in Nat /\ Stride > 0
      /\ program.bss \in Nat /\ program.end \in Nat
  BY TypedParts
<1>2. /\ pc \in {"bss", "rem"} => t0 + t2 = program.end /\ t0 >= program.bss
      /\ pc = "rem" => t2 >= 1
  BY DEF ImageInv
<1>9. (pc = "bss" => ZeroBss) /\ (pc = "rem" => ZeroByte)
  <2>1. pc \in {"bss", "rem"} => ~(Enter \/ SetUp \/ Vector \/ InitFp \/ CallMain \/ Work \/ Leave \/ Trap \/ Wrap)
    BY DEF Enter, SetUp, Vector, InitFp, CallMain, Work, Leave, Trap, Interruptible, Wrap
  <2>2. pc \in {"bss", "rem"} => ~(Handle \/ Unwrap \/ Restore \/ ShiftResult \/ LoadBase \/ StoreResult)
    BY DEF Handle, Unwrap, Restore, ShiftResult, LoadBase, StoreResult
  <2>3. (ZeroBss => pc = "bss") /\ (ZeroByte => pc = "rem")
    BY DEF ZeroBss, ZeroByte
  <2>. QED  BY <2>1, <2>2, <2>3 DEF Run, Crt0Next
<1>3. pc = "bss" /\ t2 >= Stride => Cleared = t0 .. t0 + Stride - 1
  <2>1. pc = "bss" /\ t2 >= Stride => t0' = t0 + Stride
    <3>1. t2 >= Stride => ~(t2 <= 0) /\ ~(t2 < Stride)
      BY <1>1
    <3>. QED  BY <1>9, <3>1, Zenon DEF ZeroBss
  <2>2. pc = "bss" => Cleared = t0 .. t0' - 1
    BY DEF Cleared
  <2>. QED  BY <1>1, <2>1, <2>2
<1>4. pc = "rem" => Cleared = {t0}
  <2>1. pc = "rem" => t0' = t0 + 1
    BY <1>9 DEF ZeroByte
  <2>2. t0 .. t0 + 1 - 1 = {t0}
    BY <1>1
  <2>. QED  BY <2>1, <2>2 DEF Cleared
<1>5. ~(pc = "bss" /\ t2 >= Stride) /\ pc # "rem" => Cleared = {}
  <2>1. pc = "bss" /\ ~(t2 >= Stride) => t0' = t0
    BY <1>1, <1>9 DEF ZeroBss, temporaries
  <2>2. t0 .. t0 - 1 = {}
    BY <1>1
  <2>. QED  BY <2>1, <2>2 DEF Cleared
<1>6. CASE pc = "bss" /\ t2 >= Stride
  BY <1>1, <1>2, <1>3, <1>6
<1>7. CASE pc = "rem"
  <2>1. t0 \in program.bss .. program.end - 1
    BY <1>1, <1>2, <1>7
  <2>. QED  BY <1>3, <1>4, <1>5, <1>7, <2>1
<1>8. CASE ~(pc = "bss" /\ t2 >= Stride) /\ pc # "rem"
  BY <1>3, <1>4, <1>5, <1>8
<1>. QED  BY <1>3, <1>4, <1>5, <1>6, <1>7, <1>8

\* No content is lost: where .bss lies a section has zeros.
LEMMA ImageLoaded ==
  ASSUME HostTypeOK, RunTyped, ImageInv, Run, back # "away", Tidy, Linked, NEW h \in LoadHeaders
  PROVE  Loaded(h)'
<1>1. /\ pc \notin {"away", "lost"} /\ UNCHANGED <<host, run>>
      /\ mem' = [a \in Where |-> IF a \in Cleared THEN Zero ELSE mem[a]]
  BY RunLabels
<1>2. Loaded(h)
  BY <1>1 DEF ImageInv
<1>3. file' = file /\ \A a : Content(h, a)' = Content(h, a)
  BY <1>1, SameImage DEF host
<1>4. ASSUME NEW a \in Where \cap (file.phdrs[h].paddr .. file.phdrs[h].paddr + file.phdrs[h].memsz - 1)
      PROVE  mem'[a] = Content(h, a)
  <2>1. CASE a \in Cleared
    <3>1. a \in program.bss .. program.end - 1 /\ a \in SectionCells(h)
      BY <1>4, <2>1, ClearedFacts DEF SectionCells
    <3>2. ~(a - file.phdrs[h].paddr < file.phdrs[h].filesz)
      BY <3>1 DEF Linked
    <3>. QED  BY <1>1, <2>1, <3>2 DEF Content
  <2>2. CASE a \notin Cleared
    BY <1>1, <1>2, <1>4, <2>2 DEF Loaded
  <2>. QED  BY <2>1, <2>2
<1>. QED  BY <1>3, <1>4 DEF Loaded

\* Up to the next address .bss is cleared, and in the end all of it.
LEMMA BssCleared ==
  ASSUME RunTyped, ImageInv, Run, back \in Interruptible
  PROVE  /\ pc' \in {"bss", "rem"} =>
              /\ t0' + t2' = program.end /\ t0' >= program.bss
              /\ \A a \in Where : program.bss <= a /\ a < t0' => mem'[a] = Zero
         /\ pc' = "rem" => t2' >= 1
         /\ pc' \in Ready => \A a \in Where \cap (program.bss .. program.end - 1) : mem'[a] = Zero
<1>. DEFINE p == program.bss
            q == program.end
            s == Stride
            Clean(n) == \A a \in Where : p <= a /\ a < n => mem'[a] = Zero
<1>. USE DEF Goto, temporaries
<1>1. /\ t0 \in Nat /\ t2 \in Int /\ s \in Nat /\ s > 0 /\ p \in Nat /\ q \in Nat /\ Where \subseteq Int
  BY TypedParts, ElfAssumption
<1>2. /\ mem' = [a \in Where |-> IF a \in Cleared THEN Zero ELSE mem[a]]
      /\ Crt0Next
  BY RunLabels DEF Run
<1>3. Clean(q) => \A a \in Where \cap (p .. q - 1) : mem'[a] = Zero
  BY <1>1
<1>4. /\ pc \in {"bss", "rem"} =>
           t0 + t2 = q /\ t0 >= p /\ \A a \in Where : p <= a /\ a < t0 => mem[a] = Zero
      /\ pc = "rem" => t2 >= 1
  BY DEF ImageInv
<1>5. /\ pc = "bss" /\ t2 >= s => Cleared = t0 .. t0 + s - 1
      /\ pc = "rem" => Cleared = {t0}
  BY ClearedFacts
<1>6. CASE ZeroBss
  <2>0. pc = "bss"
    BY <1>6 DEF ZeroBss
  <2>1. Clean(t0)
    BY <1>2, <1>4, <2>0
  <2>2. CASE t2 <= 0
    <3>1. pc' = "fp"
      BY <1>6, <2>2 DEF ZeroBss
    <3>2. Clean(q)
      BY <1>1, <1>4, <2>0, <2>1, <2>2
    <3>. QED  BY <1>3, <3>1, <3>2
  <2>3. CASE ~(t2 <= 0) /\ t2 < s
    <3>1. pc' = "rem" /\ t0' = t0 /\ t2' = t2
      BY <1>6, <2>3 DEF ZeroBss
    <3>. QED  BY <1>1, <1>4, <2>0, <2>1, <2>3, <3>1 DEF Ready, Interruptible, Handling
  <2>4. CASE ~(t2 <= 0) /\ ~(t2 < s)
    <3>1. t0' = t0 + s /\ t2' = t2 - s /\ pc' = IF t2' > 0 THEN "bss" ELSE "fp"
      BY <1>6, <2>4 DEF ZeroBss
    <3>2. Clean(t0 + s)
      <4>. SUFFICES ASSUME NEW a \in Where, p <= a, a < t0 + s
                    PROVE  mem'[a] = Zero
        OBVIOUS
      <4>1. CASE a < t0
        BY <2>1, <4>1
      <4>2. CASE ~(a < t0)
        <5>1. a \in t0 .. t0 + s - 1
          BY <1>1, <4>2
        <5>. QED  BY <1>1, <1>2, <1>5, <2>0, <2>4, <5>1
      <4>. QED  BY <4>1, <4>2
    <3>. HIDE DEF Clean
    <3>3. t0' + t2' = q /\ t0' >= p
      BY <1>1, <1>4, <2>0, <3>1
    <3>4. CASE t2' > 0
      BY <3>1, <3>2, <3>3, <3>4 DEF Clean, Ready, Interruptible, Handling
    <3>5. CASE ~(t2' > 0)
      <4>1. Clean(q)
        BY <1>1, <1>4, <2>0, <3>1, <3>2, <3>5 DEF Clean
      <4>. QED  BY <1>3, <3>1, <3>5, <4>1
    <3>. QED  BY <3>4, <3>5
  <2>. QED  BY <2>2, <2>3, <2>4
<1>7. CASE ZeroByte
  <2>1. /\ pc = "rem" /\ t0' = t0 + 1 /\ t2' = t2 - 1
        /\ pc' = IF t2' > 0 THEN "rem" ELSE "fp"
    BY <1>7 DEF ZeroByte
  <2>2. Clean(t0 + 1)
    <3>. SUFFICES ASSUME NEW a \in Where, p <= a, a < t0 + 1
                  PROVE  mem'[a] = Zero
      OBVIOUS
    <3>1. CASE a < t0
      BY <1>2, <1>4, <2>1, <3>1
    <3>2. CASE ~(a < t0)
      <4>1. a = t0
        BY <1>1, <3>2
      <4>. QED  BY <1>2, <1>5, <2>1, <4>1
    <3>. QED  BY <3>1, <3>2
  <2>. HIDE DEF Clean
  <2>3. t0' + t2' = q /\ t0' >= p
    BY <1>1, <1>4, <2>1
  <2>4. CASE t2' > 0
    BY <1>1, <2>1, <2>2, <2>3, <2>4 DEF Clean, Ready, Interruptible, Handling
  <2>5. CASE ~(t2' > 0)
    <3>1. Clean(q)
      BY <1>1, <1>4, <2>1, <2>2, <2>5 DEF Clean
    <3>. QED  BY <1>3, <2>1, <2>5, <3>1
  <2>. QED  BY <2>4, <2>5
<1>8. CASE Vector
  <2>1. pc' = "bss" /\ t0' = p /\ t2' = q - p
    BY <1>8 DEF Vector
  <2>. QED  BY <1>1, <2>1 DEF Ready, Interruptible, Handling
<1>9. CASE Enter \/ SetUp
  <2>1. pc' \in {"setup", "parked", "vector"}
    BY <1>9 DEF Enter, SetUp
  <2>. QED  BY <2>1 DEF Ready, Interruptible, Handling
<1>10. CASE InitFp \/ CallMain \/ Work \/ Leave \/ Trap \/ Wrap \/ Handle \/ Unwrap \/ Restore \/ ShiftResult \/ LoadBase \/ StoreResult
  <2>1. pc \in Ready /\ pc' \notin {"bss", "rem"}
    BY <1>10 DEF Ready, Interruptible, Handling, InitFp, CallMain, Work, Leave, Trap, Wrap, Handle, Unwrap, Restore, ShiftResult, LoadBase, StoreResult
  <2>2. \A a \in Where \cap (p .. q - 1) : mem[a] = Zero
    BY <2>1 DEF ImageInv
  <2>3. \A a \in Where \cap (p .. q - 1) : mem'[a] = Zero
    BY <1>2, <2>2
  <2>. QED  BY <2>1, <2>3
<1>. QED  BY <1>2, <1>6, <1>7, <1>8, <1>9, <1>10 DEF Crt0Next

\* Interrupts stay off from the first instruction to main; of every state of
\* the floating-point unit comes the clean one.
LEMMA StatusReady ==
  ASSUME RunTyped, ImageInv, Run, back \in Interruptible
  PROVE  /\ pc' \in {"setup", "vector", "bss", "rem", "fp", "call"} => ~mie'
         /\ pc' = "call" => fs' = 2 /\ zeroed'
<1>. USE DEF Goto, status
<1>1. Crt0Next
  BY DEF Run
<1>2. pc \in {"setup", "vector", "bss", "rem", "fp", "call"} => ~mie
  BY DEF ImageInv
<1>3. CASE Enter
  BY <1>3 DEF Enter
<1>4. CASE SetUp \/ Vector \/ ZeroBss \/ ZeroByte
  <2>1. mie' = mie /\ pc \in {"setup", "vector", "bss", "rem"} /\ pc' # "call"
    BY <1>4 DEF SetUp, Vector, ZeroBss, ZeroByte
  <2>. QED  BY <1>2, <2>1
<1>5. CASE InitFp
  <2>1. fs \in 0 .. 3
    BY DEF RunTyped, Crt0TypeOK
  <2>2. SetLow(fs) # 0
    <3>1. fs = 0 \/ fs = 1 \/ fs = 2 \/ fs = 3
      BY <2>1
    <3>. QED  BY <3>1 DEF SetLow
  <2>3. ClearLow(3) = 2
    BY DEF ClearLow
  <2>4. mie' = mie /\ pc = "fp" /\ fs' = 2 /\ zeroed'
    BY <1>5, <2>2, <2>3 DEF InitFp
  <2>. QED  BY <1>2, <2>4
<1>6. CASE CallMain \/ Work \/ Leave \/ Trap \/ Wrap \/ Handle \/ Unwrap \/ Restore \/ ShiftResult \/ LoadBase \/ StoreResult
  <2>1. pc' \in {"main", "exit", "lost", "wrap", "handler", "unwrap", "shift", "base", "store", "returned"}
    <3>1. back \in Interruptible /\ (pc = "main" => "main" \in Interruptible)
      BY DEF StartInv, Interruptible
    <3>. QED  BY <1>6, <3>1 DEF CallMain, Work, Leave, Trap, Wrap, Handle, Unwrap, Restore, ShiftResult,
                                LoadBase, StoreResult, Interruptible, Goto
  <2>. QED  BY <2>1
<1>. QED  BY <1>1, <1>3, <1>4, <1>5, <1>6 DEF Crt0Next

LEMMA ImageRun ==
  ASSUME StartInv, LoadingInv, RunTyped, ImageInv, Run
  PROVE  ImageInv'
<1>1. back \in Interruptible /\ HostTypeOK
  BY DEF StartInv, LoadingInv
<1>2. UNCHANGED <<host, run>> /\ back # "away"
  BY <1>1, RunLabels DEF Interruptible
<1>3. /\ LoadHeaders' = LoadHeaders /\ (Tidy' <=> Tidy) /\ (Linked' <=> Linked) /\ program' = program
  BY <1>2, SameImage
<1>4. (pc \notin {"away", "lost"} /\ Tidy /\ Linked => \A h \in LoadHeaders : Loaded(h))'
  BY <1>1, <1>2, <1>3, ImageLoaded
<1>5. /\ (pc \in {"bss", "rem"} =>
            /\ t0 + t2 = program.end /\ t0 >= program.bss
            /\ \A a \in Where : program.bss <= a /\ a < t0 => mem[a] = Zero)'
      /\ (pc = "rem" => t2 >= 1)'
      /\ (pc \in Ready => \A a \in Where \cap (program.bss .. program.end - 1) : mem[a] = Zero)'
  BY <1>1, <1>3, BssCleared DEF Ready, Interruptible, Handling
<1>. QED  BY <1>1, <1>4, <1>5, StatusReady DEF ImageInv, Ready, Interruptible, Handling

LEMMA ImageStep ==
  ASSUME StartInv, LoadingInv, RunTyped, ImageInv, LinkedAbove, [Next]_vars
  PROVE  ImageInv'
<1>1. CASE Load
  <2>1. UNCHANGED crt0 /\ (pc # "away" => UNCHANGED <<hpc, entry>> /\ hpc = "start")
    BY <1>1 DEF Load, StartInv, HostNext, ReadElf, LoadHeader, GetSection, JtagWord, SlinkWrite, UartWrite,
                Written, Bursting
  <2>2. pc = "away" /\ pc' = "away"
    BY <1>1, <2>1 DEF Load, StartInv, HostNext, ReadElf, LoadHeader, GetSection, JtagWord, SlinkWrite, UartWrite,
                      Written, Bursting, crt0
  <2>. QED  BY <2>2 DEF ImageInv, Ready, Interruptible, Handling
<1>2. CASE Start
  <2>1. /\ pc = "away" /\ hpc = "start" /\ pc' \in {"start", "lost"}
        /\ pc' = "start" => entry = program.start
        /\ UNCHANGED <<host, mem, run>>
    BY <1>2 DEF Start, Goto
  <2>2. ASSUME pc' = "start", Tidy
        PROVE  \A h \in LoadHeaders : Loaded(h)'
    <3>1. file.kind \notin Truncated
      <4>1. entry # 0
        BY <2>1, <2>2 DEF LinkedAbove, StartInv
      <4>. QED  BY <4>1 DEF LoadingInv, LoaderInv
    <3>2. JustLoaded
      BY <2>1, <2>2, <3>1 DEF JustLoaded
    <3>3. \A h \in LoadHeaders : Loaded(h)
      BY <3>2, AllLoaded
    <3>. QED  BY <2>1, <3>3, SameImage DEF Loaded, host
  <2>3. LoadHeaders' = LoadHeaders /\ (Tidy' <=> Tidy)
    BY <2>1, SameImage
  <2>. QED  BY <2>1, <2>2, <2>3 DEF ImageInv, Ready, Interruptible, Handling
<1>3. CASE Run
  BY <1>3, ImageRun
<1>4. CASE UNCHANGED vars
  <2>1. UNCHANGED <<host, run, mem, pc, t0, t2, mie, fs, zeroed>>
    BY <1>4 DEF vars, crt0, temporaries, status
  <2>2. \A h \in LoadHeaders : Loaded(h)' <=> Loaded(h)
    BY <2>1, SameImage DEF Loaded, host
  <2>. QED  BY <2>1, <2>2, SameImage DEF ImageInv, Ready, Interruptible, Handling
<1>. QED  BY <1>1, <1>2, <1>3, <1>4 DEF Next

(* For every file, host and program, and every place of .bss: if the       *)
(* stacks have room and nothing is linked at address 0, main finds the     *)
(* program as it was linked.                                               *)
THEOREM MainFindsImage == Roomy /\ LinkedAbove => (Spec => []MainSeesImage)
<1>. SUFFICES ASSUME Roomy, LinkedAbove
              PROVE  Spec => []MainSeesImage
  OBVIOUS
<1>1. Init => RunInv
  <2>. SUFFICES ASSUME Init
                PROVE  ImageInv
    BY InitialInv, InitialLoading, InitialTyped DEF RunInv
  <2>1. pc = "away"
    BY DEF Init, Crt0Init
  <2>. QED  BY <2>1 DEF ImageInv, Ready, Interruptible, Handling
<1>2. RunInv /\ [Next]_vars => RunInv'
  BY StepCorrect, LoadingStep, TypedNext, ImageStep DEF RunInv
<1>3. RunInv => MainSeesImage
  BY DEF RunInv, ImageInv, MainSeesImage, Ready, Interruptible
<1>. QED  BY <1>1, <1>2, <1>3, PTL DEF Spec
==============================================================================
