--------------------------------- MODULE Crt0 ---------------------------------
(***************************************************************************)
(* The C runtime of a bare-metal program: from the jump to _start to the   *)
(* call of main, the wrapper of the trap handler, and _exit.               *)
(*                                                                         *)
(* main and trap_vector are external: they obey the calling convention,    *)
(* by which a function may change every register of the caller that the    *)
(* caller has to save.  The stack is modelled in words of 8 bytes, apart   *)
(* from the memory mem that .bss lies in.                                  *)
(***************************************************************************)
EXTENDS Integers

CONSTANTS
  Harts,        (* The harts that may be sent to _start: 0 and others.    *)
  Programs,     (* What the linker gives a program: see program.          *)
  Stride,       (* 32: the bytes of .bss that one turn of the loop clears. *)
  StackWords,   (* Words of stack looked at, from 0 up.                   *)
  CallerSp,     (* The caller's stack pointer, in words.                  *)
  MaxTraps,     (* Bound on the number of traps.                          *)
  Returns       (* What main may return.                                  *)

\* The trap_vector of a program: the default one, which does not return, one
\* that keeps the registers a caller has to save, or one that changes them.
Handlers == {"none", "keeps", "clobbers"}

ASSUME Crt0Assumption ==
  /\ 0 \in Harts /\ Harts \subseteq Nat
  /\ Programs \subseteq [start : Nat, stack : Nat, gp : Nat, bss : Nat, end : Nat, handler : Handlers]
  /\ {Stride, MaxTraps, StackWords, CallerSp} \subseteq Nat /\ Stride > 0
  /\ Returns \subseteq Nat

VARIABLES
  pc,       (* Where the hart is.                                         *)
  hart,     (* Which hart it is.                                          *)
  program,  (* Address of _start, __stack_pointer$ and __global_pointer$  *)
            (* (0: none), .bss, and what its trap_vector does.            *)
  sp, gp, ra, a0,        (* Registers.                                    *)
  t0, t2,   (* .bss: next address, bytes left; in _exit t0 is the result. *)
  base,     (* Whether t1 is __base_regs.                                 *)
  mie, fs,  (* mstatus: interrupts on; 0 off, 1 initial, 2 clean, 3 dirty. *)
  zeroed,   (* The floating-point registers are zero.                     *)
  stack,    (* The stack, by word.                                        *)
  back,     (* Where the trap handler returns to.                         *)
  traps,    (* Traps taken.                                               *)
  result,   (* What main has returned.                                    *)
  scratch   (* Scratch register 2.                                        *)

registers == <<sp, gp, ra, a0>>
temporaries == <<t0, t2, base>>
status == <<mie, fs, zeroed>>
run == <<hart, program>>
trapping == <<back, traps>>
crt0 == <<pc, run, registers, temporaries, status, stack, trapping, result, scratch>>

CallerGp == 1000
CallerRa == 1001
ExitRa == 1002      \* the address after the call of main
OtherRa == 1003     \* an address within a function that was called

\* Where interrupts may be on.
Interruptible == {"main", "exit", "shift", "base", "store"}

Labels == {"away", "start", "parked", "setup", "vector", "bss", "rem", "fp", "call",
           "wrap", "handler", "unwrap", "returned", "lost"} \cup Interruptible

Crt0TypeOK ==
  /\ pc \in Labels
  /\ hart \in Harts /\ program \in Programs
  /\ {sp, gp, ra, a0, t0} \subseteq Nat /\ t2 \in Int /\ base \in BOOLEAN
  /\ mie \in BOOLEAN /\ fs \in 0 .. 3 /\ zeroed \in BOOLEAN
  /\ DOMAIN stack = 0 .. StackWords - 1
  /\ back \in Interruptible /\ traps \in 0 .. MaxTraps
  /\ result \in Returns \cup {0} /\ scratch \in Nat

\* The caller may be any code: what it leaves in mstatus is open.
Crt0Init ==
  /\ pc = "away"
  /\ hart \in Harts /\ program \in Programs
  /\ sp = CallerSp /\ gp = CallerGp /\ ra = CallerRa /\ a0 = 0
  /\ t0 = 0 /\ t2 = 0 /\ base = FALSE
  /\ mie \in BOOLEAN /\ fs \in 0 .. 3 /\ zeroed = FALSE
  /\ stack = [w \in 0 .. StackWords - 1 |-> 0]
  /\ back = "main" /\ traps = 0
  /\ result = 0 /\ scratch = 0

Goto(label) == pc' = label

------------------------------------------------------------------------------
(* Interrupts off; harts other than 0 sleep for ever.                      *)
Enter ==
  /\ pc = "start"
  /\ mie' = FALSE
  /\ Goto(IF hart = 0 THEN "setup" ELSE "parked")
  /\ UNCHANGED <<run, registers, temporaries, fs, zeroed, stack, trapping, result, scratch>>

\* Wrong version: the caller's stack pointer is read after it has been replaced.
SetUpLate ==
  /\ pc = "setup" /\ Goto("vector")
  /\ sp' = (IF program.stack = 0 THEN sp ELSE program.stack) - 3
  /\ gp' = IF program.gp = 0 THEN gp ELSE program.gp
  /\ stack' = [stack EXCEPT ![sp'] = sp' + 3, ![sp' + 1] = gp', ![sp' + 2] = ra]
  /\ UNCHANGED <<run, ra, a0, temporaries, status, trapping, result, scratch>>

(* The program's stack and global pointer, if it has them, and the frame   *)
(* for _exit.  The global pointer is stored after it has been set.         *)
SetUp ==
  /\ pc = "setup" /\ Goto("vector")
  /\ sp' = (IF program.stack = 0 THEN sp ELSE program.stack) - 3
  /\ gp' = IF program.gp = 0 THEN gp ELSE program.gp
  /\ stack' = [stack EXCEPT ![sp'] = sp, ![sp' + 1] = gp', ![sp' + 2] = ra]
  /\ UNCHANGED <<run, ra, a0, temporaries, status, trapping, result, scratch>>

(* The trap vector, and the bounds of .bss.                                *)
Vector ==
  /\ pc = "vector" /\ Goto("bss")
  /\ t0' = program.bss /\ t2' = program.end - program.bss
  /\ UNCHANGED <<base, run, registers, status, stack, trapping, result, scratch>>

\* The bytes that a turn of the loops clears: those it moves t0 over.
Cleared == IF pc \in {"bss", "rem"} THEN t0 .. t0' - 1 ELSE {}

\* Wrong version: the last turn is a whole one, whatever is left of .bss.
ZeroBssPastEnd ==
  /\ pc = "bss"
  /\ IF t2 <= 0 THEN Goto("fp") /\ UNCHANGED temporaries
     ELSE /\ t0' = t0 + Stride /\ t2' = t2 - Stride /\ base' = base
          /\ Goto(IF t2' > 0 THEN "bss" ELSE "fp")
  /\ UNCHANGED <<run, registers, status, stack, trapping, result, scratch>>

(* _zero_bss_loop: whole turns, as long as they do not pass the end.       *)
ZeroBss ==
  /\ pc = "bss"
  /\ IF t2 <= 0 THEN Goto("fp") /\ UNCHANGED temporaries
     ELSE IF t2 < Stride THEN Goto("rem") /\ UNCHANGED temporaries
     ELSE /\ t0' = t0 + Stride /\ t2' = t2 - Stride /\ base' = base
          /\ Goto(IF t2' > 0 THEN "bss" ELSE "fp")
  /\ UNCHANGED <<run, registers, status, stack, trapping, result, scratch>>

(* _zero_bss_rem: byte by byte.                                            *)
ZeroByte ==
  /\ pc = "rem"
  /\ t0' = t0 + 1 /\ t2' = t2 - 1
  /\ Goto(IF t2' > 0 THEN "rem" ELSE "fp")
  /\ UNCHANGED <<base, run, registers, status, stack, trapping, result, scratch>>

\* Setting or clearing the low bit of the FS field.
SetLow(f) == IF f % 2 = 0 THEN f + 1 ELSE f
ClearLow(f) == IF f % 2 = 1 THEN f - 1 ELSE f

(* Floating point on; writing the registers makes their state dirty, and   *)
(* of dirty the low bit is cleared.                                        *)
InitFp ==
  /\ pc = "fp" /\ Goto("call")
  /\ zeroed' = (SetLow(fs) # 0)
  /\ fs' = ClearLow(3)
  /\ UNCHANGED <<run, registers, temporaries, mie, stack, trapping, result, scratch>>

CallMain ==
  /\ pc = "call" /\ Goto("main")
  /\ ra' = ExitRa
  /\ UNCHANGED <<run, sp, gp, a0, temporaries, status, stack, trapping, result, scratch>>

------------------------------------------------------------------------------
(* main, external: it may switch interrupts on or off, and returns with    *)
(* the stack as it found it, unless a trap has done it harm (Unwrap).      *)
Work ==
  /\ pc = "main"
  /\ mie' \in BOOLEAN
  /\ UNCHANGED <<pc, run, registers, temporaries, fs, zeroed, stack, trapping, result, scratch>>

Leave ==
  /\ pc = "main"
  /\ a0' \in Returns /\ result' = a0'
  /\ Goto(IF ra = ExitRa THEN "exit" ELSE "lost")
  /\ UNCHANGED <<run, sp, gp, ra, temporaries, status, stack, trapping, scratch>>

(* Interrupts taken by main or, if it has left them on, by _exit.          *)
Trap ==
  /\ mie /\ pc \in Interruptible /\ traps < MaxTraps
  /\ Goto("wrap")
  /\ back' = pc /\ traps' = traps + 1
  /\ mie' = FALSE
  /\ UNCHANGED <<run, registers, temporaries, fs, zeroed, stack, result, scratch>>

(* _trap_handler_wrap: a frame of 16 words, in which ra alone is saved.    *)
Wrap ==
  /\ pc = "wrap" /\ Goto("handler")
  /\ sp' = sp - 16
  /\ stack' = [stack EXCEPT ![sp' + 15] = ra]
  /\ ra' = OtherRa
  /\ UNCHANGED <<run, gp, a0, temporaries, status, trapping, result, scratch>>

\* trap_vector, external.
Handle ==
  /\ pc = "handler" /\ Goto("unwrap")
  /\ \/ program.handler = "keeps" /\ UNCHANGED <<a0, temporaries>>
     \/ /\ program.handler = "clobbers"
        /\ a0' \in {0, a0} /\ t0' \in {0, t0} /\ base' \in {FALSE, base} /\ t2' = t2
  /\ UNCHANGED <<run, sp, gp, ra, status, stack, trapping, result, scratch>>

(* Back to the code that was interrupted.  What main does when a register  *)
(* that it relied on has changed is unknown.                               *)
Unwrap ==
  /\ pc = "unwrap"
  /\ \/ Goto(back)
     \/ back = "main" /\ program.handler = "clobbers" /\ Goto("lost")
  /\ ra' = stack[sp + 15]
  /\ sp' = sp + 16
  /\ mie' = TRUE
  /\ UNCHANGED <<run, gp, a0, temporaries, fs, zeroed, stack, trapping, result, scratch>>

------------------------------------------------------------------------------
(* _exit: the caller's registers; then the return value with the bit that  *)
(* says it is there, the address of the registers of the SoC, and back to  *)
(* the caller.                                                             *)
Restore ==
  /\ pc = "exit" /\ Goto("shift")
  /\ ra' = stack[sp + 2] /\ gp' = stack[sp + 1] /\ sp' = stack[sp]
  /\ UNCHANGED <<run, a0, temporaries, status, stack, trapping, result, scratch>>

ShiftResult ==
  /\ pc = "shift" /\ Goto("base")
  /\ t0' = 2 * a0 + 1
  /\ UNCHANGED <<t2, base, run, registers, status, stack, trapping, result, scratch>>

LoadBase ==
  /\ pc = "base" /\ Goto("store")
  /\ base' = TRUE
  /\ UNCHANGED <<t0, t2, run, registers, status, stack, trapping, result, scratch>>

StoreResult ==
  /\ pc = "store" /\ Goto("returned")
  /\ scratch' = IF base THEN t0 ELSE scratch
  /\ UNCHANGED <<run, registers, temporaries, status, stack, trapping, result>>

Crt0Next ==
  \/ Enter \/ SetUp \/ Vector \/ ZeroBss \/ ZeroByte \/ InitFp \/ CallMain
  \/ Work \/ Leave \/ Trap \/ Wrap \/ Handle \/ Unwrap
  \/ Restore \/ ShiftResult \/ LoadBase \/ StoreResult
==============================================================================
