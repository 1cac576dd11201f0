---------------------------- MODULE ProgramStart -----------------------------
(***************************************************************************)
(* From an ELF file to main and back: a host of the test bench loads the   *)
(* file and starts it, and the C runtime prepares main and returns from    *)
(* it.  How the host hands the entry point over is PassiveBoot's part.     *)
(***************************************************************************)
EXTENDS ElfLoad, Crt0

vars == <<host, mem, crt0>>

\* A file carries what its linker has put in it.
Init == HostInit /\ Crt0Init /\ program = file.program

Load == HostNext /\ UNCHANGED crt0

\* The hart is sent to the entry point; anywhere else nothing is known of it.
Start ==
  /\ hpc = "start" /\ pc = "away"
  /\ Goto(IF entry = program.start THEN "start" ELSE "lost")
  /\ UNCHANGED <<run, registers, temporaries, status, stack, trapping, result, scratch, host, mem>>

Run ==
  /\ Crt0Next
  /\ mem' = [a \in Where |-> IF a \in Cleared THEN Zero ELSE mem[a]]
  /\ UNCHANGED host

Next == Load \/ Start \/ Run

\* Host and hart go on, main returns; main need not do more, nor traps come.
RunSteps ==
  \/ Enter \/ SetUp \/ Vector \/ ZeroBss \/ ZeroByte \/ InitFp \/ CallMain
  \/ Leave \/ Wrap \/ Handle \/ Unwrap
  \/ Restore \/ ShiftResult \/ LoadBase \/ StoreResult

Spec == Init /\ [][Next]_vars /\ WF_vars(Load) /\ WF_vars(Start) /\ WF_vars(Run /\ RunSteps)

TypeOK == HostTypeOK /\ Crt0TypeOK

------------------------------------------------------------------------------
(* Premises of the proofs: the stacks have room for a frame of _exit and   *)
(* one of a trap; and nothing is linked at address 0, which is what a      *)
(* truncated file starts.                                                  *)
Top(q) == IF q.stack = 0 THEN CallerSp ELSE q.stack
Roomy ==
  /\ CallerSp \in 16 .. StackWords
  /\ \A q \in Programs : Top(q) \in 19 .. StackWords
LinkedAbove == \A q \in Programs : q.start # 0

------------------------------------------------------------------------------
(* What a host has loaded is what the file has, section by section, if the *)
(* sections ascend and the host can write where they start: bursts leave   *)
(* no gap, and the zeros that fill up a last word touch neither another    *)
(* section nor memory beyond that word.                                    *)
JustLoaded == hpc = "start" /\ pc = "away" /\ file.kind \notin Truncated /\ Tidy

SectionCells(h) == file.phdrs[h].paddr .. file.phdrs[h].paddr + file.phdrs[h].memsz - 1
FillCells(h) == LET end == file.phdrs[h].paddr + file.phdrs[h].memsz IN end .. end + WordBytes - 1

LoadedExact ==
  JustLoaded =>
    /\ \A h \in LoadHeaders : Loaded(h)
    /\ \A a \in Where \ UNION {SectionCells(h) : h \in LoadHeaders} :
         mem[a] # Old => mem[a] = Zero /\ \E h \in LoadHeaders : a \in FillCells(h)

(* main finds the program as it was linked: every byte of content, and     *)
(* zeros in all of .bss, be they loaded, left out of the file or cleared   *)
(* by the runtime in whole turns and single bytes; interrupts are off,     *)
(* floating point is on, its registers zero and their state clean.         *)
Linked ==
  \A h \in LoadHeaders : \A a \in SectionCells(h) :
    a - file.phdrs[h].paddr < file.phdrs[h].filesz => a \notin program.bss .. program.end - 1

MainSeesImage ==
  /\ pc = "call" => ~mie /\ fs = 2 /\ zeroed
  /\ pc \in {"call", "main"} /\ Tidy /\ Linked =>
       /\ \A h \in LoadHeaders : Loaded(h)
       /\ \A a \in Where \cap (program.bss .. program.end - 1) : mem[a] = Zero

\* What gp is while a program runs.
OwnGp(q) == IF q.gp = 0 THEN CallerGp ELSE q.gp

\* What is at stake for the result: a trap handler that changes registers.
Harmless == program.handler # "clobbers"

(* A program that has been entered gets back to its caller, with the       *)
(* caller's stack pointer; but with the global pointer it has set itself,  *)
(* which is what crt0.S:39 has stored.  The result of main is in a0 and in *)
(* the register that the host polls.  If the trap handler changes          *)
(* registers, which the wrapper does not save, this holds only as long as  *)
(* no trap comes: in main it may do any harm, behind main it may take the  *)
(* result away.  The frames survive it: only ra and sp are needed.         *)
ReturnsContext ==
  /\ pc = "lost" => entry # program.start \/ (~Harmless /\ traps > 0)
  /\ pc = "returned" =>
       /\ sp = CallerSp /\ ra = CallerRa /\ gp = OwnGp(program)
       /\ Harmless \/ back = "main" => a0 = result /\ scratch = 2 * result + 1

(* "This wraps the C trap handler to save the (integer-only) caller-save   *)
(* registers" (crt0.S:133): whatever traps come and whatever registers the *)
(* handler uses, what main returned is what the host reads.                *)
TrapsHarmless == pc = "returned" => scratch = 2 * result + 1

(* "Restore the original context registers" (crt0.S:121): the caller has   *)
(* all three of them back.                                                 *)
ContextRestored ==
  pc = "returned" => sp = CallerSp /\ gp = CallerGp /\ ra = CallerRa

(* Loading ends for every file, and a program that was started comes back. *)
Ended ==
  \/ hpc = "fatal" \/ pc \in {"parked", "returned", "lost"}
  \/ pc = "handler" /\ program.handler = "none"
Ends == <>Ended
==============================================================================
