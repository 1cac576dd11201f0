----------------------------- MODULE PassiveBoot -----------------------------
(***************************************************************************)
(* Passive boot: hart 0 in the boot ROM, from reset to the program that a  *)
(* host loads and starts, and that host, over one of three ways in:        *)
(*   "jtag"   the host halts hart 0, loads, sets its pc and resumes it;    *)
(*   "slink"  the host loads through the serial link, writes the entry     *)
(*            point to scratch[1:0] and the launch bit to scratch[2];      *)
(*   "uart"   the host talks to the debug server of the boot ROM.          *)
(* The host learns that the program is done, and its return value, from    *)
(* scratch[2] or, over UART, from an end-of-computation byte.              *)
(*                                                                         *)
(* The image is a sequence of bursts; mem counts the bytes of each that    *)
(* have landed.  One without bytes stands for the empty burst that a       *)
(* section may end with, if its length is a multiple of the burst.  The    *)
(* serial wires are queues in order; a 64-bit field of a command is one    *)
(* element.  Time is not modelled: see HostPatient.                        *)
(***************************************************************************)
EXTENDS Integers, Sequences

CONSTANTS
  Hosts,        (* Hosts considered: of "jtag", "slink" and "uart".       *)
  LlcChoices,   (* Values of regs.HW_FEATURES.llc considered.             *)
  BurstLens,    (* The lengths of the image's bursts.                     *)
  ReadBack,     (* The UART host also reads the first burst back.         *)
  Output,       (* The bytes the program prints: "char" or "EOC".         *)
  Returns,      (* What the program may return.                           *)
  TopBit,       (* 2^31, the top bit of a scratch register.               *)
  HostPatient   (* What the host waits for has had time to settle: the    *)
                (* LLC after a poll, the debug loop before a challenge.   *)

ASSUME PassiveBootAssumption ==
  /\ Hosts \subseteq {"jtag", "slink", "uart"}
  /\ LlcChoices \cup {ReadBack, HostPatient} \subseteq BOOLEAN
  /\ BurstLens \in Seq(Nat) /\ Len(BurstLens) > 0
  /\ Output \in Seq({"char", "EOC"})
  /\ TopBit \in Nat \ {0} /\ Returns \subseteq 0 .. 2 * TopBit - 1

WordSize == 2 * TopBit

Bursts == DOMAIN BurstLens

\* The halves of the entry point, as they are written to scratch[0] and [1].
EntryLow == 5
EntryHigh == 6

(* What the proofs ask of the constants.  The fields of a command fit      *)
(* their words; the program does not print the byte 0x14; the host waits   *)
(* for the LLC, and for the boot ROM before it greets it.                  *)
Fitting ==
  /\ EntryHigh < WordSize
  /\ Len(BurstLens) < WordSize /\ \A n \in Bursts : BurstLens[n] < WordSize
  /\ \A k \in DOMAIN Output : Output[k] # "EOC"
  /\ HostPatient

VARIABLES
  rpc,      (* Where hart 0 is.                                           *)
  llc,      (* The LLC: present, BIST done, CFG_SPM_LOW/HIGH, committed.  *)
  scratch,  (* Scratch registers 0, 1, 2.                                 *)
  back,     (* Where hart 0 goes when the program has returned to its ra. *)
  addr,     (* What hart 0 has read as an address: a burst, or its halves.*)
  count,    (* Bytes of the current string, or of the output, still to do.*)
  ret,      (* What the program returns.                                  *)
  mem,      (* How many bytes of each burst are in memory.                *)
  rx, tx,   (* UART, to the boot ROM and from it.                         *)
  via,      (* Which host it is.                                          *)
  hpc,      (* Where the host is.                                         *)
  burst,    (* The burst the host is at.                                  *)
  sent,     (* Bytes of the burst written or read back by the host.       *)
  eoc,      (* uart_boot_eoc.                                             *)
  code      (* The exit code the host reports.                            *)

rom == <<rpc, back, addr, count, ret>>
host == <<via, hpc, burst, sent, eoc, code>>
vars == <<rpc, back, llc, scratch, addr, count, ret, mem, rx, tx, via, hpc, burst, sent, eoc, code>>

Wire(kind, value) == [kind |-> kind, value |-> value]
Byte(kind) == Wire(kind, 0)
Kinds == {"ACK", "EOT", "EOC", "READ", "WRITE", "EXEC", "field", "data", "char", "return"}
Launch == 2     \* scratch[2], bit 1: start; bit 0: the program has returned

RomLabels ==
  {"bist", "low", "high", "commit", "uart_init", "poll", "check", "clear", "entry", "next_stage",
   "greet", "cmd", "read_addr", "read_len", "read", "write_addr", "write_len", "write",
   "exec_addr", "run", "lost", "exit", "return", "eoc", "spin", "halted"}
HostLabels ==
  {"llc", "halt", "load", "resume", "high", "low", "launch", "poll", "challenge", "greeted",
   "command", "acked", "body", "ended", "exec", "exec_acked", "wait_eoc", "code", "done", "fatal"}

TypeOK ==
  /\ rpc \in RomLabels
  /\ llc \in [present : LlcChoices, bist : BOOLEAN, low : BOOLEAN, high : BOOLEAN, committed : BOOLEAN]
  /\ scratch \in [0 .. 2 -> 0 .. WordSize - 1]
  /\ addr \in [low : 0 .. WordSize - 1, high : 0 .. WordSize - 1]
  /\ back \in {"eoc", "spin", "uart_init", "poll", "greet"}
  /\ count \in Nat
  /\ ret \in Returns \cup {1}
  /\ mem \in [Bursts -> Nat]
  /\ \A q \in {rx, tx} : q \in Seq([kind : Kinds, value : 0 .. WordSize - 1])
  /\ via \in Hosts /\ hpc \in HostLabels
  /\ burst \in 1 .. Len(BurstLens) + 1
  /\ sent \in Nat
  /\ eoc \in BOOLEAN
  /\ code \in -1 .. WordSize - 1

Init ==
  /\ via \in Hosts
  /\ llc \in [present : LlcChoices, bist : {FALSE}, low : {FALSE}, high : {FALSE}, committed : {FALSE}]
  /\ rpc = IF llc.present THEN "bist" ELSE "uart_init"
  /\ scratch = [i \in 0 .. 2 |-> 0]
  /\ addr = [low |-> 0, high |-> 0]
  /\ count = 0
  /\ ret \in Returns
  /\ mem = [n \in Bursts |-> 0]
  /\ rx = <<>> /\ tx = <<>>
  /\ back = IF via = "uart" THEN "eoc" ELSE "spin"
  /\ hpc = IF via = "uart" THEN "challenge" ELSE "llc"
  /\ burst = 1 /\ sent = 0
  /\ eoc = FALSE
  /\ code = -1

\* Hart 0 reaches label b from label a.
Rom(a, b) == rpc = a /\ rpc' = b
HostStep(a, b) == hpc = a /\ hpc' = b

\* Memory the host loads to is there: SPM once the LLC has been told.
SpmReady == llc.present => llc.committed

\* A byte of burst n lands in memory, or nowhere.
Land(n) == mem' = IF SpmReady THEN [mem EXCEPT ![n] = @ + 1] ELSE mem

------------------------------------------------------------------------------
(* bootrom.S: wait for the BIST, then make all of the LLC scratchpad.      *)
BistEnds ==
  /\ ~llc.bist /\ llc.present
  /\ llc' = [llc EXCEPT !.bist = TRUE]
  /\ UNCHANGED <<rom, scratch, mem, rx, tx, host>>

WaitBist ==
  /\ llc.bist /\ Rom("bist", "low")
  /\ UNCHANGED <<back, llc, scratch, addr, count, ret, mem, rx, tx, host>>

SetSpmLow ==
  /\ Rom("low", "high")
  /\ llc' = [llc EXCEPT !.low = TRUE]
  /\ UNCHANGED <<back, scratch, addr, count, ret, mem, rx, tx, host>>

SetSpmHigh ==
  /\ Rom("high", "commit")
  /\ llc' = [llc EXCEPT !.high = TRUE]
  /\ UNCHANGED <<back, scratch, addr, count, ret, mem, rx, tx, host>>

Commit ==
  /\ Rom("commit", "uart_init")
  /\ llc' = [llc EXCEPT !.committed = TRUE]
  /\ UNCHANGED <<back, scratch, addr, count, ret, mem, rx, tx, host>>

(* boot_passive: uart_init clears the FIFOs, then the ROM polls.           *)
UartInit ==
  /\ Rom("uart_init", "poll")
  /\ rx' = <<>>
  /\ UNCHANGED <<back, llc, scratch, addr, count, ret, mem, tx, host>>

PollScratch ==
  /\ rpc = "poll"
  /\ rpc' = IF (scratch[2] \div Launch) % 2 = 1 THEN "clear" ELSE "check"
  /\ UNCHANGED <<back, llc, scratch, addr, count, ret, mem, rx, tx, host>>

(* uart_debug_check: one byte is taken if there is one, whatever it is.    *)
CheckUart ==
  /\ rpc = "check"
  /\ IF rx = <<>> THEN rpc' = "poll" /\ UNCHANGED rx
     ELSE rpc' = (IF Head(rx).kind = "ACK" THEN "greet" ELSE "poll") /\ rx' = Tail(rx)
  /\ UNCHANGED <<back, llc, scratch, addr, count, ret, mem, tx, host>>

ClearLaunch ==
  /\ Rom("clear", "entry")
  /\ scratch' = [scratch EXCEPT ![2] = 0]
  /\ UNCHANGED <<back, llc, addr, count, ret, mem, rx, tx, host>>

\* Of what is at other addresses than the entry point nothing is known.
AtEntry == addr = [low |-> EntryLow, high |-> EntryHigh]
Jump(from) == rpc = from /\ rpc' = IF AtEntry' THEN "run" ELSE "lost"

(* The two halves of the entry point are two reads.                        *)
ReadEntryHigh ==
  /\ Rom("entry", "next_stage")
  /\ addr' = [addr EXCEPT !.high = scratch[1]]
  /\ UNCHANGED <<back, llc, scratch, count, ret, mem, rx, tx, host>>

ReadEntryLow ==
  /\ addr' = [addr EXCEPT !.low = scratch[0]]
  /\ Jump("next_stage")
  /\ count' = Len(Output)
  /\ UNCHANGED <<back, llc, scratch, ret, mem, rx, tx, host>>

------------------------------------------------------------------------------
(* uart_debug_serve.                                                       *)
Say(bytes) == tx' = tx \o bytes
Hear == rx # <<>> /\ rx' = Tail(rx)

Greet ==
  /\ Rom("greet", "cmd")
  /\ Say(<<Byte("ACK")>>)
  /\ UNCHANGED <<back, llc, scratch, addr, count, ret, mem, rx, host>>

\* A byte that is no command ends the server, and main, with 1.
ServeCommand ==
  /\ rpc = "cmd" /\ Hear
  /\ rpc' = CASE Head(rx).kind = "READ" -> "read_addr"
              [] Head(rx).kind = "WRITE" -> "write_addr"
              [] Head(rx).kind = "EXEC" -> "exec_addr"
              [] OTHER -> "return"
  /\ ret' = IF rpc' = "return" THEN 1 ELSE ret
  /\ UNCHANGED <<back, llc, scratch, addr, count, mem, tx, host>>

ServeAddr ==
  /\ \/ Rom("read_addr", "read_len") \/ Rom("write_addr", "write_len")
  /\ Hear
  /\ addr' = [addr EXCEPT !.low = Head(rx).value]
  /\ UNCHANGED <<back, llc, scratch, count, ret, mem, tx, host>>

ServeLen ==
  /\ \/ Rom("read_len", "read") \/ Rom("write_len", "write")
  /\ Hear
  /\ count' = Head(rx).value
  /\ Say(<<Byte("ACK")>>)
  /\ UNCHANGED <<back, llc, scratch, addr, ret, mem, host>>

\* Wrong version: one byte more than the length is sent.
ServeReadOneMore ==
  /\ rpc = "read"
  /\ IF count >= 0
       THEN Say(<<Byte("data")>>) /\ count' = count - 1 /\ UNCHANGED rpc
       ELSE Say(<<Byte("EOT")>>) /\ rpc' = "cmd" /\ UNCHANGED count
  /\ UNCHANGED <<back, llc, scratch, addr, ret, mem, rx, host>>

ServeRead ==
  /\ rpc = "read"
  /\ IF count > 0
       THEN Say(<<Byte("data")>>) /\ count' = count - 1 /\ UNCHANGED rpc
       ELSE Say(<<Byte("EOT")>>) /\ rpc' = "cmd" /\ UNCHANGED count
  /\ UNCHANGED <<back, llc, scratch, addr, ret, mem, rx, host>>

ServeWrite ==
  /\ rpc = "write"
  /\ IF count > 0
       THEN Hear /\ Land(addr.low) /\ count' = count - 1 /\ UNCHANGED <<rpc, tx>>
       ELSE Say(<<Byte("EOT")>>) /\ rpc' = "cmd" /\ UNCHANGED <<rx, mem, count>>
  /\ UNCHANGED <<back, llc, scratch, addr, ret, host>>

ServeExec ==
  /\ Hear
  /\ addr' = [low |-> Head(rx).value, high |-> EntryHigh]
  /\ Jump("exec_addr")
  /\ count' = Len(Output)
  /\ Say(<<Byte("ACK")>>)
  /\ UNCHANGED <<back, llc, scratch, ret, mem, host>>

------------------------------------------------------------------------------
(* The program: prints its output, then main returns to crt0.              *)
Run ==
  /\ rpc = "run"
  /\ IF count > 0
       THEN Say(<<Byte(Output[Len(Output) - count + 1])>>) /\ count' = count - 1 /\ UNCHANGED rpc
       ELSE rpc' = "exit" /\ UNCHANGED <<tx, count>>
  /\ UNCHANGED <<back, llc, scratch, addr, ret, mem, rx, host>>

\* What _exit stores of a return value: the top bit does not fit.
ExitWord(v) == (2 * v + 1) % WordSize

(* crt0's _exit stores the return value and returns to the ra it was       *)
(* entered with: to the debug server, to the last instruction of           *)
(* boot_next_stage, a loop, or to what JtagHalt has interrupted.           *)
CrtExit ==
  /\ Rom("exit", back)
  /\ scratch' = [scratch EXCEPT ![2] = ExitWord(ret)]
  /\ UNCHANGED <<back, llc, addr, count, ret, mem, rx, tx, host>>

\* Wrong version: the UART reports the word that scratch[2] holds.
ServeReturnWord ==
  /\ Rom("eoc", "return")
  /\ Say(<<Byte("EOC"), Wire("return", scratch[2])>>)
  /\ UNCHANGED <<back, llc, scratch, addr, count, ret, mem, rx, host>>

ServeReturn ==
  /\ Rom("eoc", "return")
  /\ Say(<<Byte("EOC"), Wire("return", ret)>>)
  /\ UNCHANGED <<back, llc, scratch, addr, count, ret, mem, rx, host>>

\* Wrong version: the boot ROM stores the value as it is.
RomExitPlain ==
  /\ Rom("return", "spin")
  /\ scratch' = [scratch EXCEPT ![2] = ret]
  /\ UNCHANGED <<back, llc, addr, count, ret, mem, rx, tx, host>>

(* main returns to the boot ROM's _exit.                                   *)
RomExit ==
  /\ Rom("return", "spin")
  /\ scratch' = [scratch EXCEPT ![2] = ExitWord(ret)]
  /\ UNCHANGED <<back, llc, addr, count, ret, mem, rx, tx, host>>

------------------------------------------------------------------------------
\* Wrong version: the host does not wait for the LLC.
HostWaitLlcOmitted ==
  /\ HostStep("llc", IF via = "jtag" THEN "halt" ELSE "load")
  /\ UNCHANGED <<via, rom, llc, scratch, mem, rx, tx, burst, sent, eoc, code>>

(* The host.  Over JTAG and serial link it first waits for the LLC; only   *)
(* CFG_SPM_LOW is polled.                                                  *)
HostWaitLlc ==
  /\ HostStep("llc", IF via = "jtag" THEN "halt" ELSE "load")
  /\ llc.present => llc.low /\ (HostPatient => llc.committed)
  /\ UNCHANGED <<via, rom, llc, scratch, mem, rx, tx, burst, sent, eoc, code>>

\* The host sets hart 0's pc and leaves its ra.  In the measurement before
\* the UART is set up, ra is in main; in the polling loop it is the return
\* of uart_debug_check, with the program's result, or of a function it
\* calls; before main, it is still 0, where there is no code.
Interrupted ==
  CASE rpc = "uart_init" -> {"uart_init"}
    [] rpc \in {"poll", "check"} -> IF ret # 0 THEN {"poll", "greet"} ELSE {"poll"}
    [] OTHER -> {"spin"}

JtagHalt ==
  /\ HostStep("halt", "load")
  /\ rpc' = "halted"
  /\ back' \in Interrupted
  /\ UNCHANGED <<via, addr, count, ret, llc, scratch, mem, rx, tx, burst, sent, eoc, code>>

(* One burst over the debug module's system bus or over the serial link.   *)
(* The links cut sections at different lengths: over the serial link, one  *)
(* without bytes is either not made, or ends the simulation (next action). *)
PreloadBurst ==
  /\ hpc = "load"
  /\ mem' = IF SpmReady THEN [mem EXCEPT ![burst] = BurstLens[burst]] ELSE mem
  /\ burst' = burst + 1
  /\ hpc' = IF burst < Len(BurstLens) THEN hpc
            ELSE IF via = "jtag" THEN "resume" ELSE "high"
  /\ UNCHANGED <<via, rom, llc, scratch, rx, tx, sent, eoc, code>>

(* The section is a multiple of the link's burst, and aligned: its last    *)
(* burst has no beats.                                                     *)
SlinkZeroLength ==
  /\ HostStep("load", "fatal") /\ via = "slink"
  /\ BurstLens[burst] = 0
  /\ UNCHANGED <<via, rom, llc, scratch, mem, rx, tx, burst, sent, eoc, code>>

JtagResume ==
  /\ HostStep("resume", "poll")
  /\ Rom("halted", "run")
  /\ addr' = [low |-> EntryLow, high |-> EntryHigh]
  /\ count' = Len(Output)
  /\ UNCHANGED <<via, back, ret, llc, scratch, mem, rx, tx, burst, sent, eoc, code>>

\* Wrong version: the launch signal is given before the entry point is there.
SlinkLaunchFirst ==
  /\ HostStep("high", "low")
  /\ scratch' = [scratch EXCEPT ![1] = EntryHigh, ![2] = Launch]
  /\ UNCHANGED <<via, rom, llc, mem, rx, tx, burst, sent, eoc, code>>

SlinkEntryHigh ==
  /\ HostStep("high", "low")
  /\ scratch' = [scratch EXCEPT ![1] = EntryHigh]
  /\ UNCHANGED <<via, rom, llc, mem, rx, tx, burst, sent, eoc, code>>

SlinkEntryLow ==
  /\ HostStep("low", "launch")
  /\ scratch' = [scratch EXCEPT ![0] = EntryLow]
  /\ UNCHANGED <<via, rom, llc, mem, rx, tx, burst, sent, eoc, code>>

SlinkLaunch ==
  /\ HostStep("launch", "poll")
  /\ scratch' = [scratch EXCEPT ![2] = Launch]
  /\ UNCHANGED <<via, rom, llc, mem, rx, tx, burst, sent, eoc, code>>

(* jtag_wait_for_eoc, slink_wait_for_eoc.                                  *)
PollEoc ==
  /\ HostStep("poll", "done")
  /\ scratch[2] % 2 = 1
  /\ code' = scratch[2] \div 2
  /\ UNCHANGED <<via, rom, llc, scratch, mem, rx, tx, burst, sent, eoc>>

\* uart_debug_rw: it writes the image's bursts, and then reads back the first.
Writing == burst \in Bursts
Target == IF Writing THEN burst ELSE 1

(* uart_boot_ena: the host waits for a byte.  It sets the flag as soon as  *)
(* it has written its last byte or taken one, before another can have come *)
(* in.                                                                     *)
Scooping ==
  \/ hpc \in {"greeted", "acked", "ended", "exec_acked", "code"}
  \/ hpc = "body" /\ ~Writing

\* The reading process hands the next byte to the host that waits for it.
Receive == tx # <<>> /\ tx' = Tail(tx)
Scoop == Scooping /\ Receive

\* uart_boot_scoop_expect: the byte, or the end of the simulation.
Then(kind, label) == hpc' = IF Head(tx).kind = kind THEN label ELSE "fatal"

Challenge ==
  /\ HostStep("challenge", "greeted")
  /\ HostPatient => rpc \in {"poll", "check"}
  /\ rx' = Append(rx, Byte("ACK"))
  /\ UNCHANGED <<via, rom, llc, scratch, mem, tx, burst, sent, eoc, code>>

Greeted ==
  /\ hpc = "greeted" /\ Scoop
  /\ Then("ACK", "command")
  /\ UNCHANGED <<via, rom, llc, scratch, mem, rx, burst, sent, eoc, code>>

Command ==
  /\ HostStep("command", "acked")
  /\ rx' = rx \o <<Byte(IF Writing THEN "WRITE" ELSE "READ"),
                   Wire("field", Target), Wire("field", BurstLens[Target])>>
  /\ sent' = 0
  /\ UNCHANGED <<via, rom, llc, scratch, mem, tx, burst, eoc, code>>

Acked ==
  /\ hpc = "acked" /\ Scoop
  /\ Then("ACK", IF BurstLens[Target] = 0 THEN "ended" ELSE "body")
  /\ UNCHANGED <<via, rom, llc, scratch, mem, rx, burst, sent, eoc, code>>

\* Wrong version: the host takes a while to wait for the EOT.
BodyLate ==
  /\ hpc = "body"
  /\ IF sent = BurstLens[Target] THEN hpc' = "ended" /\ UNCHANGED <<rx, tx, sent>>
     ELSE /\ sent' = sent + 1 /\ hpc' = hpc
          /\ \/ Writing /\ rx' = Append(rx, Byte("data")) /\ UNCHANGED tx
             \/ Scoop /\ UNCHANGED rx
  /\ UNCHANGED <<via, rom, llc, scratch, mem, burst, eoc, code>>

Body ==
  /\ hpc = "body"
  /\ sent' = sent + 1
  /\ hpc' = IF sent' = BurstLens[Target] THEN "ended" ELSE hpc
  /\ \/ Writing /\ rx' = Append(rx, Byte("data")) /\ UNCHANGED tx
     \/ Scoop /\ UNCHANGED rx
  /\ UNCHANGED <<via, rom, llc, scratch, mem, burst, eoc, code>>

Ended ==
  /\ hpc = "ended" /\ Scoop
  /\ burst' = IF Writing THEN burst + 1 ELSE burst
  /\ Then("EOT", IF burst < Len(BurstLens) \/ (ReadBack /\ Writing) THEN "command" ELSE "exec")
  /\ UNCHANGED <<via, rom, llc, scratch, mem, rx, sent, eoc, code>>

Exec ==
  /\ HostStep("exec", "exec_acked")
  /\ rx' = rx \o <<Byte("EXEC"), Wire("field", EntryLow)>>
  /\ UNCHANGED <<via, rom, llc, scratch, mem, tx, burst, sent, eoc, code>>

ExecAcked ==
  /\ hpc = "exec_acked" /\ Scoop
  /\ Then("ACK", "wait_eoc")
  /\ UNCHANGED <<via, rom, llc, scratch, mem, rx, burst, sent, eoc, code>>

\* Wrong version: any output is taken for the end of the computation.
ReadTextAny ==
  /\ ~Scooping /\ hpc # "fatal" /\ ~(hpc = "wait_eoc" /\ eoc)
  /\ Receive
  /\ eoc' = TRUE
  /\ UNCHANGED <<via, rom, llc, scratch, mem, rx, hpc, burst, sent, code>>

(* The reading process prints a byte that nobody waits for, whatever it    *)
(* answers, and takes any byte 0x14 for the end of the computation.  A     *)
(* host that waits for that goes on before the next byte has come in.      *)
ReadText ==
  /\ ~Scooping /\ hpc # "fatal" /\ ~(hpc = "wait_eoc" /\ eoc)
  /\ Receive
  /\ eoc' = (eoc \/ Head(tx).kind = "EOC")
  /\ UNCHANGED <<via, rom, llc, scratch, mem, rx, hpc, burst, sent, code>>

EocSeen ==
  /\ HostStep("wait_eoc", "code")
  /\ eoc /\ eoc' = FALSE
  /\ UNCHANGED <<via, rom, llc, scratch, mem, rx, tx, burst, sent, code>>

\* The four bytes of the exit code are one element of the wire.
ReceiveCode ==
  /\ HostStep("code", "done") /\ Scoop
  /\ code' = Head(tx).value
  /\ UNCHANGED <<via, rom, llc, scratch, mem, rx, burst, sent, eoc>>

------------------------------------------------------------------------------
LlcStep == BistEnds \/ WaitBist \/ SetSpmLow \/ SetSpmHigh \/ Commit
BootStep == UartInit \/ PollScratch \/ CheckUart \/ ClearLaunch \/ ReadEntryHigh \/ ReadEntryLow
ServeStep ==
  Greet \/ ServeCommand \/ ServeAddr \/ ServeLen \/ ServeRead \/ ServeWrite \/ ServeExec
ProgramStep == Run \/ CrtExit \/ ServeReturn \/ RomExit
RomStep == LlcStep \/ BootStep \/ ServeStep \/ ProgramStep

JtagStep == JtagHalt \/ JtagResume
SlinkStep == SlinkZeroLength \/ SlinkEntryHigh \/ SlinkEntryLow \/ SlinkLaunch
UartStep ==
  \/ Challenge \/ Greeted \/ Command \/ Acked \/ Body \/ Ended
  \/ Exec \/ ExecAcked \/ ReadText \/ EocSeen \/ ReceiveCode
HostNext == HostWaitLlc \/ PreloadBurst \/ PollEoc \/ JtagStep \/ SlinkStep \/ UartStep

\* There is an end, or the debugger polls for ever.
Done ==
  /\ \/ hpc = "done" /\ rpc \in {"spin", "cmd"}
     \/ hpc \in {"poll", "done"} /\ rpc = "lost"
  /\ UNCHANGED vars
Next == RomStep \/ HostNext \/ Done

Spec == Init /\ [][Next]_vars

\* Hart 0 is always running unless it is halted, and the host goes on.
FairSpec == Spec /\ WF_vars(RomStep) /\ WF_vars(HostNext)

------------------------------------------------------------------------------
(* What a scratch register carries of a result: the top bit is lost.  What *)
(* remains may look like the launch bit.                                   *)
Kept(v) == IF v < TopBit THEN v ELSE v - TopBit
Delivered == IF via = "uart" THEN ret ELSE Kept(ret)

\* A debugger's program that returns into the polling loop of the boot ROM
\* with an odd result, which is taken for a launch signal.
Misread == via = "jtag" /\ back \in {"uart_init", "poll"} /\ Kept(ret) % 2 = 1

(* Whenever hart 0 enters the program, every burst of the image is in      *)
(* memory, complete; and it is sent nowhere else than to the entry point   *)
(* the host meant, both halves of it: launch signal, entry point, LLC      *)
(* set-up and the server's commands never overtake each other.  Only an    *)
(* odd result of a debugger's program sends it elsewhere, afterwards.      *)
RunsWholeImage ==
  /\ rpc = "run" => \A n \in Bursts : mem[n] = BurstLens[n]
  /\ rpc = "lost" => Misread

(* When the host reports an exit code it is the value the program          *)
(* returned, although the scratch register that carries it carried the     *)
(* launch signal before, and the wire the program's output; except that    *)
(* crt0.S:126 shifts the top bit out of the scratch register.              *)
ExitCodeExact == hpc = "done" => code = Delivered

(* The host gets to the end: neither side waits for a byte, an ACK or a    *)
(* bit the other has not sent, or has sent and seen cleared, or that has   *)
(* been printed as text.  Excepted are a burst without beats over the      *)
(* serial link, and an odd result that the boot ROM clears before the      *)
(* debugger has polled it.                                                 *)
Stopped == via = "slink" /\ hpc = "fatal" /\ BurstLens[burst] = 0
Ends == <>(hpc = "done" \/ Stopped \/ rpc = "lost")

(* Once the UART host has seen an end of computation, the program has      *)
(* returned, as uart_debug.c:19 says of that byte.  A program that prints  *)
(* the byte 0x14 itself breaks this: nothing on the wire tells them apart. *)
EocMeansReturned == eoc => rpc \notin {"run", "exit", "eoc"}

(* What a program leaves in scratch[2] for the host is not taken away      *)
(* again, by whatever code it returns into, if it is not an odd result     *)
(* that a debugger waits for.                                              *)
ResultThere == scratch[2] % 2 = 1
EocStays == [][ResultThere => scratch'[2] = scratch[2] \/ Misread]_vars

(* "Save the return value to scratch register 2 and wait forever"          *)
(* (crt0.S:125), whatever the value is and whoever has started the program. *)
EocStaysAlways == [][ResultThere => scratch'[2] = scratch[2]]_vars

(* Over each of the three ways in, host, boot ROM and debug server do what *)
(* the module HostedRun says: the host's chain is load, enter, return,     *)
(* report, once and in this order, although the ROM may be back in its     *)
(* polling loop after the program.  One has returned when scratch[2] says  *)
(* so, or the boot ROM has taken that for a launch signal; and bursts      *)
(* without a byte are no part of the image.                                *)
Image == {n \in Bursts : BurstLens[n] > 0}
InMemory == {n \in Image : mem[n] = BurstLens[n]}
Returned == ResultThere \/ (via = "jtag" /\ rpc \in {"entry", "next_stage", "lost"})
Stage ==
  IF Returned THEN "returned"
  ELSE IF rpc \in {"run", "exit"} THEN "running" ELSE "waiting"

Hosted == INSTANCE HostedRun WITH
  Parts <- Image, Values <- 0 .. WordSize - 1, None <- -1,
  loaded <- InMemory, stage <- Stage, result <- IF Returned THEN Delivered ELSE -1, report <- code

RunsHosted == Hosted!Spec
==============================================================================
