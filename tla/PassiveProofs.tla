---------------------------- MODULE PassiveProofs -----------------------------
(***************************************************************************)
(* Proofs about PassiveBoot, for every image, every output of the program  *)
(* and every interleaving of the boot ROM and the host, over each of the   *)
(* three ways in.                                                          *)
(***************************************************************************)
EXTENDS PassiveBoot, Quotients, SequenceTheorems

LlcLabels == {"bist", "low", "high", "commit"}
Polling == {"uart_init", "poll", "check"}
Resumed == {"spin", "uart_init", "poll", "greet"}
Relaunch == {"clear", "entry", "next_stage", "lost"}

(* Memory is there once the LLC has been set up, and the host does not     *)
(* load before.                                                            *)
LlcInv ==
  /\ rpc \in LlcLabels => llc.present /\ ~llc.committed /\ hpc \in {"llc", "challenge"}
  /\ rpc \notin LlcLabels => SpmReady

(* The bursts before the current one are in memory, and a UART host starts *)
(* each of the others from nothing.                                        *)
Exchanging == hpc \in {"acked", "body", "ended"}

MemInv ==
  /\ \A n \in Bursts : n < burst => mem[n] = BurstLens[n]
  /\ hpc = "load" => burst \in Bursts
  /\ hpc \in {"llc", "halt", "challenge", "greeted"} => burst = 1
  /\ hpc \in {"resume", "high", "low", "launch", "poll", "exec", "exec_acked", "wait_eoc", "code", "done"} =>
       burst = Len(BurstLens) + 1
  /\ via = "uart" => \A n \in Bursts : n > burst \/ (n = burst /\ ~Exchanging) => mem[n] = 0

\* No end of computation on a wire.
NoEnd(q) == \A k \in 1 .. Len(q) : q[k].kind # "EOC"

\* What a program returns is what the constants allow; its entry point is whole.
ProgramInv ==
  /\ ret \in Returns
  /\ rpc \in {"run", "exit"} => addr = [low |-> EntryLow, high |-> EntryHigh]
  /\ rpc = "run" => count <= Len(Output)
  /\ via # "jtag" => back = IF via = "uart" THEN "eoc" ELSE "spin"
  /\ via # "uart" => rx = <<>> /\ ~eoc /\ NoEnd(tx)

(* Over JTAG, hart 0 polls again after the program, and takes the result   *)
(* for a launch signal only if it is odd.                                  *)
JtagInv ==
  via = "jtag" =>
    /\ hpc \in {"llc", "halt", "load", "resume", "poll", "done"}
    /\ hpc \in {"llc", "halt"} => rpc \in LlcLabels \cup Polling
    /\ hpc \in {"load", "resume"} => rpc = "halted"
    /\ hpc \in {"load", "resume", "poll", "done"} => back \in Resumed
    /\ hpc \in {"poll", "done"} => rpc \in {"run", "exit", "greet", "cmd", "spin"} \cup Polling \cup Relaunch
    /\ scratch[0] = 0 /\ scratch[1] = 0
    /\ scratch[2] = IF hpc \in {"poll", "done"} /\ rpc \notin {"run", "exit", "entry", "next_stage", "lost"}
                     THEN ExitWord(ret) ELSE 0
    /\ rpc \in Relaunch => hpc \in {"poll", "done"} /\ Misread
    /\ rpc \in Polling /\ hpc \in {"poll", "done"} => back \in {"uart_init", "poll"}
    /\ rpc = "next_stage" => addr.high = 0
    /\ hpc = "done" => code = Kept(ret) /\ rpc \notin {"run", "exit"}

(* Over the serial link, the launch signal comes after the entry point and *)
(* the image, is taken away once, and the result comes after it.           *)
SlinkInv ==
  via = "slink" =>
    /\ hpc \in {"llc", "load", "high", "low", "launch", "poll", "done", "fatal"}
    /\ hpc \in {"low", "launch", "poll", "done"} => scratch[1] = EntryHigh
    /\ hpc \in {"launch", "poll", "done"} => scratch[0] = EntryLow
    /\ hpc \in {"llc", "load", "high", "low", "launch", "fatal"} =>
         rpc \in LlcLabels \cup Polling /\ scratch[2] = 0
    /\ hpc = "poll" =>
         \/ scratch[2] = Launch /\ rpc \in Polling \cup {"clear"}
         \/ scratch[2] = 0 /\ rpc \in {"entry", "next_stage", "run", "exit"}
         \/ scratch[2] = ExitWord(ret) /\ rpc = "spin"
    /\ rpc = "next_stage" => addr.high = EntryHigh
    /\ hpc = "done" => code = Kept(ret) /\ scratch[2] = ExitWord(ret) /\ rpc = "spin"

(* Over UART: the greeting.                                                *)
GreetInv ==
  via = "uart" =>
    /\ hpc \in {"challenge", "greeted", "command", "acked", "body", "ended",
                "exec", "exec_acked", "wait_eoc", "code", "done"}
    /\ scratch[2] = IF rpc \in {"eoc", "return", "spin"} THEN ExitWord(ret) ELSE 0
    /\ hpc = "challenge" => rpc \in LlcLabels \cup Polling /\ rx = <<>> /\ tx = <<>>
    /\ hpc = "greeted" =>
         \/ rpc \in {"poll", "check"} /\ rx = <<Byte("ACK")>> /\ tx = <<>>
         \/ rpc = "greet" /\ rx = <<>> /\ tx = <<>>
         \/ rpc = "cmd" /\ rx = <<>> /\ tx = <<Byte("ACK")>>
    /\ hpc \in {"command", "exec"} => rpc = "cmd" /\ rx = <<>> /\ tx = <<>>
    /\ eoc => hpc = "wait_eoc"

(* Over UART: a command.  What the host sends for it and what the server   *)
(* answers are two fixed streams; the wires hold the part of each that one *)
(* side has sent and the other not yet taken.                              *)
Size == BurstLens[Target]
Request(n) ==
  IF n = 1 THEN Byte(IF Writing THEN "WRITE" ELSE "READ")
  ELSE IF n = 2 THEN Wire("field", Target)
  ELSE IF n = 3 THEN Wire("field", Size) ELSE Byte("data")
Fetched == IF Writing THEN 0 ELSE Size
Reply(n) ==
  IF n = 1 THEN Byte("ACK") ELSE IF n <= 1 + Fetched THEN Byte("data") ELSE Byte("EOT")

Posted == 3 + (IF Writing THEN sent ELSE 0)
Heard == IF hpc = "acked" THEN 0 ELSE 1 + (IF Writing THEN 0 ELSE sent)

Coming(taken) == Len(rx) = Posted - taken /\ \A k \in 1 .. Len(rx) : rx[k] = Request(taken + k)
Going(given) == Len(tx) = given - Heard /\ \A k \in 1 .. Len(tx) : tx[k] = Reply(Heard + k)
Streams(taken, given) == Coming(taken) /\ Going(given)

CommandInv ==
  Exchanging /\ via = "uart" =>
    /\ sent <= Size
    /\ hpc = "acked" => sent = 0
    /\ hpc = "body" => sent < Size
    /\ hpc = "ended" => sent = Size
    /\ \/ rpc = "cmd" /\ Streams(0, 0) /\ (Writing => mem[burst] = 0)
       \/ rpc = "cmd" /\ Streams(Posted, 2 + Fetched) /\ (Writing => sent = Size /\ mem[burst] = Size)
       \/ /\ rpc = IF Writing THEN "write_addr" ELSE "read_addr"
          /\ Streams(1, 0) /\ (Writing => mem[burst] = 0)
       \/ /\ rpc = IF Writing THEN "write_len" ELSE "read_len"
          /\ addr.low = Target
          /\ Streams(2, 0) /\ (Writing => mem[burst] = 0)
       \/ rpc = "read" /\ ~Writing /\ count <= Size /\ Streams(3, 1 + Size - count)
       \/ /\ rpc = "write" /\ Writing /\ addr.low = Target /\ count <= Size
          /\ Streams(3 + Size - count, 1) /\ mem[burst] = Size - count

(* Over UART: the program.  All that it and the server send from the last  *)
(* acknowledgement on is one stream too.                                   *)
ExecReply(n) ==
  IF n = 1 THEN Byte("ACK")
  ELSE IF n <= 1 + Len(Output) THEN Byte(Output[n - 1])
  ELSE IF n = 2 + Len(Output) THEN Byte("EOC") ELSE Wire("return", ret)

Given ==
  IF rpc = "run" THEN 1 + Len(Output) - count
  ELSE IF rpc \in {"exit", "eoc"} THEN 1 + Len(Output) ELSE 3 + Len(Output)

ExecInv ==
  hpc \in {"exec_acked", "wait_eoc", "code", "done"} /\ via = "uart" =>
    \/ hpc = "exec_acked" /\ rpc = "cmd" /\ rx = <<Byte("EXEC"), Wire("field", EntryLow)>> /\ tx = <<>>
    \/ hpc = "exec_acked" /\ rpc = "exec_addr" /\ rx = <<Wire("field", EntryLow)>> /\ tx = <<>>
    \/ /\ rpc \in {"run", "exit", "eoc", "return", "spin"} /\ rx = <<>>
       /\ Len(tx) <= Given /\ \A k \in 1 .. Len(tx) : tx[k] = ExecReply(Given - Len(tx) + k)
       /\ hpc = "exec_acked" => Len(tx) = Given
       /\ hpc = "wait_eoc" /\ ~eoc =>
            Len(tx) < Given /\ (rpc \in {"return", "spin"} => Len(tx) >= 2)
       /\ eoc \/ hpc \in {"code", "done"} => rpc \in {"return", "spin"}
       /\ eoc \/ hpc = "code" => Len(tx) = 1
       /\ hpc = "done" => code = ret /\ tx = <<>>

PassiveInv ==
  /\ TypeOK /\ LlcInv /\ MemInv /\ ProgramInv /\ JtagInv /\ SlinkInv
  /\ GreetInv /\ CommandInv /\ ExecInv
------------------------------------------------------------------------------
LEMMA Constants ==
  ASSUME Fitting
  PROVE  /\ Bursts = 1 .. Len(BurstLens) /\ Len(BurstLens) \in Nat /\ Len(BurstLens) >= 1
         /\ Len(BurstLens) < WordSize
         /\ \A n \in Bursts : BurstLens[n] \in Nat /\ BurstLens[n] < WordSize
         /\ Len(Output) \in Nat /\ DOMAIN Output = 1 .. Len(Output)
         /\ \A k \in 1 .. Len(Output) : Output[k] = "char"
         /\ WordSize \in Nat /\ WordSize > 6
         /\ HostPatient
<1>1. /\ BurstLens \in Seq(Nat) /\ Len(BurstLens) > 0 /\ Output \in Seq({"char", "EOC"})
      /\ WordSize \in Nat
  BY PassiveBootAssumption DEF WordSize
<1>2. /\ Bursts = 1 .. Len(BurstLens) /\ Len(BurstLens) \in Nat /\ Len(BurstLens) >= 1
      /\ \A n \in Bursts : BurstLens[n] \in Nat
  BY <1>1 DEF Bursts
<1>3. /\ Len(Output) \in Nat /\ DOMAIN Output = 1 .. Len(Output)
      /\ \A k \in 1 .. Len(Output) : Output[k] \in {"char", "EOC"}
  BY <1>1
<1>4. \A k \in 1 .. Len(Output) : Output[k] = "char"
  BY <1>3 DEF Fitting
<1>. QED  BY <1>1, <1>2, <1>3, <1>4 DEF Fitting, EntryHigh

LEMMA ReturnFacts ==
  ASSUME Fitting, ret \in Returns
  PROVE  /\ ret \in Nat /\ ExitWord(ret) \in 0 .. WordSize - 1
         /\ ExitWord(ret) % 2 = 1 /\ ExitWord(ret) \div 2 = Kept(ret)
         /\ ret \in 0 .. WordSize - 1 /\ Kept(ret) \in 0 .. WordSize - 1
<1>1. ret \in Nat /\ ret < 2 * TopBit /\ TopBit \in Nat /\ TopBit > 0 /\ WordSize = 2 * TopBit
  BY PassiveBootAssumption DEF WordSize
<1>2. Kept(ret) \in Nat /\ Kept(ret) < TopBit
  BY <1>1 DEF Kept
<1>3. ExitWord(ret) = 2 * Kept(ret) + 1
  <2>1. CASE ret < TopBit
    <3>1. 2 * ret + 1 \in 0 .. WordSize - 1 /\ 2 * ret + 1 = WordSize * 0 + (2 * ret + 1) /\ WordSize \in Nat \ {0}
      BY <1>1, <2>1
    <3>2. (2 * ret + 1) % WordSize = 2 * ret + 1
      BY <3>1, QuotientUnique
    <3>. QED  BY <2>1, <3>2 DEF ExitWord, Kept
  <2>2. CASE ~(ret < TopBit)
    <3>1. /\ 2 * (ret - TopBit) + 1 \in 0 .. WordSize - 1 /\ WordSize \in Nat \ {0}
          /\ 2 * ret + 1 = WordSize * 1 + (2 * (ret - TopBit) + 1)
      BY <1>1, <2>2
    <3>2. (2 * ret + 1) % WordSize = 2 * (ret - TopBit) + 1
      BY <3>1, QuotientUnique
    <3>. QED  BY <2>2, <3>2 DEF ExitWord, Kept
  <2>. QED  BY <2>1, <2>2
<1>4. (2 * Kept(ret) + 1) % 2 = 1 /\ (2 * Kept(ret) + 1) \div 2 = Kept(ret)
  BY <1>2, SMTT(20)
<1>. QED  BY <1>1, <1>2, <1>3, <1>4

\* The burst or the string that the host is at.
LEMMA TargetFacts ==
  ASSUME Fitting, burst \in 1 .. Len(BurstLens) + 1
  PROVE  /\ burst \in Nat /\ (Writing <=> burst <= Len(BurstLens))
         /\ Target \in Bursts /\ Target \in Nat /\ Target < WordSize
         /\ Size \in Nat /\ Size < WordSize /\ (Writing => Target = burst /\ Size = BurstLens[burst])
         /\ Fetched \in Nat
<1>1. burst \in Nat /\ (Writing <=> burst <= Len(BurstLens))
  BY Constants DEF Writing
<1>2. Target \in Bursts /\ (Writing => Target = burst)
  BY <1>1, Constants DEF Target, Writing
<1>3. Target \in Nat /\ Target < WordSize /\ Size \in Nat /\ Size < WordSize
  BY <1>2, Constants DEF Size
<1>. QED  BY <1>1, <1>2, <1>3 DEF Size, Fetched

Wires == [kind : Kinds, value : 0 .. WordSize - 1]

LEMMA WireFacts ==
  ASSUME Fitting
  PROVE  /\ \A kind \in Kinds : Byte(kind) \in Wires
         /\ \A kind \in Kinds, value \in 0 .. WordSize - 1 : Wire(kind, value) \in Wires
BY Constants DEF Byte, Wire, Wires

LlcStates == [present : LlcChoices, bist : BOOLEAN, low : BOOLEAN, high : BOOLEAN, committed : BOOLEAN]

LEMMA InitialInv ==
  ASSUME Fitting, Init
  PROVE  PassiveInv
<1>1. /\ Bursts = 1 .. Len(BurstLens) /\ Len(BurstLens) \in Nat /\ Len(BurstLens) >= 1
      /\ WordSize \in Nat /\ WordSize > 6
  BY Constants
<1>2. /\ llc \in LlcStates /\ llc.committed = FALSE /\ llc.present \in BOOLEAN
  <2>1. /\ llc.present \in LlcChoices /\ llc.bist = FALSE /\ llc.low = FALSE /\ llc.high = FALSE
        /\ llc.committed = FALSE
        /\ llc = [present |-> llc.present, bist |-> llc.bist, low |-> llc.low, high |-> llc.high,
                  committed |-> llc.committed]
    BY DEF Init
  <2>2. llc = [present |-> llc.present, bist |-> FALSE, low |-> FALSE, high |-> FALSE, committed |-> FALSE]
    BY <2>1
  <2>3. llc \in LlcStates
    BY <2>1, <2>2, Zenon DEF LlcStates
  <2>. QED  BY <2>1, <2>3, PassiveBootAssumption
<1>3. TypeOK
  <2>1. /\ rpc \in RomLabels /\ back \in {"eoc", "spin", "uart_init", "poll", "greet"}
        /\ via \in Hosts /\ hpc \in HostLabels
    BY DEF Init, RomLabels, HostLabels
  <2>2. scratch \in [0 .. 2 -> 0 .. WordSize - 1] /\ addr \in [low : 0 .. WordSize - 1, high : 0 .. WordSize - 1]
    BY <1>1 DEF Init
  <2>3. ret \in Returns \cup {1}
    BY DEF Init
  <2>4. mem \in [Bursts -> Nat]
    BY DEF Init
  <2>5. rx = <<>> /\ tx = <<>> /\ <<>> \in Seq(Wires)
    BY DEF Init
  <2>6. burst \in 1 .. Len(BurstLens) + 1 /\ code \in -1 .. WordSize - 1
    BY <1>1 DEF Init
  <2>7. count \in Nat /\ sent \in Nat /\ eoc \in BOOLEAN
    BY DEF Init
  <2>. QED  BY <1>2, <2>1, <2>2, <2>3, <2>4, <2>5, <2>6, <2>7 DEF TypeOK, LlcStates, Wires
<1>4. LlcInv
  BY <1>2 DEF Init, LlcInv, LlcLabels, SpmReady
<1>5. MemInv
  BY <1>1 DEF Init, MemInv
<1>6. ProgramInv
  BY DEF Init, ProgramInv
<1>7. JtagInv /\ SlinkInv
  BY DEF Init, JtagInv, SlinkInv, LlcLabels, Polling
<1>8. GreetInv /\ CommandInv /\ ExecInv
  BY DEF Init, GreetInv, CommandInv, ExecInv, Exchanging, LlcLabels, Polling
<1>. QED  BY <1>3, <1>4, <1>5, <1>6, <1>7, <1>8 DEF PassiveInv
------------------------------------------------------------------------------
(* Which way in a label belongs to, and the types that the steps need.     *)
ServeLabels == {"read_addr", "read_len", "read", "write_addr", "write_len", "write", "exec_addr"}
UartLabels ==
  {"challenge", "greeted", "command", "acked", "body", "ended", "exec", "exec_acked", "wait_eoc", "code"}

LEMMA WayIn ==
  ASSUME Fitting, PassiveInv
  PROVE  /\ via \in {"jtag", "slink", "uart"}
         /\ rx # <<>> \/ eoc => via = "uart"
         /\ rpc \in ServeLabels \cup {"eoc", "return"} => via = "uart"
         /\ rpc \in Relaunch => via # "uart"
         /\ rpc = "halted" => via = "jtag" /\ hpc \in {"load", "resume"}
         /\ hpc \in {"halt", "resume"} => via = "jtag"
         /\ hpc \in {"high", "low", "launch"} => via = "slink"
         /\ hpc \in {"llc", "load", "poll"} => via # "uart"
         /\ hpc \in UartLabels => via = "uart"
<1>1. /\ TypeOK /\ ProgramInv /\ JtagInv /\ SlinkInv /\ GreetInv /\ CommandInv /\ ExecInv
  BY DEF PassiveInv
<1>2. via \in {"jtag", "slink", "uart"}
  BY PassiveBootAssumption, <1>1 DEF TypeOK
<1>3. rx # <<>> \/ eoc => via = "uart"
  BY <1>1 DEF ProgramInv
<1>4. ASSUME via = "jtag"
      PROVE  /\ rpc \notin ServeLabels \cup {"eoc", "return"}
             /\ rpc = "halted" => hpc \in {"load", "resume"}
             /\ hpc \notin UartLabels \cup {"high", "low", "launch"}
  BY <1>1, <1>4 DEF JtagInv, LlcLabels, Polling, Relaunch, ServeLabels, UartLabels
<1>5. ASSUME via = "slink"
      PROVE  /\ rpc \notin ServeLabels \cup {"eoc", "return", "halted"}
             /\ hpc \notin UartLabels \cup {"halt", "resume"}
  BY <1>1, <1>5 DEF SlinkInv, LlcLabels, Polling, ServeLabels, UartLabels
<1>6. ASSUME via = "uart"
      PROVE  /\ rpc \notin Relaunch \cup {"halted"}
             /\ hpc \notin {"llc", "load", "poll", "halt", "resume", "high", "low", "launch"}
  <2>1. hpc \notin {"llc", "load", "poll", "halt", "resume", "high", "low", "launch"}
    BY <1>1, <1>6 DEF GreetInv
  <2>2. CASE hpc \in {"challenge", "greeted", "command", "exec"}
    BY <1>1, <1>6, <2>1, <2>2 DEF GreetInv, LlcLabels, Polling, Relaunch
  <2>3. CASE Exchanging
    BY <1>1, <1>6, <2>1, <2>3 DEF CommandInv, Relaunch
  <2>4. CASE hpc \in {"exec_acked", "wait_eoc", "code", "done"}
    BY <1>1, <1>6, <2>1, <2>4 DEF ExecInv, Relaunch
  <2>. QED  BY <1>1, <1>6, <2>1, <2>2, <2>3, <2>4 DEF GreetInv, Exchanging
<1>. QED  BY <1>2, <1>3, <1>4, <1>5, <1>6 DEF UartLabels, ServeLabels, Relaunch

LEMMA Types ==
  ASSUME Fitting, PassiveInv
  PROVE  /\ rpc \in RomLabels /\ hpc \in HostLabels
         /\ llc \in LlcStates /\ llc.present \in BOOLEAN
         /\ scratch \in [0 .. 2 -> 0 .. WordSize - 1] /\ DOMAIN scratch = 0 .. 2
         /\ addr \in [low : 0 .. WordSize - 1, high : 0 .. WordSize - 1]
         /\ back \in {"eoc", "spin"} \cup Resumed
         /\ count \in Nat /\ sent \in Nat /\ eoc \in BOOLEAN
         /\ mem \in [Bursts -> Nat] /\ burst \in 1 .. Len(BurstLens) + 1
         /\ rx \in Seq(Wires) /\ tx \in Seq(Wires)
         /\ ret \in Returns
<1>1. TypeOK /\ ProgramInv
  BY DEF PassiveInv
<1>2. llc \in LlcStates /\ llc.present \in BOOLEAN
  BY <1>1, PassiveBootAssumption DEF TypeOK, LlcStates
<1>3. rx \in Seq(Wires) /\ tx \in Seq(Wires)
  BY <1>1 DEF TypeOK, Wires
<1>. QED  BY <1>1, <1>2, <1>3 DEF TypeOK, ProgramInv, Resumed

\* A command that waits to be served, and what it is.
LEMMA Waiting ==
  ASSUME Fitting, PassiveInv, rpc \in {"cmd", "exec_addr"}, rx # <<>>
  PROVE  /\ via = "uart" /\ Len(rx) >= 1 /\ Head(rx) = rx[1]
         /\ \/ /\ rpc = "cmd" /\ Exchanging /\ Streams(0, 0) /\ (Writing => mem[burst] = 0)
               /\ Head(rx).kind = IF Writing THEN "WRITE" ELSE "READ"
            \/ /\ rpc = "cmd" /\ hpc = "exec_acked" /\ tx = <<>>
               /\ rx = <<Byte("EXEC"), Wire("field", EntryLow)>>
            \/ /\ rpc = "exec_addr" /\ hpc = "exec_acked" /\ tx = <<>> /\ rx = <<Wire("field", EntryLow)>>
<1>1. /\ ProgramInv /\ GreetInv /\ CommandInv /\ ExecInv /\ via = "uart" /\ rx \in Seq(Wires)
      /\ sent \in Nat /\ Fetched \in Nat
  BY WayIn, Types, TargetFacts DEF PassiveInv
<1>2. Len(rx) \in Nat /\ Len(rx) >= 1 /\ Head(rx) = rx[1]
  BY <1>1
<1>3. CASE Exchanging
  <2>1. ~Streams(Posted, 2 + Fetched)
    BY <1>1, <1>2 DEF Streams, Coming, Going, Posted
  <2>2. rpc = "cmd" /\ Streams(0, 0) /\ (Writing => mem[burst] = 0)
    BY <1>1, <1>3, <2>1 DEF CommandInv
  <2>3. rx[1] = Byte(IF Writing THEN "WRITE" ELSE "READ")
    BY <1>1, <1>2, <2>2 DEF Streams, Coming, Going, Request
  <2>. QED  BY <1>1, <1>2, <1>3, <2>2, <2>3 DEF Byte, Wire
<1>4. CASE hpc \in {"exec_acked", "wait_eoc", "code", "done"}
  BY <1>1, <1>2, <1>4 DEF ExecInv
<1>5. hpc \notin {"challenge", "greeted", "command", "exec"}
  BY <1>1 DEF GreetInv, LlcLabels, Polling
<1>. QED  BY <1>1, <1>3, <1>4, <1>5 DEF GreetInv, Exchanging
\* The server in the middle of a command.
LEMMA Serving ==
  ASSUME Fitting, PassiveInv, rpc \in ServeLabels \ {"exec_addr"}
  PROVE  /\ via = "uart" /\ Exchanging
         /\ rpc \in {"write_addr", "write_len", "write"} <=> Writing
         /\ rpc \in {"read_addr", "write_addr"} => Streams(1, 0) /\ (Writing => mem[burst] = 0)
         /\ rpc \in {"read_len", "write_len"} =>
              addr.low = Target /\ Streams(2, 0) /\ (Writing => mem[burst] = 0)
         /\ rpc = "read" => count <= Size /\ Streams(3, 1 + Size - count)
         /\ rpc = "write" =>
              addr.low = Target /\ count <= Size /\ Streams(3 + Size - count, 1) /\ mem[burst] = Size - count
<1>1. GreetInv /\ CommandInv /\ ExecInv /\ via = "uart"
  BY WayIn DEF PassiveInv
<1>2. Exchanging
  BY <1>1 DEF GreetInv, ExecInv, ServeLabels, LlcLabels, Polling, Exchanging
<1>. QED  BY <1>1, <1>2 DEF CommandInv, ServeLabels

\* What the UART host finds first on its wire when it waits for a token.
LEMMA Answers ==
  ASSUME Fitting, PassiveInv, tx # <<>>
  PROVE  /\ Len(tx) \in Nat /\ Len(tx) >= 1 /\ Head(tx) = tx[1]
         /\ hpc = "greeted" => rpc = "cmd" /\ Head(tx).kind = "ACK" /\ rx = <<>> /\ Tail(tx) = <<>>
         /\ hpc = "acked" => Head(tx).kind = "ACK"
         /\ hpc = "ended" =>
              /\ Head(tx).kind = "EOT" /\ Len(tx) = 1 /\ rpc = "cmd" /\ rx = <<>>
              /\ Writing => mem[burst] = Size
         /\ hpc = "exec_acked" =>
              /\ Head(tx).kind = "ACK" /\ Len(tx) = Given
              /\ rpc \in {"run", "exit", "eoc", "return", "spin"}
         /\ via = "uart" /\ ~Scooping => hpc = "wait_eoc"
<1>1. /\ GreetInv /\ CommandInv /\ ExecInv /\ tx \in Seq(Wires) /\ rx \in Seq(Wires)
      /\ sent \in Nat /\ count \in Nat
      /\ Size \in Nat /\ Fetched = IF Writing THEN 0 ELSE Size
  BY Types, TargetFacts DEF PassiveInv, Fetched
<1>2. Len(tx) \in Nat /\ Len(tx) >= 1 /\ Head(tx) = tx[1]
  BY <1>1
<1>3. ASSUME hpc = "greeted"
      PROVE  rpc = "cmd" /\ Head(tx).kind = "ACK" /\ rx = <<>> /\ Tail(tx) = <<>>
  <2>1. rpc = "cmd" /\ rx = <<>> /\ tx = <<Byte("ACK")>>
    BY <1>1, <1>3, WayIn DEF GreetInv, UartLabels
  <2>. QED  BY <2>1 DEF Byte, Wire
<1>4. ASSUME hpc = "acked"
      PROVE  Head(tx).kind = "ACK"
  <2>1. \E taken, given : Streams(taken, given)
    BY <1>1, <1>4, WayIn DEF CommandInv, Exchanging, UartLabels
  <2>2. tx[1] = Reply(1)
    BY <1>2, <1>4, <2>1 DEF Streams, Coming, Going, Heard
  <2>. QED  BY <1>2, <2>2 DEF Reply, Byte, Wire
<1>5. ASSUME hpc = "ended"
      PROVE  /\ Head(tx).kind = "EOT" /\ Len(tx) = 1 /\ rpc = "cmd" /\ rx = <<>>
             /\ Writing => mem[burst] = Size
  <2>1. Exchanging /\ via = "uart" /\ sent = Size /\ Heard = 1 + Fetched
    BY <1>1, <1>5, WayIn DEF CommandInv, Exchanging, UartLabels, Heard
  <2>2. \A taken, given : Streams(taken, given) => Len(tx) = given - (1 + Fetched)
    BY <2>1 DEF Streams, Coming, Going
  <2>3. /\ rpc = "cmd" /\ Streams(Posted, 2 + Fetched)
        /\ Writing => mem[burst] = Size
    BY <1>1, <1>2, <2>1, <2>2 DEF CommandInv
  <2>4. rx = <<>> /\ Len(tx) = 1 /\ tx[1] = Reply(2 + Fetched)
    <3>1. Len(rx) = Posted - Posted /\ Posted \in Nat
      BY <1>1, <2>3 DEF Streams, Coming, Going, Posted
    <3>2. rx = <<>>
      BY <1>1, <3>1
    <3>3. Len(tx) = 1 /\ tx[1] = Reply(Heard + 1)
      BY <1>1, <1>2, <2>1, <2>3 DEF Streams, Coming, Going
    <3>. QED  BY <1>1, <2>1, <3>2, <3>3
  <2>5. Reply(2 + Fetched) = Byte("EOT")
    BY <1>1 DEF Reply
  <2>. QED  BY <1>2, <2>3, <2>4, <2>5 DEF Byte, Wire
<1>6. ASSUME hpc = "exec_acked"
      PROVE  /\ Head(tx).kind = "ACK" /\ Len(tx) = Given
             /\ rpc \in {"run", "exit", "eoc", "return", "spin"}
  <2>1. /\ rpc \in {"run", "exit", "eoc", "return", "spin"} /\ Len(tx) = Given
        /\ tx[1] = ExecReply(Given - Len(tx) + 1)
    BY <1>1, <1>2, <1>6, WayIn DEF ExecInv, UartLabels
  <2>2. Given - Len(tx) + 1 = 1
    BY <1>2, <2>1
  <2>. QED  BY <1>2, <2>1, <2>2 DEF ExecReply, Byte, Wire
<1>7. ASSUME via = "uart", ~Scooping
      PROVE  hpc = "wait_eoc"
  <2>1. hpc \in {"challenge", "command", "body", "exec", "wait_eoc", "done"} /\ (hpc = "body" => Writing)
    BY <1>1, <1>7 DEF GreetInv, Scooping
  <2>2. hpc \notin {"challenge", "command", "exec"}
    BY <1>1, <1>2, <1>7 DEF GreetInv
  <2>3. hpc # "done"
    BY <1>1, <1>2, <1>7 DEF ExecInv
  <2>4. ASSUME hpc = "body" PROVE FALSE
    <3>1. Exchanging /\ Writing /\ Heard = 1 /\ sent < Size
      BY <1>1, <1>7, <2>1, <2>4 DEF Exchanging, Heard, CommandInv
    <3>2. \A taken, given : Streams(taken, given) => Len(tx) = given - 1
      BY <3>1 DEF Streams, Coming, Going
    <3>. QED  BY <1>1, <1>2, <1>7, <3>1, <3>2 DEF CommandInv
  <2>. QED  BY <2>1, <2>2, <2>3, <2>4
<1>. QED  BY <1>2, <1>3, <1>4, <1>5, <1>6, <1>7
------------------------------------------------------------------------------
(* The parts of the invariant that hold over every way in, or over one of  *)
(* the two without a wire: each is kept by every step.                     *)
LEMMA LlcKept ==
  ASSUME Fitting, PassiveInv, Next
  PROVE  LlcInv'
<1>1. /\ LlcInv /\ HostPatient /\ llc.present \in BOOLEAN /\ llc \in LlcStates
      /\ back \in {"eoc", "spin"} \cup Resumed
  BY Types, Constants DEF PassiveInv
<1>2. ASSUME LlcStep PROVE LlcInv'
  BY <1>1, <1>2 DEF LlcStep, BistEnds, WaitBist, SetSpmLow, SetSpmHigh, Commit, Rom, Jump, rom, host,
    LlcInv, SpmReady, LlcLabels, LlcStates, Resumed
<1>3. ASSUME BootStep PROVE LlcInv'
  BY <1>1, <1>3 DEF BootStep, UartInit, PollScratch, CheckUart, ClearLaunch, ReadEntryHigh,
    ReadEntryLow, Rom, Jump, rom, host, LlcInv, SpmReady, LlcLabels, LlcStates, Resumed
<1>4. ASSUME ServeStep PROVE LlcInv'
  BY <1>1, <1>4 DEF ServeStep, Greet, ServeCommand, ServeAddr, ServeLen, ServeRead, ServeWrite,
    ServeExec, Rom, Jump, rom, host, Say, Hear, Land, LlcInv, SpmReady, LlcLabels, LlcStates, Resumed
<1>5. ASSUME ProgramStep PROVE LlcInv'
  BY <1>1, <1>5 DEF ProgramStep, Run, CrtExit, ServeReturn, RomExit, Rom, Jump, rom, host, Say, LlcInv,
    SpmReady, LlcLabels, LlcStates, Resumed
<1>6. ASSUME HostWaitLlc PROVE LlcInv'
  BY <1>1, <1>6 DEF HostWaitLlc, HostStep, rom, host, LlcInv, SpmReady, LlcLabels, LlcStates,
    Resumed
<1>7. ASSUME PreloadBurst \/ PollEoc PROVE LlcInv'
  BY <1>1, <1>7 DEF PreloadBurst, PollEoc, HostStep, rom, host, LlcInv, SpmReady, LlcLabels,
    LlcStates, Resumed
<1>8. ASSUME JtagStep PROVE LlcInv'
  BY <1>1, <1>8 DEF JtagStep, JtagHalt, JtagResume, HostStep, Rom, Jump, rom, host, Interrupted,
    LlcInv, SpmReady, LlcLabels, LlcStates, Resumed
<1>9. ASSUME SlinkStep PROVE LlcInv'
  BY <1>1, <1>9 DEF SlinkStep, SlinkEntryHigh, SlinkEntryLow, SlinkLaunch, SlinkZeroLength, HostStep, rom, host,
    LlcInv, SpmReady, LlcLabels, LlcStates, Resumed
<1>10. ASSUME UartStep PROVE LlcInv'
  <2>1. ASSUME Challenge PROVE LlcInv'
    BY <1>1, <2>1 DEF Challenge, HostStep, rom, host, Scoop, Receive, Then, LlcInv, SpmReady, LlcLabels,
      LlcStates, Resumed
  <2>2. ASSUME Greeted \/ Command \/ Acked \/ Body \/ Ended
               \/ Exec \/ ExecAcked \/ ReadText \/ EocSeen \/ ReceiveCode
        PROVE LlcInv'
    BY <1>1, <2>2 DEF Greeted, Command, Acked, Body, Ended, Exec, ExecAcked, ReadText,
      EocSeen, ReceiveCode, HostStep, rom, host, Scoop, Receive, Then, LlcInv, SpmReady, LlcLabels,
      LlcStates, Resumed
  <2>. QED  BY <1>10, <2>1, <2>2 DEF UartStep
<1>11. ASSUME Done PROVE LlcInv'
  BY <1>1, <1>11 DEF Done, vars, rom, host, LlcInv, SpmReady, LlcLabels, LlcStates, Resumed
<1>. QED  BY <1>2, <1>3, <1>4, <1>5, <1>6, <1>7, <1>8, <1>9, <1>10, <1>11 DEF Next, RomStep, HostNext
\* A byte is taken from a wire, or put on it.
LEMMA Text ==
  ASSUME tx \in Seq(Wires), NoEnd(tx)
  PROVE  /\ tx # <<>> => Head(tx).kind # "EOC" /\ NoEnd(Tail(tx))
         /\ \A kind \in Kinds \ {"EOC"} : NoEnd(tx \o <<Byte(kind)>>)
<1>1. ASSUME tx # <<>> PROVE Head(tx).kind # "EOC" /\ NoEnd(Tail(tx))
  <2>1. Head(tx) = tx[1] /\ Len(tx) >= 1 /\ Len(tx) \in Nat
    BY <1>1
  <2>2. Len(Tail(tx)) = Len(tx) - 1 /\ \A k \in 1 .. Len(Tail(tx)) : Tail(tx)[k] = tx[k + 1] /\ k + 1 \in 1 .. Len(tx)
    BY <1>1, <2>1
  <2>. QED  BY <2>1, <2>2 DEF NoEnd
<1>2. ASSUME NEW kind \in Kinds \ {"EOC"} PROVE NoEnd(tx \o <<Byte(kind)>>)
  <2>1. Byte(kind).kind # "EOC"
    BY DEF Byte, Wire
  <2>2. /\ Len(tx \o <<Byte(kind)>>) = Len(tx) + 1
        /\ \A k \in 1 .. Len(tx) + 1 : (tx \o <<Byte(kind)>>)[k] = IF k <= Len(tx) THEN tx[k] ELSE Byte(kind)
    OBVIOUS
  <2>. QED  BY <2>1, <2>2 DEF NoEnd
<1>. QED  BY <1>1, <1>2

\* The program's entry point, its result, and where it returns to.
LEMMA ProgramKept ==
  ASSUME Fitting, PassiveInv, Next
  PROVE  ProgramInv'
<1>1. /\ ProgramInv /\ GreetInv /\ JtagInv /\ SlinkInv /\ Len(Output) \in Nat
      /\ via \in {"jtag", "slink", "uart"} /\ back \in {"eoc", "spin"} \cup Resumed
  BY WayIn, Types, Constants DEF PassiveInv
<1>2. ASSUME LlcStep PROVE ProgramInv'
  BY <1>1, <1>2 DEF LlcStep, BistEnds, WaitBist, SetSpmLow, SetSpmHigh, Commit, Rom, Jump, rom, host,
    ProgramInv, Resumed
<1>3. ASSUME BootStep PROVE ProgramInv'
  <2>1. ASSUME UartInit PROVE ProgramInv'
    BY <1>1, <2>1, WayIn DEF UartInit, Rom, Jump, rom, host, ProgramInv, Resumed
  <2>2. ASSUME CheckUart PROVE ProgramInv'
    BY <1>1, <2>2, WayIn DEF CheckUart, Rom, Jump, rom, host, ProgramInv, Resumed
  <2>3. ASSUME ReadEntryLow PROVE ProgramInv'
    <3>1. /\ rpc' \in {"run", "lost"} /\ (rpc' = "run" => AtEntry')
          /\ count' = Len(Output) /\ UNCHANGED <<back, ret, rx, tx, via, eoc>>
      BY <2>3 DEF ReadEntryLow, Jump, host
    <3>2. rpc' = "run" => addr' = [low |-> EntryLow, high |-> EntryHigh]
      BY <3>1 DEF AtEntry
    <3>. QED  BY <1>1, <3>1, <3>2 DEF ProgramInv
  <2>4. ASSUME PollScratch \/ ClearLaunch \/ ReadEntryHigh PROVE ProgramInv'
    BY <1>1, <2>4 DEF PollScratch, ClearLaunch, ReadEntryHigh, Rom, Jump, rom, host, ProgramInv,
      Resumed
  <2>. QED  BY <1>3, <2>1, <2>2, <2>3, <2>4 DEF BootStep
<1>4. ASSUME ServeStep PROVE ProgramInv'
  <2>1. ASSUME ServeCommand PROVE ProgramInv'
    <3>1. via = "uart" /\ rpc' \in {"read_addr", "write_addr", "exec_addr"} /\ ret' = ret
      BY <2>1, Waiting DEF ServeCommand, Hear, Byte, Wire
    <3>. QED  BY <1>1, <2>1, <3>1 DEF ServeCommand, host, ProgramInv
  <2>2. ASSUME ServeAddr PROVE ProgramInv'
    BY <1>1, <2>2, WayIn DEF ServeAddr, Rom, Jump, rom, host, Say, Hear, Land, ProgramInv, Resumed,
      ServeLabels
  <2>3. ASSUME ServeLen PROVE ProgramInv'
    BY <1>1, <2>3, WayIn DEF ServeLen, Rom, Jump, rom, host, Say, Hear, Land, ProgramInv, Resumed
  <2>4. ASSUME ServeExec PROVE ProgramInv'
    <3>1. via = "uart" /\ rpc = "exec_addr"
      BY <2>4, Waiting DEF ServeExec, Jump, Hear
    <3>2. /\ rpc' \in {"run", "lost"} /\ (rpc' = "run" => AtEntry')
          /\ count' = Len(Output) /\ UNCHANGED <<back, ret, via>>
      BY <2>4 DEF ServeExec, Jump, host
    <3>3. rpc' = "run" => addr' = [low |-> EntryLow, high |-> EntryHigh]
      BY <3>2 DEF AtEntry
    <3>. QED  BY <1>1, <3>1, <3>2, <3>3 DEF ProgramInv
  <2>5. ASSUME ServeRead \/ ServeWrite PROVE ProgramInv'
    BY <1>1, <2>5, WayIn DEF ServeRead, ServeWrite, Rom, host, Say, Hear, ProgramInv, Resumed, ServeLabels
  <2>6. ASSUME Greet PROVE ProgramInv'
    <3>1. via # "uart" => NoEnd(tx')
      BY <1>1, <2>6, Types, Text DEF Greet, Say, ProgramInv, Kinds
    <3>. QED  BY <1>1, <2>6, <3>1 DEF Greet, Rom, host, ProgramInv
  <2>. QED  BY <1>4, <2>1, <2>2, <2>3, <2>4, <2>5, <2>6 DEF ServeStep
<1>5. ASSUME ProgramStep PROVE ProgramInv'
  <2>1. ASSUME Run PROVE ProgramInv'
    <3>1. /\ rpc' \in {"run", "exit"} /\ UNCHANGED <<via, ret, addr, back, rx, eoc>>
          /\ rpc' = "run" => count' = count - 1
      BY <2>1 DEF Run, host
    <3>2. rpc = "run" /\ count \in Nat /\ Len(Output) \in Nat
      BY <2>1, Types, Constants DEF Run
    <3>3. via # "uart" => NoEnd(tx')
      <4>1. tx' = tx \/ tx' = tx \o <<Byte("char")>>
        <5>1. count > 0 => Output[Len(Output) - count + 1] = "char"
          BY <1>1, <3>2, Constants DEF ProgramInv
        <5>. QED  BY <2>1, <5>1 DEF Run, Say
      <4>. QED  BY <1>1, <4>1, Types, Text DEF ProgramInv, Kinds
    <3>. QED  BY <1>1, <3>1, <3>2, <3>3 DEF ProgramInv
  <2>2. ASSUME CrtExit PROVE ProgramInv'
    BY <1>1, <2>2 DEF CrtExit, Rom, Jump, rom, host, Say, ProgramInv, Resumed
  <2>3. ASSUME ServeReturn \/ RomExit PROVE ProgramInv'
    BY <1>1, <2>3, WayIn DEF ServeReturn, RomExit, Rom, host, Say, ProgramInv, Resumed
  <2>. QED  BY <1>5, <2>1, <2>2, <2>3 DEF ProgramStep
<1>6. ASSUME HostWaitLlc \/ PreloadBurst \/ PollEoc PROVE ProgramInv'
  BY <1>1, <1>6 DEF HostWaitLlc, PreloadBurst, PollEoc, HostStep, rom, host, ProgramInv, Resumed
<1>7. ASSUME JtagStep PROVE ProgramInv'
  <2>1. ASSUME JtagHalt PROVE ProgramInv'
    BY <1>1, <2>1, WayIn DEF JtagHalt, HostStep, Rom, Jump, rom, host, Interrupted, ProgramInv, Resumed
  <2>2. ASSUME JtagResume PROVE ProgramInv'
    BY <1>1, <2>2, WayIn DEF JtagResume, HostStep, Rom, Jump, rom, host, Interrupted, ProgramInv,
      Resumed
  <2>. QED  BY <1>7, <2>1, <2>2 DEF JtagStep
<1>8. ASSUME SlinkStep PROVE ProgramInv'
  BY <1>1, <1>8 DEF SlinkStep, SlinkEntryHigh, SlinkEntryLow, SlinkLaunch, SlinkZeroLength, HostStep, rom, host,
    ProgramInv, Resumed
<1>9. ASSUME UartStep PROVE ProgramInv'
  <2>1. ASSUME Challenge PROVE ProgramInv'
    BY <1>1, <2>1, WayIn DEF Challenge, HostStep, rom, host, Scoop, Receive, Then, ProgramInv, Resumed,
      UartLabels
  <2>2. ASSUME Command PROVE ProgramInv'
    BY <1>1, <2>2, WayIn DEF Command, HostStep, rom, host, Scoop, Receive, Then, ProgramInv, Resumed,
      UartLabels
  <2>3. ASSUME Body PROVE ProgramInv'
    BY <1>1, <2>3, WayIn DEF Body, HostStep, rom, host, Scoop, Receive, Then, ProgramInv, Resumed,
      UartLabels
  <2>4. ASSUME Exec PROVE ProgramInv'
    BY <1>1, <2>4, WayIn DEF Exec, HostStep, rom, host, Scoop, Receive, Then, ProgramInv, Resumed,
      UartLabels
  <2>5. ASSUME ReadText PROVE ProgramInv'
    <3>1. via # "uart" => NoEnd(tx') /\ ~eoc'
      BY <1>1, <2>5, Types, Text DEF ReadText, Receive, ProgramInv
    <3>. QED  BY <1>1, <2>5, <3>1 DEF ReadText, rom, ProgramInv
  <2>6. ASSUME Greeted \/ Acked \/ Ended \/ ExecAcked \/ EocSeen \/ ReceiveCode PROVE ProgramInv'
    BY <1>1, <2>6, WayIn DEF Greeted, Acked, Ended, ExecAcked, EocSeen, ReceiveCode, HostStep, rom,
      host, Scoop, Receive, Then, ProgramInv, Resumed, UartLabels
  <2>. QED  BY <1>9, <2>1, <2>2, <2>3, <2>4, <2>5, <2>6 DEF UartStep
<1>10. ASSUME Done PROVE ProgramInv'
  BY <1>1, <1>10 DEF Done, vars, rom, host, ProgramInv, Resumed
<1>. QED  BY <1>2, <1>3, <1>4, <1>5, <1>6, <1>7, <1>8, <1>9, <1>10 DEF Next, RomStep, HostNext
\* A step that leaves the result alone.
LEMMA SameResult ==
  UNCHANGED <<via, back, ret>> => (Misread' <=> Misread) /\ Kept(ret)' = Kept(ret) /\ ExitWord(ret)' = ExitWord(ret)
BY DEF Misread, Kept, ExitWord

\* Over JTAG.
LEMMA JtagKept ==
  ASSUME Fitting, PassiveInv, Next
  PROVE  JtagInv'
<1>1. /\ JtagInv /\ LlcInv /\ ProgramInv /\ via \in {"jtag", "slink", "uart"}
      /\ back \in {"eoc", "spin"} \cup Resumed /\ scratch \in [0 .. 2 -> 0 .. WordSize - 1]
      /\ EntryLow # 0
  BY WayIn, Types DEF PassiveInv, EntryLow
<1>2. ASSUME LlcStep PROVE JtagInv'
  BY <1>1, <1>2, SameResult DEF LlcStep, BistEnds, WaitBist, SetSpmLow, SetSpmHigh, Commit, Rom, Jump, rom, host,
    JtagInv, LlcLabels, Polling, Relaunch, Resumed
<1>3. ASSUME BootStep PROVE JtagInv'
  <2>1. ASSUME PollScratch PROVE JtagInv'
    <3>. SUFFICES ASSUME via = "jtag" PROVE JtagInv'
      BY <2>1 DEF PollScratch, host, JtagInv
    <3>1. /\ rpc = "poll" /\ rpc' = IF (scratch[2] \div Launch) % 2 = 1 THEN "clear" ELSE "check"
          /\ UNCHANGED <<back, scratch, addr, ret, via, hpc, code>>
      BY <2>1 DEF PollScratch, host
    <3>2. CASE hpc \in {"poll", "done"}
      <4>1. scratch[2] = ExitWord(ret) /\ (scratch[2] \div Launch) % 2 = Kept(ret) % 2 /\ back \in {"uart_init", "poll"}
        BY <1>1, <3>1, <3>2, ReturnFacts DEF JtagInv, ProgramInv, Launch, Polling
      <4>2. Misread' <=> Misread
        BY <3>1, SameResult
      <4>3. rpc' = "clear" => Misread'
        BY <3>1, <4>1, <4>2 DEF Misread
      <4>. QED  BY <1>1, <3>1, <3>2, <4>1, <4>3, SameResult DEF JtagInv, LlcLabels, Polling, Relaunch
    <3>3. CASE hpc \notin {"poll", "done"}
      <4>1. scratch[2] = 0 /\ (0 \div Launch) % 2 = 0
        BY <1>1, <3>3 DEF JtagInv, Launch
      <4>. QED  BY <1>1, <3>1, <3>3, <4>1, SameResult DEF JtagInv, LlcLabels, Polling, Relaunch
    <3>. QED  BY <3>2, <3>3
  <2>2. ASSUME CheckUart PROVE JtagInv'
    BY <1>1, <2>2, SameResult DEF CheckUart, Rom, Jump, rom, host, JtagInv, LlcLabels, Polling, Relaunch, Resumed, ProgramInv
  <2>3. ASSUME ClearLaunch PROVE JtagInv'
    BY <1>1, <2>3, WayIn, SameResult DEF ClearLaunch, Rom, Jump, rom, host, JtagInv, LlcLabels, Polling, Relaunch, Resumed
  <2>4. ASSUME ReadEntryHigh PROVE JtagInv'
    BY <1>1, <2>4, WayIn, SameResult DEF ReadEntryHigh, Rom, Jump, rom, host, JtagInv, LlcLabels, Polling, Relaunch, Resumed
  <2>5. ASSUME ReadEntryLow PROVE JtagInv'
    <3>1. /\ rpc = "next_stage" /\ rpc' = (IF AtEntry' THEN "run" ELSE "lost")
          /\ addr' = [addr EXCEPT !.low = scratch[0]]
          /\ UNCHANGED <<back, scratch, ret, via, hpc, code>>
      BY <2>5 DEF ReadEntryLow, Jump, host
    <3>2. via = "jtag" => rpc' = "lost"
      <4>1. via = "jtag" => addr'.low # EntryLow
        BY <1>1, <3>1, Types DEF JtagInv
      <4>. QED  BY <3>1, <4>1 DEF AtEntry
    <3>. QED  BY <1>1, <3>1, <3>2, SameResult DEF JtagInv, LlcLabels, Polling, Relaunch
  <2>6. ASSUME UartInit PROVE JtagInv'
    BY <1>1, <2>6, SameResult DEF UartInit, Rom, Jump, rom, host, JtagInv, LlcLabels, Polling, Relaunch, Resumed
  <2>. QED  BY <1>3, <2>1, <2>2, <2>3, <2>4, <2>5, <2>6 DEF BootStep
<1>4. ASSUME ServeStep PROVE JtagInv'
  <2>1. ASSUME ServeCommand PROVE JtagInv'
    BY <1>1, <2>1, WayIn DEF ServeCommand, Rom, Jump, rom, host, Say, Hear, Land, JtagInv, LlcLabels,
      Polling, Relaunch, Resumed
  <2>2. ASSUME ServeAddr PROVE JtagInv'
    BY <1>1, <2>2, WayIn DEF ServeAddr, Rom, Jump, rom, host, Say, Hear, Land, JtagInv, LlcLabels,
      Polling, Relaunch, Resumed, ServeLabels
  <2>3. ASSUME ServeLen PROVE JtagInv'
    BY <1>1, <2>3, WayIn DEF ServeLen, Rom, Jump, rom, host, Say, Hear, Land, JtagInv, LlcLabels,
      Polling, Relaunch, Resumed, ServeLabels
  <2>4. ASSUME ServeRead PROVE JtagInv'
    BY <1>1, <2>4, WayIn DEF ServeRead, Rom, Jump, rom, host, Say, Hear, Land, JtagInv, LlcLabels,
      Polling, Relaunch, Resumed, ServeLabels
  <2>5. ASSUME ServeWrite PROVE JtagInv'
    BY <1>1, <2>5, WayIn DEF ServeWrite, Rom, Jump, rom, host, Say, Hear, Land, JtagInv, LlcLabels,
      Polling, Relaunch, Resumed, ServeLabels
  <2>6. ASSUME ServeExec PROVE JtagInv'
    BY <1>1, <2>6, WayIn DEF ServeExec, Rom, Jump, rom, host, Say, Hear, Land, JtagInv, LlcLabels,
      Polling, Relaunch, Resumed, ServeLabels
  <2>7. ASSUME Greet PROVE JtagInv'
    BY <1>1, <2>7, SameResult DEF Greet, Rom, Jump, rom, host, Say, Hear, Land, JtagInv, LlcLabels, Polling, Relaunch,
      Resumed
  <2>. QED  BY <1>4, <2>1, <2>2, <2>3, <2>4, <2>5, <2>6, <2>7 DEF ServeStep
<1>5. ASSUME ProgramStep PROVE JtagInv'
  <2>1. ASSUME CrtExit PROVE JtagInv'
    BY <1>1, <2>1, ReturnFacts, SameResult DEF CrtExit, Rom, Jump, rom, host, Say, JtagInv, LlcLabels, Polling, Relaunch,
      Resumed, ProgramInv
  <2>2. ASSUME Run \/ ServeReturn \/ RomExit PROVE JtagInv'
    BY <1>1, <2>2, SameResult DEF Run, ServeReturn, RomExit, Rom, Jump, rom, host, Say, JtagInv, LlcLabels,
      Polling, Relaunch, Resumed
  <2>. QED  BY <1>5, <2>1, <2>2 DEF ProgramStep
<1>6. ASSUME HostWaitLlc PROVE JtagInv'
  BY <1>1, <1>6, SameResult DEF HostWaitLlc, HostStep, rom, host, JtagInv, LlcLabels, Polling, Relaunch, Resumed,
    LlcInv
<1>7. ASSUME PollEoc PROVE JtagInv'
  <2>. SUFFICES ASSUME via = "jtag" PROVE JtagInv'
    BY <1>7 DEF PollEoc, HostStep, rom, JtagInv
  <2>1. scratch[2] # 0 /\ scratch[2] % 2 = 1 /\ code' = scratch[2] \div 2
    BY <1>7 DEF PollEoc
  <2>2. scratch[2] = ExitWord(ret) /\ rpc \notin {"run", "exit", "entry", "next_stage", "lost"} /\ code' = Kept(ret)
    BY <1>1, <1>7, <2>1, ReturnFacts DEF PollEoc, HostStep, JtagInv, ProgramInv
  <2>3. /\ hpc = "poll" /\ hpc' = "done"
        /\ UNCHANGED <<via, rpc, back, ret, scratch>>
    BY <1>7 DEF PollEoc, HostStep, rom
  <2>. QED  BY <1>1, <2>2, <2>3, SameResult DEF JtagInv, LlcLabels, Polling, Relaunch, Resumed
<1>8. ASSUME PreloadBurst PROVE JtagInv'
  BY <1>1, <1>8, SameResult DEF PreloadBurst, HostStep, rom, host, JtagInv, LlcLabels, Polling, Relaunch, Resumed
<1>9. ASSUME JtagStep PROVE JtagInv'
  <2>1. ASSUME JtagHalt PROVE JtagInv'
    BY <1>1, <2>1, SameResult DEF JtagHalt, HostStep, Rom, Jump, rom, host, Interrupted, JtagInv, LlcLabels,
      Polling, Relaunch, Resumed, LlcInv
  <2>2. ASSUME JtagResume PROVE JtagInv'
    BY <1>1, <2>2, SameResult DEF JtagResume, HostStep, Rom, Jump, rom, host, Interrupted, JtagInv, LlcLabels,
      Polling, Relaunch, Resumed
  <2>. QED  BY <1>9, <2>1, <2>2 DEF JtagStep
<1>10. ASSUME SlinkStep PROVE JtagInv'
  BY <1>1, <1>10, SameResult DEF SlinkStep, SlinkEntryHigh, SlinkEntryLow, SlinkLaunch, SlinkZeroLength, HostStep, rom, host,
    JtagInv, LlcLabels, Polling, Relaunch, Resumed
<1>11. ASSUME UartStep PROVE JtagInv'
  BY <1>1, <1>11, SameResult DEF UartStep, Challenge, Greeted, Command, Acked, Body, Ended, Exec, ExecAcked,
    ReadText, EocSeen, ReceiveCode, HostStep, rom, host, Scoop, Receive, Then, JtagInv, LlcLabels,
    Polling, Relaunch, Resumed
<1>12. ASSUME Done PROVE JtagInv'
  BY <1>1, <1>12, SameResult DEF Done, vars, rom, host, JtagInv, LlcLabels, Polling, Relaunch, Resumed
<1>. QED  BY <1>2, <1>3, <1>4, <1>5, <1>6, <1>7, <1>8, <1>9, <1>10, <1>11, <1>12 DEF Next, RomStep, HostNext
\* Over the serial link.
LEMMA SlinkKept ==
  ASSUME Fitting, PassiveInv, Next
  PROVE  SlinkInv'
<1>1. /\ SlinkInv /\ LlcInv /\ ProgramInv /\ via \in {"jtag", "slink", "uart"}
      /\ back \in {"eoc", "spin"} \cup Resumed /\ scratch \in [0 .. 2 -> 0 .. WordSize - 1]
  BY WayIn, Types DEF PassiveInv
<1>2. ASSUME LlcStep PROVE SlinkInv'
  BY <1>1, <1>2 DEF LlcStep, BistEnds, WaitBist, SetSpmLow, SetSpmHigh, Commit, Rom, Jump, rom, host,
    SlinkInv, LlcLabels, Polling, Resumed
<1>3. ASSUME BootStep PROVE SlinkInv'
  <2>1. ASSUME PollScratch PROVE SlinkInv'
    BY <1>1, <2>1 DEF PollScratch, Rom, Jump, rom, host, SlinkInv, LlcLabels, Polling, Resumed, Launch
  <2>2. ASSUME CheckUart PROVE SlinkInv'
    BY <1>1, <2>2 DEF CheckUart, Rom, Jump, rom, host, SlinkInv, LlcLabels, Polling, Resumed,
      ProgramInv
  <2>3. ASSUME ClearLaunch PROVE SlinkInv'
    BY <1>1, <2>3 DEF ClearLaunch, Rom, Jump, rom, host, SlinkInv, LlcLabels, Polling, Resumed
  <2>4. ASSUME ReadEntryHigh PROVE SlinkInv'
    BY <1>1, <2>4 DEF ReadEntryHigh, Rom, Jump, rom, host, SlinkInv, LlcLabels, Polling, Resumed
  <2>5. ASSUME ReadEntryLow PROVE SlinkInv'
    <3>1. /\ rpc = "next_stage" /\ rpc' = (IF AtEntry' THEN "run" ELSE "lost")
          /\ addr' = [addr EXCEPT !.low = scratch[0]]
          /\ UNCHANGED <<scratch, ret, via, hpc, code>>
      BY <2>5 DEF ReadEntryLow, Jump, host
    <3>2. via = "slink" => rpc' = "run"
      <4>1. via = "slink" => scratch[0] = EntryLow /\ addr.high = EntryHigh
        BY <1>1, <3>1 DEF SlinkInv, LlcLabels, Polling
      <4>2. via = "slink" => addr' = [low |-> EntryLow, high |-> EntryHigh]
        BY <3>1, <4>1, Types
      <4>. QED  BY <3>1, <4>2 DEF AtEntry
    <3>. QED  BY <1>1, <3>1, <3>2 DEF SlinkInv, LlcLabels, Polling
  <2>6. ASSUME UartInit PROVE SlinkInv'
    BY <1>1, <2>6 DEF UartInit, Rom, Jump, rom, host, SlinkInv, LlcLabels, Polling, Resumed
  <2>. QED  BY <1>3, <2>1, <2>2, <2>3, <2>4, <2>5, <2>6 DEF BootStep
<1>4. ASSUME ServeStep PROVE SlinkInv'
  <2>1. ASSUME ServeCommand PROVE SlinkInv'
    BY <1>1, <2>1, WayIn DEF ServeCommand, Rom, Jump, rom, host, Say, Hear, Land, SlinkInv, LlcLabels,
      Polling, Resumed
  <2>2. ASSUME ServeAddr PROVE SlinkInv'
    BY <1>1, <2>2, WayIn DEF ServeAddr, Rom, Jump, rom, host, Say, Hear, Land, SlinkInv, LlcLabels,
      Polling, Resumed, ServeLabels
  <2>3. ASSUME ServeLen PROVE SlinkInv'
    BY <1>1, <2>3, WayIn DEF ServeLen, Rom, Jump, rom, host, Say, Hear, Land, SlinkInv, LlcLabels,
      Polling, Resumed, ServeLabels
  <2>4. ASSUME ServeRead PROVE SlinkInv'
    BY <1>1, <2>4, WayIn DEF ServeRead, Rom, Jump, rom, host, Say, Hear, Land, SlinkInv, LlcLabels,
      Polling, Resumed, ServeLabels
  <2>5. ASSUME ServeWrite PROVE SlinkInv'
    BY <1>1, <2>5, WayIn DEF ServeWrite, Rom, Jump, rom, host, Say, Hear, Land, SlinkInv, LlcLabels,
      Polling, Resumed, ServeLabels
  <2>6. ASSUME ServeExec PROVE SlinkInv'
    BY <1>1, <2>6, WayIn DEF ServeExec, Rom, Jump, rom, host, Say, Hear, Land, SlinkInv, LlcLabels,
      Polling, Resumed, ServeLabels
  <2>7. ASSUME Greet PROVE SlinkInv'
    BY <1>1, <2>7 DEF Greet, Rom, Jump, rom, host, Say, Hear, Land, SlinkInv, LlcLabels, Polling,
      Resumed
  <2>. QED  BY <1>4, <2>1, <2>2, <2>3, <2>4, <2>5, <2>6, <2>7 DEF ServeStep
<1>5. ASSUME ProgramStep PROVE SlinkInv'
  <2>1. ASSUME CrtExit PROVE SlinkInv'
    <3>1. ExitWord(ret) \in 0 .. WordSize - 1 /\ (via = "slink" => back = "spin")
      BY <1>1, ReturnFacts DEF ProgramInv
    <3>2. via = "slink" => hpc = "poll"
      BY <1>1, <2>1 DEF CrtExit, Rom, SlinkInv, LlcLabels, Polling
    <3>3. /\ scratch'[2] = ExitWord(ret) /\ scratch'[0] = scratch[0] /\ scratch'[1] = scratch[1]
          /\ rpc = "exit" /\ rpc' = back /\ UNCHANGED <<ret, via, hpc, code>>
      BY <1>1, <2>1, <3>1 DEF CrtExit, Rom, host
    <3>. QED  BY <1>1, <3>1, <3>2, <3>3 DEF SlinkInv, LlcLabels, Polling
  <2>2. ASSUME Run \/ ServeReturn \/ RomExit PROVE SlinkInv'
    BY <1>1, <2>2 DEF Run, ServeReturn, RomExit, Rom, Jump, rom, host, Say, SlinkInv, LlcLabels,
      Polling, Resumed
  <2>. QED  BY <1>5, <2>1, <2>2 DEF ProgramStep
<1>6. ASSUME HostWaitLlc PROVE SlinkInv'
  BY <1>1, <1>6 DEF HostWaitLlc, HostStep, rom, host, SlinkInv, LlcLabels, Polling, Resumed,
    LlcInv
<1>7. ASSUME PollEoc PROVE SlinkInv'
  <2>1. /\ hpc = "poll" /\ hpc' = "done" /\ scratch[2] % 2 = 1 /\ code' = scratch[2] \div 2
        /\ UNCHANGED <<via, rpc, addr, ret, scratch>>
    BY <1>7 DEF PollEoc, HostStep, rom
  <2>2. /\ Launch % 2 = 0 /\ 0 % 2 = 0 /\ ExitWord(ret) \div 2 = Kept(ret)
    BY <1>1, ReturnFacts DEF ProgramInv, Launch
  <2>3. via = "slink" => scratch[2] = ExitWord(ret) /\ rpc = "spin"
    BY <1>1, <2>1, <2>2 DEF SlinkInv
  <2>4. Kept(ret)' = Kept(ret) /\ ExitWord(ret)' = ExitWord(ret)
    BY <2>1 DEF Kept, ExitWord
  <2>. QED  BY <1>1, <2>1, <2>2, <2>3, <2>4 DEF SlinkInv
<1>8. ASSUME PreloadBurst PROVE SlinkInv'
  BY <1>1, <1>8 DEF PreloadBurst, HostStep, rom, host, SlinkInv, LlcLabels, Polling, Resumed
<1>9. ASSUME JtagStep PROVE SlinkInv'
  <2>1. ASSUME JtagHalt PROVE SlinkInv'
    BY <1>1, <2>1 DEF JtagHalt, HostStep, Rom, Jump, rom, host, Interrupted, SlinkInv, LlcLabels,
      Polling, Resumed, LlcInv
  <2>2. ASSUME JtagResume PROVE SlinkInv'
    BY <1>1, <2>2 DEF JtagResume, HostStep, Rom, Jump, rom, host, Interrupted, SlinkInv, LlcLabels,
      Polling, Resumed
  <2>. QED  BY <1>9, <2>1, <2>2 DEF JtagStep
<1>10. ASSUME SlinkStep PROVE SlinkInv'
  <2>1. ASSUME SlinkLaunch PROVE SlinkInv'
    BY <1>1, <2>1 DEF SlinkLaunch, HostStep, rom, host, SlinkInv, LlcLabels, Polling, Resumed,
      LlcInv, Launch
  <2>2. ASSUME SlinkEntryHigh \/ SlinkEntryLow \/ SlinkZeroLength PROVE SlinkInv'
    BY <1>1, <2>2 DEF SlinkEntryHigh, SlinkEntryLow, SlinkZeroLength, HostStep, rom, host, SlinkInv, LlcLabels,
      Polling, Resumed
  <2>. QED  BY <1>10, <2>1, <2>2 DEF SlinkStep
<1>11. ASSUME UartStep PROVE SlinkInv'
  BY <1>1, <1>11 DEF UartStep, Challenge, Greeted, Command, Acked, Body, Ended, Exec, ExecAcked,
    ReadText, EocSeen, ReceiveCode, HostStep, rom, host, Scoop, Receive, Then, SlinkInv, LlcLabels,
    Polling, Resumed
<1>12. ASSUME Done PROVE SlinkInv'
  BY <1>1, <1>12 DEF Done, vars, rom, host, SlinkInv, LlcLabels, Polling, Resumed
<1>. QED  BY <1>2, <1>3, <1>4, <1>5, <1>6, <1>7, <1>8, <1>9, <1>10, <1>11, <1>12 DEF Next, RomStep, HostNext
\* The image.
LEMMA MemKept ==
  ASSUME Fitting, PassiveInv, Next
  PROVE  MemInv'
<1>1. /\ MemInv /\ LlcInv /\ via \in {"jtag", "slink", "uart"} /\ mem \in [Bursts -> Nat]
      /\ burst \in 1 .. Len(BurstLens) + 1 /\ Bursts = 1 .. Len(BurstLens) /\ Len(BurstLens) \in Nat
      /\ Len(BurstLens) >= 1 /\ \A n \in Bursts : BurstLens[n] \in Nat
  BY WayIn, Types, Constants DEF PassiveInv
<1>2. ASSUME LlcStep PROVE MemInv'
  BY <1>1, <1>2 DEF LlcStep, BistEnds, WaitBist, SetSpmLow, SetSpmHigh, Commit, Rom, Jump, rom, host,
    MemInv, Exchanging
<1>3. ASSUME BootStep PROVE MemInv'
  BY <1>1, <1>3 DEF BootStep, UartInit, PollScratch, CheckUart, ClearLaunch, ReadEntryHigh,
    ReadEntryLow, Rom, Jump, rom, host, MemInv, Exchanging
<1>4. ASSUME ServeStep PROVE MemInv'
  <2>1. ASSUME ServeWrite PROVE MemInv'
    <3>1. CASE mem' = mem
      BY <1>1, <2>1, <3>1 DEF ServeWrite, host, MemInv, Exchanging
    <3>2. CASE mem' # mem
      <4>1. Exchanging /\ via = "uart" /\ addr.low = burst
        BY <2>1, Serving, TargetFacts, Types DEF ServeWrite, ServeLabels
      <4>2. mem' = [mem EXCEPT ![burst] = @ + 1] /\ UNCHANGED <<burst, hpc, via>>
        BY <3>2, <4>1, <2>1 DEF ServeWrite, Land, host
      <4>. QED  BY <1>1, <4>1, <4>2 DEF MemInv, Exchanging
    <3>. QED  BY <3>1, <3>2
  <2>2. ASSUME Greet \/ ServeCommand \/ ServeAddr \/ ServeLen \/ ServeRead \/ ServeExec PROVE MemInv'
    BY <1>1, <2>2 DEF Greet, ServeCommand, ServeAddr, ServeLen, ServeRead, ServeExec, Rom, rom,
      host, Say, Hear, Land, MemInv, Exchanging
  <2>. QED  BY <1>4, <2>1, <2>2 DEF ServeStep
<1>5. ASSUME ProgramStep PROVE MemInv'
  BY <1>1, <1>5 DEF ProgramStep, Run, CrtExit, ServeReturn, RomExit, Rom, Jump, rom, host, Say, MemInv,
    Exchanging
<1>6. ASSUME PreloadBurst PROVE MemInv'
  BY <1>1, <1>6, WayIn DEF PreloadBurst, HostStep, rom, host, MemInv, Exchanging, LlcInv,
    SpmReady, LlcLabels
<1>7. ASSUME HostWaitLlc \/ PollEoc PROVE MemInv'
  BY <1>1, <1>7 DEF HostWaitLlc, PollEoc, HostStep, rom, host, MemInv, Exchanging
<1>8. ASSUME JtagStep PROVE MemInv'
  BY <1>1, <1>8 DEF JtagStep, JtagHalt, JtagResume, HostStep, Rom, Jump, rom, host, Interrupted,
    MemInv, Exchanging
<1>9. ASSUME SlinkStep PROVE MemInv'
  BY <1>1, <1>9 DEF SlinkStep, SlinkEntryHigh, SlinkEntryLow, SlinkLaunch, SlinkZeroLength, HostStep, rom, host,
    MemInv, Exchanging
<1>10. ASSUME UartStep PROVE MemInv'
  <2>1. ASSUME Acked PROVE MemInv'
    BY <1>1, <2>1, Answers DEF Acked, HostStep, rom, host, Scoop, Receive, Then, MemInv, Exchanging
  <2>2. ASSUME Ended PROVE MemInv'
    BY <1>1, <2>2, Answers, TargetFacts DEF Ended, HostStep, rom, host, Scoop, Receive, Then, MemInv,
      Exchanging
  <2>3. ASSUME Challenge \/ Greeted \/ Command \/ Body
               \/ Exec \/ ExecAcked \/ ReadText \/ EocSeen \/ ReceiveCode
        PROVE MemInv'
    BY <1>1, <2>3 DEF Challenge, Greeted, Command, Body, Exec, ExecAcked, ReadText, EocSeen,
      ReceiveCode, HostStep, rom, host, Scoop, Receive, Then, MemInv, Exchanging
  <2>. QED  BY <1>10, <2>1, <2>2, <2>3 DEF UartStep
<1>11. ASSUME Done PROVE MemInv'
  BY <1>1, <1>11 DEF Done, vars, rom, host, MemInv, Exchanging
<1>. QED  BY <1>2, <1>3, <1>4, <1>5, <1>6, <1>7, <1>8, <1>9, <1>10, <1>11 DEF Next, RomStep, HostNext
------------------------------------------------------------------------------
(* Over UART: the greeting and the commands.                               *)
LEMMA LastTaken ==
  ASSUME NEW S, NEW q \in Seq(S), Len(q) = 1
  PROVE  Tail(q) = <<>>
<1>1. q # <<>>
  OBVIOUS
<1>2. Tail(q) \in Seq(S) /\ Len(Tail(q)) = 0
  BY <1>1
<1>. QED  BY <1>2, EmptySeq

LEMMA UartNext ==
  ASSUME Fitting, PassiveInv, Next
  PROVE  /\ via' = via
         /\ via = "uart" =>
              \/ LlcStep \/ UartInit \/ PollScratch \/ CheckUart \/ ServeStep \/ ProgramStep
              \/ UartStep \/ UNCHANGED vars
<1>1. via' = via
  <2>1. ASSUME RomStep PROVE via' = via
    BY <2>1 DEF RomStep, LlcStep, BistEnds, WaitBist, SetSpmLow, SetSpmHigh, Commit, BootStep,
         UartInit, PollScratch, CheckUart, ClearLaunch, ReadEntryHigh, ReadEntryLow, ServeStep, Greet,
         ServeCommand, ServeAddr, ServeLen, ServeRead, ServeWrite, ServeExec, ProgramStep, Run, CrtExit,
         ServeReturn, RomExit, host
  <2>2. ASSUME HostNext PROVE via' = via
    BY <2>2 DEF HostNext, HostWaitLlc, PreloadBurst, PollEoc, JtagStep, JtagHalt, JtagResume,
         SlinkStep, SlinkEntryHigh, SlinkEntryLow, SlinkLaunch, SlinkZeroLength, UartStep, Challenge, Greeted,
         Command, Acked, Body, Ended, Exec, ExecAcked, ReadText, EocSeen, ReceiveCode
  <2>. QED  BY <2>1, <2>2 DEF Next, Done, vars
<1>2. ASSUME via = "uart"
      PROVE  ~(\/ ClearLaunch \/ ReadEntryHigh \/ ReadEntryLow
               \/ HostWaitLlc \/ PreloadBurst \/ PollEoc \/ JtagStep \/ SlinkStep)
  BY <1>2, WayIn DEF ClearLaunch, ReadEntryHigh, ReadEntryLow, Rom, Jump, Relaunch, HostWaitLlc,
    PreloadBurst, PollEoc, JtagStep, JtagHalt, JtagResume, SlinkStep, SlinkEntryHigh, SlinkEntryLow,
    SlinkLaunch, SlinkZeroLength, HostStep
<1>. QED  BY <1>1, <1>2 DEF Next, RomStep, BootStep, HostNext, Done

LEMMA GreetKept ==
  ASSUME Fitting, PassiveInv, Next
  PROVE  GreetInv'
<1>. SUFFICES ASSUME via = "uart"
              PROVE  GreetInv'
  BY UartNext DEF GreetInv
<1>1. /\ GreetInv /\ LlcInv /\ ProgramInv /\ HostPatient /\ rx \in Seq(Wires) /\ tx \in Seq(Wires)
      /\ scratch \in [0 .. 2 -> 0 .. WordSize - 1] /\ back = "eoc"
  BY Types, Constants DEF PassiveInv, ProgramInv
<1>2. ASSUME LlcStep PROVE GreetInv'
  BY <1>1, <1>2 DEF LlcStep, BistEnds, WaitBist, SetSpmLow, SetSpmHigh, Commit, Rom, Jump, rom, host,
    GreetInv, LlcLabels, Polling
<1>3. ASSUME UartInit \/ PollScratch PROVE GreetInv'
  BY <1>1, <1>3 DEF UartInit, PollScratch, Rom, host, GreetInv, LlcLabels, Polling, Launch
<1>4. ASSUME CheckUart PROVE GreetInv'
  BY <1>1, <1>4 DEF CheckUart, Rom, host, GreetInv, LlcLabels, Polling, Byte, Wire
<1>5. ASSUME Greet PROVE GreetInv'
  <2>1. /\ rpc = "greet" /\ rpc' = "cmd" /\ tx' = tx \o <<Byte("ACK")>>
        /\ UNCHANGED <<scratch, ret, rx, via, hpc, eoc>>
    BY <1>5 DEF Greet, Rom, Say, host
  <2>2. tx = <<>> => tx' = <<Byte("ACK")>>
    BY <2>1
  <2>. QED  BY <1>1, <2>1, <2>2 DEF GreetInv, LlcLabels, Polling
<1>6. ASSUME ServeCommand PROVE GreetInv'
  <2>1. /\ rpc = "cmd" /\ rpc' \in {"read_addr", "write_addr", "exec_addr"} /\ ret' = ret
        /\ rx # <<>> /\ UNCHANGED <<scratch, via, hpc, eoc>>
    BY <1>6, Waiting DEF ServeCommand, Hear, Byte, Wire, host
  <2>2. hpc \notin {"challenge", "greeted", "command", "exec"}
    BY <1>1, <2>1 DEF GreetInv, LlcLabels, Polling
  <2>. QED  BY <1>1, <2>1, <2>2 DEF GreetInv
<1>7. ASSUME ServeAddr \/ ServeLen \/ ServeRead \/ ServeWrite \/ ServeExec PROVE GreetInv'
  BY <1>1, <1>7 DEF ServeAddr, ServeLen, ServeRead, ServeWrite, ServeExec, Rom, Jump, host, GreetInv,
    LlcLabels, Polling
<1>8. ASSUME ProgramStep PROVE GreetInv'
  <2>1. ExitWord(ret) = ExitWord(ret)
    OBVIOUS
  <2>2. ASSUME Run PROVE GreetInv'
    BY <1>1, <2>2 DEF Run, host, GreetInv, LlcLabels, Polling
  <2>3. ASSUME CrtExit PROVE GreetInv'
    BY <1>1, <2>1, <2>3 DEF CrtExit, Rom, host, GreetInv, LlcLabels, Polling
  <2>4. ASSUME ServeReturn PROVE GreetInv'
    BY <1>1, <2>4 DEF ServeReturn, Rom, host, GreetInv, LlcLabels, Polling
  <2>5. ASSUME RomExit PROVE GreetInv'
    BY <1>1, <2>1, <2>5 DEF RomExit, Rom, host, GreetInv, LlcLabels, Polling
  <2>. QED  BY <1>8, <2>2, <2>3, <2>4, <2>5 DEF ProgramStep
<1>9. ASSUME UartStep PROVE GreetInv'
  <2>1. ASSUME Challenge PROVE GreetInv'
    BY <1>1, <2>1 DEF Challenge, HostStep, rom, GreetInv
  <2>2. ASSUME Greeted \/ Acked \/ ExecAcked PROVE GreetInv'
    BY <1>1, <2>2, Answers DEF Greeted, Acked, ExecAcked, Scoop, Receive, Then, rom, GreetInv
  <2>3. ASSUME Ended PROVE GreetInv'
    <3>1. Head(tx).kind = "EOT" /\ rpc = "cmd" /\ rx = <<>> /\ Tail(tx) = <<>>
      <4>1. Head(tx).kind = "EOT" /\ rpc = "cmd" /\ rx = <<>> /\ Len(tx) = 1
        BY <2>3, Answers DEF Ended, Scoop, Receive
      <4>. QED  BY <1>1, <4>1, LastTaken
    <3>. QED  BY <1>1, <2>3, <3>1 DEF Ended, Scoop, Receive, Then, rom, GreetInv
  <2>4. ASSUME Command \/ Body \/ Exec \/ EocSeen \/ ReceiveCode PROVE GreetInv'
    BY <1>1, <2>4 DEF Command, Body, Exec, EocSeen, ReceiveCode, HostStep, rom, GreetInv
  <2>5. ASSUME ReadText PROVE GreetInv'
    <3>1. hpc = "wait_eoc"
      BY <2>5, Answers DEF ReadText, Receive
    <3>. QED  BY <1>1, <2>5, <3>1 DEF ReadText, rom, GreetInv
  <2>. QED  BY <1>9, <2>1, <2>2, <2>3, <2>4, <2>5 DEF UartStep
<1>10. ASSUME UNCHANGED vars PROVE GreetInv'
  BY <1>1, <1>10 DEF vars, GreetInv
<1>. QED  BY <1>2, <1>3, <1>4, <1>5, <1>6, <1>7, <1>8, <1>9, <1>10, UartNext DEF ServeStep
------------------------------------------------------------------------------
(* A step of one side on one of the two streams of a command.              *)
LEMMA SameStreams ==
  ASSUME burst' = burst
  PROVE  /\ Writing' = Writing /\ Size' = Size /\ Fetched' = Fetched /\ Target' = Target
         /\ sent' = sent => Posted' = Posted /\ (hpc' = hpc => Heard' = Heard)
         /\ \A n \in Int : Request(n)' = Request(n) /\ Reply(n)' = Reply(n)
BY DEF Writing, Size, Target, Fetched, Posted, Heard, Request, Reply

LEMMA Keeps ==
  ASSUME burst' = burst, NEW n \in Nat
  PROVE  /\ Coming(n) /\ Posted \in Nat /\ Posted' = Posted /\ rx \in Seq(Wires) /\ rx' = rx => Coming(n)'
         /\ Going(n) /\ Heard \in Nat /\ Heard' = Heard /\ tx \in Seq(Wires) /\ tx' = tx => Going(n)'
<1>1. ASSUME Coming(n), Posted \in Nat, Posted' = Posted, rx \in Seq(Wires), rx' = rx
      PROVE  Coming(n)'
  <2>1. \A k \in 1 .. Len(rx) : rx[k] = Request(n + k)'
    BY <1>1, SameStreams DEF Coming
  <2>. QED  BY <1>1, <2>1 DEF Coming
<1>2. ASSUME Going(n), Heard \in Nat, Heard' = Heard, tx \in Seq(Wires), tx' = tx
      PROVE  Going(n)'
  <2>1. \A k \in 1 .. Len(tx) : tx[k] = Reply(Heard + k)'
    BY <1>2, SameStreams DEF Going
  <2>. QED  BY <1>2, <2>1 DEF Going
<1>. QED  BY <1>1, <1>2

\* One more taken by the boot ROM.
LEMMA Takes ==
  ASSUME burst' = burst, Posted' = Posted, NEW taken \in Nat, Coming(taken),
         Posted \in Nat, rx \in Seq(Wires), rx # <<>>, rx' = Tail(rx)
  PROVE  Coming(taken + 1)' /\ Head(rx) = Request(taken + 1)
<1>1. /\ Len(rx) \in Nat /\ Len(rx) >= 1 /\ Head(rx) = rx[1] /\ Len(rx') = Len(rx) - 1
      /\ \A k \in 1 .. Len(rx') : rx'[k] = rx[k + 1]
  OBVIOUS
<1>2. Head(rx) = Request(taken + 1)
  BY <1>1 DEF Coming
<1>3. Len(rx') = Posted' - (taken + 1)
  BY <1>1 DEF Coming
<1>4. \A k \in 1 .. Len(rx') : rx'[k] = Request(taken + 1 + k)
  <2>. TAKE k \in 1 .. Len(rx')
  <2>1. k + 1 \in 1 .. Len(rx) /\ taken + (k + 1) = taken + 1 + k
    BY <1>1
  <2>2. rx[k + 1] = Request(taken + (k + 1))
    BY <2>1 DEF Coming
  <2>. QED  BY <1>1, <2>1, <2>2
<1>5. \A k \in 1 .. Len(rx') : rx'[k] = Request(taken + 1 + k)'
  BY <1>1, <1>4, SameStreams
<1>. QED  BY <1>2, <1>3, <1>5 DEF Coming

\* One more sent by the boot ROM.
LEMMA Gives ==
  ASSUME burst' = burst, Heard' = Heard, NEW given \in Nat, Going(given),
         Heard \in Nat, tx \in Seq(Wires), tx' = tx \o <<Reply(given + 1)>>
  PROVE  Going(given + 1)'
<1>1. /\ Len(tx) \in Nat /\ Len(tx') = Len(tx) + 1
      /\ \A k \in 1 .. Len(tx) : tx'[k] = tx[k] /\ tx'[Len(tx) + 1] = Reply(given + 1)
  OBVIOUS
<1>2. Len(tx) = given - Heard
  BY DEF Going
<1>3. tx'[Len(tx) + 1] = Reply(given + 1) /\ Heard + (Len(tx) + 1) = given + 1
  BY <1>1, <1>2
<1>4. \A k \in 1 .. Len(tx') : tx'[k] = Reply(Heard + k)
  <2>. TAKE k \in 1 .. Len(tx')
  <2>1. CASE k \in 1 .. Len(tx)
    BY <1>1, <2>1 DEF Going
  <2>2. CASE k = Len(tx) + 1
    BY <1>3, <2>2
  <2>. QED  BY <1>1, <2>1, <2>2
<1>5. \A k \in 1 .. Len(tx') : tx'[k] = Reply(Heard + k)'
  BY <1>1, <1>4, SameStreams
<1>6. Len(tx') = given + 1 - Heard'
  BY <1>1, <1>2
<1>. QED  BY <1>5, <1>6 DEF Going

\* One more sent by the host, a data byte.
LEMMA Posts ==
  ASSUME burst' = burst, Posted' = Posted + 1, NEW taken \in Nat, Coming(taken),
         Posted \in Nat, Posted >= 3, rx \in Seq(Wires), rx' = Append(rx, Byte("data"))
  PROVE  Coming(taken)'
<1>1. /\ Len(rx) \in Nat /\ Len(rx') = Len(rx) + 1 /\ rx'[Len(rx) + 1] = Byte("data")
      /\ \A k \in 1 .. Len(rx) : rx'[k] = rx[k]
  OBVIOUS
<1>2. Len(rx') = Posted' - taken /\ taken + (Len(rx) + 1) = Posted + 1
  BY <1>1 DEF Coming
<1>3. Request(Posted + 1) = Byte("data")
  BY DEF Request
<1>4. \A k \in 1 .. Len(rx') : rx'[k] = Request(taken + k)
  <2>. TAKE k \in 1 .. Len(rx')
  <2>1. CASE k \in 1 .. Len(rx)
    BY <1>1, <2>1 DEF Coming
  <2>2. CASE k = Len(rx) + 1
    BY <1>1, <1>2, <1>3, <2>2
  <2>. QED  BY <1>1, <2>1, <2>2
<1>5. \A k \in 1 .. Len(rx') : rx'[k] = Request(taken + k)'
  BY <1>1, <1>4, SameStreams
<1>. QED  BY <1>2, <1>5 DEF Coming

\* One more taken by the host.
LEMMA Hears ==
  ASSUME burst' = burst, Heard' = Heard + 1, NEW given \in Nat, Going(given),
         Heard \in Nat, tx \in Seq(Wires), tx # <<>>, tx' = Tail(tx)
  PROVE  Going(given)'
<1>1. /\ Len(tx) \in Nat /\ Len(tx) >= 1 /\ Len(tx') = Len(tx) - 1
      /\ \A k \in 1 .. Len(tx') : tx'[k] = tx[k + 1]
  OBVIOUS
<1>2. Len(tx') = given - Heard'
  BY <1>1 DEF Going
<1>3. \A k \in 1 .. Len(tx') : tx'[k] = Reply(Heard + 1 + k)
  <2>. TAKE k \in 1 .. Len(tx')
  <2>1. k + 1 \in 1 .. Len(tx) /\ Heard + (k + 1) = Heard + 1 + k
    BY <1>1
  <2>2. tx[k + 1] = Reply(Heard + (k + 1))
    BY <2>1 DEF Going
  <2>. QED  BY <1>1, <2>1, <2>2
<1>4. \A k \in 1 .. Len(tx') : tx'[k] = Reply(Heard + k)'
  BY <1>1, <1>3, SameStreams
<1>. QED  BY <1>2, <1>4 DEF Going
\* A step of the server in the middle of a command.
LEMMA CommandServed ==
  ASSUME Fitting, PassiveInv, via = "uart", Exchanging, ServeStep
  PROVE  CommandInv'
<1>0. /\ CommandInv /\ LlcInv /\ rx \in Seq(Wires) /\ tx \in Seq(Wires) /\ mem \in [Bursts -> Nat]
      /\ sent \in Nat /\ count \in Nat /\ burst \in 1 .. Len(BurstLens) + 1
      /\ addr \in [low : 0 .. WordSize - 1, high : 0 .. WordSize - 1]
  BY Types DEF PassiveInv
<1>1. /\ CommandInv /\ LlcInv /\ rx \in Seq(Wires) /\ tx \in Seq(Wires)
      /\ sent \in Nat /\ count \in Nat /\ Size \in Nat /\ Posted \in Nat /\ Heard \in Nat
      /\ Fetched = (IF Writing THEN 0 ELSE Size) /\ Posted = 3 + (IF Writing THEN sent ELSE 0)
      /\ sent <= Size /\ (hpc = "acked" => sent = 0) /\ (hpc = "ended" => sent = Size)
      /\ addr \in [low : 0 .. WordSize - 1, high : 0 .. WordSize - 1]
      /\ burst \in DOMAIN mem <=> Writing
      /\ Len(rx) \in Nat /\ (rx = <<>> <=> Len(rx) = 0)
  <2>1. Size \in Nat /\ Fetched = (IF Writing THEN 0 ELSE Size)
    BY <1>0, TargetFacts DEF Fetched
  <2>2. Posted \in Nat /\ Heard \in Nat /\ Posted = 3 + (IF Writing THEN sent ELSE 0)
    BY <1>0 DEF Posted, Heard
  <2>3. sent <= Size /\ (hpc = "acked" => sent = 0) /\ (hpc = "ended" => sent = Size)
    BY <1>0 DEF CommandInv
  <2>4. burst \in DOMAIN mem <=> Writing
    BY <1>0 DEF Writing
  <2>5. Len(rx) \in Nat /\ (rx = <<>> <=> Len(rx) = 0)
    BY <1>0
  <2>. QED  BY <1>0, <2>1, <2>2, <2>3, <2>4, <2>5
<1>2. UNCHANGED <<burst, sent, hpc, via>>
  BY DEF ServeStep, Greet, ServeCommand, ServeAddr, ServeLen, ServeRead, ServeWrite, ServeExec, host
<1>3. /\ Writing' = Writing /\ Size' = Size /\ Fetched' = Fetched /\ Target' = Target
      /\ Posted' = Posted /\ Heard' = Heard /\ Exchanging'
  BY <1>2, SameStreams DEF Exchanging
<1>. DEFINE Unfinished == Writing => mem[burst] = 0
<1>4. ~Greet /\ ~ServeExec
  BY <1>1 DEF Greet, ServeExec, Rom, Jump, CommandInv
<1>5. ASSUME ServeCommand PROVE CommandInv'
  <2>1. /\ Coming(0) /\ Going(0) /\ Unfinished /\ rx # <<>> /\ rx' = Tail(rx) /\ tx' = tx /\ mem' = mem
        /\ rpc' = IF Writing THEN "write_addr" ELSE "read_addr"
    BY <1>5, Waiting DEF ServeCommand, Hear, Streams, Exchanging
  <2>2. Coming(0 + 1)' /\ Going(0)'
    BY <1>1, <1>2, <1>3, <2>1, Takes, Keeps
  <2>. QED  BY <1>1, <1>2, <1>3, <2>1, <2>2 DEF CommandInv, Streams
<1>6. ASSUME ServeAddr PROVE CommandInv'
  <2>1. /\ rpc \in ServeLabels \ {"exec_addr"} /\ rpc \in {"read_addr", "write_addr"}
        /\ rpc' = IF rpc = "write_addr" THEN "write_len" ELSE "read_len"
        /\ rx # <<>> /\ rx' = Tail(rx) /\ tx' = tx /\ mem' = mem
        /\ addr' = [addr EXCEPT !.low = Head(rx).value]
    BY <1>6 DEF ServeAddr, Rom, Hear, ServeLabels
  <2>2. Coming(1) /\ Going(0) /\ Unfinished /\ (rpc = "write_addr" <=> Writing)
    BY <2>1, Serving DEF Streams
  <2>3. Coming(1 + 1)' /\ Head(rx) = Request(1 + 1) /\ Going(0)'
    BY <1>1, <1>2, <1>3, <2>1, <2>2, Takes, Keeps
  <2>4. addr'.low = Target
    BY <1>1, <2>1, <2>3 DEF Request, Wire
  <2>. QED  BY <1>1, <1>2, <1>3, <2>1, <2>2, <2>3, <2>4 DEF CommandInv, Streams
<1>7. ASSUME ServeLen PROVE CommandInv'
  <2>1. /\ rpc \in ServeLabels \ {"exec_addr"} /\ rpc \in {"read_len", "write_len"}
        /\ rpc' = IF rpc = "write_len" THEN "write" ELSE "read"
        /\ rx # <<>> /\ rx' = Tail(rx) /\ tx' = tx \o <<Byte("ACK")>> /\ mem' = mem
        /\ count' = Head(rx).value /\ addr' = addr
    BY <1>7 DEF ServeLen, Rom, Hear, Say, ServeLabels
  <2>2. addr.low = Target /\ Coming(2) /\ Going(0) /\ Unfinished /\ (rpc = "write_len" <=> Writing)
    BY <2>1, Serving DEF Streams
  <2>3. Reply(0 + 1) = Byte("ACK") /\ Request(2 + 1) = Wire("field", Size)
    BY DEF Reply, Request
  <2>4. Coming(2 + 1)' /\ Head(rx) = Request(2 + 1)
    BY <1>1, <1>2, <1>3, <2>1, <2>2, Takes
  <2>5. Going(0 + 1)'
    BY <1>1, <1>2, <1>3, <2>1, <2>2, <2>3, Gives
  <2>6. count' = Size
    BY <2>1, <2>3, <2>4 DEF Wire
  <2>7. Coming(3)' /\ Going(1)' /\ 3 + Size - count' = 3 /\ 1 + Size - count' = 1 /\ Size - count' = 0
    BY <1>1, <2>4, <2>5, <2>6
  <2>8. CASE Writing
    <3>1. rpc' = "write" /\ addr'.low = Target' /\ count' <= Size' /\ mem'[burst'] = Size' - count'
      BY <1>1, <1>2, <1>3, <2>1, <2>2, <2>6, <2>7, <2>8
    <3>. QED  BY <1>1, <1>2, <1>3, <2>7, <2>8, <3>1, <2>6 DEF CommandInv, Streams
  <2>9. CASE ~Writing
    <3>1. rpc' = "read" /\ count' <= Size'
      BY <1>1, <1>3, <2>1, <2>2, <2>6, <2>9
    <3>. QED  BY <1>1, <1>2, <1>3, <2>7, <2>9, <3>1, <2>6 DEF CommandInv, Streams
  <2>. QED  BY <2>8, <2>9
<1>8. ASSUME ServeRead PROVE CommandInv'
  <2>1. /\ rpc = "read" /\ rpc \in ServeLabels \ {"exec_addr"} /\ rx' = rx
        /\ ~Writing /\ count <= Size /\ Coming(3) /\ Going(1 + Size - count) /\ Fetched = Size /\ Posted = 3
    BY <1>1, <1>8, Serving DEF ServeRead, ServeLabels, Streams
  <2>2. Coming(3)'
    BY <1>1, <1>2, <1>3, <2>1, Keeps
  <2>3. PICK given \in Nat : given = 1 + Size - count /\ Going(given)
    BY <1>1, <2>1
  <2>4. CASE count > 0
    <3>1. tx' = tx \o <<Byte("data")>> /\ count' = count - 1 /\ rpc' = "read"
      BY <1>8, <2>1, <2>4 DEF ServeRead, Say
    <3>2. Reply(given + 1) = Byte("data")
      BY <1>1, <2>1, <2>3, <2>4 DEF Reply
    <3>3. Going(given + 1)'
      BY <1>1, <1>2, <1>3, <2>3, <3>1, <3>2, Gives
    <3>4. given + 1 = 1 + Size' - count' /\ count' <= Size'
      BY <1>1, <1>3, <2>1, <2>3, <3>1
    <3>5. Streams(3, 1 + Size - count)'
      BY <2>2, <3>3, <3>4 DEF Streams
    <3>. QED  BY <1>1, <1>2, <1>3, <2>1, <3>1, <3>4, <3>5 DEF CommandInv
  <2>5. CASE ~(count > 0)
    <3>1. tx' = tx \o <<Byte("EOT")>> /\ rpc' = "cmd" /\ given = 1 + Size
      BY <1>1, <1>8, <2>1, <2>3, <2>5 DEF ServeRead, Say
    <3>2. Reply(given + 1) = Byte("EOT")
      BY <1>1, <2>1, <3>1 DEF Reply
    <3>3. Going(given + 1)'
      BY <1>1, <1>2, <1>3, <2>3, <3>1, <3>2, Gives
    <3>4. given + 1 = 2 + Fetched' /\ Posted' = 3
      BY <1>1, <1>3, <2>1, <3>1
    <3>5. Streams(Posted, 2 + Fetched)'
      BY <2>2, <3>3, <3>4 DEF Streams
    <3>. QED  BY <1>1, <1>2, <1>3, <2>1, <3>1, <3>5 DEF CommandInv
  <2>. QED  BY <2>4, <2>5
<1>9. ASSUME ServeWrite PROVE CommandInv'
  <2>1. /\ rpc = "write" /\ rpc \in ServeLabels \ {"exec_addr"}
        /\ Writing /\ addr.low = Target /\ count <= Size /\ Coming(3 + Size - count) /\ Going(1)
        /\ mem[burst] = Size - count /\ Fetched = 0 /\ Posted = 3 + sent /\ Target = burst
    BY <1>1, <1>9, Serving, TargetFacts, Types DEF ServeWrite, ServeLabels, Streams
  <2>2. PICK taken \in Nat : taken = 3 + Size - count /\ Coming(taken)
    BY <1>1, <2>1
  <2>3. CASE count > 0
    <3>1. /\ rx # <<>> /\ rx' = Tail(rx) /\ count' = count - 1 /\ rpc' = "write" /\ tx' = tx /\ addr' = addr
          /\ mem' = [mem EXCEPT ![burst] = @ + 1]
      BY <1>1, <1>9, <2>1, <2>3 DEF ServeWrite, Hear, Land, LlcInv, LlcLabels
    <3>2. Coming(taken + 1)' /\ Going(1)'
      BY <1>1, <1>2, <1>3, <2>1, <2>2, <3>1, Takes, Keeps
    <3>3. taken + 1 = 3 + Size' - count' /\ count' <= Size'
      BY <1>1, <1>3, <2>1, <2>2, <3>1
    <3>4. mem'[burst'] = Size' - count'
      BY <1>1, <1>2, <1>3, <2>1, <3>1
    <3>5. Streams(3 + Size - count, 1)'
      BY <3>2, <3>3 DEF Streams
    <3>. QED  BY <1>1, <1>2, <1>3, <2>1, <3>1, <3>3, <3>4, <3>5 DEF CommandInv
  <2>4. CASE ~(count > 0)
    <3>1. rx' = rx /\ rpc' = "cmd" /\ tx' = tx \o <<Byte("EOT")>> /\ mem' = mem
      BY <1>9, <2>1, <2>4 DEF ServeWrite, Say
    <3>2. Reply(1 + 1) = Byte("EOT")
      BY <2>1 DEF Reply
    <3>3. Coming(taken)' /\ Going(1 + 1)'
      BY <1>1, <1>2, <1>3, <2>1, <2>2, <3>1, <3>2, Gives, Keeps
    <3>4. sent = Size /\ taken = Posted
      <4>1. Len(rx) = Posted - taken
        BY <2>2 DEF Coming
      <4>. QED  BY <1>1, <2>1, <2>2, <2>4, <4>1
    <3>5. Streams(Posted, 2 + Fetched)'
      BY <1>3, <2>1, <3>3, <3>4 DEF Streams
    <3>6. mem'[burst'] = Size'
      BY <1>1, <1>2, <1>3, <2>1, <2>4, <3>1
    <3>. QED  BY <1>1, <1>2, <1>3, <2>1, <3>1, <3>4, <3>5, <3>6 DEF CommandInv
  <2>. QED  BY <2>3, <2>4
<1>. QED  BY <1>4, <1>5, <1>6, <1>7, <1>8, <1>9 DEF ServeStep
\* A step of the host alone: where the two streams are carries over.
LEMMA CommandMapped ==
  ASSUME CommandInv, Exchanging, via = "uart", Exchanging', Size \in Nat, sent \in Nat, count \in Nat,
         sent' \in Nat, sent' <= Size, hpc' = "ended" => sent' = Size, hpc' # "acked",
         hpc' = "body" => sent' < Size,
         Writing' = Writing, Size' = Size, Fetched' = Fetched, Target' = Target,
         Fetched = (IF Writing THEN 0 ELSE Size),
         Posted \in Nat, Posted' = Posted \/ (Writing /\ sent # Size),
         Writing => sent' >= sent,
         UNCHANGED <<via, rpc, addr, count, mem, burst>>,
         \A taken, given \in Nat : Streams(taken, given) => Streams(taken, given)'
  PROVE  CommandInv'
<1>1. CASE rpc = "cmd" /\ Streams(0, 0) /\ (Writing => mem[burst] = 0)
  <2>1. Streams(0, 0)'
    BY <1>1
  <2>. QED  BY <1>1, <2>1 DEF CommandInv
<1>2. CASE rpc = "cmd" /\ Streams(Posted, 2 + Fetched) /\ (Writing => sent = Size /\ mem[burst] = Size)
  <2>1. Posted' = Posted /\ 2 + Fetched \in Nat
    BY <1>2
  <2>2. Streams(Posted, 2 + Fetched)'
    BY <1>2, <2>1
  <2>. QED  BY <1>2, <2>2 DEF CommandInv
<1>3. CASE rpc \in {"read_addr", "write_addr"}
  <2>1. Streams(1, 0) /\ (Writing => mem[burst] = 0) /\ rpc = IF Writing THEN "write_addr" ELSE "read_addr"
    BY <1>3 DEF CommandInv
  <2>2. Streams(1, 0)'
    BY <2>1
  <2>. QED  BY <1>3, <2>1, <2>2 DEF CommandInv
<1>4. CASE rpc \in {"read_len", "write_len"}
  <2>1. /\ Streams(2, 0) /\ (Writing => mem[burst] = 0) /\ addr.low = Target
        /\ rpc = IF Writing THEN "write_len" ELSE "read_len"
    BY <1>4 DEF CommandInv
  <2>2. Streams(2, 0)'
    BY <2>1
  <2>. QED  BY <1>4, <2>1, <2>2 DEF CommandInv
<1>5. CASE rpc = "read"
  <2>1. ~Writing /\ count <= Size /\ Streams(3, 1 + Size - count) /\ 1 + Size - count \in Nat
    BY <1>5 DEF CommandInv
  <2>2. Streams(3, 1 + Size - count)'
    BY <2>1
  <2>. QED  BY <1>5, <2>1, <2>2 DEF CommandInv
<1>6. CASE rpc = "write"
  <2>1. /\ Writing /\ addr.low = Target /\ count <= Size /\ mem[burst] = Size - count
        /\ Streams(3 + Size - count, 1) /\ 3 + Size - count \in Nat
    BY <1>6 DEF CommandInv
  <2>2. Streams(3 + Size - count, 1)'
    BY <2>1
  <2>. QED  BY <1>6, <2>1, <2>2 DEF CommandInv
<1>. QED  BY <1>1, <1>2, <1>3, <1>4, <1>5, <1>6 DEF CommandInv
\* A step of the host in the middle of a command.
LEMMA CommandHeard ==
  ASSUME Fitting, PassiveInv, via = "uart", Command \/ Acked \/ Body \/ Ended
  PROVE  CommandInv'
<1>0. /\ CommandInv /\ GreetInv /\ MemInv /\ rx \in Seq(Wires) /\ tx \in Seq(Wires)
      /\ sent \in Nat /\ count \in Nat /\ burst \in 1 .. Len(BurstLens) + 1
  BY Types DEF PassiveInv
<1>1. /\ CommandInv /\ GreetInv /\ MemInv /\ rx \in Seq(Wires) /\ tx \in Seq(Wires)
      /\ sent \in Nat /\ count \in Nat /\ Size \in Nat /\ Posted \in Nat /\ Heard \in Nat
      /\ Fetched = IF Writing THEN 0 ELSE Size
  BY <1>0, TargetFacts DEF Posted, Heard, Fetched
<1>2. UNCHANGED <<via, rpc, addr, count, mem>>
  BY DEF Command, Acked, Body, Ended, rom
<1>3. ASSUME Command PROVE CommandInv'
  <2>1. /\ hpc = "command" /\ hpc' = "acked" /\ sent' = 0 /\ burst' = burst /\ tx' = tx
        /\ rx' = rx \o <<Byte(IF Writing THEN "WRITE" ELSE "READ"),
                         Wire("field", Target), Wire("field", BurstLens[Target])>>
    BY <1>3 DEF Command, HostStep
  <2>2. rpc = "cmd" /\ rx = <<>> /\ tx = <<>>
    BY <1>1, <2>1 DEF GreetInv
  <2>3. rx' = <<Request(1), Request(2), Request(3)>>
    BY <2>1, <2>2 DEF Request, Size
  <2>4. /\ Writing' = Writing /\ Size' = Size /\ Posted' = 3 /\ Heard' = 0
        /\ \A n \in Int : Request(n)' = Request(n)
    BY <2>1, SameStreams DEF Posted, Heard
  <2>5. Coming(0)'
    <3>1. Len(rx') = 3 /\ \A k \in 1 .. 3 : rx'[k] = Request(0 + k)
      BY <2>3
    <3>2. \A k \in 1 .. 3 : rx'[k] = Request(0 + k)'
      BY <3>1, <2>4
    <3>. QED  BY <2>4, <3>1, <3>2 DEF Coming
  <2>6. Going(0)'
    BY <2>1, <2>2, <2>4 DEF Going
  <2>7. Writing => mem[burst] = 0
    BY <1>1, <2>1 DEF MemInv, Exchanging, Writing
  <2>. QED  BY <1>1, <1>2, <2>1, <2>2, <2>4, <2>5, <2>6, <2>7 DEF CommandInv, Streams
<1>4. ASSUME Acked PROVE CommandInv'
  <2>1. /\ hpc = "acked" /\ hpc' = (IF Size = 0 THEN "ended" ELSE "body") /\ sent' = sent
        /\ burst' = burst /\ rx' = rx /\ tx # <<>> /\ tx' = Tail(tx)
    BY <1>4, Answers DEF Acked, Scoop, Receive, Then, Size
  <2>2. sent = 0 /\ Exchanging
    BY <1>1, <2>1 DEF CommandInv, Exchanging
  <2>3. /\ Writing' = Writing /\ Size' = Size /\ Fetched' = Fetched /\ Target' = Target
        /\ Posted' = Posted /\ Heard' = Heard + 1
    BY <1>1, <2>1, <2>2, SameStreams DEF Heard
  <2>4. ASSUME NEW taken \in Nat, NEW given \in Nat, Streams(taken, given)
        PROVE  Streams(taken, given)'
    BY <1>1, <2>1, <2>3, <2>4, Keeps, Hears DEF Streams
  <2>5. /\ Exchanging /\ Exchanging' /\ sent' \in Nat /\ sent' <= Size
        /\ (hpc' = "ended" => sent' = Size) /\ hpc' # "acked"
        /\ hpc' = "body" => sent' < Size
        /\ Writing => sent' >= sent
    BY <1>1, <2>1, <2>2 DEF CommandInv, Exchanging
  <2>. QED  BY <1>1, <1>2, <2>1, <2>3, <2>4, <2>5, CommandMapped
<1>6. ASSUME Body PROVE CommandInv'
  <2>1. /\ hpc = "body" /\ hpc' = (IF sent' = Size THEN "ended" ELSE "body")
        /\ sent' = sent + 1 /\ burst' = burst
    BY <1>6 DEF Body, Size
  <2>2. /\ Writing' = Writing /\ Size' = Size /\ Fetched' = Fetched /\ Target' = Target
    BY <1>1, <2>1, SameStreams
  <2>3. sent < Size /\ sent # Size
    BY <1>1, <1>6, <2>1 DEF CommandInv, Exchanging
  <2>4. /\ Exchanging /\ Exchanging' /\ sent' \in Nat /\ sent' <= Size
        /\ (hpc' = "ended" => sent' = Size) /\ hpc' # "acked"
        /\ hpc' = "body" => sent' < Size
        /\ Writing => sent' >= sent
    BY <1>1, <2>1, <2>3 DEF CommandInv, Exchanging
  <2>5. CASE Writing
    <3>1. rx' = Append(rx, Byte("data")) /\ tx' = tx
      BY <1>6, <2>5 DEF Body, Scoop, Scooping
    <3>2. Posted' = Posted + 1 /\ Heard' = Heard /\ Posted >= 3
      BY <1>1, <2>1, <2>2, <2>5 DEF Posted, Heard
    <3>3. ASSUME NEW taken \in Nat, NEW given \in Nat, Streams(taken, given)
          PROVE  Streams(taken, given)'
      BY <1>1, <2>1, <3>1, <3>2, <3>3, Keeps, Posts DEF Streams
    <3>. QED  BY <1>1, <1>2, <2>1, <2>2, <2>3, <2>4, <2>5, <3>2, <3>3, CommandMapped
  <2>6. CASE ~Writing
    <3>1. rx' = rx /\ tx # <<>> /\ tx' = Tail(tx)
      BY <1>6, <2>6 DEF Body, Scoop, Receive
    <3>2. Posted' = Posted /\ Heard' = Heard + 1
      BY <1>1, <2>1, <2>2, <2>6 DEF Posted, Heard
    <3>3. ASSUME NEW taken \in Nat, NEW given \in Nat, Streams(taken, given)
          PROVE  Streams(taken, given)'
      BY <1>1, <2>1, <3>1, <3>2, <3>3, Keeps, Hears DEF Streams
    <3>. QED  BY <1>1, <1>2, <2>1, <2>2, <2>4, <2>6, <3>2, <3>3, CommandMapped
  <2>. QED  BY <2>5, <2>6
<1>7. ASSUME Ended PROVE CommandInv'
  <2>1. hpc' \in {"command", "exec"}
    BY <1>7, Answers DEF Ended, Scoop, Receive, Then
  <2>. QED  BY <2>1 DEF CommandInv, Exchanging
<1>. QED  BY <1>3, <1>4, <1>6, <1>7

\* CommandInv is kept.
LEMMA CommandKept ==
  ASSUME Fitting, PassiveInv, Next
  PROVE  CommandInv'
<1>. SUFFICES ASSUME via = "uart", Exchanging'
              PROVE  CommandInv'
  BY UartNext DEF CommandInv
<1>1. CommandInv /\ (Exchanging => rpc \in {"cmd"} \cup (ServeLabels \ {"exec_addr"}))
  BY DEF PassiveInv, CommandInv, ServeLabels
<1>2. ASSUME ServeStep PROVE CommandInv'
  <2>1. Exchanging
    BY <1>2 DEF ServeStep, Greet, ServeCommand, ServeAddr, ServeLen, ServeRead, ServeWrite, ServeExec,
      host, Exchanging
  <2>. QED  BY <1>2, <2>1, CommandServed
<1>3. ASSUME BistEnds \/ UNCHANGED vars PROVE CommandInv'
  <2>1. UNCHANGED <<via, rpc, addr, count, mem, burst, sent, hpc, rx, tx>>
    BY <1>3 DEF BistEnds, vars, rom, host
  <2>2. /\ Writing' = Writing /\ Size' = Size /\ Fetched' = Fetched /\ Target' = Target
        /\ Posted' = Posted /\ Heard' = Heard /\ Exchanging' = Exchanging
    BY <2>1, SameStreams DEF Exchanging
  <2>3. \A n \in Int : Request(n)' = Request(n) /\ Reply(n)' = Reply(n)
    BY <2>1, SameStreams
  <2>4. ASSUME NEW taken, NEW given PROVE Streams(taken, given)' = Streams(taken, given)
    BY <2>1 DEF Streams, Coming, Going, Posted, Heard, Request, Reply, Writing, Target, Size, Fetched
  <2>. QED  BY <1>1, <2>1, <2>2, <2>4 DEF CommandInv
<1>4. ~(\/ WaitBist \/ SetSpmLow \/ SetSpmHigh \/ Commit \/ UartInit \/ PollScratch \/ CheckUart
        \/ ProgramStep)
  BY <1>1 DEF WaitBist, SetSpmLow, SetSpmHigh, Commit, UartInit, PollScratch, CheckUart, ProgramStep,
    Run, CrtExit, ServeReturn, RomExit, Rom, host, Exchanging, ServeLabels
<1>5. ~(\/ Challenge \/ Greeted \/ Exec \/ ExecAcked \/ EocSeen \/ ReceiveCode)
  BY DEF Challenge, Greeted, Exec, ExecAcked, EocSeen, ReceiveCode, HostStep, Then, Exchanging
<1>6. ~ReadText
  BY Answers DEF ReadText, Receive, Exchanging
<1>. QED  BY <1>2, <1>3, <1>4, <1>5, <1>6, CommandHeard, UartNext DEF LlcStep, UartStep

------------------------------------------------------------------------------
(* Over UART: the program.                                                 *)
LEMMA ReplyKinds ==
  ASSUME Fitting
  PROVE  \A n \in Nat : n > 0 =>
           /\ ExecReply(n).kind = "EOC" <=> n = 2 + Len(Output)
           /\ n = 1 => ExecReply(n) = Byte("ACK")
           /\ 1 < n /\ n <= 1 + Len(Output) => ExecReply(n) = Byte(Output[n - 1])
           /\ n = 2 + Len(Output) => ExecReply(n) = Byte("EOC")
           /\ n = 3 + Len(Output) => ExecReply(n) = Wire("return", ret)
<1>1. Len(Output) \in Nat /\ \A k \in 1 .. Len(Output) : Output[k] = "char"
  BY Constants
<1>. TAKE n \in Nat
<1>2. CASE 1 < n /\ n <= 1 + Len(Output)
  <2>1. n - 1 \in 1 .. Len(Output)
    BY <1>1, <1>2
  <2>2. Output[n - 1] = "char"
    BY <1>1, <2>1
  <2>. QED  BY <1>1, <1>2, <2>2 DEF ExecReply, Byte, Wire
<1>. QED  BY <1>1, <1>2 DEF ExecReply, Byte, Wire

LEMMA Said ==
  ASSUME ret' = ret, NEW d \in Int, Given' - Len(tx') = d,
         \A k \in 1 .. Len(tx') : tx'[k] = ExecReply(d + k)
  PROVE  \A k \in 1 .. Len(tx') : tx'[k] = ExecReply(Given - Len(tx) + k)'
BY DEF ExecReply

\* The server or the program says more of the stream.
LEMMA ProgramSays ==
  ASSUME tx \in Seq(Wires), NEW given \in Nat, Len(tx) <= given,
         \A k \in 1 .. Len(tx) : tx[k] = ExecReply(given - Len(tx) + k),
         NEW bytes \in Seq(Wires), \A j \in 1 .. Len(bytes) : bytes[j] = ExecReply(given + j),
         tx' = tx \o bytes, Given' = given + Len(bytes), ret' = ret
  PROVE  /\ Len(tx') = Len(tx) + Len(bytes)
         /\ \A k \in 1 .. Len(tx') : tx'[k] = ExecReply(Given - Len(tx) + k)'
<1>1. /\ Len(tx) \in Nat /\ Len(bytes) \in Nat /\ Len(tx') = Len(tx) + Len(bytes)
      /\ \A k \in 1 .. Len(tx) : tx'[k] = tx[k]
      /\ \A j \in 1 .. Len(bytes) : tx'[Len(tx) + j] = bytes[j]
  OBVIOUS
<1>2. PICK d \in Int : d = given - Len(tx)
  <2>1. given - Len(tx) \in Int
    BY <1>1
  <2>. QED  BY <2>1
<1>3. ASSUME NEW k \in 1 .. Len(tx')
      PROVE  tx'[k] = ExecReply(d + k)
  <2>1. CASE k \in 1 .. Len(tx)
    BY <1>1, <1>2, <2>1
  <2>2. CASE k > Len(tx)
    <3>1. PICK j \in 1 .. Len(bytes) : k = Len(tx) + j
      <4>1. k - Len(tx) \in 1 .. Len(bytes) /\ k = Len(tx) + (k - Len(tx))
        BY <1>1, <2>2
      <4>. QED  BY <4>1
    <3>2. d + k = given + j
      BY <1>1, <1>2, <3>1
    <3>. QED  BY <1>1, <3>1, <3>2
  <2>. QED  BY <1>1, <2>1, <2>2
<1>4. Given' - Len(tx') = d
  BY <1>1, <1>2
<1>. QED  BY <1>1, <1>3, <1>4, Said

\* A step of hart 0 once the host has sent EXEC.
LEMMA ExecServed ==
  ASSUME Fitting, PassiveInv, via = "uart", ServeStep \/ ProgramStep
  PROVE  ExecInv'
<1>. SUFFICES ASSUME hpc' \in {"exec_acked", "wait_eoc", "code", "done"}
              PROVE  ExecInv'
  BY DEF ExecInv
<1>1. /\ ExecInv /\ ProgramInv /\ rx \in Seq(Wires) /\ tx \in Seq(Wires) /\ count \in Nat
      /\ Len(Output) \in Nat /\ Len(tx) \in Nat
  BY Types, Constants DEF PassiveInv
<1>2. UNCHANGED <<via, hpc, eoc, code>>
  BY DEF ServeStep, Greet, ServeCommand, ServeAddr, ServeLen, ServeRead, ServeWrite, ServeExec,
    ProgramStep, Run, CrtExit, ServeReturn, RomExit, host
<1>3. rpc \in {"cmd", "exec_addr", "run", "exit", "eoc", "return", "spin"} /\ ~Exchanging
  BY <1>1, <1>2 DEF ExecInv, Exchanging
<1>4. ~(Greet \/ ServeAddr \/ ServeLen \/ ServeRead \/ ServeWrite)
  BY <1>3 DEF Greet, ServeAddr, ServeLen, ServeRead, ServeWrite, Rom
<1>5. ASSUME ServeCommand PROVE ExecInv'
  <2>1. hpc = "exec_acked" /\ tx = <<>> /\ rx = <<Byte("EXEC"), Wire("field", EntryLow)>>
    BY <1>3, <1>5, Waiting DEF ServeCommand, Hear
  <2>2. rpc' = "exec_addr" /\ rx' = <<Wire("field", EntryLow)>> /\ tx' = tx
    BY <1>5, <2>1 DEF ServeCommand, Hear, Byte, Wire
  <2>. QED  BY <1>1, <1>2, <2>1, <2>2 DEF ExecInv
<1>6. ASSUME ServeExec PROVE ExecInv'
  <2>1. hpc = "exec_acked" /\ tx = <<>> /\ rx = <<Wire("field", EntryLow)>>
    BY <1>6, Waiting DEF ServeExec, Jump, Hear
  <2>2. rx' = <<>> /\ tx' = <<Byte("ACK")>> /\ count' = Len(Output) /\ AtEntry'
    BY <1>6, <2>1 DEF ServeExec, Hear, Say, Wire, AtEntry
  <2>6. rpc' = "run"
    BY <1>6, <2>2 DEF ServeExec, Jump
  <2>3. Given' = 1
    BY <1>1, <2>2, <2>6 DEF Given
  <2>4. Len(tx') = 1 /\ tx'[1] = ExecReply(1)'
    BY <2>2 DEF ExecReply
  <2>5. eoc = FALSE
    BY <2>1, <1>1, Types DEF PassiveInv, GreetInv
  <2>. QED  BY <1>1, <1>2, <2>1, <2>2, <2>3, <2>4, <2>5, <2>6 DEF ExecInv
<1>7. ASSUME ProgramStep PROVE ExecInv'
  <2>1. rpc \in {"run", "exit", "eoc", "return"} /\ ret' = ret
    BY <1>7 DEF ProgramStep, Run, CrtExit, ServeReturn, RomExit, Rom
  <2>2. /\ rx = <<>> /\ Len(tx) <= Given /\ \A k \in 1 .. Len(tx) : tx[k] = ExecReply(Given - Len(tx) + k)
        /\ hpc = "exec_acked" => Len(tx) = Given
        /\ hpc = "wait_eoc" /\ ~eoc =>
             Len(tx) < Given /\ (rpc \in {"return", "spin"} => Len(tx) >= 2)
        /\ eoc \/ hpc \in {"code", "done"} => rpc \in {"return", "spin"}
        /\ eoc \/ hpc = "code" => Len(tx) = 1
        /\ hpc = "done" => code = ret /\ tx = <<>>
    BY <1>1, <1>2, <2>1 DEF ExecInv
  <2>3. Given \in Nat
    BY <1>1, <2>1 DEF Given, ProgramInv
  <2>5. ASSUME Given' = Given, tx' = tx, rx' = rx, rpc' \in {"exit", "eoc", "return", "spin"},
               rpc \in {"return", "spin"} <=> rpc' \in {"return", "spin"}
        PROVE  ExecInv'
    <3>1. PICK d \in Int : d = Given - Len(tx)
      <4>1. Given - Len(tx) \in Int
        BY <1>1, <2>3
      <4>. QED  BY <4>1
    <3>2. \A k \in 1 .. Len(tx') : tx'[k] = ExecReply(Given - Len(tx) + k)'
      BY <1>1, <2>1, <2>2, <2>5, <3>1, Said
    <3>. QED  BY <1>1, <1>2, <2>1, <2>2, <2>5, <3>2 DEF ExecInv
  <2>6. ASSUME Run, count > 0 PROVE ExecInv'
    <3>1. /\ tx' = tx \o <<Byte(Output[Len(Output) - count + 1])>> /\ count' = count - 1
          /\ rpc = "run" /\ rpc' = "run" /\ rx' = rx
      BY <2>6 DEF Run, Say
    <3>2. Given = 1 + Len(Output) - count /\ Given' = Given + 1 /\ Given + 1 <= 1 + Len(Output) /\ Given >= 1
      BY <1>1, <2>6, <3>1 DEF Given, ProgramInv
    <3>3. ExecReply(Given + 1) = Byte(Output[Len(Output) - count + 1])
      <4>1. Given + 1 \in Nat /\ Given + 1 > 1 /\ (Given + 1) - 1 = Len(Output) - count + 1
        BY <1>1, <2>3, <3>2
      <4>. QED  BY <3>2, <4>1, ReplyKinds
    <3>4. PICK bytes \in Seq(Wires) : bytes = <<Byte(Output[Len(Output) - count + 1])>>
      <4>1. Output[Len(Output) - count + 1] = "char"
        <5>1. Len(Output) - count + 1 \in 1 .. Len(Output)
          BY <1>1, <2>6, <3>2
        <5>. QED  BY <5>1, Constants
      <4>2. Byte("char") \in Wires
        BY WireFacts DEF Kinds
      <4>3. <<Byte(Output[Len(Output) - count + 1])>> \in Seq(Wires)
        BY <4>1, <4>2
      <4>. QED  BY <4>3
    <3>6. Len(bytes) = 1 /\ \A j \in 1 .. Len(bytes) : bytes[j] = ExecReply(Given + j)
      BY <3>3, <3>4
    <3>5. /\ Len(tx') = Len(tx) + 1
          /\ \A k \in 1 .. Len(tx') : tx'[k] = ExecReply(Given - Len(tx) + k)'
      BY <1>1, <2>1, <2>2, <2>3, <3>1, <3>2, <3>4, <3>6, ProgramSays
    <3>7. Len(tx') <= Given' /\ (Len(tx) = Given => Len(tx') = Given') /\ (Len(tx) < Given => Len(tx') < Given')
      <4>1. Len(tx) <= Given /\ Len(tx') = Len(tx) + 1 /\ Given' = Given + 1
        BY <2>2, <3>2, <3>5
      <4>. QED  BY <1>1, <2>3, <4>1
    <3>8. eoc = FALSE /\ hpc \notin {"code", "done"}
      BY <1>1, <1>2, <2>2, <3>1, Types
    <3>. QED  BY <1>2, <2>2, <3>1, <3>5, <3>7, <3>8 DEF ExecInv
  <2>7. ASSUME Run, ~(count > 0) PROVE ExecInv'
    <3>1. rpc = "run" /\ rpc' = "exit" /\ UNCHANGED <<tx, rx, count>>
      BY <2>7 DEF Run
    <3>2. Given' = Given
      BY <1>1, <2>7, <3>1 DEF Given
    <3>. QED  BY <2>5, <3>1, <3>2
  <2>8. ASSUME CrtExit PROVE ExecInv'
    <3>1. rpc = "exit" /\ rpc' = "eoc" /\ UNCHANGED <<tx, rx, count>>
      BY <1>1, <2>8 DEF CrtExit, Rom, ProgramInv
    <3>2. Given' = Given
      BY <3>1 DEF Given
    <3>. QED  BY <2>5, <3>1, <3>2
  <2>9. ASSUME RomExit PROVE ExecInv'
    <3>1. rpc = "return" /\ rpc' = "spin" /\ UNCHANGED <<tx, rx, count>>
      BY <2>9 DEF RomExit, Rom
    <3>2. Given' = Given
      BY <3>1 DEF Given
    <3>. QED  BY <2>5, <3>1, <3>2
  <2>10. ASSUME ServeReturn PROVE ExecInv'
    <3>1. /\ tx' = tx \o <<Byte("EOC"), Wire("return", ret)>>
          /\ rpc = "eoc" /\ rpc' = "return" /\ rx' = rx
      BY <2>10 DEF ServeReturn, Rom, Say
    <3>2. Given = 1 + Len(Output) /\ Given' = 3 + Len(Output) /\ Given' = Given + 2
      BY <1>1, <3>1 DEF Given
    <3>3. ExecReply(Given + 1) = Byte("EOC") /\ ExecReply(Given + 2) = Wire("return", ret)
      <4>1. Given + 1 = 2 + Len(Output) /\ Given + 2 = 3 + Len(Output) /\ Given \in Nat
        BY <1>1, <3>2
      <4>. QED  BY <1>1, <4>1, ReplyKinds
    <3>4. PICK bytes \in Seq(Wires) : bytes = <<Byte("EOC"), Wire("return", ret)>>
      <4>1. ret \in 0 .. WordSize - 1
        BY <1>1, ReturnFacts, Constants DEF ProgramInv
      <4>2. Byte("EOC") \in Wires /\ Wire("return", ret) \in Wires
        BY <4>1, WireFacts DEF Kinds
      <4>3. <<Byte("EOC"), Wire("return", ret)>> \in Seq(Wires)
        BY <4>2
      <4>. QED  BY <4>3
    <3>6. Given' = Given + Len(bytes) /\ Len(bytes) = 2 /\ \A j \in 1 .. Len(bytes) : bytes[j] = ExecReply(Given + j)
      BY <3>2, <3>3, <3>4
    <3>5. /\ Len(tx') = Len(tx) + 2
          /\ \A k \in 1 .. Len(tx') : tx'[k] = ExecReply(Given - Len(tx) + k)'
      BY <1>1, <2>1, <2>2, <2>3, <3>1, <3>2, <3>4, <3>6, ProgramSays
    <3>7. Len(tx') <= Given' /\ Len(tx') >= 2
      BY <1>1, <2>2, <2>3, <3>2, <3>5
    <3>. QED  BY <1>1, <1>2, <2>2, <2>3, <3>1, <3>2, <3>5, <3>7 DEF ExecInv
  <2>. QED  BY <1>7, <2>6, <2>7, <2>8, <2>9, <2>10 DEF ProgramStep
<1>. QED  BY <1>4, <1>5, <1>6, <1>7 DEF ServeStep
\* The host takes one byte of the stream.
LEMMA ProgramHeard ==
  ASSUME tx \in Seq(Wires), tx # <<>>, NEW given \in Nat, Len(tx) <= given,
         \A k \in 1 .. Len(tx) : tx[k] = ExecReply(given - Len(tx) + k),
         tx' = Tail(tx), Given' = given, ret' = ret
  PROVE  /\ Len(tx) \in Nat /\ Len(tx) >= 1 /\ Len(tx') = Len(tx) - 1
         /\ Head(tx) = ExecReply(given - Len(tx) + 1)
         /\ \A k \in 1 .. Len(tx') : tx'[k] = ExecReply(Given - Len(tx) + k)'
<1>1. /\ Len(tx) \in Nat /\ Len(tx) >= 1 /\ Head(tx) = tx[1] /\ Len(tx') = Len(tx) - 1
      /\ \A k \in 1 .. Len(tx') : tx'[k] = tx[k + 1]
  OBVIOUS
<1>2. PICK d \in Int : d = given - Len(tx) + 1
  <2>1. given - Len(tx) + 1 \in Int
    BY <1>1
  <2>. QED  BY <2>1
<1>3. \A k \in 1 .. Len(tx') : tx'[k] = ExecReply(d + k)
  <2>. TAKE k \in 1 .. Len(tx')
  <2>1. k + 1 \in 1 .. Len(tx) /\ given - Len(tx) + (k + 1) = d + k
    BY <1>1, <1>2
  <2>2. tx[k + 1] = ExecReply(given - Len(tx) + (k + 1))
    BY <2>1
  <2>. QED  BY <1>1, <2>1, <2>2
<1>4. Given' - Len(tx') = d
  BY <1>1, <1>2
<1>5. \A k \in 1 .. Len(tx') : tx'[k] = ExecReply(Given - Len(tx) + k)'
  BY <1>3, <1>4, Said
<1>6. Head(tx) = ExecReply(given - Len(tx) + 1)
  BY <1>1
<1>. QED  BY <1>1, <1>5, <1>6

\* A step of the host once it has sent EXEC.
LEMMA ExecHeard ==
  ASSUME Fitting, PassiveInv, via = "uart", UartStep
  PROVE  ExecInv'
<1>1. /\ ExecInv /\ GreetInv /\ ProgramInv /\ tx \in Seq(Wires) /\ Len(tx) \in Nat /\ Len(Output) \in Nat
      /\ eoc \in BOOLEAN /\ count \in Nat
  BY Types, Constants DEF PassiveInv
<1>2. UNCHANGED <<via, rpc, addr, count, ret>>
  BY DEF UartStep, Challenge, Greeted, Command, Acked, Body, Ended, Exec, ExecAcked, ReadText,
    EocSeen, ReceiveCode, rom
<1>3. Given' = Given
  BY <1>2 DEF Given
<1>4. ASSUME Challenge \/ Greeted \/ Command \/ Acked \/ Body \/ Ended PROVE ExecInv'
  BY <1>4 DEF Challenge, Greeted, Command, Acked, Body, Ended, HostStep, Then, ExecInv
<1>5. ASSUME Exec PROVE ExecInv'
  <2>1. rpc = "cmd" /\ rx = <<>> /\ tx = <<>> /\ hpc' = "exec_acked" /\ tx' = tx
        /\ rx' = rx \o <<Byte("EXEC"), Wire("field", EntryLow)>>
    BY <1>1, <1>5 DEF Exec, HostStep, GreetInv
  <2>. QED  BY <1>2, <2>1 DEF ExecInv
<1>6. ASSUME hpc \in {"exec_acked", "wait_eoc", "code"}, tx # <<>>, tx' = Tail(tx), rx' = rx
      PROVE  /\ rpc \in {"run", "exit", "eoc", "return", "spin"} /\ rx = <<>> /\ Given \in Nat
             /\ Len(tx) <= Given
             /\ hpc = "exec_acked" => Len(tx) = Given
             /\ hpc = "wait_eoc" /\ ~eoc =>
                  Len(tx) < Given /\ (rpc \in {"return", "spin"} => Len(tx) >= 2)
             /\ eoc \/ hpc = "code" => rpc \in {"return", "spin"} /\ Len(tx) = 1
             /\ Len(tx') = Len(tx) - 1 /\ Head(tx) = ExecReply(Given - Len(tx) + 1)
             /\ \A k \in 1 .. Len(tx') : tx'[k] = ExecReply(Given - Len(tx) + k)'
  <2>1. /\ rpc \in {"run", "exit", "eoc", "return", "spin"} /\ rx = <<>>
        /\ Len(tx) <= Given /\ \A k \in 1 .. Len(tx) : tx[k] = ExecReply(Given - Len(tx) + k)
        /\ hpc = "exec_acked" => Len(tx) = Given
        /\ hpc = "wait_eoc" /\ ~eoc =>
             Len(tx) < Given /\ (rpc \in {"return", "spin"} => Len(tx) >= 2)
        /\ eoc \/ hpc = "code" => rpc \in {"return", "spin"} /\ Len(tx) = 1
    BY <1>1, <1>6 DEF ExecInv
  <2>2. Given \in Nat
    BY <1>1, <2>1 DEF Given, ProgramInv
  <2>3. /\ Len(tx') = Len(tx) - 1 /\ Head(tx) = ExecReply(Given - Len(tx) + 1)
        /\ \A k \in 1 .. Len(tx') : tx'[k] = ExecReply(Given - Len(tx) + k)'
    BY <1>1, <1>2, <1>3, <1>6, <2>1, <2>2, ProgramHeard
  <2>. QED  BY <2>1, <2>2, <2>3
<1>7. ASSUME ExecAcked PROVE ExecInv'
  <2>1. /\ hpc = "exec_acked" /\ hpc' = "wait_eoc" /\ tx # <<>> /\ tx' = Tail(tx) /\ rx' = rx
        /\ UNCHANGED <<eoc, code>>
    BY <1>7, Answers DEF ExecAcked, Scoop, Receive, Then
  <2>2. ~eoc
    BY <1>1, <2>1 DEF GreetInv
  <2>3. rpc \in {"return", "spin"} => Given >= 3
    BY <1>1 DEF Given
  <2>4. /\ rpc \in {"run", "exit", "eoc", "return", "spin"} /\ rx = <<>> /\ Len(tx') < Given'
        /\ rpc \in {"return", "spin"} => Len(tx') >= 2
        /\ \A k \in 1 .. Len(tx') : tx'[k] = ExecReply(Given - Len(tx) + k)'
    <3>1. /\ rpc \in {"run", "exit", "eoc", "return", "spin"} /\ rx = <<>> /\ Given \in Nat
          /\ Len(tx) = Given /\ Len(tx') = Len(tx) - 1
          /\ \A k \in 1 .. Len(tx') : tx'[k] = ExecReply(Given - Len(tx) + k)'
      BY <1>6, <2>1
    <3>2. Len(tx') < Given' /\ (rpc \in {"return", "spin"} => Len(tx') >= 2)
      BY <1>3, <2>3, <3>1
    <3>. QED  BY <3>1, <3>2
  <2>. QED  BY <1>1, <1>2, <1>3, <2>1, <2>2, <2>4 DEF ExecInv
<1>8. ASSUME ReadText PROVE ExecInv'
  <2>1. /\ hpc = "wait_eoc" /\ hpc' = "wait_eoc" /\ ~eoc /\ tx # <<>> /\ tx' = Tail(tx) /\ rx' = rx
        /\ eoc' = (eoc \/ Head(tx).kind = "EOC")
    BY <1>8, Answers DEF ReadText, Receive
  <2>2. /\ rpc \in {"run", "exit", "eoc", "return", "spin"} /\ rx = <<>> /\ Len(tx) < Given /\ Given \in Nat
        /\ rpc \in {"return", "spin"} => Len(tx) >= 2
        /\ Len(tx') = Len(tx) - 1 /\ Head(tx) = ExecReply(Given - Len(tx) + 1)
        /\ \A k \in 1 .. Len(tx') : tx'[k] = ExecReply(Given - Len(tx) + k)'
    BY <1>6, <2>1
  <2>3. Given - Len(tx) + 1 \in Nat /\ Given - Len(tx) + 1 > 0
    BY <1>1, <2>2
  <2>4. eoc' <=> Given - Len(tx) + 1 = 2 + Len(Output)
    BY <2>1, <2>2, <2>3, ReplyKinds
  <2>5. Given <= 1 + Len(Output) \/ (Given = 3 + Len(Output) /\ rpc \in {"return", "spin"})
    BY <1>1, <2>2 DEF Given
  <2>6. eoc' => rpc \in {"return", "spin"} /\ Len(tx') = 1
    BY <1>1, <2>2, <2>4, <2>5
  <2>7. ~eoc' => Len(tx') < Given /\ (rpc \in {"return", "spin"} => Len(tx') >= 2)
    BY <1>1, <2>2, <2>4, <2>5 DEF Given
  <2>. QED  BY <1>1, <1>2, <1>3, <2>1, <2>2, <2>6, <2>7 DEF ExecInv
<1>9. ASSUME EocSeen PROVE ExecInv'
  <2>1. hpc = "wait_eoc" /\ hpc' = "code" /\ eoc /\ eoc' = FALSE /\ UNCHANGED <<rx, tx, code>>
    BY <1>9 DEF EocSeen, HostStep
  <2>2. /\ rpc \in {"return", "spin"} /\ rx = <<>> /\ Len(tx) = 1 /\ Len(tx) <= Given /\ Given \in Nat
        /\ \A k \in 1 .. Len(tx) : tx[k] = ExecReply(Given - Len(tx) + k)
    BY <1>1, <2>1 DEF ExecInv, Given
  <2>3. PICK d \in Int : d = Given - Len(tx)
    <3>1. Given - Len(tx) \in Int
      BY <2>2
    <3>. QED  BY <3>1
  <2>4. \A k \in 1 .. Len(tx') : tx'[k] = ExecReply(Given - Len(tx) + k)'
    BY <1>2, <1>3, <2>1, <2>2, <2>3, Said
  <2>. QED  BY <1>1, <1>2, <1>3, <2>1, <2>2, <2>4 DEF ExecInv
<1>10. ASSUME ReceiveCode PROVE ExecInv'
  <2>1. /\ hpc = "code" /\ hpc' = "done" /\ tx # <<>> /\ tx' = Tail(tx) /\ rx' = rx
        /\ code' = Head(tx).value /\ eoc' = eoc
    BY <1>10 DEF ReceiveCode, HostStep, Scoop, Receive
  <2>2. ~eoc
    BY <1>1, <2>1 DEF GreetInv
  <2>3. /\ rpc \in {"return", "spin"} /\ rx = <<>> /\ Len(tx) = 1 /\ Len(tx') = 0 /\ Given \in Nat
        /\ Head(tx) = ExecReply(Given - Len(tx) + 1)
        /\ \A k \in 1 .. Len(tx') : tx'[k] = ExecReply(Given - Len(tx) + k)'
    BY <1>6, <2>1
  <2>4. Given - Len(tx) + 1 = 3 + Len(Output) /\ Given >= 0
    BY <1>1, <2>3 DEF Given
  <2>5. code' = ret /\ tx' = <<>>
    BY <1>1, <2>1, <2>3, <2>4, ReplyKinds DEF Wire
  <2>. QED  BY <1>1, <1>2, <1>3, <2>1, <2>2, <2>3, <2>4, <2>5 DEF ExecInv
<1>. QED  BY <1>4, <1>5, <1>7, <1>8, <1>9, <1>10 DEF UartStep

LEMMA ExecKept ==
  ASSUME Fitting, PassiveInv, Next
  PROVE  ExecInv'
<1>. SUFFICES ASSUME via = "uart"
              PROVE  ExecInv'
  BY UartNext DEF ExecInv
<1>1. ASSUME BistEnds \/ UNCHANGED vars PROVE ExecInv'
  <2>1. UNCHANGED <<via, rpc, count, ret, hpc, rx, tx, eoc, code>>
    BY <1>1 DEF BistEnds, vars, rom, host
  <2>2. Given' = Given /\ \A n : ExecReply(n)' = ExecReply(n)
    BY <2>1 DEF Given, ExecReply
  <2>. QED  BY <2>1, <2>2 DEF PassiveInv, ExecInv, Given, ExecReply
<1>2. ASSUME \/ WaitBist \/ SetSpmLow \/ SetSpmHigh \/ Commit \/ UartInit \/ PollScratch \/ CheckUart
      PROVE  ExecInv'
  <2>1. hpc' = hpc /\ rpc \in LlcLabels \cup Polling
    BY <1>2 DEF WaitBist, SetSpmLow, SetSpmHigh, Commit, UartInit, PollScratch, CheckUart, Rom, host,
      LlcLabels, Polling
  <2>2. hpc \notin {"exec_acked", "wait_eoc", "code", "done"}
    BY <2>1 DEF PassiveInv, ExecInv, LlcLabels, Polling
  <2>. QED  BY <2>1, <2>2 DEF ExecInv
<1>. QED  BY <1>1, <1>2, ExecServed, ExecHeard, UartNext DEF LlcStep
------------------------------------------------------------------------------
(* Types: each variable, and the steps that change it.                     *)
LEMMA Changes ==
  ASSUME Next
  PROVE  /\ LlcStep \/ llc' = llc
         /\ \/ ClearLaunch \/ CrtExit \/ RomExit \/ SlinkStep
            \/ scratch' = scratch
         /\ ReadEntryHigh \/ ReadEntryLow \/ ServeAddr \/ ServeExec \/ JtagResume \/ addr' = addr
         /\ \/ ReadEntryLow \/ ServeLen \/ ServeRead \/ ServeWrite \/ ServeExec \/ Run \/ JtagResume
            \/ count' = count
         /\ ServeCommand \/ ret' = ret
         /\ ServeWrite \/ PreloadBurst \/ mem' = mem
         /\ \/ UartInit \/ CheckUart \/ ServeCommand \/ ServeAddr \/ ServeLen \/ ServeWrite \/ ServeExec
            \/ Challenge \/ Command \/ Body \/ Exec
            \/ rx' = rx
         /\ \/ Greet \/ ServeLen \/ ServeRead \/ ServeWrite \/ ServeExec \/ Run \/ ServeReturn
            \/ Greeted \/ Acked \/ Body \/ Ended \/ ExecAcked \/ ReadText \/ ReceiveCode
            \/ tx' = tx
         /\ PreloadBurst \/ Ended \/ burst' = burst
         /\ Command \/ Body \/ sent' = sent
         /\ PollEoc \/ ReceiveCode \/ code' = code
<1>1. CASE LlcStep
  BY <1>1 DEF LlcStep, BistEnds, WaitBist, SetSpmLow, SetSpmHigh, Commit, rom, host
<1>2. CASE BootStep
  BY <1>2 DEF BootStep, UartInit, PollScratch, CheckUart, ClearLaunch, ReadEntryHigh, ReadEntryLow, host
<1>3. CASE ServeStep
  BY <1>3 DEF ServeStep, Greet, ServeCommand, ServeAddr, ServeLen, ServeRead, ServeWrite, ServeExec, host
<1>4. CASE ProgramStep
  BY <1>4 DEF ProgramStep, Run, CrtExit, ServeReturn, RomExit, host
<1>5. CASE HostWaitLlc \/ PreloadBurst \/ PollEoc
  BY <1>5 DEF HostWaitLlc, PreloadBurst, PollEoc, rom
<1>6. CASE JtagStep \/ SlinkStep
  BY <1>6 DEF JtagStep, JtagHalt, JtagResume, SlinkStep, SlinkEntryHigh, SlinkEntryLow, SlinkLaunch, SlinkZeroLength, rom
<1>7. CASE UartStep
  BY <1>7 DEF UartStep, Challenge, Greeted, Command, Acked, Body, Ended, Exec, ExecAcked, ReadText,
    EocSeen, ReceiveCode, rom
<1>8. CASE Done
  BY <1>8 DEF Done, vars
<1>. QED  BY <1>1, <1>2, <1>3, <1>4, <1>5, <1>6, <1>7, <1>8 DEF Next, RomStep, HostNext

\* Where hart 0 and the host are.
LEMMA LabelKept ==
  ASSUME Fitting, PassiveInv, Next
  PROVE  /\ rpc' \in RomLabels /\ hpc' \in HostLabels /\ eoc' \in BOOLEAN
         /\ back' \in {"eoc", "spin", "uart_init", "poll", "greet"}
<1>1. /\ rpc \in RomLabels /\ hpc \in HostLabels /\ eoc \in BOOLEAN
      /\ back \in {"eoc", "spin", "uart_init", "poll", "greet"}
  BY DEF PassiveInv, TypeOK
<1>2. CASE LlcStep
  BY <1>1, <1>2 DEF LlcStep, BistEnds, WaitBist, SetSpmLow, SetSpmHigh, Commit, Rom, Jump, rom, host, RomLabels
<1>3. CASE BootStep
  BY <1>1, <1>3 DEF BootStep, UartInit, PollScratch, CheckUart, ClearLaunch, ReadEntryHigh, ReadEntryLow,
    Rom, Jump, host, RomLabels
<1>4. CASE ServeStep
  BY <1>1, <1>4 DEF ServeStep, Greet, ServeCommand, ServeAddr, ServeLen, ServeRead, ServeWrite,
    ServeExec, Rom, Jump, host, RomLabels
<1>5. CASE ProgramStep
  BY <1>1, <1>5 DEF ProgramStep, Run, CrtExit, ServeReturn, RomExit, Rom, host, RomLabels
<1>6. CASE HostWaitLlc \/ PreloadBurst \/ PollEoc
  BY <1>1, <1>6 DEF HostWaitLlc, PreloadBurst, PollEoc, HostStep, rom, HostLabels
<1>7. CASE JtagStep \/ SlinkStep
  BY <1>1, <1>7 DEF JtagStep, JtagHalt, JtagResume, SlinkStep, SlinkEntryHigh, SlinkEntryLow, SlinkLaunch, SlinkZeroLength,
    Rom, HostStep, Interrupted, rom, HostLabels, RomLabels
<1>8. CASE UartStep
  BY <1>1, <1>8 DEF UartStep, Challenge, Greeted, Command, Acked, Body, Ended, Exec, ExecAcked,
    ReadText, EocSeen, ReceiveCode, HostStep, Then, rom, HostLabels
<1>9. CASE Done
  BY <1>1, <1>9 DEF Done, vars
<1>. QED  BY <1>2, <1>3, <1>4, <1>5, <1>6, <1>7, <1>8, <1>9 DEF Next, RomStep, HostNext

LEMMA LlcTyped ==
  ASSUME Fitting, PassiveInv, Next
  PROVE  llc' \in LlcStates
<1>1. llc \in LlcStates
  BY Types
<1>2. ASSUME NEW p \in LlcChoices, NEW b \in BOOLEAN, NEW l \in BOOLEAN, NEW h \in BOOLEAN, NEW c \in BOOLEAN
      PROVE  [present |-> p, bist |-> b, low |-> l, high |-> h, committed |-> c] \in LlcStates
  BY <1>2, Zenon DEF LlcStates
<1>3. /\ llc.present \in LlcChoices /\ llc.bist \in BOOLEAN /\ llc.low \in BOOLEAN /\ llc.high \in BOOLEAN
      /\ llc.committed \in BOOLEAN /\ TRUE \in BOOLEAN
      /\ llc = [present |-> llc.present, bist |-> llc.bist, low |-> llc.low, high |-> llc.high,
                committed |-> llc.committed]
  BY <1>1 DEF LlcStates
<1>4. CASE BistEnds
  <2>1. llc' = [present |-> llc.present, bist |-> TRUE, low |-> llc.low, high |-> llc.high,
                committed |-> llc.committed]
    BY <1>3, <1>4 DEF BistEnds
  <2>. QED  BY <1>2, <1>3, <2>1
<1>5. CASE SetSpmLow
  <2>1. llc' = [present |-> llc.present, bist |-> llc.bist, low |-> TRUE, high |-> llc.high,
                committed |-> llc.committed]
    BY <1>3, <1>5 DEF SetSpmLow
  <2>. QED  BY <1>2, <1>3, <2>1
<1>6. CASE SetSpmHigh
  <2>1. llc' = [present |-> llc.present, bist |-> llc.bist, low |-> llc.low, high |-> TRUE,
                committed |-> llc.committed]
    BY <1>3, <1>6 DEF SetSpmHigh
  <2>. QED  BY <1>2, <1>3, <2>1
<1>7. CASE Commit
  <2>1. llc' = [present |-> llc.present, bist |-> llc.bist, low |-> llc.low, high |-> llc.high,
                committed |-> TRUE]
    BY <1>3, <1>7 DEF Commit
  <2>. QED  BY <1>2, <1>3, <2>1
<1>8. CASE WaitBist \/ llc' = llc
  BY <1>1, <1>8 DEF WaitBist
<1>. QED  BY <1>4, <1>5, <1>6, <1>7, <1>8, Changes DEF LlcStep

LEMMA RegistersTyped ==
  ASSUME Fitting, PassiveInv, Next
  PROVE  /\ scratch' \in [0 .. 2 -> 0 .. WordSize - 1]
         /\ addr' \in [low : 0 .. WordSize - 1, high : 0 .. WordSize - 1]
         /\ count' \in Nat /\ ret' \in Returns \cup {1}
         /\ code' \in -1 .. WordSize - 1
<1>1. /\ scratch \in [0 .. 2 -> 0 .. WordSize - 1]
      /\ addr \in [low : 0 .. WordSize - 1, high : 0 .. WordSize - 1] /\ count \in Nat
      /\ ret \in Returns \cup {1} /\ code \in -1 .. WordSize - 1
      /\ WordSize \in Nat /\ WordSize > 6 /\ Len(Output) \in Nat /\ rx \in Seq(Wires) /\ tx \in Seq(Wires)
  BY Types, Constants DEF PassiveInv, TypeOK
<1>2. rx # <<>> => Head(rx).value \in 0 .. WordSize - 1
  <2>1. rx # <<>> => Head(rx) \in Wires
    BY <1>1
  <2>. QED  BY <2>1 DEF Wires
<1>3. tx # <<>> => Head(tx).value \in 0 .. WordSize - 1
  <2>1. tx # <<>> => Head(tx) \in Wires
    BY <1>1
  <2>. QED  BY <2>1 DEF Wires
<1>4. scratch' \in [0 .. 2 -> 0 .. WordSize - 1]
  <2>1. ExitWord(ret) \in 0 .. WordSize - 1
    <3>1. ret \in Returns
      BY Types
    <3>. QED  BY <3>1, ReturnFacts
  <2>2. ASSUME NEW i \in 0 .. 2, NEW v \in 0 .. WordSize - 1
        PROVE  [scratch EXCEPT ![i] = v] \in [0 .. 2 -> 0 .. WordSize - 1]
    BY <1>1
  <2>3. 0 \in 0 .. WordSize - 1 /\ {EntryHigh, EntryLow, Launch} \subseteq 0 .. WordSize - 1
    BY <1>1 DEF EntryHigh, EntryLow, Launch
  <2>4. CASE ClearLaunch \/ CrtExit \/ RomExit
    BY <2>1, <2>2, <2>3, <2>4 DEF ClearLaunch, CrtExit, RomExit
  <2>5. CASE SlinkStep
    BY <2>2, <2>3, <2>5 DEF SlinkStep, SlinkEntryHigh, SlinkEntryLow, SlinkLaunch, SlinkZeroLength
  <2>. QED  BY <1>1, <2>4, <2>5, Changes
<1>5. addr' \in [low : 0 .. WordSize - 1, high : 0 .. WordSize - 1]
  <2>1. scratch[0] \in 0 .. WordSize - 1 /\ scratch[1] \in 0 .. WordSize - 1
    BY <1>1
  <2>2. ASSUME NEW v \in 0 .. WordSize - 1
        PROVE  /\ [addr EXCEPT !.high = v] \in [low : 0 .. WordSize - 1, high : 0 .. WordSize - 1]
               /\ [addr EXCEPT !.low = v] \in [low : 0 .. WordSize - 1, high : 0 .. WordSize - 1]
               /\ [low |-> v, high |-> EntryHigh] \in [low : 0 .. WordSize - 1, high : 0 .. WordSize - 1]
    <3>1. EntryHigh \in 0 .. WordSize - 1
      BY <1>1 DEF EntryHigh
    <3>2. [addr EXCEPT !.high = v] \in [low : 0 .. WordSize - 1, high : 0 .. WordSize - 1]
      BY <1>1
    <3>3. [addr EXCEPT !.low = v] \in [low : 0 .. WordSize - 1, high : 0 .. WordSize - 1]
      BY <1>1
    <3>. QED  BY <3>1, <3>2, <3>3
  <2>3. CASE ReadEntryHigh \/ ReadEntryLow
    BY <2>1, <2>2, <2>3 DEF ReadEntryHigh, ReadEntryLow
  <2>4. CASE ServeAddr \/ ServeExec
    BY <1>2, <2>2, <2>4 DEF ServeAddr, ServeExec, Hear
  <2>5. ASSUME JtagResume
        PROVE  addr' \in [low : 0 .. WordSize - 1, high : 0 .. WordSize - 1]
    BY <1>1, <2>5 DEF JtagResume, EntryHigh, EntryLow
  <2>. QED  BY <1>1, <2>3, <2>4, <2>5, Changes
<1>6. count' \in Nat
  <2>1. CASE ReadEntryLow \/ ServeExec \/ JtagResume
    BY <1>1, <2>1 DEF ReadEntryLow, ServeExec, JtagResume
  <2>2. CASE ServeLen
    BY <1>1, <1>2, <2>2 DEF ServeLen, Hear
  <2>3. CASE ServeRead \/ ServeWrite \/ Run
    BY <1>1, <2>3 DEF ServeRead, ServeWrite, Run
  <2>. QED  BY <1>1, <2>1, <2>2, <2>3, Changes
<1>7. ret' \in Returns \cup {1}
  BY <1>1, Changes DEF ServeCommand
<1>8. code' \in -1 .. WordSize - 1
  <2>1. scratch[2] \div 2 \in 0 .. WordSize - 1
    <3>1. scratch[2] \in 0 .. WordSize - 1
      BY <1>1
    <3>. QED  BY <1>1, <3>1, SMTT(20)
  <2>2. CASE PollEoc \/ ReceiveCode
    BY <1>1, <1>3, <2>1, <2>2 DEF PollEoc, ReceiveCode, Scoop, Receive
  <2>. QED  BY <1>1, <2>2, Changes
<1>. QED  BY <1>4, <1>5, <1>6, <1>7, <1>8

LEMMA LoadTyped ==
  ASSUME Fitting, PassiveInv, Next
  PROVE  /\ mem' \in [Bursts -> Nat] /\ burst' \in 1 .. Len(BurstLens) + 1 /\ sent' \in Nat
<1>1. /\ mem \in [Bursts -> Nat] /\ burst \in 1 .. Len(BurstLens) + 1 /\ sent \in Nat
      /\ Len(BurstLens) \in Nat /\ Bursts = 1 .. Len(BurstLens) /\ \A n \in Bursts : BurstLens[n] \in Nat
  BY Types, Constants
<1>2. ASSUME PreloadBurst PROVE mem' \in [Bursts -> Nat] /\ burst' \in 1 .. Len(BurstLens) + 1
  <2>1. burst \in Bursts
    BY <1>2 DEF PassiveInv, MemInv, PreloadBurst
  <2>. QED  BY <1>1, <1>2, <2>1 DEF PreloadBurst
<1>3. ASSUME ServeWrite PROVE mem' \in [Bursts -> Nat]
  <2>1. addr.low \in Bursts
    BY <1>3, Serving, TargetFacts, Types DEF ServeWrite, ServeLabels
  <2>2. mem' = mem \/ mem' = [mem EXCEPT ![addr.low] = @ + 1]
    BY <1>3 DEF ServeWrite, Land
  <2>. QED  BY <1>1, <2>1, <2>2
<1>4. ASSUME Ended PROVE burst' \in 1 .. Len(BurstLens) + 1
  BY <1>1, <1>4 DEF Ended, Writing
<1>5. ASSUME Command \/ Body PROVE sent' \in Nat
  BY <1>1, <1>5 DEF Command, Body
<1>. QED  BY <1>1, <1>2, <1>3, <1>4, <1>5, Changes

LEMMA WiresTyped ==
  ASSUME Fitting, PassiveInv, Next
  PROVE  rx' \in Seq(Wires) /\ tx' \in Seq(Wires)
<1>1. /\ rx \in Seq(Wires) /\ tx \in Seq(Wires) /\ count \in Nat /\ Len(Output) \in Nat
  BY Types, Constants
<1>2. /\ rx # <<>> => Tail(rx) \in Seq(Wires)
      /\ tx # <<>> => Tail(tx) \in Seq(Wires)
  BY <1>1
<1>3. \A kind \in Kinds : Byte(kind) \in Wires
  BY WireFacts
<1>4. \A w \in Wires : tx \o <<w>> \in Seq(Wires) /\ Append(rx, w) \in Seq(Wires)
  BY <1>1
<1>5. rx' \in Seq(Wires)
  <2>1. CASE UartInit \/ CheckUart \/ ServeCommand \/ ServeAddr \/ ServeLen \/ ServeWrite \/ ServeExec
    <3>1. rx' = <<>> \/ rx' = rx \/ (rx # <<>> /\ rx' = Tail(rx))
      BY <2>1 DEF UartInit, CheckUart, ServeCommand, ServeAddr, ServeLen, ServeWrite, ServeExec, Hear
    <3>2. <<>> \in Seq(Wires)
      OBVIOUS
    <3>. QED  BY <1>1, <1>2, <3>1, <3>2
  <2>2. CASE Challenge \/ Body
    <3>1. Byte("ACK") \in Wires /\ Byte("data") \in Wires
      BY <1>3 DEF Kinds
    <3>. QED  BY <1>1, <1>4, <2>2, <3>1 DEF Challenge, Body
  <2>3. ASSUME Command PROVE rx' \in Seq(Wires)
    <3>1. Target \in 0 .. WordSize - 1 /\ BurstLens[Target] \in 0 .. WordSize - 1
      <4>1. burst \in 1 .. Len(BurstLens) + 1 /\ WordSize \in Nat
        BY Types, Constants
      <4>. QED  BY <4>1, TargetFacts DEF Size
    <3>2. /\ Byte(IF Writing THEN "WRITE" ELSE "READ") \in Wires
          /\ Wire("field", Target) \in Wires /\ Wire("field", BurstLens[Target]) \in Wires
      BY <3>1, WireFacts DEF Kinds
    <3>3. <<Byte(IF Writing THEN "WRITE" ELSE "READ"), Wire("field", Target),
            Wire("field", BurstLens[Target])>> \in Seq(Wires)
      BY <3>2
    <3>. QED  BY <1>1, <2>3, <3>3 DEF Command
  <2>4. ASSUME Exec PROVE rx' \in Seq(Wires)
    <3>1. EntryLow \in 0 .. WordSize - 1
      BY Constants DEF EntryLow
    <3>2. Byte("EXEC") \in Wires /\ Wire("field", EntryLow) \in Wires
      BY <3>1, WireFacts DEF Kinds
    <3>3. <<Byte("EXEC"), Wire("field", EntryLow)>> \in Seq(Wires)
      BY <3>2
    <3>. QED  BY <1>1, <2>4, <3>3 DEF Exec
  <2>. QED  BY <1>1, <2>1, <2>2, <2>3, <2>4, Changes
<1>6. tx' \in Seq(Wires)
  <2>1. CASE Greet \/ ServeLen \/ ServeRead \/ ServeWrite \/ ServeExec
    <3>1. Byte("ACK") \in Wires /\ Byte("data") \in Wires /\ Byte("EOT") \in Wires
      BY <1>3 DEF Kinds
    <3>. QED  BY <1>1, <1>4, <2>1, <3>1 DEF Greet, ServeLen, ServeRead, ServeWrite, ServeExec, Say
  <2>2. ASSUME Run PROVE tx' \in Seq(Wires)
    <3>1. CASE count > 0
      <4>1. Output[Len(Output) - count + 1] = "char"
        <5>1. count <= Len(Output)
          BY <2>2 DEF PassiveInv, ProgramInv, Run
        <5>2. Len(Output) - count + 1 \in 1 .. Len(Output)
          BY <1>1, <3>1, <5>1
        <5>. QED  BY <5>2, Constants
      <4>2. Byte(Output[Len(Output) - count + 1]) \in Wires
        BY <1>3, <4>1 DEF Kinds
      <4>. QED  BY <1>4, <2>2, <3>1, <4>2 DEF Run, Say
    <3>2. CASE ~(count > 0)
      BY <1>1, <2>2, <3>2 DEF Run
    <3>. QED  BY <3>1, <3>2
  <2>3. ASSUME ServeReturn PROVE tx' \in Seq(Wires)
    <3>1. ret \in Returns
      BY Types
    <3>2. ret \in 0 .. WordSize - 1
      BY <3>1, ReturnFacts, Constants
    <3>3. Byte("EOC") \in Wires /\ Wire("return", ret) \in Wires
      BY <3>2, WireFacts DEF Kinds
    <3>4. <<Byte("EOC"), Wire("return", ret)>> \in Seq(Wires)
      BY <3>3
    <3>. QED  BY <1>1, <2>3, <3>4 DEF ServeReturn, Say
  <2>4. CASE Greeted \/ Acked \/ Body \/ Ended \/ ExecAcked \/ ReadText \/ ReceiveCode
    BY <1>1, <1>2, <2>4 DEF Greeted, Acked, Body, Ended, ExecAcked, ReadText, ReceiveCode, Scoop, Receive
  <2>. QED  BY <1>1, <2>1, <2>2, <2>3, <2>4, Changes
<1>. QED  BY <1>5, <1>6

LEMMA TypeKept ==
  ASSUME Fitting, PassiveInv, Next
  PROVE  TypeOK'
<1>1. via' \in Hosts
  BY UartNext DEF PassiveInv, TypeOK
<1>. QED  BY <1>1, LabelKept, LlcTyped, RegistersTyped, LoadTyped, WiresTyped DEF TypeOK, LlcStates, Wires

------------------------------------------------------------------------------
LEMMA StepInv ==
  ASSUME Fitting, PassiveInv, Next
  PROVE  PassiveInv'
BY TypeKept, LlcKept, MemKept, ProgramKept, JtagKept, SlinkKept, GreetKept, CommandKept, ExecKept DEF PassiveInv

LEMMA Invariant == Fitting => (Spec => []PassiveInv)
<1>. SUFFICES ASSUME Fitting
              PROVE  Spec => []PassiveInv
  OBVIOUS
<1>1. Init => PassiveInv
  BY InitialInv
<1>2. PassiveInv /\ [Next]_vars => PassiveInv'
  <2>1. ASSUME PassiveInv, UNCHANGED vars PROVE PassiveInv'
    <3>1. TypeOK'
      BY <2>1 DEF vars, PassiveInv, TypeOK
    <3>2. LlcInv' /\ MemInv' /\ ProgramInv'
      BY <2>1 DEF vars, PassiveInv, LlcInv, SpmReady, MemInv, Exchanging, ProgramInv
    <3>3. JtagInv' /\ SlinkInv' /\ GreetInv'
      BY <2>1 DEF vars, PassiveInv, JtagInv, SlinkInv, GreetInv, Misread, Kept, ExitWord, NoEnd
    <3>4. CommandInv'
      BY <2>1 DEF vars, PassiveInv, CommandInv, Exchanging, Size, Request, Fetched, Reply, Posted, Heard,
        Coming, Going, Streams, Writing, Target
    <3>5. ExecInv'
      BY <2>1 DEF vars, PassiveInv, ExecInv, ExecReply, Given
    <3>. QED  BY <3>1, <3>2, <3>3, <3>4, <3>5 DEF PassiveInv
  <2>. QED  BY <2>1, StepInv
<1>. QED  BY <1>1, <1>2, PTL DEF Spec

------------------------------------------------------------------------------
(* PassiveBoot's definition TypeOK: what each variable holds.  In          *)
(* particular no command's field is cut off, and what the host reports     *)
(* fits a word.                                                            *)
THEOREM PassiveTyped == Fitting => (Spec => []TypeOK)
BY Invariant, PTL DEF PassiveInv

(* Whenever hart 0 enters the program the whole image is in memory, over   *)
(* each of the three ways in; and it is sent to no other address than the  *)
(* host's entry point, but by an odd result that a debugger's program      *)
(* leaves for the boot ROM's polling loop.                                 *)
THEOREM WholeImage == Fitting => (Spec => []RunsWholeImage)
<1>1. ASSUME Fitting, PassiveInv PROVE RunsWholeImage
  <2>1. /\ MemInv /\ ProgramInv /\ JtagInv /\ SlinkInv /\ GreetInv /\ CommandInv /\ ExecInv
        /\ via \in {"jtag", "slink", "uart"} /\ Bursts = 1 .. Len(BurstLens) /\ Len(BurstLens) \in Nat
    BY <1>1, WayIn, Constants DEF PassiveInv
  <2>2. ASSUME rpc = "run" PROVE \A n \in Bursts : mem[n] = BurstLens[n]
    <3>1. hpc \in {"poll", "done", "exec_acked", "wait_eoc", "code"}
      <4>1. CASE via = "jtag"
        BY <2>1, <2>2, <4>1 DEF JtagInv, LlcLabels, Polling
      <4>2. CASE via = "slink"
        BY <2>1, <2>2, <4>2 DEF SlinkInv, LlcLabels, Polling
      <4>3. CASE via = "uart"
        BY <2>1, <2>2, <4>3 DEF GreetInv, CommandInv, Exchanging, LlcLabels, Polling
      <4>. QED  BY <2>1, <4>1, <4>2, <4>3
    <3>2. burst = Len(BurstLens) + 1
      BY <2>1, <3>1 DEF MemInv
    <3>. QED  BY <2>1, <3>2 DEF MemInv
  <2>3. ASSUME rpc = "lost" PROVE Misread
    <3>1. via # "uart" /\ via # "slink"
      BY <1>1, <2>1, <2>3, WayIn DEF Relaunch, SlinkInv, LlcLabels, Polling
    <3>. QED  BY <2>1, <2>3, <3>1 DEF JtagInv, Relaunch
  <2>. QED  BY <2>2, <2>3 DEF RunsWholeImage
<1>. SUFFICES ASSUME Fitting
              PROVE  Spec => []RunsWholeImage
  OBVIOUS
<1>2. PassiveInv => RunsWholeImage
  BY <1>1
<1>. QED  BY <1>2, Invariant, PTL

(* The exit code that the host reports is what the program returned; over  *)
(* JTAG and serial link, without its top bit.                              *)
THEOREM CodeExact == Fitting => (Spec => []ExitCodeExact)
<1>1. ASSUME Fitting, PassiveInv PROVE ExitCodeExact
  <2>1. via \in {"jtag", "slink", "uart"} /\ JtagInv /\ SlinkInv /\ ExecInv
    BY <1>1, WayIn DEF PassiveInv
  <2>2. hpc = "done" /\ via = "uart" => code = ret
    BY <2>1 DEF ExecInv
  <2>. QED  BY <2>1, <2>2 DEF JtagInv, SlinkInv, ExitCodeExact, Delivered
<1>. SUFFICES ASSUME Fitting
              PROVE  Spec => []ExitCodeExact
  OBVIOUS
<1>2. PassiveInv => ExitCodeExact
  BY <1>1
<1>. QED  BY <1>2, Invariant, PTL

(* The UART host sees an end of computation only when the program has      *)
(* returned, if the program does not print that byte.                      *)
THEOREM EocTrue == Fitting => (Spec => []EocMeansReturned)
<1>1. ASSUME Fitting, PassiveInv PROVE EocMeansReturned
  BY <1>1, WayIn DEF PassiveInv, GreetInv, ExecInv, EocMeansReturned
<1>. SUFFICES ASSUME Fitting
              PROVE  Spec => []EocMeansReturned
  OBVIOUS
<1>2. PassiveInv => EocMeansReturned
  BY <1>1
<1>. QED  BY <1>2, Invariant, PTL

(* What the program leaves in scratch[2] for the host stays there, unless  *)
(* it is an odd result of a debugger's program that has returned into the  *)
(* boot ROM's polling loop: over the serial link and over UART, whatever   *)
(* the program returns.                                                    *)
THEOREM ResultStays == Fitting => (Spec => EocStays)
<1>1. ASSUME Fitting, PassiveInv, Next, scratch[2] % 2 = 1, ~Misread
      PROVE  scratch'[2] = scratch[2]
  <2>1. /\ JtagInv /\ SlinkInv /\ GreetInv /\ CommandInv /\ ExecInv /\ ProgramInv
        /\ via \in {"jtag", "slink", "uart"} /\ scratch \in [0 .. 2 -> 0 .. WordSize - 1]
    BY <1>1, WayIn, Types DEF PassiveInv
  <2>3. scratch[2] # 0 /\ scratch[2] # Launch
    BY <1>1 DEF Launch
  <2>4. ~ClearLaunch
    <3>. SUFFICES ASSUME rpc = "clear" PROVE FALSE
      BY DEF ClearLaunch, Rom
    <3>1. via # "uart" /\ (via = "jtag" => Misread)
      BY <1>1, <2>1, WayIn DEF JtagInv, Relaunch
    <3>. QED  BY <1>1, <2>1, <2>3, <3>1 DEF SlinkInv, LlcLabels, Polling
  <2>5. ~CrtExit
    <3>1. ASSUME rpc = "exit" PROVE scratch[2] = 0
      BY <2>1, <3>1 DEF JtagInv, SlinkInv, GreetInv, LlcLabels, Polling
    <3>. QED  BY <2>3, <3>1 DEF CrtExit, Rom
  <2>6. ASSUME RomExit PROVE scratch'[2] = scratch[2]
    <3>1. via = "uart" /\ rpc = "return"
      BY <1>1, <2>6, WayIn DEF RomExit, Rom
    <3>2. scratch[2] = ExitWord(ret)
      BY <2>1, <3>1 DEF GreetInv
    <3>. QED  BY <2>1, <2>6, <3>2 DEF RomExit
  <2>7. ASSUME SlinkStep PROVE scratch'[2] = scratch[2]
    <3>1. via = "slink" /\ hpc \in {"load", "high", "low", "launch"}
      BY <1>1, <2>7, WayIn DEF SlinkStep, SlinkEntryHigh, SlinkEntryLow, SlinkLaunch, SlinkZeroLength, HostStep
    <3>. QED  BY <2>1, <2>3, <3>1 DEF SlinkInv
  <2>. QED  BY <1>1, <2>4, <2>5, <2>6, <2>7, Changes
<1>. SUFFICES ASSUME Fitting
              PROVE  Spec => EocStays
  OBVIOUS
<1>2. PassiveInv /\ [Next]_vars => [ResultThere => scratch'[2] = scratch[2] \/ Misread]_vars
  BY <1>1 DEF ResultThere
<1>. QED  BY <1>2, Invariant, PTL DEF Spec, EocStays
------------------------------------------------------------------------------
(* PassiveBoot implements HostedRun.  What a step of it is to a reader of  *)
(* HostedRun depends on what the program's stage is in the states where it *)
(* may be taken, and on the host reporting nothing before it is done.      *)
StageInv ==
  /\ rpc \in {"run", "exit"} => ~Returned /\ Stage = "running"
  /\ rpc \notin {"run", "exit"} => Stage = IF Returned THEN "returned" ELSE "waiting"
  /\ hpc = "load" \/ rpc = "write" => ~Returned
  /\ rpc = "return" => scratch[2] = ExitWord(ret)
  /\ hpc = "code" => Returned

Unreported == hpc # "done" => code = -1

LEMMA Staged ==
  ASSUME Fitting, PassiveInv
  PROVE  StageInv
<1>1. /\ JtagInv /\ SlinkInv /\ GreetInv /\ CommandInv /\ ExecInv /\ ProgramInv
      /\ via \in {"jtag", "slink", "uart"} /\ (ExitWord(ret)) % 2 = 1
  BY WayIn, Types, ReturnFacts DEF PassiveInv
<1>2. rpc \in {"run", "exit"} => scratch[2] = 0
  BY <1>1 DEF JtagInv, SlinkInv, GreetInv, LlcLabels, Polling
<1>3. hpc = "load" => scratch[2] = 0
  BY <1>1, WayIn DEF JtagInv, SlinkInv
<1>4. rpc = "write" => scratch[2] = 0
  BY <1>1, WayIn DEF GreetInv, ServeLabels
<1>5. rpc = "return" => scratch[2] = ExitWord(ret)
  BY <1>1, WayIn DEF GreetInv
<1>6. hpc = "code" => scratch[2] = ExitWord(ret)
  <2>. SUFFICES ASSUME hpc = "code" PROVE scratch[2] = ExitWord(ret)
    OBVIOUS
  <2>1. via = "uart" /\ rpc \in {"return", "spin"}
    BY <1>1, WayIn DEF UartLabels, ExecInv
  <2>. QED  BY <1>1, <2>1 DEF GreetInv
<1>7. scratch[2] = 0 /\ ~(via = "jtag" /\ rpc \in Relaunch) => ~Returned
  <2>1. 0 % 2 = 0
    OBVIOUS
  <2>. QED  BY <2>1 DEF Returned, ResultThere, Relaunch
<1>8. scratch[2] = ExitWord(ret) => Returned
  BY <1>1 DEF Returned, ResultThere
<1>9. hpc = "load" \/ rpc = "write" \/ rpc \in {"run", "exit"} => ~(via = "jtag" /\ rpc \in Relaunch)
  BY <1>1 DEF JtagInv, Relaunch
<1>. QED  BY <1>2, <1>3, <1>4, <1>5, <1>6, <1>7, <1>8, <1>9 DEF StageInv, Stage

LEMMA UnreportedKept ==
  ASSUME Unreported, Next
  PROVE  Unreported'
<1>1. CASE code' = code
  <2>1. hpc = "done" => hpc' = "done"
    <3>1. ASSUME RomStep PROVE hpc' = hpc
      BY <3>1 DEF RomStep, LlcStep, BistEnds, WaitBist, SetSpmLow, SetSpmHigh, Commit, BootStep,
           UartInit, PollScratch, CheckUart, ClearLaunch, ReadEntryHigh, ReadEntryLow, ServeStep, Greet,
           ServeCommand, ServeAddr, ServeLen, ServeRead, ServeWrite, ServeExec, ProgramStep, Run,
           CrtExit, ServeReturn, RomExit, host
    <3>2. ASSUME HostNext PROVE hpc # "done" \/ hpc' = hpc
      BY <3>2 DEF HostNext, HostWaitLlc, PreloadBurst, PollEoc, JtagStep, JtagHalt, JtagResume,
           SlinkStep, SlinkEntryHigh, SlinkEntryLow, SlinkLaunch, SlinkZeroLength, UartStep, Challenge, Greeted, Command,
           Acked, Body, Ended, Exec, ExecAcked, ReadText, EocSeen, ReceiveCode, HostStep
    <3>. QED  BY <3>1, <3>2 DEF Next, Done, vars
  <2>. QED  BY <1>1, <2>1 DEF Unreported
<1>2. CASE PollEoc \/ ReceiveCode
  BY <1>2 DEF PollEoc, ReceiveCode, HostStep, Unreported
<1>. QED  BY <1>1, <1>2, Changes

\* A part of the image is loaded, or one more byte of it.
LEMMA LoadRefines ==
  ASSUME Fitting, PassiveInv, StageInv, StageInv', ServeWrite \/ PreloadBurst
  PROVE  (\E n \in Image : Hosted!Load(n)) \/ UNCHANGED Hosted!vars
<1>1. /\ mem \in [Bursts -> Nat] /\ count \in Nat /\ burst \in 1 .. Len(BurstLens) + 1
      /\ \A n \in Bursts : BurstLens[n] \in Nat /\ MemInv
  BY Types, Constants DEF PassiveInv
<1>2. UNCHANGED <<scratch, ret, code>>
  BY DEF ServeWrite, PreloadBurst, host, rom
<1>3. Stage = "waiting" /\ Stage' = "waiting" /\ ~Returned /\ ~Returned'
  <2>1. ~Returned
    BY DEF StageInv, ServeWrite, PreloadBurst
  <2>2. rpc \notin {"run", "exit"} /\ rpc' \notin {"run", "exit", "entry", "next_stage", "lost"}
    <3>1. CASE ServeWrite
      BY <3>1 DEF ServeWrite
    <3>2. CASE PreloadBurst
      <4>1. rpc' = rpc /\ hpc = "load" /\ JtagInv /\ SlinkInv /\ via \in {"jtag", "slink"}
        BY <3>2, WayIn DEF PreloadBurst, rom, PassiveInv
      <4>. QED  BY <4>1 DEF JtagInv, SlinkInv, LlcLabels, Polling
    <3>. QED  BY <3>1, <3>2
  <2>3. ~Returned'
    BY <1>2, <2>1, <2>2 DEF Returned, ResultThere
  <2>. QED  BY <2>1, <2>2, <2>3 DEF StageInv
<1>4. ASSUME NEW b \in Bursts, NEW k \in Nat, mem' = [mem EXCEPT ![b] = k],
             mem[b] # BurstLens[b] \/ k = BurstLens[b]
      PROVE  InMemory' = InMemory \/ (b \in Image /\ InMemory' = InMemory \cup {b})
  BY <1>1, <1>4 DEF InMemory, Image
<1>5. mem' = mem \/ \E b \in Bursts, k \in Nat :
        mem' = [mem EXCEPT ![b] = k] /\ (mem[b] # BurstLens[b] \/ k = BurstLens[b])
  <2>1. CASE PreloadBurst
    BY <1>1, <2>1 DEF PreloadBurst, MemInv
  <2>2. CASE ServeWrite /\ mem' # mem
    <3>1. count > 0 /\ mem' = [mem EXCEPT ![addr.low] = @ + 1] /\ rpc = "write"
      BY <2>2 DEF ServeWrite, Land
    <3>2. addr.low = burst /\ burst \in Bursts /\ Size = BurstLens[burst] /\ mem[burst] = Size - count
      BY <1>1, <3>1, Serving, TargetFacts DEF ServeLabels
    <3>3. mem[burst] # BurstLens[burst] /\ mem[burst] + 1 \in Nat
      BY <1>1, <3>1, <3>2
    <3>. QED  BY <3>1, <3>2, <3>3
  <2>. QED  BY <2>1, <2>2
<1>6. InMemory' = InMemory \/ \E b \in Image : InMemory' = InMemory \cup {b}
  <2>1. CASE mem' = mem
    BY <2>1 DEF InMemory, Image
  <2>. QED  BY <1>4, <1>5, <2>1
<1>. QED  BY <1>2, <1>3, <1>6 DEF Hosted!Load, Hosted!vars

\* The boot ROM, the debug server or the debugger enters the program; or
\* the boot ROM, which takes an odd result for a launch signal, is lost.
LEMMA EnterRefines ==
  ASSUME Fitting, PassiveInv, StageInv, StageInv', RunsWholeImage',
         ReadEntryLow \/ ServeExec \/ JtagResume
  PROVE  Hosted!Enter \/ UNCHANGED Hosted!vars
<1>1. /\ rpc \notin {"run", "exit"} /\ rpc' \in {"run", "lost"}
      /\ UNCHANGED <<scratch, mem, ret, code, via, back>>
  BY DEF ReadEntryLow, ServeExec, JtagResume, Rom, Jump, host
<1>2. /\ JtagInv /\ scratch \in [0 .. 2 -> 0 .. WordSize - 1]
      /\ addr \in [low : 0 .. WordSize - 1, high : 0 .. WordSize - 1]
  BY Types DEF PassiveInv
<1>3. CASE rpc' = "run"
  <2>1. ~(via = "jtag" /\ rpc \in {"entry", "next_stage", "lost"})
    <3>1. CASE ReadEntryLow
      <4>1. AtEntry' /\ addr'.low = scratch[0]
        BY <1>2, <1>3, <3>1 DEF ReadEntryLow, Jump
      <4>2. scratch[0] = EntryLow
        BY <4>1 DEF AtEntry
      <4>. QED  BY <1>2, <4>2 DEF JtagInv, EntryLow
    <3>2. CASE ServeExec \/ JtagResume
      BY <3>2 DEF ServeExec, JtagResume, Rom, Jump
    <3>. QED  BY <3>1, <3>2
  <2>2. ~Returned' /\ Stage' = "running"
    BY <1>3 DEF StageInv
  <2>3. ~Returned
    BY <1>1, <2>1, <2>2 DEF Returned, ResultThere
  <2>4. Stage = "waiting"
    BY <1>1, <2>3 DEF StageInv
  <2>5. InMemory = Image /\ InMemory' = Image
    BY <1>1, <1>3 DEF RunsWholeImage, InMemory, Image
  <2>. QED  BY <1>1, <2>2, <2>3, <2>4, <2>5 DEF Hosted!Enter
<1>4. CASE rpc' = "lost"
  <2>1. via = "jtag"
    BY <1>1, <1>4 DEF RunsWholeImage, Misread
  <2>2. rpc = "next_stage"
    <3>1. ~ServeExec
      BY <2>1, Waiting DEF ServeExec, Jump, Hear
    <3>. QED  BY <1>4, <3>1 DEF ReadEntryLow, JtagResume, Rom, Jump
  <2>3. Returned /\ Returned'
    BY <1>1, <1>4, <2>1, <2>2 DEF Returned
  <2>4. Stage = "returned" /\ Stage' = "returned" /\ InMemory' = InMemory /\ Delivered' = Delivered
    BY <1>1, <2>3 DEF Stage, InMemory, Image, Delivered, Kept
  <2>. QED  BY <1>1, <2>3, <2>4 DEF Hosted!vars
<1>. QED  BY <1>1, <1>3, <1>4

\* The program returns; the boot ROM's own _exit then stores the same word.
LEMMA ReturnRefines ==
  ASSUME Fitting, PassiveInv, StageInv, StageInv', CrtExit \/ RomExit
  PROVE  (\E v \in 0 .. WordSize - 1 : Hosted!Return(v)) \/ UNCHANGED Hosted!vars
<1>1. /\ ret \in Returns /\ ExitWord(ret) % 2 = 1 /\ Delivered \in 0 .. WordSize - 1
      /\ scratch \in [0 .. 2 -> 0 .. WordSize - 1]
  BY Types, ReturnFacts DEF Delivered
<1>2. UNCHANGED <<mem, ret, code, via>> /\ InMemory' = InMemory /\ Delivered' = Delivered
  BY DEF CrtExit, RomExit, host, InMemory, Image, Delivered, Kept
<1>3. scratch'[2] = ExitWord(ret) /\ Returned'
  BY <1>1 DEF CrtExit, RomExit, Returned, ResultThere
<1>4. Stage' = "returned"
  BY <1>3 DEF Stage
<1>5. CASE CrtExit
  <2>1. rpc = "exit"
    BY <1>5 DEF CrtExit, Rom
  <2>2. ~Returned /\ Stage = "running"
    BY <2>1 DEF StageInv
  <2>3. Hosted!Return(Delivered)
    BY <1>2, <1>3, <1>4, <2>2 DEF Hosted!Return
  <2>. QED  BY <1>1, <2>3
<1>6. CASE RomExit
  <2>1. scratch[2] = ExitWord(ret)
    BY <1>6 DEF RomExit, Rom, StageInv
  <2>2. Returned /\ Stage = "returned"
    BY <1>1, <2>1 DEF Returned, ResultThere, Stage
  <2>. QED  BY <1>2, <1>3, <1>4, <2>2 DEF Hosted!vars
<1>. QED  BY <1>5, <1>6

\* The host learns what the program has returned.
LEMMA ReportRefines ==
  ASSUME Fitting, PassiveInv, StageInv, Unreported, ExitCodeExact', PollEoc \/ ReceiveCode
  PROVE  Hosted!Report
<1>1. Returned
  BY DEF PollEoc, ReceiveCode, HostStep, StageInv, Returned, ResultThere
<1>2. code = -1 /\ hpc' = "done"
  BY DEF PollEoc, ReceiveCode, HostStep, Unreported
<1>3. UNCHANGED <<scratch, mem, ret, rpc, addr, via>>
  BY DEF PollEoc, ReceiveCode, rom
<1>4. Delivered' = Delivered /\ code' = Delivered
  <2>1. Delivered' = Delivered
    BY <1>3 DEF Delivered, Kept
  <2>. QED  BY <1>2, <2>1 DEF ExitCodeExact
<1>5. InMemory' = InMemory /\ Returned' /\ Stage = "returned" /\ Stage' = Stage
  BY <1>1, <1>3 DEF InMemory, Image, Returned, ResultThere, Stage
<1>. QED  BY <1>1, <1>2, <1>3, <1>4, <1>5 DEF Hosted!Report

\* Every other step is a stutter: it leaves scratch[2] even if it is even,
\* and the program where it is.
LEMMA OtherRefines ==
  ASSUME Fitting, PassiveInv, StageInv, StageInv', Next,
         ~(ServeWrite \/ PreloadBurst), ~(ReadEntryLow \/ ServeExec \/ JtagResume),
         ~(CrtExit \/ RomExit), ~(PollEoc \/ ReceiveCode)
  PROVE  UNCHANGED Hosted!vars
<1>1. mem' = mem /\ code' = code
  BY Changes
<1>2. /\ ret' = ret /\ via' = via /\ (rpc' \in {"run", "exit"} <=> rpc \in {"run", "exit"})
      /\ ClearLaunch \/ (rpc' \in {"entry", "next_stage", "lost"} <=> rpc \in {"entry", "next_stage", "lost"})
  <2>0. via' = via
    BY UartNext
  <2>1. CASE LlcStep \/ BootStep
    BY <2>0, <2>1 DEF LlcStep, BistEnds, WaitBist, SetSpmLow, SetSpmHigh, Commit, BootStep, UartInit,
      PollScratch, CheckUart, ClearLaunch, ReadEntryHigh, Rom, rom
  <2>2. CASE ServeCommand
    <3>1. Head(rx).kind \in {"READ", "WRITE", "EXEC"} /\ rpc = "cmd"
      BY <2>2, Waiting DEF ServeCommand, Hear, Byte, Wire
    <3>. QED  BY <2>0, <2>2, <3>1 DEF ServeCommand
  <2>3. CASE Greet \/ ServeAddr \/ ServeLen \/ ServeRead \/ ServeReturn \/ Run
    BY <2>0, <2>3 DEF Greet, ServeAddr, ServeLen, ServeRead, ServeReturn, Run, Rom
  <2>4. CASE JtagHalt
    <3>1. rpc \in LlcLabels \cup Polling
      BY <2>4, WayIn DEF JtagHalt, HostStep, PassiveInv, JtagInv
    <3>. QED  BY <2>0, <2>4, <3>1 DEF JtagHalt, LlcLabels, Polling
  <2>5. CASE HostWaitLlc \/ SlinkStep \/ UartStep
    BY <2>0, <2>5 DEF HostWaitLlc, SlinkStep, SlinkEntryHigh, SlinkEntryLow, SlinkLaunch, SlinkZeroLength, UartStep, Challenge,
      Greeted, Command, Acked, Body, Ended, Exec, ExecAcked, ReadText, EocSeen, rom
  <2>6. CASE Done
    BY <2>0, <2>6 DEF Done, vars
  <2>. QED  BY <2>0, <2>1, <2>2, <2>3, <2>4, <2>5, <2>6
         DEF Next, RomStep, ServeStep, ProgramStep, HostNext, JtagStep
<1>3. Returned' <=> Returned
  <2>1. scratch \in [0 .. 2 -> 0 .. WordSize - 1] /\ SlinkInv /\ JtagInv /\ ret \in Returns
    BY Types DEF PassiveInv
  <2>2. CASE ClearLaunch
    <3>1. rpc = "clear" /\ rpc' = "entry" /\ scratch'[2] = 0 /\ Launch % 2 = 0 /\ 0 % 2 = 0
      BY <2>1, <2>2 DEF ClearLaunch, Rom, Launch
    <3>2. CASE via = "slink"
      <4>1. scratch[2] = Launch
        BY <2>1, <3>1, <3>2 DEF SlinkInv, LlcLabels, Polling
      <4>. QED  BY <1>2, <3>1, <3>2, <4>1 DEF Returned, ResultThere
    <3>3. CASE via = "jtag"
      <4>1. scratch[2] = ExitWord(ret) /\ ExitWord(ret) % 2 = 1
        BY <2>1, <3>1, <3>3, ReturnFacts DEF JtagInv, Relaunch
      <4>. QED  BY <1>2, <3>1, <3>3, <4>1 DEF Returned, ResultThere
    <3>. QED  BY <3>1, <3>2, <3>3, WayIn DEF Relaunch
  <2>3. CASE SlinkStep
    <3>1. scratch[2] = 0 /\ scratch'[2] \in {0, Launch} /\ via = "slink" /\ Launch % 2 = 0 /\ 0 % 2 = 0
      BY <2>1, <2>3, WayIn DEF SlinkStep, SlinkEntryHigh, SlinkEntryLow, SlinkLaunch, SlinkZeroLength,
        HostStep, SlinkInv, Launch
    <3>. QED  BY <1>2, <3>1 DEF Returned, ResultThere
  <2>4. CASE scratch' = scratch /\ ~ClearLaunch
    BY <1>2, <2>4 DEF Returned, ResultThere
  <2>. QED  BY <2>2, <2>3, <2>4, Changes
<1>4. InMemory' = InMemory /\ Stage' = Stage /\ Delivered' = Delivered
  <2>1. InMemory' = InMemory
    BY <1>1 DEF InMemory, Image
  <2>2. Delivered' = Delivered
    BY <1>2 DEF Delivered, Kept
  <2>. QED  BY <1>2, <1>3, <2>1, <2>2 DEF StageInv
<1>. QED  BY <1>1, <1>3, <1>4 DEF Hosted!vars

(* Over each way in, passive boot does what HostedRun says: the program is *)
(* entered once, with its whole image in memory, which does not change any *)
(* more; it returns; then its host reports, if it does, once and what was  *)
(* returned, less the top bit over JTAG and serial link.  That it does     *)
(* report is a matter of liveness, and not always so: see Misread.         *)
THEOREM HostedRefined == Fitting => (Spec => RunsHosted)
<1>. SUFFICES ASSUME Fitting
              PROVE  Spec => RunsHosted
  OBVIOUS
<1>1. Init => Hosted!Init
  <2>. SUFFICES ASSUME Init PROVE Hosted!Init
    OBVIOUS
  <2>1. scratch[2] = 0 /\ code = -1 /\ rpc \notin {"run", "exit"} /\ \A n \in Bursts : mem[n] = 0
    BY DEF Init
  <2>2. ~Returned /\ Stage = "waiting"
    <3>1. 0 % 2 = 0 /\ rpc \in {"bist", "uart_init"}
      BY DEF Init
    <3>. QED  BY <2>1, <3>1 DEF Returned, ResultThere, Stage
  <2>3. InMemory = {}
    BY <2>1 DEF InMemory, Image
  <2>. QED  BY <2>1, <2>2, <2>3 DEF Hosted!Init
<1>2. ASSUME PassiveInv, StageInv, StageInv', Unreported, RunsWholeImage', ExitCodeExact', [Next]_vars
      PROVE  [Hosted!Next]_Hosted!vars
  <2>1. CASE Next
    BY <1>2, <2>1, LoadRefines, EnterRefines, ReturnRefines, ReportRefines, OtherRefines DEF Hosted!Next
  <2>2. CASE UNCHANGED vars
    <3>1. UNCHANGED <<rpc, scratch, mem, ret, code, via>>
      BY <2>2 DEF vars
    <3>2. (Returned' <=> Returned) /\ Delivered' = Delivered /\ InMemory' = InMemory
      BY <3>1 DEF Returned, ResultThere, Delivered, Kept, InMemory, Image
    <3>3. Stage' = Stage
      BY <3>1, <3>2 DEF Stage
    <3>. QED  BY <3>1, <3>2, <3>3 DEF Hosted!vars
  <2>. QED  BY <1>2, <2>1, <2>2
<1>3. PassiveInv => StageInv
  BY Staged
<1>4. Spec => []Unreported
  <2>1. Init => Unreported
    BY DEF Init, Unreported
  <2>2. Unreported /\ [Next]_vars => Unreported'
    BY UnreportedKept DEF Unreported, vars
  <2>. QED  BY <2>1, <2>2, PTL DEF Spec
<1>. QED  BY <1>1, <1>2, <1>3, <1>4, Invariant, WholeImage, CodeExact, PTL DEF Spec, RunsHosted, Hosted!Spec
==============================================================================
