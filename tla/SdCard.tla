------------------------------- MODULE SdCard --------------------------------
(***************************************************************************)
(* The SD card driver of the boot ROM, and the card it talks to.           *)
(* spi_sdcard_init brings the card up; __spi_sdcard_read then copies len   *)
(* bytes from byte address addr of the card to a buffer, in whole blocks   *)
(* on the wire and through a swap buffer where the request starts or ends  *)
(* inside a block.                                                         *)
(*                                                                         *)
(* One step is one SPI segment: a command, one polled byte, one chunk of a *)
(* block.  Any segment may fail in the SPI host.  The card is external: it *)
(* answers when and what it likes within the protocol, and the wire may    *)
(* disturb a chunk.  A byte of the card's memory is its own address, so    *)
(* that a byte in the wrong place shows.                                   *)
(***************************************************************************)
EXTENDS Integers, FiniteSetsExt

CONSTANTS
  BlockSize,    (* 512.                                                   *)
  FifoBytes,    (* 4 * SPI_HOST_PARAM_RX_DEPTH.                           *)
  RespTimeout,  (* Polls for a response: 8.                               *)
  BusyTimeout,  (* __spi_sdcard_r1b_timeout.                              *)
  DataTimeout,  (* __spi_sdcard_data_timeout.                             *)
  CheckCrc,     (* read_checkcrc (TRUE) or read_ignorecrc.                *)
  Cards,        (* The kinds of card that may be plugged in.              *)
  Addrs, Lens,  (* Arguments of a read.                                   *)
  Again         (* The lengths of a second read.                          *)

\* A good card; one that does not enter the idle state on CMD0; one that
\* does not echo the check pattern of CMD8 (not a card for this voltage).
Kinds == {"good", "not_reset", "wrong_echo"}

ASSUME SdAssumption ==
  /\ {BlockSize, FifoBytes, RespTimeout, BusyTimeout, DataTimeout} \subseteq Nat \ {0}
  /\ CheckCrc \in BOOLEAN
  /\ Cards \subseteq Kinds
  /\ Addrs \subseteq Nat /\ Lens \subseteq Nat /\ Again \subseteq Lens \ {0}

VARIABLES
  pc,       (* Where the driver is.                                       *)
  cmd,      (* The command being executed and its last response.          *)
  timeout,  (* The counter of a polling loop.                             *)
  cs,       (* The card's chip select: "free" or "held".                  *)
  clock,    (* SPI clock: "none", "init" (200 kHz) or "full".             *)
  card,     (* The card: kind, state; whether it is sending, one block or *)
            (* many, and which is the next.                               *)
  mask,     (* What 1 << 40 gives in this build: see WideMask.            *)
  req,      (* The read: its address and length.                          *)
  b, offs,  (* Loop counters over blocks, and over chunks of a block.     *)
  clean,    (* The block on the wire has arrived as it was sent.          *)
  mem,      (* Memory around the caller's buffer, which starts at 0.      *)
  swap,     (* The swap buffer.                                           *)
  rc,       (* The value returned, or "none".                             *)
  before    (* What the read before this one returned, or "none".         *)

vars == <<pc, cmd, timeout, cs, clock, card, mask, req, b, offs, clean, mem, swap, rc, before>>
io == <<cmd, timeout, cs, clock, card, mask>>
copy == <<req, b, offs, clean, mem, swap, before>>

Commands == {"CMD0", "CMD8", "CMD55", "ACMD41", "CMD58", "CMD16", "READ", "CMD12"}

\* R1 as far as the driver looks at it: bit 7 set, the idle bit alone, no
\* bit, other bits.  echo: the rest of R7 is the pattern that was sent.
R1 == {"silent", "idle", "ready", "error"}
NoCommand == [name |-> "none", r1 |-> "silent", echo |-> FALSE]

Old == -1        \* a byte that has not been written
Bad == -2        \* a byte that was disturbed on its way
MaxLen == Max(Lens \cup {0})
MaxAddr == Max(Addrs \cup {0})
Around == -BlockSize .. MaxLen + BlockSize

\* Arguments are machine words, so that there is a largest one.
ASSUME BoundedAssumption ==
  /\ MaxLen \in Nat /\ \A len \in Lens : len <= MaxLen
  /\ MaxAddr \in Nat /\ \A addr \in Addrs : addr <= MaxAddr

Bytes == {Old, Bad} \cup 0 .. MaxAddr + 2 * (MaxLen + 2 * BlockSize)   \* of up to two transfers

Codes == {"none", "ok", "0x12", "0x13", "0x18", "0x19", "0x20", "0x21", "response", "dif"}
Labels == {"start", "send", "poll", "busy", "rest", "release", "check", "speed_up",
           "up", "token", "block", "crc", "detach", "done"}

TypeOK ==
  /\ pc \in Labels
  /\ cmd \in [name : Commands \cup {"none"}, r1 : R1, echo : BOOLEAN]
  /\ timeout \in 0 .. Max({RespTimeout, BusyTimeout, DataTimeout})
  /\ cs \in {"free", "held"}
  /\ clock \in {"none", "init", "full"}
  /\ card \in [kind : Cards, state : {"off", "idle", "ready"},
               sending : BOOLEAN, many : BOOLEAN, at : Nat]
  /\ mask \in {"low_byte", "all_bytes"}
  /\ req \in [addr : Addrs \cup {0}, len : Lens \cup {0}]
  /\ b \in Nat /\ offs \in 0 .. BlockSize - 1
  /\ clean \in BOOLEAN
  /\ mem \in [Around -> Bytes]
  /\ swap \in [0 .. BlockSize - 1 -> Bytes]
  /\ rc \in Codes /\ before \in Codes

Init ==
  /\ pc = "start"
  /\ cmd = NoCommand
  /\ timeout = 0
  /\ cs = "free"
  /\ clock = "none"
  /\ card \in [kind : Cards, state : {"off"}, sending : {FALSE}, many : {FALSE}, at : {0}]
  /\ mask \in {"low_byte", "all_bytes"}
  /\ req = [addr |-> 0, len |-> 0]
  /\ b = 0 /\ offs = 0
  /\ clean = TRUE
  /\ mem = [i \in Around |-> Old]
  /\ swap = [i \in 0 .. BlockSize - 1 |-> Old]
  /\ rc = "none" /\ before = "none"

Goto(to) == pc' = to /\ UNCHANGED rc
Return(code) == pc' = "done" /\ rc' = code
Call(name) == Goto("send") /\ cmd' = [NoCommand EXCEPT !.name = name]

------------------------------------------------------------------------------
(* __spi_sdcard_read: the block arithmetic.                                *)
Block == req.addr \div BlockSize
FirstOffs == req.addr % BlockSize
PteOffs == (req.addr + req.len) % BlockSize

\* Wrong version: a request that ends with a block counts as ending inside one.
LastLenZero == PteOffs

LastLen == IF PteOffs = 0 THEN BlockSize ELSE PteOffs
LenBlocks == (req.len + FirstOffs + BlockSize - 1) \div BlockSize

FirstBlock == b = 0 /\ FirstOffs # 0
LastBlock == b = LenBlocks - 1 /\ LastLen # BlockSize
Swapped == FirstBlock \/ LastBlock
BlockDst == BlockSize * b - FirstOffs

(* __spi_sdcard_xfer_csaat, and the other calls of the SPI host: any may   *)
(* fail, and then nothing goes over the wire.  Every caller returns at     *)
(* once what it has been given.                                            *)
SegmentFails ==
  /\ pc \notin {"check", "up", "done"}
  /\ pc = "detach" => LenBlocks = 1
  /\ Return("dif")
  /\ UNCHANGED <<io, copy>>

------------------------------------------------------------------------------
(* spi_sdcard_init up to its first command: of its argument checks one     *)
(* depends on the system (0x18: the core is slower than the SPI clock      *)
(* asked for); then 200 kHz, and ten idle bytes for the card to wake up.   *)
Configure ==
  /\ pc = "start"
  /\ \/ Return("0x18") /\ UNCHANGED <<cmd, cs, clock>>
     \/ Call("CMD0") /\ clock' = "init" /\ cs' = "held"
  /\ UNCHANGED <<timeout, card, mask, copy>>

\* The card on receiving a command.  One that is sending blocks takes none
\* but CMD12.
Taken ==
  CASE cmd.name = "CMD0" /\ card.kind # "not_reset" -> [card EXCEPT !.state = "idle"]
    [] cmd.name = "CMD12" -> [card EXCEPT !.sending = FALSE]
    [] cmd.name = "READ" /\ ~card.sending ->
         [card EXCEPT !.sending = TRUE, !.many = LenBlocks > 1, !.at = Block]
    [] OTHER -> card

(* __spi_sdcard_cmd: six bytes out, and a stuff byte in after CMD12.       *)
SendCommand ==
  /\ pc = "send" /\ Goto("poll")
  /\ cs' = "held"
  /\ timeout' = RespTimeout
  /\ card' = Taken
  /\ UNCHANGED <<cmd, clock, mask, copy>>

\* What the card answers, once it answers.
Answers ==
  CASE cmd.name = "CMD0" -> IF card.kind = "not_reset" THEN {"ready"} ELSE {"idle"}
    [] cmd.name = "ACMD41" -> {"idle", "ready"}
    [] cmd.name = "CMD8" -> {"idle", "error"}
    [] cmd.name = "CMD55" -> {"idle"}
    [] cmd.name \in {"CMD16", "READ"} -> {"ready", "error"}
    [] OTHER -> {"ready"}

\* Where __spi_sdcard_cmd goes once it has R1; a read (csaat) goes straight
\* back to __spi_sdcard_read_blocks, which does not look at R1.
AfterR1 ==
  CASE cmd.name = "CMD12" -> "busy"
    [] cmd.name \in {"CMD8", "CMD58"} -> "rest"
    [] cmd.name = "READ" -> "token"
    [] OTHER -> "release"

\* The counter of the loop that starts when this one ends.
AfterTimeout == CASE AfterR1 = "busy" -> BusyTimeout
                  [] AfterR1 = "token" -> DataTimeout
                  [] OTHER -> 0

(* One byte of the response loop.  A response to the last poll is thrown   *)
(* away with the rest: the counter is tested after the loop, not the byte. *)
PollResponse ==
  /\ pc = "poll"
  /\ \E r \in Answers \cup {"silent"} :
       /\ cmd' = [cmd EXCEPT !.r1 = r]
       /\ card' = [card EXCEPT !.state = IF cmd.name = "ACMD41" /\ r = "ready" THEN r ELSE @]
       /\ CASE timeout = 1 -> timeout' = 0 /\ Return("0x12")
            [] timeout > 1 /\ r = "silent" -> timeout' = timeout - 1 /\ UNCHANGED <<pc, rc>>
            [] OTHER -> timeout' = AfterTimeout /\ Goto(AfterR1)
  /\ UNCHANGED <<cs, clock, mask, copy>>

\* Wrong version: the busy loop does not look at its counter.
PollBusyUncounted ==
  /\ pc = "busy"
  /\ timeout' = timeout - 1
  /\ \E busy \in BOOLEAN : IF busy THEN UNCHANGED <<pc, rc>> ELSE Goto("release")
  /\ UNCHANGED <<cmd, cs, clock, card, mask, copy>>

(* R1b: read until the card is no longer busy.                             *)
PollBusy ==
  /\ pc = "busy"
  /\ timeout' = timeout - 1
  /\ \E busy \in BOOLEAN :
       CASE timeout = 1 -> Return("0x13")
         [] timeout > 1 /\ busy -> UNCHANGED <<pc, rc>>
         [] OTHER -> Goto("release")
  /\ UNCHANGED <<cmd, cs, clock, card, mask, copy>>

(* R3 and R7: the four bytes after R1.                                     *)
ReadRest ==
  /\ pc = "rest" /\ Goto("release")
  /\ cmd' = [cmd EXCEPT !.echo = (cmd.name = "CMD8" /\ cmd.r1 = "idle" /\ card.kind # "wrong_echo")]
  /\ UNCHANGED <<timeout, cs, clock, card, mask, copy>>

(* __spi_sdcard_csfree: eight cycles on the dummy chip select.             *)
Release ==
  /\ pc = "release"
  /\ IF cmd.name = "CMD12" THEN Return("ok") ELSE Goto("check")
  /\ cs' = "free"
  /\ UNCHANGED <<cmd, timeout, clock, card, mask, copy>>

------------------------------------------------------------------------------
(* __spi_sdcard_cmd_check.  The mask over a one-byte response is 0xFF.  1  *)
(* shifted by the 40 bits of a longer response does not fit an int: a      *)
(* build gets 0xFF again, or all ones, which also compares three bytes of  *)
(* buf that nothing has written.                                           *)
WideMask == mask

\* The bits of buf and of exp that differ under the mask, and in the low
\* byte of buf the value that is returned if any does.
Differs ==
  CASE cmd.name = "CMD0" -> {cmd.r1 # "idle"}
    [] cmd.name = "CMD16" -> {cmd.r1 # "ready"}
    [] cmd.name = "CMD8" /\ WideMask = "low_byte" -> {cmd.r1 # "idle"}
    [] cmd.name = "CMD8" /\ WideMask = "all_bytes" -> IF cmd.echo THEN BOOLEAN ELSE {TRUE}
    [] OTHER -> {FALSE}

\* buf & resp_mask is what a failed check returns, and 0 means success.
Returned(differs) == IF differs /\ cmd.r1 # "ready" THEN "response" ELSE "ok"

\* __spi_sdcard_activate: ACMD41, each time after CMD55, until R1 is 0.
Following ==
  CASE cmd.name = "CMD0" -> "CMD8"
    [] cmd.name = "CMD8" -> "CMD55"
    [] cmd.name = "CMD55" -> "ACMD41"
    [] cmd.name = "ACMD41" -> IF cmd.r1 = "ready" THEN "CMD58" ELSE "CMD55"
    [] cmd.name = "CMD58" -> "CMD16"

CheckResponse ==
  /\ pc = "check"
  /\ \E d \in Differs :
       IF Returned(d) # "ok" THEN Return(Returned(d)) /\ UNCHANGED cmd
       ELSE IF cmd.name = "CMD16" THEN Goto("speed_up") /\ UNCHANGED cmd
       ELSE Call(Following)
  /\ UNCHANGED <<timeout, cs, clock, card, mask, copy>>

(* The rest of spi_sdcard_init: output off, the desired clock, output on.  *)
SpeedUp ==
  /\ pc = "speed_up" /\ Goto("up")
  /\ clock' = "full"
  /\ UNCHANGED <<cmd, timeout, cs, card, mask, copy>>

------------------------------------------------------------------------------
\* A read into memory of its own; an empty one returns at once, any other
\* starts with CMD17 or CMD18.
Begin(lens) ==
  /\ req' \in [addr : Addrs, len : lens]
  /\ IF req'.len = 0 THEN pc' = "done" /\ rc' = "ok" /\ UNCHANGED cmd
     ELSE pc' = "send" /\ rc' = "none" /\ cmd' = [NoCommand EXCEPT !.name = "READ"]
  /\ b' = 0 /\ offs' = 0 /\ clean' = TRUE
  /\ mem' = [i \in Around |-> Old]
  /\ swap' = [i \in 0 .. BlockSize - 1 |-> Old]
  /\ UNCHANGED <<timeout, cs, clock, card, mask>>

Read == pc = "up" /\ Begin(Lens) /\ UNCHANGED before

(* Another read, whatever became of the first: gpt_boot_part_else_raw goes *)
(* on to read sector 0 when the signature could not be read.               *)
ReadAgain == pc = "done" /\ cmd.name \in {"READ", "CMD12"} /\ before = "none" /\ Begin(Again) /\ before' = rc

(* One byte of the token loop.                                             *)
PollToken ==
  /\ pc = "token"
  /\ timeout' = timeout - 1
  /\ \E byte \in {"silent", "token", "other"} :
       CASE timeout = 1 -> Return("0x19")
         [] timeout > 1 /\ byte = "silent" -> UNCHANGED <<pc, rc>>
         [] timeout > 1 /\ byte = "other" -> Return("0x20")
         [] timeout > 1 /\ byte = "token" -> Goto("block")
  /\ clean' = TRUE
  /\ UNCHANGED <<cmd, cs, clock, card, mask, req, b, offs, mem, swap, before>>

\* Wrong version: the last chunk of a block is as long as the others.
ChunkFull == FifoBytes

Chunk == Min({FifoBytes, BlockSize - offs})

\* The byte at offset o of the block that the card sends.
OnCard(o) == card.at * BlockSize + o

(* One chunk of a block, of at most the size of the receive FIFO, to the   *)
(* swap buffer or to its place.                                            *)
ReadChunk ==
  /\ pc = "block"
  /\ \E ok \in BOOLEAN :
       LET here == offs .. offs + Chunk - 1
           Got(o) == IF ok THEN OnCard(o) ELSE Bad
       IN /\ clean' = (clean /\ ok)
          /\ swap' = [o \in DOMAIN swap |->
                        IF Swapped /\ o \in here THEN Got(o) ELSE swap[o]]
          /\ mem' = [i \in Around |->
                       IF ~Swapped /\ i - BlockDst \in here THEN Got(i - BlockDst) ELSE mem[i]]
  /\ IF offs + FifoBytes < BlockSize
       THEN offs' = offs + FifoBytes /\ UNCHANGED <<pc, rc>>
       ELSE offs' = 0 /\ Goto("crc")
  /\ UNCHANGED <<io, req, b, before>>

\* The bytes of a swapped block that are copied to the destination.
Relevant ==
  (IF FirstBlock THEN FirstOffs ELSE 0) .. (IF LastBlock THEN LastLen ELSE BlockSize) - 1

\* The card has sent a block.
BlockSent == card' = [card EXCEPT !.sending = card.many, !.at = @ + 1]

\* Wrong version: a block that is disturbed is read again.
CrcAgain ==
  /\ pc = "crc"
  /\ IF CheckCrc /\ ~clean
       THEN timeout' = DataTimeout /\ Goto("token") /\ UNCHANGED <<b, mem, card>>
       ELSE /\ mem' = [i \in Around |->
                         IF Swapped /\ i - BlockDst \in Relevant THEN swap[i - BlockDst] ELSE mem[i]]
            /\ BlockSent
            /\ b' = b + 1
            /\ timeout' = DataTimeout
            /\ Goto(IF b + 1 < LenBlocks THEN "token" ELSE "detach")
  /\ UNCHANGED <<cmd, cs, clock, mask, req, offs, clean, swap, before>>

(* The block's CRC16, the copy out of the swap buffer, the next block.     *)
Crc ==
  /\ pc = "crc" /\ BlockSent
  /\ IF CheckCrc /\ ~clean
       THEN Return("0x21") /\ UNCHANGED <<timeout, b, mem>>
       ELSE /\ mem' = [i \in Around |->
                         IF Swapped /\ i - BlockDst \in Relevant THEN swap[i - BlockDst] ELSE mem[i]]
            /\ b' = b + 1
            /\ IF b + 1 < LenBlocks
                 THEN timeout' = DataTimeout /\ Goto("token")
                 ELSE timeout' = timeout /\ Goto("detach")
  /\ UNCHANGED <<cmd, cs, clock, mask, req, offs, clean, swap, before>>

\* Wrong version: no CMD12, the chip select is released and the card goes on.
DetachWithoutStop ==
  /\ pc = "detach"
  /\ Return("ok")
  /\ cs' = "free"
  /\ UNCHANGED <<cmd, timeout, clock, card, mask, copy>>

(* CMD12 after several blocks; after one the card has already stopped.     *)
Detach ==
  /\ pc = "detach"
  /\ IF LenBlocks > 1
       THEN Call("CMD12") /\ UNCHANGED cs
       ELSE Return("ok") /\ cs' = "free" /\ UNCHANGED cmd
  /\ UNCHANGED <<timeout, clock, card, mask, copy>>

Done == pc = "done" /\ UNCHANGED vars

Next ==
  \/ Configure \/ SendCommand \/ PollResponse \/ PollBusy \/ ReadRest \/ Release
  \/ CheckResponse \/ SpeedUp \/ Read \/ ReadAgain \/ PollToken \/ ReadChunk \/ Crc \/ Detach
  \/ SegmentFails \/ Done

Spec == Init /\ [][Next]_vars

\* The card leaves the idle state some day: ACMD41 is repeated without limit.
CardReady == PollResponse /\ cmd.name = "ACMD41" /\ cmd'.r1 = "ready" /\ pc' = "release"
FairSpec == Spec /\ WF_vars(Next) /\ SF_vars(CardReady)

------------------------------------------------------------------------------
(* A read that reports success has put every byte of the request, as it is *)
(* on the card, at its place in the buffer, wherever the request starts    *)
(* and ends in its blocks and whichever chunk the wire disturbs            *)
(* (__spi_sdcard_read, read_blocks).  A second read too, if the first      *)
(* succeeded: it has left a card that listens.                             *)
Listening == before \in {"none", "ok"}
ReadExact ==
  rc = "ok" /\ CheckCrc /\ Listening => \A i \in 0 .. req.len - 1 : mem[i] = req.addr + i

(* Whole blocks come over the wire, but no byte before or after the        *)
(* caller's buffer is ever written, not even by a read that fails.         *)
WritesInside == \A i \in Around \ 0 .. req.len - 1 : mem[i] = Old

(* The boot code calls this driver through the same pointer as the two     *)
(* others: it reads as the module DiskRead says, from its first command    *)
(* on (a read of no bytes is none).  The card is sound until a read has    *)
(* failed: after that it may still be sending, take no command, and let    *)
(* the next read return 0 with the bytes of other blocks.  A build without *)
(* CRC never promises what it returns.                                     *)
InRead == cmd.name \in {"READ", "CMD12"}
ReadState ==
  CASE ~InRead -> "idle"
    [] InRead /\ pc # "done" -> "reading"
    [] InRead /\ pc = "done" -> IF rc = "ok" THEN "ok" ELSE "failed"
Sound == CheckCrc /\ Listening /\ ReadState # "failed"

Disk == INSTANCE DiskRead WITH
  Requests <- [addr : Addrs, len : Lens],
  state <- ReadState,
  sound <- Sound,
  disk <- [a \in 0 .. MaxAddr + MaxLen |-> a]

ReadsLikeADisk == Disk!ReadSpec

(* After a read that reports success the card's chip select is free and    *)
(* the card has stopped sending, whether it read one block or several:     *)
(* the next command finds a card that listens.                             *)
Detached == rc = "ok" => cs = "free" /\ (Listening => ~card.sending)

(* Initialization and reads end, in success or in an error, against a card *)
(* that may stop answering at any byte, as long as it some day is ready.   *)
Ends == []<>(pc = "done")
==============================================================================
