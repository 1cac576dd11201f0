------------------------------- MODULE SpiFlash ------------------------------
(***************************************************************************)
(* The driver of the S25FS512S SPI NOR flash, and the device: reads in     *)
(* chunks of the SPI host's receive FIFO, and the flashing of whole pages: *)
(* two sector erases and a program, each followed by a poll of the write-  *)
(* in-progress bit.  One step is one SPI transaction.                      *)
(*                                                                         *)
(* The device is external: it obeys an erase or program if write enable is *)
(* set and it is not busy, is then busy for a while, and may report an     *)
(* error.  Whether it keeps write enable set afterwards is open (keeps).   *)
(***************************************************************************)
EXTENDS DiskRead

CONSTANTS
  RxBytes,      (* 4 * SPI_HOST_PARAM_RX_DEPTH.                           *)
  SectorBytes,  (* 256: what an erase clears, half a page.                *)
  Jobs,         (* The flashings considered: first page, number of pages. *)
  Speeds,       (* The SPI clocks the handle may ask for: see speed.      *)
  Keeps         (* The values of keeps considered.                        *)

ASSUME FlashAssumption ==
  /\ {RxBytes, SectorBytes} \subseteq Nat \ {0}
  /\ Jobs \subseteq [page : Nat, num : Nat]
  /\ Speeds \subseteq {"read", "flash", "fast", "illegal"}
  /\ Keeps \subseteq BOOLEAN

VARIABLES
  fpc,      (* Where the driver is.                                       *)
  offs,     (* offs of the read loop.                                     *)
  job,      (* What is flashed.                                           *)
  p,        (* The page of the job it is at.                              *)
  part,     (* 0, 1: the erases of its sectors; 2: the program.           *)
  code,     (* The value the last call returned, or "none".               *)
  source,   (* Pages of the caller's data that are as the caller left them. *)
  speed,    (* The clock: low enough for reads, for flashing only, for    *)
            (* neither, or higher than the core's.                        *)
  wel, wip, (* The device: write enable latch and write in progress.      *)
  keeps     (* Write enable outlasts an erase or program.                 *)

device == <<speed, wel, wip, keeps>>
flash == <<fpc, offs, job, p, part, code, source, device>>

Erased == -2
Idle == -3    \* what the device samples when nothing is driven
PageBytes == 2 * SectorBytes
PageCells(n) == n * PageBytes .. (n + 1) * PageBytes - 1

FlashLabels == {"off", "ready", "read", "wren", "page", "part", "poll", "dead"}

FlashTypeOK ==
  /\ fpc \in FlashLabels
  /\ offs \in Nat /\ p \in Nat /\ part \in 0 .. 2
  /\ job \in [page : Nat, num : Nat]
  /\ code \in {"none", "ok", "0x14", "0x15", "0x16", "dif", "status"}
  /\ source \subseteq Nat
  /\ speed \in Speeds \cup {"unset"}
  /\ wel \in BOOLEAN /\ wip \in BOOLEAN /\ keeps \in BOOLEAN

FlashInit ==
  /\ fpc = "off"
  /\ offs = 0 /\ p = 0 /\ part = 0
  /\ job = [page |-> 0, num |-> 0]
  /\ code = "none"
  /\ source = {}
  /\ speed = "unset"
  /\ wel = FALSE /\ wip = FALSE /\ keeps = FALSE

Goto(label) == fpc' = label
Finish(label, result) == fpc' = label /\ code' = result

\* A call that ends in an error leaves nothing of its loop counters.
Abort(result) == Finish("ready", result) /\ offs' = 0 /\ p' = 0 /\ part' = 0

(* spi_s25fs512s_init, with the clock that the caller has put in the       *)
(* handle: of its argument checks one depends on the system; then the SPI  *)
(* host is reset, configured and enabled.                                  *)
FlashSetup ==
  /\ fpc = "off"
  /\ speed' \in Speeds /\ keeps' \in Keeps
  /\ IF speed' = "illegal" THEN Finish("dead", "0x14") ELSE Finish("ready", "ok")
  /\ UNCHANGED <<offs, job, p, part, source, wel, wip, read>>

(* Any transaction may fail in the SPI host, and a call ends with its      *)
(* first error.  The driver can be called again; but after a flashing that *)
(* has failed the device may be busy, and no later call looks at that.     *)
TransactionFails ==
  /\ fpc \in {"read", "wren", "part", "poll"}
  /\ fpc = "read" => offs < req.len
  /\ Abort("dif")
  /\ state' = IF fpc = "read" THEN "failed" ELSE state
  /\ sound' = (sound /\ fpc = "read")
  /\ UNCHANGED <<job, source, device, req, mem, disk>>

------------------------------------------------------------------------------
(* spi_s25fs512s_single_read; 50 MHz is too fast for it.                   *)
SingleRead ==
  /\ fpc = "ready"
  /\ IF speed # "read"
       THEN Finish("ready", "0x15") /\ UNCHANGED <<offs, read>>
       ELSE /\ Goto("read") /\ UNCHANGED code
            /\ offs' = 0
            /\ req' \in Requests
            /\ state' = "reading" /\ mem' = Blank
            /\ UNCHANGED <<disk, sound>>
  /\ UNCHANGED <<job, p, part, source, device>>

ReadLen == IF RxBytes <= req.len - offs THEN RxBytes ELSE req.len - offs

\* What a read at address a returns: nothing useful while the device works.
Cells(a) == IF wip THEN Idle ELSE disk[a]

(* __spi_s25fs512s_single_read_chunk.                                      *)
ReadChunk ==
  /\ fpc = "read" /\ offs < req.len
  /\ mem' = [i \in Around |->
               IF i \in offs .. offs + ReadLen - 1 THEN Cells(req.addr + i) ELSE mem[i]]
  /\ offs' = offs + RxBytes
  /\ UNCHANGED <<fpc, job, p, part, code, source, device, state, req, disk, sound>>

ReadEnds ==
  /\ fpc = "read" /\ offs >= req.len
  /\ Finish("ready", "ok")
  /\ state' = "ok"
  /\ UNCHANGED <<offs, job, p, part, source, device, req, mem, disk, sound>>

------------------------------------------------------------------------------
(* spi_s25fs512s_single_flash; 100 MHz is too fast for it.                 *)
SingleFlash ==
  /\ fpc = "ready"
  /\ IF speed = "fast"
       THEN Finish("ready", "0x16") /\ UNCHANGED <<job, p, part, source, read>>
       ELSE /\ Goto("wren") /\ UNCHANGED code
            /\ job' \in Jobs
            /\ p' = 0 /\ part' = 0
            /\ source' = 0 .. job'.num - 1
            /\ state' = "idle"
            /\ mem' = Blank
            /\ UNCHANGED <<req, disk, sound>>
  /\ UNCHANGED <<offs, device>>

WriteEnable ==
  /\ fpc = "wren" /\ Goto("page")
  /\ wel' = (wel \/ ~wip)
  /\ UNCHANGED <<offs, job, p, part, code, source, speed, wip, keeps, read>>

NextPage ==
  /\ fpc = "page"
  /\ IF p < job.num THEN Goto("part") /\ UNCHANGED code ELSE Finish("ready", "ok")
  /\ UNCHANGED <<offs, job, p, part, source, device, read>>

\* The device takes an erase or program of these cells, or ignores it.
Take(cells, value) ==
  IF wel /\ ~wip
    THEN /\ disk' = [a \in DOMAIN disk |-> IF a \in cells THEN value ELSE disk[a]]
         /\ wip' = TRUE
    ELSE UNCHANGED <<disk, wip>>

\* Wrong version: sectors are counted from the start of the device.
SectorFromZero(i) == i * SectorBytes

SectorAddr(i) == (job.page + p) * PageBytes + i * SectorBytes

Erase ==
  /\ fpc = "part" /\ part < 2 /\ Goto("poll")
  /\ Take(SectorAddr(part) .. SectorAddr(part) + SectorBytes - 1, Erased)
  /\ UNCHANGED <<offs, job, p, part, code, source, speed, wel, keeps, state, req, mem, sound>>

\* Wrong version: no poll after the program.
ProgramUnpolled ==
  /\ fpc = "part" /\ part = 2 /\ Goto("page")
  /\ Take(PageCells(job.page + p), Idle)
  /\ part' = 0 /\ p' = p + 1
  /\ UNCHANGED <<offs, job, code, source, speed, wel, keeps, state, req, mem, sound>>

(* The data segment of the program is of the type that receives: the       *)
(* device samples a line nobody drives, and the page's worth of bytes that *)
(* the host receives goes over the caller's data.                          *)
Program ==
  /\ fpc = "part" /\ part = 2 /\ Goto("poll")
  /\ Take(PageCells(job.page + p), Idle)
  /\ source' = source \ {p}
  /\ UNCHANGED <<offs, job, p, part, code, speed, wel, keeps, state, req, mem, sound>>

\* The device finishes.
Done ==
  /\ wip /\ wip' = FALSE
  /\ wel' = keeps
  /\ UNCHANGED <<fpc, offs, job, p, part, code, source, speed, keeps, read>>

(* __spi_s25fs512s_poll_wip: a read of the status while the device is busy *)
(* is repeated; its error bits are returned.                               *)
Poll ==
  /\ fpc = "poll" /\ ~wip
  /\ \/ Abort("status")
     \/ /\ Goto(IF part = 2 THEN "page" ELSE "part") /\ UNCHANGED <<code, offs>>
        /\ part' = (part + 1) % 3
        /\ p' = IF part = 2 THEN p + 1 ELSE p
  /\ UNCHANGED <<job, source, device, read>>

FlashNext ==
  \/ FlashSetup \/ TransactionFails \/ SingleRead \/ ReadChunk \/ ReadEnds
  \/ SingleFlash \/ WriteEnable \/ NextPage \/ Erase \/ Program \/ Done \/ Poll
==============================================================================
