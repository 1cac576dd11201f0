------------------------------ MODULE I2cEeprom ------------------------------
(***************************************************************************)
(* The driver of the 24FC1025 I2C EEPROM, with the I2C controller that     *)
(* runs beside it.  The driver queues the format bytes of one chunk while  *)
(* the controller is disabled, enables it and polls its FIFO levels; the   *)
(* controller addresses the device and moves the data meanwhile.           *)
(* Controller and device are external.                                     *)
(***************************************************************************)
EXTENDS DiskRead, Sequences

CONSTANTS
  FifoDepth,    (* I2C_PARAM_FIFO_DEPTH.                                  *)
  BlockBytes,   (* 0x10000: the device has two blocks of this size.       *)
  Ops           (* The calls considered: of "read" and "write".           *)

\* i2c_24fc1025.c:98 refuses a FIFO that does not divide the 128-byte pages.
ASSUME I2cAssumption ==
  /\ FifoDepth \in Nat \ {0} /\ BlockBytes \in Nat \ {0}
  /\ Ops \subseteq {"read", "write"}

VARIABLES
  pc,       (* Where the driver is.                                       *)
  op,       (* Whether it reads or writes.                                *)
  next,     (* offs: where the loop over chunks goes on.                  *)
  chunk,    (* The chunk being accessed: its place in the buffer, length. *)
  xfer,     (* What the controller has been told to do and has not done.  *)
  rx        (* Its receive FIFO.                                          *)

driver == <<pc, op, next, chunk>>
i2c == <<driver, xfer, rx>>

\* stage: "none", "addr" (the address bytes are still to be sent), "data",
\* "last" (the FIFOs have been served, but the last byte is still on the wire).
NoTransfer == [stage |-> "none", op |-> "read", addr |-> 0, left |-> 0]

Smaller(x, y) == IF x <= y THEN x ELSE y

I2cLabels == {"off", "idle", "loop", "wait", "collect"}

I2cTypeOK ==
  /\ pc \in I2cLabels
  /\ op \in {"read", "write"}
  /\ next \in Nat
  /\ chunk \in [at : Nat, len : Nat]
  /\ xfer \in [stage : {"none", "addr", "data", "last"}, op : {"read", "write"}, addr : Nat, left : Nat]
  /\ rx \in Seq(Int)

\* An earlier user may have left something in the FIFOs.
I2cInit ==
  /\ pc = "off"
  /\ op = "read"
  /\ next = 0
  /\ chunk = [at |-> 0, len |-> 0]
  /\ xfer = NoTransfer
  /\ rx \in {<<>>, <<0>>}

\* Wrong version: the receive FIFO is not reset.
SetupNoReset ==
  /\ pc = "off" /\ pc' = "idle"
  /\ xfer' = NoTransfer
  /\ UNCHANGED <<op, next, chunk, rx, read>>

(* i2c_24fc1025_init: the controller is disabled, its FIFOs are emptied,   *)
(* the timing is set and the host enabled.                                 *)
Setup ==
  /\ pc = "off" /\ pc' = "idle"
  /\ xfer' = NoTransfer /\ rx' = <<>>
  /\ UNCHANGED <<op, next, chunk, read>>

------------------------------------------------------------------------------
(* __i2c_24fc1025_access.                                                  *)
Offset(addr) == addr % FifoDepth

\* The length of the first chunk of an unaligned access: up to the boundary.
HeadLen(addr) == IF Offset(addr) = 0 THEN 0 ELSE FifoDepth - Offset(addr)

(* The first chunk is not cut to the length of the request: one that is    *)
(* shorter gets more bytes than it has asked for.                          *)
Access ==
  /\ pc = "idle"
  /\ op' \in Ops /\ req' \in Requests
  /\ IF op' = "read" THEN state' = "reading" /\ mem' = Blank
                     ELSE state' = "idle" /\ UNCHANGED mem
  /\ next' = HeadLen(req'.addr)
  /\ chunk' = [at |-> 0, len |-> next']
  /\ pc' = IF next' = 0 THEN "loop" ELSE "wait"
  /\ UNCHANGED <<xfer, rx, disk, sound>>

\* Wrong version: the last chunk is as long as the others.
ChunkLenFull == FifoDepth

ChunkLen == Smaller(FifoDepth, req.len - next)

NextChunk ==
  /\ pc = "loop"
  /\ IF next < req.len
       THEN /\ pc' = "wait"
            /\ chunk' = [at |-> next, len |-> ChunkLen]
            /\ next' = next + FifoDepth
            /\ UNCHANGED state
       ELSE /\ pc' = "idle"
            /\ state' = IF op = "read" THEN "ok" ELSE state
            /\ UNCHANGED <<next, chunk>>
  /\ UNCHANGED <<op, xfer, rx, req, mem, disk, sound>>

------------------------------------------------------------------------------
(* __i2c_24fc1025_access_chunk.                                            *)
(* The driver looks at the FIFO levels only, then waits for at most a tick *)
(* of the clock; it may disable the controller in the last byte.           *)
Vacant == xfer.stage \in {"none", "last"} /\ rx = <<>>

Start(n) == xfer' = [stage |-> "addr", op |-> op, addr |-> req.addr + chunk.at, left |-> n]

(* A read: the address, a repeated start, and the number of bytes.         *)
IssueRead ==
  /\ pc = "wait" /\ op = "read" /\ Vacant
  /\ pc' = "collect"
  /\ Start(chunk.len)
  /\ UNCHANGED <<op, next, chunk, rx, read>>

\* Wrong version: the data bytes of a whole chunk are queued at once.
HalfFillAll == FifoDepth

HalfFill == FifoDepth \div 2

\* The data bytes of a write that are queued: up to half a FIFO, and the
\* last byte of the chunk.  With the three address bytes they must fit.
DataBytes == Smaller(chunk.len - 1, HalfFill) + 1
FormatBytes == 3 + DataBytes

\* Wrong version: the rest of a chunk is always taken for another one.
IssueWriteUnguarded ==
  /\ pc = "wait" /\ op = "write" /\ Vacant
  /\ Start(DataBytes)
  /\ chunk' = [at |-> chunk.at + chunk.len, len |-> chunk.len - HalfFill]
  /\ UNCHANGED <<pc, op, next, rx, read>>

(* A write; what is left of the chunk is taken for a chunk of its own that *)
(* lies as far behind as this one is long.                                 *)
IssueWrite ==
  /\ pc = "wait" /\ op = "write" /\ Vacant
  /\ Start(DataBytes)
  /\ IF chunk.len > HalfFill
       THEN chunk' = [at |-> chunk.at + chunk.len, len |-> chunk.len - HalfFill] /\ UNCHANGED pc
       ELSE pc' = "loop" /\ UNCHANGED chunk
  /\ UNCHANGED <<op, next, rx, read>>

(* Poll until the chunk has been received, then copy it out.               *)
Collect ==
  /\ pc = "collect" /\ Len(rx) >= chunk.len
  /\ pc' = "loop"
  /\ mem' = [i \in Around |->
               IF i \in chunk.at .. chunk.at + chunk.len - 1 THEN rx[i - chunk.at + 1] ELSE mem[i]]
  /\ rx' = SubSeq(rx, chunk.len + 1, Len(rx))
  /\ UNCHANGED <<op, next, chunk, xfer, state, req, disk, sound>>

------------------------------------------------------------------------------
(* The controller and the device.  ctrl_waddr has bit 16 of the address in *)
(* bit 15, and goes into a byte: of it no bit selects a block.             *)
BlockSelect(addr) == ((addr \div BlockBytes) % 2) * 32768 % 256

Cell(addr) == BlockSelect(addr) * BlockBytes + (addr % BlockBytes)

SendAddress ==
  /\ xfer.stage = "addr"
  /\ xfer' = [xfer EXCEPT !.stage = IF xfer.left = 0 THEN "none" ELSE "data", !.addr = Cell(@)]
  /\ UNCHANGED <<driver, rx, read>>

ReceiveByte ==
  /\ xfer.stage = "data" /\ xfer.op = "read" /\ Len(rx) < FifoDepth
  /\ rx' = Append(rx, disk[xfer.addr])
  /\ xfer' = [xfer EXCEPT !.stage = IF xfer.left = 1 THEN "last" ELSE @,
                          !.addr = @ + 1, !.left = @ - 1]
  /\ UNCHANGED <<driver, read>>

(* The device programs a page when a stop follows the data.  The last byte *)
(* is queued without one: what was written is dropped with the next start. *)
SendData ==
  /\ xfer.stage = "data" /\ xfer.op = "write"
  /\ xfer' = [xfer EXCEPT !.stage = "last"]
  /\ UNCHANGED <<driver, rx, read>>

FinishByte ==
  /\ xfer.stage = "last"
  /\ xfer' = NoTransfer
  /\ UNCHANGED <<driver, rx, read>>

I2cNext ==
  \/ Setup \/ Access \/ NextChunk \/ IssueRead \/ IssueWrite \/ Collect
  \/ SendAddress \/ ReceiveByte \/ SendData \/ FinishByte
==============================================================================
