----------------------------- MODULE DiskProofs ------------------------------
(***************************************************************************)
(* Proofs about the disk drivers of BootDisks: for every FIFO depth, every *)
(* size of the media and every set of requests that lie on them, the reads *)
(* of both drivers implement ReadSpec.                                     *)
(***************************************************************************)
EXTENDS BootDisks, TLAPS

ReadTypeOK ==
  /\ boot \in {"eeprom", "flash"}
  /\ state \in {"idle", "reading", "ok", "failed"}
  /\ req \in [addr : Nat, len : Nat]
  /\ mem \in [Around -> Int]
  /\ disk \in [0 .. DiskBytes - 1 -> Int]
  /\ sound \in BOOLEAN

Arrived(n) == \A i \in Around : 0 <= i /\ i < n /\ i < req.len => mem[i] = disk[req.addr + i]

\* The address on the medium of the chunk being accessed.
Base == req.addr + chunk.at

(* A read of the EEPROM: what is in the buffer, in the receive FIFO and    *)
(* still to come always adds up to the chunk.                              *)
ChunkInv ==
  /\ chunk.len >= 1
  /\ op = "read" =>
       /\ chunk.at + chunk.len <= req.len
       /\ Base + chunk.len <= BlockBytes
       /\ Arrived(chunk.at)
       /\ next <= chunk.at + chunk.len \/ req.len <= chunk.at + chunk.len

CollectInv ==
  /\ op = "read"
  /\ xfer.stage = "addr" => xfer.op = "read" /\ rx = <<>> /\ xfer.addr = Base /\ xfer.left = chunk.len
  /\ xfer.stage = "data" =>
       /\ xfer.op = "read"
       /\ xfer.addr = Base + Len(rx)
       /\ xfer.left = chunk.len - Len(rx) /\ xfer.left >= 1
  /\ Len(rx) <= chunk.len
  /\ \A j \in 1 .. Len(rx) : rx[j] = disk[Base + j - 1]

EepromInv ==
  /\ state = "reading" <=> pc \in {"loop", "wait", "collect"} /\ op = "read"
  /\ state = "reading" => req \in Requests
  /\ pc = "loop" /\ op = "read" => Arrived(next)
  /\ pc \in {"wait", "collect"} => ChunkInv
  /\ pc = "collect" => CollectInv
  /\ xfer.stage \in {"addr", "data"} /\ xfer.op = "read" => pc = "collect"

FlashInv ==
  /\ state = "reading" <=> fpc = "read"
  /\ fpc = "read" => req \in Requests /\ (sound => Arrived(offs))
  /\ fpc \in {"wren", "page", "part", "poll"} => state = "idle"
  /\ WaitsWhileBusy

DiskInv ==
  /\ ReadTypeOK
  /\ I2cTypeOK /\ FlashTypeOK
  /\ boot = "eeprom" => EepromInv
  /\ boot = "flash" => FlashInv
  /\ boot = "eeprom" => ~wip

------------------------------------------------------------------------------
(* Arithmetic of the chunks.                                               *)
LEMMA HeadFacts ==
  ASSUME NEW a \in Nat
  PROVE  HeadLen(a) \in 0 .. FifoDepth
<1>1. FifoDepth \in Nat /\ FifoDepth > 0
  BY I2cAssumption
<1>2. Offset(a) \in 0 .. FifoDepth - 1
  BY <1>1 DEF Offset
<1>. QED  BY <1>1, <1>2 DEF HeadLen

LEMMA RequestFacts ==
  ASSUME NEW r \in Requests, OnMedium
  PROVE  /\ r \in [addr : Nat, len : Nat]
         /\ HeadLen(r.addr) <= r.len
         /\ r.addr + r.len <= BlockBytes /\ r.addr + r.len <= FlashBytes
<1>1. r \in [addr : Nat, len : Nat] /\ BlockBytes \in Nat /\ FlashBytes \in Nat
  BY DiskReadAssumption, I2cAssumption, BootDisksAssumption
<1>. QED  BY <1>1 DEF OnMedium, Smaller

\* In the first block an address selects its own cell.
LEMMA CellFacts ==
  ASSUME NEW a \in Nat
  PROVE  Cell(a) \in Nat /\ (a < BlockBytes => Cell(a) = a)
<1>1. BlockBytes \in Nat /\ BlockBytes > 0
  BY I2cAssumption
<1>2. (a \div BlockBytes) % 2 \in 0 .. 1
  BY <1>1
<1>3. BlockSelect(a) = 0
  BY <1>2 DEF BlockSelect
<1>4. a % BlockBytes \in Nat /\ (a < BlockBytes => a % BlockBytes = a)
  BY <1>1
<1>. QED  BY <1>1, <1>3, <1>4 DEF Cell

------------------------------------------------------------------------------
LEMMA InitialInv == Init => DiskInv
<1>. SUFFICES ASSUME Init PROVE DiskInv
  OBVIOUS
<1>. USE DEF Init
<1>1. DiskBytes \in Nat
  BY I2cAssumption, BootDisksAssumption DEF DiskBytes
<1>2. disk \in [0 .. DiskBytes - 1 -> Int]
  BY <1>1 DEF Fresh
<1>3. ReadTypeOK
  BY <1>2 DEF ReadTypeOK, ReadInit, Blank, Old
<1>4. I2cTypeOK
  <2>1. rx \in Seq(Int)
    <3>1. <<>> \in Seq(Int) /\ <<0>> \in Seq(Int)
      OBVIOUS
    <3>. QED  BY <3>1 DEF I2cInit
  <2>. QED  BY <2>1 DEF I2cInit, I2cTypeOK, I2cLabels, NoTransfer
<1>5. EepromInv
  BY DEF EepromInv, ReadInit, I2cInit, NoTransfer
<1>6. FlashTypeOK
  <2>1. job \in [page : Nat, num : Nat]
    BY DEF FlashInit
  <2>2. source \subseteq Nat
    BY DEF FlashInit
  <2>3. fpc \in FlashLabels /\ offs \in Nat /\ p \in Nat /\ part \in 0 .. 2
    BY DEF FlashInit, FlashLabels
  <2>4. code = "none" /\ speed \in Speeds \cup {"unset"}
    BY DEF FlashInit
  <2>5. wel \in BOOLEAN /\ wip \in BOOLEAN /\ keeps \in BOOLEAN
    BY Zenon DEF FlashInit
  <2>. QED  BY <2>1, <2>2, <2>3, <2>4, <2>5 DEF FlashTypeOK
<1>7. FlashInv
  BY DEF FlashInv, FlashInit, ReadInit, WaitsWhileBusy
<1>. QED  BY <1>3, <1>4, <1>5, <1>6, <1>7 DEF DiskInv, FlashInit

(* The EEPROM, one lemma for each action.                                  *)
EepromState == ReadTypeOK /\ I2cTypeOK /\ EepromInv

LEMMA SetupStep ==
  ASSUME EepromState, UNCHANGED boot, Setup
  PROVE  EepromState' /\ UNCHANGED read
<1>. USE DEF Setup, read
<1>1. ReadTypeOK'
  BY DEF EepromState, ReadTypeOK, DiskBytes
<1>2. I2cTypeOK'
  BY DEF EepromState, I2cTypeOK, I2cLabels, NoTransfer
<1>3. EepromInv'
  BY DEF EepromState, EepromInv, NoTransfer, I2cTypeOK
<1>. QED  BY <1>1, <1>2, <1>3 DEF EepromState

LEMMA AccessStep ==
  ASSUME EepromState, UNCHANGED boot, Access, OnMedium
  PROVE  EepromState' /\ (Ask \/ Store)
<1>. USE DEF Access
<1>0. req' \in Requests /\ req' \in [addr : Nat, len : Nat]
  BY DiskReadAssumption
<1>a. /\ FifoDepth \in Nat /\ next' \in 0 .. FifoDepth
      /\ chunk' \in [at : Nat, len : Nat] /\ chunk'.at = 0 /\ chunk'.len = next'
  BY <1>0, HeadFacts, I2cAssumption
<1>b. next' <= req'.len /\ req'.addr + req'.len <= BlockBytes
  BY <1>0, RequestFacts
<1>c. op' \in {"read", "write"} /\ pc' \in {"loop", "wait"} /\ pc = "idle"
  BY I2cAssumption
<1>d. state # "reading"
  BY <1>c DEF EepromState, EepromInv
<1>e. Blank \in [Around -> Int]
  BY DEF Blank, Old
<1>1. ReadTypeOK'
  BY <1>0, <1>b, <1>c, <1>e DEF EepromState, ReadTypeOK, DiskBytes
<1>2. I2cTypeOK'
  BY <1>a, <1>c DEF EepromState, I2cTypeOK, I2cLabels
<1>3. EepromInv'
  <2>1. (state = "reading" <=> pc \in {"loop", "wait", "collect"} /\ op = "read")'
    BY <1>c
  <2>2. (state = "reading" => req \in Requests)'
    BY <1>0
  <2>3. (pc = "loop" /\ op = "read" => Arrived(next))'
    <3>1. pc' = "loop" => next' = 0
      OBVIOUS
    <3>. QED  BY <3>1, <1>0, DiskReadAssumption DEF Arrived
  <2>4. (pc \in {"wait", "collect"} => ChunkInv)'
    <3>. SUFFICES ASSUME pc' = "wait" PROVE ChunkInv'
      BY <1>c
    <3>1. chunk'.len >= 1
      BY <1>a
    <3>3. Arrived(chunk.at)'
      <4>1. chunk'.at = 0
        BY <1>a
      <4>2. \A i \in Around : ~(0 <= i /\ i < 0)
        BY DiskReadAssumption
      <4>. QED  BY <4>1, <4>2 DEF Arrived
    <3>. QED  BY <3>1, <3>3, <1>0, <1>a, <1>b, I2cAssumption DEF ChunkInv, Base
  <2>5. (pc = "collect" => CollectInv)'
    BY <1>c
  <2>6. (xfer.stage \in {"addr", "data"} /\ xfer.op = "read" => pc = "collect")'
    BY <1>c DEF EepromState, EepromInv
  <2>. QED  BY <2>1, <2>2, <2>3, <2>4, <2>5, <2>6 DEF EepromInv
<1>4. Ask \/ Store
  <2>1. CASE op' = "read"
    BY <2>1, <1>d DEF Ask
  <2>2. CASE op' = "write"
    <3>1. state' = "idle" /\ UNCHANGED <<mem, sound>> /\ sound \in BOOLEAN
      BY <2>2 DEF EepromState, ReadTypeOK
    <3>. QED  BY <3>1, <1>d DEF Store
  <2>. QED  BY <1>c, <2>1, <2>2
<1>. QED  BY <1>1, <1>2, <1>3, <1>4 DEF EepromState

LEMMA NextChunkStep ==
  ASSUME EepromState, UNCHANGED boot, NextChunk, OnMedium
  PROVE  EepromState' /\ (Answer \/ UNCHANGED read)
<1>. USE DEF NextChunk
<1>a. /\ FifoDepth \in Nat /\ FifoDepth > 0 /\ next \in Nat
      /\ req \in [addr : Nat, len : Nat] /\ req.addr \in Nat /\ req.len \in Nat
      /\ op \in {"read", "write"} /\ pc = "loop"
  BY I2cAssumption DEF EepromState, ReadTypeOK, I2cTypeOK
<1>b. ASSUME op = "read"
      PROVE  /\ state = "reading" /\ req \in Requests /\ Arrived(next)
             /\ req.addr + req.len <= BlockBytes
  BY <1>a, <1>b, RequestFacts DEF EepromState, EepromInv
<1>c. op = "write" => state # "reading"
  BY DEF EepromState, EepromInv
<1>d. next < req.len => ChunkLen \in Nat /\ ChunkLen >= 1 /\ ChunkLen <= FifoDepth
                       /\ next + ChunkLen <= req.len
                       /\ (ChunkLen = FifoDepth \/ next + ChunkLen = req.len)
  BY <1>a DEF ChunkLen, Smaller
<1>1. ReadTypeOK'
  BY DEF EepromState, ReadTypeOK, DiskBytes
<1>2. I2cTypeOK'
  BY <1>a, <1>d DEF EepromState, I2cTypeOK, I2cLabels
<1>x. xfer.stage \in {"addr", "data"} => xfer.op # "read"
  BY <1>a DEF EepromState, EepromInv
<1>3. CASE next < req.len
  <2>1. /\ pc' = "wait" /\ chunk' = [at |-> next, len |-> ChunkLen]
        /\ next' = next + FifoDepth /\ UNCHANGED <<op, xfer, rx, read>>
    BY <1>3 DEF read
  <2>2. ChunkInv'
    <3>1. chunk'.at = next /\ chunk'.len = ChunkLen
      BY <2>1
    <3>2. op = "read" => Arrived(chunk.at)'
      BY <2>1, <3>1, <1>b DEF Arrived, read
    <3>. QED  BY <2>1, <3>1, <3>2, <1>a, <1>b, <1>d, I2cAssumption DEF ChunkInv, Base, read
  <2>3. EepromInv'
    BY <2>1, <2>2, <1>a, <1>b, <1>c, <1>x DEF EepromInv, read
  <2>. QED  BY <2>1, <2>3, <1>1, <1>2 DEF EepromState
<1>4. CASE ~(next < req.len)
  <2>1. /\ pc' = "idle" /\ state' = IF op = "read" THEN "ok" ELSE state
        /\ UNCHANGED <<op, next, chunk, xfer, rx, req, mem, disk, sound>>
    BY <1>4
  <2>2. op = "read" => Exact
    BY <1>4, <1>a, <1>b, DiskReadAssumption DEF Arrived, Exact
  <2>3. Answer \/ UNCHANGED read
    BY <2>1, <2>2, <1>a, <1>b DEF Answer, read
  <2>4. EepromInv'
    BY <2>1, <1>a, <1>c, <1>x DEF EepromInv
  <2>. QED  BY <2>3, <2>4, <1>1, <1>2 DEF EepromState
<1>. QED  BY <1>3, <1>4

LEMMA IssueReadStep ==
  ASSUME EepromState, UNCHANGED boot, IssueRead
  PROVE  EepromState' /\ UNCHANGED read
<1>. USE DEF IssueRead, Start, read
<1>a. pc = "wait" /\ op = "read" /\ rx = <<>> /\ xfer.stage \in {"none", "last"} /\ ChunkInv
  BY DEF Vacant, EepromState, EepromInv
<1>b. chunk \in [at : Nat, len : Nat] /\ req \in [addr : Nat, len : Nat]
  BY DEF EepromState, ReadTypeOK, I2cTypeOK
<1>c. Base \in Nat /\ chunk.len \in Nat
  BY <1>b DEF Base
<1>d. xfer' = [stage |-> "addr", op |-> "read", addr |-> Base, left |-> chunk.len]
  BY <1>a DEF Base
<1>1. ReadTypeOK'
  BY DEF EepromState, ReadTypeOK, DiskBytes
<1>2. I2cTypeOK'
  BY <1>c, <1>d DEF EepromState, I2cTypeOK, I2cLabels
<1>3. ChunkInv'
  BY <1>a DEF ChunkInv, Base, Arrived
<1>4. CollectInv'
  BY <1>a, <1>c, <1>d DEF CollectInv, Base
<1>5. EepromInv'
  BY <1>a, <1>3, <1>4 DEF EepromState, EepromInv, Arrived
<1>. QED  BY <1>1, <1>2, <1>5 DEF EepromState

LEMMA IssueWriteStep ==
  ASSUME EepromState, UNCHANGED boot, IssueWrite
  PROVE  EepromState' /\ UNCHANGED read
<1>. USE DEF IssueWrite, read
<1>a. pc = "wait" /\ op = "write" /\ xfer.stage \in {"none", "last"} /\ state # "reading" /\ chunk.len >= 1
  BY DEF Vacant, EepromState, EepromInv, ChunkInv
<1>b. /\ chunk \in [at : Nat, len : Nat] /\ req \in [addr : Nat, len : Nat]
      /\ FifoDepth \in Nat /\ FifoDepth > 0
  BY I2cAssumption DEF EepromState, ReadTypeOK, I2cTypeOK
<1>c. HalfFill \in Nat /\ DataBytes \in Nat
  BY <1>a, <1>b DEF HalfFill, DataBytes, Smaller
<1>d. /\ xfer' = [stage |-> "addr", op |-> "write", addr |-> req.addr + chunk.at, left |-> DataBytes]
      /\ req.addr + chunk.at \in Nat
  BY <1>a, <1>b DEF Start
<1>e. /\ pc' \in {"wait", "loop"}
      /\ chunk' \in [at : Nat, len : Nat]
      /\ pc' = "wait" => chunk'.len >= 1
  BY <1>a, <1>b, <1>c
<1>1. ReadTypeOK'
  BY DEF EepromState, ReadTypeOK, DiskBytes
<1>2. I2cTypeOK'
  BY <1>c, <1>d, <1>e DEF EepromState, I2cTypeOK, I2cLabels
<1>3. EepromInv'
  BY <1>a, <1>d, <1>e DEF EepromInv, ChunkInv
<1>. QED  BY <1>1, <1>2, <1>3 DEF EepromState

\* Item of a sequence for byte i of the chunk that begins at c, n bytes long.
LEMMA ChunkItem ==
  ASSUME NEW c \in Nat, NEW n \in Nat, NEW m \in Nat, n <= m, NEW i \in c .. c + n - 1
  PROVE  i - c + 1 \in 1 .. m
OBVIOUS

LEMMA CollectStep ==
  ASSUME EepromState, UNCHANGED boot, Collect
  PROVE  EepromState' /\ Copy
<1>. USE DEF Collect
<1>a. /\ pc = "collect" /\ op = "read" /\ state = "reading" /\ ChunkInv /\ CollectInv
      /\ pc' = "loop" /\ Len(rx) >= chunk.len
  BY DEF EepromState, EepromInv, CollectInv
<1>b. /\ chunk \in [at : Nat, len : Nat] /\ req \in [addr : Nat, len : Nat]
      /\ rx \in Seq(Int) /\ mem \in [Around -> Int] /\ Len(rx) \in Nat /\ next \in Nat
  BY DEF EepromState, ReadTypeOK, I2cTypeOK
<1>c. \A i \in Around : i \in chunk.at .. chunk.at + chunk.len - 1 =>
        /\ i - chunk.at + 1 \in 1 .. Len(rx)
        /\ rx[i - chunk.at + 1] \in Int
        /\ rx[i - chunk.at + 1] = disk[req.addr + i]
  <2>. SUFFICES ASSUME NEW i \in Around, i \in chunk.at .. chunk.at + chunk.len - 1
                PROVE  /\ i - chunk.at + 1 \in 1 .. Len(rx)
                       /\ rx[i - chunk.at + 1] \in Int
                       /\ rx[i - chunk.at + 1] = disk[req.addr + i]
    OBVIOUS
  <2> HIDE DEF Collect
  <2>0. chunk.at \in Nat /\ req.addr \in Nat /\ i \in Int
    BY <1>b
  <2>1. i - chunk.at + 1 \in 1 .. Len(rx)
    BY <1>a, <1>b, ChunkItem
  <2>2. rx[i - chunk.at + 1] = disk[Base + (i - chunk.at + 1) - 1]
    BY <2>1, <1>a DEF CollectInv
  <2>3. Base + (i - chunk.at + 1) - 1 = req.addr + i
    BY <2>0 DEF Base
  <2>4. rx[i - chunk.at + 1] \in Int
    BY <2>1, <1>b
  <2>. QED  BY <2>1, <2>2, <2>3, <2>4
<1>d. mem' \in [Around -> Int]
  BY <1>b, <1>c
<1>1. ReadTypeOK'
  BY <1>d DEF EepromState, ReadTypeOK, DiskBytes
<1>2. I2cTypeOK'
  <2>1. SubSeq(rx, chunk.len + 1, Len(rx)) \in Seq(Int)
    BY <1>b
  <2>. QED  BY <2>1 DEF EepromState, I2cTypeOK, I2cLabels
<1>3. Arrived(next)'
  <2>. SUFFICES ASSUME NEW i \in Around, 0 <= i, i < next, i < req.len
                PROVE  mem'[i] = disk[req.addr + i]
    BY DEF Arrived
  <2>0. i \in Int
    BY DiskReadAssumption
  <2>1. i < chunk.at + chunk.len
    BY <1>a, <1>b, <2>0 DEF ChunkInv
  <2>2. CASE i < chunk.at
    BY <2>0, <2>2, <1>a, <1>b, SMTT(20) DEF ChunkInv, Arrived
  <2>3. CASE i >= chunk.at
    <3>1. i \in chunk.at .. chunk.at + chunk.len - 1
      BY <2>0, <2>1, <2>3, <1>b
    <3>2. mem'[i] = rx[i - chunk.at + 1]
      BY <3>1
    <3>. QED  BY <3>1, <3>2, <1>c
  <2>. QED  BY <2>0, <2>2, <2>3, <1>b
<1>4. EepromInv'
  <2>1. xfer.stage \in {"none", "last"}
    BY <1>a, <1>b DEF CollectInv, ChunkInv, EepromState, I2cTypeOK
  <2>. QED  BY <1>a, <1>3, <2>1 DEF EepromState, EepromInv
<1>5. Elsewhere
  <2>. SUFFICES ASSUME NEW i \in Around, i \notin 0 .. req.len - 1
                PROVE  mem'[i] = mem[i]
    BY DEF Elsewhere
  <2>1. i \in Int
    BY DiskReadAssumption
  <2>2. chunk.at + chunk.len <= req.len /\ chunk.at \in Nat /\ chunk.len \in Nat /\ req.len \in Nat
    BY <1>a, <1>b DEF ChunkInv
  <2>3. i \notin chunk.at .. chunk.at + chunk.len - 1
    <3> HIDE DEF Collect
    <3>. QED  BY <2>1, <2>2
  <2>. QED  BY <2>3
<1>. QED  BY <1>1, <1>2, <1>4, <1>5, <1>a, <1>d DEF EepromState, Copy

LEMMA SendAddressStep ==
  ASSUME EepromState, UNCHANGED boot, SendAddress
  PROVE  EepromState' /\ UNCHANGED read
<1>. USE DEF SendAddress, driver, read
<1>a. /\ xfer \in [stage : {"none", "addr", "data", "last"}, op : {"read", "write"}, addr : Nat, left : Nat]
      /\ chunk \in [at : Nat, len : Nat] /\ req \in [addr : Nat, len : Nat]
  BY DEF EepromState, ReadTypeOK, I2cTypeOK
<1>b. Cell(xfer.addr) \in Nat /\ (xfer.addr < BlockBytes => Cell(xfer.addr) = xfer.addr)
  BY <1>a, CellFacts
<1>c. /\ xfer'.stage = IF xfer.left = 0 THEN "none" ELSE "data"
      /\ xfer'.op = xfer.op /\ xfer'.addr = Cell(xfer.addr) /\ xfer'.left = xfer.left
      /\ xfer' \in [stage : {"none", "addr", "data", "last"}, op : {"read", "write"}, addr : Nat, left : Nat]
  BY <1>a, <1>b
<1>1. ReadTypeOK'
  BY DEF EepromState, ReadTypeOK, DiskBytes
<1>2. I2cTypeOK'
  BY <1>c DEF EepromState, I2cTypeOK
<1>3. pc = "collect" => CollectInv'
  <2>. SUFFICES ASSUME pc = "collect" PROVE CollectInv'
    OBVIOUS
  <2>1. ChunkInv /\ CollectInv
    BY DEF EepromState, EepromInv
  <2>2. /\ xfer.op = "read" /\ rx = <<>> /\ xfer.addr = Base /\ xfer.left = chunk.len
        /\ op = "read" /\ Base + chunk.len <= BlockBytes /\ chunk.len >= 1
    BY <2>1 DEF CollectInv, ChunkInv
  <2>3. xfer.addr < BlockBytes
    BY <2>2, <1>a, I2cAssumption
  <2>4. xfer'.addr = Base /\ xfer'.left = chunk.len /\ xfer'.stage = "data" /\ xfer'.op = "read"
    BY <2>2, <2>3, <1>a, <1>b, <1>c
  <2>5. Base' = Base /\ Base \in Nat /\ chunk.len \in Nat
    BY <1>a DEF Base
  <2>. QED  BY <2>2, <2>4, <2>5 DEF CollectInv
<1>4. ChunkInv => ChunkInv'
  BY DEF ChunkInv, Base, Arrived
<1>5. EepromInv'
  BY <1>3, <1>4, <1>c DEF EepromState, EepromInv, Arrived
<1>. QED  BY <1>1, <1>2, <1>5 DEF EepromState

LEMMA TransferType ==
  ASSUME NEW s \in {"none", "addr", "data", "last"}, NEW a \in Nat, NEW n \in Nat
  PROVE  [stage |-> s, op |-> "read", addr |-> a, left |-> n]
           \in [stage : {"none", "addr", "data", "last"}, op : {"read", "write"}, addr : Nat, left : Nat]
OBVIOUS

LEMMA ReceiveByteStep ==
  ASSUME EepromState, UNCHANGED boot, boot = "eeprom", ReceiveByte
  PROVE  EepromState' /\ UNCHANGED read
<1>. USE DEF ReceiveByte, driver, read
<1>a. /\ xfer \in [stage : {"none", "addr", "data", "last"}, op : {"read", "write"}, addr : Nat, left : Nat]
      /\ chunk \in [at : Nat, len : Nat] /\ req \in [addr : Nat, len : Nat]
      /\ rx \in Seq(Int) /\ Len(rx) \in Nat /\ disk \in [0 .. DiskBytes - 1 -> Int]
  BY DEF EepromState, ReadTypeOK, I2cTypeOK
<1>b. pc = "collect" /\ ChunkInv /\ CollectInv
  BY DEF EepromState, EepromInv
<1>c. /\ op = "read" /\ xfer.op = "read" /\ xfer.addr = Base + Len(rx)
      /\ xfer.left = chunk.len - Len(rx) /\ xfer.left >= 1 /\ Base + chunk.len <= BlockBytes
      /\ Base \in Nat /\ Base' = Base /\ chunk.len \in Nat
  BY <1>a, <1>b DEF CollectInv, ChunkInv, Base
<1>d. disk[xfer.addr] \in Int
  <2>1. xfer.addr \in 0 .. DiskBytes - 1
    BY <1>a, <1>c, I2cAssumption, SMTT(20) DEF DiskBytes
  <2>. QED  BY <2>1, <1>a
<1>e. /\ rx' \in Seq(Int) /\ Len(rx') = Len(rx) + 1
      /\ \A j \in 1 .. Len(rx) + 1 :
           rx'[j] = IF j = Len(rx) + 1 THEN disk[xfer.addr] ELSE rx[j]
  BY <1>a, <1>d
<1>f. /\ xfer'.stage = IF xfer.left = 1 THEN "last" ELSE "data"
      /\ xfer'.op = "read" /\ xfer'.addr = xfer.addr + 1 /\ xfer'.left = xfer.left - 1
      /\ xfer' \in [stage : {"none", "addr", "data", "last"}, op : {"read", "write"}, addr : Nat, left : Nat]
  <2>1. xfer' = [xfer EXCEPT !.stage = IF xfer.left = 1 THEN "last" ELSE xfer.stage,
                             !.addr = xfer.addr + 1, !.left = xfer.left - 1]
    OBVIOUS
  <2>2. xfer.stage = "data" /\ xfer.left \in Nat /\ xfer.addr \in Nat /\ xfer.left - 1 \in Nat
    BY <1>a, <1>c
  <2>3. /\ xfer'.stage = IF xfer.left = 1 THEN "last" ELSE "data"
        /\ xfer'.op = "read" /\ xfer'.addr = xfer.addr + 1 /\ xfer'.left = xfer.left - 1
    BY <2>1, <2>2, <1>a, <1>c
  <2>4. xfer' \in [stage : {"none", "addr", "data", "last"}, op : {"read", "write"}, addr : Nat, left : Nat]
    <3>1. xfer' = [stage |-> IF xfer.left = 1 THEN "last" ELSE "data", op |-> "read",
                   addr |-> xfer.addr + 1, left |-> xfer.left - 1]
      BY <2>1, <2>2, <1>a, <1>c
    <3>2. (IF xfer.left = 1 THEN "last" ELSE "data") \in {"none", "addr", "data", "last"}
      OBVIOUS
    <3>3. xfer.addr + 1 \in Nat
      BY <2>2
    <3> HIDE DEF ReceiveByte
    <3>. QED  BY ONLY <3>1, <3>2, <3>3, <2>2, TransferType
  <2>. QED  BY <2>3, <2>4
<1>1. ReadTypeOK'
  BY DEF EepromState, ReadTypeOK, DiskBytes
<1>2. I2cTypeOK'
  BY <1>e, <1>f DEF EepromState, I2cTypeOK
<1>3. CollectInv'
  <2>1. \A j \in 1 .. Len(rx') : rx'[j] = disk[Base + j - 1]
    <3>. SUFFICES ASSUME NEW j \in 1 .. Len(rx) + 1 PROVE rx'[j] = disk[Base + j - 1]
      BY <1>e
    <3>1. CASE j = Len(rx) + 1
      <4>1. Base + j - 1 = xfer.addr
        BY <3>1, <1>a, <1>c
      <4>. QED  BY <4>1, <3>1, <1>e
    <3>2. CASE j # Len(rx) + 1
      <4>1. j \in 1 .. Len(rx)
        BY <3>2, <1>a
      <4>. QED  BY <4>1, <3>2, <1>b, <1>e DEF CollectInv
    <3>. QED  BY <3>1, <3>2
  <2>2. xfer'.stage = "data" => xfer'.addr = Base + Len(rx') /\ xfer'.left = chunk.len - Len(rx')
                               /\ xfer'.left >= 1
    BY <1>a, <1>c, <1>e, <1>f, SMTT(20)
  <2>3. Len(rx') <= chunk.len
    BY <1>a, <1>c, <1>e
  <2>4. xfer'.stage # "addr"
    BY <1>f
  <2>. QED  BY <2>1, <2>2, <2>3, <2>4, <1>c, <1>f DEF CollectInv
<1>4. ChunkInv'
  BY <1>b DEF ChunkInv, Base, Arrived
<1>5. EepromInv'
  BY <1>3, <1>4, <1>b DEF EepromState, EepromInv, Arrived
<1>. QED  BY <1>1, <1>2, <1>5 DEF EepromState

LEMMA SendDataStep ==
  ASSUME EepromState, UNCHANGED boot, SendData \/ FinishByte
  PROVE  EepromState' /\ UNCHANGED read
<1>. USE DEF SendData, FinishByte, driver, read
<1>a. SendData => pc # "collect"
  BY DEF EepromState, EepromInv, CollectInv
<1>b. /\ xfer'.stage \in {"none", "last"}
      /\ xfer' \in [stage : {"none", "addr", "data", "last"}, op : {"read", "write"}, addr : Nat, left : Nat]
  BY DEF NoTransfer, EepromState, I2cTypeOK
<1>1. ReadTypeOK'
  BY DEF EepromState, ReadTypeOK, DiskBytes
<1>2. I2cTypeOK'
  BY <1>b DEF EepromState, I2cTypeOK
<1>3. ChunkInv => ChunkInv'
  BY DEF ChunkInv, Base, Arrived
<1>4. CollectInv => CollectInv'
  BY <1>b DEF CollectInv, Base
<1>5. EepromInv'
  BY <1>a, <1>b, <1>3, <1>4 DEF EepromState, EepromInv, Arrived
<1>. QED  BY <1>1, <1>2, <1>5 DEF EepromState

------------------------------------------------------------------------------
(* The flash, one lemma for each action.                                   *)
FlashState == ReadTypeOK /\ FlashTypeOK /\ FlashInv

LEMMA FlashSetupStep ==
  ASSUME FlashState, UNCHANGED boot, FlashSetup
  PROVE  FlashState' /\ UNCHANGED read
<1>. USE DEF FlashSetup, read
<1>1. ReadTypeOK'
  BY DEF FlashState, ReadTypeOK, DiskBytes
<1>a. fpc' \in {"dead", "ready"} /\ code' \in {"0x14", "ok"}
  BY DEF Finish
<1>2. FlashTypeOK'
  <2>1. keeps' \in BOOLEAN
    BY FlashAssumption
  <2>. QED  BY <2>1, <1>a DEF FlashState, FlashTypeOK, FlashLabels
<1>3. FlashInv'
  BY <1>a DEF FlashState, FlashInv, WaitsWhileBusy, FlashTypeOK
<1>. QED  BY <1>1, <1>2, <1>3 DEF FlashState

LEMMA TransactionFailsStep ==
  ASSUME FlashState, UNCHANGED boot, TransactionFails
  PROVE  FlashState' /\ (Answer \/ Store)
<1>. USE DEF TransactionFails, device
<1>a. /\ fpc' = "ready" /\ code' = "dif" /\ offs' = 0 /\ p' = 0 /\ part' = 0
      /\ state' = IF fpc = "read" THEN "failed" ELSE state
  BY DEF Abort, Finish
<1>b. /\ state = "reading" <=> fpc = "read"
      /\ sound \in BOOLEAN /\ sound' \in BOOLEAN /\ sound' = (sound /\ fpc = "read")
  BY DEF FlashState, FlashInv, ReadTypeOK
<1>1. ReadTypeOK'
  BY <1>a, <1>b DEF FlashState, ReadTypeOK, DiskBytes
<1>2. FlashTypeOK'
  BY <1>a DEF FlashState, FlashTypeOK, FlashLabels
<1>3. FlashInv'
  BY <1>a, <1>b DEF FlashState, FlashInv, WaitsWhileBusy
<1>c. (sound' => sound) /\ sound' \in BOOLEAN
  <2>. HIDE DEF TransactionFails
  <2>. QED  BY Zenon, <1>b
<1>4. ASSUME fpc = "read" PROVE Answer
  <2>1. state = "reading" /\ state' = "failed" /\ UNCHANGED <<req, mem, disk>>
    BY <1>a, <1>b, <1>4
  <2>. QED  BY <1>c, <2>1 DEF Answer
<1>5. ASSUME fpc # "read" PROVE Store
  <2>1. state = "idle" /\ state' = "idle" /\ UNCHANGED mem
    BY <1>a, <1>5 DEF FlashState, FlashInv
  <2>. QED  BY <1>c, <2>1 DEF Store
<1>. QED  BY <1>1, <1>2, <1>3, <1>4, <1>5 DEF FlashState

LEMMA SingleReadStep ==
  ASSUME FlashState, UNCHANGED boot, SingleRead
  PROVE  FlashState' /\ (Ask \/ UNCHANGED read)
<1>. USE DEF SingleRead, device
<1>a. fpc = "ready" /\ state # "reading" /\ (wip => ~sound)
  BY DEF FlashState, FlashInv, WaitsWhileBusy, FlashTypeOK
<1>1. CASE speed # "read"
  <2>1. fpc' = "ready" /\ code' = "0x15" /\ UNCHANGED <<offs, read, job, p, part, source, device>>
    BY <1>1 DEF Finish
  <2>2. FlashState'
    BY <2>1, <1>a DEF FlashState, ReadTypeOK, DiskBytes, FlashTypeOK, FlashLabels, FlashInv,
                      WaitsWhileBusy, read, device
  <2>. QED  BY <2>1, <2>2
<1>2. CASE speed = "read"
  <2>1. /\ fpc' = "read" /\ offs' = 0 /\ req' \in Requests /\ state' = "reading" /\ mem' = Blank
        /\ UNCHANGED <<disk, sound, code, job, p, part, source, device>>
    BY <1>2 DEF Goto
  <2>2. req' \in [addr : Nat, len : Nat]
    BY <2>1, DiskReadAssumption
  <2>3. Blank \in [Around -> Int]
    BY DEF Blank, Old
  <2>4. ReadTypeOK'
    BY <2>1, <2>2, <2>3 DEF FlashState, ReadTypeOK, DiskBytes
  <2>5. FlashTypeOK'
    BY <2>1 DEF FlashState, FlashTypeOK, FlashLabels, device
  <2>6. Arrived(offs)'
    <3>1. \A i \in Around : ~(0 <= i /\ i < 0)
      BY DiskReadAssumption
    <3>. QED  BY <2>1, <3>1 DEF Arrived
  <2>7. FlashInv'
    BY <2>1, <2>6, <1>a DEF FlashInv, WaitsWhileBusy, device
  <2>8. Ask
    BY <2>1, <2>2, <1>a DEF Ask
  <2>. QED  BY <2>4, <2>5, <2>7, <2>8 DEF FlashState
<1>. QED  BY <1>1, <1>2

LEMMA ReadChunkStep ==
  ASSUME FlashState, UNCHANGED boot, boot = "flash", ReadChunk, OnMedium
  PROVE  FlashState' /\ Copy
<1>. USE DEF ReadChunk, device
<1>a. /\ fpc = "read" /\ state = "reading" /\ req \in Requests
      /\ sound => ~wip /\ Arrived(offs)
  BY DEF FlashState, FlashInv, WaitsWhileBusy, FlashTypeOK
<1>b. /\ req.addr \in Nat /\ req.len \in Nat /\ req.addr + req.len <= FlashBytes
      /\ offs \in Nat /\ offs < req.len /\ RxBytes \in Nat /\ RxBytes > 0 /\ FlashBytes \in Nat
  BY <1>a, RequestFacts, FlashAssumption, BootDisksAssumption DEF FlashState, FlashTypeOK
<1>c. /\ ReadLen \in Nat /\ offs + ReadLen <= req.len /\ ReadLen <= RxBytes
      /\ (ReadLen = RxBytes \/ offs + ReadLen = req.len)
  BY <1>b DEF ReadLen
<1>d. \A i \in Around : i \in offs .. offs + ReadLen - 1 =>
        Cells(req.addr + i) \in Int /\ (sound => Cells(req.addr + i) = disk[req.addr + i])
  <2>. SUFFICES ASSUME NEW i \in Around, i \in offs .. offs + ReadLen - 1
                PROVE  disk[req.addr + i] \in Int
    BY <1>a DEF Cells, Idle
  <2>1. req.addr + i \in 0 .. FlashBytes - 1
    BY <1>b, <1>c
  <2>. QED  BY <2>1 DEF FlashState, ReadTypeOK, DiskBytes
<1>e. mem' \in [Around -> Int]
  BY <1>d DEF FlashState, ReadTypeOK
<1>1. ReadTypeOK'
  BY <1>e DEF FlashState, ReadTypeOK, DiskBytes
<1>2. FlashTypeOK'
  BY <1>b DEF FlashState, FlashTypeOK, FlashLabels
<1>3. sound => Arrived(offs)'
  <2>. SUFFICES ASSUME sound, NEW i \in Around, 0 <= i, i < offs + RxBytes, i < req.len
                PROVE  mem'[i] = disk[req.addr + i]
    BY DEF Arrived
  <2>0. i \in Int
    BY DiskReadAssumption
  <2>1. CASE i < offs
    BY <2>0, <2>1, <1>a, <1>b DEF Arrived
  <2>2. CASE ~(i < offs)
    <3>1. i \in offs .. offs + ReadLen - 1
      BY <2>0, <2>2, <1>b, <1>c
    <3>2. mem'[i] = Cells(req.addr + i)
      BY <3>1
    <3>. QED  BY <3>1, <3>2, <1>d
  <2>. QED  BY <2>1, <2>2
<1>4. FlashInv'
  BY <1>a, <1>3 DEF FlashInv, WaitsWhileBusy
<1>5. Elsewhere
  <2>. SUFFICES ASSUME NEW i \in Around, i \notin 0 .. req.len - 1
                PROVE  mem'[i] = mem[i]
    BY DEF Elsewhere
  <2>1. i \in Int
    BY DiskReadAssumption
  <2>2. i \notin offs .. offs + ReadLen - 1
    BY <2>1, <1>a, <1>b, <1>c
  <2>. QED  BY <2>2
<1>. QED  BY <1>1, <1>2, <1>4, <1>5, <1>a, <1>e DEF FlashState, Copy

LEMMA ReadEndsStep ==
  ASSUME FlashState, UNCHANGED boot, ReadEnds
  PROVE  FlashState' /\ Answer
<1>. USE DEF ReadEnds, device, Finish
<1>a. /\ fpc = "read" /\ state = "reading" /\ (sound => ~wip /\ Arrived(offs))
      /\ offs >= req.len /\ offs \in Nat /\ req.len \in Nat
  BY DEF FlashState, FlashInv, WaitsWhileBusy, ReadTypeOK, FlashTypeOK
<1>1. ReadTypeOK'
  BY DEF FlashState, ReadTypeOK, DiskBytes
<1>2. FlashTypeOK'
  BY DEF FlashState, FlashTypeOK, FlashLabels
<1>3. FlashInv'
  BY <1>a DEF FlashInv, WaitsWhileBusy
<1>4. sound => Exact
  <2>. SUFFICES ASSUME sound, NEW i \in Around, i \in 0 .. req.len - 1
                PROVE  mem[i] = disk[req.addr + i]
    BY DEF Exact
  <2>. QED  BY <1>a DEF Arrived
<1>. QED  BY <1>1, <1>2, <1>3, <1>4, <1>a DEF FlashState, Answer

LEMMA SingleFlashStep ==
  ASSUME FlashState, UNCHANGED boot, SingleFlash
  PROVE  FlashState' /\ (Store \/ UNCHANGED read)
<1>. USE DEF SingleFlash, device
<1>a. fpc = "ready" /\ state # "reading" /\ (wip => ~sound)
  BY DEF FlashState, FlashInv, WaitsWhileBusy, FlashTypeOK
<1>1. CASE speed = "fast"
  <2>1. fpc' = "ready" /\ code' = "0x16" /\ UNCHANGED <<offs, read, job, p, part, source, device>>
    BY <1>1 DEF Finish
  <2>2. FlashState'
    BY <2>1, <1>a DEF FlashState, ReadTypeOK, DiskBytes, FlashTypeOK, FlashLabels, FlashInv,
                      WaitsWhileBusy, read, device
  <2>. QED  BY <2>1, <2>2
<1>2. CASE speed # "fast"
  <2>1. /\ fpc' = "wren" /\ job' \in Jobs /\ p' = 0 /\ part' = 0 /\ source' = 0 .. job'.num - 1
        /\ state' = "idle" /\ mem' = Blank /\ UNCHANGED <<code, req, disk, sound, offs, device>>
    BY <1>2 DEF Goto
  <2>2. job' \in [page : Nat, num : Nat] /\ source' \subseteq Nat
    BY <2>1, FlashAssumption
  <2>3. ReadTypeOK'
    <3>1. Blank \in [Around -> Int]
      BY DEF Blank, Old
    <3>. QED  BY <2>1, <3>1 DEF FlashState, ReadTypeOK, DiskBytes
  <2>4. FlashTypeOK'
    BY <2>1, <2>2 DEF FlashState, FlashTypeOK, FlashLabels
  <2>5. FlashInv'
    BY <2>1, <1>a DEF FlashInv, WaitsWhileBusy
  <2>6. Store
    BY <2>1, <1>a DEF Store, FlashState, ReadTypeOK
  <2>. QED  BY <2>3, <2>4, <2>5, <2>6 DEF FlashState
<1>. QED  BY <1>1, <1>2

LEMMA WriteEnableStep ==
  ASSUME FlashState, UNCHANGED boot, WriteEnable
  PROVE  FlashState' /\ UNCHANGED read
<1>. USE DEF WriteEnable, Goto, read
<1>a. state = "idle" /\ (wip => ~sound) /\ wel' \in BOOLEAN
  <2>1. state = "idle" /\ (wip => ~sound)
    BY DEF FlashState, FlashInv, WaitsWhileBusy
  <2>2. wel' \in BOOLEAN
    BY Zenon DEF FlashState, FlashTypeOK
  <2>. QED  BY <2>1, <2>2
<1>1. ReadTypeOK'
  BY DEF FlashState, ReadTypeOK, DiskBytes
<1>2. FlashTypeOK'
  BY <1>a DEF FlashState, FlashTypeOK, FlashLabels
<1>3. FlashInv'
  BY <1>a DEF FlashInv, WaitsWhileBusy
<1>. QED  BY <1>1, <1>2, <1>3 DEF FlashState

LEMMA NextPageStep ==
  ASSUME FlashState, UNCHANGED boot, NextPage
  PROVE  FlashState' /\ UNCHANGED read
<1>. USE DEF NextPage, Goto, Finish, read, device
<1>a. state = "idle" /\ (wip => ~sound) /\ fpc' \in {"part", "ready"} /\ code' \in {code, "ok"}
  BY DEF FlashState, FlashInv, WaitsWhileBusy
<1>1. ReadTypeOK'
  BY DEF FlashState, ReadTypeOK, DiskBytes
<1>2. FlashTypeOK'
  BY <1>a DEF FlashState, FlashTypeOK, FlashLabels
<1>3. FlashInv'
  BY <1>a DEF FlashInv, WaitsWhileBusy
<1>. QED  BY <1>1, <1>2, <1>3 DEF FlashState

LEMMA EraseStep ==
  ASSUME FlashState, UNCHANGED boot, Erase
  PROVE  FlashState' /\ (Store \/ UNCHANGED read)
<1>. USE DEF Erase, Take, Goto, Erased
<1>a. fpc = "part" /\ fpc' = "poll" /\ state = "idle" /\ state' = "idle"
  BY DEF FlashState, FlashInv
<1>b. disk' \in [0 .. DiskBytes - 1 -> Int] /\ wip' \in BOOLEAN
  <2>1. CASE wel /\ ~wip
    <3>1. /\ wip' = TRUE
          /\ disk' = [a \in DOMAIN disk |-> IF a \in SectorAddr(part) .. SectorAddr(part) + SectorBytes - 1 THEN Erased ELSE disk[a]]
      BY <2>1
    <3>. QED  BY <3>1 DEF FlashState, ReadTypeOK
  <2>2. CASE ~(wel /\ ~wip)
    <3>1. disk' = disk /\ wip' = wip
      BY <2>2
    <3>. QED  BY <3>1 DEF FlashState, ReadTypeOK, FlashTypeOK
  <2>. QED  BY <2>1, <2>2
<1>c. UNCHANGED <<boot, req, mem, sound>>
  OBVIOUS
<1>1. ReadTypeOK'
  BY <1>a, <1>b, <1>c DEF FlashState, ReadTypeOK, DiskBytes
<1>2. FlashTypeOK'
  BY <1>a, <1>b DEF FlashState, FlashTypeOK, FlashLabels
<1>3. FlashInv'
  BY <1>a DEF FlashInv, WaitsWhileBusy
<1>. QED  BY <1>1, <1>2, <1>3, <1>a, <1>c DEF FlashState, ReadTypeOK, Store

LEMMA ProgramStep ==
  ASSUME FlashState, UNCHANGED boot, Program
  PROVE  FlashState' /\ (Store \/ UNCHANGED read)
<1>. USE DEF Program, Take, Goto, Idle
<1>a. fpc = "part" /\ fpc' = "poll" /\ state = "idle" /\ state' = "idle"
  BY DEF FlashState, FlashInv
<1>b. disk' \in [0 .. DiskBytes - 1 -> Int] /\ wip' \in BOOLEAN
  <2>1. CASE wel /\ ~wip
    <3>1. /\ wip' = TRUE
          /\ disk' = [a \in DOMAIN disk |-> IF a \in PageCells(job.page + p) THEN Idle ELSE disk[a]]
      BY <2>1
    <3>. QED  BY <3>1 DEF FlashState, ReadTypeOK
  <2>2. CASE ~(wel /\ ~wip)
    <3>1. disk' = disk /\ wip' = wip
      BY <2>2
    <3>. QED  BY <3>1 DEF FlashState, ReadTypeOK, FlashTypeOK
  <2>. QED  BY <2>1, <2>2
<1>c. UNCHANGED <<boot, req, mem, sound>>
  OBVIOUS
<1>1. ReadTypeOK'
  BY <1>a, <1>b, <1>c DEF FlashState, ReadTypeOK, DiskBytes
<1>2. FlashTypeOK'
  BY <1>a, <1>b DEF FlashState, FlashTypeOK, FlashLabels
<1>3. FlashInv'
  BY <1>a DEF FlashInv, WaitsWhileBusy
<1>. QED  BY <1>1, <1>2, <1>3, <1>a, <1>c DEF FlashState, ReadTypeOK, Store

LEMMA DoneStep ==
  ASSUME FlashState, UNCHANGED boot, Done
  PROVE  FlashState' /\ UNCHANGED read
<1>. USE DEF Done, read
<1>1. ReadTypeOK'
  BY DEF FlashState, ReadTypeOK, DiskBytes
<1>2. FlashTypeOK'
  BY DEF FlashState, FlashTypeOK, FlashLabels
<1>3. FlashInv'
  BY DEF FlashState, FlashInv, WaitsWhileBusy, Arrived
<1>. QED  BY <1>1, <1>2, <1>3 DEF FlashState

LEMMA PollStep ==
  ASSUME FlashState, UNCHANGED boot, Poll
  PROVE  FlashState' /\ UNCHANGED read
<1>. USE DEF Poll, Goto, Abort, Finish, read, device
<1>a. /\ fpc = "poll" /\ state = "idle" /\ ~wip
      /\ fpc' \in {"ready", "page", "part"} /\ offs' \in {0, offs} /\ code' \in {code, "status"}
  BY DEF FlashState, FlashInv
<1>b. part' \in 0 .. 2 /\ p' \in Nat
  BY DEF FlashState, FlashTypeOK
<1>1. ReadTypeOK'
  BY DEF FlashState, ReadTypeOK, DiskBytes
<1>2. FlashTypeOK'
  BY <1>a, <1>b DEF FlashState, FlashTypeOK, FlashLabels
<1>3. FlashInv'
  BY <1>a DEF FlashInv, WaitsWhileBusy
<1>. QED  BY <1>1, <1>2, <1>3 DEF FlashState

------------------------------------------------------------------------------
(* Every step keeps the invariant, and is a step of ReadSpec or none.      *)
LEMMA StepCorrect ==
  ASSUME DiskInv, [Next]_vars, OnMedium
  PROVE  DiskInv' /\ [ReadNext]_read
<1>1. CASE UNCHANGED vars
  <2>1. DiskInv'
    BY <1>1 DEF DiskInv, vars, i2c, driver, flash, device, read, ReadTypeOK, DiskBytes, I2cTypeOK,
                EepromInv, ChunkInv, CollectInv, Arrived, Base,
                FlashTypeOK, FlashInv, WaitsWhileBusy
  <2>. QED  BY <1>1, <2>1 DEF vars, read
<1>2. CASE Eeprom
  <2>1. boot = "eeprom" /\ UNCHANGED boot /\ I2cNext /\ EepromState
    BY <1>2 DEF Eeprom, DiskInv, EepromState
  <2>2. EepromState' /\ [ReadNext]_read
    BY <2>1, SetupStep, AccessStep, NextChunkStep, IssueReadStep, IssueWriteStep, CollectStep,
       SendAddressStep, ReceiveByteStep, SendDataStep DEF I2cNext, ReadNext
  <2>3. FlashTypeOK' /\ ~wip'
    BY <1>2, <2>1 DEF Eeprom, DiskInv, flash, device, FlashTypeOK
  <2>. QED  BY <2>1, <2>2, <2>3 DEF EepromState, DiskInv
<1>3. CASE Flash
  <2>1. boot = "flash" /\ UNCHANGED boot /\ FlashNext /\ FlashState
    BY <1>3 DEF Flash, DiskInv, FlashState
  <2>2. FlashState' /\ [ReadNext]_read
    BY <2>1, FlashSetupStep, TransactionFailsStep, SingleReadStep, ReadChunkStep, ReadEndsStep,
       SingleFlashStep, WriteEnableStep, NextPageStep, EraseStep, ProgramStep, DoneStep, PollStep
       DEF FlashNext, ReadNext
  <2>3. I2cTypeOK'
    BY <1>3 DEF Flash, DiskInv, i2c, driver, I2cTypeOK
  <2>. QED  BY <2>1, <2>2, <2>3 DEF FlashState, FlashInv, DiskInv
<1>. QED  BY <1>1, <1>2, <1>3 DEF Next

(* The invariant holds in every behaviour whose requests lie on the medium. *)
LEMMA DiskInvariant == OnMedium => (Spec => []DiskInv)
<1>. SUFFICES ASSUME OnMedium
              PROVE  Spec => []DiskInv
  OBVIOUS
<1>1. DiskInv /\ [Next]_vars => DiskInv'
  BY StepCorrect
<1>. QED  BY <1>1, InitialInv, PTL DEF Spec

(* For requests on the medium, both drivers and their devices are type     *)
(* correct.                                                                *)
THEOREM DisksTyped == OnMedium => (Spec => []TypeOK)
<1>. SUFFICES ASSUME OnMedium
              PROVE  Spec => []TypeOK
  OBVIOUS
<1>1. DiskInv => TypeOK
  BY DEF DiskInv, ReadTypeOK, TypeOK
<1>. QED  BY <1>1, DiskInvariant, PTL

(* For requests on the medium, the driver of the flash sends no command    *)
(* but polls while an erase or program goes on, until a flashing fails.    *)
THEOREM FlashPolled == OnMedium => (Spec => []WaitsWhileBusy)
<1>. SUFFICES ASSUME OnMedium
              PROVE  Spec => []WaitsWhileBusy
  OBVIOUS
<1>1. DiskInv => WaitsWhileBusy
  BY DEF DiskInv, ReadTypeOK, FlashInv, WaitsWhileBusy
<1>. QED  BY <1>1, DiskInvariant, PTL

(* For every FIFO of at least seven bytes (the controller has 64) and every *)
(* write: address and data bytes queued while the controller is disabled   *)
(* fit the FIFO.                                                           *)
THEOREM FormatBounded == OnMedium /\ FifoDepth >= 7 => (Spec => []FormatFits)
<1>. SUFFICES ASSUME OnMedium, FifoDepth >= 7
              PROVE  Spec => []FormatFits
  OBVIOUS
<1>1. ASSUME DiskInv
      PROVE  FormatFits
  <2>1. FifoDepth \in Nat /\ chunk.len \in Nat
    BY <1>1, I2cAssumption DEF DiskInv, I2cTypeOK
  <2>2. HalfFill \in Nat /\ HalfFill + 4 <= FifoDepth
    BY <2>1 DEF HalfFill
  <2>3. DataBytes <= HalfFill + 1 /\ DataBytes \in Int
    BY <2>1, <2>2 DEF DataBytes, Smaller
  <2>. QED  BY <2>1, <2>2, <2>3 DEF FormatFits, FormatBytes
<1>2. DiskInv => FormatFits
  BY <1>1
<1>. QED  BY <1>2, DiskInvariant, PTL

(* For requests on the medium, both drivers implement the abstract read:   *)
(* success means the exact bytes unless a flashing before it has failed,   *)
(* and nothing is written beside the buffer.  OnMedium asks for requests   *)
(* that reach to the end of the EEPROM's first chunk; of the requests of   *)
(* the zero-stage loader two do not, and are written beyond.               *)
THEOREM DisksRead == OnMedium => (Spec => ReadSpec)
<1>. SUFFICES ASSUME OnMedium
              PROVE  Spec => ReadSpec
  OBVIOUS
<1>1. Init => ReadInit
  BY DEF Init
<1>2. DiskInv /\ [Next]_vars => [ReadNext]_read
  BY StepCorrect
<1>. QED  BY <1>1, <1>2, DiskInvariant, PTL DEF Spec, ReadSpec
------------------------------------------------------------------------------
(* Flashing: the page that is erased or programmed is one of the job's.    *)
JobInv == fpc \in {"part", "poll"} => p < job.num

LEMMA QuotientFacts ==
  ASSUME NEW n \in Nat, NEW m \in Nat \ {0}, NEW a \in n * m .. (n + 1) * m - 1
  PROVE  a \div m = n
<1>. DEFINE q == a \div m
<1>1. n * m \in Nat /\ a \in Nat
  BY SMTT(20)
<1>2. q \in Nat /\ q * m <= a /\ a < (q + 1) * m
  BY <1>1, SMTT(20)
<1>3. CASE q + 1 <= n
  <2>1. (q + 1) * m <= n * m
    BY <1>2, <1>3, SMTT(20)
  <2>. QED  BY <2>1, <1>1, <1>2
<1>4. CASE n + 1 <= q
  <2>1. (n + 1) * m <= q * m
    BY <1>2, <1>4, SMTT(20)
  <2>. QED  BY <2>1, <1>1, <1>2
<1>5. q = n
  BY <1>2, <1>3, <1>4
<1>. QED  BY <1>5

(* Both sectors of a page, and the page itself, belong to the job.         *)
LEMMA OwnCells ==
  ASSUME FlashTypeOK, p < job.num, NEW a \in PageCells(job.page + p)
  PROVE  InJob(a)
<1>. DEFINE n == job.page + p
<1>1. n \in Nat /\ n \in job.page .. job.page + job.num - 1
  BY DEF FlashTypeOK
<1>2. PageBytes \in Nat \ {0}
  BY FlashAssumption DEF PageBytes
<1>3. a \in n * PageBytes .. (n + 1) * PageBytes - 1
  BY DEF PageCells
<1>4. a \div PageBytes = n
  BY <1>1, <1>2, <1>3, QuotientFacts
<1>. QED  BY <1>1, <1>4 DEF InJob

LEMMA SectorCells ==
  ASSUME FlashTypeOK, part < 2, NEW a \in SectorAddr(part) .. SectorAddr(part) + SectorBytes - 1
  PROVE  a \in PageCells(job.page + p)
<1>. DEFINE n == job.page + p
<1>1. n \in Nat /\ part \in 0 .. 1 /\ SectorBytes \in Nat \ {0}
  BY FlashAssumption DEF FlashTypeOK
<1>2. part * SectorBytes = 0 \/ part * SectorBytes = SectorBytes
  BY <1>1, SMTT(20)
<1>3. n * PageBytes \in Nat /\ (n + 1) * PageBytes = n * PageBytes + 2 * SectorBytes
  BY <1>1, SMTT(20) DEF PageBytes
<1>4. a \in n * PageBytes + part * SectorBytes .. n * PageBytes + part * SectorBytes + SectorBytes - 1
  BY DEF SectorAddr
<1>5. a \in n * PageBytes .. (n + 1) * PageBytes - 1
  BY <1>1, <1>2, <1>3, <1>4
<1>. QED  BY <1>5 DEF PageCells

(* What the device does with an erase or a program, taken or not.          *)
LEMMA TakeOwn ==
  ASSUME FlashTypeOK, JobInv, fpc = "part", Erase \/ Program
  PROVE  \A a \in DOMAIN disk : disk'[a] # disk[a] => InJob(a)
<1>. SUFFICES ASSUME NEW a \in DOMAIN disk, disk'[a] # disk[a]
              PROVE  InJob(a)
  OBVIOUS
<1>a. p < job.num
  BY DEF JobInv
<1>1. CASE Erase
  <2>1. part < 2 /\ a \in SectorAddr(part) .. SectorAddr(part) + SectorBytes - 1
    BY <1>1 DEF Erase, Take
  <2>. QED  BY <1>a, <2>1, SectorCells, OwnCells
<1>2. CASE Program
  <2>1. a \in PageCells(job.page + p)
    BY <1>2 DEF Program, Take
  <2>. QED  BY <1>a, <2>1, OwnCells
<1>. QED  BY <1>1, <1>2

LEMMA JobStep ==
  ASSUME DiskInv, JobInv, [Next]_vars
  PROVE  JobInv' /\ [\A a \in DOMAIN disk : disk'[a] # disk[a] => InJob(a)]_vars
<1>. DEFINE Own == \A a \in DOMAIN disk : disk'[a] # disk[a] => InJob(a)
<1>1. CASE UNCHANGED vars
  BY <1>1 DEF vars, flash, JobInv
<1>2. CASE Eeprom
  <2>1. UNCHANGED <<fpc, p, job>>
    BY <1>2 DEF Eeprom, flash
  <2>2. UNCHANGED disk
    BY <1>2 DEF Eeprom, I2cNext, Setup, Access, NextChunk, IssueRead, IssueWrite, Collect, SendAddress,
                ReceiveByte, SendData, FinishByte, read
  <2>. QED  BY <2>1, <2>2 DEF JobInv
<1>3. CASE Flash
  <2>. USE DEF Goto, Abort, Finish
  <2>1. FlashTypeOK /\ FlashNext
    BY <1>3 DEF Flash, DiskInv
  <2>2. CASE FlashSetup \/ TransactionFails \/ SingleRead \/ ReadChunk \/ ReadEnds
    BY <2>2 DEF FlashSetup, TransactionFails, SingleRead, ReadChunk, ReadEnds, read, JobInv
  <2>3. CASE SingleFlash \/ WriteEnable \/ Done
    BY <2>3 DEF SingleFlash, WriteEnable, Done, read, JobInv
  <2>4. CASE NextPage
    BY <2>4 DEF NextPage, read, JobInv
  <2>5. CASE Erase \/ Program
    <3>1. fpc = "part" /\ UNCHANGED <<p, job>>
      BY <2>5 DEF Erase, Program
    <3>. QED  BY <3>1, <2>1, <2>5, TakeOwn DEF JobInv
  <2>6. CASE Poll
    <3>1. UNCHANGED <<job, disk>>
      BY <2>6 DEF Poll, read
    <3>2. JobInv'
      BY <2>1, <2>6 DEF Poll, JobInv, FlashTypeOK
    <3>. QED  BY <3>1, <3>2
  <2>. QED  BY <2>1, <2>2, <2>3, <2>4, <2>5, <2>6 DEF FlashNext
<1>. QED  BY <1>1, <1>2, <1>3 DEF Next

(* Whatever is flashed, at whatever sector size and whichever transaction  *)
(* fails, no cell outside the pages of the job changes.                    *)
THEOREM FlashedInside == OnMedium => (Spec => FlashesOwnPages)
<1>. SUFFICES ASSUME OnMedium
              PROVE  Spec => FlashesOwnPages
  OBVIOUS
<1>1. Init => JobInv
  BY DEF Init, FlashInit, JobInv
<1>2. DiskInv /\ JobInv /\ [Next]_vars
      => JobInv' /\ [\A a \in DOMAIN disk : disk'[a] # disk[a] => InJob(a)]_vars
  BY JobStep
<1>. QED  BY <1>1, <1>2, DiskInvariant, PTL DEF Spec, FlashesOwnPages
------------------------------------------------------------------------------
(* Every call comes to an end.  What goes down, in this order: the bytes,  *)
(* or the pages, that are still to be begun; the parts of a chunk or of a  *)
(* page; what controller and device have to do for the part.               *)
Rest(x, y) == IF x < y THEN y - x ELSE 0

ToBegin ==
  IF boot = "eeprom" THEN Rest(next, req.len)
  ELSE IF fpc = "read" THEN Rest(offs, req.len) ELSE Rest(p, job.num)

PartsLeft ==
  IF boot = "flash" THEN IF fpc = "read" THEN 0 ELSE 3 - part
  ELSE IF pc = "wait" THEN IF op = "write" THEN chunk.len + 2 ELSE 2
  ELSE IF pc = "collect" THEN 1 ELSE 0

ControllerLeft ==
  IF xfer.stage = "none" THEN 0 ELSE IF xfer.stage = "last" THEN 1
  ELSE xfer.left + (IF xfer.stage = "addr" THEN 3 ELSE 2)

CommandsLeft ==
  [off |-> 0, ready |-> 0, dead |-> 0, read |-> 0, wren |-> 5, page |-> 4, part |-> 3, poll |-> 1]

DeviceLeft ==
  IF boot = "eeprom" THEN ControllerLeft ELSE CommandsLeft[fpc] + (IF wip THEN 1 ELSE 0)

Counted == ToBegin \in Nat /\ PartsLeft \in Nat /\ DeviceLeft \in Nat

Nearer ==
  \/ ToBegin' < ToBegin
  \/ ToBegin' = ToBegin /\ PartsLeft' < PartsLeft
  \/ ToBegin' = ToBegin /\ PartsLeft' = PartsLeft /\ DeviceLeft' < DeviceLeft

(* The waits of the EEPROM's driver: either what it polls for is there, or *)
(* the controller has something to do and room to do it in.                *)
DriverGoes ==
  \/ pc \in {"off", "loop"}
  \/ pc = "wait" /\ Vacant
  \/ pc = "collect" /\ Len(rx) >= chunk.len

ControllerGoes ==
  \/ xfer.stage \in {"addr", "last"}
  \/ xfer.stage = "data" /\ (xfer.op = "write" \/ Len(rx) < FifoDepth)

NobodyWaits == boot = "eeprom" /\ pc # "idle" => DriverGoes \/ ControllerGoes

(* What it takes: a chunk fits the FIFO, all of it is taken out again, and *)
(* the controller does not stop before it has delivered it.                *)
FifoInv ==
  boot = "eeprom" =>
    /\ pc \in {"wait", "collect"} => chunk.len <= FifoDepth
    /\ pc \in {"idle", "loop", "wait"} => rx = <<>>
    /\ pc = "collect" /\ xfer.stage \in {"none", "last"} => Len(rx) >= chunk.len

LEMMA FifoStep ==
  ASSUME DiskInv, FifoInv, [Next]_vars
  PROVE  FifoInv'
<1>1. CASE UNCHANGED vars
  BY <1>1 DEF vars, i2c, driver, FifoInv
<1>2. CASE Flash
  BY <1>2 DEF Flash, FifoInv
<1>3. CASE Eeprom
  <2>. SUFFICES ASSUME boot = "eeprom"
                PROVE  FifoInv'
    BY <1>3 DEF Eeprom
  <2>1. /\ FifoDepth \in Nat \ {0} /\ chunk \in [at : Nat, len : Nat] /\ next \in Nat /\ req \in [addr : Nat, len : Nat]
        /\ rx \in Seq(Int) /\ UNCHANGED boot /\ I2cNext
        /\ xfer \in [stage : {"none", "addr", "data", "last"}, op : {"read", "write"}, addr : Nat, left : Nat]
    BY <1>3, I2cAssumption DEF DiskInv, I2cTypeOK, ReadTypeOK, Eeprom
  <2>2. EepromInv
    BY DEF DiskInv
  <2>. USE DEF FifoInv, driver
  <2>3. CASE Setup
    BY <2>1, <2>3 DEF Setup
  <2>4. CASE Access
    <3>1. req' \in [addr : Nat, len : Nat]
      BY <2>4, DiskReadAssumption DEF Access
    <3>2. HeadLen(req'.addr) <= FifoDepth
      BY <2>1, <3>1, HeadFacts
    <3>. QED  BY <2>1, <2>4, <3>2 DEF Access
  <2>5. CASE NextChunk
    BY <2>1, <2>5 DEF NextChunk, ChunkLen, Smaller
  <2>6. CASE IssueRead
    BY <2>1, <2>6 DEF IssueRead, Start, Vacant
  <2>7. CASE IssueWrite
    BY <2>1, <2>7 DEF IssueWrite, Vacant, HalfFill
  <2>8. CASE Collect
    <3>1. Len(rx) = chunk.len
      BY <2>1, <2>2, <2>8 DEF Collect, EepromInv, CollectInv
    <3>2. rx' = <<>>
      BY <2>1, <2>8, <3>1 DEF Collect
    <3>. QED  BY <2>8, <3>2 DEF Collect
  <2>9. CASE SendAddress
    BY <2>1, <2>2, <2>9 DEF SendAddress, EepromInv, CollectInv, ChunkInv
  <2>10. CASE ReceiveByte
    <3>1. pc = "collect" /\ UNCHANGED <<pc, chunk>> /\ Len(rx') = Len(rx) + 1
      BY <2>1, <2>2, <2>10 DEF ReceiveByte, EepromInv
    <3>2. xfer.left = chunk.len - Len(rx)
      BY <2>2, <2>10, <3>1 DEF ReceiveByte, EepromInv, CollectInv
    <3>3. xfer'.stage \in {"none", "last"} => xfer.left = 1
      BY <2>1, <2>10 DEF ReceiveByte
    <3>. QED  BY <2>1, <3>1, <3>2, <3>3
  <2>11. CASE SendData \/ FinishByte
    BY <2>1, <2>2, <2>11 DEF SendData, FinishByte, NoTransfer, EepromInv, CollectInv
  <2>. QED  BY <2>1, <2>3, <2>4, <2>5, <2>6, <2>7, <2>8, <2>9, <2>10, <2>11 DEF I2cNext
<1>. QED  BY <1>1, <1>2, <1>3 DEF Next

LEMMA SomebodyGoes ==
  ASSUME DiskInv, FifoInv
  PROVE  NobodyWaits
<1>. SUFFICES ASSUME boot = "eeprom", pc # "idle"
              PROVE  DriverGoes \/ ControllerGoes
  BY DEF NobodyWaits
<1>1. /\ pc \in I2cLabels /\ chunk \in [at : Nat, len : Nat] /\ rx \in Seq(Int) /\ FifoDepth \in Nat
      /\ xfer \in [stage : {"none", "addr", "data", "last"}, op : {"read", "write"}, addr : Nat, left : Nat]
  BY I2cAssumption DEF DiskInv, I2cTypeOK
<1>2. EepromInv
  BY DEF DiskInv
<1>3. CASE pc = "collect"
  <2>1. xfer.stage = "data" => Len(rx) < FifoDepth
    BY <1>1, <1>2, <1>3 DEF EepromInv, CollectInv, FifoInv
  <2>2. xfer.stage \in {"none", "last"} => Len(rx) >= chunk.len
    BY <1>3 DEF FifoInv
  <2>. QED  BY <1>1, <1>3, <2>1, <2>2 DEF DriverGoes, ControllerGoes
<1>4. CASE pc = "wait"
  <2>1. rx = <<>> /\ (xfer.stage \in {"none", "last"} \/ xfer.op = "write")
    BY <1>1, <1>2, <1>4 DEF EepromInv, FifoInv
  <2>. QED  BY <1>1, <1>4, <2>1 DEF DriverGoes, ControllerGoes, Vacant
<1>. QED  BY <1>1, <1>3, <1>4 DEF DriverGoes, I2cLabels

LEMMA RestFacts ==
  /\ \A x, y \in Nat : Rest(x, y) \in Nat
  /\ \A x, y \in Nat, z \in Nat \ {0} : x < y => Rest(x + z, y) < Rest(x, y)
BY DEF Rest

LEMMA CountedFacts ==
  ASSUME DiskInv
  PROVE  Counted
<1>1. /\ boot \in {"eeprom", "flash"} /\ req \in [addr : Nat, len : Nat]
      /\ next \in Nat /\ offs \in Nat /\ p \in Nat /\ part \in 0 .. 2
      /\ job \in [page : Nat, num : Nat] /\ chunk \in [at : Nat, len : Nat] /\ fpc \in FlashLabels
      /\ xfer \in [stage : {"none", "addr", "data", "last"}, op : {"read", "write"}, addr : Nat, left : Nat]
  BY DEF DiskInv, ReadTypeOK, I2cTypeOK, FlashTypeOK
<1>2. ToBegin \in Nat
  BY <1>1, RestFacts DEF ToBegin
<1>3. PartsLeft \in Nat
  BY <1>1 DEF PartsLeft
<1>4. ControllerLeft \in Nat
  BY <1>1 DEF ControllerLeft
<1>5. CommandsLeft[fpc] \in Nat
  BY <1>1 DEF CommandsLeft, FlashLabels
<1>. QED  BY <1>2, <1>3, <1>4, <1>5 DEF Counted, DeviceLeft

LEMMA EepromNearer ==
  ASSUME DiskInv, FifoDepth >= 2, Eeprom, ~Returned
  PROVE  Nearer \/ Returned'
<1>1. /\ FifoDepth \in Nat \ {0} /\ chunk \in [at : Nat, len : Nat] /\ next \in Nat /\ req \in [addr : Nat, len : Nat]
      /\ boot = "eeprom" /\ UNCHANGED boot /\ I2cNext /\ EepromInv
      /\ xfer \in [stage : {"none", "addr", "data", "last"}, op : {"read", "write"}, addr : Nat, left : Nat]
      /\ op \in {"read", "write"}
  BY I2cAssumption DEF DiskInv, I2cTypeOK, ReadTypeOK, Eeprom
<1>2. pc # "idle" /\ (pc' = "idle" => Returned')
  BY <1>1 DEF Returned
<1>3. /\ ToBegin = Rest(next, req.len) /\ ToBegin' = Rest(next', req'.len)
      /\ PartsLeft = IF pc = "wait" THEN IF op = "write" THEN chunk.len + 2 ELSE 2
                     ELSE IF pc = "collect" THEN 1 ELSE 0
      /\ PartsLeft' = IF pc' = "wait" THEN IF op' = "write" THEN chunk'.len + 2 ELSE 2
                      ELSE IF pc' = "collect" THEN 1 ELSE 0
  BY <1>1 DEF ToBegin, PartsLeft
<1>4. CASE Setup \/ Access
  BY <1>2, <1>4 DEF Setup, Access
<1>5. CASE NextChunk
  <2>1. UNCHANGED req
    BY <1>5 DEF NextChunk
  <2>2. CASE next < req.len
    <3>1. next' = next + FifoDepth
      BY <1>5, <2>2 DEF NextChunk
    <3>. QED  BY <1>1, <1>3, <2>1, <2>2, <3>1, RestFacts DEF Nearer
  <2>3. CASE ~(next < req.len)
    BY <1>2, <1>5, <2>3 DEF NextChunk
  <2>. QED  BY <2>2, <2>3
<1>6. CASE IssueRead
  <2>1. UNCHANGED <<next, req, op>> /\ pc = "wait" /\ pc' = "collect" /\ op = "read"
    BY <1>6 DEF IssueRead, read
  <2>. QED  BY <1>3, <2>1 DEF Nearer
<1>7. CASE IssueWrite
  <2>1. /\ UNCHANGED <<next, req, op>> /\ pc = "wait" /\ op = "write"
        /\ \/ pc' = "wait" /\ chunk.len > HalfFill /\ chunk'.len = chunk.len - HalfFill
           \/ pc' = "loop"
    BY <1>7 DEF IssueWrite, read
  <2>2. HalfFill \in Nat /\ HalfFill >= 1
    BY <1>1 DEF HalfFill
  <2>3. PartsLeft' < PartsLeft
    BY <1>1, <1>3, <2>1, <2>2
  <2>. QED  BY <1>3, <2>1, <2>3 DEF Nearer
<1>8. CASE Collect
  <2>1. UNCHANGED <<next, req>> /\ pc = "collect" /\ pc' = "loop"
    BY <1>8 DEF Collect
  <2>. QED  BY <1>3, <2>1 DEF Nearer
<1>9. CASE SendAddress \/ ReceiveByte \/ SendData \/ FinishByte
  <2>1. UNCHANGED <<next, req, op, pc, chunk>>
    BY <1>9 DEF SendAddress, ReceiveByte, SendData, FinishByte, driver, read
  <2>2. \/ xfer.stage = "addr" /\ xfer'.stage \in {"none", "data"} /\ xfer'.left = xfer.left
        \/ xfer.stage = "data" /\ xfer'.stage \in {"last", "data"} /\ xfer'.left = xfer.left - 1
        \/ xfer.stage = "data" /\ xfer'.stage = "last"
        \/ xfer.stage = "last" /\ xfer'.stage = "none"
    <3>1. CASE SendAddress
      BY <1>1, <3>1 DEF SendAddress
    <3>2. CASE ReceiveByte
      BY <1>1, <3>2 DEF ReceiveByte
    <3>3. CASE SendData
      BY <1>1, <3>3 DEF SendData
    <3>4. CASE FinishByte
      BY <1>1, <3>4 DEF FinishByte, NoTransfer
    <3>. QED  BY <1>9, <3>1, <3>2, <3>3, <3>4
  <2>3. ControllerLeft' < ControllerLeft
    BY <1>1, <2>2 DEF ControllerLeft
  <2>4. DeviceLeft' < DeviceLeft
    BY <1>1, <2>3 DEF DeviceLeft
  <2>. QED  BY <1>3, <2>1, <2>4 DEF Nearer
<1>. QED  BY <1>1, <1>4, <1>5, <1>6, <1>7, <1>8, <1>9 DEF I2cNext

LEMMA FlashNearer ==
  ASSUME DiskInv, JobInv, Flash, ~Returned
  PROVE  Nearer \/ Returned'
<1>1. /\ boot = "flash" /\ UNCHANGED boot /\ FlashNext
      /\ RxBytes \in Nat \ {0} /\ req \in [addr : Nat, len : Nat] /\ offs \in Nat /\ p \in Nat
      /\ part \in 0 .. 2 /\ job \in [page : Nat, num : Nat] /\ fpc \in FlashLabels
      /\ wip \in BOOLEAN
  BY FlashAssumption DEF DiskInv, FlashTypeOK, ReadTypeOK, Flash
<1>2. fpc \notin {"ready", "dead"} /\ (fpc' \in {"ready", "dead"} => Returned')
  BY <1>1 DEF Returned
<1>3. /\ ToBegin = IF fpc = "read" THEN Rest(offs, req.len) ELSE Rest(p, job.num)
      /\ ToBegin' = IF fpc' = "read" THEN Rest(offs', req'.len) ELSE Rest(p', job'.num)
      /\ PartsLeft = IF fpc = "read" THEN 0 ELSE 3 - part
      /\ PartsLeft' = IF fpc' = "read" THEN 0 ELSE 3 - part'
      /\ DeviceLeft = CommandsLeft[fpc] + (IF wip THEN 1 ELSE 0)
      /\ DeviceLeft' = CommandsLeft[fpc'] + (IF wip' THEN 1 ELSE 0)
  BY <1>1 DEF ToBegin, PartsLeft, DeviceLeft, CommandsLeft
<1>. USE DEF Goto, Abort, Finish
<1>4. CASE FlashSetup \/ TransactionFails \/ SingleRead \/ SingleFlash \/ ReadEnds
  BY <1>2, <1>4 DEF FlashSetup, TransactionFails, SingleRead, SingleFlash, ReadEnds
<1>5. CASE ReadChunk
  <2>1. fpc = "read" /\ UNCHANGED <<fpc, req>> /\ offs' = offs + RxBytes /\ offs < req.len
    BY <1>5 DEF ReadChunk
  <2>. QED  BY <1>1, <1>3, <2>1, RestFacts DEF Nearer
<1>6. CASE WriteEnable
  <2>1. fpc = "wren" /\ fpc' = "page" /\ UNCHANGED <<p, part, job, wip>>
    BY <1>6 DEF WriteEnable
  <2>. QED  BY <1>1, <1>3, <2>1 DEF Nearer, CommandsLeft
<1>7. CASE NextPage
  <2>1. fpc = "page" /\ (fpc' = "part" \/ fpc' = "ready") /\ UNCHANGED <<p, part, job, wip>>
    BY <1>7 DEF NextPage, device
  <2>. QED  BY <1>1, <1>2, <1>3, <2>1 DEF Nearer, CommandsLeft
<1>8. CASE Erase \/ Program
  <2>1. fpc = "part" /\ fpc' = "poll" /\ UNCHANGED <<p, part, job>>
    BY <1>1, <1>8 DEF Erase, Program
  <2>. QED  BY <1>3, <2>1 DEF Nearer, CommandsLeft
<1>9. CASE Done
  <2>1. wip /\ ~wip' /\ UNCHANGED <<fpc, offs, req, p, part, job>>
    BY <1>9 DEF Done, read
  <2>2. CommandsLeft[fpc] \in Nat
    BY <1>1 DEF CommandsLeft, FlashLabels
  <2>. QED  BY <1>3, <2>1, <2>2 DEF Nearer
<1>10. CASE Poll
  <2>1. /\ UNCHANGED job /\ fpc = "poll"
        /\ \/ fpc' = "ready"
           \/ fpc' = "page" /\ p' = p + 1 /\ part = 2
           \/ fpc' = "part" /\ p' = p /\ part < 2 /\ part' = part + 1
    BY <1>1, <1>10 DEF Poll
  <2>2. p < job.num
    BY <2>1 DEF JobInv
  <2>3. CASE fpc' = "page"
    BY <1>1, <1>3, <2>1, <2>2, <2>3, RestFacts DEF Nearer
  <2>4. CASE fpc' = "part"
    BY <1>1, <1>3, <2>1, <2>4 DEF Nearer
  <2>. QED  BY <1>2, <2>1, <2>3, <2>4
<1>. QED  BY <1>1, <1>4, <1>5, <1>6, <1>7, <1>8, <1>9, <1>10 DEF FlashNext

(* The waits of both drivers have no limit, and still every call of theirs *)
(* comes to an end, as far as the controller and the device go on: each    *)
(* step brings it nearer, by a measure that cannot fall for ever, and the  *)
(* EEPROM's driver never waits for a controller that has nothing to do or, *)
(* with a full FIFO, cannot do it.  With a FIFO of one byte half of it is  *)
(* none, and a write would go on without end.                              *)
THEOREM CallsBounded ==
  OnMedium /\ FifoDepth >= 2 =>
    (Spec => [](Counted /\ NobodyWaits) /\ [][~Returned => Nearer \/ Returned']_vars)
<1>. SUFFICES ASSUME OnMedium, FifoDepth >= 2
              PROVE  Spec => [](Counted /\ NobodyWaits) /\ [][~Returned => Nearer \/ Returned']_vars
  OBVIOUS
<1>1. Init => JobInv /\ FifoInv
  BY DEF Init, FlashInit, I2cInit, JobInv, FifoInv
<1>2. DiskInv /\ JobInv /\ [Next]_vars => JobInv'
  BY JobStep
<1>3. DiskInv /\ FifoInv /\ [Next]_vars => FifoInv'
  BY FifoStep
<1>4. DiskInv /\ FifoInv => Counted /\ NobodyWaits
  BY CountedFacts, SomebodyGoes
<1>5. DiskInv /\ JobInv /\ [Next]_vars => [~Returned => Nearer \/ Returned']_vars
  BY EepromNearer, FlashNearer DEF Next
<1>. QED  BY <1>1, <1>2, <1>3, <1>4, <1>5, DiskInvariant, PTL DEF Spec
==============================================================================
