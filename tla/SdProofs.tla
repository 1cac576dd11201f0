------------------------------ MODULE SdProofs -------------------------------
(***************************************************************************)
(* Proofs about SdCard, for every size of the block and of the receive     *)
(* FIFO, every timeout, every request and every answer of the card.        *)
(***************************************************************************)
EXTENDS SdCard, Quotients

Transfers == {"READ", "CMD12"}
CardStates == [kind : Cards, state : {"off", "idle", "ready"}, sending : BOOLEAN, many : BOOLEAN, at : Nat]

(* Which command is being executed where, and what that says of the rest.  *)
DriverInv ==
  /\ pc = "done" <=> rc # "none"
  /\ pc = "start" => cmd.name = "none"
  /\ pc \in {"send", "poll"} => cmd.name # "none"
  /\ pc = "busy" => cmd.name = "CMD12"
  /\ pc = "rest" => cmd.name \in {"CMD8", "CMD58"}
  /\ pc = "release" => cmd.name \in Commands \ {"READ"}
  /\ pc \in {"check", "speed_up", "up"} => cmd.name \in Commands \ Transfers /\ cs = "free"
  /\ pc \in {"token", "block", "crc", "detach"} => cmd.name = "READ"
  /\ pc \in {"poll", "busy", "token"} => timeout >= 1
  /\ rc = "ok" => cs = "free"

(* The blocks of the request: those that have been read come before b.     *)
BlockInv ==
  /\ IF cmd.name \in Transfers
       THEN req.len >= 1 /\ b <= LenBlocks
       ELSE b = 0 /\ before = "none" /\ ~card.sending
  /\ cmd.name = "READ" /\ pc \in {"send", "poll"} => b = 0 /\ offs = 0
  /\ pc \in {"token", "block", "crc"} => b < LenBlocks
  /\ pc \in {"token", "crc"} => offs = 0
  /\ pc = "detach" => b = LenBlocks

(* The card follows the driver, if it was listening when the read began.   *)
CardInv ==
  Listening =>
    /\ cmd.name = "READ" /\ pc = "send" => ~card.sending
    /\ cmd.name = "READ" /\ pc \in {"poll", "token", "block", "crc"} =>
         card.at = Block + b /\ card.many = (LenBlocks > 1)
    /\ pc = "detach" => LenBlocks > 1 \/ ~card.sending
    /\ cmd.name = "CMD12" /\ pc \in {"poll", "busy", "release"} => ~card.sending
    /\ rc = "ok" => ~card.sending

\* How far a card that did not listen may be ahead of the request.
Earlier == IF before = "none" THEN 0 ELSE MaxLen + 2 * BlockSize

AtInv ==
  BlockSize * card.at <=
    (IF pc = "done" THEN MaxAddr + MaxLen + 2 * BlockSize ELSE MaxAddr + BlockSize * b) + Earlier

(* What has arrived: whole blocks at their place, and of the block that is *)
(* under way the chunks before offs, in the swap buffer or at their place. *)
HasByte(o) ==
  IF Swapped THEN swap[o] = req.addr + BlockDst + o
             ELSE mem[BlockDst + o] = req.addr + BlockDst + o

Arrived(n) == \A i \in 0 .. req.len - 1 : i < n => mem[i] = req.addr + i

ContentInv ==
  CheckCrc /\ Listening =>
    /\ pc \in {"token", "block", "crc", "detach"} => Arrived(BlockDst)
    /\ pc = "block" /\ clean => \A o \in 0 .. BlockSize - 1 : o < offs => HasByte(o)
    /\ pc = "crc" /\ clean => \A o \in 0 .. BlockSize - 1 : HasByte(o)
    /\ cmd.name = "CMD12" \/ rc = "ok" => Arrived(req.len)

SdInv == TypeOK /\ DriverInv /\ BlockInv /\ CardInv /\ AtInv /\ ContentInv /\ WritesInside

------------------------------------------------------------------------------
LEMMA Parameters ==
  /\ BlockSize \in Nat \ {0} /\ BlockSize \in Int /\ BlockSize >= 1
  /\ FifoBytes \in Nat /\ FifoBytes >= 1
  /\ RespTimeout \in Nat /\ RespTimeout >= 1
  /\ BusyTimeout \in Nat /\ BusyTimeout >= 1
  /\ DataTimeout \in Nat /\ DataTimeout >= 1
BY SdAssumption

LEMMA Timeouts ==
  ASSUME NEW t \in {0, RespTimeout, BusyTimeout, DataTimeout}
  PROVE  /\ Max({RespTimeout, BusyTimeout, DataTimeout}) \in Nat
         /\ t \in 0 .. Max({RespTimeout, BusyTimeout, DataTimeout})
<1>. DEFINE S == {RespTimeout, BusyTimeout, DataTimeout}
<1>1. \E x \in S : \A y \in S : x >= y
  <2>1. CASE RespTimeout >= BusyTimeout /\ RespTimeout >= DataTimeout
    BY <2>1, Parameters
  <2>2. CASE BusyTimeout >= RespTimeout /\ BusyTimeout >= DataTimeout
    BY <2>2, Parameters
  <2>3. CASE DataTimeout >= RespTimeout /\ DataTimeout >= BusyTimeout
    BY <2>3, Parameters
  <2>. QED  BY <2>1, <2>2, <2>3, Parameters
<1>2. Max(S) \in S /\ \A y \in S : Max(S) >= y
  BY <1>1 DEF Max
<1>. QED  BY <1>2, Parameters

LEMMA LeastOfTwo ==
  ASSUME NEW m \in Int, NEW n \in Int
  PROVE  Min({m, n}) = IF m <= n THEN m ELSE n
<1>. DEFINE S == {m, n}
<1>1. \E x \in S : \A y \in S : x =< y
  BY m <= n \/ n <= m
<1>2. Min(S) \in S /\ \A y \in S : Min(S) =< y
  BY <1>1 DEF Min
<1>. QED  BY <1>2

LEMMA StartFacts ==
  ASSUME req.addr \in Nat
  PROVE  Block \in Nat /\ FirstOffs \in 0 .. BlockSize - 1 /\ req.addr = BlockSize * Block + FirstOffs
<1>. DEFINE a == req.addr
<1>1. a \in Nat /\ a \in Int
  OBVIOUS
<1>. HIDE DEF a
<1>2. a \div BlockSize \in Nat
  BY <1>1, Parameters, NaturalQuotient
<1>3. a % BlockSize \in 0 .. BlockSize - 1 /\ a = BlockSize * (a \div BlockSize) + (a % BlockSize)
  BY <1>1, Parameters, DivisionFacts
<1>. QED  BY <1>2, <1>3 DEF a, Block, FirstOffs

(* The request starts FirstOffs bytes into its first block and ends        *)
(* LastLen bytes into its last one.                                        *)
LEMMA RequestFacts ==
  ASSUME req.addr \in Nat, req.len \in Nat, req.len >= 1
  PROVE  /\ Block \in Nat /\ FirstOffs \in 0 .. BlockSize - 1 /\ req.addr = BlockSize * Block + FirstOffs
         /\ LenBlocks \in Nat /\ LenBlocks >= 1 /\ LastLen \in 1 .. BlockSize
         /\ BlockSize * (LenBlocks - 1) \in Int
         /\ req.len + FirstOffs = BlockSize * (LenBlocks - 1) + LastLen
<1>. DEFINE n == req.len + FirstOffs
            k == (n + BlockSize - 1) \div BlockSize
            r == (n + BlockSize - 1) % BlockSize
<1>1. Block \in Nat /\ FirstOffs \in 0 .. BlockSize - 1 /\ req.addr = BlockSize * Block + FirstOffs
  BY StartFacts
<1>. HIDE DEF Block, FirstOffs
<1>2. n \in Nat /\ n >= 1 /\ n + BlockSize - 1 \in Int
  BY <1>1, Parameters
<1>3. LenBlocks = k
  BY DEF LenBlocks
<1>4. k \in Int /\ r \in 0 .. BlockSize - 1 /\ n + BlockSize - 1 = BlockSize * k + r
  BY <1>2, Parameters, DivisionFacts
<1>5. k >= 1
  BY <1>2, Parameters, QuotientBound
<1>. HIDE DEF n, k, r
<1>6. BlockSize * (k - 1) = BlockSize * k - BlockSize /\ BlockSize * (k - 1) \in Int /\ BlockSize * k \in Int
  BY <1>4, Parameters, SMTT(20)
<1>7. n = BlockSize * (k - 1) + r + 1
  BY <1>2, <1>4, <1>6, Parameters
<1>8. req.addr + req.len = BlockSize * (Block + k - 1) + r + 1
  <2>1. BlockSize * (Block + k - 1) = BlockSize * Block + BlockSize * (k - 1) /\ BlockSize * Block \in Int
    BY <1>1, <1>4, Parameters, SMTT(20)
  <2>2. n = req.len + FirstOffs
    BY DEF n
  <2>. QED  BY <1>1, <1>4, <1>6, <1>7, <2>1, <2>2
<1>9. LastLen = r + 1
  <2>1. CASE r + 1 < BlockSize
    <3>1. Block + k - 1 \in Int /\ r + 1 \in 0 .. BlockSize - 1
      BY <1>1, <1>4, <2>1, Parameters
    <3>2. (BlockSize * (Block + k - 1) + (r + 1)) % BlockSize = r + 1
      BY <3>1, Parameters, QuotientUnique
    <3>3. BlockSize * (Block + k - 1) + r + 1 = BlockSize * (Block + k - 1) + (r + 1)
      BY <1>4, <3>1, Parameters, SMTT(20)
    <3>4. PteOffs = r + 1
      BY <1>8, <3>2, <3>3 DEF PteOffs
    <3>. QED  BY <1>4, <3>4, Parameters DEF LastLen
  <2>2. CASE r + 1 = BlockSize
    <3>1. Block + k \in Int /\ 0 \in 0 .. BlockSize - 1
      BY <1>1, <1>4, Parameters
    <3>2. (BlockSize * (Block + k) + 0) % BlockSize = 0
      BY <3>1, Parameters, QuotientUnique
    <3>3. BlockSize * (Block + k - 1) + r + 1 = BlockSize * (Block + k) + 0
      <4>1. \A q \in Int : BlockSize * (q - 1) = BlockSize * q - BlockSize /\ BlockSize * q \in Int
        BY Parameters, SMTT(20)
      <4>. DEFINE q == Block + k
      <4>2. q \in Int /\ q - 1 = Block + k - 1
        BY <1>1, <1>4
      <4>3. BlockSize * (q - 1) = BlockSize * q - BlockSize /\ BlockSize * q \in Int
        BY <4>1, <4>2
      <4>4. BlockSize * (Block + k - 1) = BlockSize * q - BlockSize
        BY <4>2, <4>3
      <4>5. BlockSize * (Block + k) = BlockSize * q
        OBVIOUS
      <4>. HIDE DEF q
      <4>. QED  BY <1>4, <2>2, <4>3, <4>4, <4>5, Parameters
    <3>4. PteOffs = 0
      BY <1>8, <3>2, <3>3 DEF PteOffs
    <3>. QED  BY <2>2, <3>4 DEF LastLen
  <2>. QED  BY <1>4, <2>1, <2>2, Parameters
<1>. QED  BY <1>1, <1>3, <1>4, <1>5, <1>6, <1>7, <1>9, Parameters DEF n

\* Whatever is asked for; a lemma about values, to be used before and after a step.
LEMMA BlocksNatural ==
  ASSUME NEW addr \in Nat, NEW len \in Nat
  PROVE  (len + (addr % BlockSize) + BlockSize - 1) \div BlockSize \in Nat
<1>. DEFINE a == len + (addr % BlockSize) + BlockSize - 1
<1>1. addr % BlockSize \in 0 .. BlockSize - 1
  BY Parameters, DivisionFacts
<1>2. a \in Nat
  BY <1>1, Parameters
<1>. HIDE DEF a
<1>3. a \div BlockSize \in Nat
  BY <1>2, Parameters, NaturalQuotient
<1>. QED  BY <1>3 DEF a

LEMMA NoRequest ==
  ASSUME req.addr \in Nat, req.len \in Nat
  PROVE  LenBlocks \in Nat /\ Block \in Nat
<1>1. Block \in Nat
  BY StartFacts
<1>2. LenBlocks \in Nat
  BY BlocksNatural DEF LenBlocks, FirstOffs
<1>. QED  BY <1>1, <1>2

(* The bytes of block b lie from BlockDst on, counted from the start of    *)
(* the caller's buffer; a block that is not swapped lies inside, and so do *)
(* the relevant bytes of one that is.                                      *)
LEMMA BlockFacts ==
  ASSUME req.addr \in Nat, req.len \in Nat, req.len >= 1, b \in Nat, b < LenBlocks
  PROVE  /\ BlockDst \in Int /\ BlockSize * b \in Nat /\ BlockDst = BlockSize * b - FirstOffs
         /\ BlockSize * b + 1 <= req.len + FirstOffs
         /\ ~Swapped => BlockDst >= 0 /\ BlockDst + BlockSize <= req.len
         /\ \A o \in Relevant : o \in 0 .. BlockSize - 1 /\ BlockDst + o \in 0 .. req.len - 1
         /\ \A o \in 0 .. BlockSize - 1 : BlockDst + o \in 0 .. req.len - 1 => o \in Relevant
<1>. DEFINE z == BlockSize * (LenBlocks - 1)
            p == BlockSize * b
<1>1. /\ FirstOffs \in 0 .. BlockSize - 1 /\ LastLen \in 1 .. BlockSize /\ z \in Int
      /\ LenBlocks \in Nat /\ req.len + FirstOffs = z + LastLen
  BY RequestFacts
<1>2. p \in Int /\ (b <= LenBlocks - 1 => p <= z) /\ (b < LenBlocks - 1 => p + BlockSize <= z)
  BY <1>1, Parameters, ProductFacts
<1>3. (b = LenBlocks - 1 => p = z) /\ (b = 0 => p = 0) /\ p >= 0 /\ (b >= 1 => p >= BlockSize)
  BY Parameters, SMTT(20)
<1>4. BlockDst = p - FirstOffs
  BY DEF BlockDst
<1>. HIDE DEF p, z, BlockDst, FirstOffs, LastLen, LenBlocks
<1>5. /\ ~FirstBlock => BlockDst >= 0
      /\ FirstBlock => BlockDst = 0 - FirstOffs
  <2>1. CASE FirstBlock
    BY <1>1, <1>2, <1>3, <1>4, <2>1 DEF FirstBlock
  <2>2. CASE b >= 1
    BY <1>1, <1>2, <1>3, <1>4, <2>2, Parameters DEF FirstBlock
  <2>3. CASE b = 0 /\ FirstOffs = 0
    BY <1>1, <1>2, <1>3, <1>4, <2>3 DEF FirstBlock
  <2>4. b = 0 \/ b >= 1
    OBVIOUS
  <2>. QED  BY <2>1, <2>2, <2>3, <2>4 DEF FirstBlock
<1>6. /\ ~LastBlock => BlockDst + BlockSize <= req.len
      /\ LastBlock => BlockDst + LastLen = req.len
      /\ BlockDst <= req.len - 1
  BY <1>1, <1>2, <1>3, <1>4, Parameters DEF LastBlock
<1>. HIDE DEF FirstBlock, LastBlock
<1>7. BlockDst \in Int /\ p \in Nat /\ p + 1 <= req.len + FirstOffs
  BY <1>1, <1>2, <1>3, <1>4, <1>6
<1>8. ~Swapped => BlockDst >= 0 /\ BlockDst + BlockSize <= req.len
  BY <1>5, <1>6 DEF Swapped
<1>9. ASSUME NEW o \in Relevant  PROVE o \in 0 .. BlockSize - 1 /\ BlockDst + o \in 0 .. req.len - 1
  BY <1>1, <1>5, <1>6, <1>7, <1>9, Parameters DEF Relevant
<1>10. ASSUME NEW o \in 0 .. BlockSize - 1, BlockDst + o \in 0 .. req.len - 1  PROVE o \in Relevant
  BY <1>1, <1>5, <1>6, <1>7, <1>10, Parameters DEF Relevant
<1>. QED  BY <1>4, <1>7, <1>8, <1>9, <1>10 DEF p

\* After the last block nothing of the request is left.
LEMMA LastFacts ==
  ASSUME req.addr \in Nat, req.len \in Nat, req.len >= 1, b = LenBlocks
  PROVE  BlockDst \in Int /\ BlockDst >= req.len /\ BlockSize * b <= req.len + 2 * BlockSize
<1>. DEFINE z == BlockSize * (LenBlocks - 1)
<1>1. /\ FirstOffs \in 0 .. BlockSize - 1 /\ LastLen \in 1 .. BlockSize /\ z \in Int
      /\ LenBlocks \in Nat /\ req.len + FirstOffs = z + LastLen
  BY RequestFacts
<1>2. BlockSize * LenBlocks = z + BlockSize
  BY <1>1, Parameters, SMTT(20)
<1>. HIDE DEF z
<1>. QED  BY <1>1, <1>2, Parameters DEF BlockDst

\* Rewriting: in the course of a read the request stays.
LEMMA SameRequest ==
  ASSUME req' = req
  PROVE  /\ Block' = Block /\ FirstOffs' = FirstOffs /\ LenBlocks' = LenBlocks /\ LastLen' = LastLen
         /\ b' = b => /\ BlockDst' = BlockDst /\ FirstBlock' = FirstBlock /\ LastBlock' = LastBlock
                      /\ Swapped' = Swapped
BY DEF Block, FirstOffs, LenBlocks, LastLen, PteOffs, BlockDst, FirstBlock, LastBlock, Swapped

LEMMA CardRecord ==
  ASSUME NEW kinds, NEW c \in [kind : kinds, state : {"off"}, sending : {FALSE}, many : {FALSE}, at : {0}],
         kinds \subseteq Cards
  PROVE  c \in CardStates
<1>1. /\ c.kind \in Cards /\ c.state = "off" /\ c.sending = FALSE /\ c.many = FALSE /\ c.at = 0
      /\ c = [kind |-> c.kind, state |-> "off", sending |-> FALSE, many |-> FALSE, at |-> 0]
  OBVIOUS
<1>2. c = [kind |-> c.kind, state |-> "off", sending |-> FALSE, many |-> FALSE, at |-> 0]
  BY <1>1
<1>3. FALSE \in BOOLEAN /\ "off" \in {"off", "idle", "ready"} /\ 0 \in Nat /\ c.kind \in Cards
  BY <1>1
<1>. QED  BY <1>2, <1>3, Zenon DEF CardStates

LEMMA InitialInv == Init => SdInv
<1>. SUFFICES ASSUME Init PROVE SdInv
  OBVIOUS
<1>1. 0 \in 0 .. Max({RespTimeout, BusyTimeout, DataTimeout}) /\ 0 \in 0 .. BlockSize - 1
  BY Timeouts, Parameters
<1>2. TypeOK
  <2>1. cmd \in [name : Commands \cup {"none"}, r1 : R1, echo : BOOLEAN]
    BY DEF Init, Commands, R1, NoCommand
  <2>2. card \in CardStates
    BY CardRecord DEF Init
  <2>3. req \in [addr : Addrs \cup {0}, len : Lens \cup {0}]
    BY DEF Init
  <2>4. mem \in [Around -> Bytes] /\ swap \in [0 .. BlockSize - 1 -> Bytes]
    BY DEF Init, Bytes
  <2>. QED  BY <1>1, <2>1, <2>2, <2>3, <2>4 DEF Init, TypeOK, Labels, Codes, CardStates
<1>3. AtInv
  <2>1. BlockSize * 0 = 0
    BY Parameters, SMTT(20)
  <2>2. card.at = 0 /\ b = 0 /\ Earlier = 0 /\ pc # "done"
    BY DEF Init, Earlier
  <2>. QED  BY <2>1, <2>2, BoundedAssumption DEF AtInv
<1>4. DriverInv /\ BlockInv /\ CardInv /\ ContentInv
  BY DEF Init, DriverInv, BlockInv, CardInv, ContentInv, NoCommand, Transfers
<1>5. WritesInside
  BY DEF Init, WritesInside
<1>. QED  BY <1>2, <1>3, <1>4, <1>5 DEF SdInv

------------------------------------------------------------------------------
\* What the steps do to the type of the state.
LEMMA RequestType ==
  ASSUME TypeOK
  PROVE  /\ req.addr \in Nat /\ req.len \in Nat /\ req.addr <= MaxAddr /\ req.len <= MaxLen
         /\ MaxAddr \in Nat /\ MaxLen \in Nat
         /\ b \in Nat /\ offs \in Nat /\ offs < BlockSize /\ card.at \in Nat
<1>1. req.addr \in Addrs \cup {0} /\ req.len \in Lens \cup {0}
  BY DEF TypeOK
<1>2. MaxAddr \in Nat /\ MaxLen \in Nat
  BY BoundedAssumption
<1>3. req.addr \in Nat /\ req.addr <= MaxAddr
  <2>1. CASE req.addr = 0
    BY <1>2, <2>1
  <2>2. CASE req.addr \in Addrs
    <3>1. req.addr \in Nat
      BY <2>2, SdAssumption
    <3>2. req.addr <= MaxAddr
      BY <2>2, BoundedAssumption
    <3>. QED  BY <3>1, <3>2
  <2>. QED  BY <1>1, <2>1, <2>2
<1>4. req.len \in Nat /\ req.len <= MaxLen
  <2>1. CASE req.len = 0
    BY <1>2, <2>1
  <2>2. CASE req.len \in Lens
    <3>1. req.len \in Nat
      BY <2>2, SdAssumption
    <3>2. req.len <= MaxLen
      BY <2>2, BoundedAssumption
    <3>. QED  BY <3>1, <3>2
  <2>. QED  BY <1>1, <2>1, <2>2
<1>5. b \in Nat /\ offs \in Nat /\ offs < BlockSize
  BY Parameters DEF TypeOK
<1>6. card.at \in Nat
  BY DEF TypeOK
<1>. QED  BY <1>2, <1>3, <1>4, <1>5, <1>6

LEMMA ChunkFacts ==
  ASSUME offs \in Nat, offs < BlockSize
  PROVE  /\ Chunk \in Nat /\ Chunk >= 1 /\ offs + Chunk <= BlockSize
         /\ offs + FifoBytes < BlockSize => Chunk = FifoBytes
         /\ ~(offs + FifoBytes < BlockSize) => Chunk = BlockSize - offs
BY Parameters, LeastOfTwo DEF Chunk

LEMMA BytesOfCard ==
  ASSUME TypeOK, DriverInv, BlockInv, AtInv, pc = "block", NEW o \in 0 .. BlockSize - 1
  PROVE  OnCard(o) \in Bytes
<1>1. /\ req.addr \in Nat /\ req.len \in Nat /\ req.len <= MaxLen /\ MaxAddr \in Nat /\ MaxLen \in Nat
      /\ b \in Nat /\ card.at \in Nat
  BY RequestType
<1>2. req.len >= 1 /\ b < LenBlocks
  BY DEF DriverInv, BlockInv, Transfers
<1>3. BlockSize * b + 1 <= req.len + FirstOffs /\ BlockSize * b \in Nat /\ FirstOffs \in 0 .. BlockSize - 1
  BY <1>1, <1>2, BlockFacts, StartFacts
<1>. DEFINE p == BlockSize * card.at
            q == BlockSize * b
<1>4. p \in Nat /\ card.at * BlockSize = p
  BY <1>1, Parameters, SMTT(20)
<1>5. Earlier \in Nat /\ Earlier <= MaxLen + 2 * BlockSize
  BY <1>1, Parameters DEF Earlier
<1>6. p <= MaxAddr + q + Earlier
  BY DEF AtInv
<1>7. q \in Nat /\ q + 1 <= req.len + FirstOffs
  BY <1>3
<1>. HIDE DEF p, q
<1>8. p + o \in 0 .. MaxAddr + 2 * (MaxLen + 2 * BlockSize)
  BY <1>1, <1>3, <1>4, <1>5, <1>6, <1>7, Parameters
<1>. QED  BY <1>4, <1>8 DEF OnCard, Bytes

LEMMA TypeStep ==
  ASSUME SdInv, Next
  PROVE  TypeOK'
<1>. USE DEF SdInv
<1>1. /\ cmd \in [name : Commands \cup {"none"}, r1 : R1, echo : BOOLEAN]
      /\ card \in CardStates
      /\ req \in [addr : Addrs \cup {0}, len : Lens \cup {0}]
      /\ mem \in [Around -> Bytes] /\ swap \in [0 .. BlockSize - 1 -> Bytes]
      /\ pc \in Labels /\ timeout \in 0 .. Max({RespTimeout, BusyTimeout, DataTimeout})
      /\ cs \in {"free", "held"} /\ clock \in {"none", "init", "full"} /\ mask \in {"low_byte", "all_bytes"}
      /\ b \in Nat /\ offs \in 0 .. BlockSize - 1 /\ clean \in BOOLEAN
      /\ rc \in Codes /\ before \in Codes
  BY DEF TypeOK, CardStates
<1>. DEFINE M == Max({RespTimeout, BusyTimeout, DataTimeout})
<1>2. M \in Nat /\ \A t \in {0, RespTimeout, BusyTimeout, DataTimeout} : t \in 0 .. M
  BY Timeouts
<1>3. timeout >= 1 => timeout - 1 \in 0 .. M
  <2>1. timeout \in 0 .. M
    BY <1>1
  <2>. HIDE DEF M
  <2>. QED  BY <1>2, <2>1
<1>4. \A name \in Commands : [NoCommand EXCEPT !.name = name] \in [name : Commands \cup {"none"}, r1 : R1, echo : BOOLEAN]
  BY DEF NoCommand, R1
<1>5. ASSUME Configure \/ Release \/ SpeedUp \/ Detach \/ SegmentFails \/ Done
      PROVE  TypeOK'
  BY <1>1, <1>4, <1>5
     DEF Configure, Release, SpeedUp, Detach, SegmentFails, Done, vars, io, copy, Goto, Return, Call,
         TypeOK, Labels, Codes, Commands, CardStates
<1>6. ASSUME SendCommand  PROVE TypeOK'
  <2>1. Block \in Nat
    BY RequestType, StartFacts
  <2>2. card' \in CardStates
    <3>1. \/ card' = card
          \/ card' = [card EXCEPT !.state = "idle"]
          \/ card' = [card EXCEPT !.sending = FALSE]
          \/ card' = [card EXCEPT !.sending = TRUE, !.many = LenBlocks > 1, !.at = Block]
      BY <1>6 DEF SendCommand, Taken
    <3>2. /\ [card EXCEPT !.state = "idle"] \in CardStates
          /\ [card EXCEPT !.sending = FALSE] \in CardStates
      BY <1>1 DEF CardStates
    <3>3. \A many \in BOOLEAN : [card EXCEPT !.sending = TRUE, !.many = many, !.at = Block] \in CardStates
      BY <1>1, <2>1 DEF CardStates
    <3>4. (LenBlocks > 1) \in BOOLEAN
      OBVIOUS
    <3>. QED  BY <1>1, <3>1, <3>2, <3>3, <3>4, Zenon
  <2>. QED  BY <1>1, <1>2, <1>6, <2>2 DEF SendCommand, copy, Goto, TypeOK, Labels, CardStates
<1>7. ASSUME PollResponse  PROVE TypeOK'
  <2>1. PICK r \in Answers \cup {"silent"} :
          /\ cmd' = [cmd EXCEPT !.r1 = r]
          /\ card' = [card EXCEPT !.state = IF cmd.name = "ACMD41" /\ r = "ready" THEN r ELSE @]
          /\ CASE timeout = 1 -> timeout' = 0 /\ Return("0x12")
               [] timeout > 1 /\ r = "silent" -> timeout' = timeout - 1 /\ UNCHANGED <<pc, rc>>
               [] OTHER -> timeout' = AfterTimeout /\ Goto(AfterR1)
    BY <1>7 DEF PollResponse
  <2>2. r \in R1
    BY DEF Answers, R1
  <2>3. cmd' \in [name : Commands \cup {"none"}, r1 : R1, echo : BOOLEAN]
    BY <1>1, <2>1, <2>2
  <2>4. card' \in CardStates
    <3>1. card' = card \/ card' = [card EXCEPT !.state = "ready"]
      BY <1>1, <2>1 DEF CardStates
    <3>2. card' = [card EXCEPT !.state = "ready"] => card' \in CardStates
      BY <1>1 DEF CardStates
    <3>. QED  BY <1>1, <3>1, <3>2
  <2>5. AfterTimeout \in {0, RespTimeout, BusyTimeout, DataTimeout} /\ AfterR1 \in Labels
    BY DEF AfterTimeout, AfterR1, Labels
  <2>6. timeout' \in 0 .. Max({RespTimeout, BusyTimeout, DataTimeout})
    BY <1>2, <1>3, <1>7, <2>1, <2>5, Parameters DEF PollResponse, DriverInv
  <2>7. pc' \in Labels /\ rc' \in Codes
    BY <1>1, <2>1, <2>5 DEF Goto, Return, Labels, Codes
  <2>. QED  BY <1>1, <1>7, <2>3, <2>4, <2>6, <2>7 DEF PollResponse, copy, TypeOK, CardStates
<1>8. ASSUME PollBusy \/ PollToken  PROVE TypeOK'
  <2>1. timeout' = timeout - 1 /\ timeout >= 1
    BY <1>8 DEF PollBusy, PollToken, DriverInv
  <2>2. pc' \in Labels /\ rc' \in Codes
    <3>1. ASSUME PollBusy  PROVE pc' \in Labels /\ rc' \in Codes
      BY <1>1, <3>1 DEF PollBusy, Goto, Return, Labels, Codes
    <3>2. ASSUME PollToken  PROVE pc' \in Labels /\ rc' \in Codes
      <4>1. timeout >= 1 /\ timeout \in Nat
        <5>1. timeout \in 0 .. M
          BY <1>1
        <5>. HIDE DEF M
        <5>. QED  BY <1>2, <3>2, <5>1 DEF PollToken, DriverInv
      <4>2. PICK byte \in {"silent", "token", "other"} :
              CASE timeout = 1 -> Return("0x19")
                [] timeout > 1 /\ byte = "silent" -> UNCHANGED <<pc, rc>>
                [] timeout > 1 /\ byte = "other" -> Return("0x20")
                [] timeout > 1 /\ byte = "token" -> Goto("block")
        BY <3>2 DEF PollToken
      <4>3. Return("0x19") \/ UNCHANGED <<pc, rc>> \/ Return("0x20") \/ Goto("block")
        <5>1. CASE timeout = 1
          BY <4>2, <5>1
        <5>2. CASE timeout > 1 /\ byte = "silent"
          BY <4>1, <4>2, <5>2
        <5>3. CASE timeout > 1 /\ byte = "other"
          BY <4>1, <4>2, <5>3
        <5>4. CASE timeout > 1 /\ byte = "token"
          BY <4>1, <4>2, <5>4
        <5>. QED  BY <4>1, <5>1, <5>2, <5>3, <5>4
      <4>. QED  BY <1>1, <4>3 DEF Goto, Return, Labels, Codes
    <3>. QED  BY <1>8, <3>1, <3>2
  <2>3. clean' \in BOOLEAN
    BY <1>1, <1>8 DEF PollBusy, PollToken, copy
  <2>. QED  BY <1>1, <1>3, <1>8, <2>1, <2>2, <2>3 DEF PollBusy, PollToken, copy, TypeOK, CardStates
<1>9. ASSUME ReadRest  PROVE TypeOK'
  <2>1. cmd' \in [name : Commands \cup {"none"}, r1 : R1, echo : BOOLEAN]
    BY <1>1, <1>9 DEF ReadRest
  <2>. QED  BY <1>1, <1>9, <2>1 DEF ReadRest, copy, Goto, TypeOK, Labels, CardStates
<1>10. ASSUME CheckResponse  PROVE TypeOK'
  <2>1. cmd.name \in Commands
    <3>1. cmd.name \in Commands \cup {"none"}
      BY <1>1
    <3>. QED  BY <1>10, <3>1 DEF CheckResponse, DriverInv
  <2>2. PICK d \in Differs :
          IF Returned(d) # "ok" THEN Return(Returned(d)) /\ UNCHANGED cmd
          ELSE IF cmd.name = "CMD16" THEN Goto("speed_up") /\ UNCHANGED cmd
          ELSE Call(Following)
    BY <1>10 DEF CheckResponse
  <2>3. Returned(d) \in Codes
    BY DEF Returned, Codes
  <2>4. cmd.name \in {"CMD0", "CMD8", "CMD55", "ACMD41", "CMD58", "CMD16"}
    BY <1>10, <2>1 DEF CheckResponse, DriverInv, Transfers, Commands
  <2>5. cmd.name # "CMD16" => Following \in Commands
    BY <2>4 DEF Following, Commands
  <2>6. cmd' \in [name : Commands \cup {"none"}, r1 : R1, echo : BOOLEAN] /\ pc' \in Labels /\ rc' \in Codes
    BY <1>1, <1>4, <2>2, <2>3, <2>5 DEF Goto, Return, Call, Labels
  <2>. QED  BY <1>1, <1>10, <2>6 DEF CheckResponse, copy, TypeOK, CardStates
<1>11. ASSUME NEW lens \in SUBSET Lens, Begin(lens), before' \in Codes  PROVE TypeOK'
  <2>1. req' \in [addr : Addrs \cup {0}, len : Lens \cup {0}]
    BY <1>11 DEF Begin
  <2>2. pc' \in Labels /\ rc' \in Codes /\ cmd' \in [name : Commands \cup {"none"}, r1 : R1, echo : BOOLEAN]
    BY <1>1, <1>4, <1>11 DEF Begin, Labels, Codes, Commands
  <2>3. mem' \in [Around -> Bytes] /\ swap' \in [0 .. BlockSize - 1 -> Bytes]
    BY <1>11 DEF Begin, Bytes
  <2>4. 0 \in 0 .. BlockSize - 1
    BY Parameters
  <2>. QED  BY <1>1, <1>11, <2>1, <2>2, <2>3, <2>4 DEF Begin, TypeOK, CardStates
<1>12. ASSUME Read \/ ReadAgain  PROVE TypeOK'
  BY <1>1, <1>11, <1>12, SdAssumption DEF Read, ReadAgain
<1>13. ASSUME ReadChunk  PROVE TypeOK'
  <2>1. PICK ok \in BOOLEAN :
          /\ clean' = (clean /\ ok)
          /\ swap' = [o \in DOMAIN swap |->
                        IF Swapped /\ o \in offs .. offs + Chunk - 1
                          THEN IF ok THEN OnCard(o) ELSE Bad ELSE swap[o]]
          /\ mem' = [i \in Around |->
                       IF ~Swapped /\ i - BlockDst \in offs .. offs + Chunk - 1
                         THEN IF ok THEN OnCard(i - BlockDst) ELSE Bad ELSE mem[i]]
    BY <1>13 DEF ReadChunk
  <2>2. offs .. offs + Chunk - 1 \subseteq 0 .. BlockSize - 1
    BY RequestType, ChunkFacts, Parameters
  <2>3. \A o \in offs .. offs + Chunk - 1 : OnCard(o) \in Bytes
    BY <1>13, <2>2, BytesOfCard DEF ReadChunk
  <2>4. Bad \in Bytes
    BY DEF Bytes
  <2>5. swap' \in [0 .. BlockSize - 1 -> Bytes]
    BY <1>1, <2>1, <2>3, <2>4, Zenon
  <2>6. mem' \in [Around -> Bytes]
    BY <1>1, <2>1, <2>3, <2>4, Zenon
  <2>7. clean' \in BOOLEAN
    BY <1>1, <2>1
  <2>8. offs' \in 0 .. BlockSize - 1 /\ pc' \in Labels /\ rc' \in Codes
    BY <1>1, <1>13, Parameters DEF ReadChunk, Goto, Labels
  <2>. QED  BY <1>1, <1>13, <2>5, <2>6, <2>7, <2>8 DEF ReadChunk, io, TypeOK, CardStates
<1>14. ASSUME Crc  PROVE TypeOK'
  <2>1. card' \in CardStates
    <3>1. card.many \in BOOLEAN /\ card.at + 1 \in Nat
      BY <1>1 DEF CardStates
    <3>2. card' = [card EXCEPT !.sending = card.many, !.at = card.at + 1]
      BY <1>14 DEF Crc, BlockSent
    <3>. QED  BY <1>1, <3>1, <3>2 DEF CardStates
  <2>2. b' \in Nat /\ pc' \in Labels /\ rc' \in Codes
    BY <1>1, <1>14 DEF Crc, Goto, Return, Labels, Codes
  <2>3. timeout' \in 0 .. Max({RespTimeout, BusyTimeout, DataTimeout})
    BY <1>1, <1>2, <1>14 DEF Crc
  <2>4. pc = "crc" /\ req.len >= 1 /\ b < LenBlocks /\ req.addr \in Nat /\ req.len \in Nat
    BY <1>14, RequestType DEF Crc, DriverInv, BlockInv, Transfers
  <2>5. \A o \in Relevant : o \in 0 .. BlockSize - 1
    BY <1>1, <2>4, BlockFacts
  <2>6. mem' \in [Around -> Bytes]
    <3>1. mem' = mem \/ mem' = [i \in Around |->
                                  IF Swapped /\ i - BlockDst \in Relevant THEN swap[i - BlockDst] ELSE mem[i]]
      BY <1>14 DEF Crc
    <3>. QED  BY <1>1, <2>5, <3>1, Zenon
  <2>. QED  BY <1>1, <1>14, <2>1, <2>2, <2>3, <2>6 DEF Crc, TypeOK, CardStates
<1>. QED  BY <1>5, <1>6, <1>7, <1>8, <1>9, <1>10, <1>12, <1>13, <1>14 DEF Next

------------------------------------------------------------------------------
\* A step of the token loop, one outcome at a time.
LEMMA TokenFacts ==
  ASSUME TypeOK, DriverInv, PollToken
  PROVE  \/ Return("0x19") \/ Return("0x20") \/ Goto("block")
         \/ UNCHANGED <<pc, rc>> /\ timeout' >= 1
<1>1. timeout >= 1 /\ timeout \in Int
  <2>1. timeout \in 0 .. Max({RespTimeout, BusyTimeout, DataTimeout})
    BY DEF TypeOK
  <2>. QED  BY <2>1, Timeouts DEF PollToken, DriverInv
<1>2. PICK byte \in {"silent", "token", "other"} :
        CASE timeout = 1 -> Return("0x19")
          [] timeout > 1 /\ byte = "silent" -> UNCHANGED <<pc, rc>>
          [] timeout > 1 /\ byte = "other" -> Return("0x20")
          [] timeout > 1 /\ byte = "token" -> Goto("block")
  BY DEF PollToken
<1>3. CASE timeout = 1
  BY <1>2, <1>3
<1>4. CASE timeout > 1 /\ byte = "silent"
  BY <1>1, <1>2, <1>4 DEF PollToken
<1>5. CASE timeout > 1 /\ byte = "other"
  BY <1>1, <1>2, <1>5
<1>6. CASE timeout > 1 /\ byte = "token"
  BY <1>1, <1>2, <1>6
<1>. QED  BY <1>1, <1>3, <1>4, <1>5, <1>6

\* A step of the response loop, and of the busy loop.
LEMMA ResponseFacts ==
  ASSUME TypeOK, DriverInv, PollResponse
  PROVE  /\ \/ Return("0x12")
            \/ UNCHANGED <<pc, rc>> /\ timeout' >= 1 /\ timeout' = timeout - 1
            \/ Goto(AfterR1) /\ timeout' = AfterTimeout
         /\ cmd'.name = cmd.name /\ cmd' \in [name : Commands \cup {"none"}, r1 : R1, echo : BOOLEAN]
         /\ card'.sending = card.sending /\ card'.many = card.many /\ card'.at = card.at
<1>1. timeout >= 1 /\ timeout \in Int
  <2>1. timeout \in 0 .. Max({RespTimeout, BusyTimeout, DataTimeout})
    BY DEF TypeOK
  <2>. QED  BY <2>1, Timeouts DEF PollResponse, DriverInv
<1>2. PICK r \in Answers \cup {"silent"} :
        /\ cmd' = [cmd EXCEPT !.r1 = r]
        /\ card' = [card EXCEPT !.state = IF cmd.name = "ACMD41" /\ r = "ready" THEN r ELSE @]
        /\ CASE timeout = 1 -> timeout' = 0 /\ Return("0x12")
             [] timeout > 1 /\ r = "silent" -> timeout' = timeout - 1 /\ UNCHANGED <<pc, rc>>
             [] OTHER -> timeout' = AfterTimeout /\ Goto(AfterR1)
  BY DEF PollResponse
<1>3. r \in R1
  BY DEF Answers, R1
<1>4. cmd'.name = cmd.name /\ cmd' \in [name : Commands \cup {"none"}, r1 : R1, echo : BOOLEAN]
  BY <1>2, <1>3 DEF TypeOK
<1>5. card'.sending = card.sending /\ card'.many = card.many /\ card'.at = card.at
  BY <1>2 DEF TypeOK
<1>6. CASE timeout = 1
  BY <1>2, <1>4, <1>5, <1>6
<1>7. CASE timeout > 1 /\ r = "silent"
  BY <1>1, <1>2, <1>4, <1>5, <1>7
<1>8. CASE timeout > 1 /\ r # "silent"
  BY <1>1, <1>2, <1>4, <1>5, <1>8
<1>. QED  BY <1>1, <1>6, <1>7, <1>8

LEMMA BusyFacts ==
  ASSUME TypeOK, DriverInv, PollBusy
  PROVE  \/ Return("0x13") \/ Goto("release")
         \/ UNCHANGED <<pc, rc>> /\ timeout' >= 1
<1>1. timeout >= 1 /\ timeout \in Int
  <2>1. timeout \in 0 .. Max({RespTimeout, BusyTimeout, DataTimeout})
    BY DEF TypeOK
  <2>. QED  BY <2>1, Timeouts DEF PollBusy, DriverInv
<1>2. PICK busy \in BOOLEAN :
        CASE timeout = 1 -> Return("0x13")
          [] timeout > 1 /\ busy -> UNCHANGED <<pc, rc>>
          [] OTHER -> Goto("release")
  BY DEF PollBusy
<1>3. CASE timeout = 1
  BY <1>2, <1>3
<1>4. CASE timeout > 1 /\ busy
  BY <1>1, <1>2, <1>4 DEF PollBusy
<1>5. CASE timeout > 1 /\ ~busy
  BY <1>1, <1>2, <1>5
<1>. QED  BY <1>1, <1>3, <1>4, <1>5

LEMMA CheckFacts ==
  ASSUME TypeOK, DriverInv, CheckResponse
  PROVE  \/ Return("response") /\ cmd' = cmd
         \/ Goto("speed_up") /\ cmd' = cmd
         \/ \E name \in Commands \ Transfers : Call(name)
<1>1. PICK d \in Differs :
        IF Returned(d) # "ok" THEN Return(Returned(d)) /\ UNCHANGED cmd
        ELSE IF cmd.name = "CMD16" THEN Goto("speed_up") /\ UNCHANGED cmd
        ELSE Call(Following)
  BY DEF CheckResponse
<1>2. cmd.name \in {"CMD0", "CMD8", "CMD55", "ACMD41", "CMD58", "CMD16"}
  BY DEF CheckResponse, DriverInv, Transfers, Commands
<1>3. cmd.name # "CMD16" => Following \in Commands \ Transfers
  BY <1>2 DEF Following, Commands, Transfers
<1>. QED  BY <1>1, <1>3 DEF Returned

LEMMA DriverStep ==
  ASSUME SdInv, Next
  PROVE  DriverInv'
<1>. USE DEF SdInv
<1>1. DriverInv /\ TypeOK /\ TypeOK'
  BY TypeStep
<1>2. \A name \in Commands : Call(name) => pc' = "send" /\ rc' = rc /\ cmd'.name = name
  BY DEF Call, Goto, NoCommand
<1>3. ASSUME Configure \/ SpeedUp \/ SegmentFails \/ Done  PROVE DriverInv'
  BY <1>1, <1>2, <1>3
     DEF DriverInv, Configure, SpeedUp, SegmentFails, Done, vars, io, copy, Goto, Return, Commands, Transfers
<1>4. ASSUME SendCommand  PROVE DriverInv'
  BY <1>1, <1>4, Parameters DEF DriverInv, SendCommand, copy, Goto
<1>5. ASSUME PollResponse  PROVE DriverInv'
  <2>1. cmd.name \in Commands /\ pc = "poll"
    BY <1>1, <1>5 DEF PollResponse, DriverInv, TypeOK
  <2>2. CASE Return("0x12")
    BY <1>1, <1>5, <2>2, ResponseFacts DEF DriverInv, PollResponse, Return
  <2>3. CASE UNCHANGED <<pc, rc>> /\ timeout' >= 1
    BY <1>1, <1>5, <2>3, ResponseFacts DEF DriverInv, PollResponse
  <2>4. CASE Goto(AfterR1) /\ timeout' = AfterTimeout
    BY <1>1, <1>5, <2>1, <2>4, ResponseFacts, Parameters
       DEF DriverInv, PollResponse, Goto, AfterR1, AfterTimeout, Commands
  <2>. QED  BY <1>1, <1>5, <2>2, <2>3, <2>4, ResponseFacts
<1>6. ASSUME PollBusy  PROVE DriverInv'
  BY <1>1, <1>6, BusyFacts DEF DriverInv, PollBusy, Goto, Return, copy, Commands
<1>7. ASSUME ReadRest  PROVE DriverInv'
  <2>1. cmd'.name = cmd.name
    BY <1>1, <1>7 DEF ReadRest, TypeOK
  <2>. QED  BY <1>1, <1>7, <2>1 DEF DriverInv, ReadRest, copy, Goto, Commands
<1>8. ASSUME Release  PROVE DriverInv'
  BY <1>1, <1>8 DEF DriverInv, Release, copy, Goto, Return, Commands, Transfers
<1>9. ASSUME CheckResponse  PROVE DriverInv'
  BY <1>1, <1>2, <1>9, CheckFacts DEF DriverInv, CheckResponse, copy, Goto, Return, Commands
<1>10. ASSUME NEW lens \in SUBSET Lens, Begin(lens), cs = "free" \/ 0 \notin lens  PROVE DriverInv'
  <2>1. [NoCommand EXCEPT !.name = "READ"].name = "READ"
    BY DEF NoCommand
  <2>. QED  BY <1>1, <1>10, <2>1 DEF DriverInv, Begin, Commands
<1>11. ASSUME Read \/ ReadAgain  PROVE DriverInv'
  BY <1>1, <1>10, <1>11, SdAssumption DEF Read, ReadAgain, DriverInv
<1>12. ASSUME PollToken  PROVE DriverInv'
  BY <1>1, <1>12, TokenFacts DEF DriverInv, PollToken, Goto, Return
<1>13. ASSUME ReadChunk  PROVE DriverInv'
  BY <1>1, <1>13 DEF DriverInv, ReadChunk, io, Goto
<1>14. ASSUME Crc  PROVE DriverInv'
  BY <1>1, <1>14, Parameters DEF DriverInv, Crc, Goto, Return
<1>15. ASSUME Detach  PROVE DriverInv'
  BY <1>1, <1>2, <1>15 DEF DriverInv, Detach, Return, copy, Commands
<1>. QED  BY <1>3, <1>4, <1>5, <1>6, <1>7, <1>8, <1>9, <1>11, <1>12, <1>13, <1>14, <1>15 DEF Next

------------------------------------------------------------------------------
LEMMA BlockStep ==
  ASSUME SdInv, Next
  PROVE  BlockInv'
<1>. USE DEF SdInv
<1>1. /\ DriverInv /\ BlockInv /\ TypeOK /\ DriverInv'
      /\ b \in Nat /\ req.len \in Nat /\ req.addr \in Nat /\ LenBlocks \in Nat
  BY DriverStep, RequestType, NoRequest
<1>2. req' = req => LenBlocks' = LenBlocks
  BY SameRequest
<1>. HIDE DEF LenBlocks
<1>3. \A name \in Commands : Call(name) => pc' = "send" /\ rc' = rc /\ cmd'.name = name
  BY DEF Call, Goto, NoCommand
<1>4. ASSUME Configure \/ SpeedUp \/ SegmentFails \/ Done  PROVE BlockInv'
  BY <1>1, <1>2, <1>3, <1>4
     DEF BlockInv, Configure, SpeedUp, SegmentFails, Done, vars, io, copy, Goto, Return, Commands, Transfers, DriverInv
<1>5. ASSUME SendCommand  PROVE BlockInv'
  <2>1. cmd.name \notin Transfers => card'.sending = card.sending
    BY <1>1, <1>5 DEF SendCommand, Taken, Transfers, TypeOK
  <2>. QED  BY <1>1, <1>2, <1>5, <2>1 DEF BlockInv, SendCommand, copy, Goto
<1>6. ASSUME PollResponse  PROVE BlockInv'
  <2>1. cmd'.name = cmd.name /\ card'.sending = card.sending
    BY <1>1, <1>6, ResponseFacts
  <2>2. req' = req /\ b' = b /\ offs' = offs /\ before' = before
    BY <1>6 DEF PollResponse, copy
  <2>3. cmd.name \in Transfers => req.len >= 1 /\ LenBlocks >= 1
    BY <1>1, RequestFacts DEF BlockInv
  <2>4. /\ pc' \in {"send", "poll"} => pc \in {"send", "poll"}
        /\ pc' = "token" => pc = "poll" /\ cmd.name = "READ"
        /\ pc' \notin {"block", "crc", "detach"}
    BY <1>1, <1>6, ResponseFacts DEF PollResponse, Return, Goto, AfterR1
  <2>. QED  BY <1>1, <1>2, <2>1, <2>2, <2>3, <2>4 DEF BlockInv, Transfers
<1>7. ASSUME PollBusy  PROVE BlockInv'
  BY <1>1, <1>2, <1>7, BusyFacts DEF BlockInv, PollBusy, Goto, Return, copy, DriverInv
<1>8. ASSUME ReadRest  PROVE BlockInv'
  <2>1. cmd'.name = cmd.name
    BY <1>1, <1>8 DEF ReadRest, TypeOK
  <2>. QED  BY <1>1, <1>2, <1>8, <2>1 DEF BlockInv, ReadRest, copy, Goto
<1>9. ASSUME Release  PROVE BlockInv'
  BY <1>1, <1>2, <1>9 DEF BlockInv, Release, copy, Goto, Return
<1>10. ASSUME CheckResponse  PROVE BlockInv'
  BY <1>1, <1>2, <1>3, <1>10, CheckFacts DEF BlockInv, CheckResponse, copy, Goto, Return, Transfers, DriverInv
<1>11. ASSUME NEW lens \in SUBSET Lens, Begin(lens), cmd.name \in Transfers => 0 \notin lens,
              before' = before \/ cmd.name \in Transfers
       PROVE  BlockInv'
  <2>1. [NoCommand EXCEPT !.name = "READ"].name = "READ"
    BY DEF NoCommand
  <2>2. b' = 0 /\ offs' = 0 /\ card' = card /\ pc' \in {"send", "done"}
    BY <1>11 DEF Begin
  <2>3. req'.len \in lens /\ req'.addr \in Addrs
    BY <1>11 DEF Begin
  <2>4. req'.len \in Nat /\ req'.addr \in Nat
    BY <2>3, SdAssumption
  <2>5. LenBlocks' \in Nat
    <3>1. (req'.len + (req'.addr % BlockSize) + BlockSize - 1) \div BlockSize \in Nat
      BY <2>4, BlocksNatural
    <3>. QED  BY <3>1 DEF LenBlocks, FirstOffs
  <2>6. CASE req'.len = 0
    <3>1. cmd' = cmd /\ cmd.name \notin Transfers /\ pc' = "done"
      BY <1>11, <2>3, <2>6 DEF Begin
    <3>. QED  BY <1>1, <1>11, <2>2, <2>5, <3>1 DEF BlockInv, Transfers
  <2>7. CASE req'.len # 0
    <3>1. cmd'.name = "READ" /\ pc' = "send"
      BY <1>11, <2>1, <2>7 DEF Begin
    <3>. QED  BY <2>2, <2>4, <2>5, <2>7, <3>1 DEF BlockInv, Transfers
  <2>. QED  BY <2>6, <2>7
<1>12. ASSUME Read \/ ReadAgain  PROVE BlockInv'
  <2>1. CASE Read
    BY <1>1, <1>11, <2>1 DEF Read, DriverInv
  <2>2. CASE ReadAgain
    BY <1>1, <1>11, <2>2, SdAssumption DEF ReadAgain, Transfers
  <2>. QED  BY <1>12, <2>1, <2>2
<1>13. ASSUME PollToken  PROVE BlockInv'
  BY <1>1, <1>2, <1>13, TokenFacts DEF BlockInv, PollToken, Goto, Return, DriverInv, Transfers
<1>14. ASSUME ReadChunk  PROVE BlockInv'
  BY <1>1, <1>2, <1>14 DEF BlockInv, ReadChunk, io, Goto, DriverInv, Transfers
<1>15. ASSUME Crc  PROVE BlockInv'
  BY <1>1, <1>2, <1>15 DEF BlockInv, Crc, Goto, Return, DriverInv, Transfers
<1>16. ASSUME Detach  PROVE BlockInv'
  BY <1>1, <1>2, <1>3, <1>16 DEF BlockInv, Detach, Return, copy, Commands, DriverInv, Transfers
<1>. QED  BY <1>4, <1>5, <1>6, <1>7, <1>8, <1>9, <1>10, <1>12, <1>13, <1>14, <1>15, <1>16 DEF Next

LEMMA CardStep ==
  ASSUME SdInv, Next
  PROVE  CardInv'
<1>. USE DEF SdInv
<1>1. DriverInv /\ BlockInv /\ CardInv /\ TypeOK /\ DriverInv' /\ BlockInv'
  BY DriverStep, BlockStep
<1>2. req' = req => LenBlocks' = LenBlocks /\ Block' = Block
  BY SameRequest
<1>3. /\ card.at \in Nat /\ card.sending \in BOOLEAN /\ card.many \in BOOLEAN
      /\ b \in Nat /\ LenBlocks \in Nat /\ Block \in Nat
  BY RequestType, NoRequest DEF TypeOK
<1>. HIDE DEF LenBlocks, Block
<1>4. \A name \in Commands : Call(name) => pc' = "send" /\ rc' = rc /\ cmd'.name = name
  BY DEF Call, Goto, NoCommand
<1>5. ASSUME cmd.name \notin Transfers, UNCHANGED copy, card'.sending = card.sending, cmd'.name \notin Transfers
      PROVE  CardInv'
  BY <1>1, <1>5 DEF CardInv, Transfers, DriverInv, BlockInv, copy
<1>6. ASSUME Configure \/ ReadRest \/ SpeedUp \/ CheckResponse  PROVE CardInv'
  <2>1. cmd.name \notin Transfers /\ UNCHANGED copy /\ card' = card
    BY <1>1, <1>6 DEF Configure, ReadRest, SpeedUp, CheckResponse, DriverInv, Transfers
  <2>2. cmd'.name \notin Transfers
    <3>1. CASE Configure
      BY <1>4, <2>1, <3>1 DEF Configure, Commands, Transfers
    <3>2. CASE ReadRest
      BY <1>1, <2>1, <3>2 DEF ReadRest, TypeOK
    <3>3. CASE SpeedUp
      BY <2>1, <3>3 DEF SpeedUp
    <3>4. CASE CheckResponse
      BY <1>1, <1>4, <2>1, <3>4, CheckFacts
    <3>. QED  BY <1>6, <3>1, <3>2, <3>3, <3>4
  <2>. QED  BY <1>5, <2>1, <2>2
<1>7. ASSUME SegmentFails \/ Done  PROVE CardInv'
  BY <1>1, <1>2, <1>7 DEF CardInv, SegmentFails, Done, vars, io, copy, Return, Listening, DriverInv
<1>8. ASSUME SendCommand  PROVE CardInv'
  <2>1. pc = "send" /\ pc' = "poll" /\ rc' = rc /\ rc # "ok" /\ cmd' = cmd /\ UNCHANGED copy /\ card' = Taken
    BY <1>1, <1>8 DEF SendCommand, Goto, DriverInv
  <2>2. CASE cmd.name = "READ"
    <3>1. Listening => Taken = [card EXCEPT !.sending = TRUE, !.many = LenBlocks > 1, !.at = Block]
      BY <1>1, <2>1, <2>2 DEF CardInv, Taken
    <3>2. Listening => card'.at = Block /\ card'.many = (LenBlocks > 1)
      BY <1>3, <2>1, <3>1 DEF TypeOK
    <3>3. b = 0
      BY <1>1, <2>1, <2>2 DEF BlockInv
    <3>. QED  BY <1>1, <1>2, <1>3, <2>1, <2>2, <3>2, <3>3 DEF CardInv, Listening, copy, DriverInv
  <2>3. CASE cmd.name = "CMD12"
    <3>1. card'.sending = FALSE
      BY <2>1, <2>3 DEF Taken, TypeOK
    <3>. QED  BY <2>1, <2>3, <3>1 DEF CardInv, copy
  <2>4. CASE cmd.name \notin Transfers
    <3>1. card'.sending = card.sending
      BY <2>1, <2>4 DEF Taken, TypeOK, Transfers
    <3>. QED  BY <1>5, <2>1, <2>4, <3>1
  <2>. QED  BY <2>2, <2>3, <2>4 DEF Transfers
<1>9. ASSUME PollResponse  PROVE CardInv'
  <2>1. /\ cmd'.name = cmd.name /\ card'.sending = card.sending /\ card'.many = card.many /\ card'.at = card.at
        /\ UNCHANGED copy
    BY <1>1, <1>9, ResponseFacts DEF PollResponse
  <2>2. /\ pc = "poll" /\ rc' # "ok"
        /\ pc' \in {"poll", "done", "busy", "rest", "token", "release"}
    BY <1>1, <1>9, ResponseFacts DEF PollResponse, Return, Goto, AfterR1, DriverInv
  <2>. QED  BY <1>1, <1>2, <2>1, <2>2 DEF CardInv, Listening, copy
<1>10. ASSUME PollBusy \/ Release  PROVE CardInv'
  <2>1. cmd' = cmd /\ card' = card /\ UNCHANGED copy /\ cmd.name # "READ"
    BY <1>1, <1>10 DEF PollBusy, Release, DriverInv
  <2>2. pc' \in {"busy", "done", "release", "check"} /\ (rc' = "ok" => pc = "release" /\ cmd.name = "CMD12")
    BY <1>1, <1>10, BusyFacts DEF PollBusy, Release, DriverInv, Return, Goto
  <2>3. cmd.name = "CMD12" => pc \in {"busy", "release"}
    BY <1>1, <1>10 DEF PollBusy, Release
  <2>. QED  BY <1>1, <1>2, <2>1, <2>2, <2>3 DEF CardInv, Listening, copy
<1>11. ASSUME NEW lens \in SUBSET Lens, Begin(lens), Listening' => ~card.sending
       PROVE  CardInv'
  <2>1. card' = card /\ pc' \in {"send", "done"}
    BY <1>11 DEF Begin
  <2>. QED  BY <1>11, <2>1 DEF CardInv
<1>12. ASSUME Read \/ ReadAgain  PROVE CardInv'
  <2>1. CASE Read
    <3>1. ~card.sending
      BY <1>1, <2>1 DEF Read, DriverInv, BlockInv, Transfers
    <3>. QED  BY <1>11, <2>1, <3>1 DEF Read
  <2>2. CASE ReadAgain
    <3>1. before' = rc /\ before = "none" /\ pc = "done"
      BY <2>2 DEF ReadAgain
    <3>2. Listening' => ~card.sending
      BY <1>1, <3>1 DEF Listening, CardInv, DriverInv
    <3>. QED  BY <1>11, <2>2, <3>2, SdAssumption DEF ReadAgain
  <2>. QED  BY <1>12, <2>1, <2>2
<1>13. ASSUME PollToken  PROVE CardInv'
  <2>1. card' = card /\ cmd' = cmd /\ req' = req /\ b' = b /\ before' = before
    BY <1>13 DEF PollToken
  <2>2. pc = "token" /\ rc' # "ok" /\ pc' \in {"token", "block", "done"} /\ cmd.name = "READ"
    BY <1>1, <1>13, TokenFacts DEF PollToken, DriverInv, Goto, Return
  <2>. QED  BY <1>1, <1>2, <2>1, <2>2 DEF CardInv, Listening
<1>14. ASSUME ReadChunk  PROVE CardInv'
  <2>1. card' = card /\ cmd' = cmd /\ req' = req /\ b' = b /\ before' = before
    BY <1>14 DEF ReadChunk, io
  <2>2. pc = "block" /\ rc' # "ok" /\ pc' \in {"block", "crc"} /\ cmd.name = "READ"
    BY <1>1, <1>14 DEF ReadChunk, DriverInv, Goto
  <2>. QED  BY <1>1, <1>2, <2>1, <2>2 DEF CardInv, Listening
<1>15. ASSUME Crc  PROVE CardInv'
  <2>1. cmd' = cmd /\ req' = req /\ before' = before /\ pc = "crc" /\ cmd.name = "READ"
    BY <1>1, <1>15 DEF Crc, DriverInv
  <2>2. card'.sending = card.many /\ card'.many = card.many /\ card'.at = card.at + 1
    BY <1>3, <1>15 DEF Crc, BlockSent, TypeOK
  <2>3. \/ pc' = "done" /\ rc' # "ok"
        \/ pc' \in {"token", "detach"} /\ rc' = rc /\ rc = "none" /\ b' = b + 1
    BY <1>1, <1>15 DEF Crc, Goto, Return, DriverInv
  <2>. QED  BY <1>1, <1>2, <1>3, <2>1, <2>2, <2>3 DEF CardInv, Listening
<1>16. ASSUME Detach  PROVE CardInv'
  <2>1. card' = card /\ UNCHANGED copy /\ pc = "detach"
    BY <1>16 DEF Detach
  <2>2. CASE LenBlocks > 1
    BY <1>1, <1>4, <1>16, <2>1, <2>2 DEF Detach, CardInv, Commands, DriverInv
  <2>3. CASE ~(LenBlocks > 1)
    BY <1>1, <1>16, <2>1, <2>3 DEF Detach, CardInv, Listening, copy, Return, DriverInv
  <2>. QED  BY <2>2, <2>3
<1>. QED  BY <1>6, <1>7, <1>8, <1>9, <1>10, <1>12, <1>13, <1>14, <1>15, <1>16 DEF Next

------------------------------------------------------------------------------
LEMMA AtStep ==
  ASSUME SdInv, Next
  PROVE  AtInv'
<1>. USE DEF SdInv
<1>. DEFINE Size(n) == BlockSize * n
            Bound == MaxAddr + MaxLen + 2 * BlockSize
<1>1. /\ req.addr \in Nat /\ req.len \in Nat /\ req.addr <= MaxAddr /\ req.len <= MaxLen
      /\ MaxAddr \in Nat /\ MaxLen \in Nat /\ b \in Nat /\ card.at \in Nat /\ Block \in Nat /\ LenBlocks \in Nat
      /\ DriverInv /\ BlockInv /\ AtInv /\ TypeOK
  BY RequestType, NoRequest
<1>2. /\ \A n \in Nat : Size(n) \in Nat
      /\ \A n \in Nat : Size(n + 1) = Size(n) + BlockSize
      /\ Size(0) = 0
  BY Parameters, SMTT(20)
<1>3. Size(Block) <= MaxAddr
  BY <1>1, <1>2, StartFacts
<1>4. Size(b) <= MaxLen + 2 * BlockSize
  <2>1. CASE cmd.name \in Transfers
    <3>1. req.len >= 1 /\ b <= LenBlocks
      BY <1>1, <2>1 DEF BlockInv
    <3>2. CASE b = LenBlocks
      BY <1>1, <1>2, <3>1, <3>2, LastFacts, Parameters
    <3>3. CASE b < LenBlocks
      <4>1. Size(b) + 1 <= req.len + FirstOffs /\ FirstOffs \in 0 .. BlockSize - 1
        BY <1>1, <3>1, <3>3, BlockFacts, StartFacts
      <4>. QED  BY <1>1, <1>2, <4>1, Parameters
    <3>. QED  BY <1>1, <3>1, <3>2, <3>3
  <2>2. CASE cmd.name \notin Transfers
    BY <1>1, <1>2, <2>2, Parameters DEF BlockInv
  <2>. QED  BY <2>1, <2>2
<1>5. pc \in {"token", "block", "crc"} => Size(b + 1) <= MaxLen + 2 * BlockSize
  <2>1. SUFFICES ASSUME pc \in {"token", "block", "crc"}  PROVE Size(b + 1) <= MaxLen + 2 * BlockSize
    OBVIOUS
  <2>2. Size(b) + 1 <= req.len + FirstOffs /\ FirstOffs \in 0 .. BlockSize - 1
    BY <1>1, <2>1, BlockFacts, StartFacts DEF BlockInv, DriverInv, Transfers
  <2>. QED  BY <1>1, <1>2, <2>2, Parameters
<1>6. Size(card.at) <= (IF pc = "done" THEN Bound ELSE MaxAddr + Size(b)) + Earlier
  BY <1>1 DEF AtInv
<1>7. Earlier \in Nat /\ (before = "none" => Earlier = 0) /\ (before # "none" => Earlier = MaxLen + 2 * BlockSize)
  BY <1>1, Parameters DEF Earlier
<1>8. (Size(card'.at) <= (IF pc' = "done" THEN Bound ELSE MaxAddr + Size(b')) + Earlier') => AtInv'
  BY DEF AtInv
<1>9. /\ before' = before => Earlier' = Earlier
      /\ before' # "none" => Earlier' = MaxLen + 2 * BlockSize
  BY DEF Earlier
<1>. HIDE DEF Size, AtInv, Earlier, LenBlocks, Block
<1>10. ASSUME card'.at \in {card.at, Block}, b' = b, before' = before, pc # "done", cmd.name = "READ" \/ card'.at = card.at
       PROVE  AtInv'
  BY <1>1, <1>2, <1>3, <1>4, <1>6, <1>7, <1>8, <1>9, <1>10, Parameters
<1>11. ASSUME NEW lens, Begin(lens), \/ pc # "done" /\ before' = before /\ b = 0
                                     \/ pc = "done" /\ before = "none" /\ before' # "none"
       PROVE  AtInv'
  <2>1. card' = card /\ b' = 0
    BY <1>11 DEF Begin
  <2>2. Size(b') = 0 /\ Size(card'.at) = Size(card.at) /\ Size(card.at) \in Nat
    BY <1>1, <1>2, <2>1
  <2>3. MaxAddr <= Bound /\ Bound \in Nat /\ MaxAddr \in Nat /\ MaxLen + 2 * BlockSize \in Nat
    BY <1>1, Parameters
  <2>4. CASE pc # "done" /\ before' = before /\ b = 0
    <3>1. Size(card.at) <= MaxAddr + Earlier /\ Earlier' = Earlier
      BY <1>1, <1>2, <1>6, <1>7, <1>9, <2>2, <2>3, <2>4
    <3>. QED  BY <1>7, <1>8, <2>2, <2>3, <3>1
  <2>5. CASE pc = "done" /\ before = "none" /\ before' # "none"
    <3>1. Size(card.at) <= Bound /\ Earlier' = MaxLen + 2 * BlockSize /\ Bound = MaxAddr + Earlier'
      BY <1>1, <1>6, <1>7, <1>9, <2>2, <2>3, <2>5, Parameters
    <3>. QED  BY <1>7, <1>8, <2>2, <2>3, <3>1
  <2>. QED  BY <1>11, <2>4, <2>5
<1>12. ASSUME SendCommand  PROVE AtInv'
  <2>1. card'.at \in {card.at, Block} /\ (card'.at = Block => cmd.name = "READ" \/ card'.at = card.at)
    BY <1>1, <1>12 DEF SendCommand, Taken, TypeOK
  <2>. QED  BY <1>10, <1>12, <2>1 DEF SendCommand, copy
<1>13. ASSUME PollResponse  PROVE AtInv'
  BY <1>1, <1>10, <1>13, ResponseFacts DEF PollResponse, copy
<1>14. ASSUME \/ Configure \/ PollBusy \/ ReadRest \/ Release \/ CheckResponse \/ SpeedUp
              \/ Detach \/ SegmentFails
       PROVE  AtInv'
  <2>1. card' = card /\ UNCHANGED copy
    BY <1>14 DEF Configure, PollBusy, ReadRest, Release, CheckResponse, SpeedUp, Detach, SegmentFails, io
  <2>2. pc # "done"
    BY <1>14 DEF Configure, PollBusy, ReadRest, Release, CheckResponse, SpeedUp, Detach, SegmentFails
  <2>. QED  BY <1>10, <2>1, <2>2 DEF copy
<1>15. ASSUME PollToken \/ ReadChunk  PROVE AtInv'
  BY <1>10, <1>15 DEF PollToken, ReadChunk, io
<1>16. ASSUME Read \/ ReadAgain  PROVE AtInv'
  <2>1. CASE Read
    BY <1>1, <1>11, <2>1 DEF Read, BlockInv, DriverInv
  <2>2. CASE ReadAgain
    <3>1. pc = "done" /\ before = "none" /\ before' # "none"
      BY <1>1, <2>2 DEF ReadAgain, DriverInv
    <3>. QED  BY <1>11, <2>2, <3>1 DEF ReadAgain
  <2>. QED  BY <1>16, <2>1, <2>2
<1>17. ASSUME Crc  PROVE AtInv'
  <2>1. card'.at = card.at + 1 /\ before' = before /\ pc = "crc"
    BY <1>1, <1>17 DEF Crc, BlockSent, TypeOK
  <2>2. \/ pc' = "done" /\ b' = b
        \/ pc' # "done" /\ b' = b + 1
    BY <1>17 DEF Crc, Goto, Return
  <2>3. Size(card'.at) = Size(card.at) + BlockSize /\ Size(b + 1) = Size(b) + BlockSize
    BY <1>1, <1>2, <2>1
  <2>4. Size(card'.at) <= MaxAddr + Size(b + 1) + Earlier
    <3>1. Size(card.at) <= MaxAddr + Size(b) + Earlier
      BY <1>6, <2>1
    <3>2. Size(card.at) \in Nat /\ Size(b) \in Nat
      BY <1>1, <1>2
    <3>. QED  BY <1>1, <1>7, <2>3, <3>1, <3>2, Parameters
  <2>. QED  BY <1>1, <1>2, <1>5, <1>7, <1>8, <1>9, <2>1, <2>2, <2>4, Parameters
<1>18. ASSUME Done  PROVE AtInv'
  BY <1>1, <1>18 DEF Done, vars, AtInv, Earlier
<1>. QED  BY <1>12, <1>13, <1>14, <1>15, <1>16, <1>17, <1>18 DEF Next

------------------------------------------------------------------------------
\* The steps that write memory; the others leave it, and the request, alone.
LEMMA Copies ==
  ASSUME Next
  PROVE  Read \/ ReadAgain \/ ReadChunk \/ Crc \/ (mem' = mem /\ swap' = swap /\ req' = req)
BY DEF Next, Configure, SendCommand, PollResponse, PollBusy, ReadRest, Release, CheckResponse, SpeedUp,
       PollToken, Detach, SegmentFails, Done, vars, copy

LEMMA AroundFacts ==
  ASSUME TypeOK
  PROVE  /\ Around \subseteq Int
         /\ \A i \in 0 .. req.len - 1 : i \in Around
BY RequestType, Parameters DEF Around

LEMMA InsideStep ==
  ASSUME SdInv, Next
  PROVE  WritesInside'
<1>. USE DEF SdInv
<1>1. CASE mem' = mem /\ swap' = swap /\ req' = req
  BY <1>1 DEF WritesInside
<1>2. ASSUME NEW lens, Begin(lens)  PROVE WritesInside'
  <2>1. mem' = [i \in Around |-> Old]
    BY <1>2 DEF Begin
  <2>. QED  BY <2>1 DEF WritesInside
<1>3. ASSUME pc \in {"block", "crc"}
      PROVE  /\ BlockDst \in Int
             /\ ~Swapped => BlockDst >= 0 /\ BlockDst + BlockSize <= req.len
             /\ \A o \in Relevant : BlockDst + o \in 0 .. req.len - 1
  <2>1. req.addr \in Nat /\ req.len \in Nat /\ req.len >= 1 /\ b \in Nat /\ b < LenBlocks
    BY <1>3, RequestType DEF DriverInv, BlockInv, Transfers
  <2>. QED  BY <2>1, BlockFacts
<1>4. CASE ReadChunk
  <2>1. SUFFICES ASSUME NEW i \in Around, i \notin 0 .. req.len - 1  PROVE mem'[i] = Old
    BY <1>4 DEF ReadChunk, WritesInside
  <2>2. i \in Int /\ mem[i] = Old
    BY <2>1, AroundFacts DEF WritesInside
  <2>3. ~(~Swapped /\ i - BlockDst \in offs .. offs + Chunk - 1)
    <3>1. SUFFICES ASSUME ~Swapped, i - BlockDst \in offs .. offs + Chunk - 1  PROVE FALSE
      OBVIOUS
    <3>2. pc = "block" /\ BlockDst \in Int /\ BlockDst >= 0 /\ BlockDst + BlockSize <= req.len
      BY <1>3, <1>4, <3>1 DEF ReadChunk
    <3>3. offs \in Nat /\ Chunk \in Nat /\ offs + Chunk <= BlockSize /\ req.len \in Nat
      BY RequestType, ChunkFacts
    <3>. QED  BY <2>1, <2>2, <3>1, <3>2, <3>3, Parameters
  <2>4. PICK ok \in BOOLEAN :
          mem' = [k \in Around |->
                    IF ~Swapped /\ k - BlockDst \in offs .. offs + Chunk - 1
                      THEN IF ok THEN OnCard(k - BlockDst) ELSE Bad ELSE mem[k]]
    BY <1>4 DEF ReadChunk
  <2>. QED  BY <2>1, <2>2, <2>3, <2>4, Zenon
<1>5. CASE Crc
  <2>1. SUFFICES ASSUME NEW i \in Around, i \notin 0 .. req.len - 1  PROVE mem'[i] = Old
    BY <1>5 DEF Crc, WritesInside
  <2>2. i \in Int /\ mem[i] = Old
    BY <2>1, AroundFacts DEF WritesInside
  <2>3. i - BlockDst \notin Relevant
    <3>1. SUFFICES ASSUME i - BlockDst \in Relevant  PROVE FALSE
      OBVIOUS
    <3>2. BlockDst \in Int /\ BlockDst + (i - BlockDst) \in 0 .. req.len - 1
      BY <1>3, <1>5, <3>1 DEF Crc
    <3>. QED  BY <2>1, <2>2, <3>2
  <2>4. mem' = mem \/ mem' = [k \in Around |->
                                IF Swapped /\ k - BlockDst \in Relevant THEN swap[k - BlockDst] ELSE mem[k]]
    BY <1>5 DEF Crc
  <2>. QED  BY <2>1, <2>2, <2>3, <2>4, Zenon
<1>. QED  BY <1>1, <1>2, <1>4, <1>5, Copies DEF Read, ReadAgain

(* What one chunk adds to the block: the bytes it covers.                  *)
LEMMA ChunkStep ==
  ASSUME SdInv, ReadChunk, CheckCrc, Listening,
         clean', NEW o \in 0 .. BlockSize - 1, o < offs + Chunk
  PROVE  HasByte(o)'
<1>. USE DEF SdInv
<1>1. /\ pc = "block" /\ cmd.name = "READ" /\ req' = req /\ b' = b /\ clean
      /\ BlockDst' = BlockDst /\ Swapped' = Swapped
  BY SameRequest DEF ReadChunk, DriverInv, io
<1>2. /\ req.addr \in Nat /\ req.len \in Nat /\ req.len >= 1 /\ b \in Nat /\ b < LenBlocks
      /\ offs \in Nat /\ card.at \in Nat
  BY <1>1, RequestType DEF BlockInv, Transfers
<1>3. /\ BlockDst \in Int /\ BlockSize * b \in Nat /\ BlockDst = BlockSize * b - FirstOffs
      /\ ~Swapped => BlockDst >= 0 /\ BlockDst + BlockSize <= req.len
  BY <1>2, BlockFacts
<1>4. Chunk \in Nat /\ offs + Chunk <= BlockSize
  BY RequestType, ChunkFacts
<1>5. /\ Block \in Nat /\ FirstOffs \in 0 .. BlockSize - 1
      /\ req.addr = BlockSize * Block + FirstOffs /\ card.at = Block + b
  BY <1>1, <1>2, StartFacts DEF CardInv
<1>6. OnCard(o) = req.addr + BlockDst + o
  <2>1. \A m, n \in Nat : (m + n) * BlockSize = BlockSize * m + BlockSize * n /\ BlockSize * m \in Nat
    BY Parameters, SMTT(20)
  <2>2. card.at * BlockSize = BlockSize * Block + BlockSize * b /\ BlockSize * Block \in Nat
    BY <1>2, <1>5, <2>1
  <2>. QED  BY <1>3, <1>5, <2>2, Parameters DEF OnCard
<1>. HIDE DEF OnCard, BlockDst, Swapped, Chunk
<1>7. PICK ok \in BOOLEAN :
        /\ clean' = (clean /\ ok)
        /\ swap' = [k \in DOMAIN swap |->
                      IF Swapped /\ k \in offs .. offs + Chunk - 1
                        THEN IF ok THEN OnCard(k) ELSE Bad ELSE swap[k]]
        /\ mem' = [k \in Around |->
                     IF ~Swapped /\ k - BlockDst \in offs .. offs + Chunk - 1
                       THEN IF ok THEN OnCard(k - BlockDst) ELSE Bad ELSE mem[k]]
  BY DEF ReadChunk
<1>8. ok = TRUE
  BY <1>1, <1>7
<1>9. o \in offs .. offs + Chunk - 1 \/ (o < offs /\ o \notin offs .. offs + Chunk - 1)
  BY <1>2, <1>4, Parameters
<1>10. o < offs => HasByte(o)
  BY <1>1 DEF ContentInv
<1>11. CASE Swapped
  <2>1. o \in DOMAIN swap
    BY DEF TypeOK
  <2>2. swap'[o] = IF o \in offs .. offs + Chunk - 1 THEN OnCard(o) ELSE swap[o]
    BY <1>7, <1>8, <1>11, <2>1, Zenon
  <2>3. swap'[o] = req.addr + BlockDst + o
    BY <1>6, <1>9, <1>10, <1>11, <2>2 DEF HasByte
  <2>. QED  BY <1>1, <1>11, <2>3 DEF HasByte
<1>12. CASE ~Swapped
  <2>1. BlockDst + o \in Around /\ (BlockDst + o) - BlockDst = o
    <3>1. BlockDst + o \in 0 .. req.len - 1
      BY <1>2, <1>3, <1>12, Parameters
    <3>. QED  BY <1>3, <3>1, AroundFacts
  <2>. DEFINE at == BlockDst + o
  <2>2. at \in Around /\ at - BlockDst = o
    BY <2>1
  <2>. HIDE DEF at
  <2>3. mem'[at] = IF o \in offs .. offs + Chunk - 1 THEN OnCard(o) ELSE mem[at]
    BY <1>7, <1>8, <1>12, <2>2, Zenon
  <2>4. mem'[at] = req.addr + BlockDst + o
    BY <1>6, <1>9, <1>10, <1>12, <2>3 DEF HasByte, at
  <2>. QED  BY <1>1, <1>12, <2>4 DEF HasByte, at
<1>. QED  BY <1>11, <1>12

\* What lies before the block stays while the block is being read.
LEMMA ChunkKeeps ==
  ASSUME SdInv, ReadChunk, Arrived(BlockDst)
  PROVE  Arrived(BlockDst)'
<1>. USE DEF SdInv
<1>1. req' = req /\ b' = b /\ BlockDst' = BlockDst
  BY SameRequest DEF ReadChunk
<1>2. SUFFICES ASSUME NEW i \in 0 .. req.len - 1, i < BlockDst  PROVE mem'[i] = req.addr + i
  BY <1>1 DEF Arrived
<1>3. mem[i] = req.addr + i /\ i \in Around /\ i \in Nat
  BY <1>2, AroundFacts DEF Arrived
<1>4. i - BlockDst \notin offs .. offs + Chunk - 1
  <2>1. req.addr \in Nat /\ req.len \in Nat /\ req.len >= 1 /\ b \in Nat /\ b < LenBlocks
    BY RequestType DEF ReadChunk, DriverInv, BlockInv, Transfers
  <2>2. BlockDst \in Int /\ offs \in Nat /\ Chunk \in Nat
    BY <2>1, BlockFacts, RequestType, ChunkFacts
  <2>. HIDE DEF BlockDst, Chunk
  <2>. QED  BY <1>2, <1>3, <2>2
<1>5. PICK ok \in BOOLEAN :
        mem' = [k \in Around |->
                  IF ~Swapped /\ k - BlockDst \in offs .. offs + Chunk - 1
                    THEN IF ok THEN OnCard(k - BlockDst) ELSE Bad ELSE mem[k]]
  BY DEF ReadChunk
<1>. QED  BY <1>3, <1>4, <1>5, Zenon

\* A block that is whole is at its place once the swap buffer is copied.
LEMMA BlockArrives ==
  ASSUME SdInv, Crc, Arrived(BlockDst), \A o \in 0 .. BlockSize - 1 : HasByte(o), b' = b + 1
  PROVE  Arrived(BlockDst)'
<1>. USE DEF SdInv
<1>1. req' = req /\ req.addr \in Nat /\ req.len \in Nat /\ req.len >= 1 /\ b \in Nat /\ b < LenBlocks
  BY RequestType DEF Crc, DriverInv, BlockInv, Transfers
<1>2. /\ BlockDst \in Int /\ BlockDst = BlockSize * b - FirstOffs /\ BlockSize * b \in Nat
      /\ \A o \in 0 .. BlockSize - 1 : BlockDst + o \in 0 .. req.len - 1 => o \in Relevant
      /\ \A o \in Relevant : o \in 0 .. BlockSize - 1
      /\ FirstOffs \in 0 .. BlockSize - 1
  BY <1>1, BlockFacts, StartFacts
<1>3. BlockDst' = BlockDst + BlockSize
  <2>1. BlockSize * (b + 1) = BlockSize * b + BlockSize
    BY <1>1, Parameters, SMTT(20)
  <2>2. BlockDst' = BlockSize * (b + 1) - FirstOffs
    BY <1>1, SameRequest DEF BlockDst
  <2>. QED  BY <1>2, <2>1, <2>2, Parameters
<1>4. mem' = [k \in Around |->
                IF Swapped /\ k - BlockDst \in Relevant THEN swap[k - BlockDst] ELSE mem[k]]
  <2>1. \/ b' = b
        \/ mem' = [k \in Around |->
                     IF Swapped /\ k - BlockDst \in Relevant THEN swap[k - BlockDst] ELSE mem[k]]
    BY DEF Crc
  <2>. QED  BY <1>1, <2>1
<1>. HIDE DEF BlockDst, Relevant, Swapped, FirstOffs, Crc
<1>5. SUFFICES ASSUME NEW i \in 0 .. req.len - 1, i < BlockDst + BlockSize  PROVE mem'[i] = req.addr + i
  BY <1>1, <1>3 DEF Arrived
<1>6. i \in Around /\ i \in Nat
  BY <1>1, AroundFacts
<1>7. CASE i < BlockDst
  <2>1. mem[i] = req.addr + i
    BY <1>7 DEF Arrived
  <2>2. i - BlockDst \notin Relevant
    BY <1>2, <1>6, <1>7
  <2>. QED  BY <1>4, <1>6, <2>1, <2>2, Zenon
<1>8. CASE i >= BlockDst
  <2>. DEFINE o == i - BlockDst
  <2>1. o \in 0 .. BlockSize - 1 /\ BlockDst + o = i
    BY <1>2, <1>5, <1>6, <1>8, Parameters
  <2>2. o \in Relevant
    BY <1>2, <2>1
  <2>3. HasByte(o)
    BY <2>1
  <2>4. req.addr + BlockDst + o = req.addr + i
    BY <1>1, <1>2, <2>1
  <2>5. mem'[i] = IF Swapped THEN swap[o] ELSE mem[i]
    BY <1>4, <1>6, <2>2, Zenon
  <2>. HIDE DEF o
  <2>6. IF Swapped THEN swap[o] = req.addr + i ELSE mem[i] = req.addr + i
    BY <2>1, <2>3, <2>4 DEF HasByte
  <2>. QED  BY <2>5, <2>6
<1>. QED  BY <1>2, <1>6, <1>7, <1>8

LEMMA ContentStep ==
  ASSUME SdInv, Next
  PROVE  ContentInv'
<1>. USE DEF SdInv
<1>1. SUFFICES ASSUME CheckCrc, Listening'  PROVE ContentInv'
  BY DEF ContentInv
<1>2. DriverInv /\ BlockInv /\ TypeOK /\ DriverInv' /\ BlockInv'
  BY DriverStep, BlockStep
<1>3. ASSUME mem' = mem, req' = req, before' = before,
             pc' \notin {"token", "block", "crc", "detach"},
             cmd'.name = "CMD12" \/ rc' = "ok" => cmd.name = "CMD12" \/ rc = "ok"
      PROVE  ContentInv'
  BY <1>1, <1>3 DEF ContentInv, Listening, Arrived
<1>4. \A name \in Commands : Call(name) => pc' = "send" /\ rc' = rc /\ cmd'.name = name
  BY DEF Call, Goto, NoCommand
<1>5. ASSUME Configure \/ CheckResponse \/ SpeedUp \/ SegmentFails \/ SendCommand  PROVE ContentInv'
  <2>1. UNCHANGED copy /\ pc' \notin {"token", "block", "crc", "detach"}
    BY <1>2, <1>4, <1>5, CheckFacts
       DEF Configure, CheckResponse, SpeedUp, SegmentFails, SendCommand, Goto, Return, Call
  <2>2. cmd'.name = "CMD12" \/ rc' = "ok" => cmd.name = "CMD12" \/ rc = "ok"
    BY <1>2, <1>4, <1>5, CheckFacts
       DEF Configure, CheckResponse, SpeedUp, SegmentFails, SendCommand, Goto, Return, io, Commands, Transfers
  <2>. QED  BY <1>3, <2>1, <2>2 DEF copy
<1>6. ASSUME PollBusy \/ ReadRest \/ Release \/ Done  PROVE ContentInv'
  <2>1. cmd'.name = cmd.name
    BY <1>2, <1>6 DEF PollBusy, ReadRest, Release, Done, vars, TypeOK
  <2>2. mem' = mem /\ req' = req /\ before' = before
    BY <1>6 DEF PollBusy, ReadRest, Release, Done, vars, copy
  <2>3. /\ pc' \notin {"token", "block", "crc", "detach"}
        /\ rc' = "ok" => cmd.name = "CMD12" \/ rc = "ok"
    BY <1>2, <1>6, BusyFacts DEF PollBusy, ReadRest, Release, Done, vars, Goto, Return
  <2>. QED  BY <1>3, <2>1, <2>2, <2>3
<1>7. ASSUME PollResponse  PROVE ContentInv'
  <2>1. cmd'.name = cmd.name /\ UNCHANGED copy /\ pc = "poll"
    BY <1>2, <1>7, ResponseFacts DEF PollResponse
  <2>2. /\ pc' \in {"poll", "done", "busy", "rest", "release", "token"}
        /\ rc' = "ok" => rc = "ok"
        /\ pc' = "token" => cmd.name = "READ" /\ rc' = rc
    BY <1>2, <1>7, ResponseFacts DEF PollResponse, Goto, Return, AfterR1
  <2>3. CASE pc' # "token"
    BY <1>3, <2>1, <2>2, <2>3 DEF copy
  <2>4. CASE pc' = "token"
    <3>1. b = 0 /\ req.len \in Nat /\ req.addr \in Nat
      BY <1>2, <2>1, <2>2, <2>4, RequestType DEF BlockInv
    <3>2. BlockDst <= 0 /\ BlockDst' = BlockDst /\ BlockDst \in Int
      <4>1. BlockSize * 0 = 0 /\ FirstOffs \in 0 .. BlockSize - 1
        BY <3>1, StartFacts, Parameters, SMTT(20)
      <4>2. BlockDst = 0 - FirstOffs
        BY <3>1, <4>1 DEF BlockDst
      <4>. QED  BY <2>1, <4>1, <4>2, SameRequest DEF copy
    <3>3. Arrived(BlockDst)'
      BY <2>1, <3>1, <3>2 DEF Arrived, copy
    <3>. QED  BY <1>2, <2>1, <2>2, <2>4, <3>3 DEF ContentInv, DriverInv
  <2>. QED  BY <2>3, <2>4
<1>8. ASSUME NEW lens, Begin(lens)  PROVE ContentInv'
  <2>1. [NoCommand EXCEPT !.name = "READ"].name = "READ"
    BY DEF NoCommand
  <2>2. CASE req'.len = 0
    BY <1>8, <2>2 DEF Begin, ContentInv, Arrived
  <2>3. CASE req'.len # 0
    BY <1>8, <2>1, <2>3 DEF Begin, ContentInv
  <2>. QED  BY <2>2, <2>3
<1>9. ASSUME PollToken  PROVE ContentInv'
  <2>1. /\ mem' = mem /\ req' = req /\ b' = b /\ before' = before /\ cmd' = cmd /\ offs' = offs
        /\ pc = "token" /\ cmd.name = "READ" /\ offs = 0
    BY <1>2, <1>9 DEF PollToken, DriverInv, BlockInv
  <2>2. pc' \in {"token", "block", "done"} /\ rc' # "ok"
    BY <1>2, <1>9, TokenFacts DEF PollToken, Goto, Return, DriverInv
  <2>3. BlockDst' = BlockDst /\ Arrived(BlockDst)
    BY <1>1, <2>1, SameRequest DEF ContentInv, Listening
  <2>4. Arrived(BlockDst)'
    BY <2>1, <2>3 DEF Arrived
  <2>5. \A o \in 0 .. BlockSize - 1 : ~(o < offs')
    BY <2>1, Parameters
  <2>. QED  BY <2>1, <2>2, <2>4, <2>5 DEF ContentInv
<1>10. ASSUME ReadChunk  PROVE ContentInv'
  <2>1. /\ Listening /\ pc = "block" /\ cmd' = cmd /\ cmd.name = "READ" /\ rc # "ok" /\ rc' = rc
    BY <1>1, <1>2, <1>10 DEF ReadChunk, DriverInv, Listening, io, Goto
  <2>2. Arrived(BlockDst)'
    BY <1>1, <1>10, <2>1, ChunkKeeps DEF ContentInv
  <2>3. clean' => \A o \in 0 .. BlockSize - 1 : o < offs + Chunk => HasByte(o)'
    BY <1>1, <1>10, <2>1, ChunkStep
  <2>4. \/ pc' = "block" /\ offs' = offs + Chunk
        \/ pc' = "crc" /\ offs + Chunk = BlockSize
    <3>1. /\ offs \in Nat /\ offs + FifoBytes < BlockSize => Chunk = FifoBytes
          /\ ~(offs + FifoBytes < BlockSize) => Chunk = BlockSize - offs
      BY RequestType, ChunkFacts
    <3>2. offs \in Nat
      BY RequestType
    <3>. QED  BY <1>10, <3>1, <3>2, Parameters DEF ReadChunk, Goto
  <2>5. pc' = "crc" => \A o \in 0 .. BlockSize - 1 : o < offs + Chunk
    BY <2>4, Parameters
  <2>. QED  BY <2>1, <2>2, <2>3, <2>4, <2>5 DEF ContentInv
<1>11. ASSUME Crc  PROVE ContentInv'
  <2>1. Listening /\ pc = "crc" /\ cmd' = cmd /\ cmd.name = "READ"
    BY <1>1, <1>2, <1>11 DEF Crc, DriverInv, Listening
  <2>2. CASE ~clean
    BY <1>1, <1>11, <2>1, <2>2 DEF Crc, Return, ContentInv
  <2>3. CASE clean
    <3>1. b' = b + 1 /\ rc' = rc /\ rc # "ok" /\ pc' \in {"token", "detach"}
      BY <1>2, <1>11, <2>3 DEF Crc, Goto, DriverInv
    <3>2. Arrived(BlockDst)'
      BY <1>1, <1>11, <2>1, <2>3, <3>1, BlockArrives DEF ContentInv
    <3>. QED  BY <2>1, <3>1, <3>2 DEF ContentInv
  <2>. QED  BY <2>2, <2>3 DEF TypeOK
<1>12. ASSUME Detach  PROVE ContentInv'
  <2>1. Listening /\ pc = "detach" /\ UNCHANGED copy /\ pc' \in {"send", "done"} /\ cmd.name = "READ"
    BY <1>1, <1>2, <1>12 DEF Detach, DriverInv, Listening, copy, Return, Call, Goto
  <2>2. Arrived(BlockDst)
    BY <1>1, <2>1 DEF ContentInv
  <2>3. BlockDst \in Int /\ BlockDst >= req.len /\ req.len \in Nat
    BY <1>2, <2>1, RequestType, LastFacts DEF BlockInv, Transfers
  <2>. HIDE DEF BlockDst
  <2>4. Arrived(req.len)
    BY <2>2, <2>3 DEF Arrived
  <2>5. Arrived(req.len)'
    BY <2>1, <2>4 DEF Arrived, copy
  <2>. QED  BY <2>1, <2>5 DEF ContentInv
<1>. QED  BY <1>1, <1>5, <1>6, <1>7, <1>8, <1>9, <1>10, <1>11, <1>12 DEF Next, Read, ReadAgain

------------------------------------------------------------------------------
LEMMA SdInvariant == Spec => []SdInv
<1>1. Init => SdInv
  BY InitialInv
<1>2. SdInv /\ [Next]_vars => SdInv'
  <2>1. SUFFICES ASSUME SdInv, [Next]_vars  PROVE SdInv'
    OBVIOUS
  <2>2. CASE Next
    BY <2>1, <2>2, TypeStep, DriverStep, BlockStep, CardStep, AtStep, ContentStep, InsideStep DEF SdInv
  <2>3. CASE UNCHANGED vars
    BY <2>1, <2>3
       DEF vars, SdInv, TypeOK, DriverInv, BlockInv, CardInv, AtInv, ContentInv, WritesInside, Listening, Earlier,
           Arrived, HasByte, Block, FirstOffs, PteOffs, LastLen, LenBlocks, FirstBlock, LastBlock, Swapped, BlockDst
  <2>. QED  BY <2>1, <2>2, <2>3
<1>. QED  BY <1>1, <1>2, PTL DEF Spec

(* TypeOK: the counters, and the bytes a transfer may leave in memory,     *)
(* stay in the bounds of the model, so that its runs cut nothing off.      *)
THEOREM SdTyped == Spec => []TypeOK
<1>1. SdInv => TypeOK
  BY DEF SdInv
<1>. QED  BY <1>1, SdInvariant, PTL

(* ReadExact: a read with CRC that reports success has delivered every     *)
(* byte of the request at its place, for every block size, FIFO depth,     *)
(* address and length (__spi_sdcard_read, __spi_sdcard_read_blocks).       *)
THEOREM ReadsExactly == Spec => []ReadExact
<1>1. SdInv => ReadExact
  <2>1. SUFFICES ASSUME SdInv, rc = "ok", CheckCrc, Listening  PROVE Arrived(req.len)
    BY RequestType DEF ReadExact, SdInv, Arrived
  <2>. QED  BY <2>1 DEF SdInv, ContentInv
<1>. QED  BY <1>1, SdInvariant, PTL

(* WritesInside: no read, whether it succeeds or fails, writes a byte that *)
(* is not the caller's (the swap buffer of __spi_sdcard_read_blocks).      *)
THEOREM KeepsOutside == Spec => []WritesInside
<1>1. SdInv => WritesInside
  BY DEF SdInv
<1>. QED  BY <1>1, SdInvariant, PTL

(* Detached: a read that reports success leaves the chip select free and a *)
(* card that has stopped sending (the end of __spi_sdcard_read_blocks).    *)
THEOREM LeavesDetached == Spec => []Detached
<1>1. SdInv => Detached
  BY DEF SdInv, DriverInv, CardInv, Detached
<1>. QED  BY <1>1, SdInvariant, PTL
------------------------------------------------------------------------------
(* The refinement of DiskRead.  Until the first read is asked for, nothing *)
(* is asked, so that an empty read changes nothing that a caller sees.     *)
NothingAsked == ~InRead => req.len = 0

\* A step that is not a call neither begins a read nor ends one.
LEMMA InCourse ==
  ASSUME SdInv, Next, ~Read, ~ReadAgain
  PROVE  InRead' = InRead /\ req' = req /\ before' = before
<1>. USE DEF SdInv, InRead
<1>1. ASSUME \/ Configure \/ SendCommand \/ PollResponse \/ PollBusy \/ ReadRest \/ Release
             \/ SpeedUp \/ PollToken \/ ReadChunk \/ Crc \/ SegmentFails \/ Done
      PROVE  /\ cmd'.name = cmd.name \/ {cmd.name, cmd'.name} \subseteq {"none"} \cup (Commands \ Transfers)
             /\ req' = req /\ before' = before
  <2>1. cmd \in [name : Commands \cup {"none"}, r1 : R1, echo : BOOLEAN]
    BY DEF TypeOK
  <2>2. CASE Configure
    BY <2>2 DEF Configure, Call, Return, copy, DriverInv, Commands, Transfers, NoCommand
  <2>3. CASE PollResponse \/ ReadRest
    BY <2>1, <2>3, ResponseFacts DEF PollResponse, ReadRest, copy
  <2>4. CASE \/ SendCommand \/ PollBusy \/ Release \/ SpeedUp \/ PollToken \/ ReadChunk \/ Crc
             \/ SegmentFails \/ Done
    BY <2>4 DEF SendCommand, PollBusy, Release, SpeedUp, PollToken, ReadChunk, Crc, SegmentFails, Done,
                vars, io, copy
  <2>. QED  BY <1>1, <2>2, <2>3, <2>4
<1>2. ASSUME CheckResponse
      PROVE  {cmd.name, cmd'.name} \subseteq Commands \ Transfers /\ req' = req /\ before' = before
  <2>1. pc = "check" /\ cmd.name \in Commands \ Transfers
    BY <1>2 DEF CheckResponse, DriverInv
  <2>2. cmd'.name \in Commands \ Transfers
    BY <1>2, <2>1, CheckFacts DEF Call, NoCommand
  <2>. QED  BY <1>2, <2>1, <2>2 DEF CheckResponse, copy
<1>3. ASSUME Detach
      PROVE  {cmd.name, cmd'.name} \subseteq Transfers /\ req' = req /\ before' = before
  BY <1>3 DEF Detach, DriverInv, Call, NoCommand, Transfers, copy
<1>. QED  BY <1>1, <1>2, <1>3 DEF Next, Commands, Transfers

LEMMA AskedInvariant == Spec => []NothingAsked
<1>1. Init => NothingAsked
  BY DEF Init, NothingAsked
<1>2. SdInv /\ NothingAsked /\ [Next]_vars => NothingAsked'
  <2>1. SUFFICES ASSUME SdInv, NothingAsked, [Next]_vars  PROVE NothingAsked'
    OBVIOUS
  <2>2. ASSUME NEW lens, Begin(lens)  PROVE NothingAsked'
    BY <2>2 DEF Begin, NothingAsked, InRead, NoCommand
  <2>3. CASE UNCHANGED vars
    BY <2>1, <2>3 DEF vars, NothingAsked, InRead
  <2>4. CASE Next /\ ~Read /\ ~ReadAgain
    BY <2>1, <2>4, InCourse DEF NothingAsked
  <2>. QED  BY <2>1, <2>2, <2>3, <2>4 DEF Read, ReadAgain
<1>. QED  BY <1>1, <1>2, SdInvariant, PTL DEF Spec

LEMMA AskRefines ==
  ASSUME SdInv, NothingAsked, NEW lens, Begin(lens), lens \subseteq Lens, ReadState # "reading",
         req'.len = 0 => ~InRead, Sound' = Sound
  PROVE  Disk!Ask \/ Disk!Store
<1>0. Sound \in BOOLEAN
  BY DEF Sound
<1>1. /\ req' \in [addr : Addrs, len : lens] /\ mem' = [i \in Around |-> Old]
      /\ req'.len = 0 => cmd' = cmd
      /\ req'.len # 0 => pc' = "send" /\ cmd'.name = "READ"
  BY DEF Begin, NoCommand
<1>2. req' \in [addr : Addrs, len : Lens] /\ req'.len \in Nat
  BY <1>1, SdAssumption
<1>3. mem' = Disk!Blank
  BY <1>1 DEF Disk!Blank, Disk!Old, Old
<1>4. CASE req'.len = 0
  <2>1. ReadState = "idle" /\ ReadState' = "idle" /\ req.len = 0
    BY <1>1, <1>4 DEF ReadState, InRead, NothingAsked
  <2>2. mem = Disk!Blank
    <3>1. mem \in [Around -> Bytes] /\ \A i \in Around : mem[i] = Old
      BY <2>1 DEF SdInv, TypeOK, WritesInside
    <3>. QED  BY <3>1 DEF Disk!Blank, Disk!Old, Old
  <2>. QED  BY <1>0, <1>3, <1>4, <2>1, <2>2 DEF Disk!Store
<1>5. CASE req'.len # 0
  <2>1. ReadState' = "reading"
    BY <1>1, <1>5 DEF ReadState, InRead
  <2>. QED  BY <1>2, <1>3, <2>1 DEF Disk!Ask
<1>. QED  BY <1>4, <1>5

LEMMA CopyRefines ==
  ASSUME SdInv, SdInv', ReadState = "reading", ReadState' = "reading", req' = req,
         Sound' = Sound
  PROVE  Disk!Copy
<1>1. mem' \in [Around -> Int]
  BY RequestType, Parameters, BoundedAssumption DEF SdInv, TypeOK, Bytes, Old, Bad
<1>2. Disk!Elsewhere
  BY DEF Disk!Elsewhere, SdInv, WritesInside
<1>. QED  BY <1>1, <1>2 DEF Disk!Copy

LEMMA AnswerRefines ==
  ASSUME SdInv, SdInv', ReadState = "reading", ReadState' \in {"ok", "failed"},
         req' = req, mem' = mem, before' = before
  PROVE  Disk!Answer
<1>1. ASSUME ReadState' = "ok", Sound  PROVE Disk!Exact
  <2>1. Arrived(req.len)'
    BY <1>1 DEF ReadState, Sound, Listening, SdInv, ContentInv
  <2>2. req.addr \in Nat /\ req.addr <= MaxAddr /\ req.len \in Nat /\ req.len <= MaxLen
    BY RequestType DEF SdInv
  <2>3. ASSUME NEW i \in 0 .. req.len - 1
        PROVE  mem[i] = req.addr + i /\ req.addr + i \in 0 .. MaxAddr + MaxLen
    BY <2>1, <2>2, BoundedAssumption DEF Arrived
  <2>. QED  BY <2>3 DEF Disk!Exact
<1>2. /\ Sound \in BOOLEAN /\ Sound' \in BOOLEAN /\ (Sound' => Sound)
      /\ ReadState' = "ok" => Sound' = Sound
  BY DEF Sound, Listening
<1>. QED  BY <1>1, <1>2 DEF Disk!Answer

LEMMA StepRefines ==
  ASSUME SdInv, SdInv', NothingAsked, Next
  PROVE  Disk!ReadNext \/ UNCHANGED Disk!read
<1>1. CASE Read
  <2>1. ReadState # "reading" /\ ~InRead
    BY <1>1 DEF Read, SdInv, DriverInv, ReadState, InRead, Transfers
  <2>2. ReadState = "idle" /\ ReadState' # "failed" /\ before' = before
    BY <1>1, <2>1 DEF Read, Begin, ReadState
  <2>3. Sound' = Sound
    BY <2>2 DEF Sound, Listening
  <2>. QED  BY <1>1, <2>1, <2>3, AskRefines DEF Read, Disk!ReadNext
<1>2. CASE ReadAgain
  <2>1. ReadState # "reading" /\ Begin(Again) /\ Again \subseteq Lens \ {0}
    BY <1>2, SdAssumption DEF ReadAgain, ReadState, InRead
  <2>2. req'.len # 0
    BY <2>1 DEF Begin
  <2>3. /\ before = "none" /\ before' = rc /\ rc # "none"
        /\ ReadState = (IF rc = "ok" THEN "ok" ELSE "failed") /\ ReadState' = "reading"
    BY <1>2, <2>1, <2>2 DEF ReadAgain, Begin, NoCommand, ReadState, InRead, SdInv, DriverInv
  <2>4. Sound' = Sound
    BY <2>3 DEF Sound, Listening
  <2>. QED  BY <2>1, <2>2, <2>4, AskRefines DEF Disk!ReadNext
<1>3. CASE ~Read /\ ~ReadAgain
  <2>1. InRead' = InRead /\ req' = req /\ before' = before
    BY <1>3, InCourse
  <2>2. CASE ~InRead
    <3>1. mem' = mem
      BY <1>3, <2>2, Copies DEF ReadChunk, Crc, SdInv, DriverInv, InRead
    <3>. QED  BY <2>1, <2>2, <3>1 DEF ReadState, Sound, Listening, Disk!read
  <2>3. CASE InRead /\ pc = "done"
    <3>1. UNCHANGED vars
      BY <1>3, <2>3
         DEF Next, Configure, SendCommand, PollResponse, PollBusy, ReadRest, Release, CheckResponse, SpeedUp,
             PollToken, ReadChunk, Crc, Detach, SegmentFails, Done
    <3>. QED  BY <3>1 DEF vars, ReadState, Sound, InRead, Listening, Disk!read
  <2>4. CASE InRead /\ pc # "done" /\ pc' = "done"
    <3>1. mem' = mem
      BY <1>3, <2>4, Copies DEF ReadChunk, Crc, Goto, Return
    <3>. QED  BY <2>1, <2>4, <3>1, AnswerRefines DEF ReadState, Disk!ReadNext
  <2>5. CASE InRead /\ pc # "done" /\ pc' # "done"
    <3>1. ReadState = "reading" /\ ReadState' = "reading"
      BY <2>1, <2>5 DEF ReadState
    <3>2. Sound' = Sound
      BY <2>1, <3>1 DEF Sound, Listening
    <3>. QED  BY <2>1, <3>1, <3>2, CopyRefines DEF Disk!ReadNext
  <2>. QED  BY <2>2, <2>3, <2>4, <2>5
<1>. QED  BY <1>1, <1>2, <1>3

(* ReadsLikeADisk: the driver's reads implement the abstract read that the *)
(* boot code relies on (gpt.c:73, zsl.c:44): none writes outside the       *)
(* caller's buffer, and one that returns 0 has delivered the exact bytes   *)
(* unless a read before it has failed.                                     *)
THEOREM ReadsRefined == Spec => ReadsLikeADisk
<1>1. Init => Disk!ReadInit
  BY DEF Init, Disk!ReadInit, Disk!Blank, Disk!Old, Old, ReadState, Sound, InRead, NoCommand
<1>2. SdInv /\ SdInv' /\ NothingAsked /\ [Next]_vars => [Disk!ReadNext]_(Disk!read)
  <2>1. UNCHANGED vars => UNCHANGED Disk!read
    BY DEF vars, ReadState, Sound, InRead, Listening, Disk!read
  <2>. QED  BY <2>1, StepRefines
<1>. QED  BY <1>1, <1>2, SdInvariant, AskedInvariant, PTL DEF Spec, ReadsLikeADisk, Disk!ReadSpec
------------------------------------------------------------------------------
(* Every loop of the driver but one is bounded.  What goes down, in this   *)
(* order: the commands still to be given, the parts of a command, the      *)
(* blocks of a read, and the polls and bytes before the next part.         *)
CommandsLeft ==
  [none |-> 8, CMD0 |-> 7, CMD8 |-> 6, CMD55 |-> 5, ACMD41 |-> 4, CMD58 |-> 3, CMD16 |-> 2,
   READ |-> 1, CMD12 |-> 0]

PartsLeft ==
  [start |-> 8, send |-> 7, poll |-> 6, busy |-> 5, rest |-> 5, token |-> 5, block |-> 5, crc |-> 5,
   release |-> 4, detach |-> 4, check |-> 3, speed_up |-> 2, up |-> 1, done |-> 0]

BlocksLeft == LenBlocks - b

PollsLeft ==
  IF pc = "token" THEN timeout + BlockSize
  ELSE IF pc = "block" THEN BlockSize - offs
  ELSE IF pc \in {"poll", "busy"} THEN timeout ELSE 0

Measured ==
  /\ CommandsLeft[cmd.name] \in Nat /\ PartsLeft[pc] \in Nat
  /\ BlocksLeft \in Nat /\ PollsLeft \in Nat

SameCommand == (CommandsLeft[cmd.name])' = CommandsLeft[cmd.name]
SamePart == (PartsLeft[pc])' = PartsLeft[pc]

Descends ==
  \/ (CommandsLeft[cmd.name])' < CommandsLeft[cmd.name]
  \/ SameCommand /\ (PartsLeft[pc])' < PartsLeft[pc]
  \/ SameCommand /\ SamePart /\ BlocksLeft' < BlocksLeft
  \/ SameCommand /\ SamePart /\ BlocksLeft' = BlocksLeft /\ PollsLeft' < PollsLeft

\* The card is not ready: __spi_sdcard_activate sends CMD55 and ACMD41 again.
AsksAgain == cmd.name = "ACMD41" /\ cmd.r1 # "ready" /\ cmd'.name = "CMD55"

LEMMA MeasureNatural ==
  ASSUME SdInv
  PROVE  Measured
<1>. USE DEF SdInv
<1>1. CommandsLeft[cmd.name] \in Nat /\ PartsLeft[pc] \in Nat
  <2>1. cmd.name \in Commands \cup {"none"} /\ pc \in Labels
    BY DEF TypeOK
  <2>2. CommandsLeft[cmd.name] \in Nat
    BY <2>1 DEF CommandsLeft, Commands
  <2>3. PartsLeft[pc] \in Nat
    BY <2>1 DEF PartsLeft, Labels
  <2>. QED  BY <2>2, <2>3
<1>2. LenBlocks \in Nat /\ b \in Nat /\ b <= LenBlocks /\ offs \in Nat /\ offs < BlockSize
  BY RequestType, NoRequest DEF BlockInv
<1>3. timeout \in Nat /\ BlockSize \in Nat
  BY Parameters, Timeouts DEF TypeOK
<1>. QED  BY <1>1, <1>2, <1>3 DEF Measured, BlocksLeft, PollsLeft

\* Another part of the same command; and another command.
LEMMA NextPart ==
  ASSUME cmd'.name = cmd.name,
         \/ pc = "start" /\ pc' = "done"
         \/ pc = "send" /\ pc' = "poll"
         \/ pc = "poll" /\ pc' \in {"busy", "rest", "token", "release"}
         \/ pc \in {"busy", "rest"} /\ pc' = "release"
         \/ pc = "crc" /\ pc' = "detach"
         \/ pc = "release" /\ pc' = "check"
         \/ pc = "check" /\ pc' = "speed_up"
         \/ pc = "speed_up" /\ pc' = "up"
         \/ pc \in Labels \ {"done"} /\ pc' = "done"
  PROVE  Descends
<1>1. SameCommand
  BY DEF SameCommand, CommandsLeft
<1>2. (PartsLeft[pc])' < PartsLeft[pc]
  BY DEF PartsLeft, Labels
<1>. QED  BY <1>1, <1>2 DEF Descends

LEMMA NextCommand ==
  ASSUME SdInv, CheckResponse
  PROVE  Descends \/ AsksAgain
<1>1. cmd.name \in {"CMD0", "CMD8", "CMD55", "ACMD41", "CMD58", "CMD16"} /\ pc = "check"
  BY DEF CheckResponse, SdInv, DriverInv, Transfers, Commands
<1>2. PICK d \in Differs :
        IF Returned(d) # "ok" THEN Return(Returned(d)) /\ UNCHANGED cmd
        ELSE IF cmd.name = "CMD16" THEN Goto("speed_up") /\ UNCHANGED cmd
        ELSE Call(Following)
  BY DEF CheckResponse
<1>3. CASE Returned(d) # "ok" \/ cmd.name = "CMD16"
  BY <1>1, <1>2, <1>3, NextPart DEF Return, Goto, Labels
<1>4. CASE ~(Returned(d) # "ok" \/ cmd.name = "CMD16")
  <2>1. cmd.name # "CMD16" /\ cmd'.name = Following
    BY <1>2, <1>4 DEF Call, NoCommand
  <2>2. \/ cmd.name = "CMD0" /\ cmd'.name = "CMD8"
        \/ cmd.name = "CMD8" /\ cmd'.name = "CMD55"
        \/ cmd.name = "CMD55" /\ cmd'.name = "ACMD41"
        \/ cmd.name = "ACMD41" /\ cmd'.name = "CMD58"
        \/ cmd.name = "CMD58" /\ cmd'.name = "CMD16"
        \/ AsksAgain
    BY <1>1, <2>1 DEF Following, AsksAgain
  <2>. QED  BY <2>2 DEF Descends, CommandsLeft
<1>. QED  BY <1>3, <1>4

\* One more poll, or one more chunk, of the same part.
LEMMA NextPoll ==
  ASSUME SdInv, cmd'.name = cmd.name, UNCHANGED <<req, b>>,
         \/ pc \in {"poll", "busy", "token"} /\ pc' = pc /\ timeout' = timeout - 1
         \/ pc = "token" /\ pc' = "block" /\ offs' = offs
         \/ pc = "block" /\ pc' = "block" /\ offs' = offs + FifoBytes
         \/ pc = "block" /\ pc' = "crc"
  PROVE  Descends
<1>1. SameCommand /\ SamePart /\ BlocksLeft' = BlocksLeft
  BY SameRequest DEF SameCommand, CommandsLeft, SamePart, PartsLeft, BlocksLeft
<1>2. /\ BlockSize \in Nat /\ FifoBytes \in Nat /\ FifoBytes >= 1 /\ timeout \in Nat
      /\ offs \in Nat /\ offs < BlockSize /\ (pc = "token" => timeout >= 1)
  BY Parameters, Timeouts, RequestType DEF SdInv, TypeOK, DriverInv
<1>3. PollsLeft' < PollsLeft
  BY <1>2 DEF PollsLeft
<1>. QED  BY <1>1, <1>3 DEF Descends

LEMMA StepDescends ==
  ASSUME SdInv, Next, pc \notin {"up", "done"}
  PROVE  Descends \/ AsksAgain
<1>. USE DEF SdInv
<1>1. /\ pc \in Labels /\ b \in Nat /\ LenBlocks \in Nat
      /\ cmd \in [name : Commands \cup {"none"}, r1 : R1, echo : BOOLEAN]
  BY RequestType, NoRequest DEF TypeOK
<1>2. CASE SegmentFails
  BY <1>1, <1>2, NextPart DEF SegmentFails, Return, io
<1>3. CASE Configure
  <2>1. CASE cmd' = cmd
    BY <1>3, <2>1, NextPart DEF Configure, Return, Call, DriverInv, NoCommand
  <2>2. CASE cmd' # cmd
    <3>1. cmd.name = "none" /\ cmd'.name = "CMD0"
      BY <1>3, <2>2 DEF Configure, Call, DriverInv, NoCommand
    <3>. QED  BY <3>1 DEF Descends, CommandsLeft
  <2>. QED  BY <2>1, <2>2
<1>4. CASE SendCommand \/ SpeedUp
  BY <1>4, NextPart DEF SendCommand, SpeedUp, Goto
<1>5. CASE PollResponse
  <2>1. AfterR1 \in {"busy", "rest", "token", "release"}
    BY DEF AfterR1
  <2>2. pc = "poll" /\ UNCHANGED <<req, b>>
    BY <1>5 DEF PollResponse, copy
  <2>. QED  BY <1>1, <1>5, <2>1, <2>2, ResponseFacts, NextPart, NextPoll DEF Goto, Return
<1>6. CASE PollBusy
  <2>1. pc = "busy" /\ UNCHANGED <<cmd, req, b>> /\ timeout' = timeout - 1
    BY <1>6 DEF PollBusy, copy
  <2>. QED  BY <1>1, <1>6, <2>1, BusyFacts, NextPart, NextPoll DEF Goto, Return
<1>7. CASE ReadRest
  <2>1. cmd'.name = cmd.name
    BY <1>1, <1>7 DEF ReadRest
  <2>. QED  BY <1>7, <2>1, NextPart DEF ReadRest, Goto
<1>8. CASE Release
  BY <1>1, <1>8, NextPart DEF Release, Goto, Return
<1>9. CASE CheckResponse
  BY <1>9, NextCommand
<1>10. CASE PollToken
  <2>1. pc = "token" /\ UNCHANGED <<cmd, req, b, offs>> /\ timeout' = timeout - 1
    BY <1>10 DEF PollToken
  <2>. QED  BY <1>1, <1>10, <2>1, TokenFacts, NextPart, NextPoll DEF Goto, Return
<1>11. CASE ReadChunk
  <2>1. /\ pc = "block" /\ UNCHANGED <<cmd, req, b>>
        /\ (pc' = "block" /\ offs' = offs + FifoBytes) \/ pc' = "crc"
    BY <1>11 DEF ReadChunk, io, Goto
  <2>. QED  BY <2>1, NextPoll
<1>12. CASE Crc
  <2>1. CASE pc' # "token"
    BY <1>1, <1>12, <2>1, NextPart DEF Crc, Goto, Return
  <2>2. CASE pc' = "token"
    <3>1. pc = "crc" /\ cmd' = cmd /\ req' = req /\ b' = b + 1
      BY <1>12, <2>2 DEF Crc, Goto, Return
    <3>2. SameCommand /\ SamePart
      BY <2>2, <3>1 DEF SameCommand, SamePart, CommandsLeft, PartsLeft
    <3>3. BlocksLeft' < BlocksLeft
      BY <1>1, <3>1, SameRequest DEF BlocksLeft
    <3>. QED  BY <3>2, <3>3 DEF Descends
  <2>. QED  BY <2>1, <2>2
<1>13. CASE Detach
  <2>1. CASE cmd' = cmd
    BY <1>1, <1>13, <2>1, NextPart DEF Detach, Call, Return, DriverInv, NoCommand
  <2>2. CASE cmd' # cmd
    <3>1. cmd.name = "READ" /\ cmd'.name = "CMD12"
      BY <1>13, <2>2 DEF Detach, Call, DriverInv, NoCommand
    <3>. QED  BY <3>1 DEF Descends, CommandsLeft
  <2>. QED  BY <2>1, <2>2
<1>14. ~Read /\ ~ReadAgain /\ ~Done
  BY DEF Read, ReadAgain, Done
<1>. QED  BY <1>2, <1>3, <1>4, <1>5, <1>6, <1>7, <1>8, <1>9, <1>10, <1>11, <1>12, <1>13, <1>14 DEF Next

(* Whatever the card answers, or does not answer, every call of the driver *)
(* takes a bounded number of steps but for one loop, that of ACMD41, which *)
(* goes on for as long as the card says that it is not ready:              *)
(* spi_sdcard_init may hang there, and a read nowhere.                     *)
THEOREM OneOpenLoop ==
  Spec => []Measured /\ [][pc \notin {"up", "done"} => Descends \/ AsksAgain]_vars
<1>1. SdInv => Measured
  BY MeasureNatural
<1>2. SdInv /\ [Next]_vars => [pc \notin {"up", "done"} => Descends \/ AsksAgain]_vars
  BY StepDescends
<1>. QED  BY <1>1, <1>2, SdInvariant, PTL DEF Spec
==============================================================================
