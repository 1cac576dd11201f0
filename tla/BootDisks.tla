------------------------------ MODULE BootDisks ------------------------------
(***************************************************************************)
(* The two media without a module of their own so far that the boot mode   *)
(* may select: one of them is in use, and calls follow one another.        *)
(***************************************************************************)
EXTENDS I2cEeprom, SpiFlash

CONSTANTS FlashBytes

ASSUME BootDisksAssumption == FlashBytes \in Nat

VARIABLE boot   (* The medium that is in use: "eeprom" or "flash".        *)

vars == <<boot, read, i2c, flash>>

\* A byte that has not been written to is its own address.
Fresh(size) == [a \in 0 .. size - 1 |-> a]

DiskBytes == IF boot = "eeprom" THEN 2 * BlockBytes ELSE FlashBytes

Init ==
  /\ boot \in {"eeprom", "flash"}
  /\ disk = Fresh(DiskBytes)
  /\ ReadInit /\ sound /\ I2cInit /\ FlashInit

Eeprom == boot = "eeprom" /\ I2cNext /\ UNCHANGED <<boot, flash>>
Flash == boot = "flash" /\ FlashNext /\ UNCHANGED <<boot, i2c>>

Next == Eeprom \/ Flash

\* Driver, controller and device go on by themselves; calls are made by choice.
EepromSteps == Setup \/ NextChunk \/ IssueRead \/ IssueWrite \/ Collect
ControllerSteps == SendAddress \/ ReceiveByte \/ SendData \/ FinishByte
FlashSteps == FlashSetup \/ ReadChunk \/ ReadEnds \/ WriteEnable \/ NextPage
              \/ Erase \/ Program \/ Poll

Spec ==
  /\ Init /\ [][Next]_vars
  /\ WF_vars(Eeprom /\ EepromSteps) /\ WF_vars(Eeprom /\ ControllerSteps)
  /\ WF_vars(Flash /\ FlashSteps) /\ WF_vars(Flash /\ Done)

TypeOK ==
  /\ I2cTypeOK /\ FlashTypeOK
  /\ state \in {"idle", "reading", "ok", "failed"}
  /\ req \in [addr : Nat, len : Nat]
  /\ mem \in [Around -> Int]
  /\ disk \in [0 .. DiskBytes - 1 -> Int]
  /\ sound \in BOOLEAN

------------------------------------------------------------------------------
(* Both drivers read as the boot code relies on, ReadSpec of the module    *)
(* DiskRead, if the requests lie on the medium and, for the EEPROM, in its *)
(* first block and reach to the end of their first chunk.  The reads of    *)
(* gpt.c:32 and gpt.c:44 do not: see ReadsFieldsOnly.                      *)
OnMedium ==
  \A r \in Requests :
    r.addr + r.len <= Smaller(BlockBytes, FlashBytes) /\ HeadLen(r.addr) <= r.len

(* The format bytes that are queued while the I2C controller is disabled   *)
(* fit its FIFO: a byte that did not fit would be dropped, and the device  *)
(* programmed with the wrong data.                                         *)
FormatFits == pc = "wait" /\ op = "write" => FormatBytes <= FifoDepth

(* While the flash works on an erase or program the driver does nothing    *)
(* but poll: no command is lost on a busy device, and a call that returns  *)
(* success leaves a device that can be read.  Only after a flashing that   *)
(* has failed the device may be busy when the driver is called again.      *)
WaitsWhileBusy == wip => fpc = "poll" \/ ~sound

(* Flashing changes no cell outside the pages it has been asked for.       *)
InJob(a) == a \div PageBytes \in job.page .. job.page + job.num - 1
FlashesOwnPages == [][\A a \in DOMAIN disk : disk'[a] # disk[a] => InJob(a)]_vars

(* Every call returns: no poll waits for what will not come.               *)
Returned == IF boot = "eeprom" THEN pc = "idle" ELSE fpc \in {"ready", "dead"}
CallsReturn == []<>Returned

(* gpt.c:42, "Read first two partition fields for size": that read fills   *)
(* the structure that it is given, and nothing behind it.                  *)
ReadsFieldsOnly ==
  boot = "eeprom" /\ state = "ok" => \A i \in Around \ 0 .. req.len - 1 : mem[i] = Old
==============================================================================
