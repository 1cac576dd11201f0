------------------------------- MODULE GptBoot --------------------------------
(* Booting from a disk.  The boot ROM looks for the zero-stage loader in   *)
(* the GPT of the disk (sw/lib/gpt.c) and copies it, or else the first     *)
(* partition, or else the raw start of the disk, to SPM.  The zero-stage   *)
(* loader (sw/boot/zsl.c) uses the same search, and the read function that *)
(* the ROM has left in SCRATCH[0], for the device tree and the firmware.   *)
(*                                                                         *)
(* A step is one read of the disk with what the code does with its result. *)
(* The drivers are in modules of their own, and promise what DiskRead      *)
(* says: a read may fail, and after that a disk that does not recover (an  *)
(* SD card) may answer a read with success and other bytes.  No caller     *)
(* passes a partition GUID, so that entries are matched by type only.      *)
EXTENDS Integers, Sequences, FiniteSetsExt

CONSTANTS
  NumLbas,   \* LBAs are computed modulo this (2^64)
  AddrLbas,  \* addresses and lengths in bytes, 512 to an LBA, modulo this (2^55)
  SpmLbas,   \* __BOOT_SPM_MAX_LBAS
  DtbLbas,   \* max_lbas of the device tree, 64
  FwLbas,    \* max_lbas of the firmware, 8192
  MaxCount,  \* the largest number of entries, 2^32 - 1
  Disks,     \* disks: [gpt, recovers : BOOLEAN, parts : sequence of Entry]
  Misread    \* what may be taken for the entries of a disk that has not recovered

LBA == 0 .. NumLbas - 1
Types == {"zsl", "dtb", "fw", "other"}
Entry == [first : LBA, last : LBA, type : Types]   \* last is inclusive

ASSUME LbasAssumption ==
  /\ NumLbas \in Nat /\ AddrLbas \in LBA
  /\ {SpmLbas, DtbLbas, FwLbas} \subseteq 1 .. AddrLbas - 1
ASSUME DisksAssumption ==
  /\ \A d \in Disks : d.gpt \in BOOLEAN /\ d.recovers \in BOOLEAN
  /\ Misread \cup {d.parts : d \in Disks} \subseteq Seq(Entry)
  /\ MaxCount \in Nat /\ \A t \in Misread \cup {d.parts : d \in Disks} : Len(t) <= MaxCount

VARIABLES
  disk,
  pc,      \* the next read or hand-over
  who,     \* what is searched for: the loader, the device tree or the firmware
  table,   \* the partition entries as this search reads them
  p,       \* the index of the search, from 0
  range,   \* lba_begin and lba_end
  mem,     \* what each buffer holds: sectors from first on, all of them if whole
  reader,  \* bit 0 of SCRATCH[0]: there is a read function
  failed   \* history: some call of the driver has failed

vars == <<disk, pc, who, table, p, range, mem, reader, failed>>

Final == {"error", "foreign", "stuck", "launched"}
Labels == {"init", "signature", "header", "entry", "type", "copy", "zsl"} \cup Final
Loaded == [first : LBA, count : LBA, whole : BOOLEAN]

TypeOK ==
  /\ disk \in Disks
  /\ pc \in Labels
  /\ who \in {"zsl", "dtb", "fw"}
  /\ table \in Misread \cup {<<>>, disk.parts}
  /\ p \in 0 .. Len(table)
  /\ pc = "type" => p < Len(table)
  /\ range \in [first : LBA, last : LBA]
  /\ mem \in [{"zsl", "dtb", "fw"} -> Loaded]
  /\ reader \in BOOLEAN
  /\ failed \in BOOLEAN

(* A disk boot starts before the driver's initialization; after a passive  *)
(* boot of the zero-stage loader the host has placed everything, and the   *)
(* entry point in SCRATCH[0] is even.                                      *)
Init ==
  /\ disk \in Disks
  /\ pc \in {"init", "zsl"}
  /\ who = "zsl"
  /\ table = <<>> /\ p = 0
  /\ range = [first |-> 0, last |-> SpmLbas - 1]
  /\ mem = [b \in {"zsl", "dtb", "fw"} |-> [first |-> 0, count |-> 0, whole |-> FALSE]]
  /\ reader = FALSE
  /\ failed = FALSE

Limit == [zsl |-> SpmLbas, dtb |-> DtbLbas, fw |-> FwLbas]

Go(from, to) == pc = from /\ pc' = to

\* A read that succeeds has read what is on the disk.
Reliable == ~failed \/ disk.recovers

------------------------------------------------------------------------------
(* The boot ROM: the driver is initialized, and the signature decides      *)
(* whether there are partitions; a failed read counts as no signature.     *)
InitDevice ==
  /\ \E ok \in BOOLEAN :
       /\ Go("init", IF ok THEN "signature" ELSE "error")
       /\ failed' = ~ok
  /\ UNCHANGED <<disk, who, table, p, range, mem, reader>>

CheckSignature ==
  /\ \E ok \in BOOLEAN :
       /\ Go("signature", IF ok /\ disk.gpt THEN "header" ELSE "copy")
       /\ failed' = ~ok
  /\ UNCHANGED <<disk, who, table, p, range, mem, reader>>

(* A failed read, a search without success: the ROM returns the error, or  *)
(* goes on with the range it has; the zero-stage loader reports and spins. *)
OnError == IF who = "zsl" THEN "error" ELSE "stuck"
OnNone == IF who = "zsl" THEN "copy" ELSE "stuck"

ReadFails ==
  /\ \E at \in {"header", "entry", "type"} :
       /\ at = "entry" => p < Len(table)
       /\ Go(at, OnError)
  /\ failed' = TRUE
  /\ UNCHANGED <<disk, who, table, p, range, mem, reader>>

------------------------------------------------------------------------------
(* gpt_find_partition.                                                     *)
\* Wrong version: the search begins with the second entry.
ReadHeaderFromOne ==
  /\ Go("header", "entry")
  /\ table' \in {disk.parts} \cup (IF Reliable THEN {} ELSE Misread)
  /\ p' = 1
  /\ UNCHANGED <<disk, who, range, mem, reader, failed>>

ReadHeader ==
  /\ Go("header", "entry")
  /\ table' \in {disk.parts} \cup (IF Reliable THEN {} ELSE Misread)
  /\ p' = 0
  /\ UNCHANGED <<disk, who, range, mem, reader, failed>>

Minus(a, b) == (a - b) % NumLbas
FirstRange(e) ==
  [first |-> e.first, last |-> Min({e.last, Minus(e.first + Limit[who], 1)})]

\* Wrong version: an entry one sector longer than the limit is accepted.
TooLargeByTwo(e) == Minus(e.last, e.first) > Limit[who]

TooLarge(e) == Minus(e.last, e.first) >= Limit[who]

\* Wrong version: an entry that is too large is looked at again.
ReadEntryAgain ==
  LET e == table[p + 1] IN
  /\ pc = "entry" /\ p < Len(table)
  /\ range' = IF p = 0 THEN FirstRange(e) ELSE range
  /\ IF TooLarge(e) THEN UNCHANGED <<p, pc>> ELSE pc' = "type" /\ p' = p
  /\ UNCHANGED <<disk, who, table, mem, reader, failed>>

ReadEntry ==
  LET e == table[p + 1] IN
  /\ pc = "entry" /\ p < Len(table)
  /\ range' = IF p = 0 THEN FirstRange(e) ELSE range
  /\ IF TooLarge(e) THEN p' = p + 1 /\ pc' = pc ELSE pc' = "type" /\ p' = p
  /\ UNCHANGED <<disk, who, table, mem, reader, failed>>

\* Wrong version: the extent of the entry that matches is not written out.
MatchTypeKeepsFirst ==
  /\ pc = "type"
  /\ IF table[p + 1].type = who
       THEN pc' = "copy" /\ p' = p
       ELSE pc' = "entry" /\ p' = p + 1
  /\ UNCHANGED <<disk, who, table, range, mem, reader, failed>>

MatchType ==
  LET e == table[p + 1] IN
  /\ pc = "type"
  /\ IF e.type = who
       THEN /\ pc' = "copy" /\ p' = p
            /\ range' = [first |-> e.first, last |-> e.last]
       ELSE /\ pc' = "entry" /\ p' = p + 1
            /\ range' = range
  /\ UNCHANGED <<disk, who, table, mem, reader, failed>>

\* Wrong version: the last entry is not looked at.
SearchEndsEarly ==
  /\ p >= Len(table) - 1
  /\ Go("entry", OnNone)
  /\ UNCHANGED <<disk, who, table, p, range, mem, reader, failed>>

SearchEnds ==
  /\ p = Len(table)
  /\ Go("entry", OnNone)
  /\ UNCHANGED <<disk, who, table, p, range, mem, reader, failed>>

------------------------------------------------------------------------------
(* The copy: lba_end is inclusive, and the address and the length in bytes *)
(* are computed in 64 bits.  Of a read that fails, any part may have been  *)
(* written.                                                                *)
Copied(whole) ==
  [mem EXCEPT ![who] = [first |-> range.first % AddrLbas, whole |-> whole,
                        count |-> Minus(range.last + 1, range.first) % AddrLbas]]

\* What the read of a copy may come to, and whether all of it is right.
Right(ok, whole) == IF ok THEN Reliable => whole ELSE ~whole

(* The ROM leaves the read function to the code it has copied, and runs    *)
(* it: the zero-stage loader if the copy begins with all of it.            *)
HoldsLoader(m) ==
  \E k \in 1 .. Len(disk.parts) : LET e == disk.parts[k] IN
    /\ disk.gpt /\ e.type = "zsl" /\ e.first <= e.last
    /\ m.whole /\ m.first = e.first /\ m.count > Minus(e.last, e.first)

BootCopy ==
  /\ who = "zsl"
  /\ \E whole \in BOOLEAN : Right(TRUE, whole) /\ mem' = Copied(whole)
  /\ reader' = TRUE
  /\ Go("copy", IF HoldsLoader(mem'["zsl"]) THEN "zsl" ELSE "foreign")
  /\ UNCHANGED <<disk, who, table, p, range, failed>>

CopyFails ==
  /\ who = "zsl"
  /\ mem' = Copied(FALSE)
  /\ Go("copy", "error")
  /\ failed' = TRUE
  /\ UNCHANGED <<disk, who, table, p, range, reader>>

(* The zero-stage loader: without a read function, the payload is there    *)
(* already.                                                                *)
StartLoader ==
  /\ IF reader
       THEN Go("zsl", "header") /\ who' = "dtb"
       ELSE Go("zsl", "launched") /\ who' = who
  /\ UNCHANGED <<disk, table, p, range, mem, reader, failed>>

\* Wrong version: the firmware is launched after the device tree.
LoadPartDtbOnly ==
  /\ who # "zsl"
  /\ \E ok, whole \in BOOLEAN :
       Right(ok, whole) /\ mem' = Copied(whole) /\ failed' = (failed \/ ~ok)
  /\ Go("copy", "launched")
  /\ UNCHANGED <<disk, who, table, p, range, reader>>

(* load_part_or_spin does not look at the result of this read.             *)
LoadPart ==
  /\ who # "zsl"
  /\ \E ok, whole \in BOOLEAN :
       Right(ok, whole) /\ mem' = Copied(whole) /\ failed' = (failed \/ ~ok)
  /\ \/ who = "dtb" /\ Go("copy", "header") /\ who' = "fw"
     \/ who = "fw" /\ Go("copy", "launched") /\ who' = who
  /\ UNCHANGED <<disk, table, p, range, reader>>

(* The ends: the loop after _exit, other code, wfi for ever, the firmware. *)
Stop == pc \in Final /\ UNCHANGED vars

Works ==
  \/ InitDevice \/ CheckSignature
  \/ ReadHeader \/ ReadEntry \/ MatchType \/ SearchEnds
  \/ BootCopy \/ StartLoader \/ LoadPart

Next == Works \/ ReadFails \/ CopyFails \/ Stop

Spec == Init /\ [][Next]_vars

(* Every call of a driver returns.                                         *)
FairSpec == Spec /\ WF_vars(Works)

------------------------------------------------------------------------------
(* A premise of some proofs: no entry begins within the limit of the end   *)
(* of what 64 bits address in bytes (2^55 sectors, less 8192 for the       *)
(* firmware).  Nothing in the code checks it; behind that, an address      *)
(* wraps around to the start of the disk.                                  *)
Addressable ==
  \A d \in Disks : \A k \in DOMAIN d.parts : \A b \in {"zsl", "dtb", "fw"} :
    d.parts[k].first + Limit[b] <= AddrLbas

(* What the search is for, said without the loop: the first entry of the   *)
(* type that is well formed and fits; 0 if there is none.                  *)
Fits(e, limit) == e.first <= e.last /\ e.last - e.first < limit
FirstOf(t) ==
  LET fitting == {k \in DOMAIN disk.parts :
                    disk.parts[k].type = t /\ Fits(disk.parts[k], Limit[t])}
  IN  IF fitting = {} THEN 0 ELSE Min(fitting)

Extent(m) == [first |-> m.first, count |-> m.count]
All(k) == [first |-> disk.parts[k].first,
           count |-> disk.parts[k].last - disk.parts[k].first + 1]
UpTo(n, m) == [m EXCEPT !.count = Min({n, @})]
Raw == [first |-> 0, count |-> SpmLbas]

FirstIllFormed == disk.parts # <<>> /\ disk.parts[1].first > disk.parts[1].last

(* The boot ROM executes the first loader partition that fits in SPM, all  *)
(* of it; without one, as much of the first partition as fits; without     *)
(* partitions or a signature it could read, the start of the disk.  A      *)
(* first entry that ends before it begins is no fallback.  The bytes are   *)
(* those of the disk, unless the signature could not be read from an SD    *)
(* card: what is executed then may be anything (gpt.c:18, gpt.c:83).       *)
BootsChosen ==
  pc \in {"zsl", "foreign"} /\ reader =>
    /\ Reliable => mem["zsl"].whole
    /\ Extent(mem["zsl"]) =
         IF failed \/ ~disk.gpt \/ disk.parts = <<>> THEN Raw
         ELSE IF FirstOf("zsl") # 0 THEN All(FirstOf("zsl"))
         ELSE IF FirstIllFormed THEN Extent(mem["zsl"])
         ELSE UpTo(SpmLbas, All(1))

(* No copy, not even one that fails, writes past its buffer: above the     *)
(* sectors meant for it in SPM lies the stack of the boot ROM.             *)
NothingBeyond ==
  \A b \in {"zsl", "dtb", "fw"} :
    (b = "zsl" => ~FirstIllFormed) => mem[b].count <= Limit[b]

(* Firmware that is launched from a disk lies with its device tree where   *)
(* the zero-stage loader puts them, each the first of its type to fit, and *)
(* if no read has failed, both are whole.  They need not be if one has:    *)
(* the loader does not look at the result of the copies (zsl.c:44), and    *)
(* an SD card may even lead it to another place.                           *)
Placed(b) == FirstOf(b) # 0 /\ Extent(mem[b]) = All(FirstOf(b))
LaunchesRight ==
  pc = "launched" /\ reader =>
    \A b \in {"dtb", "fw"} : (Reliable => Placed(b)) /\ (~failed => mem[b].whole)

(* If no read fails, a boot gives up only because what it needs is not on  *)
(* the disk.                                                               *)
FailsForAReason ==
  ~failed =>
    /\ pc # "error"
    /\ pc = "stuck" => FirstOf(who) = 0
    /\ pc = "foreign" => ~disk.gpt \/ FirstOf("zsl") = 0 \/ FirstIllFormed

(* Every boot comes to an end.                                             *)
Ends == <>(pc \in Final)
==============================================================================
