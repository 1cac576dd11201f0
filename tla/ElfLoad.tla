------------------------------- MODULE ElfLoad --------------------------------
(***************************************************************************)
(* The loading of an ELF file by the test bench: the C++ loader cuts the   *)
(* file into sections, and the preload task of a host writes each section  *)
(* in bursts, over JTAG, the serial link or the UART.                      *)
(***************************************************************************)
EXTENDS Integers, Sequences

CONSTANTS
  Files,       (* The files considered.                                   *)
  Hosts,       (* Of "jtag", "slink" and "uart".                          *)
  WordBytes,   (* 8: width of the bus (AxiStrbWidth) and of a JTAG word.  *)
  SlinkBurst,  (* SlinkBurstBytes, a multiple of WordBytes.               *)
  UartBurst,   (* UartBurstBytes.                                         *)
  Where        (* The addresses of the memory looked at.                  *)

\* What counts of a program header, in files of 32 and of 64 bits.
ProgramHeader == [type : STRING, paddr : Nat, filesz : Nat, memsz : Nat]

\* What may be wrong with a file: it is no ELF file that can be opened, its
\* program headers, section headers or content lie beyond its end, or nothing.
Rejected == {"missing", "no_stat", "small", "no_map", "no_magic"}
Truncated == {"phdrs_beyond"}
Kinds == Rejected \cup Truncated \cup {"shdrs_beyond", "content_beyond", "good"}

ASSUME ElfAssumption ==
  /\ \A f \in Files : f.kind \in Kinds /\ f.entry \in Nat /\ f.phdrs \in Seq(ProgramHeader)
  /\ Hosts \subseteq {"jtag", "slink", "uart"}
  /\ {WordBytes, SlinkBurst, UartBurst} \subseteq Nat \ {0} /\ SlinkBurst % WordBytes = 0
  /\ Where \subseteq Int

VARIABLES
  hpc,       (* Where the host is.                                        *)
  via,       (* Which host it is.                                         *)
  file,      (* The file.                                                 *)
  header,    (* The program header that load_elf has come to.             *)
  entry,     (* The loader's globals: entry point,                        *)
  sections,  (*   address and length of each section,                     *)
  mems,      (*   the content, by address,                                *)
  index,     (*   section_index, the sections handed out.                 *)
  bf, sec,   (* The section being written: content, address and length.   *)
  i,         (* Where its next burst starts.                              *)
  mem        (* The memory of the chip.                                   *)

host == <<hpc, via, file, header, entry, sections, mems, index, bf, sec, i>>

\* A byte: its program header and its offset there; or no byte of the file.
Byte(h, k) == <<h, k>>
Zero == <<0, 0>>
Old == <<0, 1>>

HostLabels == {"open", "headers", "next", "burst", "start", "fatal"}

HostTypeOK ==
  /\ hpc \in HostLabels
  /\ via \in Hosts /\ file \in Files
  /\ header \in 1 .. Len(file.phdrs) + 1
  /\ entry \in Nat
  /\ sections \in Seq([addr : Nat, len : Nat \ {0}])
  /\ DOMAIN mems \subseteq Nat
  /\ index \in 0 .. Len(sections)
  /\ sec \in [addr : Nat, len : Nat]
  /\ i \in Nat
  /\ DOMAIN mem = Where

HostInit ==
  /\ hpc = "open"
  /\ via \in Hosts /\ file \in Files
  /\ header = 1 /\ entry = 0 /\ index = 0
  /\ sections = <<>> /\ mems = <<>> /\ bf = <<>>
  /\ sec = [addr |-> 0, len |-> 0]
  /\ i = 0
  /\ mem = [a \in Where |-> Old]

------------------------------------------------------------------------------
\* Wrong version: a header without size is not skipped.
LoadableAnySize(ph) == ph.type = "PT_LOAD" /\ ph.filesz > 0

(* load_elf: a header is loadable if it has a size, and is skipped if it   *)
(* has no content.                                                         *)
Loadable(ph) == ph.type = "PT_LOAD" /\ ph.memsz > 0 /\ ph.filesz > 0

LoadHeaders == {h \in DOMAIN file.phdrs : Loadable(file.phdrs[h])}

SectionOf(ph) == [addr |-> ph.paddr, len |-> ph.memsz]

(* read_elf: it fails for a file that cannot be opened, mapped or          *)
(* recognized; the assertion on content beyond the end of the file stops   *)
(* the simulation.  A load_elf that finds its headers truncated returns    *)
(* before it has stored anything, and read_elf reports success; where the  *)
(* section headers are truncated, all is loaded.                           *)
ReadElf ==
  /\ hpc = "open"
  /\ IF file.kind \in Rejected \cup {"content_beyond"}
       THEN hpc' = "fatal" /\ UNCHANGED entry
       ELSE IF file.kind \in Truncated
       THEN hpc' = "next" /\ UNCHANGED entry
       ELSE hpc' = "headers" /\ entry' = file.entry
  /\ UNCHANGED <<via, file, header, sections, mems, index, bf, sec, i, mem>>

\* write: content whose address is there already is not taken.
Write(a, content) ==
  mems' = [b \in DOMAIN mems \cup {a} |-> IF b \in DOMAIN mems THEN mems[b] ELSE content]

\* One turn of load_elf's loop over the program headers.
LoadHeader ==
  /\ hpc = "headers"
  /\ IF header <= Len(file.phdrs)
       THEN LET ph == file.phdrs[header] IN
            /\ header' = header + 1 /\ hpc' = hpc
            /\ IF Loadable(ph)
                 THEN /\ sections' = Append(sections, SectionOf(ph))
                      /\ Write(ph.paddr, [k \in 1 .. ph.filesz |-> Byte(header, k - 1)])
                 ELSE UNCHANGED <<sections, mems>>
       ELSE hpc' = "next" /\ UNCHANGED <<header, sections, mems>>
  /\ UNCHANGED <<via, file, entry, index, bf, sec, i, mem>>

\* Wrong version: section_index is not moved on.
GetSectionAgain ==
  /\ hpc = "next" /\ index < Len(sections)
  /\ hpc' = "burst"
  /\ sec' = sections[index + 1]
  /\ i' = 0
  /\ bf' = [k \in 1 .. sec'.len |-> Zero]
  /\ UNCHANGED <<via, file, header, entry, sections, mems, index, mem>>

(* get_section, and read_section into a buffer of zeros as long as the     *)
(* section; without a further section, get_entry.                          *)
GetSection ==
  /\ hpc = "next"
  /\ IF index < Len(sections)
       THEN /\ index' = index + 1
            /\ sec' = sections[index + 1]
            /\ i' = 0
            /\ IF Len(mems[sec'.addr]) > sec'.len
                 THEN hpc' = "fatal" /\ UNCHANGED bf
                 ELSE /\ hpc' = "burst"
                      /\ bf' = [k \in 1 .. sec'.len |->
                                  IF k <= Len(mems[sec'.addr]) THEN mems[sec'.addr][k] ELSE Zero]
       ELSE hpc' = "start" /\ UNCHANGED <<index, sec, i, bf>>
  /\ UNCHANGED <<via, file, header, entry, sections, mems, mem>>

------------------------------------------------------------------------------
(* The bursts of a section; the loops go on while i <= sec.len.            *)
BufferAt(k) == IF k \in 0 .. sec.len - 1 THEN bf[k + 1] ELSE Zero

\* Addresses a receive the bytes that the section has for them.
Land(as) == mem' = [a \in Where |-> IF a \in as THEN BufferAt(a - sec.addr) ELSE mem[a]]

Offset(a) == a % WordBytes
From == sec.addr + i
Advance(n) == i' = i + n /\ UNCHANGED <<hpc, via, file, header, entry, sections, mems, index, bf, sec>>
Bursting(h) == hpc = "burst" /\ via = h /\ i <= sec.len

\* JTAG: one word.  The system bus access of the debug module is made for
\* aligned words; what becomes of another one is left open.
JtagWord ==
  /\ Bursting("jtag")
  /\ \/ Land(From .. From + WordBytes - 1)
     \/ Offset(sec.addr) # 0 /\ UNCHANGED mem
  /\ Advance(WordBytes)

\* Serial link: a beat is the section's content at an aligned word.
Shift == Offset(sec.addr)
Beats == {b \in 0 .. (SlinkBurst \div WordBytes) - 1 : i + b * WordBytes - Shift < sec.len}
Beat(b) == LET word == From - Shift + b * WordBytes IN word .. word + WordBytes - 1

\* Wrong version: all bytes of the first beat are written.
BeatBytesUnmasked == UNION {Beat(b) : b \in Beats}

\* In the first beat of every burst, the bytes before its address are masked.
BeatBytes == {a \in UNION {Beat(b) : b \in Beats} : a >= From}

SlinkWrite ==
  /\ Bursting("slink")
  /\ IF Beats = {}
       THEN hpc' = "fatal" /\ UNCHANGED <<via, file, header, entry, sections, mems, index, bf, sec, i, mem>>
       ELSE Land(BeatBytes) /\ Advance(SlinkBurst)

\* UART: a write command of the bytes that are left, of none in the end.
UartWrite ==
  /\ Bursting("uart")
  /\ Land({a \in From .. From + UartBurst - 1 : a < sec.addr + sec.len})
  /\ Advance(UartBurst)

Written ==
  /\ hpc = "burst" /\ i > sec.len
  /\ hpc' = "next"
  /\ UNCHANGED <<via, file, header, entry, sections, mems, index, bf, sec, i, mem>>

HostNext == ReadElf \/ LoadHeader \/ GetSection \/ JtagWord \/ SlinkWrite \/ UartWrite \/ Written

------------------------------------------------------------------------------
(* The files and hosts for which loading must be exact: the loader takes   *)
(* the file, its sections are in ascending order and do not overlap, and   *)
(* the host can write where they start.                                    *)
Ascending ==
  \A g, h \in LoadHeaders :
    g < h => file.phdrs[g].paddr + file.phdrs[g].memsz <= file.phdrs[h].paddr

Fits(ph) ==
  CASE via = "jtag" -> Offset(ph.paddr) = 0
    [] via = "slink" -> Offset(ph.paddr) = 0 \/ Offset(ph.paddr) + ph.memsz <= SlinkBurst
    [] OTHER -> TRUE

Tidy == Ascending /\ \A h \in LoadHeaders : Fits(file.phdrs[h])

\* What section h has at address a.
Content(h, a) ==
  LET k == a - file.phdrs[h].paddr IN IF k < file.phdrs[h].filesz THEN Byte(h, k) ELSE Zero

Loaded(h) ==
  \A a \in Where \cap (file.phdrs[h].paddr .. file.phdrs[h].paddr + file.phdrs[h].memsz - 1) :
    mem[a] = Content(h, a)
==============================================================================
