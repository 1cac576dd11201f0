--------------------------- MODULE MCProgramStart ----------------------------
EXTENDS ProgramStart

Header(type, paddr, filesz, memsz) ==
  [type |-> type, paddr |-> paddr, filesz |-> filesz, memsz |-> memsz]

Own(top, pointer, bss, end) ==
  [start |-> 2, stack |-> top, gp |-> pointer, bss |-> bss, end |-> end, handler |-> "keeps"]

Plain == Own(0, 0, 9, 12)
Rich == Own(42, 7, 9, 16)
Trapless == [Plain EXCEPT !.handler = "none"]
Careless == [Rich EXCEPT !.handler = "clobbers"]
NoBss == Own(42, 0, 9, 9)

MCPrograms == {Plain, Rich, Careless, Trapless, NoBss}

File(kind, phdrs, prog) == [kind |-> kind, entry |-> 2, phdrs |-> phdrs, program |-> prog]

\* One section of any start, content and size.
Single ==
  {File("good", <<Header("PT_LOAD", a, f, n)>>, Plain) : a \in 2 .. 3, f \in 0 .. 6, n \in 0 .. 6}

\* Two sections that touch, in either order, and .bss of its own behind them.
Double ==
  UNION {{File("good", <<Header("PT_LOAD", 2, n, n), Header("PT_LOAD", 2 + n, f, 7 - n),
                         Header("PT_NOTE", 0, 4, 4), Header("PT_LOAD", 9, 0, 3)>>, Rich),
          File("good", <<Header("PT_LOAD", 2 + n, f, 7 - n), Header("PT_LOAD", 2, n, n)>>, NoBss)} :
         n \in 1 .. 5, f \in 1 .. 2}

\* Content right behind .bss, as .bulk is in spm.ld and dram.ld.
Bulk ==
  {File("good", <<Header("PT_LOAD", 2, 3, 3), Header("PT_LOAD", q.end, 2, n)>>, q) :
     q \in {Plain, Rich, Careless}, n \in 2 .. 3}

\* Files with a fault, and one with two headers for the same address.
Faulty ==
  {File(kind, <<Header("PT_LOAD", 2, 3, 3)>>, Trapless) :
     kind \in Rejected \cup Truncated \cup {"content_beyond", "shdrs_beyond"}}
  \cup {File("good", <<Header("PT_LOAD", 2, 2, 4), Header("PT_LOAD", 2, 3, 5)>>, NoBss)}

MCFiles == Single \cup Double \cup Bulk \cup Faulty
MCWhere == 0 .. 20

\* The premises of the proofs hold for this instance.
ASSUME InstanceHasRoom == Roomy /\ LinkedAbove
==============================================================================
