------------------------------ MODULE GptProofs ------------------------------
(***************************************************************************)
(* Proofs about GptBoot: for every size of LBAs, every limit and every     *)
(* partition table, no copy is longer than its buffer; and where numbers   *)
(* of sectors do not wrap around, what is copied is what the search is     *)
(* for.                                                                    *)
(***************************************************************************)
EXTENDS GptBoot, TLAPS

Parts == {"zsl", "dtb", "fw"}

\* How many sectors a copy of this range takes.
Size(r) == Minus(r.last + 1, r.first)

\* Where the loader's range is not looked at any more.
After == {"zsl", "error", "foreign", "launched"}

(* The range that is copied never exceeds the limit: that of the entry     *)
(* found because it has been compared, the fallback because it was cut,    *)
(* the raw start of the disk by its definition.                            *)
RangeInv ==
  /\ pc \in {"init", "signature"} => who = "zsl"
  /\ who = "zsl" /\ pc \in {"header", "entry", "type"} => ~failed
  /\ pc \in {"entry", "type"} /\ Reliable => table = disk.parts
  /\ pc = "type" => ~TooLarge(table[p + 1])
  /\ pc \notin After /\ who = "zsl" =>
       Size(range) <= SpmLbas \/ FirstIllFormed
  /\ pc = "copy" => Size(range) <= Limit[who] \/ (who = "zsl" /\ FirstIllFormed)

GptInv == TypeOK /\ RangeInv /\ NothingBeyond

------------------------------------------------------------------------------
(* Arithmetic modulo NumLbas.                                              *)
LEMMA Limits ==
  /\ NumLbas \in Nat /\ NumLbas >= 2 /\ AddrLbas \in 2 .. NumLbas - 1
  /\ SpmLbas \in 1 .. NumLbas - 1 /\ SpmLbas < AddrLbas
  /\ \A b \in Parts : Limit[b] \in 1 .. NumLbas - 1 /\ Limit[b] < AddrLbas
  /\ Limit["zsl"] = SpmLbas
BY LbasAssumption DEF LBA, Parts, Limit

LEMMA ProductFacts ==
  ASSUME NEW n \in Nat, NEW q \in Int
  PROVE  /\ n * q \in Int
         /\ q <= -2 => n * q <= -(n + n)
         /\ q >= 2 => n * q >= n + n
<1>1. n * q \in Int /\ n * (q + 2) = n * q + (n + n) /\ n * (q - 2) = n * q - (n + n)
  BY SMTT(20)
<1>2. q <= -2 => n * (q + 2) <= 0
  BY SMTT(20)
<1>3. q >= 2 => n * (q - 2) >= 0
  BY SMTT(20)
<1>. QED  BY <1>1, <1>2, <1>3

LEMMA MinusFacts ==
  ASSUME NEW a \in 0 .. NumLbas + NumLbas - 2, NEW b \in LBA
  PROVE  /\ Minus(a, b) \in LBA
         /\ b <= a /\ a - b < NumLbas => Minus(a, b) = a - b
         /\ a - b >= NumLbas => Minus(a, b) = a - b - NumLbas
         /\ a < b => Minus(a, b) = a - b + NumLbas
<1>1. NumLbas \in Nat /\ NumLbas >= 2 /\ a - b \in Int
  BY Limits DEF LBA
<1>. DEFINE m == (a - b) % NumLbas
            q == (a - b) \div NumLbas
<1>2. m \in 0 .. NumLbas - 1 /\ q \in Int /\ a - b = NumLbas * q + m
  BY <1>1, SMTT(20)
<1>. HIDE DEF q
<1>3. a - b \in -(NumLbas - 1) .. NumLbas + NumLbas - 2 /\ Minus(a, b) = m
  BY <1>1 DEF LBA, Minus
<1>. HIDE DEF m
<1>4. NumLbas * q \in Int /\ ~(q <= -2) /\ ~(q >= 2)
  BY <1>1, <1>2, <1>3, ProductFacts
<1>5. q \in {-1, 0, 1}
  BY <1>2, <1>4
<1>6. /\ NumLbas * q \in {-NumLbas, 0, NumLbas}
      /\ q = -1 => NumLbas * q = -NumLbas
      /\ q = 0 => NumLbas * q = 0
      /\ q = 1 => NumLbas * q = NumLbas
  BY <1>1, <1>5
<1>. QED  BY <1>1, <1>2, <1>3, <1>5, <1>6 DEF LBA

\* Counted in bytes, a range is not longer.
LEMMA InBytes ==
  ASSUME NEW n \in LBA
  PROVE  n % AddrLbas \in LBA /\ n % AddrLbas <= n /\ (n < AddrLbas => n % AddrLbas = n)
<1>1. n \in Nat /\ AddrLbas \in Nat \ {0} /\ AddrLbas <= NumLbas /\ NumLbas \in Nat
  BY Limits DEF LBA
<1>. DEFINE m == n % AddrLbas
            q == n \div AddrLbas
            product == AddrLbas * q
<1>2. m \in 0 .. AddrLbas - 1 /\ q \in Int /\ n = product + m
  BY <1>1, SMTT(20)
<1>3. product \in Int /\ (q <= -1 => product <= -AddrLbas) /\ (q >= 1 => product >= AddrLbas)
      /\ (q = 0 => product = 0)
  <2>. HIDE DEF q
  <2>1. /\ AddrLbas * q \in Int /\ AddrLbas * (q + 1) = AddrLbas * q + AddrLbas
        /\ AddrLbas * (q - 1) = AddrLbas * q - AddrLbas
    BY <1>1, <1>2, SMTT(20)
  <2>2. (q <= -1 => AddrLbas * (q + 1) <= 0) /\ (q >= 1 => AddrLbas * (q - 1) >= 0)
    BY <1>1, <1>2, SMTT(20)
  <2>3. q = 0 => AddrLbas * q = 0
    BY <1>1
  <2>. QED  BY <1>1, <2>1, <2>2, <2>3
<1>. HIDE DEF m, q, product
<1>4. q >= 0 /\ (n < AddrLbas => q = 0)
  BY <1>1, <1>2, <1>3
<1>5. m \in LBA /\ m <= n /\ (n < AddrLbas => m = n)
  <2>1. product >= 0
    BY <1>1, <1>2, <1>3, <1>4
  <2>. QED  BY <1>1, <1>2, <1>3, <1>4, <2>1 DEF LBA
<1>. QED  BY <1>5 DEF m

LEMMA MinFacts ==
  ASSUME NEW x \in Int, NEW y \in Int
  PROVE  Min({x, y}) = IF x <= y THEN x ELSE y
<1>. DEFINE z == IF x <= y THEN x ELSE y
<1>1. z \in {x, y} /\ \A w \in {x, y} : z <= w
  OBVIOUS
<1>2. \A v \in {x, y} : (\A w \in {x, y} : v <= w) => v = z
  OBVIOUS
<1>. QED  BY <1>1, <1>2 DEF Min

------------------------------------------------------------------------------
(* Lengths of copies.                                                      *)
Extents == [first : LBA, last : LBA]

\* A range takes its last sector too; from a last before the first it wraps.
LEMMA SizeFacts ==
  ASSUME NEW r \in Extents
  PROVE  /\ Size(r) \in LBA
         /\ r.first <= r.last => Size(r) <= r.last - r.first + 1
         /\ r.last < r.first => Size(r) <= r.last - r.first + 1 + NumLbas
<1>1. r.first \in LBA /\ r.last \in LBA /\ r.last + 1 \in 0 .. NumLbas + NumLbas - 2
  BY Limits DEF Extents, LBA
<1>2. NumLbas \in Nat
  BY Limits
<1>. DEFINE a == r.last + 1
            b == r.first
<1>3. a \in 0 .. NumLbas + NumLbas - 2 /\ b \in LBA /\ a = r.last + 1 /\ b = r.first
  BY <1>1
<1>. HIDE DEF a, b
<1>4. /\ Minus(a, b) \in LBA
      /\ b <= a /\ a - b < NumLbas => Minus(a, b) = a - b
      /\ a - b >= NumLbas => Minus(a, b) = a - b - NumLbas
      /\ a < b => Minus(a, b) = a - b + NumLbas
  BY <1>3, MinusFacts
<1>5. Size(r) = Minus(a, b)
  BY <1>3 DEF Size
<1>6. r.first \in Int /\ r.last \in Int /\ a \in Int /\ b \in Int /\ Minus(a, b) \in 0 .. NumLbas - 1
  BY <1>1, <1>2, <1>3, <1>4 DEF LBA
<1>7. r.first <= r.last => Minus(a, b) <= r.last - r.first + 1
  BY <1>2, <1>3, <1>4, <1>6
<1>8. r.last < r.first => Minus(a, b) <= r.last - r.first + 1 + NumLbas
  BY <1>2, <1>3, <1>4, <1>6
<1>. QED  BY <1>4, <1>5, <1>7, <1>8

\* An entry that is not too large is not too large with its last sector.
LEMMA EntrySize ==
  ASSUME who \in Parts, NEW e \in Entry, ~TooLarge(e)
  PROVE  Size([first |-> e.first, last |-> e.last]) <= Limit[who]
<1>. DEFINE r == [first |-> e.first, last |-> e.last]
<1>1. e.first \in LBA /\ e.last \in LBA /\ e.last \in 0 .. NumLbas + NumLbas - 2 /\ r \in Extents
  BY Limits DEF Entry, Extents, LBA
<1>2. Limit[who] \in 1 .. NumLbas - 1 /\ NumLbas \in Nat
  BY Limits
<1>3. /\ Minus(e.last, e.first) \in LBA
      /\ e.first <= e.last /\ e.last - e.first < NumLbas => Minus(e.last, e.first) = e.last - e.first
      /\ e.last < e.first => Minus(e.last, e.first) = e.last - e.first + NumLbas
  BY <1>1, MinusFacts
<1>a. Minus(e.last, e.first) < Limit[who]
  BY <1>2, <1>3 DEF TooLarge, LBA
<1>4. /\ Size(r) \in LBA
      /\ e.first <= e.last => Size(r) <= e.last - e.first + 1
      /\ e.last < e.first => Size(r) <= e.last - e.first + 1 + NumLbas
  <2>1. r.first = e.first /\ r.last = e.last
    OBVIOUS
  <2>. QED  BY <1>1, <2>1, SizeFacts
<1>. HIDE DEF r
<1>5. e.first <= e.last => Size(r) <= Limit[who]
  BY <1>1, <1>2, <1>3, <1>a, <1>4 DEF LBA
<1>6. e.last < e.first => Size(r) <= Limit[who]
  BY <1>1, <1>2, <1>3, <1>a, <1>4 DEF LBA
<1>7. Size(r) <= Limit[who]
  BY <1>1, <1>5, <1>6 DEF LBA
<1>. QED  BY <1>7 DEF r

\* The fallback is cut to the limit, also where the limit wraps around.
LEMMA FallbackSize ==
  ASSUME who \in Parts, NEW e \in Entry
  PROVE  /\ FirstRange(e) \in Extents
         /\ e.first <= e.last => Size(FirstRange(e)) <= Limit[who]
<1>. DEFINE end == Minus(e.first + Limit[who], 1)
            last == IF e.last <= end THEN e.last ELSE end
            r == [first |-> e.first, last |-> last]
<1>1. /\ e.first \in LBA /\ e.last \in LBA /\ 1 \in LBA
      /\ e.first + Limit[who] \in 0 .. NumLbas + NumLbas - 2
  BY Limits DEF Entry, LBA
<1>2. Limit[who] \in 1 .. NumLbas - 1 /\ NumLbas \in Nat
  BY Limits
<1>0. e.first + Limit[who] >= 1
  BY <1>1, <1>2 DEF LBA
<1>3. /\ end \in LBA
      /\ e.first + Limit[who] - 1 < NumLbas => end = e.first + Limit[who] - 1
      /\ e.first + Limit[who] - 1 >= NumLbas => end = e.first + Limit[who] - 1 - NumLbas
  <2>. DEFINE a == e.first + Limit[who]
  <2>1. a \in 0 .. NumLbas + NumLbas - 2 /\ a >= 1 /\ a = e.first + Limit[who]
    BY <1>0, <1>1
  <2>2. e.first \in Int /\ Limit[who] \in Int /\ a \in Int
    BY <1>1, <1>2 DEF LBA
  <2>. HIDE DEF a
  <2>3. /\ Minus(a, 1) \in LBA
        /\ 1 <= a /\ a - 1 < NumLbas => Minus(a, 1) = a - 1
        /\ a - 1 >= NumLbas => Minus(a, 1) = a - 1 - NumLbas
    BY <1>1, <2>1, MinusFacts
  <2>4. end = Minus(a, 1)
    BY <2>1
  <2>. HIDE DEF end
  <2>. QED  BY <1>2, <2>1, <2>2, <2>3, <2>4
<1>. HIDE DEF end
<1>4. FirstRange(e) = r
  BY <1>1, <1>3, MinFacts DEF FirstRange, end, LBA
<1>5. last \in LBA /\ r \in Extents /\ r.first = e.first /\ r.last = last
  BY <1>1, <1>3 DEF Extents
<1>6. /\ Size(r) \in LBA
      /\ e.first <= last => Size(r) <= last - e.first + 1
      /\ last < e.first => Size(r) <= last - e.first + 1 + NumLbas
  BY <1>5, SizeFacts
<1>. HIDE DEF r
<1>7. e.first <= e.last => Size(r) <= Limit[who]
  BY <1>1, <1>2, <1>3, <1>5, <1>6 DEF LBA
<1>. QED  BY <1>4, <1>5, <1>7


------------------------------------------------------------------------------
(* The steps.                                                              *)
LEMMA InitialInv == Init => GptInv
<1>. SUFFICES ASSUME Init PROVE GptInv
  OBVIOUS
<1>1. SpmLbas - 1 \in LBA /\ 0 \in LBA /\ SpmLbas - 1 \in Int /\ 0 <= SpmLbas - 1
  BY Limits DEF LBA
<1>2. TypeOK
  <2>2. mem \in [{"zsl", "dtb", "fw"} -> Loaded]
    BY <1>1 DEF Init, Loaded
  <2>3. p \in 0 .. Len(table) /\ ~(pc = "type") /\ pc \in Labels
    BY DEF Init, Labels
  <2>4. range \in [first : LBA, last : LBA]
    BY <1>1 DEF Init
  <2>. QED  BY <2>2, <2>3, <2>4 DEF Init, TypeOK
<1>3. Size(range) <= SpmLbas
  <2>1. range \in Extents /\ range.first = 0 /\ range.last = SpmLbas - 1
    BY <1>1 DEF Init, Extents
  <2>2. /\ Size(range) \in LBA
        /\ range.first <= range.last => Size(range) <= range.last - range.first + 1
    BY <2>1, SizeFacts
  <2>. QED  BY <1>1, <2>1, <2>2, Limits DEF LBA
<1>4. RangeInv
  BY <1>3 DEF Init, RangeInv
<1>5. NothingBeyond
  BY Limits DEF Init, NothingBeyond, Parts
<1>. QED  BY <1>2, <1>4, <1>5 DEF GptInv

\* The entry that is looked at.
LEMMA EntryFacts ==
  ASSUME TypeOK, p < Len(table)
  PROVE  /\ table[p + 1] \in Entry /\ p + 1 \in 0 .. Len(table)
         /\ p = 0 => table # <<>> /\ table[p + 1] = table[1]
<1>1. table \in Seq(Entry)
  <2>1. <<>> \in Seq(Entry)
    OBVIOUS
  <2>. QED  BY <2>1, DisksAssumption DEF TypeOK
<1>. QED  BY <1>1 DEF TypeOK

LEMMA ReadEntryStep == GptInv /\ ReadEntry => GptInv'
<1>. SUFFICES ASSUME GptInv, ReadEntry PROVE GptInv'
  OBVIOUS
<1>. DEFINE e == table[p + 1]
<1>1. /\ e \in Entry /\ p + 1 \in 0 .. Len(table) /\ who \in Parts /\ p < Len(table)
      /\ p = 0 => table # <<>> /\ e = table[1]
  BY EntryFacts DEF GptInv, TypeOK, ReadEntry, Parts
<1>2. /\ FirstRange(e) \in Extents
      /\ e.first <= e.last => Size(FirstRange(e)) <= Limit[who]
  BY <1>1, FallbackSize
<1>3. pc = "entry" /\ range' = (IF p = 0 THEN FirstRange(e) ELSE range)
  BY DEF ReadEntry
<1>4. /\ pc' = (IF TooLarge(e) THEN "entry" ELSE "type")
      /\ p' = (IF TooLarge(e) THEN p + 1 ELSE p)
      /\ disk' = disk /\ who' = who /\ table' = table /\ mem' = mem /\ reader' = reader /\ failed' = failed
  BY DEF ReadEntry
<1>5. TypeOK'
  <2>1. range' \in [first : LBA, last : LBA]
    BY <1>2, <1>3 DEF GptInv, TypeOK, Extents
  <2>2. p' \in 0 .. Len(table)' /\ (pc' = "type" => p' < Len(table)')
    BY <1>1, <1>4 DEF GptInv, TypeOK
  <2>. QED  BY <1>4, <2>1, <2>2 DEF GptInv, TypeOK, Labels
<1>6. pc' = "type" => ~TooLarge(table[p + 1])'
  <2>. SUFFICES ASSUME pc' = "type" PROVE ~TooLarge(table[p + 1])'
    OBVIOUS
  <2>1. ~TooLarge(e) /\ p' = p /\ table' = table /\ who' = who
    BY <1>4
  <2>. QED  BY <2>1 DEF TooLarge
<1>7. who = "zsl" => Size(range') <= SpmLbas \/ FirstIllFormed
  <2>1. CASE p = 0
    <3>0. who = "zsl" => table = disk.parts
      BY <1>3 DEF GptInv, RangeInv, Reliable
    <3>1. who = "zsl" /\ ~(e.first <= e.last) => FirstIllFormed
      BY <1>1, <2>1, <3>0 DEF FirstIllFormed, Entry, LBA
    <3>. QED  BY <1>2, <1>3, <2>1, <3>1, Limits
  <2>2. CASE p # 0
    BY <1>3, <2>2 DEF GptInv, RangeInv, After
  <2>. QED  BY <2>1, <2>2
<1>8. RangeInv'
  BY <1>3, <1>4, <1>6, <1>7 DEF GptInv, RangeInv, FirstIllFormed, Size, Reliable
<1>9. NothingBeyond'
  BY <1>4 DEF GptInv, NothingBeyond, FirstIllFormed
<1>. QED  BY <1>5, <1>8, <1>9 DEF GptInv

LEMMA MatchTypeStep == GptInv /\ MatchType => GptInv'
<1>. SUFFICES ASSUME GptInv, MatchType PROVE GptInv'
  OBVIOUS
<1>. DEFINE e == table[p + 1]
            r == [first |-> e.first, last |-> e.last]
<1>1. pc = "type" /\ p < Len(table) /\ who \in Parts /\ ~TooLarge(e)
  BY DEF GptInv, TypeOK, RangeInv, MatchType, Parts
<1>2. e \in Entry /\ p + 1 \in 0 .. Len(table)
  BY <1>1, EntryFacts DEF GptInv
<1>3. r \in Extents
  BY <1>2 DEF Entry, Extents
<1>4. Size(r) <= Limit[who]
  BY <1>1, <1>2, EntrySize
<1>5. /\ disk' = disk /\ who' = who /\ table' = table /\ mem' = mem /\ reader' = reader /\ failed' = failed
      /\ \/ pc' = "copy" /\ p' = p /\ range' = r
         \/ pc' = "entry" /\ p' = p + 1 /\ range' = range
  BY DEF MatchType
<1>. HIDE DEF r
<1>6. TypeOK'
  BY <1>2, <1>3, <1>5 DEF GptInv, TypeOK, Labels, Extents
<1>7. RangeInv'
  <2>1. CASE pc' = "copy" /\ range' = r
    BY <1>4, <1>5, <2>1, Limits DEF RangeInv, Size
  <2>2. CASE pc' = "entry" /\ range' = range
    BY <1>1, <1>5, <2>2 DEF GptInv, RangeInv, FirstIllFormed, Size, After, Reliable
  <2>. QED  BY <1>5, <2>1, <2>2
<1>8. NothingBeyond'
  BY <1>5 DEF GptInv, NothingBeyond, FirstIllFormed
<1>. QED  BY <1>6, <1>7, <1>8 DEF GptInv

\* What all copies have in common.
LEMMA CopyFacts ==
  ASSUME GptInv, pc = "copy", NEW whole \in BOOLEAN, mem' = Copied(whole), disk' = disk
  PROVE  mem' \in [{"zsl", "dtb", "fw"} -> Loaded] /\ NothingBeyond'
<1>1. range \in Extents /\ who \in Parts
  BY DEF GptInv, TypeOK, Extents, Parts
<1>2. /\ Size(range) \in LBA /\ Size(range) % AddrLbas \in LBA /\ Size(range) % AddrLbas <= Size(range)
      /\ range.first % AddrLbas \in LBA
  BY <1>1, SizeFacts, InBytes DEF Extents
<1>3. mem' = [mem EXCEPT ![who] = [first |-> range.first % AddrLbas, whole |-> whole,
                                   count |-> Size(range) % AddrLbas]]
  BY DEF Copied, Size
<1>4. mem' \in [{"zsl", "dtb", "fw"} -> Loaded]
  BY <1>1, <1>2, <1>3 DEF GptInv, TypeOK, Loaded, Parts, Extents
<1>5. /\ mem'[who].count = Size(range) % AddrLbas
      /\ \A b \in Parts \ {who} : mem'[b] = mem[b]
  BY <1>1, <1>3 DEF GptInv, TypeOK, Parts
<1>6. Size(range) <= Limit[who] \/ (who = "zsl" /\ FirstIllFormed)
  BY DEF GptInv, RangeInv
<1>7. ASSUME NEW b \in {"zsl", "dtb", "fw"}, b = "zsl" => ~FirstIllFormed'
      PROVE  mem'[b].count <= Limit[b]
  <2>1. CASE b = who
    <3>1. Limit[who] \in Int /\ Size(range) \in Int /\ Size(range) % AddrLbas \in Int
      BY <1>1, <1>2, Limits DEF LBA
    <3>2. Size(range) <= Limit[who]
      BY <1>6, <1>7, <2>1 DEF FirstIllFormed
    <3>. QED  BY <1>2, <1>5, <2>1, <3>1, <3>2
  <2>2. CASE b # who
    BY <1>5, <1>7, <2>2 DEF GptInv, NothingBeyond, FirstIllFormed, Parts
  <2>. QED  BY <2>1, <2>2
<1>8. NothingBeyond'
  BY <1>7 DEF NothingBeyond, Limit
<1>. QED  BY <1>4, <1>8

LEMMA CopySteps == GptInv /\ (BootCopy \/ CopyFails \/ LoadPart) => GptInv'
<1>. SUFFICES ASSUME GptInv, BootCopy \/ CopyFails \/ LoadPart PROVE GptInv'
  OBVIOUS
<1>1. /\ pc = "copy" /\ disk' = disk /\ table' = table /\ p' = p /\ range' = range
      /\ reader' \in BOOLEAN /\ failed' \in BOOLEAN
      /\ \E whole \in BOOLEAN : mem' = Copied(whole)
  BY DEF BootCopy, CopyFails, LoadPart, Go, GptInv, TypeOK
<1>2. mem' \in [{"zsl", "dtb", "fw"} -> Loaded] /\ NothingBeyond'
  BY <1>1, CopyFacts
<1>3. /\ pc' \in {"zsl", "foreign", "error", "header", "launched"}
      /\ who' \in Parts
      /\ pc' \in {"header", "launched"} => who' # "zsl"
  BY DEF BootCopy, CopyFails, LoadPart, Go, GptInv, TypeOK, Parts
<1>4. TypeOK'
  BY <1>1, <1>2, <1>3 DEF GptInv, TypeOK, Labels, Final, Parts
<1>5. RangeInv'
  BY <1>3 DEF RangeInv, After
<1>. QED  BY <1>2, <1>4, <1>5 DEF GptInv

\* The other steps leave the range and the buffers as they are.
LEMMA OtherSteps ==
  GptInv /\ (\/ InitDevice \/ CheckSignature \/ ReadHeader \/ SearchEnds
            \/ StartLoader \/ ReadFails \/ UNCHANGED vars) => GptInv'
<1>. SUFFICES ASSUME GptInv,
                     \/ InitDevice \/ CheckSignature \/ ReadHeader \/ SearchEnds
                     \/ StartLoader \/ ReadFails \/ UNCHANGED vars
              PROVE  GptInv'
  OBVIOUS
<1>1. /\ disk' = disk /\ range' = range /\ mem' = mem
      /\ reader' \in BOOLEAN /\ failed' \in BOOLEAN
  BY DEF InitDevice, CheckSignature, ReadHeader, SearchEnds, StartLoader, ReadFails, vars, Go,
         GptInv, TypeOK
<1>2. /\ \A t \in Misread \cup {<<>>, disk.parts} : Len(t) \in Nat
      /\ table' \in Misread \cup {<<>>, disk.parts}
      /\ pc' \in {"entry", "type"} /\ Reliable' => table' = disk.parts
  <2>1. <<>> \in Seq(Entry)
    OBVIOUS
  <2>2. \A t \in Misread \cup {<<>>, disk.parts} : Len(t) \in Nat
    BY <2>1, DisksAssumption DEF GptInv, TypeOK
  <2>3. /\ table' \in Misread \cup {<<>>, disk.parts}
        /\ pc' \in {"entry", "type"} /\ Reliable' => table' = disk.parts
    BY DEF InitDevice, CheckSignature, ReadHeader, SearchEnds, StartLoader, ReadFails, vars, Go,
           GptInv, TypeOK, RangeInv, OnError, OnNone, Reliable
  <2>. QED  BY <2>2, <2>3
<1>p. p' \in 0 .. Len(table')
  <2>1. CASE p' = 0
    BY <1>2, <2>1
  <2>2. CASE p' = p /\ table' = table
    BY <2>2 DEF GptInv, TypeOK
  <2>. QED  BY <2>1, <2>2 DEF InitDevice, CheckSignature, ReadHeader, SearchEnds, StartLoader, ReadFails, vars
<1>3. /\ pc' \in Labels /\ who' \in Parts
      /\ pc' = "type" => pc = "type" /\ p' = p /\ who' = who /\ table' = table
      /\ pc' = "copy" => who' = who
  BY DEF RangeInv, InitDevice, CheckSignature, ReadHeader, SearchEnds, StartLoader, ReadFails, vars, Go,
         GptInv, TypeOK, Labels, Final, Parts, OnError, OnNone
<1>f. who' = "zsl" /\ pc' \in {"header", "entry", "type"} => ~failed'
  <2>1. CASE InitDevice
    BY <2>1 DEF InitDevice, Go
  <2>2. CASE CheckSignature
    BY <2>2 DEF CheckSignature, Go
  <2>3. CASE ReadHeader
    BY <2>3 DEF ReadHeader, Go, GptInv, RangeInv
  <2>4. CASE SearchEnds \/ StartLoader \/ ReadFails
    BY <2>4 DEF SearchEnds, StartLoader, ReadFails, Go, OnError, OnNone
  <2>5. CASE UNCHANGED vars
    BY <2>5 DEF vars, GptInv, RangeInv
  <2>. QED  BY <2>1, <2>2, <2>3, <2>4, <2>5
<1>4. TypeOK'
  BY <1>1, <1>2, <1>p, <1>3 DEF GptInv, TypeOK, Parts
<1>5. pc' = "type" => ~TooLarge(table[p + 1])'
  BY <1>1, <1>3 DEF GptInv, RangeInv, TooLarge
<1>6. /\ who' = "zsl" /\ pc' \notin After =>
           who = "zsl" /\ pc \notin After
      /\ pc' = "copy" => pc = "copy" \/ who' = "zsl"
      /\ pc' \in {"init", "signature"} => who' = "zsl"
  BY DEF InitDevice, CheckSignature, ReadHeader, SearchEnds, StartLoader, ReadFails, vars, Go,
         GptInv, TypeOK, RangeInv, OnError, OnNone, After
<1>7. RangeInv'
  BY <1>1, <1>2, <1>3, <1>f, <1>5, <1>6, Limits DEF GptInv, RangeInv, Size, FirstIllFormed, After
<1>8. NothingBeyond'
  BY <1>1 DEF GptInv, NothingBeyond, FirstIllFormed
<1>. QED  BY <1>4, <1>7, <1>8 DEF GptInv

LEMMA StepCorrect == GptInv /\ [Next]_vars => GptInv'
BY ReadEntryStep, MatchTypeStep, CopySteps, OtherSteps DEF Next, Works, Stop

(* For every size of LBAs, every limit and every set of disks.             *)
THEOREM BootTyped == Spec => []TypeOK
<1>1. GptInv => TypeOK
  BY DEF GptInv
<1>. QED  BY <1>1, InitialInv, StepCorrect, PTL DEF Spec

(* For every size of LBAs, every limit, every partition table and every    *)
(* read that fails: no copy goes beyond its buffer, but for a first entry  *)
(* that ends before it begins.                                             *)
THEOREM CopiesBounded == Spec => []NothingBeyond
<1>1. GptInv => NothingBeyond
  BY DEF GptInv
<1>. QED  BY <1>1, InitialInv, StepCorrect, PTL DEF Spec
------------------------------------------------------------------------------
(* What is chosen.                                                         *)
RawRange == [first |-> 0, last |-> SpmLbas - 1]
EntryRange(k) == [first |-> disk.parts[k].first, last |-> disk.parts[k].last]
Candidate(t, k) == disk.parts[k].type = t /\ Fits(disk.parts[k], Limit[t])
Found(t, k) == k \in DOMAIN disk.parts /\ Candidate(t, k) /\ FirstOf(t) = k

\* What is promised of a payload the zero-stage loader has copied.
Good(b) == (Reliable => Placed(b)) /\ (~failed => mem[b].whole)

\* No entry that the search has passed was one.
SearchInv ==
  /\ pc \in {"entry", "type"} /\ Reliable => \A k \in 1 .. p : ~Candidate(who, k)
  /\ pc = "error" => failed
  /\ pc = "stuck" /\ ~failed => FirstOf(who) = 0

\* The range of the boot ROM's search, in case nothing is found.
FallbackInv ==
  who = "zsl" =>
    /\ pc \in {"init", "signature", "header"} => range = RawRange
    /\ pc \in {"header", "entry", "type"} => ~failed /\ disk.gpt
    /\ pc \in {"entry", "type"} =>
         range = IF pc = "entry" /\ p = 0 THEN RawRange ELSE FirstRange(disk.parts[1])

\* The range of a copy.
NoTable == failed \/ ~disk.gpt \/ disk.parts = <<>>
ChosenInv ==
  pc = "copy" =>
    IF who = "zsl" /\ NoTable
      THEN range = RawRange
      ELSE Reliable =>
             \/ \E k \in DOMAIN disk.parts : Found(who, k) /\ range = EntryRange(k)
             \/ who = "zsl" /\ FirstOf("zsl") = 0 /\ range = FirstRange(disk.parts[1])

\* What has been copied, and how a boot has ended.
OutcomeInv ==
  /\ BootsChosen
  /\ who = "fw" => Good("dtb")
  /\ pc = "launched" /\ reader => who = "fw" /\ Good("fw")
  /\ pc = "foreign" /\ ~failed => ~disk.gpt \/ FirstOf("zsl") = 0 \/ FirstIllFormed

Chooses == SearchInv /\ FallbackInv /\ ChosenInv /\ OutcomeInv
BootInv == GptInv /\ Chooses

LEMMA DiskFacts ==
  ASSUME TypeOK
  PROVE  /\ disk.parts \in Seq(Entry) /\ Len(disk.parts) \in Nat
         /\ DOMAIN disk.parts = 1 .. Len(disk.parts)
         /\ \A k \in DOMAIN disk.parts :
              /\ disk.parts[k] \in Entry
              /\ disk.parts[k].first \in Nat /\ disk.parts[k].last \in Nat
<1>1. disk.parts \in Seq(Entry)
  BY DisksAssumption DEF TypeOK
<1>2. Len(disk.parts) \in Nat /\ DOMAIN disk.parts = 1 .. Len(disk.parts)
  BY <1>1
<1>3. \A k \in DOMAIN disk.parts : disk.parts[k] \in Entry
  BY <1>1
<1>4. \A e \in Entry : e.first \in Nat /\ e.last \in Nat
  BY Limits DEF Entry, LBA
<1>. QED  BY <1>1, <1>2, <1>3, <1>4

\* The comparison of the search is the one that is meant.
LEMMA Compared ==
  ASSUME TypeOK, Addressable, NEW k \in DOMAIN disk.parts
  PROVE  TooLarge(disk.parts[k]) <=> ~Fits(disk.parts[k], Limit[who])
<1>. DEFINE e == disk.parts[k]
            m == Minus(e.last, e.first)
            limit == Limit[who]
<1>1. who \in Parts /\ e \in Entry
  BY DiskFacts DEF TypeOK, Parts
<1>2. e.first \in 0 .. NumLbas - 1 /\ e.last \in 0 .. NumLbas - 1
  BY <1>1 DEF Entry, LBA
<1>3. limit \in 1 .. NumLbas - 1 /\ NumLbas \in Nat /\ e.first + limit <= NumLbas
  <2>1. e.first + limit <= AddrLbas
    BY <1>1 DEF TypeOK, Addressable, Parts
  <2>. QED  BY <1>1, <1>2, <2>1, Limits
<1>0. e.last \in 0 .. NumLbas + NumLbas - 2 /\ (e.first <= e.last => e.last - e.first < NumLbas)
  BY <1>2, <1>3
<1>4. /\ m \in 0 .. NumLbas - 1
      /\ e.first <= e.last => m = e.last - e.first
      /\ e.last < e.first => m = e.last - e.first + NumLbas
  <2>. HIDE DEF e
  <2>. QED  BY <1>0, <1>2, MinusFacts DEF LBA
<1>5. (TooLarge(e) <=> m >= limit) /\ (Fits(e, limit) <=> e.first <= e.last /\ e.last - e.first < limit)
  BY DEF TooLarge, Fits
<1>. HIDE DEF m, limit, e
<1>6. m >= limit <=> ~(e.first <= e.last /\ e.last - e.first < limit)
  BY <1>2, <1>3, <1>4
<1>7. TooLarge(e) <=> ~Fits(e, limit)
  BY <1>5, <1>6
<1>. QED  BY <1>7 DEF e, limit

LEMMA FirstFound ==
  ASSUME TypeOK, NEW t \in Parts, NEW k \in DOMAIN disk.parts, Candidate(t, k),
         \A j \in 1 .. k - 1 : ~Candidate(t, j)
  PROVE  Found(t, k)
<1>. DEFINE fitting == {j \in DOMAIN disk.parts : Candidate(t, j)}
<1>1. k \in fitting /\ fitting \subseteq Int /\ \A j \in fitting : k <= j
  BY DiskFacts
<1>2. \A v \in fitting : (\A j \in fitting : v <= j) => v = k
  BY <1>1
<1>3. Min(fitting) = k
  BY <1>1, <1>2 DEF Min
<1>4. FirstOf(t) = IF fitting = {} THEN 0 ELSE Min(fitting)
  BY DEF FirstOf, Candidate
<1>. QED  BY <1>1, <1>3, <1>4 DEF Found

LEMMA NoneFound ==
  ASSUME TypeOK, NEW t \in Parts, \A k \in 1 .. Len(disk.parts) : ~Candidate(t, k)
  PROVE  FirstOf(t) = 0
<1>1. {j \in DOMAIN disk.parts : Candidate(t, j)} = {}
  BY DiskFacts
<1>. QED  BY <1>1 DEF FirstOf, Candidate

\* An entry that fits is copied from its first to its last sector.
LEMMA WholeEntry ==
  ASSUME TypeOK, NEW t \in Parts, NEW k \in DOMAIN disk.parts, Candidate(t, k)
  PROVE  /\ Size(EntryRange(k)) = disk.parts[k].last - disk.parts[k].first + 1
         /\ Size(EntryRange(k)) < AddrLbas
         /\ Minus(disk.parts[k].last, disk.parts[k].first) = disk.parts[k].last - disk.parts[k].first
         /\ disk.parts[k].first <= disk.parts[k].last
<1>. DEFINE e == disk.parts[k]
            a == e.last + 1
<1>1. e \in Entry
  BY DiskFacts
<1>2. e.first \in 0 .. NumLbas - 1 /\ e.last \in 0 .. NumLbas - 1
  BY <1>1 DEF Entry, LBA
<1>3. /\ Limit[t] \in 1 .. NumLbas - 1 /\ NumLbas \in Nat /\ e.first <= e.last /\ e.last - e.first < Limit[t]
      /\ Limit[t] < AddrLbas /\ AddrLbas \in Nat
  BY Limits DEF Candidate, Fits
<1>4. a \in 0 .. NumLbas + NumLbas - 2 /\ e.first <= a /\ a - e.first < NumLbas
  BY <1>2, <1>3
<1>5. e.last \in 0 .. NumLbas + NumLbas - 2 /\ e.last - e.first < NumLbas
  BY <1>2, <1>3
<1>6. Size(EntryRange(k)) = Minus(a, e.first)
  BY DEF Size, EntryRange
<1>. HIDE DEF a
<1>7. Minus(a, e.first) = a - e.first
  BY <1>2, <1>4, MinusFacts DEF LBA
<1>8. Minus(e.last, e.first) = e.last - e.first
  BY <1>2, <1>3, <1>5, MinusFacts DEF LBA
<1>9. a - e.first = e.last - e.first + 1 /\ a - e.first < AddrLbas
  BY <1>2, <1>3 DEF a
<1>. QED  BY <1>3, <1>6, <1>7, <1>8, <1>9

LEMMA CutFacts ==
  ASSUME NEW n \in Int, NEW s \in Int, NEW f \in Int, NEW l \in Int, NEW end, NEW cut \in Int,
         2 <= n, 0 <= f, f <= l, l <= n - 1, 1 <= s, s <= n - 1, f + s <= n,
         cut = f + s - 1, end = (IF l <= cut THEN l ELSE cut) + 1
  PROVE  /\ 0 <= end /\ end <= n + n - 2 /\ f <= end /\ end - f < n
         /\ end - f = IF s <= l - f + 1 THEN s ELSE l - f + 1
         /\ end \in Int
<1>1. \/ l <= f + s - 1 /\ end = l + 1
      \/ l > f + s - 1 /\ end = f + s
  OBVIOUS
<1>2. 0 <= end /\ end <= n + n - 2 /\ f <= end
  BY <1>1
<1>3. end - f < n
  BY <1>1
<1>4. end - f = IF s <= l - f + 1 THEN s ELSE l - f + 1
  BY <1>1
<1>. QED  BY <1>2, <1>3, <1>4

\* Of a first entry without the type, as much is copied as fits.
LEMMA FallbackEntry ==
  ASSUME TypeOK, Addressable, who = "zsl", disk.parts # <<>>, ~FirstIllFormed
  PROVE  /\ FirstRange(disk.parts[1]).first = disk.parts[1].first
         /\ Size(FirstRange(disk.parts[1])) = Min({SpmLbas, disk.parts[1].last - disk.parts[1].first + 1})
<1>. DEFINE e == disk.parts[1]
            a == e.first + SpmLbas
            last == IF e.last <= a - 1 THEN e.last ELSE a - 1
            b == last + 1
<1>1. 1 \in DOMAIN disk.parts /\ e \in Entry
  BY DiskFacts
<1>2. e.first \in 0 .. NumLbas - 1 /\ e.last \in 0 .. NumLbas - 1
  BY <1>1 DEF Entry, LBA
<1>3. e.first <= e.last
  BY <1>2 DEF FirstIllFormed
<1>4. /\ SpmLbas \in 1 .. NumLbas - 1 /\ NumLbas \in Nat /\ NumLbas >= 2 /\ Limit[who] = SpmLbas
      /\ a <= NumLbas
  <2>1. e.first + Limit["zsl"] <= AddrLbas
    BY <1>1 DEF Addressable, TypeOK, Parts
  <2>. QED  BY <1>2, <2>1, Limits
<1>. HIDE DEF e
<1>n. /\ e.first \in Int /\ 0 <= e.first /\ e.first <= NumLbas - 1
      /\ e.last \in Int /\ e.last <= NumLbas - 1 /\ e.first <= e.last
      /\ SpmLbas \in Int /\ 1 <= SpmLbas /\ SpmLbas <= NumLbas - 1 /\ NumLbas \in Int /\ NumLbas >= 2
      /\ e.first + SpmLbas <= NumLbas
  BY <1>2, <1>3, <1>4
<1>5. a \in 0 .. NumLbas + NumLbas - 2 /\ 1 \in LBA /\ 1 <= a /\ a - 1 < NumLbas
  <2>1. 1 \in LBA
    BY <1>n DEF LBA
  <2>2. a \in Int /\ 1 <= a /\ a - 1 < NumLbas /\ a <= NumLbas + NumLbas - 2
    BY <1>n
  <2>. QED  BY <1>n, <2>1, <2>2
<1>6. FirstRange(e) = [first |-> e.first, last |-> Min({e.last, Minus(a, 1)})]
  BY <1>4 DEF FirstRange
<1>7. a - 1 \in Int /\ e.last \in Int
  BY <1>2, <1>4
<1>8. Minus(a, 1) = a - 1 /\ Min({e.last, a - 1}) = last
  <2>. HIDE DEF a
  <2>1. Minus(a, 1) = a - 1
    BY <1>5, MinusFacts
  <2>2. Min({e.last, a - 1}) = last
    BY <1>7, MinFacts
  <2>. QED  BY <2>1, <2>2
<1>9. FirstRange(e) = [first |-> e.first, last |-> last]
  BY <1>6, <1>8
<1>10. /\ b \in 0 .. NumLbas + NumLbas - 2 /\ e.first <= b /\ b - e.first < NumLbas
       /\ b - e.first = IF SpmLbas <= e.last - e.first + 1 THEN SpmLbas ELSE e.last - e.first + 1
  <2>1. /\ b \in 0 .. NumLbas + NumLbas - 2 /\ e.first <= b /\ b - e.first < NumLbas
        /\ b - e.first = IF SpmLbas <= e.last - e.first + 1 THEN SpmLbas ELSE e.last - e.first + 1
    <3>. DEFINE cut == a - 1
    <3>1. cut \in Int /\ cut = e.first + SpmLbas - 1
      BY <1>n
    <3>2. b = (IF e.last <= cut THEN e.last ELSE cut) + 1
      OBVIOUS
    <3>. HIDE DEF a, b, cut, last
    <3>3. /\ 0 <= b /\ b <= NumLbas + NumLbas - 2 /\ e.first <= b /\ b - e.first < NumLbas
          /\ b - e.first = IF SpmLbas <= e.last - e.first + 1 THEN SpmLbas ELSE e.last - e.first + 1
          /\ b \in Int
      <4>1. /\ NumLbas \in Int /\ SpmLbas \in Int /\ e.first \in Int /\ e.last \in Int /\ cut \in Int
            /\ 2 <= NumLbas /\ 0 <= e.first /\ e.first <= e.last /\ e.last <= NumLbas - 1
            /\ 1 <= SpmLbas /\ SpmLbas <= NumLbas - 1 /\ e.first + SpmLbas <= NumLbas
            /\ cut = e.first + SpmLbas - 1 /\ b = (IF e.last <= cut THEN e.last ELSE cut) + 1
        BY <1>n, <3>1, <3>2
      <4>2. PICK f \in Int, l \in Int : f = e.first /\ l = e.last
        BY <4>1
      <4>3. /\ NumLbas \in Int /\ SpmLbas \in Int /\ cut \in Int
            /\ 2 <= NumLbas /\ 0 <= f /\ f <= l /\ l <= NumLbas - 1
            /\ 1 <= SpmLbas /\ SpmLbas <= NumLbas - 1 /\ f + SpmLbas <= NumLbas
            /\ cut = f + SpmLbas - 1 /\ b = (IF l <= cut THEN l ELSE cut) + 1
        BY <4>1, <4>2
      <4>4. /\ 0 <= b /\ b <= NumLbas + NumLbas - 2 /\ f <= b /\ b - f < NumLbas
            /\ b - f = IF SpmLbas <= l - f + 1 THEN SpmLbas ELSE l - f + 1
            /\ b \in Int
        BY <4>3, CutFacts
      <4>. QED  BY <4>2, <4>4
    <3>. QED  BY <1>n, <3>3
  <2>. QED  BY <2>1
<1>11. Size(FirstRange(e)) = Minus(b, e.first)
  BY <1>9 DEF Size
<1>. HIDE DEF b
<1>12. Minus(b, e.first) = b - e.first
  BY <1>2, <1>10, MinusFacts DEF LBA
<1>13. e.last - e.first + 1 \in Int /\ SpmLbas \in Int
  BY <1>2, <1>4
<1>14. Min({SpmLbas, e.last - e.first + 1}) = IF SpmLbas <= e.last - e.first + 1 THEN SpmLbas ELSE e.last - e.first + 1
  BY <1>13, MinFacts
<1>. QED  BY <1>9, <1>10, <1>11, <1>12, <1>14 DEF e


------------------------------------------------------------------------------
(* The steps, once more for what is chosen.                                *)
LEMMA InitialChoice == Init => Chooses
BY DEF Init, Chooses, SearchInv, FallbackInv, ChosenInv, OutcomeInv, RawRange, BootsChosen

\* Which entries are found depends on the disk alone.
LEMMA SameDisk ==
  ASSUME disk' = disk, NEW b
  PROVE  FirstOf(b)' = FirstOf(b)
<1>. DEFINE fitting == {k \in DOMAIN disk.parts : disk.parts[k].type = b /\ Fits(disk.parts[k], Limit[b])}
<1>1. fitting' = fitting
  OBVIOUS
<1>. HIDE DEF fitting
<1>2. FirstOf(b) = IF fitting = {} THEN 0 ELSE Min(fitting)
  BY DEF FirstOf, fitting
<1>3. FirstOf(b)' = IF fitting' = {} THEN 0 ELSE Min(fitting')
  BY DEF FirstOf, fitting
<1>. QED  BY <1>1, <1>2, <1>3

LEMMA SamePlace ==
  ASSUME disk' = disk, NEW b, mem'[b] = mem[b], Placed(b)
  PROVE  Placed(b)'
<1>1. FirstOf(b)' = FirstOf(b)
  BY SameDisk
<1>2. All(FirstOf(b))' = All(FirstOf(b))
  BY <1>1 DEF All
<1>. QED  BY <1>1, <1>2 DEF Placed

LEMMA StillGood ==
  ASSUME disk' = disk, NEW b, mem'[b] = mem[b], Reliable' => Reliable, ~failed' => ~failed, Good(b)
  PROVE  Good(b)'
BY SamePlace DEF Good

\* A step that copies nothing and ends nothing.
LEMMA SameOutcome ==
  ASSUME OutcomeInv, UNCHANGED <<disk, mem>>, who' = who \/ who' # "fw",
         failed' = failed \/ failed' = TRUE,
         pc' \notin {"zsl", "foreign", "launched"}
  PROVE  OutcomeInv'
<1>1. (Reliable' => Reliable) /\ (~failed' => ~failed)
  BY DEF Reliable
<1>2. who' = "fw" => Good("dtb")'
  BY <1>1, StillGood DEF OutcomeInv
<1>. QED  BY <1>2 DEF OutcomeInv, BootsChosen

LEMMA InitDeviceChoice ==
  ASSUME BootInv, InitDevice
  PROVE  Chooses'
<1>1. /\ pc = "init" /\ pc' \in {"signature", "error"} /\ (pc' = "error" => failed')
      /\ UNCHANGED <<disk, who, range, mem, reader>> /\ who = "zsl"
  BY DEF BootInv, GptInv, RangeInv, InitDevice, Go
<1>2. SearchInv' /\ FallbackInv' /\ ChosenInv'
  BY <1>1 DEF BootInv, Chooses, FallbackInv, SearchInv, ChosenInv, RawRange
<1>3. OutcomeInv'
  BY <1>1 DEF OutcomeInv, BootsChosen
<1>. QED  BY <1>2, <1>3 DEF Chooses

LEMMA CheckSignatureChoice ==
  ASSUME BootInv, CheckSignature
  PROVE  Chooses'
<1>1. /\ pc = "signature" /\ pc' \in {"header", "copy"} /\ who = "zsl"
      /\ pc' = "header" => ~failed' /\ disk.gpt
      /\ pc' = "copy" => failed' \/ ~disk.gpt
      /\ UNCHANGED <<disk, who, range, mem, reader>>
  BY DEF BootInv, GptInv, RangeInv, CheckSignature, Go, TypeOK
<1>2. SearchInv' /\ FallbackInv' /\ ChosenInv'
  BY <1>1 DEF BootInv, Chooses, FallbackInv, SearchInv, ChosenInv, RawRange, NoTable
<1>3. OutcomeInv'
  BY <1>1 DEF OutcomeInv, BootsChosen
<1>. QED  BY <1>2, <1>3 DEF Chooses

LEMMA ReadHeaderChoice ==
  ASSUME BootInv, ReadHeader
  PROVE  Chooses'
<1>1. /\ pc = "header" /\ pc' = "entry" /\ p' = 0
      /\ UNCHANGED <<disk, who, range, mem, reader, failed>>
  BY DEF ReadHeader, Go
<1>2. SearchInv' /\ FallbackInv' /\ ChosenInv'
  BY <1>1 DEF BootInv, Chooses, FallbackInv, SearchInv, ChosenInv, RawRange
<1>3. OutcomeInv'
  BY <1>1, SameOutcome DEF BootInv, Chooses
<1>. QED  BY <1>2, <1>3 DEF Chooses

LEMMA ReadFailsChoice ==
  ASSUME BootInv, ReadFails
  PROVE  Chooses'
<1>1. /\ pc \in {"header", "entry", "type"} /\ pc' \in {"error", "stuck"} /\ failed' = TRUE
      /\ UNCHANGED <<disk, who, range, mem, reader>>
  BY DEF ReadFails, Go, OnError
<1>2. SearchInv' /\ FallbackInv' /\ ChosenInv'
  BY <1>1 DEF FallbackInv, SearchInv, ChosenInv
<1>3. OutcomeInv'
  BY <1>1, SameOutcome DEF BootInv, Chooses
<1>. QED  BY <1>2, <1>3 DEF Chooses

\* An entry that is passed because of its size does not fit.
LEMMA ReadEntryChoice ==
  ASSUME BootInv, ReadEntry, Addressable
  PROVE  Chooses'
<1>. DEFINE e == table[p + 1]
<1>1. /\ pc = "entry" /\ p < Len(table) /\ p \in Nat
      /\ Reliable => table = disk.parts /\ p + 1 \in DOMAIN disk.parts /\ disk.parts # <<>>
      /\ p = 0 => e = table[1]
  BY DiskFacts, EntryFacts DEF BootInv, GptInv, TypeOK, RangeInv, ReadEntry
<1>2. /\ range' = (IF p = 0 THEN FirstRange(e) ELSE range)
      /\ \/ TooLarge(e) /\ pc' = "entry" /\ p' = p + 1
         \/ pc' = "type" /\ p' = p
      /\ UNCHANGED <<disk, who, mem, reader, failed>>
  BY <1>1 DEF ReadEntry
<1>3. Reliable /\ TooLarge(e) => ~Candidate(who, p + 1)
  BY <1>1, Compared DEF BootInv, GptInv, Candidate
<1>4. SearchInv'
  <2>. SUFFICES ASSUME Reliable'
                PROVE  \A k \in 1 .. p' : ~Candidate(who, k)'
    BY <1>2 DEF SearchInv
  <2>0. Reliable
    BY <1>2 DEF Reliable
  <2>1. \A k \in 1 .. p : ~Candidate(who, k)
    BY <1>1, <2>0 DEF BootInv, Chooses, SearchInv
  <2>2. \A k \in 1 .. p' : ~Candidate(who, k)
    BY <1>1, <1>2, <1>3, <2>0, <2>1
  <2>. QED  BY <1>2, <2>2 DEF Candidate
<1>5. FallbackInv'
  <2>. SUFFICES ASSUME who = "zsl"
                PROVE  ~failed' /\ disk'.gpt /\ range' = FirstRange(disk.parts[1])'
                       /\ pc' \in {"entry", "type"} /\ (pc' = "entry" => p' # 0)
    BY <1>2 DEF FallbackInv
  <2>1. ~failed /\ disk.gpt /\ (p # 0 => range = FirstRange(disk.parts[1]))
    BY <1>1 DEF BootInv, Chooses, FallbackInv
  <2>2. range' = FirstRange(disk.parts[1])
    <3>1. table = disk.parts
      BY <1>1, <2>1 DEF Reliable
    <3>. QED  BY <1>1, <1>2, <2>1, <3>1
  <2>3. FirstRange(disk.parts[1])' = FirstRange(disk.parts[1])
    BY <1>2 DEF FirstRange
  <2>. QED  BY <1>1, <1>2, <2>1, <2>2, <2>3
<1>6. ChosenInv' /\ OutcomeInv'
  <2>1. ChosenInv'
    BY <1>2 DEF ChosenInv
  <2>2. OutcomeInv'
    BY <1>1, <1>2, SameOutcome DEF BootInv, Chooses
  <2>. QED  BY <2>1, <2>2
<1>. QED  BY <1>4, <1>5, <1>6 DEF Chooses

\* The entry that matches is the first to do so.
LEMMA MatchTypeChoice ==
  ASSUME BootInv, MatchType, Addressable
  PROVE  Chooses'
<1>. DEFINE k == p + 1
<1>1. /\ pc = "type" /\ p \in Nat /\ who \in Parts
      /\ Reliable => /\ table = disk.parts /\ k \in DOMAIN disk.parts /\ disk.parts # <<>>
                     /\ Fits(disk.parts[k], Limit[who])
  <2>1. TypeOK /\ pc = "type" /\ p < Len(table) /\ p \in Nat /\ who \in Parts /\ ~TooLarge(table[k])
    BY DEF BootInv, GptInv, TypeOK, RangeInv, MatchType, Parts
  <2>2. Reliable => table = disk.parts
    BY <2>1 DEF BootInv, GptInv, RangeInv
  <2>3. Reliable => k \in DOMAIN disk.parts /\ disk.parts # <<>>
    BY <2>1, <2>2, DiskFacts
  <2>. QED  BY <2>1, <2>2, <2>3, Compared
<1>2. /\ \/ /\ table[k].type = who /\ pc' = "copy"
            /\ range' = [first |-> table[k].first, last |-> table[k].last]
         \/ table[k].type # who /\ pc' = "entry" /\ p' = p + 1 /\ range' = range
      /\ UNCHANGED <<disk, who, mem, reader, failed>>
  BY <1>1 DEF MatchType
<1>3. Reliable => \A j \in 1 .. p : ~Candidate(who, j)
  BY <1>1 DEF BootInv, Chooses, SearchInv
<1>4. OutcomeInv'
  BY <1>1, <1>2, SameOutcome DEF BootInv, Chooses
<1>r. Reliable' <=> Reliable
  BY <1>2 DEF Reliable
<1>5. CASE pc' = "copy"
  <2>1. Reliable => Candidate(who, k) /\ range' = EntryRange(k)
    BY <1>1, <1>2, <1>5 DEF Candidate, EntryRange
  <2>2. Reliable => \A j \in 1 .. k - 1 : ~Candidate(who, j)
    BY <1>1, <1>3
  <2>3. Reliable => Found(who, k)
    BY <1>1, <2>1, <2>2, FirstFound DEF BootInv, GptInv
  <2>4. who = "zsl" => ~NoTable
    <3>. SUFFICES ASSUME who = "zsl" PROVE ~NoTable
      OBVIOUS
    <3>1. ~failed /\ disk.gpt
      BY <1>1 DEF BootInv, Chooses, FallbackInv
    <3>. QED  BY <1>1, <3>1 DEF NoTable, Reliable
  <2>5. ChosenInv'
    <3>1. Reliable => Found(who, k)' /\ range' = EntryRange(k)' /\ k' \in DOMAIN disk'.parts
      <4>. SUFFICES ASSUME Reliable
                    PROVE  Found(who, k)' /\ range' = EntryRange(k)' /\ k' \in DOMAIN disk'.parts
        OBVIOUS
      <4>1. p' = p
        BY <1>5 DEF MatchType
      <4>. QED  BY <1>1, <1>2, <1>5, <2>1, <2>3, <4>1 DEF Found, FirstOf, Candidate, EntryRange
    <3>2. (who = "zsl" => ~NoTable)'
      BY <1>2, <2>4 DEF NoTable
    <3>. QED  BY <1>r, <3>1, <3>2 DEF ChosenInv
  <2>. QED  BY <1>2, <1>4, <1>5, <2>5 DEF Chooses, SearchInv, FallbackInv
<1>6. CASE pc' = "entry"
  <2>1. table[k].type # who /\ p' = p + 1 /\ range' = range
    BY <1>2, <1>6
  <2>2. Reliable => \A j \in 1 .. p' : ~Candidate(who, j)
    BY <1>1, <1>3, <2>1 DEF Candidate
  <2>3. SearchInv'
    <3>. SUFFICES ASSUME Reliable'
                  PROVE  \A j \in 1 .. p' : ~Candidate(who, j)'
      BY <1>6 DEF SearchInv
    <3>. QED  BY <1>2, <1>r, <2>2 DEF Candidate
  <2>4. FallbackInv'
    BY <1>1, <1>2, <1>6, <2>1 DEF BootInv, Chooses, FallbackInv, FirstRange
  <2>. QED  BY <1>4, <1>6, <2>3, <2>4 DEF Chooses, ChosenInv
<1>. QED  BY <1>2, <1>5, <1>6

LEMMA SearchEndsChoice ==
  ASSUME BootInv, SearchEnds
  PROVE  Chooses'
<1>1. /\ pc = "entry" /\ p = Len(table) /\ who \in Parts
      /\ pc' = (IF who = "zsl" THEN "copy" ELSE "stuck")
      /\ UNCHANGED <<disk, who, p, range, mem, reader, failed>>
  BY DEF BootInv, GptInv, TypeOK, SearchEnds, Go, OnNone, Parts
<1>t. Reliable => table = disk.parts
  BY <1>1 DEF BootInv, GptInv, RangeInv
<1>2. Reliable => FirstOf(who) = 0
  BY <1>1, <1>t, NoneFound DEF BootInv, GptInv, Chooses, SearchInv
<1>3. SearchInv' /\ FallbackInv'
  <2>1. ~failed' => FirstOf(who)' = 0
    BY <1>1, <1>2, SameDisk DEF Reliable
  <2>. QED  BY <1>1, <2>1 DEF SearchInv, FallbackInv
<1>4. OutcomeInv'
  BY <1>1, SameOutcome DEF BootInv, Chooses
<1>5. ChosenInv'
  <2>. SUFFICES ASSUME pc' = "copy"
                PROVE  ChosenInv'
    BY DEF ChosenInv
  <2>1. /\ who = "zsl" /\ ~failed /\ disk.gpt
        /\ range = (IF p = 0 THEN RawRange ELSE FirstRange(disk.parts[1]))
    BY <1>1 DEF BootInv, Chooses, FallbackInv
  <2>2. (p = 0 <=> disk.parts = <<>>) /\ FirstOf(who) = 0
    BY <1>1, <1>t, <1>2, <2>1, DiskFacts DEF BootInv, GptInv, Reliable
  <2>3. IF NoTable THEN range = RawRange ELSE FirstOf("zsl") = 0 /\ range = FirstRange(disk.parts[1])
    BY <2>1, <2>2 DEF NoTable
  <2>4. /\ FirstOf("zsl")' = FirstOf("zsl") /\ FirstRange(disk.parts[1])' = FirstRange(disk.parts[1])
        /\ NoTable' <=> NoTable
    BY <1>1, SameDisk DEF FirstRange, NoTable
  <2>. QED  BY <1>1, <2>1, <2>3, <2>4 DEF ChosenInv, RawRange
<1>. QED  BY <1>3, <1>4, <1>5 DEF Chooses

LEMMA CopyFailsChoice ==
  ASSUME BootInv, CopyFails
  PROVE  Chooses'
<1>1. who = "zsl" /\ who' = who /\ pc' = "error" /\ failed'
  BY DEF CopyFails, Go
<1>. QED  BY <1>1 DEF Chooses, SearchInv, FallbackInv, ChosenInv, OutcomeInv, BootsChosen

LEMMA StartLoaderChoice ==
  ASSUME BootInv, StartLoader
  PROVE  Chooses'
<1>1. /\ UNCHANGED <<disk, mem, reader, failed>>
      /\ \/ pc' = "header" /\ who' = "dtb"
         \/ pc' = "launched" /\ ~reader' /\ UNCHANGED who
  BY DEF StartLoader, Go
<1>2. who # "fw" \/ Good("dtb")
  BY DEF BootInv, Chooses, OutcomeInv
<1>3. SearchInv' /\ FallbackInv' /\ ChosenInv'
  BY <1>1 DEF SearchInv, FallbackInv, ChosenInv
<1>4. OutcomeInv'
  <2>1. CASE pc' = "header"
    BY <1>1, <2>1, SameOutcome DEF BootInv, Chooses
  <2>2. CASE pc' = "launched"
    <3>1. who' = "fw" => Good("dtb")'
      BY <1>1, <1>2, <2>2, StillGood DEF Reliable
    <3>. QED  BY <1>1, <2>2, <3>1 DEF OutcomeInv, BootsChosen
  <2>. QED  BY <1>1, <2>1, <2>2
<1>. QED  BY <1>3, <1>4 DEF Chooses

\* What a copy leaves in the buffer it is made for.
LEMMA CopyResult ==
  ASSUME TypeOK, NEW whole \in BOOLEAN, mem' = Copied(whole)
  PROVE  /\ mem'[who].whole = whole
         /\ range.first < AddrLbas /\ Size(range) < AddrLbas =>
              Extent(mem'[who]) = [first |-> range.first, count |-> Size(range)]
         /\ \A b \in Parts \ {who} : mem'[b] = mem[b]
<1>1. range \in Extents /\ range.first \in LBA
  BY DEF TypeOK, Extents
<1>2. Size(range) \in LBA
  BY <1>1, SizeFacts
<1>3. /\ mem'[who] = [first |-> range.first % AddrLbas, whole |-> whole,
                       count |-> Size(range) % AddrLbas]
      /\ \A b \in Parts \ {who} : mem'[b] = mem[b]
  BY DEF TypeOK, Copied, Size, Parts
<1>4. /\ range.first < AddrLbas => range.first % AddrLbas = range.first
      /\ Size(range) < AddrLbas => Size(range) % AddrLbas = Size(range)
  BY <1>1, <1>2, InBytes
<1>. HIDE DEF Extents
<1>. QED  BY <1>3, <1>4 DEF Extent

LEMMA RawSize == RawRange.first = 0 /\ Size(RawRange) = SpmLbas
<1>1. /\ SpmLbas \in 1 .. NumLbas - 1 /\ NumLbas \in Nat /\ 0 \in LBA
      /\ SpmLbas - 1 + 1 = SpmLbas /\ SpmLbas - 0 = SpmLbas
      /\ SpmLbas \in 0 .. NumLbas + NumLbas - 2
  BY Limits DEF LBA
<1>2. Size(RawRange) = Minus(SpmLbas, 0)
  BY <1>1 DEF Size, RawRange
<1>3. Minus(SpmLbas, 0) = SpmLbas
  BY <1>1, MinusFacts
<1>. QED  BY <1>2, <1>3 DEF RawRange

\* An address in the disk's first AddrLbas sectors is the one that is meant.
LEMMA FirstInBytes ==
  ASSUME TypeOK, Addressable, NEW k \in DOMAIN disk.parts
  PROVE  disk.parts[k].first < AddrLbas
<1>1. disk.parts[k].first \in Nat /\ disk.parts[k].first + SpmLbas <= AddrLbas
  BY DiskFacts, Limits DEF TypeOK, Addressable
<1>. QED  BY <1>1, Limits

\* The copy of an entry that was found is that entry.
LEMMA CopyFound ==
  ASSUME TypeOK, Addressable, NEW t \in Parts, NEW k \in DOMAIN disk.parts,
         Found(t, k), range = EntryRange(k)
  PROVE  /\ FirstOf(t) = k /\ k # 0
         /\ range.first < AddrLbas /\ Size(range) < AddrLbas
         /\ [first |-> range.first, count |-> Size(range)] = All(k)
<1>1. k # 0 /\ Candidate(t, k) /\ FirstOf(t) = k
  BY DiskFacts DEF Found
<1>2. Size(range) = disk.parts[k].last - disk.parts[k].first + 1 /\ Size(range) < AddrLbas
  BY <1>1, WholeEntry
<1>3. range.first = disk.parts[k].first /\ range.first < AddrLbas
  BY FirstInBytes DEF EntryRange
<1>. QED  BY <1>1, <1>2, <1>3 DEF All

LEMMA BootCopyChoice ==
  ASSUME BootInv, BootCopy, Addressable
  PROVE  Chooses'
<1>1. /\ pc = "copy" /\ who = "zsl" /\ reader'
      /\ pc' = (IF HoldsLoader(mem'["zsl"]) THEN "zsl" ELSE "foreign")
      /\ UNCHANGED <<disk, who, p, range, failed>>
  BY DEF BootCopy, Go
<1>w. PICK whole \in BOOLEAN : (Reliable => whole) /\ mem' = Copied(whole)
  BY DEF BootCopy, Right
<1>2. /\ mem'["zsl"].whole = whole
      /\ range.first < AddrLbas /\ Size(range) < AddrLbas =>
           Extent(mem'["zsl"]) = [first |-> range.first, count |-> Size(range)]
  BY <1>1, <1>w, CopyResult DEF BootInv, GptInv
<1>r. (Reliable' => mem'["zsl"].whole) /\ (~NoTable => Reliable)
  BY <1>1, <1>w, <1>2 DEF Reliable, NoTable
<1>3. SearchInv' /\ FallbackInv' /\ ChosenInv'
  BY <1>1 DEF SearchInv, FallbackInv, ChosenInv
<1>4. CASE NoTable
  <2>1. range = RawRange
    BY <1>1, <1>4 DEF BootInv, Chooses, ChosenInv
  <2>2. Extent(mem'["zsl"]) = Raw
    BY <1>2, <2>1, RawSize, Limits DEF Raw
  <2>3. failed' \/ ~disk'.gpt \/ disk'.parts = <<>>
    BY <1>1, <1>4 DEF NoTable
  <2>4. BootsChosen'
    BY <1>r, <2>2, <2>3 DEF BootsChosen, Raw, Extent
  <2>5. ~failed' => ~disk'.gpt \/ FirstOf("zsl")' = 0
    <3>. SUFFICES ASSUME ~failed', disk'.gpt
                  PROVE  FirstOf("zsl")' = 0
      OBVIOUS
    <3>1. disk'.parts = <<>>
      BY <2>3
    <3>2. {k \in DOMAIN disk'.parts : disk'.parts[k].type = "zsl" /\ Fits(disk'.parts[k], Limit["zsl"])} = {}
      BY <3>1
    <3>. QED  BY <3>2 DEF FirstOf
  <2>. QED  BY <1>1, <1>3, <2>4, <2>5 DEF Chooses, OutcomeInv
<1>5. CASE ~NoTable /\ \E k \in DOMAIN disk.parts : Found("zsl", k) /\ range = EntryRange(k)
  <2>1. PICK k \in DOMAIN disk.parts : Found("zsl", k) /\ range = EntryRange(k)
    BY <1>5
  <2>2. FirstOf("zsl") = k /\ k # 0 /\ Extent(mem'["zsl"]) = All(k)
    BY <1>2, <2>1, CopyFound DEF BootInv, GptInv, Parts
  <2>3. BootsChosen'
    <3>1. FirstOf("zsl")' = k /\ All(k)' = All(k)
      BY <1>1, <2>2, SameDisk DEF All
    <3>2. Extent(mem'["zsl"]) = All(FirstOf("zsl"))' /\ FirstOf("zsl")' # 0
      BY <2>2, <3>1 DEF All
    <3>3. ~(failed' \/ ~disk'.gpt \/ disk'.parts = <<>>)
      BY <1>1, <1>5 DEF NoTable
    <3>. QED  BY <1>r, <3>2, <3>3 DEF BootsChosen, Extent
  <2>4. HoldsLoader(mem'["zsl"])
    <3>. DEFINE e == disk.parts[k]
    <3>1. /\ k \in 1 .. Len(disk.parts) /\ e.type = "zsl"
          /\ Minus(e.last, e.first) = e.last - e.first /\ e.first <= e.last
          /\ e.first \in Nat /\ e.last \in Nat
      BY <2>1, DiskFacts, WholeEntry DEF Found, Candidate, BootInv, GptInv, Parts
    <3>2. mem'["zsl"].first = e.first /\ mem'["zsl"].count = e.last - e.first + 1
      BY <2>2 DEF All, Extent
    <3>3. mem'["zsl"].count > Minus(e.last, e.first)
      BY <3>1, <3>2
    <3>4. mem'["zsl"].whole
      BY <1>5, <1>r, <1>w, <1>2
    <3>. QED  BY <1>5, <3>1, <3>2, <3>3, <3>4 DEF HoldsLoader, NoTable
  <2>. QED  BY <1>1, <1>3, <2>3, <2>4 DEF Chooses, OutcomeInv
<1>6. CASE ~NoTable /\ FirstOf("zsl") = 0 /\ range = FirstRange(disk.parts[1])
  <2>1. FirstOf("zsl")' = 0
    BY <1>1, <1>6, SameDisk
  <2>2. ~FirstIllFormed => Extent(mem'["zsl"]) = UpTo(SpmLbas, All(1))
    <3>. SUFFICES ASSUME ~FirstIllFormed
                  PROVE  Extent(mem'["zsl"]) = UpTo(SpmLbas, All(1))
      OBVIOUS
    <3>1. /\ range.first = disk.parts[1].first /\ range.first < AddrLbas
          /\ Size(range) = Min({SpmLbas, disk.parts[1].last - disk.parts[1].first + 1})
          /\ Size(range) < AddrLbas
      <4>1. TypeOK /\ disk.parts # <<>> /\ 1 \in DOMAIN disk.parts
        BY <1>6, DiskFacts DEF BootInv, GptInv, NoTable
      <4>2. /\ range.first = disk.parts[1].first /\ range.first < AddrLbas
            /\ Size(range) = Min({SpmLbas, disk.parts[1].last - disk.parts[1].first + 1})
        BY <1>1, <1>6, <4>1, FallbackEntry, FirstInBytes
      <4>3. disk.parts[1].last - disk.parts[1].first + 1 \in Int
        BY <4>1, DiskFacts
      <4>4. Min({SpmLbas, disk.parts[1].last - disk.parts[1].first + 1}) < AddrLbas
        BY <4>3, MinFacts, Limits
      <4>. QED  BY <4>2, <4>4
    <3>. DEFINE m == All(1)
    <3>2. m = [first |-> disk.parts[1].first,
               count |-> disk.parts[1].last - disk.parts[1].first + 1]
      BY DEF All
    <3>. HIDE DEF m
    <3>3. UpTo(SpmLbas, m) = [first |-> disk.parts[1].first, count |-> Size(range)]
      <4>1. m.count = disk.parts[1].last - disk.parts[1].first + 1
        BY <3>2
      <4>2. UpTo(SpmLbas, m) = [m EXCEPT !.count = Size(range)]
        BY <3>1, <4>1 DEF UpTo
      <4>. QED  BY <3>2, <4>2
    <3>. QED  BY <1>2, <3>1, <3>3 DEF m
  <2>3. FirstIllFormed' = FirstIllFormed /\ UpTo(SpmLbas, All(1))' = UpTo(SpmLbas, All(1))
    BY <1>1 DEF FirstIllFormed, UpTo, All
  <2>4. ~(failed' \/ ~disk'.gpt \/ disk'.parts = <<>>)
    BY <1>1, <1>6 DEF NoTable
  <2>5. BootsChosen'
    BY <1>r, <2>1, <2>2, <2>3, <2>4 DEF BootsChosen, Extent
  <2>. QED  BY <1>1, <1>3, <2>1, <2>5 DEF Chooses, OutcomeInv
<1>7. \/ NoTable
      \/ \E k \in DOMAIN disk.parts : Found("zsl", k) /\ range = EntryRange(k)
      \/ FirstOf("zsl") = 0 /\ range = FirstRange(disk.parts[1])
  BY <1>1, <1>r DEF BootInv, Chooses, ChosenInv
<1>. QED  BY <1>4, <1>5, <1>6, <1>7

\* A copy of the zero-stage loader: with a disk it can rely on, the right one.
LEMMA LoadPartGood ==
  ASSUME BootInv, LoadPart, Addressable
  PROVE  /\ \A b : b = who => Good(b)'
         /\ (Reliable' => Reliable) /\ (~failed' => ~failed)
         /\ \A b \in Parts \ {who} : mem'[b] = mem[b]
<1>1. pc = "copy" /\ who \in Parts /\ who # "zsl" /\ disk' = disk
  BY DEF LoadPart, Go, BootInv, GptInv, TypeOK, Parts
<1>2. PICK ok \in BOOLEAN, whole \in BOOLEAN :
        Right(ok, whole) /\ mem' = Copied(whole) /\ failed' = (failed \/ ~ok)
  BY DEF LoadPart
<1>3. /\ ~failed' => ~failed /\ ok
      /\ Reliable' => Reliable
      /\ ~failed' => whole
  BY <1>1, <1>2 DEF Reliable, Right
<1>4. /\ mem'[who].whole = whole
      /\ range.first < AddrLbas /\ Size(range) < AddrLbas =>
           Extent(mem'[who]) = [first |-> range.first, count |-> Size(range)]
      /\ \A b \in Parts \ {who} : mem'[b] = mem[b]
  BY <1>2, CopyResult DEF BootInv, GptInv
<1>5. ASSUME Reliable, NEW b, b = who
      PROVE  Placed(b)'
  <2>1. PICK k \in DOMAIN disk.parts : Found(who, k) /\ range = EntryRange(k)
    BY <1>1, <1>5 DEF BootInv, Chooses, ChosenInv
  <2>2. FirstOf(who) = k /\ k # 0 /\ Extent(mem'[who]) = All(k)
    BY <1>1, <1>4, <2>1, CopyFound DEF BootInv, GptInv
  <2>3. FirstOf(b)' = k
    BY <1>1, <1>5, <2>2, SameDisk
  <2>4. All(FirstOf(b))' = All(k)
    BY <1>1, <2>3 DEF All
  <2>5. Extent(mem[b])' = All(FirstOf(b))'
    BY <1>5, <2>2, <2>4 DEF Extent
  <2>. QED  BY <2>2, <2>3, <2>5 DEF Placed
<1>6. ASSUME NEW b, b = who
      PROVE  Good(b)'
  BY <1>3, <1>4, <1>5, <1>6 DEF Good
<1>. QED  BY <1>3, <1>4, <1>6

LEMMA LoadPartChoice ==
  ASSUME BootInv, LoadPart, Addressable
  PROVE  Chooses'
<1>1. /\ pc = "copy" /\ who \in Parts /\ who # "zsl"
      /\ \/ who = "dtb" /\ pc' = "header" /\ who' = "fw"
         \/ who = "fw" /\ pc' = "launched" /\ who' = "fw"
      /\ UNCHANGED <<disk, p, range, reader>>
  BY DEF LoadPart, Go, BootInv, GptInv, TypeOK, Parts
<1>2. SearchInv' /\ FallbackInv' /\ ChosenInv'
  BY <1>1 DEF SearchInv, FallbackInv, ChosenInv
<1>3. ASSUME NEW b \in Parts \ {who}, Good(b)
      PROVE  Good(b)'
  BY <1>1, <1>3, LoadPartGood, StillGood
<1>4. Good("dtb")' /\ (who = "fw" => Good("fw")')
  <2>1. CASE who = "dtb"
    BY <2>1, LoadPartGood
  <2>2. CASE who = "fw"
    <3>1. Good("dtb")
      BY <2>2 DEF BootInv, Chooses, OutcomeInv
    <3>. QED  BY <1>3, <2>2, <3>1, LoadPartGood DEF Parts
  <2>. QED  BY <1>1, <2>1, <2>2 DEF Parts
<1>5. OutcomeInv'
  BY <1>1, <1>4 DEF OutcomeInv, BootsChosen
<1>. QED  BY <1>2, <1>5 DEF Chooses

LEMMA StoppedChoice ==
  ASSUME BootInv, UNCHANGED vars
  PROVE  Chooses'
<1>1. UNCHANGED <<disk, pc, who, p, range, mem, reader, failed>>
  BY DEF vars
<1>r. (Reliable' <=> Reliable) /\ (~failed' => ~failed)
  BY <1>1 DEF Reliable
<1>2. SearchInv'
  <2>1. FirstOf(who)' = FirstOf(who)
    BY <1>1 DEF FirstOf
  <2>. QED  BY <1>1, <1>r, <2>1 DEF BootInv, Chooses, SearchInv, Candidate
<1>3. FallbackInv'
  BY <1>1 DEF BootInv, Chooses, FallbackInv, FirstRange
<1>4. ChosenInv'
  <2>1. FirstOf(who)' = FirstOf(who) /\ FirstOf("zsl")' = FirstOf("zsl")
    BY <1>1 DEF FirstOf
  <2>2. \A k : /\ Found(who, k)' <=> Found(who, k)
               /\ EntryRange(k)' = EntryRange(k)
    BY <1>1, <2>1 DEF Found, Candidate, EntryRange
  <2>3. (NoTable' <=> NoTable) /\ FirstRange(disk.parts[1])' = FirstRange(disk.parts[1])
    BY <1>1 DEF NoTable, FirstRange
  <2>. QED  BY <1>1, <1>r, <2>1, <2>2, <2>3 DEF BootInv, Chooses, ChosenInv
<1>5. OutcomeInv'
  <2>1. BootsChosen'
    <3>1. FirstOf("zsl")' = FirstOf("zsl")
      BY <1>1, SameDisk
    <3>2. All(FirstOf("zsl"))' = All(FirstOf("zsl")) /\ UpTo(SpmLbas, All(1))' = UpTo(SpmLbas, All(1))
      BY <1>1, <3>1 DEF All, UpTo
    <3>. QED  BY <1>1, <1>r, <3>1, <3>2 DEF BootInv, Chooses, OutcomeInv, BootsChosen, FirstIllFormed, Extent
  <2>2. \A b : Good(b) => Good(b)'
    BY <1>1, <1>r, StillGood
  <2>3. FirstOf("zsl")' = FirstOf("zsl") /\ FirstIllFormed' = FirstIllFormed
    BY <1>1, SameDisk DEF FirstIllFormed
  <2>. QED  BY <1>1, <2>1, <2>2, <2>3 DEF BootInv, Chooses, OutcomeInv
<1>. QED  BY <1>2, <1>3, <1>4, <1>5 DEF Chooses

LEMMA ChoiceCorrect ==
  ASSUME Addressable, BootInv, [Next]_vars
  PROVE  BootInv'
<1>1. GptInv'
  BY StepCorrect DEF BootInv
<1>2. Chooses'
  BY InitDeviceChoice, CheckSignatureChoice, ReadHeaderChoice, ReadFailsChoice, ReadEntryChoice,
     MatchTypeChoice, SearchEndsChoice, CopyFailsChoice, StartLoaderChoice, BootCopyChoice,
     LoadPartChoice, StoppedChoice
     DEF Next, Works, Stop
<1>. QED  BY <1>1, <1>2 DEF BootInv

LEMMA ChoiceAlways == Addressable => (Spec => []BootInv)
<1>. SUFFICES ASSUME Addressable
              PROVE  Spec => []BootInv
  OBVIOUS
<1>1. Init => BootInv
  BY InitialInv, InitialChoice DEF BootInv
<1>2. BootInv /\ [Next]_vars => BootInv'
  BY ChoiceCorrect
<1>. QED  BY <1>1, <1>2, PTL DEF Spec

(* For every disk, every limit and every read that fails: what the boot    *)
(* ROM executes comes from the place of the first loader partition that    *)
(* fits in SPM, or else from where gpt.c falls back to, and it is what the *)
(* disk holds there, unless the signature could not be read from a disk    *)
(* that does not recover.                                                  *)
THEOREM ExecutesChosen == Addressable => (Spec => []BootsChosen)
<1>. SUFFICES ASSUME Addressable
              PROVE  Spec => []BootsChosen
  OBVIOUS
<1>1. BootInv => BootsChosen
  BY DEF BootInv, Chooses, OutcomeInv
<1>. QED  BY <1>1, ChoiceAlways, PTL

(* For every disk: if no read has failed, firmware launched from it and    *)
(* its device tree are the first of their types to fit, and whole.  If one *)
(* has, a disk that recovers still has them copied from the right place;   *)
(* nothing is promised of the bytes, or of a disk that does not recover.   *)
THEOREM LaunchesFound == Addressable => (Spec => []LaunchesRight)
<1>. SUFFICES ASSUME Addressable
              PROVE  Spec => []LaunchesRight
  OBVIOUS
<1>1. BootInv => LaunchesRight
  BY DEF BootInv, Chooses, OutcomeInv, Good, LaunchesRight
<1>. QED  BY <1>1, ChoiceAlways, PTL

(* For every disk: without a read that fails, a boot gives up only for     *)
(* something that is not on the disk.                                      *)
THEOREM FailsForCause == Addressable => (Spec => []FailsForAReason)
<1>. SUFFICES ASSUME Addressable
              PROVE  Spec => []FailsForAReason
  OBVIOUS
<1>1. BootInv => FailsForAReason
  BY DEF BootInv, Chooses, SearchInv, OutcomeInv, FailsForAReason
<1>. QED  BY <1>1, ChoiceAlways, PTL
------------------------------------------------------------------------------
(* How many more steps a boot can take at most: what is left of the search *)
(* it is in, and a whole search for each payload to come after it.  Every  *)
(* entry is read and compared at most once per search.                     *)
SearchLength == 2 * MaxCount + 7

LeftOfSearch ==
  [init |-> SearchLength, signature |-> SearchLength - 1, header |-> SearchLength - 2,
   entry |-> 2 * (MaxCount - p) + 4, type |-> 2 * (MaxCount - p) + 3,
   copy |-> 2, zsl |-> 1]

LaterSearches == [zsl |-> 2 * SearchLength, dtb |-> SearchLength, fw |-> 0]

StepsLeft == IF pc \in Final THEN 0 ELSE LeftOfSearch[pc] + LaterSearches[who]

LEMMA SearchFacts ==
  ASSUME TypeOK
  PROVE  /\ MaxCount \in Nat /\ SearchLength \in Nat /\ SearchLength >= 7
         /\ p \in 0 .. MaxCount /\ (p < Len(table) => p < MaxCount)
         /\ pc \notin Final => LeftOfSearch[pc] \in 1 .. SearchLength
         /\ LaterSearches[who] \in 0 .. 2 * SearchLength
<1>1. MaxCount \in Nat /\ p \in 0 .. MaxCount /\ (p < Len(table) => p < MaxCount) /\ (pc = "type" => p < MaxCount)
  <2>1. <<>> \in Seq(Entry) /\ Len(<<>>) = 0
    OBVIOUS
  <2>2. table \in Seq(Entry) /\ Len(table) <= MaxCount /\ MaxCount \in Nat
    <3>1. table = <<>> \/ table \in Misread \cup {d.parts : d \in Disks}
      BY DEF TypeOK
    <3>2. CASE table = <<>>
      BY <2>1, <3>2, DisksAssumption
    <3>3. CASE table \in Misread \cup {d.parts : d \in Disks}
      BY <3>3, DisksAssumption
    <3>. QED  BY <3>1, <3>2, <3>3
  <2>3. Len(table) \in Nat
    BY <2>2
  <2>. QED  BY <2>2, <2>3 DEF TypeOK
<1>2. SearchLength \in Nat /\ SearchLength >= 7 /\ SearchLength = 2 * MaxCount + 7
  BY <1>1 DEF SearchLength
<1>3. pc \notin Final => LeftOfSearch[pc] \in 1 .. SearchLength
  BY <1>1, <1>2 DEF LeftOfSearch, TypeOK, Labels
<1>4. LaterSearches[who] \in 0 .. 2 * SearchLength
  BY <1>2 DEF LaterSearches, TypeOK
<1>. QED  BY <1>1, <1>2, <1>3, <1>4

\* The loader that runs is not one that searches.
LoadsInOrder == pc = "zsl" => who = "zsl"

\* A step that stays with the same payload.
LEMMA SamePayload ==
  ASSUME TypeOK, UNCHANGED <<disk, who>>, pc \notin Final,
         pc' \notin Final => (LeftOfSearch[pc])' \in Int /\ (LeftOfSearch[pc])' < LeftOfSearch[pc]
  PROVE  StepsLeft' < StepsLeft
<1>1. (LaterSearches[who])' = LaterSearches[who]
  BY DEF LaterSearches, SearchLength
<1>2. LeftOfSearch[pc] \in Int /\ LeftOfSearch[pc] >= 1 /\ LaterSearches[who] \in Int /\ LaterSearches[who] >= 0
  BY SearchFacts
<1>3. StepsLeft = LeftOfSearch[pc] + LaterSearches[who]
  BY DEF StepsLeft
<1>4. StepsLeft' = IF pc' \in Final THEN 0 ELSE (LeftOfSearch[pc])' + (LaterSearches[who])'
  BY DEF StepsLeft, Final
<1>. QED  BY <1>1, <1>2, <1>3, <1>4

LEMMA SearchDescends ==
  ASSUME TypeOK, \/ InitDevice \/ CheckSignature \/ ReadHeader \/ ReadEntry \/ MatchType \/ SearchEnds
                 \/ ReadFails \/ CopyFails
  PROVE  StepsLeft' < StepsLeft
<1>1. UNCHANGED <<disk, who>>
  BY DEF InitDevice, CheckSignature, ReadHeader, ReadEntry, MatchType, SearchEnds, ReadFails, CopyFails
<1>2. SearchLength' = SearchLength /\ SearchLength = 2 * MaxCount + 7
  BY DEF SearchLength
<1>3. \/ pc = "init" /\ pc' \in {"signature", "error"}
      \/ pc = "signature" /\ pc' \in {"header", "copy"}
      \/ pc = "header" /\ pc' = "entry" /\ p' = 0
      \/ pc = "entry" /\ pc' = "entry" /\ p' = p + 1 /\ p < Len(table)
      \/ pc = "entry" /\ pc' = "type" /\ p' = p
      \/ pc = "type" /\ pc' = "entry" /\ p' = p + 1 /\ p < Len(table)
      \/ pc \in {"type", "entry"} /\ pc' = "copy"
      \/ pc \notin Final /\ pc' \in Final
  BY DEF InitDevice, CheckSignature, ReadHeader, ReadEntry, MatchType, SearchEnds, ReadFails, CopyFails, Go,
    OnError, OnNone, Final, TypeOK
<1>4. pc \notin Final
  BY <1>3 DEF Final
<1>5. pc' \notin Final => (LeftOfSearch[pc])' \in Int /\ (LeftOfSearch[pc])' < LeftOfSearch[pc]
  <2>1. /\ MaxCount \in Nat /\ SearchLength >= 7
        /\ p \in 0 .. MaxCount /\ (p < Len(table) => p < MaxCount)
    BY SearchFacts
  <2>. DEFINE entries == MaxCount
  <2>. HIDE DEF entries
  <2>2. /\ entries \in Nat /\ p \in Int /\ p <= entries /\ SearchLength = 2 * entries + 7
        /\ pc = "type" /\ pc' = "entry" => p < entries
    BY <1>2, <1>3, <2>1 DEF entries, Final
  <2>3. /\ pc = "init" => LeftOfSearch[pc] = SearchLength
        /\ pc = "signature" => LeftOfSearch[pc] = SearchLength - 1
        /\ pc = "header" => LeftOfSearch[pc] = SearchLength - 2
        /\ pc = "entry" => LeftOfSearch[pc] = 2 * (entries - p) + 4
        /\ pc = "type" => LeftOfSearch[pc] = 2 * (entries - p) + 3
    BY DEF LeftOfSearch, entries
  <2>4. /\ pc' = "signature" => (LeftOfSearch[pc])' = SearchLength - 1
        /\ pc' = "header" => (LeftOfSearch[pc])' = SearchLength - 2
        /\ pc' = "entry" => (LeftOfSearch[pc])' = 2 * (entries - p') + 4
        /\ pc' = "type" => (LeftOfSearch[pc])' = 2 * (entries - p') + 3
        /\ pc' = "copy" => (LeftOfSearch[pc])' = 2
    BY <1>1, <1>2 DEF LeftOfSearch, entries
  <2>5. CASE pc = "init" \/ pc = "signature"
    BY <1>3, <2>2, <2>3, <2>4, <2>5 DEF Final
  <2>6. CASE pc = "header"
    BY <1>3, <2>2, <2>3, <2>4, <2>6 DEF Final
  <2>7. CASE pc = "entry"
    BY <1>3, <2>2, <2>3, <2>4, <2>7 DEF Final
  <2>8. CASE pc = "type"
    BY <1>3, <2>2, <2>3, <2>4, <2>8 DEF Final
  <2>. QED  BY <1>3, <2>5, <2>6, <2>7, <2>8
<1>. QED  BY <1>1, <1>4, <1>5, SamePayload

\* From one payload to the next.
LEMMA PayloadDescends ==
  ASSUME TypeOK, BootCopy \/ StartLoader \/ LoadPart, LoadsInOrder
  PROVE  StepsLeft' < StepsLeft
<1>1. SearchLength' = SearchLength /\ SearchLength \in Nat /\ SearchLength >= 7
  BY SearchFacts DEF BootCopy, StartLoader, LoadPart, SearchLength
<1>2. \/ pc = "copy" /\ pc' = "zsl" /\ who = "zsl" /\ who' = "zsl"
      \/ pc = "zsl" /\ pc' = "header" /\ who = "zsl" /\ who' = "dtb"
      \/ pc = "copy" /\ pc' = "header" /\ who = "dtb" /\ who' = "fw"
      \/ pc \notin Final /\ pc' \in Final
  BY DEF BootCopy, StartLoader, LoadPart, Go, LoadsInOrder, Final
<1>3. CASE pc' \in Final
  <2>1. pc \notin Final
    BY <1>2 DEF Final
  <2>2. StepsLeft = LeftOfSearch[pc] + LaterSearches[who] /\ StepsLeft' = 0
    BY <1>3, <2>1 DEF StepsLeft, Final
  <2>3. LeftOfSearch[pc] \in Int /\ LeftOfSearch[pc] >= 1 /\ LaterSearches[who] \in Int /\ LaterSearches[who] >= 0
    BY <2>1, SearchFacts
  <2>. QED  BY <2>2, <2>3
<1>4. CASE pc' \notin Final
  <2>1. pc \notin Final
    BY <1>2, <1>4 DEF Final
  <2>2. /\ StepsLeft = LeftOfSearch[pc] + LaterSearches[who]
        /\ StepsLeft' = (LeftOfSearch[pc])' + (LaterSearches[who])'
    BY <1>4, <2>1 DEF StepsLeft
  <2>. QED  BY <1>1, <1>2, <1>4, <2>2 DEF LeftOfSearch, LaterSearches
<1>. QED  BY <1>3, <1>4

LEMMA OrderKept ==
  ASSUME TypeOK, LoadsInOrder, [Next]_vars
  PROVE  LoadsInOrder'
BY DEF Next, Works, InitDevice, CheckSignature, ReadHeader, ReadEntry, MatchType, SearchEnds, BootCopy,
  StartLoader, LoadPart, ReadFails, CopyFails, Stop, vars, Go, OnError, OnNone, LoadsInOrder, TypeOK

(* Every boot comes to an end within a number of steps that is fixed by    *)
(* how many entries a header can announce, whatever the table holds or is  *)
(* taken to hold, and whichever reads fail: no entry, however it is        *)
(* ill-formed, is looked at twice in one search, and no payload is         *)
(* searched for twice.                                                     *)
THEOREM BootBounded ==
  Spec => [](StepsLeft \in 0 .. 3 * SearchLength) /\ [][StepsLeft' < StepsLeft]_vars
<1>1. TypeOK => StepsLeft \in 0 .. 3 * SearchLength
  <2>. SUFFICES ASSUME TypeOK PROVE StepsLeft \in 0 .. 3 * SearchLength
    OBVIOUS
  <2>1. CASE pc \in Final
    BY <2>1, SearchFacts DEF StepsLeft
  <2>2. CASE pc \notin Final
    <3>1. StepsLeft = LeftOfSearch[pc] + LaterSearches[who]
      BY <2>2 DEF StepsLeft
    <3>2. /\ LeftOfSearch[pc] \in 1 .. SearchLength /\ LaterSearches[who] \in 0 .. 2 * SearchLength
          /\ SearchLength \in Nat
      BY <2>2, SearchFacts
    <3>. QED  BY <3>1, <3>2
  <2>. QED  BY <2>1, <2>2
<1>2. Init => LoadsInOrder
  BY DEF Init, LoadsInOrder
<1>3. TypeOK /\ LoadsInOrder /\ [Next]_vars => LoadsInOrder'
  BY OrderKept
<1>4. TypeOK /\ LoadsInOrder /\ [Next]_vars => [StepsLeft' < StepsLeft]_vars
  BY SearchDescends, PayloadDescends DEF Next, Works, Stop
<1>. QED  BY <1>1, <1>2, <1>3, <1>4, BootTyped, PTL DEF Spec
==============================================================================
