---------------------------- MODULE SmpBootProofs ----------------------------
(***************************************************************************)
(* Proofs about SmpBoot, for any number of harts and any boot address.     *)
(***************************************************************************)
EXTENDS SmpBoot, TLAPS

------------------------------------------------------------------------------
(* The inductive invariant, in two parts.  The first follows the boot      *)
(* address and holds whichever hart runs the ROM.                          *)

\* How far the boot hart has got, and the stores it has issued on its way.
BeforeStage == pc[NonSmpHart] \in {"reset", "rom"}
BeforeWake  == pc[NonSmpHart] \in {"reset", "rom", "store_lo", "store_hi", "fence"}

StoresIssued ==
  /\ sent.landed <= sent.issued
  /\ wake.landed <= wake.issued
  /\ BeforeStage => a0 = NoAddress /\ sent.issued = 0
  /\ ~BeforeStage => a0 \in Addresses
  /\ pc[NonSmpHart] = "store_lo" => sent.issued = 0
  /\ pc[NonSmpHart] = "store_hi" => sent.issued = 1
  /\ pc[NonSmpHart] = "fence" => sent.issued = 2
  /\ BeforeWake => wake.issued = 0
  /\ ~BeforeWake => sent.issued = 2 /\ sent.landed = 2
  /\ pc[NonSmpHart] = "wake" => wake.issued < NumHarts
  /\ ~BeforeWake /\ pc[NonSmpHart] # "wake" => wake.issued = NumHarts

ScratchLanded ==
  /\ sent.landed >= 1 => scratch[4] = a0[4]
  /\ sent.landed = 2 => scratch[5] = a0[5]

\* Only the boot hart executes the code between the ROM and loop 2.
OthersWait ==
  \A h \in Harts \ {NonSmpHart} :
    pc[h] \notin {"rom", "store_lo", "store_hi", "fence", "wake"}

LoadsRight ==
  \A h \in Harts :
    /\ pc[h] = "load_lo" => loaded[h][5] = a0[5]
    /\ pc[h] \in {"jump", "firmware", "ret"} => loaded[h] = a0

\* A flag is up, or has been, only if its wake-up call has landed.
FlagsCalled ==
  \A h \in Harts : msip[h] = 1 \/ h \in Awake => h < wake.landed

\* A called hart's flag stays up until its clearing store has landed.
FlagsKept ==
  \A h \in Harts :
    h < wake.landed /\ (h \notin Awake \/ pc[h] = "clear" \/ clearing[h]) => msip[h] = 1

ClearsOwn == \A h \in Harts : clearing[h] => pc[h] = "scan"

ScanInRange == \A h \in Harts : pc[h] = "scan" => index[h] < NumHarts

HandOverInv ==
  /\ TypeOK /\ StoresIssued /\ ScratchLanded /\ OthersWait
  /\ LoadsRight /\ FlagsCalled /\ FlagsKept /\ ClearsOwn /\ ScanInRange

(* The second part follows the barrier.  The boot hart's own clearing      *)
(* store lands after all wake-up calls, so that a hart which finds hart    *)
(* 0's flag clear knows that every flag has been up.                       *)
AllCalled ==
  pc[NonSmpHart] \in {"scan", "load_hi", "load_lo", "jump", "firmware", "ret"}
    /\ ~clearing[NonSmpHart] => wake.landed = NumHarts

ScannedAwake ==
  \A h \in Harts : pc[h] = "scan" =>
    /\ index[h] > 0 => wake.landed = NumHarts
    /\ \A j \in Harts : j < index[h] => j \in Awake

BarrierInv == HandOverInv /\ AllCalled /\ ScannedAwake /\ NobodyLeftBehind

------------------------------------------------------------------------------
LEMMA TypeInit == Init => TypeOK
BY NumHartsAssumption, NonSmpHartAssumption, WordsAssumption, MaxIpisAssumption
   DEF Init, TypeOK, Harts, Addresses, Labels

\* TypeOK alone is not inductive: loop 1 stays within its count because of
\* StoresIssued, and StoreAddress because of its two program points.
LEMMA TypeStep == TypeOK /\ StoresIssued /\ ScanInRange /\ [Next]_vars => TypeOK'
<1> SUFFICES ASSUME TypeOK, StoresIssued, ScanInRange, [Next]_vars
             PROVE  TypeOK'
  OBVIOUS
<1> USE NumHartsAssumption, NonSmpHartAssumption, WordsAssumption, MaxIpisAssumption
    DEF TypeOK, StoresIssued, ScanInRange, BeforeWake, BeforeStage, Goto, Harts, Addresses, Labels
<1>1. ASSUME NEW h \in Harts, Pause(h)
     PROVE  TypeOK'
  BY <1>1 DEF Pause
<1>2. ASSUME NEW h \in Harts, Wfi(h)
     PROVE  TypeOK'
  BY <1>2 DEF Wfi
<1>3. ASSUME NEW h \in Harts, TestMip(h)
     PROVE  TypeOK'
  BY <1>3 DEF TestMip
<1>4. ASSUME NEW h \in Harts, ClearOwn(h)
     PROVE  TypeOK'
  <2>1. index' \in [Harts -> 0 .. NumHarts]
    BY <1>4 DEF ClearOwn
  <2>2. pc' \in [Harts -> Labels] /\ clearing' \in [Harts -> BOOLEAN]
    BY <1>4 DEF ClearOwn
  <2>. QED
    BY <1>4, <2>1, <2>2 DEF ClearOwn
<1>5. ASSUME NEW h \in Harts, Scan(h)
     PROVE  TypeOK'
  <2>1. index[h] + 1 \in 0 .. NumHarts
    BY <1>5 DEF Scan
  <2>2. index' \in [Harts -> 0 .. NumHarts]
    BY <1>5, <2>1 DEF Scan
  <2>3. pc' \in [Harts -> Labels]
    BY <1>5 DEF Scan
  <2>. QED
    BY <1>5, <2>2, <2>3 DEF Scan
<1>6. ASSUME NEW h \in Harts, LoadHi(h)
     PROVE  TypeOK'
  BY <1>6 DEF LoadHi
<1>7. ASSUME NEW h \in Harts, LoadLo(h)
     PROVE  TypeOK'
  BY <1>7 DEF LoadLo
<1>8. ASSUME NEW h \in Harts, Jump(h)
     PROVE  TypeOK'
  BY <1>8 DEF Jump
<1>9. ASSUME NEW h \in Harts, HandleIpi(h)
     PROVE  TypeOK'
  BY <1>9 DEF HandleIpi
<1>10. ASSUME NEW h \in Harts, WfiSpurious(h)
     PROVE  TypeOK'
  BY <1>10 DEF WfiSpurious
<1>11. ASSUME NEW h \in Harts, Return(h)
     PROVE  TypeOK'
  BY <1>11 DEF Return
<1>12. ASSUME NEW h \in Harts, SendIpi(h)
     PROVE  TypeOK'
  BY <1>12 DEF SendIpi
<1>13. ASSUME NEW a \in Addresses, BootNextStage(a)
     PROVE  TypeOK'
  <2>1. pc' \in [Harts -> Labels]
    BY <1>13 DEF BootNextStage
  <2>2. a0' \in Addresses
    BY <1>13 DEF BootNextStage
  <2>. QED
    BY <1>13, <2>1, <2>2 DEF BootNextStage
<1>14. CASE StoreAddress
  <2>1. sent.issued + 1 \in 0 .. 2 /\ sent.landed \in 0 .. 2
    BY <1>14 DEF StoreAddress
  <2>2. sent' \in [issued : 0 .. 2, landed : 0 .. 2]
    BY <1>14, <2>1 DEF StoreAddress
  <2>3. pc' \in [Harts -> Labels]
    <3>1. CASE Goto(NonSmpHart, "store_lo", "store_hi")
      BY <3>1
    <3>2. CASE Goto(NonSmpHart, "store_hi", "fence")
      BY <3>2
    <3>. QED
      BY <1>14, <3>1, <3>2 DEF StoreAddress
  <2>. QED
    BY <1>14, <2>2, <2>3 DEF StoreAddress
<1>15. CASE Fence
  BY <1>15 DEF Fence
<1>16. CASE WakeNext
  BY <1>16 DEF WakeNext
<1>17. CASE LandScratch
  BY <1>17 DEF LandScratch
<1>18. CASE LandWake
  <2>1. wake.landed + 1 \in 0 .. NumHarts
    BY <1>18 DEF LandWake
  <2>2. wake' \in [issued : 0 .. NumHarts, landed : 0 .. NumHarts]
    BY <1>18, <2>1 DEF LandWake
  <2>. QED
    BY <1>18, <2>2 DEF LandWake
<1>19. ASSUME NEW h \in Harts, LandClear(h)
     PROVE  TypeOK'
  BY <1>19 DEF LandClear
<1>20. CASE UNCHANGED vars
  BY <1>20 DEF vars
<1>. QED
  BY <1>1, <1>2, <1>3, <1>4, <1>5, <1>6, <1>7, <1>8, <1>9, <1>10, <1>11, <1>12, <1>13, <1>14, <1>15, <1>16, <1>17, <1>18, <1>19, <1>20
     DEF Next, Hart, BootHart, Land

(* HandOverInv is inductive: one step per action, the type invariant       *)
(* being left to TypeStep.                                                 *)
LEMMA HandOverStep == HandOverInv /\ [Next]_vars => HandOverInv'
<1> SUFFICES ASSUME HandOverInv, [Next]_vars
             PROVE  HandOverInv'
  OBVIOUS
<1>0. TypeOK'
  BY TypeStep DEF HandOverInv
<1> DEFINE Rest == /\ StoresIssued /\ ScratchLanded /\ OthersWait
                   /\ LoadsRight /\ FlagsCalled /\ FlagsKept /\ ClearsOwn /\ ScanInRange
<1> USE NumHartsAssumption, NonSmpHartAssumption
    DEF HandOverInv, TypeOK, StoresIssued, ScratchLanded, OthersWait, LoadsRight,
        FlagsCalled, FlagsKept, ClearsOwn, ScanInRange, BeforeStage, BeforeWake,
        Awake, Goto, ClintSettled, Harts, Addresses, Labels
<1>1. ASSUME NEW h \in Harts, Pause(h)
      PROVE  Rest'
  <2>1. StoresIssued'
    BY <1>0, <1>1 DEF Pause
  <2>2. ScratchLanded'
    BY <1>0, <1>1 DEF Pause
  <2>3. OthersWait'
    BY <1>0, <1>1 DEF Pause
  <2>4. LoadsRight'
    BY <1>0, <1>1 DEF Pause
  <2>5. FlagsCalled'
    BY <1>0, <1>1 DEF Pause
  <2>6. FlagsKept'
    BY <1>0, <1>1 DEF Pause
  <2>7. ClearsOwn'
    BY <1>0, <1>1 DEF Pause
  <2>8. ScanInRange'
    BY <1>0, <1>1 DEF Pause
  <2>. QED
    BY <1>0, <2>1, <2>2, <2>3, <2>4, <2>5, <2>6, <2>7, <2>8
<1>2. ASSUME NEW h \in Harts, Wfi(h)
      PROVE  Rest'
  <2>1. StoresIssued'
    BY <1>0, <1>2 DEF Wfi
  <2>2. ScratchLanded'
    BY <1>0, <1>2 DEF Wfi
  <2>3. OthersWait'
    BY <1>0, <1>2 DEF Wfi
  <2>4. LoadsRight'
    BY <1>0, <1>2 DEF Wfi
  <2>5. FlagsCalled'
    BY <1>0, <1>2 DEF Wfi
  <2>6. FlagsKept'
    BY <1>0, <1>2 DEF Wfi
  <2>7. ClearsOwn'
    BY <1>0, <1>2 DEF Wfi
  <2>8. ScanInRange'
    BY <1>0, <1>2 DEF Wfi
  <2>. QED
    BY <1>0, <2>1, <2>2, <2>3, <2>4, <2>5, <2>6, <2>7, <2>8
<1>3. ASSUME NEW h \in Harts, TestMip(h)
      PROVE  Rest'
  <2>1. StoresIssued'
    BY <1>0, <1>3 DEF TestMip
  <2>2. ScratchLanded'
    BY <1>0, <1>3 DEF TestMip
  <2>3. OthersWait'
    BY <1>0, <1>3 DEF TestMip
  <2>4. LoadsRight'
    BY <1>0, <1>3 DEF TestMip
  <2>5. FlagsCalled'
    BY <1>0, <1>3 DEF TestMip
  <2>6. FlagsKept'
    BY <1>0, <1>3 DEF TestMip
  <2>7. ClearsOwn'
    BY <1>0, <1>3 DEF TestMip
  <2>8. ScanInRange'
    BY <1>0, <1>3 DEF TestMip
  <2>. QED
    BY <1>0, <2>1, <2>2, <2>3, <2>4, <2>5, <2>6, <2>7, <2>8
<1>4. ASSUME NEW h \in Harts, ClearOwn(h)
      PROVE  Rest'
  <2>1. StoresIssued'
    BY <1>0, <1>4 DEF ClearOwn
  <2>2. ScratchLanded'
    BY <1>0, <1>4 DEF ClearOwn
  <2>3. OthersWait'
    BY <1>0, <1>4 DEF ClearOwn
  <2>4. LoadsRight'
    BY <1>0, <1>4 DEF ClearOwn
  <2>5. FlagsCalled'
    BY <1>0, <1>4 DEF ClearOwn
  <2>6. FlagsKept'
    BY <1>0, <1>4 DEF ClearOwn
  <2>7. ClearsOwn'
    BY <1>0, <1>4 DEF ClearOwn
  <2>8. ScanInRange'
    BY <1>0, <1>4 DEF ClearOwn
  <2>. QED
    BY <1>0, <2>1, <2>2, <2>3, <2>4, <2>5, <2>6, <2>7, <2>8
<1>5. ASSUME NEW h \in Harts, Scan(h)
      PROVE  Rest'
  <2>1. StoresIssued'
    BY <1>0, <1>5 DEF Scan
  <2>2. ScratchLanded'
    BY <1>0, <1>5 DEF Scan
  <2>3. OthersWait'
    BY <1>0, <1>5 DEF Scan
  <2>4. LoadsRight'
    BY <1>0, <1>5 DEF Scan
  <2>5. FlagsCalled'
    BY <1>0, <1>5 DEF Scan
  <2>6. FlagsKept'
    BY <1>0, <1>5 DEF Scan
  <2>7. ClearsOwn'
    BY <1>0, <1>5 DEF Scan
  <2>8. ScanInRange'
    BY <1>0, <1>5 DEF Scan
  <2>. QED
    BY <1>0, <2>1, <2>2, <2>3, <2>4, <2>5, <2>6, <2>7, <2>8
<1>6. ASSUME NEW h \in Harts, LoadHi(h)
      PROVE  Rest'
  <2>1. StoresIssued'
    BY <1>0, <1>6 DEF LoadHi
  <2>2. ScratchLanded'
    BY <1>0, <1>6 DEF LoadHi
  <2>3. OthersWait'
    BY <1>0, <1>6 DEF LoadHi
  <2>4. LoadsRight'
    BY <1>0, <1>6 DEF LoadHi
  <2>5. FlagsCalled'
    BY <1>0, <1>6 DEF LoadHi
  <2>6. FlagsKept'
    BY <1>0, <1>6 DEF LoadHi
  <2>7. ClearsOwn'
    BY <1>0, <1>6 DEF LoadHi
  <2>8. ScanInRange'
    BY <1>0, <1>6 DEF LoadHi
  <2>. QED
    BY <1>0, <2>1, <2>2, <2>3, <2>4, <2>5, <2>6, <2>7, <2>8
<1>7. ASSUME NEW h \in Harts, LoadLo(h)
      PROVE  Rest'
  <2>1. StoresIssued'
    BY <1>0, <1>7 DEF LoadLo
  <2>2. ScratchLanded'
    BY <1>0, <1>7 DEF LoadLo
  <2>3. OthersWait'
    BY <1>0, <1>7 DEF LoadLo
  <2>4. LoadsRight'
    BY <1>0, <1>7 DEF LoadLo
  <2>5. FlagsCalled'
    BY <1>0, <1>7 DEF LoadLo
  <2>6. FlagsKept'
    BY <1>0, <1>7 DEF LoadLo
  <2>7. ClearsOwn'
    BY <1>0, <1>7 DEF LoadLo
  <2>8. ScanInRange'
    BY <1>0, <1>7 DEF LoadLo
  <2>. QED
    BY <1>0, <2>1, <2>2, <2>3, <2>4, <2>5, <2>6, <2>7, <2>8
<1>8. ASSUME NEW h \in Harts, Jump(h)
      PROVE  Rest'
  <2>1. StoresIssued'
    BY <1>0, <1>8 DEF Jump
  <2>2. ScratchLanded'
    BY <1>0, <1>8 DEF Jump
  <2>3. OthersWait'
    BY <1>0, <1>8 DEF Jump
  <2>4. LoadsRight'
    BY <1>0, <1>8 DEF Jump
  <2>5. FlagsCalled'
    BY <1>0, <1>8 DEF Jump
  <2>6. FlagsKept'
    BY <1>0, <1>8 DEF Jump
  <2>7. ClearsOwn'
    BY <1>0, <1>8 DEF Jump
  <2>8. ScanInRange'
    BY <1>0, <1>8 DEF Jump
  <2>. QED
    BY <1>0, <2>1, <2>2, <2>3, <2>4, <2>5, <2>6, <2>7, <2>8
<1>9. ASSUME NEW h \in Harts, HandleIpi(h)
      PROVE  Rest'
  <2>1. StoresIssued'
    BY <1>0, <1>9 DEF HandleIpi
  <2>2. ScratchLanded'
    BY <1>0, <1>9 DEF HandleIpi
  <2>3. OthersWait'
    BY <1>0, <1>9 DEF HandleIpi
  <2>4. LoadsRight'
    BY <1>0, <1>9 DEF HandleIpi
  <2>5. FlagsCalled'
    BY <1>0, <1>9 DEF HandleIpi
  <2>6. FlagsKept'
    BY <1>0, <1>9 DEF HandleIpi
  <2>7. ClearsOwn'
    BY <1>0, <1>9 DEF HandleIpi
  <2>8. ScanInRange'
    BY <1>0, <1>9 DEF HandleIpi
  <2>. QED
    BY <1>0, <2>1, <2>2, <2>3, <2>4, <2>5, <2>6, <2>7, <2>8
<1>10. ASSUME NEW h \in Harts, WfiSpurious(h)
      PROVE  Rest'
  <2>1. StoresIssued'
    BY <1>0, <1>10 DEF WfiSpurious
  <2>2. ScratchLanded'
    BY <1>0, <1>10 DEF WfiSpurious
  <2>3. OthersWait'
    BY <1>0, <1>10 DEF WfiSpurious
  <2>4. LoadsRight'
    BY <1>0, <1>10 DEF WfiSpurious
  <2>5. FlagsCalled'
    BY <1>0, <1>10 DEF WfiSpurious
  <2>6. FlagsKept'
    BY <1>0, <1>10 DEF WfiSpurious
  <2>7. ClearsOwn'
    BY <1>0, <1>10 DEF WfiSpurious
  <2>8. ScanInRange'
    BY <1>0, <1>10 DEF WfiSpurious
  <2>. QED
    BY <1>0, <2>1, <2>2, <2>3, <2>4, <2>5, <2>6, <2>7, <2>8
<1>11. ASSUME NEW h \in Harts, Return(h)
      PROVE  Rest'
  <2>1. StoresIssued'
    BY <1>0, <1>11 DEF Return
  <2>2. ScratchLanded'
    BY <1>0, <1>11 DEF Return
  <2>3. OthersWait'
    BY <1>0, <1>11 DEF Return
  <2>4. LoadsRight'
    BY <1>0, <1>11 DEF Return
  <2>5. FlagsCalled'
    BY <1>0, <1>11 DEF Return
  <2>6. FlagsKept'
    BY <1>0, <1>11 DEF Return
  <2>7. ClearsOwn'
    BY <1>0, <1>11 DEF Return
  <2>8. ScanInRange'
    BY <1>0, <1>11 DEF Return
  <2>. QED
    BY <1>0, <2>1, <2>2, <2>3, <2>4, <2>5, <2>6, <2>7, <2>8
<1>12. ASSUME NEW h \in Harts, SendIpi(h)
      PROVE  Rest'
  <2>1. StoresIssued'
    BY <1>0, <1>12 DEF SendIpi
  <2>2. ScratchLanded'
    BY <1>0, <1>12 DEF SendIpi
  <2>3. OthersWait'
    BY <1>0, <1>12 DEF SendIpi
  <2>4. LoadsRight'
    BY <1>0, <1>12 DEF SendIpi
  <2>5. FlagsCalled'
    BY <1>0, <1>12 DEF SendIpi
  <2>6. FlagsKept'
    BY <1>0, <1>12 DEF SendIpi
  <2>7. ClearsOwn'
    BY <1>0, <1>12 DEF SendIpi
  <2>8. ScanInRange'
    BY <1>0, <1>12 DEF SendIpi
  <2>. QED
    BY <1>0, <2>1, <2>2, <2>3, <2>4, <2>5, <2>6, <2>7, <2>8
<1>13. ASSUME NEW a \in Addresses, BootNextStage(a)
      PROVE  Rest'
  <2>1. StoresIssued'
    BY <1>0, <1>13 DEF BootNextStage
  <2>2. ScratchLanded'
    BY <1>0, <1>13 DEF BootNextStage
  <2>3. OthersWait'
    BY <1>0, <1>13 DEF BootNextStage
  <2>4. LoadsRight'
    BY <1>0, <1>13 DEF BootNextStage
  <2>5. FlagsCalled'
    BY <1>0, <1>13 DEF BootNextStage
  <2>6. FlagsKept'
    BY <1>0, <1>13 DEF BootNextStage
  <2>7. ClearsOwn'
    BY <1>0, <1>13 DEF BootNextStage
  <2>8. ScanInRange'
    BY <1>0, <1>13 DEF BootNextStage
  <2>. QED
    BY <1>0, <2>1, <2>2, <2>3, <2>4, <2>5, <2>6, <2>7, <2>8
<1>14. CASE StoreAddress
  <2>1. StoresIssued'
    BY <1>0, <1>14 DEF StoreAddress
  <2>2. ScratchLanded'
    BY <1>0, <1>14 DEF StoreAddress
  <2>3. OthersWait'
    BY <1>0, <1>14 DEF StoreAddress
  <2>4. LoadsRight'
    BY <1>0, <1>14 DEF StoreAddress
  <2>5. FlagsCalled'
    BY <1>0, <1>14 DEF StoreAddress
  <2>6. FlagsKept'
    BY <1>0, <1>14 DEF StoreAddress
  <2>7. ClearsOwn'
    BY <1>0, <1>14 DEF StoreAddress
  <2>8. ScanInRange'
    BY <1>0, <1>14 DEF StoreAddress
  <2>. QED
    BY <1>0, <2>1, <2>2, <2>3, <2>4, <2>5, <2>6, <2>7, <2>8
<1>15. CASE Fence
  <2>1. StoresIssued'
    BY <1>0, <1>15 DEF Fence
  <2>2. ScratchLanded'
    BY <1>0, <1>15 DEF Fence
  <2>3. OthersWait'
    BY <1>0, <1>15 DEF Fence
  <2>4. LoadsRight'
    BY <1>0, <1>15 DEF Fence
  <2>5. FlagsCalled'
    BY <1>0, <1>15 DEF Fence
  <2>6. FlagsKept'
    BY <1>0, <1>15 DEF Fence
  <2>7. ClearsOwn'
    BY <1>0, <1>15 DEF Fence
  <2>8. ScanInRange'
    BY <1>0, <1>15 DEF Fence
  <2>. QED
    BY <1>0, <2>1, <2>2, <2>3, <2>4, <2>5, <2>6, <2>7, <2>8
<1>16. CASE WakeNext
  <2>1. StoresIssued'
    BY <1>0, <1>16 DEF WakeNext
  <2>2. ScratchLanded'
    BY <1>0, <1>16 DEF WakeNext
  <2>3. OthersWait'
    BY <1>0, <1>16 DEF WakeNext
  <2>4. LoadsRight'
    BY <1>0, <1>16 DEF WakeNext
  <2>5. FlagsCalled'
    BY <1>0, <1>16 DEF WakeNext
  <2>6. FlagsKept'
    BY <1>0, <1>16 DEF WakeNext
  <2>7. ClearsOwn'
    BY <1>0, <1>16 DEF WakeNext
  <2>8. ScanInRange'
    BY <1>0, <1>16 DEF WakeNext
  <2>. QED
    BY <1>0, <2>1, <2>2, <2>3, <2>4, <2>5, <2>6, <2>7, <2>8
<1>17. CASE LandScratch
  <2>1. StoresIssued'
    BY <1>0, <1>17 DEF LandScratch
  <2>2. ScratchLanded'
    BY <1>0, <1>17 DEF LandScratch
  <2>3. OthersWait'
    BY <1>0, <1>17 DEF LandScratch
  <2>4. LoadsRight'
    BY <1>0, <1>17 DEF LandScratch
  <2>5. FlagsCalled'
    BY <1>0, <1>17 DEF LandScratch
  <2>6. FlagsKept'
    BY <1>0, <1>17 DEF LandScratch
  <2>7. ClearsOwn'
    BY <1>0, <1>17 DEF LandScratch
  <2>8. ScanInRange'
    BY <1>0, <1>17 DEF LandScratch
  <2>. QED
    BY <1>0, <2>1, <2>2, <2>3, <2>4, <2>5, <2>6, <2>7, <2>8
<1>18. CASE LandWake
  <2>1. StoresIssued'
    BY <1>0, <1>18 DEF LandWake
  <2>2. ScratchLanded'
    BY <1>0, <1>18 DEF LandWake
  <2>3. OthersWait'
    BY <1>0, <1>18 DEF LandWake
  <2>4. LoadsRight'
    BY <1>0, <1>18 DEF LandWake
  <2>5. FlagsCalled'
    BY <1>0, <1>18 DEF LandWake
  <2>6. FlagsKept'
    BY <1>0, <1>18, SMTT(20) DEF LandWake
  <2>7. ClearsOwn'
    BY <1>0, <1>18 DEF LandWake
  <2>8. ScanInRange'
    BY <1>0, <1>18 DEF LandWake
  <2>. QED
    BY <1>0, <2>1, <2>2, <2>3, <2>4, <2>5, <2>6, <2>7, <2>8
<1>19. ASSUME NEW h \in Harts, LandClear(h)
      PROVE  Rest'
  <2>1. StoresIssued'
    BY <1>0, <1>19 DEF LandClear
  <2>2. ScratchLanded'
    BY <1>0, <1>19 DEF LandClear
  <2>3. OthersWait'
    BY <1>0, <1>19 DEF LandClear
  <2>4. LoadsRight'
    BY <1>0, <1>19 DEF LandClear
  <2>5. FlagsCalled'
    BY <1>0, <1>19 DEF LandClear
  <2>6. FlagsKept'
    BY <1>0, <1>19 DEF LandClear
  <2>7. ClearsOwn'
    BY <1>0, <1>19 DEF LandClear
  <2>8. ScanInRange'
    BY <1>0, <1>19 DEF LandClear
  <2>. QED
    BY <1>0, <2>1, <2>2, <2>3, <2>4, <2>5, <2>6, <2>7, <2>8
<1>20. CASE UNCHANGED vars
  <2>1. StoresIssued'
    BY <1>20 DEF vars
  <2>2. ScratchLanded'
    BY <1>20 DEF vars
  <2>3. OthersWait'
    BY <1>20 DEF vars
  <2>4. LoadsRight'
    BY <1>20 DEF vars
  <2>5. FlagsCalled'
    BY <1>20 DEF vars
  <2>6. FlagsKept'
    BY <1>20 DEF vars
  <2>7. ClearsOwn'
    BY <1>20 DEF vars
  <2>8. ScanInRange'
    BY <1>20 DEF vars
  <2>. QED
    BY <1>0, <2>1, <2>2, <2>3, <2>4, <2>5, <2>6, <2>7, <2>8
<1>21. ASSUME NEW h \in Harts, Hart(h)
       PROVE  Rest'
  BY <1>0, <1>1, <1>2, <1>3, <1>4, <1>5, <1>6, <1>7, <1>8, <1>9, <1>21 DEF Hart
<1>22. CASE BootHart
  BY <1>0, <1>13, <1>14, <1>15, <1>16, <1>22 DEF BootHart
<1>23. CASE Land
  BY <1>0, <1>17, <1>18, <1>19, <1>23 DEF Land
<1>24. Rest'
  BY <1>0, <1>10, <1>11, <1>12, <1>20, <1>21, <1>22, <1>23 DEF Next
<1>. QED
  BY <1>0, <1>24

LEMMA HandOverInit == Init => HandOverInv
<1> SUFFICES ASSUME Init
             PROVE  HandOverInv
  OBVIOUS
<1>1. TypeOK
  BY TypeInit
<1>2. StoresIssued /\ ScratchLanded /\ OthersWait
  BY NumHartsAssumption, NonSmpHartAssumption
     DEF Init, Harts, StoresIssued, ScratchLanded, OthersWait, BeforeStage, BeforeWake
<1>3. LoadsRight /\ FlagsCalled /\ FlagsKept /\ ClearsOwn /\ ScanInRange
  BY NumHartsAssumption
     DEF Init, Harts, LoadsRight, FlagsCalled, FlagsKept, ClearsOwn, ScanInRange, Awake
<1>. QED
  BY <1>1, <1>2, <1>3 DEF HandOverInv

LEMMA HandOver == Spec => []HandOverInv
BY HandOverInit, HandOverStep, PTL DEF Spec

(* The type invariant holds in every reachable state.                      *)
THEOREM TypeCorrect == Spec => []TypeOK
BY HandOver, PTL DEF HandOverInv

(* Whichever hart runs the ROM, every hart that jumps jumps to the address *)
(* boot_next_stage was given.                                              *)
THEOREM EntryCorrect == Spec => []EntersBootAddress
<1>1. HandOverInv => EntersBootAddress
  BY DEF HandOverInv, LoadsRight, EntersBootAddress, Entered
<1>. QED
  BY <1>1, HandOver, PTL

(* Whichever hart runs the ROM, no wake-up call is lost.                   *)
THEOREM WakeUpCorrect == Spec => []WakeUpNotLost
<1>1. HandOverInv => WakeUpNotLost
  BY DEF HandOverInv, FlagsKept, WakeUpNotLost
<1>. QED
  BY <1>1, HandOver, PTL

------------------------------------------------------------------------------
(* The barrier, for the default NonSmpHart = 0.                            *)

(* A hart that is awake stays awake, and only TestMip wakes one.           *)
LEMMA AwakeMonotone ==
  ASSUME TypeOK, [Next]_vars
  PROVE  Awake \subseteq Awake'
<1> USE DEF TypeOK, Awake, Goto, Harts
<1>1. ASSUME NEW h \in Harts, Hart(h) \/ WfiSpurious(h) \/ Return(h) \/ SendIpi(h)
      PROVE  Awake \subseteq Awake'
  BY <1>1 DEF Hart, Pause, Wfi, TestMip, ClearOwn, Scan, LoadHi, LoadLo, Jump,
              HandleIpi, WfiSpurious, Return, SendIpi
<1>2. CASE BootHart
  BY <1>2, NumHartsAssumption, NonSmpHartAssumption
     DEF BootHart, BootNextStage, StoreAddress, Fence, WakeNext
<1>3. CASE Land
  BY <1>3 DEF Land, LandScratch, LandWake, LandClear
<1>4. CASE UNCHANGED vars
  BY <1>4 DEF vars
<1>. QED
  BY <1>1, <1>2, <1>3, <1>4 DEF Next

(* When hart 0's flag is clear and some hart is awake, every wake-up call  *)
(* has landed.                                                             *)
LEMMA FlagZeroClear ==
  ASSUME NonSmpHart = 0, BarrierInv, NEW h \in Awake, msip[0] = 0
  PROVE  wake.landed = NumHarts
<1> USE NumHartsAssumption DEF BarrierInv, HandOverInv, TypeOK, Harts
<1>1. h < wake.landed
  BY DEF FlagsCalled, Awake
<1>2. 0 < wake.landed
  BY <1>1 DEF Awake
<1>3. 0 \in Awake /\ pc[0] # "clear" /\ ~clearing[0]
  BY <1>2 DEF FlagsKept
<1>. QED
  BY <1>3 DEF AllCalled, Awake

(* A scan passes a flag only when its owner is awake.                      *)
LEMMA ScanPasses ==
  ASSUME NonSmpHart = 0, BarrierInv, NEW h \in Harts, Scan(h)
  PROVE  /\ wake.landed = NumHarts
         /\ index[h] \in Awake
<1> USE NumHartsAssumption DEF BarrierInv, HandOverInv, TypeOK, Harts
<1>1. h \in Awake
  BY DEF Scan, Awake
<1>2. wake.landed = NumHarts
  <2>1. CASE index[h] = 0
    BY <2>1, <1>1, FlagZeroClear DEF Scan
  <2>2. CASE index[h] > 0
    BY <2>2 DEF Scan, ScannedAwake
  <2>. QED
    BY <2>1, <2>2
<1>3. index[h] \in Harts /\ msip[index[h]] = 0
  BY DEF Scan, ScanInRange
<1>. QED
  BY <1>2, <1>3 DEF FlagsKept

LEMMA BarrierStep ==
  NonSmpHart = 0 /\ BarrierInv /\ [Next]_vars => BarrierInv'
<1> SUFFICES ASSUME NonSmpHart = 0, BarrierInv, [Next]_vars
             PROVE  BarrierInv'
  OBVIOUS
<1> USE NumHartsAssumption
<1>1. HandOverInv'
  BY HandOverStep DEF BarrierInv
<1>2. Awake \subseteq Awake' /\ Awake' \subseteq Harts
  BY AwakeMonotone DEF BarrierInv, HandOverInv, Awake
<1>3. wake.landed = NumHarts => wake'.landed = NumHarts
  BY DEF BarrierInv, HandOverInv, TypeOK, StoresIssued, Next, vars, Hart, BootHart, Land,
         Pause, Wfi, TestMip, ClearOwn, Scan, LoadHi, LoadLo, Jump, HandleIpi,
         WfiSpurious, Return, SendIpi, BootNextStage, StoreAddress, Fence, WakeNext,
         LandScratch, LandWake, LandClear
<1>4. Through' \subseteq Through => NobodyLeftBehind'
  BY <1>2 DEF BarrierInv, NobodyLeftBehind
<1> DEFINE Rest == AllCalled /\ ScannedAwake /\ NobodyLeftBehind
<1> USE DEF BarrierInv, HandOverInv, TypeOK, Goto, Harts, Labels
<1>5. ASSUME NEW h \in Harts, Pause(h)
      PROVE  Rest'
  <2>1. AllCalled'
    BY <1>3, <1>5 DEF Pause, AllCalled
  <2>2. ScannedAwake'
    BY <1>2, <1>3, <1>5 DEF Pause, ScannedAwake
  <2>3. NobodyLeftBehind'
    BY <1>4, <1>5 DEF Pause, Through
  <2>. QED
    BY <1>1, <2>1, <2>2, <2>3
<1>6. ASSUME NEW h \in Harts, Wfi(h)
      PROVE  Rest'
  <2>1. AllCalled'
    BY <1>3, <1>6 DEF Wfi, AllCalled
  <2>2. ScannedAwake'
    BY <1>2, <1>3, <1>6 DEF Wfi, ScannedAwake
  <2>3. NobodyLeftBehind'
    BY <1>4, <1>6 DEF Wfi, Through
  <2>. QED
    BY <1>1, <2>1, <2>2, <2>3
<1>7. ASSUME NEW h \in Harts, TestMip(h)
      PROVE  Rest'
  <2>1. AllCalled'
    BY <1>3, <1>7 DEF TestMip, AllCalled
  <2>2. ScannedAwake'
    BY <1>2, <1>3, <1>7 DEF TestMip, ScannedAwake
  <2>3. NobodyLeftBehind'
    BY <1>4, <1>7 DEF TestMip, Through
  <2>. QED
    BY <1>1, <2>1, <2>2, <2>3
<1>8. ASSUME NEW h \in Harts, ClearOwn(h)
      PROVE  Rest'
  <2>1. AllCalled'
    BY <1>3, <1>8 DEF ClearOwn, AllCalled
  <2>2. ScannedAwake'
    BY <1>2, <1>3, <1>8 DEF ClearOwn, ScannedAwake
  <2>3. NobodyLeftBehind'
    BY <1>4, <1>8 DEF ClearOwn, Through
  <2>. QED
    BY <1>1, <2>1, <2>2, <2>3
<1>9. ASSUME NEW h \in Harts, Scan(h)
      PROVE  Rest'
  <2>1. wake.landed = NumHarts /\ index[h] \in Awake
    BY <1>9, ScanPasses
  <2>2. \A j \in Harts : j <= index[h] => j \in Awake
    BY <2>1, <1>9 DEF Scan, ScannedAwake
  <2>3. AllCalled'
    BY <2>1, <1>3, <1>9 DEF Scan, AllCalled
  <2>4. ScannedAwake'
    BY <2>1, <2>2, <1>1, <1>2, <1>3, <1>9, SMTT(20) DEF Scan, ScannedAwake
  <2>5. NobodyLeftBehind'
    <3>1. CASE index[h] + 1 < NumHarts
      BY <3>1, <1>4, <1>9 DEF Scan, Through
    <3>2. CASE ~(index[h] + 1 < NumHarts)
      <4>1. \A j \in Harts : j <= index[h]
        BY <3>2, <1>9 DEF Scan, ScanInRange
      <4>2. Awake' = Harts
        BY <4>1, <2>2, <1>2
      <4>. QED
        BY <4>2 DEF NobodyLeftBehind
    <3>. QED
      BY <3>1, <3>2
  <2>. QED
    BY <2>3, <2>4, <2>5
<1>10. ASSUME NEW h \in Harts, LoadHi(h)
      PROVE  Rest'
  <2>1. AllCalled'
    BY <1>3, <1>10 DEF LoadHi, AllCalled
  <2>2. ScannedAwake'
    BY <1>2, <1>3, <1>10 DEF LoadHi, ScannedAwake
  <2>3. NobodyLeftBehind'
    BY <1>4, <1>10 DEF LoadHi, Through
  <2>. QED
    BY <1>1, <2>1, <2>2, <2>3
<1>11. ASSUME NEW h \in Harts, LoadLo(h)
      PROVE  Rest'
  <2>1. AllCalled'
    BY <1>3, <1>11 DEF LoadLo, AllCalled
  <2>2. ScannedAwake'
    BY <1>2, <1>3, <1>11 DEF LoadLo, ScannedAwake
  <2>3. NobodyLeftBehind'
    BY <1>4, <1>11 DEF LoadLo, Through
  <2>. QED
    BY <1>1, <2>1, <2>2, <2>3
<1>12. ASSUME NEW h \in Harts, Jump(h)
      PROVE  Rest'
  <2>1. AllCalled'
    BY <1>3, <1>12 DEF Jump, AllCalled
  <2>2. ScannedAwake'
    BY <1>2, <1>3, <1>12 DEF Jump, ScannedAwake
  <2>3. NobodyLeftBehind'
    BY <1>4, <1>12 DEF Jump, Through
  <2>. QED
    BY <1>1, <2>1, <2>2, <2>3
<1>13. ASSUME NEW h \in Harts, HandleIpi(h)
      PROVE  Rest'
  BY <1>1, <1>2, <1>3, <1>4, <1>13 DEF HandleIpi, AllCalled, ScannedAwake, Through
<1>14. ASSUME NEW h \in Harts, WfiSpurious(h)
      PROVE  Rest'
  <2>1. AllCalled'
    BY <1>3, <1>14 DEF WfiSpurious, AllCalled
  <2>2. ScannedAwake'
    BY <1>2, <1>3, <1>14 DEF WfiSpurious, ScannedAwake
  <2>3. NobodyLeftBehind'
    BY <1>4, <1>14 DEF WfiSpurious, Through
  <2>. QED
    BY <1>1, <2>1, <2>2, <2>3
<1>15. ASSUME NEW h \in Harts, Return(h)
      PROVE  Rest'
  <2>1. AllCalled'
    BY <1>3, <1>15 DEF Return, AllCalled
  <2>2. ScannedAwake'
    BY <1>2, <1>3, <1>15 DEF Return, ScannedAwake
  <2>3. NobodyLeftBehind'
    BY <1>4, <1>15 DEF Return, Through
  <2>. QED
    BY <1>1, <2>1, <2>2, <2>3
<1>16. ASSUME NEW h \in Harts, SendIpi(h)
      PROVE  Rest'
  BY <1>1, <1>2, <1>3, <1>4, <1>16 DEF SendIpi, AllCalled, ScannedAwake, Through
<1>17. ASSUME NEW a \in Addresses, BootNextStage(a)
      PROVE  Rest'
  <2>1. AllCalled'
    BY <1>3, <1>17 DEF BootNextStage, AllCalled
  <2>2. ScannedAwake'
    BY <1>2, <1>3, <1>17 DEF BootNextStage, ScannedAwake
  <2>3. NobodyLeftBehind'
    BY <1>4, <1>17 DEF BootNextStage, Through
  <2>. QED
    BY <1>1, <2>1, <2>2, <2>3
<1>18. CASE StoreAddress
  <2>1. AllCalled'
    BY <1>3, <1>18 DEF StoreAddress, AllCalled
  <2>2. ScannedAwake'
    BY <1>2, <1>3, <1>18 DEF StoreAddress, ScannedAwake
  <2>3. NobodyLeftBehind'
    BY <1>4, <1>18 DEF StoreAddress, Through
  <2>. QED
    BY <1>1, <2>1, <2>2, <2>3
<1>19. CASE Fence
  <2>1. AllCalled'
    BY <1>3, <1>19 DEF Fence, AllCalled
  <2>2. ScannedAwake'
    BY <1>2, <1>3, <1>19 DEF Fence, ScannedAwake
  <2>3. NobodyLeftBehind'
    BY <1>4, <1>19 DEF Fence, Through
  <2>. QED
    BY <1>1, <2>1, <2>2, <2>3
<1>20. CASE WakeNext
  <2>1. AllCalled'
    BY <1>3, <1>20 DEF WakeNext, AllCalled
  <2>2. ScannedAwake'
    BY <1>2, <1>3, <1>20 DEF WakeNext, ScannedAwake
  <2>3. NobodyLeftBehind'
    BY <1>4, <1>20 DEF WakeNext, Through
  <2>. QED
    BY <1>1, <2>1, <2>2, <2>3
<1>21. CASE LandScratch
  BY <1>1, <1>2, <1>3, <1>4, <1>21 DEF LandScratch, AllCalled, ScannedAwake, Through
<1>22. CASE LandWake
  BY <1>1, <1>2, <1>3, <1>4, <1>22 DEF LandWake, AllCalled, ScannedAwake, Through
<1>23. ASSUME NEW h \in Harts, LandClear(h)
      PROVE  Rest'
  <2>1. AllCalled'
    BY <1>3, <1>23, NonSmpHartAssumption DEF LandClear, AllCalled, ClearsOwn, StoresIssued, BeforeWake
  <2>2. ScannedAwake'
    BY <1>2, <1>3, <1>23 DEF LandClear, ScannedAwake
  <2>3. NobodyLeftBehind'
    BY <1>4, <1>23 DEF LandClear, Through
  <2>. QED
    BY <1>1, <2>1, <2>2, <2>3
<1>24. CASE UNCHANGED vars
  BY <1>1, <1>2, <1>3, <1>4, <1>24 DEF vars, AllCalled, ScannedAwake, Through
<1>. QED
  BY <1>1, <1>5, <1>6, <1>7, <1>8, <1>9, <1>10, <1>11, <1>12, <1>13, <1>14, <1>15, <1>16, <1>17, <1>18, <1>19, <1>20, <1>21, <1>22, <1>23, <1>24
     DEF Next, Hart, BootHart, Land

LEMMA BarrierHolds == NonSmpHart = 0 => (Spec => []BarrierInv)
<1> SUFFICES ASSUME NonSmpHart = 0
             PROVE  Spec => []BarrierInv
  OBVIOUS
<1>1. Init => BarrierInv
  <2>1. Init => HandOverInv
    BY HandOverInit
  <2>. QED
    BY <2>1, NumHartsAssumption
       DEF Init, BarrierInv, AllCalled, ScannedAwake, NobodyLeftBehind, Through, Harts
<1>2. BarrierInv /\ [Next]_vars => BarrierInv'
  BY BarrierStep
<1>. QED
  BY <1>1, <1>2, PTL DEF Spec

(* With the default boot hart, no hart leaves smp_resume before every hart *)
(* has taken its wake-up call.                                             *)
THEOREM BarrierCorrect == NonSmpHart = 0 => (Spec => []NobodyLeftBehind)
<1> SUFFICES ASSUME NonSmpHart = 0
             PROVE  Spec => []NobodyLeftBehind
  OBVIOUS
<1>1. BarrierInv => NobodyLeftBehind
  BY DEF BarrierInv
<1>. QED
  BY <1>1, BarrierHolds, PTL

------------------------------------------------------------------------------
(* Refinement: each step publishes the address (the second half landing),  *)
(* wakes a hart (TestMip finding the flag up), lets one enter (Jump), or   *)
(* leaves the abstract state as it is.                                     *)

Published == IF sent.landed = 2 THEN scratch ELSE NoAddress
EnteredAt == [h \in Harts |-> IF h \in Entered THEN loaded[h] ELSE NoAddress]
AbstractUnchanged == Published' = Published /\ Awake' = Awake /\ EnteredAt' = EnteredAt

LEMMA WakeRefines ==
  ASSUME BarrierInv, BarrierInv', NEW h \in Harts, TestMip(h)
  PROVE  AbstractUnchanged \/ Barrier!Wake(h)
<1> USE DEF BarrierInv, HandOverInv, TypeOK, Goto, TestMip, Published, EnteredAt,
            AbstractUnchanged
<1>1. Published' = Published
  OBVIOUS
<1>2. EnteredAt' = EnteredAt
  BY DEF Entered
<1>3. CASE msip[h] = 1
  <2>1. h \notin Awake /\ Awake' = Awake \cup {h}
    BY <1>3 DEF Awake, Harts
  <2>2. sent.landed = 2
    BY <1>3, NumHartsAssumption, NonSmpHartAssumption
       DEF FlagsCalled, StoresIssued, Harts
  <2>3. Published # NoAddress
    BY <2>2, NoAddressAssumption
  <2>. QED
    BY <1>1, <1>2, <2>1, <2>3 DEF Barrier!Wake
<1>4. CASE msip[h] # 1
  <2>1. Awake' = Awake
    BY <1>4 DEF Awake
  <2>. QED
    BY <1>1, <1>2, <2>1
<1>. QED
  BY <1>3, <1>4

LEMMA EnterRefines ==
  ASSUME BarrierInv, BarrierInv', NEW h \in Harts, Jump(h)
  PROVE  Barrier!Enter(h)
<1> USE DEF BarrierInv, HandOverInv, TypeOK, Goto, Jump
<1>1. Awake' = Awake /\ Awake = Harts
  BY DEF Awake, NobodyLeftBehind, Through
<1>2. Published' = Published
  BY DEF Published
<1>3. h < wake.landed
  BY <1>1 DEF FlagsCalled
<1>4. sent.landed = 2
  BY <1>3, NumHartsAssumption, NonSmpHartAssumption DEF StoresIssued, Harts
<1>5. loaded[h] = scratch
  <2>1. loaded[h] = a0
    BY DEF LoadsRight
  <2>2. a0 \in [{4, 5} -> Words]
    BY <2>1 DEF Addresses
  <2>. QED
    BY <1>4, <2>1, <2>2 DEF ScratchLanded, Addresses
<1>6. EnteredAt[h] = NoAddress
  BY DEF EnteredAt, Entered
<1>7. EnteredAt' = [EnteredAt EXCEPT ![h] = Published]
  BY <1>4, <1>5 DEF EnteredAt, Entered, Published
<1>. QED
  BY <1>1, <1>2, <1>6, <1>7 DEF Barrier!Enter, Published, EnteredAt

LEMMA PublishRefines ==
  ASSUME BarrierInv, BarrierInv', LandScratch
  PROVE  AbstractUnchanged \/ \E a \in Addresses : Barrier!Publish(a)
<1> USE DEF BarrierInv, HandOverInv, TypeOK, LandScratch, Published, EnteredAt
<1>1. Awake' = Awake /\ EnteredAt' = EnteredAt
  BY DEF Awake, Entered
<1>2. CASE sent'.landed = 2
  <2>1. Published = NoAddress /\ Published' = scratch' /\ scratch' \in Addresses
    BY <1>2
  <2>. QED
    BY <1>1, <2>1 DEF Barrier!Publish
<1>3. CASE sent'.landed # 2
  BY <1>1, <1>3 DEF AbstractUnchanged
<1>. QED
  BY <1>2, <1>3

(* No other step is visible.                                               *)
LEMMA OthersStutter ==
  ASSUME BarrierInv, BarrierInv', [Next]_vars,
         \A h \in Harts : ~TestMip(h) /\ ~Jump(h),
         ~LandScratch
  PROVE  AbstractUnchanged
<1> USE NumHartsAssumption, NonSmpHartAssumption
    DEF BarrierInv, HandOverInv, TypeOK, Goto, Harts, Published, EnteredAt, Entered,
        Awake, AbstractUnchanged
<1>1. ASSUME NEW h \in Harts, Hart(h) \/ WfiSpurious(h) \/ Return(h) \/ SendIpi(h)
      PROVE  AbstractUnchanged
  <2>1. Published' = Published
    BY <1>1 DEF Hart, Pause, Wfi, TestMip, ClearOwn, Scan, LoadHi, LoadLo, Jump,
                HandleIpi, WfiSpurious, Return, SendIpi
  <2>2. CASE Pause(h)
    <3>1. Awake' = Awake
      BY <2>2 DEF Pause
    <3>2. EnteredAt' = EnteredAt
      BY <2>2 DEF Pause
    <3>. QED
      BY <2>1, <3>1, <3>2
  <2>3. CASE Wfi(h)
    <3>1. Awake' = Awake
      BY <2>3 DEF Wfi
    <3>2. EnteredAt' = EnteredAt
      BY <2>3 DEF Wfi
    <3>. QED
      BY <2>1, <3>1, <3>2
  <2>4. CASE ClearOwn(h)
    <3>1. Awake' = Awake
      BY <2>4 DEF ClearOwn
    <3>2. EnteredAt' = EnteredAt
      BY <2>4 DEF ClearOwn
    <3>. QED
      BY <2>1, <3>1, <3>2
  <2>5. CASE Scan(h)
    <3>1. Awake' = Awake
      BY <2>5 DEF Scan
    <3>2. EnteredAt' = EnteredAt
      BY <2>5 DEF Scan
    <3>. QED
      BY <2>1, <3>1, <3>2
  <2>6. CASE LoadHi(h)
    <3>1. Awake' = Awake
      BY <2>6 DEF LoadHi
    <3>2. EnteredAt' = EnteredAt
      BY <2>6 DEF LoadHi
    <3>. QED
      BY <2>1, <3>1, <3>2
  <2>7. CASE LoadLo(h)
    <3>1. Awake' = Awake
      BY <2>7 DEF LoadLo
    <3>2. EnteredAt' = EnteredAt
      BY <2>7 DEF LoadLo
    <3>. QED
      BY <2>1, <3>1, <3>2
  <2>8. CASE HandleIpi(h)
    <3>1. Awake' = Awake
      BY <2>8 DEF HandleIpi
    <3>2. EnteredAt' = EnteredAt
      BY <2>8 DEF HandleIpi
    <3>. QED
      BY <2>1, <3>1, <3>2
  <2>9. CASE WfiSpurious(h)
    <3>1. Awake' = Awake
      BY <2>9 DEF WfiSpurious
    <3>2. EnteredAt' = EnteredAt
      BY <2>9 DEF WfiSpurious
    <3>. QED
      BY <2>1, <3>1, <3>2
  <2>10. CASE Return(h)
    <3>1. Awake' = Awake
      BY <2>10 DEF Return
    <3>2. EnteredAt' = EnteredAt
      BY <2>10 DEF Return
    <3>. QED
      BY <2>1, <3>1, <3>2
  <2>11. CASE SendIpi(h)
    <3>1. Awake' = Awake
      BY <2>11 DEF SendIpi
    <3>2. EnteredAt' = EnteredAt
      BY <2>11 DEF SendIpi
    <3>. QED
      BY <2>1, <3>1, <3>2
  <2>. QED
    BY <1>1, <2>2, <2>3, <2>4, <2>5, <2>6, <2>7, <2>8, <2>9, <2>10, <2>11 DEF Hart
<1>2. CASE BootHart
  <2>1. Published' = Published
    BY <1>2 DEF BootHart, BootNextStage, StoreAddress, Fence, WakeNext
  <2>2. pc' \in [Harts -> Labels] /\ loaded' = loaded
    BY <1>2 DEF BootHart, BootNextStage, StoreAddress, Fence, WakeNext
  <2>3. \A h \in Harts : pc'[h] = pc[h] \/ (h \notin Awake /\ h \notin Awake')
    <3>1. CASE \E a \in Addresses : BootNextStage(a)
      BY <3>1 DEF BootNextStage
    <3>2. CASE StoreAddress
      BY <3>2 DEF StoreAddress
    <3>3. CASE Fence
      BY <3>3 DEF Fence
    <3>4. CASE WakeNext
      BY <3>4 DEF WakeNext
    <3>. QED
      BY <1>2, <3>1, <3>2, <3>3, <3>4 DEF BootHart
  <2>4. Awake' = Awake
    BY <2>3
  <2>5. \A h \in Harts : h \in Entered' <=> h \in Entered
    BY <2>3
  <2>6. EnteredAt' = EnteredAt
    BY <2>2, <2>5
  <2>. QED
    BY <2>1, <2>4, <2>6
<1>3. ASSUME UNCHANGED <<pc, scratch, sent, loaded>>
      PROVE  AbstractUnchanged
  BY <1>3
<1>4. CASE Land \/ UNCHANGED vars
  <2>1. UNCHANGED <<pc, scratch, sent, loaded>>
    BY <1>4 DEF Land, LandWake, LandClear, vars
  <2>. QED
    BY <1>3, <2>1
<1>. QED
  BY <1>1, <1>2, <1>3, <1>4 DEF Next

(* With the default boot hart, the interrupt and register traffic of the   *)
(* hand-over implements the abstract barrier.                              *)
THEOREM BarrierRefined == NonSmpHart = 0 => (Spec => BarrierSpec)
<1> SUFFICES ASSUME NonSmpHart = 0
             PROVE  Spec => BarrierSpec
  OBVIOUS
<1>1. Init => Barrier!Init
  BY DEF Init, Barrier!Init, Awake, Entered
<1>2. BarrierInv /\ BarrierInv' /\ [Next]_vars => [Barrier!Next]_(Barrier!vars)
  <2> SUFFICES ASSUME BarrierInv, BarrierInv', [Next]_vars
               PROVE  [Barrier!Next]_(Barrier!vars)
    OBVIOUS
  <2>1. AbstractUnchanged => UNCHANGED Barrier!vars
    BY DEF AbstractUnchanged, Published, EnteredAt, Barrier!vars
  <2>2. ASSUME NEW h \in Harts, TestMip(h)
        PROVE  [Barrier!Next]_(Barrier!vars)
    BY <2>1, <2>2, WakeRefines DEF Barrier!Next
  <2>3. ASSUME NEW h \in Harts, Jump(h)
        PROVE  [Barrier!Next]_(Barrier!vars)
    BY <2>3, EnterRefines DEF Barrier!Next
  <2>4. CASE LandScratch
    BY <2>1, <2>4, PublishRefines DEF Barrier!Next
  <2>. QED
    BY <2>1, <2>2, <2>3, <2>4, OthersStutter
<1>. QED
  BY <1>1, <1>2, BarrierHolds, PTL DEF Spec, BarrierSpec, Barrier!Spec
==============================================================================
