------------------------------- MODULE SmpBoot -------------------------------
(***************************************************************************)
(* The multi-hart part of the boot ROM: every hart runs smp_pause; one of  *)
(* them goes on through the ROM and, in boot_next_stage, leaves the boot   *)
(* address in SCRATCH[4] and SCRATCH[5] and wakes all harts, itself        *)
(* included, with software interrupts (smp_resume).  A woken hart clears   *)
(* its MSIP flag, scans the flags of all harts in order, waiting at each   *)
(* that is still set, reads the boot address and jumps.                    *)
(*                                                                         *)
(* Every load and store is a step.  A store is first issued by its hart    *)
(* and reaches the device later: stores of one hart to the same device     *)
(* (the CLINT, the Cheshire registers) arrive in order, stores to          *)
(* different devices in any order unless a fence separates them.  A load   *)
(* from a device waits for the hart's earlier stores to that device.       *)
(***************************************************************************)
EXTENDS Naturals

CONSTANTS
  NumHarts,    (* regs.NUM_HARTS, the number of harts.                   *)
  NonSmpHart,  (* NONSMP_HART, the hart that runs the ROM alone.         *)
  Words,       (* Values of half a boot address; 0 after reset.          *)
  NoAddress,   (* Not an address: none has been given yet.               *)
  MaxIpis      (* Bound: inter-processor interrupts the firmware sends.  *)

ASSUME NumHartsAssumption == NumHarts \in Nat \ {0}
ASSUME NonSmpHartAssumption == NonSmpHart \in 0 .. NumHarts - 1
ASSUME WordsAssumption == 0 \in Words
ASSUME MaxIpisAssumption == MaxIpis \in Nat

Harts == 0 .. NumHarts - 1
Addresses == [{4, 5} -> Words]  \* The low word in SCRATCH[4], the high one in SCRATCH[5].

ASSUME NoAddressAssumption == NoAddress \notin Addresses

VARIABLES
  pc,        (* Where each hart is.                                      *)
  mie,       (* mie.MSIE of each hart.                                   *)
  msip,      (* The MSIP flag of each hart in the CLINT; drives mip.MSIP.*)
  scratch,   (* SCRATCH[4] and SCRATCH[5].                               *)
  a0,        (* boot_next_stage's argument, in the register of its hart. *)
  sent,      (* Scratch stores issued and landed.                        *)
  wake,      (* Wake-up stores of loop 1 issued and landed.              *)
  clearing,  (* Harts whose store clearing their own MSIP is on its way. *)
  index,     (* The hart whose flag each hart looks at in loop 3.        *)
  loaded,    (* The boot address as far as each hart has read it.        *)
  ipis       (* Interrupts the firmware has sent.                        *)

vars == <<pc, mie, msip, scratch, a0, sent, wake, clearing, index, loaded, ipis>>

Labels == {"reset", "rom", "store_lo", "store_hi", "fence", "wake", "wfi",
           "test", "clear", "scan", "load_hi", "load_lo", "jump",
           "firmware", "ret"}

TypeOK ==
  /\ pc \in [Harts -> Labels]
  /\ mie \in [Harts -> BOOLEAN]
  /\ msip \in [Harts -> {0, 1}]
  /\ scratch \in Addresses
  /\ a0 \in Addresses \cup {NoAddress}
  /\ sent \in [issued : 0 .. 2, landed : 0 .. 2]
  /\ wake \in [issued : 0 .. NumHarts, landed : 0 .. NumHarts]
  /\ clearing \in [Harts -> BOOLEAN]
  /\ index \in [Harts -> 0 .. NumHarts]
  /\ loaded \in [Harts -> Addresses]
  /\ ipis \in 0 .. MaxIpis

Init ==
  /\ pc = [h \in Harts |-> "reset"]
  /\ mie = [h \in Harts |-> FALSE]
  /\ msip = [h \in Harts |-> 0]
  /\ scratch = [k \in {4, 5} |-> 0]
  /\ a0 = NoAddress
  /\ sent = [issued |-> 0, landed |-> 0]
  /\ wake = [issued |-> 0, landed |-> 0]
  /\ clearing = [h \in Harts |-> FALSE]
  /\ index = [h \in Harts |-> 0]
  /\ loaded = [h \in Harts |-> [k \in {4, 5} |-> 0]]
  /\ ipis = 0

Goto(h, from, to) ==
  /\ pc[h] = from
  /\ pc' = [pc EXCEPT ![h] = to]

\* No store of hart h to the CLINT is still on its way.
ClintSettled(h) ==
  /\ ~clearing[h]
  /\ h = NonSmpHart => wake.landed = wake.issued

------------------------------------------------------------------------------
\* Wrong version: software interrupts are left disabled.
PauseWithoutEnable(h) ==
  /\ Goto(h, "reset", IF h = NonSmpHart THEN "rom" ELSE "wfi")
  /\ UNCHANGED <<mie, msip, scratch, a0, sent, wake, clearing, index, loaded, ipis>>

\* Wrong version: a flag already pending is thrown away.
PauseDropsPending(h) ==
  /\ Goto(h, "reset", IF h = NonSmpHart THEN "rom" ELSE "wfi")
  /\ mie' = [mie EXCEPT ![h] = TRUE]
  /\ msip' = [msip EXCEPT ![h] = 0]
  /\ UNCHANGED <<scratch, a0, sent, wake, clearing, index, loaded, ipis>>

(* smp_pause: enable software interrupts; only NONSMP_HART goes on.        *)
Pause(h) ==
  /\ Goto(h, "reset", IF h = NonSmpHart THEN "rom" ELSE "wfi")
  /\ mie' = [mie EXCEPT ![h] = TRUE]
  /\ UNCHANGED <<msip, scratch, a0, sent, wake, clearing, index, loaded, ipis>>

(* The ROM has found the next stage and calls boot_next_stage(a).          *)
BootNextStage(a) ==
  /\ Goto(NonSmpHart, "rom", "store_lo")
  /\ a0' = a
  /\ UNCHANGED <<mie, msip, scratch, sent, wake, clearing, index, loaded, ipis>>

StoreAddress ==
  /\ \/ Goto(NonSmpHart, "store_lo", "store_hi")
     \/ Goto(NonSmpHart, "store_hi", "fence")
  /\ sent' = [sent EXCEPT !.issued = @ + 1]
  /\ UNCHANGED <<mie, msip, scratch, a0, wake, clearing, index, loaded, ipis>>

\* Wrong version: no fence between the address and the wake-up calls.
FenceOmitted ==
  /\ Goto(NonSmpHart, "fence", "wake")
  /\ UNCHANGED <<mie, msip, scratch, a0, sent, wake, clearing, index, loaded, ipis>>

Fence ==
  /\ Goto(NonSmpHart, "fence", "wake")
  /\ sent.landed = sent.issued
  /\ UNCHANGED <<mie, msip, scratch, a0, sent, wake, clearing, index, loaded, ipis>>

\* Wrong version: loop 1 runs one hart too far.
WakeNextTooFar ==
  /\ Goto(NonSmpHart, "wake", IF wake.issued < NumHarts THEN "wake" ELSE "wfi")
  /\ wake' = [wake EXCEPT !.issued = @ + 1]
  /\ UNCHANGED <<mie, msip, scratch, a0, sent, clearing, index, loaded, ipis>>

(* Loop 1 of smp_resume: one store of 1 per hart, in hart order.           *)
WakeNext ==
  /\ Goto(NonSmpHart, "wake", IF wake.issued + 1 < NumHarts THEN "wake" ELSE "wfi")
  /\ wake' = [wake EXCEPT !.issued = @ + 1]
  /\ UNCHANGED <<mie, msip, scratch, a0, sent, clearing, index, loaded, ipis>>

(* Loop 2: wfi holds the hart until an enabled interrupt is pending.       *)
Wfi(h) ==
  /\ Goto(h, "wfi", "test")
  /\ mie[h] /\ msip[h] = 1
  /\ UNCHANGED <<mie, msip, scratch, a0, sent, wake, clearing, index, loaded, ipis>>

(* wfi is a hint: it may also end with nothing pending.                    *)
WfiSpurious(h) ==
  /\ Goto(h, "wfi", "test")
  /\ UNCHANGED <<mie, msip, scratch, a0, sent, wake, clearing, index, loaded, ipis>>

\* Wrong version: the hart trusts wfi and does not look at mip.
TestMipSkipped(h) ==
  /\ Goto(h, "test", "clear")
  /\ UNCHANGED <<mie, msip, scratch, a0, sent, wake, clearing, index, loaded, ipis>>

TestMip(h) ==
  /\ Goto(h, "test", IF msip[h] = 1 THEN "clear" ELSE "wfi")
  /\ UNCHANGED <<mie, msip, scratch, a0, sent, wake, clearing, index, loaded, ipis>>

\* Wrong version: the scan starts at the hart's own flag, not at hart 0's.
ClearOwnScanFromSelf(h) ==
  /\ Goto(h, "clear", "scan")
  /\ clearing' = [clearing EXCEPT ![h] = TRUE]
  /\ index' = [index EXCEPT ![h] = h]
  /\ UNCHANGED <<mie, msip, scratch, a0, sent, wake, loaded, ipis>>

ClearOwn(h) ==
  /\ Goto(h, "clear", "scan")
  /\ clearing' = [clearing EXCEPT ![h] = TRUE]
  /\ index' = [index EXCEPT ![h] = 0]
  /\ UNCHANGED <<mie, msip, scratch, a0, sent, wake, loaded, ipis>>

(* Loop 3: stay at a flag that is set, go on past one that is clear.       *)
Scan(h) ==
  /\ pc[h] = "scan"
  /\ ClintSettled(h)
  /\ msip[index[h]] = 0
  /\ index' = [index EXCEPT ![h] = @ + 1]
  /\ pc' = [pc EXCEPT ![h] = IF index[h] + 1 < NumHarts THEN "scan" ELSE "load_hi"]
  /\ UNCHANGED <<mie, msip, scratch, a0, sent, wake, clearing, loaded, ipis>>

LoadHi(h) ==
  /\ Goto(h, "load_hi", "load_lo")
  /\ loaded' = [loaded EXCEPT ![h][5] = scratch[5]]
  /\ UNCHANGED <<mie, msip, scratch, a0, sent, wake, clearing, index, ipis>>

LoadLo(h) ==
  /\ Goto(h, "load_lo", "jump")
  /\ loaded' = [loaded EXCEPT ![h][4] = scratch[4]]
  /\ UNCHANGED <<mie, msip, scratch, a0, sent, wake, clearing, index, ipis>>

Jump(h) ==
  /\ Goto(h, "jump", "firmware")
  /\ UNCHANGED <<mie, msip, scratch, a0, sent, wake, clearing, index, loaded, ipis>>

(* A firmware that returns meets `ret` with ra pointing at that very ret.  *)
Return(h) ==
  /\ Goto(h, "firmware", "ret")
  /\ msip[h] = 0
  /\ UNCHANGED <<mie, msip, scratch, a0, sent, wake, clearing, index, loaded, ipis>>

------------------------------------------------------------------------------
(* Issued stores reach their device.                                       *)
LandScratch ==
  /\ sent.landed < sent.issued
  /\ sent' = [sent EXCEPT !.landed = @ + 1]
  /\ scratch' = [scratch EXCEPT ![4 + sent.landed] = a0[4 + sent.landed]]
  /\ UNCHANGED <<pc, mie, msip, a0, wake, clearing, index, loaded, ipis>>

LandWake ==
  /\ wake.landed < wake.issued
  /\ wake' = [wake EXCEPT !.landed = @ + 1]
  /\ msip' = [msip EXCEPT ![wake.landed] = 1]
  /\ UNCHANGED <<pc, mie, scratch, a0, sent, clearing, index, loaded, ipis>>

LandClear(h) ==
  /\ clearing[h]
  /\ h = NonSmpHart => wake.landed = wake.issued
  /\ msip' = [msip EXCEPT ![h] = 0]
  /\ clearing' = [clearing EXCEPT ![h] = FALSE]
  /\ UNCHANGED <<pc, mie, scratch, a0, sent, wake, index, loaded, ipis>>

(* Firmware already running may interrupt a hart that runs it too, which   *)
(* clears its flag when it handles the interrupt.                          *)
SendIpi(t) ==
  /\ pc[t] = "firmware"
  /\ ipis < MaxIpis
  /\ msip' = [msip EXCEPT ![t] = 1]
  /\ ipis' = ipis + 1
  /\ UNCHANGED <<pc, mie, scratch, a0, sent, wake, clearing, index, loaded>>

HandleIpi(h) ==
  /\ pc[h] = "firmware"
  /\ msip[h] = 1
  /\ msip' = [msip EXCEPT ![h] = 0]
  /\ UNCHANGED <<pc, mie, scratch, a0, sent, wake, clearing, index, loaded, ipis>>

------------------------------------------------------------------------------
Hart(h) ==
  \/ Pause(h) \/ Wfi(h) \/ TestMip(h) \/ ClearOwn(h) \/ Scan(h)
  \/ LoadHi(h) \/ LoadLo(h) \/ Jump(h) \/ HandleIpi(h)

BootHart ==
  \/ \E a \in Addresses : BootNextStage(a)
  \/ StoreAddress \/ Fence \/ WakeNext

Land == LandScratch \/ LandWake \/ \E h \in Harts : LandClear(h)

Next ==
  \/ \E h \in Harts : Hart(h) \/ WfiSpurious(h) \/ Return(h) \/ SendIpi(h)
  \/ BootHart
  \/ Land

Spec == Init /\ [][Next]_vars

(* Every hart keeps executing, a store issued arrives, and the ROM finds   *)
(* a next stage.                                                           *)
Fairness ==
  /\ \A h \in Harts : WF_vars(Hart(h))
  /\ WF_vars(BootHart)
  /\ WF_vars(LandScratch) /\ WF_vars(LandWake)
  /\ \A h \in Harts : WF_vars(LandClear(h))

FairSpec == Spec /\ Fairness

------------------------------------------------------------------------------
Awake == {h \in Harts : pc[h] \in {"clear", "scan", "load_hi", "load_lo",
                                   "jump", "firmware", "ret"}}
Through == {h \in Harts : pc[h] \in {"load_hi", "load_lo", "jump", "firmware", "ret"}}
Entered == {h \in Harts : pc[h] \in {"firmware", "ret"}}

(* No hart gets past the scan of smp_resume while another still waits for  *)
(* its wake-up call: the flags are set in hart order and hart 0, whose     *)
(* flag every scan tests first, must itself have been through loop 1.      *)
(* Needs NonSmpHart = 0, the default.                                      *)
NobodyLeftBehind == Through # {} => Awake = Harts

(* Every hart that jumps does so to the address boot_next_stage was given, *)
(* whichever hart runs the ROM: the scratch stores are visible before the  *)
(* first wake-up call is.                                                  *)
EntersBootAddress == \A h \in Entered : loaded[h] = a0

(* A wake-up call is not lost: once it has landed, its flag stays up until *)
(* the hart it is for has seen it, however late that hart gets to wfi.     *)
WakeUpNotLost ==
  \A h \in Harts : h < wake.landed /\ h \notin Awake => msip[h] = 1

(* Every hart enters the next boot stage.                                  *)
EveryHartEnters == \A h \in Harts : <>(h \in Entered)

(* The hand-over implements the barrier: the address is published when the *)
(* fence has made both halves visible, a hart is woken when it leaves      *)
(* loop 2.                                                                 *)
Barrier == INSTANCE BootBarrier WITH
  published <- IF sent.landed = 2 THEN scratch ELSE NoAddress,
  woken <- Awake,
  entered <- [h \in Harts |-> IF h \in Entered THEN loaded[h] ELSE NoAddress]
BarrierSpec == Barrier!Spec
==============================================================================
