----------------------------- MODULE BootBarrier -----------------------------
(***************************************************************************)
(* What the multi-hart hand-over of the boot ROM promises, without saying  *)
(* how: one hart publishes the address of the next boot stage, every hart  *)
(* is then woken once, and no hart enters the next stage before all have   *)
(* been woken.  SmpBoot implements it with software interrupts and two     *)
(* scratch registers.                                                      *)
(***************************************************************************)
CONSTANTS
  Harts,      (* The harts of the system.                                *)
  Addresses,  (* The addresses the next boot stage may start at.         *)
  NoAddress   (* Not in Addresses: nobody has given an address yet.      *)

VARIABLES
  published,  (* The address handed over, or NoAddress.                  *)
  woken,      (* The harts that have seen their wake-up call.            *)
  entered     (* Where each hart entered the next stage, or NoAddress.   *)

vars == <<published, woken, entered>>

TypeOK ==
  /\ published \in Addresses \cup {NoAddress}
  /\ woken \subseteq Harts
  /\ entered \in [Harts -> Addresses \cup {NoAddress}]

Init ==
  /\ published = NoAddress
  /\ woken = {}
  /\ entered = [h \in Harts |-> NoAddress]

Publish(a) ==
  /\ published = NoAddress
  /\ published' = a
  /\ UNCHANGED <<woken, entered>>

Wake(h) ==
  /\ published # NoAddress
  /\ h \notin woken
  /\ woken' = woken \cup {h}
  /\ UNCHANGED <<published, entered>>

Enter(h) ==
  /\ woken = Harts
  /\ entered[h] = NoAddress
  /\ entered' = [entered EXCEPT ![h] = published]
  /\ UNCHANGED <<published, woken>>

Next ==
  \/ \E a \in Addresses : Publish(a)
  \/ \E h \in Harts : Wake(h) \/ Enter(h)

Spec == Init /\ [][Next]_vars
==============================================================================
