------------------------------ MODULE HostedRun ------------------------------
(***************************************************************************)
(* What passive boot promises to whoever loads a program with it, over     *)
(* whichever interface: the program is entered once, with all of its image *)
(* in memory and never changed again by the host, it returns, and then the *)
(* host learns what it has returned.  PassiveBoot implements it with       *)
(* scratch registers, a debugger and two serial wires.                     *)
(***************************************************************************)
CONSTANTS
  Parts,      (* What the image consists of.                             *)
  Values,     (* What the program may return.                            *)
  None        (* Not in Values: nothing has been returned or reported.   *)

VARIABLES
  loaded,     (* The parts that are in memory.                           *)
  stage,      (* Of the program: "waiting", "running" or "returned".     *)
  result,     (* What it has returned.                                   *)
  report      (* What its host reports.                                  *)

vars == <<loaded, stage, result, report>>

Init ==
  /\ loaded = {} /\ stage = "waiting"
  /\ result = None /\ report = None

Load(n) ==
  /\ stage = "waiting"
  /\ loaded' = loaded \cup {n}
  /\ UNCHANGED <<stage, result, report>>

Enter ==
  /\ stage = "waiting" /\ loaded = Parts
  /\ stage' = "running"
  /\ UNCHANGED <<loaded, result, report>>

Return(v) ==
  /\ stage = "running" /\ stage' = "returned"
  /\ result' = v
  /\ UNCHANGED <<loaded, report>>

Report ==
  /\ stage = "returned" /\ report = None
  /\ report' = result
  /\ UNCHANGED <<loaded, stage, result>>

Next ==
  \/ \E n \in Parts : Load(n)
  \/ Enter
  \/ \E v \in Values : Return(v)
  \/ Report

Spec == Init /\ [][Next]_vars
==============================================================================
