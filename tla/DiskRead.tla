------------------------------ MODULE DiskRead -------------------------------
(***************************************************************************)
(* What the boot code relies on when it calls the read function of a disk  *)
(* (boot ROM and zero-stage loader get it as a function pointer): a call   *)
(* that returns 0 has copied the bytes asked for, exactly as the disk      *)
(* holds them, and no call writes outside the memory the caller gave it.   *)
(* The drivers extend this module and must implement ReadSpec.             *)
(***************************************************************************)
EXTENDS Integers

CONSTANTS
  Requests,     (* The reads considered: records of an address and a length. *)
  Around        (* The bytes of memory looked at; the caller's buffer starts at 0. *)

ASSUME DiskReadAssumption ==
  /\ Requests \subseteq [addr : Nat, len : Nat]
  /\ Around \subseteq Int

VARIABLES
  state,    (* Of the current or last read: "idle", "reading", "ok", "failed". *)
  req,      (* Its address and length.                                    *)
  mem,      (* The memory around the buffer.                              *)
  disk,     (* What the disk holds, byte by byte.                         *)
  sound     (* No call has left the disk in the middle of something.      *)

read == <<state, req, mem, disk, sound>>

Old == -1        \* a byte of memory that no read has written
Blank == [i \in Around |-> Old]

ReadInit ==
  /\ state = "idle"
  /\ req = [addr |-> 0, len |-> 0]
  /\ mem = Blank
  /\ sound \in BOOLEAN

\* The requested bytes are in the buffer.
Exact == \A i \in Around : i \in 0 .. req.len - 1 => mem[i] = disk[req.addr + i]

Elsewhere == \A i \in Around : i \notin 0 .. req.len - 1 => mem'[i] = mem[i]

(* Every read is given memory of its own.                                  *)
Ask ==
  /\ state # "reading" /\ state' = "reading"
  /\ req' \in Requests
  /\ mem' = Blank
  /\ UNCHANGED <<disk, sound>>

Copy ==
  /\ state = "reading"
  /\ mem' \in [Around -> Int] /\ Elsewhere
  /\ UNCHANGED <<state, req, disk, sound>>

Answer ==
  /\ state = "reading"
  /\ \/ state' = "ok" /\ (sound => Exact) /\ UNCHANGED sound
     \/ state' = "failed" /\ (sound' => sound)
  /\ UNCHANGED <<req, mem, disk>>

(* Between reads the disk may be written, and that may fail, too; req      *)
(* belongs to the write then, and the buffer of the read is given up.      *)
Store ==
  /\ state # "reading" /\ state' = "idle"
  /\ sound' \in BOOLEAN /\ (sound' => sound)
  /\ mem' \in {mem, Blank}

ReadNext == Ask \/ Copy \/ Answer \/ Store
ReadSpec == ReadInit /\ [][ReadNext]_read
==============================================================================
