------------------------------- MODULE MCGptBoot ------------------------------
(* GptBoot with disks of up to three entries.  Entry k begins at        *)
(* Slot * k; its length is up to one more than the largest limit.  Length  *)
(* 0 is an entry that ends before it begins; an unused entry is all zero.  *)
EXTENDS GptBoot

CONSTANTS Slot, Lengths

At(k) ==
  {[first |-> Slot * k, last |-> Slot * k + n - 1, type |-> t] : n \in Lengths, t \in Types}
    \cup {[first |-> 0, last |-> 0, type |-> "other"]}

Tables ==
  {<<>>} \cup {<<a>> : a \in At(1)} \cup {<<a, b>> : a \in At(1), b \in At(2)}
    \cup {<<a, b, c>> : a \in At(1), b \in At(2), c \in At(3)}

\* Without the signature the table is not looked at.
AllDisks ==
  [gpt : {TRUE}, recovers : BOOLEAN, parts : Tables] \cup [gpt : {FALSE}, recovers : BOOLEAN, parts : {<<>>}]

\* No entries; firmware elsewhere that fits, and some that is too large before it.
MCMisread ==
  LET entry(first, count) == [first |-> first, last |-> first + count - 1, type |-> "fw"]
  IN  {<<>>, <<entry(1, FwLbas)>>, <<entry(2, FwLbas + 1), entry(2, 1)>>}

\* The premise of the proofs holds for this instance.
ASSUME InstanceAddressable == Addressable
==============================================================================
