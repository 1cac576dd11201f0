------------------------------ MODULE MCSdCard -------------------------------
EXTENDS SdCard, Crc

\* Every byte, and a longer block; single bits and whole bytes disturbed.
MCBlocks == {<<d, 255 - d>> : d \in Byte} \cup {<<1, 2, 4, 8, 16, 32, 64, 128, 255, 0>>}
MCMasks == {2 ^ k : k \in 0 .. 7} \X {0, 1, 128, 255} \cup {255} \X {0, 255}

\* Block numbers of two bytes, with at most one bit in each.
MCArguments == {<<0, 0, high, low>> : high, low \in {0} \cup {2 ^ k : k \in 0 .. 7}}

(* The commands of the initialization carry the check code that the card   *)
(* computes, and the driver accepts a block exactly if the card's check    *)
(* code fits it: it agrees with the card on every block, and accepts none  *)
(* in which bits of one byte, or of two neighbouring bytes, have changed.  *)
(* Only the read commands are sent with another code than the card's; the  *)
(* card does not look at it as long as nobody switches CRC on.             *)
(* The codes do not depend on the state: the first one will do.            *)
CodesAgree == pc = "start" => CommandsAgree /\ BlocksAgree /\ ChangesFound /\ ReadCommandsDiffer
==============================================================================
