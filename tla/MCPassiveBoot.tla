---------------------------- MODULE MCPassiveBoot -----------------------------
(* PassiveBoot with an image of three bursts, one of which is empty or,    *)
(* over the serial link, not there.                                        *)
EXTENDS PassiveBoot

ImageBursts == <<2, 0, 1>>
PrintsText == <<"char", "char">>

\* The premise of the proofs holds for this instance.
ASSUME InstanceFits == Fitting
==============================================================================
