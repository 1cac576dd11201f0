------------------------------- MODULE MCClint --------------------------------
EXTENDS Clint

\* The premise of the proofs holds for these instances.
ASSUME InstanceDoesNotWrap == NoWrap
==============================================================================
