----------------------------- MODULE MCBootDisks -----------------------------
EXTENDS BootDisks

\* Reads in the first block, at and off the FIFO's boundaries, of no byte to
\* three chunks, as far as they reach to the end of their first chunk.
LongRequests == {r \in [addr : {0, 13}, len : {0, 3, 9, 17}] : HeadLen(r.addr) <= r.len}

\* The fields of a partition entry: 16 bytes in the middle of 64, in the small.
EntryRequests == {[addr |-> 12, len |-> 2]}

Memory == -1 .. 18
\* The premises of the proofs hold where no request is too short.
ASSUME InstanceOnMedium == (OnMedium /\ FifoDepth >= 7) \/ Requests = EntryRequests

NumJobs == {[page |-> 0, num |-> 0], [page |-> 1, num |-> 2]}
==============================================================================
