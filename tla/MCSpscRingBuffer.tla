-------------------------- MODULE MCSpscRingBuffer --------------------------
(* Small instance of the ring: the counters wrap after a few operations.   *)
EXTENDS SpscRingBuffer
=============================================================================
