------------------------------- MODULE MCTwsDL -------------------------------
(* TwsDL on small instances.  Job 1 and 2 have the same series, job 3 only *)
(* the same underlying.                                                    *)
EXTENDS TwsDL

MCUnderlying == [j \in HistJobs |-> "u"]
MCSeries     == [j \in HistJobs |-> IF j <= 2 THEN "s" ELSE "t"]

OneEach      == [t \in IndexedTypes |-> 1]
TwoDetails   == [t \in IndexedTypes |-> IF t = "CONTRACT_DETAILS" THEN 2 ELSE 0]
=============================================================================
