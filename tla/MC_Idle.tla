------------------------------ MODULE MC_Idle ------------------------------
\* On mains: dim and blank; on battery: blank and suspend.
EXTENDS Idle

MCDelays == [b \in BOOLEAN |-> IF b THEN [dim |-> 0, blank |-> 1, lock |-> 0, suspend |-> 2]
                               ELSE [dim |-> 1, blank |-> 2, lock |-> 0, suspend |-> 0]]
MCFlags == {{"idle", "suspend"}, {"suspend"}}
=============================================================================
