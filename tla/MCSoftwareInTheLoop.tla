-------------------------- MODULE MCSoftwareInTheLoop --------------------------
EXTENDS SoftwareInTheLoop

\* Scenarios of one and of two intervals, run alone, together and repeatedly.
MCIntervals == [x \in {"short", "long"} |-> IF x = "short" THEN 1 ELSE 2]
MCCommands == { <<"long">>, <<"short", "long">>, <<"short", "short">>,
                <<"long", "short", "long">> }
=============================================================================
