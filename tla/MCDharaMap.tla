----------------------------- MODULE MCDharaMap -----------------------------
EXTENDS DharaMap
DoWrite(x) == [call |-> "write", s |-> x, src |-> NONE]
DoTrim(x) == [call |-> "trim", s |-> x, src |-> NONE]
DoSync == [call |-> "sync", s |-> NONE, src |-> NONE]
MCCalls == {DoWrite(0), DoWrite(3), DoTrim(0), DoTrim(1), DoSync,
            [call |-> "copy", s |-> 2, src |-> 0], [call |-> "gc", s |-> NONE, src |-> NONE]}
MCWarm == [i \in 1..40 |-> IF i % 4 = 0 THEN DoSync ELSE DoWrite(i % 2)]
=============================================================================
