---------------------------- MODULE MCDisaggFlow ----------------------------
EXTENDS DisaggFlow
CONSTANTS t1, t2

\* One transformer behind the smallest rings, or two that are told what to do.
Small ==
    {[mode |-> "ring", slots |-> 1, instances |-> <<t1>>],
     [mode |-> "central", slots |-> 1, instances |-> <<t1, t2>>]}
=============================================================================
