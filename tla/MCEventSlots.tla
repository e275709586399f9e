---------------------------- MODULE MCEventSlots ----------------------------
\* Bounded instances of EventSlots.
EXTENDS EventSlots

=============================================================================
