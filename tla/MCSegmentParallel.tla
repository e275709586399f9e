-------------------------- MODULE MCSegmentParallel --------------------------
EXTENDS SegmentParallel

AllPlaces == {"output", "prepare", "diffuse", "send", "save", "concat"}
AllSetups ==
    {[runner |-> "default", transport |-> "gloo", failing |-> {}],
     [runner |-> "seedvr", transport |-> "gloo", failing |-> AllPlaces],
     [runner |-> "seedvr", transport |-> "file", failing |-> AllPlaces]}

\* For the chain of markers: exceptions in the denoising alone.
GlooOnly == {[runner |-> "seedvr", transport |-> "gloo", failing |-> {"diffuse"}]}
=============================================================================
