--------------------------- MODULE MCCopyPipeline ----------------------------
EXTENDS CopyPipeline

CONSTANTS o1, o2

\* Both tracks are copies of the same track on the iPod.
SameOrigin == [t \in Objects |-> o1]
=============================================================================
