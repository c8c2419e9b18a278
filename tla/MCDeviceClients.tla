---------------------------- MODULE MCDeviceClients ----------------------------
EXTENDS DeviceClients, TLC

CONSTANTS t1, t2, o1, o2, sA, sB, sC, sD

\* Every client acts for a story of its own.
OwnStory ==
    [c \in Request |->
        CASE c = t1 -> sA [] c = t2 -> sB [] c = o1 -> sC [] c = o2 -> sD]
=============================================================================
