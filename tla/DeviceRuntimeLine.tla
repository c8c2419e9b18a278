--------------------------- MODULE DeviceRuntimeLine ---------------------------
(***************************************************************************)
(* DeviceRuntime implements DeviceLine as long as its history forgets      *)
(* nothing (HistoryLimit is at least the number of requests): the lease is *)
(* the claim in front, the queue the claims behind it.                     *)
(***************************************************************************)
EXTENDS DeviceRuntime

Claim(e) == [req |-> e.req, ticket |-> e.seq]

HolderClaim(s) == IF Leased(s) THEN {Claim(s.lease)} ELSE {}

Claims(s) == {Claim(e) : e \in s.queue} \cup HolderClaim(s)

Line == INSTANCE DeviceLine WITH
    line <- Claims(dev),
    holder <- HolderClaim(dev),
    nextTicket <- dev.nextSequence,
    token <- dev.fencingCounter,
    left <- {h.req : h \in dev.history}

\* Every run of the coordinator is a run of the line: whatever the operations,
\* the clock and the lag do, each transaction is a claim joining at the end or
\* claims leaving, with the device at all times with the claim in front and
\* the token raised exactly when it passes on.
ImplementsLine == Line!Spec
=============================================================================
