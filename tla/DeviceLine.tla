------------------------------- MODULE DeviceLine -------------------------------
(***************************************************************************)
(* What the device coordinator promises, without leases, clocks, queues or *)
(* a history: a line of claims in the order they arrived, the one in front *)
(* having the device.  Claims leave the line from any place (a release, a  *)
(* cancellation, an expiry, a newer claim of the same story), a new one    *)
(* joins at the end, and a request that has left never joins again.        *)
(* Whenever the device passes to another claim, the fencing token rises;   *)
(* it never changes otherwise.                                             *)
(***************************************************************************)
EXTENDS Integers

CONSTANT Request

VARIABLES
    line,        \* the claims: records of a request and its ticket
    holder,      \* the claim that has the device, as a set of at most one
    nextTicket,  \* the ticket of the next claim
    token,       \* the newest fencing token issued
    left         \* the requests that are no longer in the line

vars == <<line, holder, nextTicket, token, left>>

Front(l) == {c \in l : \A d \in l : c.ticket <= d.ticket}

InLine(l) == {c.req : c \in l}

Init ==
    /\ line = {}
    /\ holder = {}
    /\ nextTicket \in Nat
    /\ token \in Nat
    /\ left = {}

\* Some claims leave and others join, in one step; the device passes to
\* whoever is then in front.
Move(out, in) ==
    /\ line' = (line \ out) \cup in
    /\ left' = left \cup InLine(out)
    /\ holder' = Front(line')
    /\ IF holder' \in {holder, {}} THEN token' = token ELSE token' > token

Leave(out) ==
    /\ UNCHANGED nextTicket
    /\ Move(out, {})

Join(r, out) ==
    /\ nextTicket' = nextTicket + 1
    /\ r \notin left \cup InLine(line)
    /\ Move(out, {[req |-> r, ticket |-> nextTicket]})

Next ==
    \E out \in SUBSET line : Leave(out) \/ \E r \in Request : Join(r, out)

Spec == Init /\ [][Next]_vars
=============================================================================
