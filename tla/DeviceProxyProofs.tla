--------------------------- MODULE DeviceProxyProofs ---------------------------
(***************************************************************************)
(* What a receipt of the device proxy is worth, whoever else uses the      *)
(* coordinator.  The argument is about tokens only: a lease that is gone   *)
(* does not come back under its token, so two observations of one token    *)
(* enclose an interval in which it was held throughout.                    *)
(***************************************************************************)
EXTENDS DeviceProxy, DeviceRuntimeProofs

\* Where the proxy can be after the lease was lost during the action.
Tied ==
    /\ at # "idle" => tok # 0
    /\ lapsed => at \in {"acting", "binding", "lease", "blocked"}
    /\ lapsed /\ at # "blocked" => ~HoldsToken(dev, tok)

ProxyInv == Committed(dev) /\ ProxyTypeOK /\ Tied

\* The frozen token, once a lease was frozen, is one that was issued.
LEMMA FrozenIsIssued ==
    ASSUME ProxyInv, at # "idle"
    PROVE  tok \in IssuedToken
<1>1. tok \in 0 .. dev.fencingCounter /\ tok # 0
  BY DEF ProxyInv, ProxyTypeOK, Tied
<1>2. dev.fencingCounter \in Nat
  BY CoreTokens DEF ProxyInv, Committed
<1>. QED  BY <1>1, <1>2 DEF IssuedToken

\* Whatever the proxy or anybody else does to the record is an operation of the
\* coordinator.
LEMMA ProxyStepIsCall ==
    ASSUME ProxyInv, ProxyNext
    PROVE  Next \/ UNCHANGED dev
<1>1. CASE ProxyStep
  <2>1. ASSUME NEW lag \in Lag, Renew(lag) PROVE Next
    <3>1. tok \in IssuedToken /\ ttl \in Ttl
      BY <2>1, FrozenIsIssued DEF Renew, ProxyInv, ProxyTypeOK
    <3>. QED  BY <2>1, <3>1 DEF Renew, Next
  <2>2. CASE Freeze \/ Begin \/ Block \/ ReadBinding \/ ReadLease
               \/ ReadBindingAgain \/ EndAction
    BY <2>2 DEF Freeze, Begin, Block, ReadBinding, ReadLease, ReadBindingAgain, EndAction
  <2>. QED  BY <1>1, <2>1, <2>2 DEF ProxyStep
<1>2. CASE Call
  BY <1>2 DEF Call, Next
<1>3. ASSUME NEW lag \in Lag, CancelForChange(lag) PROVE Next
  BY <1>3 DEF CancelForChange, Next
<1>4. CASE AskForChange \/ WriteChange \/ Rebind
  BY <1>4 DEF AskForChange, WriteChange, Rebind
<1>5. CASE Wait
  BY <1>5 DEF Wait, Next
<1>. QED  BY <1>1, <1>2, <1>3, <1>4, <1>5 DEF ProxyNext

\* Every step commits a record and respects the order of the tokens.
LEMMA ProxyStepCommits ==
    ASSUME ProxyInv, ProxyNext
    PROVE  Committed(dev') /\ Advances(dev, dev')
<1>1. Committed(dev)
  BY DEF ProxyInv
<1>2. CASE Next
  BY <1>1, <1>2, NextCommits
<1>3. CASE UNCHANGED dev
  BY <1>1, <1>3, SameClaimsAdvance DEF Committed
<1>. QED  BY <1>2, <1>3, ProxyStepIsCall

\* A lease that is gone does not come back under its token.
LEMMA LostStaysLost ==
    ASSUME ProxyInv, ProxyNext, ~HoldsToken(dev, tok)
    PROVE  ~HoldsToken(dev', tok)
<1>1. Advances(dev, dev') /\ Core(dev) /\ Core(dev')
  BY ProxyStepCommits DEF ProxyInv, Committed
<1>2. tok \in 0 .. dev.fencingCounter /\ dev.fencingCounter \in Nat
  BY <1>1, CoreTokens DEF ProxyInv, ProxyTypeOK
<1>3. Leased(dev') => dev'.lease.fencing \in Nat
  BY <1>1, CoreTokens
<1>. QED  BY <1>1, <1>2, <1>3 DEF Advances, HoldsToken

\* The types are kept.
LEMMA ProxyTypesKept ==
    ASSUME ProxyInv, ProxyNext
    PROVE  ProxyTypeOK'
<1>1. /\ dev' \in DeviceState /\ dev'.fencingCounter \in Nat
      /\ dev.fencingCounter \in Nat /\ dev'.fencingCounter >= dev.fencingCounter
  BY ProxyStepCommits, CoreTokens DEF ProxyInv, Committed, Core, Advances
<1>2. lapsed' \in BOOLEAN
  BY DEF ProxyNext, Watch
<1>3. tok \in 0 .. dev'.fencingCounter
  BY <1>1 DEF ProxyInv, ProxyTypeOK
<1>4. \A t \in Ttl, lag \in Lag : t \in Int /\ lag \in Int
  BY DeviceRuntimeAssumption DEF Lag
<1>5. CASE Freeze
  <2>1. dev.lease.fencing = dev.fencingCounter
    BY <1>5 DEF Freeze, ProxyInv, Committed, Core, Tokens
  <2>2. after' \in BOOLEAN
    BY <1>5, Zenon DEF Freeze
  <2>3. UNCHANGED <<dev, ttl, rest, bound, change>> /\ at' = "frozen"
        /\ tok' \in 0 .. dev.fencingCounter
    BY <1>1, <1>5, <2>1 DEF Freeze
  <2>. QED  BY <1>1, <1>2, <2>2, <2>3 DEF ProxyInv, ProxyTypeOK, TypeOK, Place
<1>6. ASSUME NEW lag \in Lag, Renew(lag) PROVE ProxyTypeOK'
  <2>1. after' \in BOOLEAN
    BY <1>6, Zenon DEF Renew, ProxyInv, ProxyTypeOK
  <2>2. rest' \in Int /\ at' \in {"rebinding", "blocked"} /\ ttl' = 0
        /\ UNCHANGED <<tok, bound, change>>
    BY <1>4, <1>6 DEF Renew, ProxyInv, ProxyTypeOK
  <2>. QED  BY <1>1, <1>2, <1>3, <2>1, <2>2 DEF ProxyInv, ProxyTypeOK, TypeOK, Place
<1>7. CASE ReadLease
  <2>1. dev.lease.ttl \in Ttl
    BY <1>7, CoreTokens DEF ReadLease, LeaseIsFrozenOne, HoldsToken, ProxyInv, Committed, Lease
  <2>. QED  BY <1>1, <1>2, <1>3, <1>7, <2>1 DEF ReadLease, ProxyInv, ProxyTypeOK, TypeOK, Place
<1>8. CASE Begin \/ Block \/ ReadBinding \/ ReadBindingAgain \/ EndAction
  <2>1. at' \in Place /\ rest' \in Int
    BY <1>8 DEF Begin, Block, ReadBinding, ReadBindingAgain, EndAction, ProxyInv,
                ProxyTypeOK, Place
  <2>2. after' \in BOOLEAN
    BY <1>8, Zenon DEF Begin, Block, ReadBinding, ReadBindingAgain, EndAction,
                       ProxyInv, ProxyTypeOK
  <2>3. UNCHANGED <<dev, tok, bound, change>> /\ ttl' \in {ttl, 0} /\ at' # "renewal"
    BY <1>8 DEF Begin, Block, ReadBinding, ReadBindingAgain, EndAction
  <2>. QED  BY <1>1, <1>2, <1>3, <2>1, <2>2, <2>3 DEF ProxyInv, ProxyTypeOK, TypeOK
<1>9. CASE Call
  BY <1>1, <1>2, <1>3, <1>9 DEF Call, Stays, ProxyInv, ProxyTypeOK, TypeOK
<1>10. CASE AskForChange \/ WriteChange \/ Rebind \/ \E lag \in Lag : CancelForChange(lag)
  BY <1>1, <1>2, <1>3, <1>10
     DEF AskForChange, WriteChange, Rebind, CancelForChange, Stays, ProxyInv,
         ProxyTypeOK, TypeOK
<1>11. CASE Wait
  BY <1>1, <1>2, <1>3, <1>11 DEF Wait, Stays, ProxyInv, ProxyTypeOK, TypeOK
<1>. QED
  BY <1>5, <1>6, <1>7, <1>8, <1>9, <1>10, <1>11 DEF ProxyNext, ProxyStep

\* A lease that was lost during the action is still gone when the proxy looks.
LEMMA TiedKept ==
    ASSUME ProxyInv, ProxyNext
    PROVE  Tied'
<1>1. Tied /\ dev.fencingCounter \in Nat
  BY CoreTokens DEF ProxyInv, Committed
<1>2. lapsed' = \/ at' = "acting" /\ ~HoldsToken(dev', tok')
                \/ lapsed /\ at' # "frozen" /\ ~(at' = "binding" /\ ~after')
  BY DEF ProxyNext, Watch
<1>3. ~HoldsToken(dev, tok) => ~HoldsToken(dev', tok)
  BY LostStaysLost
<1>4. CASE Freeze
  <2>1. dev.lease.fencing > 0
    BY <1>4 DEF Freeze, ProxyInv, Committed, Core, Tokens
  <2>. QED  BY <1>2, <1>4, <2>1 DEF Freeze, Tied
<1>5. CASE Begin \/ Block
  BY <1>1, <1>2, <1>5 DEF Begin, Block, Executing, Tied
<1>6. CASE ReadBinding
  BY <1>1, <1>2, <1>3, <1>6 DEF ReadBinding, Tied
<1>7. CASE ReadLease
  BY <1>1, <1>2, <1>7 DEF ReadLease, LeaseIsFrozenOne, Tied
<1>8. CASE ReadBindingAgain
  BY <1>1, <1>2, <1>8 DEF ReadBindingAgain, Tied
<1>9. CASE EndAction
  BY <1>1, <1>2, <1>3, <1>9 DEF EndAction, Tied
<1>10. ASSUME NEW lag \in Lag, Renew(lag) PROVE Tied'
  BY <1>1, <1>2, <1>10 DEF Renew, Tied
<1>11. CASE Stays
  BY <1>1, <1>2, <1>3, <1>11 DEF Stays, Tied
<1>12. Call \/ AskForChange \/ (\E lag \in Lag : CancelForChange(lag))
          \/ WriteChange \/ Rebind \/ Wait => Stays
  BY DEF Call, AskForChange, CancelForChange, WriteChange, Rebind, Wait
<1>. QED
  BY <1>4, <1>5, <1>6, <1>7, <1>8, <1>9, <1>10, <1>11, <1>12 DEF ProxyNext, ProxyStep

\* It holds before anything is frozen.
LEMMA ProxyStart == ProxyInit => ProxyInv
<1> SUFFICES ASSUME ProxyInit PROVE ProxyInv
  OBVIOUS
<1>1. Committed(dev) /\ dev.fencingCounter = 0
  BY InitCommits DEF ProxyInit, Init, InitialState
<1>2. dev \in DeviceState /\ tok \in 0 .. dev.fencingCounter
  BY <1>1 DEF ProxyInit, Committed, Core
<1>3. after \in BOOLEAN /\ bound \in BOOLEAN /\ lapsed \in BOOLEAN
  BY Zenon DEF ProxyInit
<1>4. /\ at \in Place /\ at # "renewal" /\ ttl = 0
      /\ rest \in Int /\ change \in {"none", "writing"} \cup Request
  BY DEF ProxyInit, Place
<1>5. Tied
  BY DEF ProxyInit, Tied
<1>. QED
  BY <1>1, <1>2, <1>3, <1>4, <1>5 DEF ProxyInv, ProxyTypeOK, TypeOK

\* The invariant is inductive.
LEMMA ProxyInvariance == ProxySpec => []ProxyInv
<1>1. ProxyInv /\ [ProxyNext]_proxyVars => ProxyInv'
  <2> SUFFICES ASSUME ProxyInv, [ProxyNext]_proxyVars PROVE ProxyInv'
    OBVIOUS
  <2>1. CASE ProxyNext
    BY <2>1, ProxyStepCommits, ProxyTypesKept, TiedKept DEF ProxyInv
  <2>2. CASE UNCHANGED proxyVars
    BY <2>2 DEF proxyVars, ProxyInv, ProxyTypeOK, TypeOK, Tied
  <2>. QED  BY <2>1, <2>2
<1>. QED  BY <1>1, ProxyStart, PTL DEF ProxySpec

\* The types are right at all times.
THEOREM ProxyTypesCorrect == ProxySpec => []ProxyTypeOK
<1>1. ProxyInv => ProxyTypeOK
  BY DEF ProxyInv
<1>. QED  BY <1>1, ProxyInvariance, PTL

\* A receipt of success means that the story held the device under the frozen
\* lease at every moment of the action.
THEOREM ReceiptsAreTrue == ProxySpec => []ReceiptMeansHeld
<1>1. ProxyInv => ReceiptMeansHeld
  BY DEF ProxyInv, Tied, ReceiptMeansHeld
<1>. QED  BY <1>1, ProxyInvariance, PTL

\* The proxy and its environment use the coordinator as its specification
\* allows, so that what is proved of the coordinator holds here.
THEOREM ProxyIsCaller == ProxySpec => Spec
<1>1. ProxyInit => Init
  BY DEF ProxyInit
<1>2. ProxyInv /\ [ProxyNext]_proxyVars => [Next]_dev
  BY ProxyStepIsCall DEF proxyVars
<1>. QED  BY <1>1, <1>2, ProxyInvariance, PTL DEF ProxySpec, Spec
=============================================================================
