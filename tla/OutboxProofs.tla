---------------------------- MODULE OutboxProofs ----------------------------
(***************************************************************************)
(* Proofs about leases and deliveries of Outbox, for all constants.        *)
(***************************************************************************)
EXTENDS Outbox, FiniteSetTheorems, SequenceTheorems, TLAPS

\* The types of what the lease arguments speak of.
LeaseTypes ==
  /\ claim \in [Event -> Publisher \cup {None, Orphan}]
  /\ age \in [Event -> 0 .. Lease + 1]
  /\ phase \in [Publisher -> Phase]
  /\ batch \in [Publisher -> SUBSET Event]
  /\ current \in [Publisher -> Event \cup {None}]
  /\ held \in [Publisher -> 0 .. Lease + 1]

\* What a publisher has in hand in which phase.
InHand ==
  \A p \in Publisher :
    /\ phase[p] \in {"down", "idle"} => batch[p] = {}
    /\ phase[p] \in {"down", "idle", "next"} <=> current[p] = None
    /\ phase[p] \notin Sending => held[p] = 0

\* As long as nobody took the row over, held is the age of the claim; it was
\* taken over only when the lease had run out.
HeldSinceRenewal ==
  \A p \in Publisher :
    phase[p] \in Sending =>
      IF claim[current[p]] = p THEN held[p] = age[current[p]]
                               ELSE held[p] > Lease

LeaseInv == LeaseTypes /\ InHand /\ HeldSinceRenewal /\ ClaimsAreWorkedOn

\* The claims a publisher leaves behind when it is done with an event: that of
\* the event may be given up if it is its own, all others and their ages stay.
GivesUp(p, claims) ==
  /\ claims \in [Event -> Publisher \cup {None, Orphan}]
  /\ \A e \in Event :
       \/ claims[e] = claim[e] /\ age'[e] = age[e]
       \/ /\ e = current[p] /\ claim[e] = p
          /\ claims[e] = None /\ age'[e] = 0

USE OutboxAssumption, ConfigAssumption

-----------------------------------------------------------------------------
(* The end of an event and of a batch.                                     *)

\* However a publisher leaves a batch, the lease invariant holds afterwards.
LEMMA EndBatchKeepsLeaseInv ==
  ASSUME LeaseInv, NEW p \in Publisher, NEW to \in {"down", "idle"},
         NEW claims, GivesUp(p, claims), age' \in [Event -> 0 .. Lease + 1],
         EndBatch(p, to, claims)
  PROVE  LeaseInv'
<1> USE DEF LeaseInv, LeaseTypes
<1>1. claim' = Forgotten(p, claims) /\ claim' \in [Event -> Publisher \cup {None, Orphan}]
  BY DEF EndBatch, Forgotten, GivesUp
<1>2. LeaseTypes'
  BY <1>1 DEF EndBatch, Phase
<1>3. InHand'
  BY DEF EndBatch, InHand, Sending
<1>4. \A e \in Event : claim'[e] # p
  BY <1>1 DEF Forgotten, GivesUp
<1>5. \A q \in Publisher \ {p}, e \in Event :
        \/ claim'[e] = claim[e] /\ age'[e] = age[e]
        \/ claim[e] # q /\ claim'[e] # q
  BY <1>1 DEF Forgotten, GivesUp
<1>6. \A q \in Publisher \ {p} : UNCHANGED <<phase[q], batch[q], current[q], held[q]>>
  BY DEF EndBatch
<1>7. phase'[p] = to
  BY DEF EndBatch
<1>8. HeldSinceRenewal'
  <2> SUFFICES ASSUME NEW q \in Publisher, phase'[q] \in Sending
               PROVE  IF claim'[current'[q]] = q THEN held'[q] = age'[current'[q]]
                                                 ELSE held'[q] > Lease
    BY DEF HeldSinceRenewal
  <2>1. q # p
    BY <1>7 DEF Sending
  <2>2. current[q] \in Event
    BY <2>1, <1>6 DEF InHand, Sending
  <2> QED BY <2>1, <2>2, <1>5, <1>6 DEF HeldSinceRenewal
<1>9. ClaimsAreWorkedOn'
  <2> SUFFICES ASSUME NEW q \in Publisher, NEW e \in Event,
                      claim'[e] = q, age'[e] <= Lease
               PROVE  e \in batch'[q] \cup {current'[q]}
    BY DEF ClaimsAreWorkedOn, Leased
  <2> QED BY <1>4, <1>5, <1>6 DEF ClaimsAreWorkedOn, Leased
<1> QED BY <1>2, <1>3, <1>8, <1>9

\* Nor does it matter how the loop goes on after an event, provided the event is
\* no longer leased to its publisher.
LEMMA AfterEventKeepsLeaseInv ==
  ASSUME LeaseInv, NEW p \in Publisher, NEW claims, GivesUp(p, claims),
         age' \in [Event -> 0 .. Lease + 1],
         ~ (claims[current[p]] = p /\ age'[current[p]] <= Lease),
         current[p] # None, AfterEvent(p, claims)
  PROVE  LeaseInv'
<1>1. CASE \E to \in {"down", "idle"} : EndBatch(p, to, claims)
  BY <1>1, EndBatchKeepsLeaseInv
<1>2. CASE /\ phase' = [phase EXCEPT ![p] = "next"]
           /\ claim' = claims
           /\ current' = [current EXCEPT ![p] = None]
           /\ held' = [held EXCEPT ![p] = 0]
           /\ UNCHANGED batch
  <2> USE DEF LeaseInv, LeaseTypes
  <2>1. LeaseTypes'
    BY <1>2 DEF GivesUp, Phase
  <2>2. InHand'
    BY <1>2 DEF InHand, Sending
  <2>3. \A q \in Publisher \ {p}, e \in Event :
          \/ claim'[e] = claim[e] /\ age'[e] = age[e]
          \/ claim[e] # q /\ claim'[e] # q
    BY <1>2 DEF GivesUp
  <2>4. \A q \in Publisher \ {p} : UNCHANGED <<phase[q], batch[q], current[q], held[q]>>
    BY <1>2
  <2>5. HeldSinceRenewal'
    <3> SUFFICES ASSUME NEW q \in Publisher, phase'[q] \in Sending
                 PROVE  IF claim'[current'[q]] = q
                        THEN held'[q] = age'[current'[q]]
                        ELSE held'[q] > Lease
      BY DEF HeldSinceRenewal
    <3>1. q # p
      BY <1>2 DEF Sending
    <3>2. current[q] \in Event
      BY <3>1, <2>4 DEF InHand, Sending
    <3> QED BY <3>1, <3>2, <2>3, <2>4 DEF HeldSinceRenewal
  <2>6. ClaimsAreWorkedOn'
    <3> SUFFICES ASSUME NEW q \in Publisher, NEW e \in Event,
                        claim'[e] = q, age'[e] <= Lease
                 PROVE  e \in batch'[q] \cup {current'[q]}
      BY DEF ClaimsAreWorkedOn, Leased
    <3>1. CASE q = p
      BY <3>1, <1>2 DEF ClaimsAreWorkedOn, Leased, GivesUp
    <3>2. CASE q # p
      BY <3>2, <2>3, <2>4 DEF ClaimsAreWorkedOn, Leased
    <3> QED BY <3>1, <3>2
  <2> QED BY <2>1, <2>2, <2>5, <2>6
<1> QED BY <1>1, <1>2 DEF AfterEvent

-----------------------------------------------------------------------------
(* The lease invariant.                                                    *)

LEMMA LeaseInvInit == Init => LeaseInv
BY DEF Init, LeaseInv, LeaseTypes, InHand, HeldSinceRenewal, ClaimsAreWorkedOn,
       Leased, Phase, Sending

\* The rows a claim query returns were nobody's, or their lease had run out.
LEMMA BatchWasEligible ==
  ASSUME NEW S \in SUBSET Event, IsBatch(S)
  PROVE  \A e \in S : Eligible(e)
BY DEF IsBatch

LEMMA ClaimKeepsLeaseInv ==
  ASSUME LeaseInv, NEW p \in Publisher, ClaimBatch(p)
  PROVE  LeaseInv'
<1> USE DEF LeaseInv, LeaseTypes
<1>1. PICK S \in SUBSET Event \ {{}} :
        /\ IsBatch(S)
        /\ claim' = [e \in Event |-> IF e \in S THEN p ELSE claim[e]]
        /\ age' = [e \in Event |-> IF e \in S THEN 0 ELSE age[e]]
        /\ batch' = [batch EXCEPT ![p] = S]
  BY DEF ClaimBatch
<1>2. /\ phase[p] = "idle" /\ phase' = [phase EXCEPT ![p] = "next"]
      /\ UNCHANGED <<current, held>>
  BY DEF ClaimBatch
<1>3. \A e \in S : claim[e] = None \/ age[e] > Lease
  BY <1>1, BatchWasEligible DEF Eligible
<1>4. LeaseTypes'
  BY <1>1, <1>2 DEF Phase
<1>5. InHand'
  BY <1>1, <1>2 DEF InHand, Sending
<1>6. HeldSinceRenewal'
  <2> SUFFICES ASSUME NEW q \in Publisher, phase'[q] \in Sending
               PROVE  IF claim'[current'[q]] = q THEN held'[q] = age'[current'[q]]
                                                 ELSE held'[q] > Lease
    BY DEF HeldSinceRenewal
  <2>1. q # p /\ phase[q] \in Sending /\ current[q] \in Event
    BY <1>2 DEF InHand, Sending
  <2>2. CASE current[q] \in S
    BY <2>1, <2>2, <1>1, <1>2, <1>3 DEF HeldSinceRenewal
  <2>3. CASE current[q] \notin S
    BY <2>1, <2>3, <1>1, <1>2 DEF HeldSinceRenewal
  <2> QED BY <2>2, <2>3
<1>7. ClaimsAreWorkedOn'
  <2> SUFFICES ASSUME NEW q \in Publisher, NEW e \in Event,
                      claim'[e] = q, age'[e] <= Lease
               PROVE  e \in batch'[q] \cup {current'[q]}
    BY DEF ClaimsAreWorkedOn, Leased
  <2>1. CASE e \in S
    BY <2>1, <1>1
  <2>2. CASE e \notin S
    <3>1. e \in batch[q] \cup {current[q]}
      BY <2>2, <1>1 DEF ClaimsAreWorkedOn, Leased
    <3>2. q # p
      BY <3>1, <1>2 DEF InHand
    <3> QED BY <3>1, <3>2, <1>1, <1>2
  <2> QED BY <2>1, <2>2
<1> QED BY <1>4, <1>5, <1>6, <1>7

LEMMA RenewalsKeepLeaseInv ==
  ASSUME LeaseInv, NEW p \in Publisher,
         (\E e \in Event : RenewBatchNearExpiry(p, e)) \/ RenewAndLoadEvent(p)
  PROVE  LeaseInv'
<1> USE DEF LeaseInv, LeaseTypes
<1>1. ASSUME NEW e \in Event, RenewBatchNearExpiry(p, e) PROVE LeaseInv'
  <2>1. /\ phase[p] = "next" /\ current[p] = None /\ e \in batch[p]
        /\ phase' = [phase EXCEPT ![p] = "load"]
        /\ current' = [current EXCEPT ![p] = e]
        /\ batch' = [batch EXCEPT ![p] = @ \ {e}]
        /\ UNCHANGED <<claim, held>>
    BY <1>1 DEF RenewBatchNearExpiry, InHand
  <2>2. age' \in [Event -> 0 .. Lease + 1]
    BY <1>1 DEF RenewBatchNearExpiry
  <2>3. \A f \in Event : age'[f] = age[f] \/ (claim[f] = p /\ age[f] <= Lease)
    BY <1>1 DEF RenewBatchNearExpiry, Leased
  <2>4. LeaseTypes' /\ InHand'
    BY <2>1, <2>2 DEF InHand, Phase, Sending
  <2>5. HeldSinceRenewal'
    <3> SUFFICES ASSUME NEW q \in Publisher, phase'[q] \in Sending
                 PROVE  IF claim'[current'[q]] = q
                        THEN held'[q] = age'[current'[q]]
                        ELSE held'[q] > Lease
      BY DEF HeldSinceRenewal
    <3>1. q # p /\ phase[q] \in Sending /\ current[q] \in Event
      BY <2>1 DEF InHand, Sending
    <3> QED BY <3>1, <2>1, <2>3 DEF HeldSinceRenewal
  <2>6. ClaimsAreWorkedOn'
    BY <2>1, <2>3 DEF ClaimsAreWorkedOn, Leased
  <2> QED BY <2>4, <2>5, <2>6
<1>2. ASSUME RenewAndLoadEvent(p) PROVE LeaseInv'
  <2>1. /\ phase[p] = "load" /\ current[p] \in Event
        /\ claim[current[p]] = p /\ age[current[p]] <= Lease
        /\ age' = [age EXCEPT ![current[p]] = 0]
        /\ UNCHANGED <<claim, batch, current, held>>
    BY <1>2 DEF RenewAndLoadEvent, InHand, Leased
  <2>2. \E to \in {"failed", "publishing", "unavailable"} :
          phase' = [phase EXCEPT ![p] = to]
    BY <1>2 DEF RenewAndLoadEvent
  <2>3. held[p] = 0
    BY <2>1 DEF InHand, Sending
  <2>4. LeaseTypes'
    BY <2>1, <2>2 DEF Phase
  <2>5. InHand'
    BY <2>1, <2>2, <2>3 DEF InHand, Sending
  <2>6. HeldSinceRenewal'
    <3> SUFFICES ASSUME NEW q \in Publisher, phase'[q] \in Sending
                 PROVE  IF claim'[current'[q]] = q
                        THEN held'[q] = age'[current'[q]]
                        ELSE held'[q] > Lease
      BY DEF HeldSinceRenewal
    <3>1. CASE q = p
      BY <3>1, <2>1, <2>3
    <3>2. CASE q # p
      <4>1. phase[q] \in Sending /\ current[q] \in Event
        BY <3>2, <2>1, <2>2 DEF InHand, Sending
      <4> QED BY <3>2, <4>1, <2>1 DEF HeldSinceRenewal
    <3> QED BY <3>1, <3>2
  <2>7. ClaimsAreWorkedOn'
    BY <2>1 DEF ClaimsAreWorkedOn, Leased
  <2> QED BY <2>4, <2>5, <2>6, <2>7
<1> QED BY <1>1, <1>2

LEMMA PublicationKeepsLeaseInv ==
  ASSUME LeaseInv, NEW p \in Publisher,
         Connect(p) \/ BrokerStores(p) \/ Confirmed(p) \/ PublishFails(p)
         \/ ChannelCloses(p)
  PROVE  LeaseInv'
<1> USE DEF LeaseInv, LeaseTypes
<1>1. UNCHANGED <<claim, age, batch, current>>
  BY DEF Connect, BrokerStores, Confirmed, PublishFails, ChannelCloses, rows
<1>2. \/ UNCHANGED <<phase, held>>
      \/ /\ phase[p] = "down" /\ phase' = [phase EXCEPT ![p] = "idle"]
         /\ held' = held
      \/ /\ phase[p] = "publishing" /\ phase' = [phase EXCEPT ![p] = "stored"]
         /\ held' = held
      \/ /\ phase[p] \in Sending
         /\ \E to \in {"acked", "failed", "unavailable"} :
              phase' = [phase EXCEPT ![p] = to]
         /\ held' = [held EXCEPT ![p] = 0]
  BY DEF Connect, BrokerStores, Confirmed, PublishFails, ChannelCloses,
         AfterConfirm, Sending
<1>3. LeaseTypes'
  BY <1>1, <1>2 DEF Phase
<1>4. InHand'
  BY <1>1, <1>2 DEF InHand, Sending
<1>5. HeldSinceRenewal'
  BY <1>1, <1>2 DEF HeldSinceRenewal, InHand, Sending
<1>6. ClaimsAreWorkedOn'
  BY <1>1 DEF ClaimsAreWorkedOn, Leased
<1> QED BY <1>3, <1>4, <1>5, <1>6

LEMMA OutcomeKeepsLeaseInv ==
  ASSUME LeaseInv, NEW p \in Publisher,
         SkipLostClaim(p) \/ MarkPublished(p) \/ ReleaseWithBackoff(p)
         \/ StaleOutcome(p) \/ StatementFails(p) \/ Stop(p)
  PROVE  LeaseInv'
<1> USE DEF LeaseInv, LeaseTypes
<1> DEFINE e == current[p]
<1>1. ASSUME phase[p] \in {"load", "acked", "failed", "unavailable"}
      PROVE  e \in Event
  BY <1>1 DEF InHand
<1>2. age' = age => GivesUp(p, claim)
  BY DEF GivesUp
<1>3. ASSUME Owns(p, e), e \in Event, age' = [age EXCEPT ![e] = 0]
      PROVE  /\ GivesUp(p, Unclaimed(e)) /\ Unclaimed(e)[e] # p
             /\ age' \in [Event -> 0 .. Lease + 1]
  BY <1>3 DEF GivesUp, Unclaimed, Owns
<1>4. CASE SkipLostClaim(p)
  BY <1>4, <1>1, <1>2, AfterEventKeepsLeaseInv DEF SkipLostClaim, Leased
<1>5. CASE MarkPublished(p)
  BY <1>5, <1>1, <1>3, AfterEventKeepsLeaseInv DEF MarkPublished
<1>6. CASE ReleaseWithBackoff(p)
  BY <1>6, <1>1, <1>3, AfterEventKeepsLeaseInv DEF ReleaseWithBackoff
<1>7. CASE StaleOutcome(p)
  BY <1>7, <1>1, <1>2, AfterEventKeepsLeaseInv DEF StaleOutcome, Owns
<1>8. CASE StatementFails(p)
  BY <1>8, <1>2, EndBatchKeepsLeaseInv DEF StatementFails
<1>9. CASE Stop(p)
  BY <1>9, <1>2, EndBatchKeepsLeaseInv DEF Stop
<1> QED BY <1>4, <1>5, <1>6, <1>7, <1>8, <1>9

LEMMA TickKeepsLeaseInv ==
  ASSUME LeaseInv, Tick
  PROVE  LeaseInv'
<1> USE DEF LeaseInv, LeaseTypes
<1>1. UNCHANGED <<claim, phase, batch, current>>
  BY DEF Tick
<1>2. LeaseTypes'
  BY <1>1 DEF Tick
<1>3. InHand'
  BY <1>1 DEF Tick, InHand
<1>4. HeldSinceRenewal'
  BY <1>1 DEF Tick, HeldSinceRenewal, InHand, Sending
<1>5. ClaimsAreWorkedOn'
  BY <1>1 DEF Tick, ClaimsAreWorkedOn, Leased
<1> QED BY <1>2, <1>3, <1>4, <1>5

LEMMA LeaseInvStep == LeaseInv /\ [Next]_vars => LeaseInv'
<1> SUFFICES ASSUME LeaseInv, [Next]_vars PROVE LeaseInv'
  OBVIOUS
<1>1. CASE (\E e \in Event : Enqueue(e)) \/ UNCHANGED vars
  <2>1. UNCHANGED <<claim, age, phase, batch, current, held>>
    BY <1>1 DEF Enqueue, process, vars
  <2> QED BY <2>1 DEF LeaseInv, LeaseTypes, InHand, HeldSinceRenewal,
                      ClaimsAreWorkedOn, Leased
<1>2. ASSUME NEW p \in Publisher, Works(p) \/ BrokerStores(p) \/ Disturbed(p)
      PROVE  LeaseInv'
  BY <1>2, ClaimKeepsLeaseInv, RenewalsKeepLeaseInv, PublicationKeepsLeaseInv,
     OutcomeKeepsLeaseInv DEF Works, Disturbed
<1>3. CASE Tick
  BY <1>3, TickKeepsLeaseInv
<1> QED BY <1>1, <1>2, <1>3 DEF Next, Step

LEMMA LeaseInvCorrect == Spec => []LeaseInv
BY LeaseInvInit, LeaseInvStep, PTL DEF Spec

\* Two publishers send one event together only after one of them held on for
\* longer than its lease: RenewAndLoadEvent in front of PublishEvent.
THEOREM OverlapOnlyAfterLeaseCorrect == Spec => []OverlapOnlyAfterLease
<1>1. LeaseInv => OverlapOnlyAfterLease
  BY DEF LeaseInv, LeaseTypes, HeldSinceRenewal, OverlapOnlyAfterLease
<1> QED BY <1>1, LeaseInvCorrect, PTL

\* A claim in force is always on an event its publisher still has to finish, in
\* every branch of ProcessBatch.
THEOREM ClaimsAreWorkedOnCorrect == Spec => []ClaimsAreWorkedOn
BY LeaseInvCorrect, PTL DEF LeaseInv

-----------------------------------------------------------------------------
(* Claims in force belong to their holders.                                *)

AttemptTypes == attempts \in [Event -> 0 .. BackoffCap]

LEMMA AttemptTypesCorrect == Spec => []AttemptTypes
<1>1. Init => AttemptTypes
  BY DEF Init, AttemptTypes
<1>2. ASSUME AttemptTypes, NEW p \in Publisher, ReleaseWithBackoff(p)
      PROVE  AttemptTypes'
  <2>1. attempts' = [attempts EXCEPT ![current[p]] =
                       IF @ < BackoffCap THEN @ + 1 ELSE @]
    BY <1>2 DEF ReleaseWithBackoff
  <2>2. \A e \in Event : attempts[e] \in Nat /\ attempts[e] <= BackoffCap
    BY <1>2 DEF AttemptTypes
  <2>3. \A e \in Event : attempts'[e] \in 0 .. BackoffCap
    BY <1>2, <2>1, <2>2 DEF AttemptTypes
  <2> QED BY <1>2, <2>1, <2>3 DEF AttemptTypes
<1>3. ASSUME AttemptTypes, [Next]_vars,
             ~ \E p \in Publisher : ReleaseWithBackoff(p)
      PROVE  attempts' = attempts
  BY <1>3 DEF Next, Step, Works, Disturbed, Enqueue, Connect, ClaimBatch,
     RenewBatchNearExpiry, RenewAndLoadEvent, SkipLostClaim, BrokerStores,
     Confirmed, PublishFails, MarkPublished, StaleOutcome, StatementFails, Stop,
     ChannelCloses, Tick, rows, process, vars
<1>4. AttemptTypes /\ [Next]_vars => AttemptTypes'
  BY <1>2, <1>3 DEF AttemptTypes
<1> QED BY <1>1, <1>4, PTL DEF Spec

LEMMA ForeignClaimStep ==
  ASSUME LeaseInv, AttemptTypes, [Next]_vars,
         NEW p \in Publisher, NEW e \in Event, Leased(p, e),
         UNCHANGED <<phase[p], batch[p], current[p]>>
  PROVE  /\ claim'[e] = p
         /\ age'[e] >= age[e]
         /\ attempts'[e] = attempts[e]
         /\ (e \in published') = (e \in published)
<1> USE DEF LeaseInv, LeaseTypes, AttemptTypes, Leased
<1>1. age[e] \in 0 .. Lease /\ Lease \in Nat
  BY ConfigAssumption
<1>2. ASSUME NEW q \in Publisher, ClaimBatch(q)
      PROVE  claim'[e] = p /\ age'[e] = age[e]
  <2>1. PICK S \in SUBSET Event :
          /\ IsBatch(S)
          /\ claim' = [f \in Event |-> IF f \in S THEN q ELSE claim[f]]
          /\ age' = [f \in Event |-> IF f \in S THEN 0 ELSE age[f]]
    BY <1>2 DEF ClaimBatch
  <2>2. e \notin S
    BY <2>1, BatchWasEligible DEF Eligible
  <2> QED BY <2>1, <2>2
<1>3. ASSUME NEW q \in Publisher, NEW claims, NEW to,
             claims \in [Event -> Publisher \cup {None, Orphan}],
             claims[e] = p, q # p, EndBatch(q, to, claims) \/ claim' = claims
      PROVE  claim'[e] = p
  BY <1>3 DEF EndBatch, Forgotten
<1>4. ASSUME NEW q \in Publisher, NEW claims,
             claims \in [Event -> Publisher \cup {None, Orphan}],
             claims[e] = p, q # p, AfterEvent(q, claims)
      PROVE  claim'[e] = p
  BY <1>4, <1>3 DEF AfterEvent
<1>5. ASSUME NEW q \in Publisher, NEW claims, AfterEvent(q, claims),
             phase[q] \in {"load", "acked", "failed", "unavailable"}
      PROVE  q # p
  <2>1. phase'[q] \in {"down", "idle", "next"}
    BY <1>5 DEF AfterEvent, EndBatch
  <2> QED BY <1>5, <2>1
<1>6. ASSUME NEW q \in Publisher, MarkPublished(q) \/ ReleaseWithBackoff(q)
      PROVE  /\ claim'[e] = p /\ age'[e] = age[e]
             /\ attempts'[e] = attempts[e]
             /\ (e \in published') = (e \in published)
  <2>1. Owns(q, current[q]) /\ AfterEvent(q, Unclaimed(current[q]))
    BY <1>6 DEF MarkPublished, ReleaseWithBackoff
  <2>2. q # p
    BY <1>6, <2>1, <1>5 DEF MarkPublished, ReleaseWithBackoff
  <2>3. e # current[q]
    BY <2>1, <2>2 DEF Owns
  <2>4. /\ Unclaimed(current[q])[e] = p
        /\ Unclaimed(current[q]) \in [Event -> Publisher \cup {None, Orphan}]
    BY <2>3 DEF Unclaimed
  <2>5. claim'[e] = p
    BY <2>1, <2>2, <2>4, <1>4
  <2> QED BY <1>6, <2>3, <2>5 DEF MarkPublished, ReleaseWithBackoff
<1>7. ASSUME NEW q \in Publisher, SkipLostClaim(q) \/ StaleOutcome(q)
      PROVE  claim'[e] = p /\ UNCHANGED <<age, attempts, published>>
  BY <1>7, <1>4, <1>5 DEF SkipLostClaim, StaleOutcome
<1>8. ASSUME NEW q \in Publisher, StatementFails(q) \/ Stop(q)
      PROVE  claim'[e] = p /\ UNCHANGED <<age, attempts, published>>
  <2>1. PICK to \in {"idle", "down"} : phase[q] # to /\ EndBatch(q, to, claim)
    BY <1>8 DEF StatementFails, Stop
  <2>2. q # p
    BY <2>1 DEF EndBatch
  <2> QED BY <1>8, <2>1, <2>2, <1>3 DEF StatementFails, Stop
<1>9. ASSUME NEW q \in Publisher, ClaimBatch(q)
      PROVE  /\ claim'[e] = p /\ age'[e] = age[e]
             /\ UNCHANGED <<attempts, published>>
  BY <1>9, <1>2 DEF ClaimBatch
<1>10. ASSUME NEW q \in Publisher,
              RenewAndLoadEvent(q) \/ \E f \in Event : RenewBatchNearExpiry(q, f)
       PROVE  age'[e] = age[e] /\ UNCHANGED <<claim, attempts, published>>
  <2>1. phase'[q] # phase[q]
    BY <1>10 DEF RenewAndLoadEvent, RenewBatchNearExpiry
  <2>2. q # p
    BY <2>1
  <2>3. CASE RenewAndLoadEvent(q)
    <3>1. current[q] # e
      BY <2>2, <2>3 DEF RenewAndLoadEvent
    <3> QED BY <2>3, <3>1 DEF RenewAndLoadEvent
  <2>4. ASSUME NEW f \in Event, RenewBatchNearExpiry(q, f)
        PROVE  age'[e] = age[e] /\ UNCHANGED <<claim, attempts, published>>
    <3>1. ~ Leased(q, e)
      BY <2>2
    <3> HIDE DEF Leased
    <3> QED BY <2>4, <3>1 DEF RenewBatchNearExpiry
  <2> QED BY <1>10, <2>3, <2>4
<1>11. ASSUME Tick
       PROVE  age'[e] >= age[e] /\ UNCHANGED <<claim, attempts, published>>
  <2>1. age'[e] = IF claim[e] # None /\ age[e] <= Lease THEN age[e] + 1
                  ELSE age[e]
    BY <1>11 DEF Tick
  <2> QED BY <1>1, <1>11, <2>1 DEF Tick
<1>12. ASSUME \/ \E f \in Event : Enqueue(f)
              \/ UNCHANGED vars
              \/ \E q \in Publisher :
                   \/ Connect(q) \/ BrokerStores(q) \/ Confirmed(q)
                   \/ PublishFails(q) \/ ChannelCloses(q)
       PROVE  UNCHANGED <<claim, age, attempts, published>>
  BY <1>12 DEF Enqueue, Connect, BrokerStores, Confirmed, PublishFails,
     ChannelCloses, rows, vars
<1>13. ASSUME age'[e] = age[e] PROVE age'[e] >= age[e]
  BY <1>1, <1>13
<1> QED BY <1>6, <1>7, <1>8, <1>9, <1>10, <1>11, <1>12, <1>13
        DEF Next, Step, Works, Disturbed

\* No publisher, however late its statements come, changes a row that another
\* one holds under a lease in force, or renews or shortens that lease: the claim
\* id in the WHERE clauses.
THEOREM ForeignClaimsUntouchedCorrect == Spec => ForeignClaimsUntouched
<1>1. LeaseInv /\ AttemptTypes /\ [Next]_vars =>
        [\A p \in Publisher, e \in Event :
           /\ Leased(p, e)
           /\ <<phase[p], batch[p], current[p]>>' = <<phase[p], batch[p], current[p]>>
           => /\ claim'[e] = p
              /\ age'[e] >= age[e]
              /\ attempts'[e] = attempts[e]
              /\ (e \in published') = (e \in published)]_vars
  BY ForeignClaimStep
<1> QED BY <1>1, LeaseInvCorrect, AttemptTypesCorrect, PTL
        DEF Spec, ForeignClaimsUntouched

-----------------------------------------------------------------------------
(* Prompt publishers keep their batches.                                   *)

\* After the renewal in front of an event, every other claim of the batch has
\* a whole publication of time left, and uses no more than that.
Timely ==
  \A p \in Publisher :
    /\ current[p] \notin batch[p]
    /\ phase[p] = "load" =>
         \A e \in batch[p] : age[e] <= Lease - ConfirmTimeout
    /\ phase[p] \in Sending =>
         /\ held[p] <= ConfirmTimeout
         /\ \A e \in batch[p] : age[e] <= Lease - ConfirmTimeout + held[p]

PromptInv == LeaseInv /\ BatchKeepsLeases /\ Timely

\* The end of an event or of a batch leaves the other claims as they are.
LEMMA OutcomeKeepsPromptInv ==
  ASSUME PromptInv, LeaseInv', NEW p \in Publisher, NEW claims,
         GivesUp(p, claims),
         AfterEvent(p, claims) \/ \E to \in {"down", "idle"} : EndBatch(p, to, claims)
  PROVE  PromptInv'
<1> USE DEF PromptInv, LeaseInv, LeaseTypes
<1>1. /\ \A q \in Publisher \ {p} :
             UNCHANGED <<phase[q], batch[q], current[q], held[q]>>
      /\ current'[p] = None
      /\ phase'[p] \in {"down", "idle", "next"}
      /\ \/ batch'[p] = {}
         \/ batch'[p] = batch[p] /\ claim' = claims
      /\ \A e \in Event : claim'[e] = claims[e] \/ claims[e] = p
  BY DEF AfterEvent, EndBatch, Forgotten, GivesUp
<1>2. \A q \in Publisher \ {p}, e \in Event :
        claim[e] = q => claim'[e] = q /\ age'[e] = age[e]
  BY <1>1 DEF GivesUp
<1>3. BatchKeepsLeases'
  <2> SUFFICES ASSUME NEW q \in Publisher,
                      NEW e \in batch'[q] \cup ({current'[q]} \ {None})
               PROVE  claim'[e] = q /\ age'[e] <= Lease
    BY DEF BatchKeepsLeases, Leased
  <2>1. CASE q = p
    <3>1. e \in batch[p] /\ claim' = claims
      BY <2>1, <1>1
    <3>2. e # current[p] /\ e \in Event
      BY <3>1 DEF Timely
    <3> QED BY <3>1, <3>2, <2>1 DEF GivesUp, BatchKeepsLeases, Leased
  <2>2. CASE q # p
    <3>1. e \in batch[q] \cup ({current[q]} \ {None}) /\ e \in Event
      BY <2>2, <1>1
    <3> QED BY <3>1, <2>2, <1>2 DEF BatchKeepsLeases, Leased
  <2> QED BY <2>1, <2>2
<1>4. Timely'
  <2> SUFFICES ASSUME NEW q \in Publisher
               PROVE  /\ current'[q] \notin batch'[q]
                      /\ phase'[q] = "load" =>
                           \A e \in batch'[q] : age'[e] <= Lease - ConfirmTimeout
                      /\ phase'[q] \in Sending =>
                           /\ held'[q] <= ConfirmTimeout
                           /\ \A e \in batch'[q] :
                                age'[e] <= Lease - ConfirmTimeout + held'[q]
    BY DEF Timely
  <2>1. CASE q = p
    BY <2>1, <1>1 DEF Sending
  <2>2. CASE q # p
    <3>1. \A e \in batch[q] : age'[e] = age[e]
      BY <2>2, <1>2 DEF BatchKeepsLeases, Leased
    <3> QED BY <2>2, <3>1, <1>1 DEF Timely
  <2> QED BY <2>1, <2>2
<1> QED BY <1>3, <1>4

\* The claim query takes no row of a running batch.
LEMMA ClaimKeepsPromptInv ==
  ASSUME PromptInv, LeaseInv', NEW p \in Publisher, ClaimBatch(p)
  PROVE  PromptInv'
<1> USE DEF PromptInv, LeaseInv, LeaseTypes
<1>1. PICK S \in SUBSET Event \ {{}} :
        /\ IsBatch(S)
        /\ claim' = [e \in Event |-> IF e \in S THEN p ELSE claim[e]]
        /\ age' = [e \in Event |-> IF e \in S THEN 0 ELSE age[e]]
        /\ batch' = [batch EXCEPT ![p] = S]
  BY DEF ClaimBatch
<1>2. /\ phase[p] = "idle" /\ phase' = [phase EXCEPT ![p] = "next"]
      /\ UNCHANGED <<current, held>> /\ current[p] = None
  BY DEF ClaimBatch, InHand
<1>3. \A q \in Publisher \ {p} : \A e \in batch[q] \cup ({current[q]} \ {None}) :
        e \in Event /\ e \notin S
  <2> SUFFICES ASSUME NEW q \in Publisher \ {p},
                      NEW e \in batch[q] \cup ({current[q]} \ {None})
               PROVE  e \in Event /\ e \notin S
    OBVIOUS
  <2>1. claim[e] = q /\ age[e] <= Lease /\ e \in Event
    BY DEF BatchKeepsLeases, Leased
  <2> QED BY <2>1, <1>1, BatchWasEligible DEF Eligible
<1>4. BatchKeepsLeases'
  <2> SUFFICES ASSUME NEW q \in Publisher,
                      NEW e \in batch'[q] \cup ({current'[q]} \ {None})
               PROVE  claim'[e] = q /\ age'[e] <= Lease
    BY DEF BatchKeepsLeases, Leased
  <2>1. CASE q = p
    BY <2>1, <1>1, <1>2
  <2>2. CASE q # p
    BY <2>2, <1>1, <1>2, <1>3 DEF BatchKeepsLeases, Leased
  <2> QED BY <2>1, <2>2
<1>5. Timely'
  BY <1>1, <1>2, <1>3 DEF Timely, Sending
<1> QED BY <1>4, <1>5

LEMMA RenewalsKeepPromptInv ==
  ASSUME PromptInv, LeaseInv', ConfirmTimeout <= Margin, NEW p \in Publisher,
         (\E e \in Event : RenewBatchNearExpiry(p, e)) \/ RenewAndLoadEvent(p)
  PROVE  PromptInv'
<1> USE DEF PromptInv, LeaseInv, LeaseTypes
<1>1. ASSUME NEW e \in Event, RenewBatchNearExpiry(p, e) PROVE PromptInv'
  <2>1. /\ phase[p] = "next" /\ current[p] = None /\ e \in batch[p]
        /\ phase' = [phase EXCEPT ![p] = "load"]
        /\ current' = [current EXCEPT ![p] = e]
        /\ batch' = [batch EXCEPT ![p] = @ \ {e}]
        /\ age' = [f \in Event |->
             IF f \in batch[p] /\ Leased(p, f) /\ NearExpiry(f) THEN 0 ELSE age[f]]
        /\ UNCHANGED <<claim, held>>
    BY <1>1 DEF RenewBatchNearExpiry, InHand
  <2>2. \A f \in batch[p] : age'[f] <= Lease - ConfirmTimeout
    BY <2>1 DEF NearExpiry, BatchKeepsLeases
  <2>3. \A f \in Event : age'[f] <= age[f]
    BY <2>1
  <2>4. \A q \in Publisher \ {p} : \A f \in batch[q] \cup ({current[q]} \ {None}) :
          age'[f] = age[f]
    <3> SUFFICES ASSUME NEW q \in Publisher \ {p},
                        NEW f \in batch[q] \cup ({current[q]} \ {None})
                 PROVE  age'[f] = age[f]
      OBVIOUS
    <3>1. claim[f] = q /\ f \in Event
      BY DEF BatchKeepsLeases, Leased
    <3> QED BY <3>1, <2>1 DEF Leased
  <2>5. BatchKeepsLeases'
    BY <2>1, <2>3 DEF BatchKeepsLeases, Leased
  <2>6. Timely'
    <3> SUFFICES ASSUME NEW q \in Publisher
                 PROVE  /\ current'[q] \notin batch'[q]
                        /\ phase'[q] = "load" =>
                             \A f \in batch'[q] : age'[f] <= Lease - ConfirmTimeout
                        /\ phase'[q] \in Sending =>
                             /\ held'[q] <= ConfirmTimeout
                             /\ \A f \in batch'[q] :
                                  age'[f] <= Lease - ConfirmTimeout + held'[q]
      BY DEF Timely
    <3>1. CASE q = p
      BY <3>1, <2>1, <2>2 DEF Sending
    <3>2. CASE q # p
      BY <3>2, <2>1, <2>4 DEF Timely
    <3> QED BY <3>1, <3>2
  <2> QED BY <2>5, <2>6
<1>2. ASSUME RenewAndLoadEvent(p) PROVE PromptInv'
  <2>1. /\ phase[p] = "load" /\ current[p] \in Event
        /\ claim[current[p]] = p /\ held[p] = 0
        /\ age' = [age EXCEPT ![current[p]] = 0]
        /\ UNCHANGED <<claim, batch, current, held>>
    BY <1>2 DEF RenewAndLoadEvent, InHand, Leased, Sending
  <2>2. \E to \in {"failed", "publishing", "unavailable"} :
          phase' = [phase EXCEPT ![p] = to]
    BY <1>2 DEF RenewAndLoadEvent
  <2>3. BatchKeepsLeases'
    BY <2>1 DEF BatchKeepsLeases, Leased
  <2>4. \A f \in Event : age'[f] <= age[f]
    BY <2>1
  <2>5. Timely'
    <3> SUFFICES ASSUME NEW q \in Publisher
                 PROVE  /\ current'[q] \notin batch'[q]
                        /\ phase'[q] = "load" =>
                             \A f \in batch'[q] : age'[f] <= Lease - ConfirmTimeout
                        /\ phase'[q] \in Sending =>
                             /\ held'[q] <= ConfirmTimeout
                             /\ \A f \in batch'[q] :
                                  age'[f] <= Lease - ConfirmTimeout + held'[q]
      BY DEF Timely
    <3>1. CASE q = p
      BY <3>1, <2>1, <2>2, <2>4 DEF Timely
    <3>2. CASE q # p
      <4>1. phase'[q] = phase[q]
        BY <3>2, <2>2
      <4> QED BY <3>2, <4>1, <2>1, <2>4 DEF Timely
    <3> QED BY <3>1, <3>2
  <2> QED BY <2>3, <2>5
<1> QED BY <1>1, <1>2

LEMMA PublicationKeepsPromptInv ==
  ASSUME PromptInv, LeaseInv', NEW p \in Publisher,
         Connect(p) \/ BrokerStores(p) \/ Confirmed(p) \/ PublishFails(p)
         \/ ChannelCloses(p)
  PROVE  PromptInv'
<1> USE DEF PromptInv, LeaseInv, LeaseTypes
<1>1. UNCHANGED <<claim, age, batch, current>>
  BY DEF Connect, BrokerStores, Confirmed, PublishFails, ChannelCloses, rows
<1>2. \/ UNCHANGED <<phase, held>>
      \/ phase[p] = "down" /\ phase' = [phase EXCEPT ![p] = "idle"] /\ held' = held
      \/ /\ phase[p] = "publishing" /\ phase' = [phase EXCEPT ![p] = "stored"]
         /\ held' = held
      \/ /\ \E to \in {"acked", "failed", "unavailable"} :
              phase' = [phase EXCEPT ![p] = to]
         /\ held' = [held EXCEPT ![p] = 0]
  BY DEF Connect, BrokerStores, Confirmed, PublishFails, ChannelCloses
<1>3. BatchKeepsLeases'
  BY <1>1 DEF BatchKeepsLeases, Leased
<1>4. Timely'
  BY <1>1, <1>2 DEF Timely, Sending
<1> QED BY <1>3, <1>4

\* Time passes only where nobody is between two statements, and never beyond
\* the timeout of a publication.
LEMMA TickKeepsPromptInv ==
  ASSUME PromptInv, LeaseInv', ConfirmTimeout <= Margin, PromptTick
  PROVE  PromptInv'
<1> USE DEF PromptInv, LeaseInv, LeaseTypes
<1>1. /\ UNCHANGED <<claim, phase, batch, current>>
      /\ age' = [e \in Event |->
           IF claim[e] # None /\ age[e] <= Lease THEN age[e] + 1 ELSE age[e]]
      /\ held' = [p \in Publisher |->
           IF phase[p] \in Sending /\ held[p] <= Lease THEN held[p] + 1
           ELSE held[p]]
  BY DEF PromptTick, Tick
<1>2. \A p \in Publisher :
        \/ batch[p] = {} /\ current[p] = None
        \/ phase[p] \in Sending /\ held[p] < ConfirmTimeout
  BY DEF PromptTick, InHand
<1>3. ASSUME NEW p \in Publisher, phase[p] \in Sending, held[p] < ConfirmTimeout
      PROVE  /\ held'[p] = held[p] + 1
             /\ \A e \in batch[p] :
                  age'[e] <= Lease - ConfirmTimeout + held'[p]
             /\ current[p] # None => age'[current[p]] <= Lease
  <2>1. held'[p] = held[p] + 1
    BY <1>1, <1>3
  <2>2. \A e \in batch[p] : age[e] <= Lease - ConfirmTimeout + held[p] /\ e \in Event
    BY <1>3 DEF Timely
  <2>3. \A e \in batch[p] : age'[e] <= Lease - ConfirmTimeout + held'[p]
    BY <2>1, <2>2, <1>1, <1>3
  <2>4. ASSUME current[p] # None PROVE age'[current[p]] <= Lease
    <3>1. current[p] \in Event /\ claim[current[p]] = p
      BY <2>4 DEF BatchKeepsLeases, Leased
    <3>2. age[current[p]] = held[p]
      BY <3>1, <1>3 DEF HeldSinceRenewal
    <3> QED BY <3>1, <3>2, <1>1, <1>3
  <2> QED BY <2>1, <2>3, <2>4
<1>4. BatchKeepsLeases'
  <2> SUFFICES ASSUME NEW p \in Publisher,
                      NEW e \in batch'[p] \cup ({current'[p]} \ {None})
               PROVE  claim'[e] = p /\ age'[e] <= Lease
    BY DEF BatchKeepsLeases, Leased
  <2>1. phase[p] \in Sending /\ held[p] < ConfirmTimeout
    BY <1>1, <1>2
  <2>2. claim'[e] = p
    BY <1>1 DEF BatchKeepsLeases, Leased
  <2>3. CASE e \in batch[p]
    <3>1. age'[e] <= Lease - ConfirmTimeout + held'[p] /\ held'[p] <= ConfirmTimeout
      BY <2>1, <2>3, <1>3
    <3>2. age'[e] \in Int /\ held'[p] \in Int
      BY <2>3
    <3> QED BY <2>2, <3>1, <3>2
  <2>4. CASE e = current[p] /\ e # None
    BY <2>1, <2>2, <2>4, <1>3
  <2> QED BY <2>3, <2>4, <1>1
<1>5. Timely'
  <2> SUFFICES ASSUME NEW p \in Publisher
               PROVE  /\ current'[p] \notin batch'[p]
                      /\ phase'[p] = "load" =>
                           \A e \in batch'[p] : age'[e] <= Lease - ConfirmTimeout
                      /\ phase'[p] \in Sending =>
                           /\ held'[p] <= ConfirmTimeout
                           /\ \A e \in batch'[p] :
                                age'[e] <= Lease - ConfirmTimeout + held'[p]
    BY DEF Timely
  <2>1. current'[p] \notin batch'[p]
    BY <1>1 DEF Timely
  <2>2. CASE phase[p] \in Sending
    <3>1. held[p] < ConfirmTimeout
      BY <2>2, <1>2 DEF InHand, Sending
    <3>2. held'[p] <= ConfirmTimeout
      BY <2>2, <3>1, <1>3
    <3>3. phase'[p] # "load"
      BY <2>2, <1>1 DEF Sending
    <3> QED BY <2>1, <2>2, <3>1, <3>2, <3>3, <1>1, <1>3
  <2>3. CASE phase[p] \notin Sending
    BY <2>1, <2>3, <1>1, <1>2
  <2> QED BY <2>2, <2>3
<1> QED BY <1>4, <1>5

LEMMA PromptInvStep ==
  ASSUME ConfirmTimeout <= Margin
  PROVE  PromptInv /\ LeaseInv' /\ [Step \/ PromptTick]_vars => PromptInv'
<1> SUFFICES ASSUME PromptInv, LeaseInv', [Step \/ PromptTick]_vars
             PROVE  PromptInv'
  OBVIOUS
<1>1. CASE (\E e \in Event : Enqueue(e)) \/ UNCHANGED vars
  <2>1. UNCHANGED <<claim, age, phase, batch, current, held>>
    BY <1>1 DEF Enqueue, process, vars
  <2> QED BY <2>1 DEF PromptInv, BatchKeepsLeases, Timely, Leased
<1>2. ASSUME NEW p \in Publisher,
             SkipLostClaim(p) \/ StaleOutcome(p) \/ StatementFails(p) \/ Stop(p)
      PROVE  PromptInv'
  <2>1. GivesUp(p, claim)
    BY <1>2 DEF SkipLostClaim, StaleOutcome, StatementFails, Stop, GivesUp,
                PromptInv, LeaseInv, LeaseTypes
  <2> QED BY <1>2, <2>1, OutcomeKeepsPromptInv
          DEF SkipLostClaim, StaleOutcome, StatementFails, Stop
<1>3. ASSUME NEW p \in Publisher, MarkPublished(p) \/ ReleaseWithBackoff(p)
      PROVE  PromptInv'
  <2>1. /\ Owns(p, current[p]) /\ age' = [age EXCEPT ![current[p]] = 0]
        /\ AfterEvent(p, Unclaimed(current[p]))
    BY <1>3 DEF MarkPublished, ReleaseWithBackoff
  <2>2. GivesUp(p, Unclaimed(current[p]))
    BY <2>1 DEF GivesUp, Unclaimed, Owns, PromptInv, LeaseInv, LeaseTypes
  <2> QED BY <2>1, <2>2, OutcomeKeepsPromptInv
<1>4. ASSUME NEW p \in Publisher, Works(p) \/ BrokerStores(p) \/ Disturbed(p)
      PROVE  PromptInv'
  BY <1>2, <1>3, <1>4, ClaimKeepsPromptInv, RenewalsKeepPromptInv,
     PublicationKeepsPromptInv DEF Works, Disturbed
<1>5. CASE PromptTick
  BY <1>5, TickKeepsPromptInv
<1> QED BY <1>1, <1>4, <1>5 DEF Step

\* With a renewal margin of at least the confirmation timeout, a publisher that
\* is not delayed never loses a claim of its batch, however long the batch:
\* RenewBatchNearExpiry.  config.Load does not check this relation.
THEOREM BatchKeepsLeasesCorrect ==
  ASSUME ConfirmTimeout <= Margin
  PROVE  PromptSpec => []BatchKeepsLeases
<1>1. Init => PromptInv
  BY LeaseInvInit DEF Init, PromptInv, BatchKeepsLeases, Timely, Sending
<1>2. LeaseInv /\ [Step \/ PromptTick]_vars => LeaseInv'
  BY LeaseInvStep DEF Next, PromptTick
<1>3. PromptInv /\ [Step \/ PromptTick]_vars => PromptInv'
  BY <1>2, PromptInvStep DEF PromptInv
<1>4. PromptInv => BatchKeepsLeases
  BY DEF PromptInv
<1> QED BY <1>1, <1>3, <1>4, PTL DEF PromptSpec

-----------------------------------------------------------------------------
(* The order of the rows: what is inserted and removed.                    *)

LEMMA InsertAtPlaces ==
  ASSUME NEW s \in Seq(Event), NEW i \in 1 .. Len(s) + 1, NEW e \in Event
  PROVE  /\ InsertAt(s, i, e) \in Seq(Event)
         /\ Len(InsertAt(s, i, e)) = Len(s) + 1
         /\ \A j \in 1 .. Len(s) + 1 :
              InsertAt(s, i, e)[j] =
                IF j < i THEN s[j] ELSE IF j = i THEN e ELSE s[j - 1]
<1> DEFINE a == SubSeq(s, 1, i - 1)
           b == SubSeq(s, i, Len(s))
           t == InsertAt(s, i, e)
<1>1. /\ a \in Seq(Event) /\ Len(a) = i - 1
      /\ \A j \in 1 .. i - 1 : a[j] = s[j]
  <2>1. \A j \in 1 .. i - 1 : s[j] \in Event
    BY LenProperties
  <2> QED BY <2>1, LenProperties, SubSeqProperties
<1>2. /\ b \in Seq(Event) /\ Len(b) = Len(s) - i + 1
      /\ \A j \in 1 .. Len(s) - i + 1 : b[j] = s[i + j - 1]
  <2>1. \A j \in i .. Len(s) : s[j] \in Event
    BY LenProperties
  <2> QED BY <2>1, LenProperties, SubSeqProperties
<1>3. t = a \o <<e>> \o b
  BY DEF InsertAt
<1> HIDE DEF a, b, t
<1>4. /\ t \in Seq(Event) /\ Len(t) = Len(s) + 1
      /\ \A j \in 1 .. Len(s) + 1 :
           t[j] = IF j < i THEN s[j] ELSE IF j = i THEN e ELSE s[j - 1]
  <2> DEFINE c == a \o <<e>>
  <2>1. <<e>> \in Seq(Event) /\ Len(<<e>>) = 1 /\ <<e>>[1] = e
    OBVIOUS
  <2>2. Len(s) \in Nat
    BY LenProperties
  <2>3. /\ c \in Seq(Event) /\ Len(c) = i
        /\ \A j \in 1 .. i : c[j] = IF j < i THEN s[j] ELSE e
    BY <1>1, <2>1, <2>2, ConcatProperties
  <2> HIDE DEF c
  <2>4. /\ c \o b \in Seq(Event) /\ Len(c \o b) = Len(c) + Len(b)
        /\ \A j \in 1 .. Len(c) + Len(b) :
             (c \o b)[j] = IF j <= Len(c) THEN c[j] ELSE b[j - Len(c)]
    BY <1>2, <2>3, ConcatProperties
  <2>5. t = c \o b
    BY <1>3 DEF c
  <2>6. ASSUME NEW j \in 1 .. Len(s) + 1
        PROVE  t[j] = IF j < i THEN s[j] ELSE IF j = i THEN e ELSE s[j - 1]
    <3>1. CASE j <= i
      BY <3>1, <1>2, <2>2, <2>3, <2>4, <2>5
    <3>2. CASE j > i
      <4>1. t[j] = b[j - i]
        BY <3>2, <1>2, <2>2, <2>3, <2>4, <2>5
      <4>2. b[j - i] = s[i + (j - i) - 1]
        BY <3>2, <1>2, <2>2
      <4> QED BY <3>2, <4>1, <4>2, <2>2
    <3> QED BY <3>1, <3>2, <2>2
  <2> QED BY <1>2, <2>2, <2>3, <2>4, <2>5, <2>6
<1> QED BY <1>4 DEF t

LEMMA InsertAtElements ==
  ASSUME NEW s \in Seq(Event), NEW i \in 1 .. Len(s) + 1, NEW e \in Event
  PROVE  InsertAt(s, i, e) \in Seq(Event) /\ ToSet(InsertAt(s, i, e)) = ToSet(s) \cup {e}
<1> DEFINE t == InsertAt(s, i, e)
<1>1. /\ t \in Seq(Event) /\ Len(t) = Len(s) + 1
      /\ \A j \in 1 .. Len(s) + 1 :
           t[j] = IF j < i THEN s[j] ELSE IF j = i THEN e ELSE s[j - 1]
  BY InsertAtPlaces
<1> HIDE DEF t
<1>2. DOMAIN t = 1 .. Len(s) + 1 /\ DOMAIN s = 1 .. Len(s) /\ Len(s) \in Nat
  BY <1>1, LenProperties
<1>3. ToSet(t) \subseteq ToSet(s) \cup {e}
  <2> SUFFICES ASSUME NEW j \in 1 .. Len(s) + 1
               PROVE  t[j] \in ToSet(s) \cup {e}
    BY <1>2 DEF ToSet
  <2>1. CASE j < i
    BY <2>1, <1>1, <1>2 DEF ToSet
  <2>2. CASE j = i
    BY <2>2, <1>1
  <2>3. CASE j > i
    <3>1. t[j] = s[j - 1] /\ j - 1 \in DOMAIN s
      BY <2>3, <1>1, <1>2
    <3> QED BY <3>1 DEF ToSet
  <2> QED BY <2>1, <2>2, <2>3, <1>2
<1>4. e \in ToSet(t)
  BY <1>1, <1>2 DEF ToSet
<1>5. ASSUME NEW j \in 1 .. Len(s) PROVE s[j] \in ToSet(t)
  <2>1. CASE j < i
    BY <2>1, <1>1, <1>2 DEF ToSet
  <2>2. CASE j >= i
    <3>1. t[j + 1] = s[j] /\ j + 1 \in DOMAIN t
      BY <2>2, <1>1, <1>2
    <3> QED BY <3>1 DEF ToSet
  <2> QED BY <2>1, <2>2, <1>2
<1>6. ToSet(s) \subseteq ToSet(t)
  BY <1>2, <1>5 DEF ToSet
<1>7. t \in Seq(Event) /\ ToSet(t) = ToSet(s) \cup {e}
  BY <1>1, <1>3, <1>4, <1>6
<1> QED BY <1>7 DEF t

LEMMA RemoveAtPlaces ==
  ASSUME NEW s \in Seq(Event), NEW i \in DOMAIN s
  PROVE  /\ RemoveAt(s, i) \in Seq(Event)
         /\ Len(RemoveAt(s, i)) = Len(s) - 1
         /\ \A j \in 1 .. Len(s) - 1 :
              RemoveAt(s, i)[j] = IF j < i THEN s[j] ELSE s[j + 1]
<1> DEFINE a == SubSeq(s, 1, i - 1)
           b == SubSeq(s, i + 1, Len(s))
           t == RemoveAt(s, i)
<1>0. i \in 1 .. Len(s) /\ Len(s) \in Nat /\ DOMAIN s = 1 .. Len(s)
  BY LenProperties
<1>1. /\ a \in Seq(Event) /\ Len(a) = i - 1
      /\ \A j \in 1 .. i - 1 : a[j] = s[j]
  <2>1. \A j \in 1 .. i - 1 : s[j] \in Event
    BY <1>0, LenProperties
  <2> QED BY <2>1, <1>0, SubSeqProperties
<1>2. /\ b \in Seq(Event) /\ Len(b) = Len(s) - i
      /\ \A j \in 1 .. Len(s) - i : b[j] = s[i + j]
  <2>1. \A j \in i + 1 .. Len(s) : s[j] \in Event
    BY <1>0, LenProperties
  <2> QED BY <2>1, <1>0, SubSeqProperties
<1>3. t = a \o b
  BY DEF RemoveAt
<1> HIDE DEF a, b, t
<1>4. /\ t \in Seq(Event) /\ Len(t) = Len(s) - 1
      /\ \A j \in 1 .. Len(s) - 1 : t[j] = IF j < i THEN s[j] ELSE s[j + 1]
  <2>1. /\ a \o b \in Seq(Event) /\ Len(a \o b) = Len(a) + Len(b)
        /\ \A j \in 1 .. Len(a) + Len(b) :
             (a \o b)[j] = IF j <= Len(a) THEN a[j] ELSE b[j - Len(a)]
    BY <1>1, <1>2, ConcatProperties
  <2>2. ASSUME NEW j \in 1 .. Len(s) - 1
        PROVE  t[j] = IF j < i THEN s[j] ELSE s[j + 1]
    <3>1. CASE j < i
      BY <3>1, <1>0, <1>1, <1>2, <1>3, <2>1
    <3>2. CASE j >= i
      <4>1. t[j] = b[j - (i - 1)]
        BY <3>2, <1>0, <1>1, <1>2, <1>3, <2>1
      <4>2. b[j - (i - 1)] = s[i + (j - (i - 1))]
        BY <3>2, <1>0, <1>2
      <4> QED BY <3>2, <4>1, <4>2, <1>0
    <3> QED BY <3>1, <3>2, <1>0
  <2> QED BY <1>0, <1>1, <1>2, <1>3, <2>1, <2>2
<1> QED BY <1>4 DEF t

LEMMA RemoveAtElements ==
  ASSUME NEW s \in Seq(Event), NEW i \in DOMAIN s
  PROVE  RemoveAt(s, i) \in Seq(Event) /\ ToSet(RemoveAt(s, i)) \cup {s[i]} = ToSet(s)
<1> DEFINE t == RemoveAt(s, i)
<1>1. i \in 1 .. Len(s) /\ Len(s) \in Nat /\ DOMAIN s = 1 .. Len(s)
  BY LenProperties
<1>2. /\ t \in Seq(Event) /\ Len(t) = Len(s) - 1
      /\ \A j \in 1 .. Len(s) - 1 : t[j] = IF j < i THEN s[j] ELSE s[j + 1]
  BY RemoveAtPlaces
<1> HIDE DEF t
<1>3. DOMAIN t = 1 .. Len(s) - 1
  BY <1>2, LenProperties
<1>4. ToSet(t) \subseteq ToSet(s)
  BY <1>1, <1>2, <1>3 DEF ToSet
<1>5. ASSUME NEW j \in 1 .. Len(s), j # i PROVE s[j] \in ToSet(t)
  <2>1. CASE j < i
    BY <2>1, <1>1, <1>2, <1>3 DEF ToSet
  <2>2. CASE j > i
    <3>1. t[j - 1] = s[j] /\ j - 1 \in DOMAIN t
      BY <2>2, <1>1, <1>2, <1>3
    <3> QED BY <3>1 DEF ToSet
  <2> QED BY <2>1, <2>2, <1>5, <1>1
<1>6. ToSet(s) \subseteq ToSet(t) \cup {s[i]}
  BY <1>1, <1>5 DEF ToSet
<1>7. s[i] \in ToSet(s)
  BY DEF ToSet
<1>8. t \in Seq(Event) /\ ToSet(t) \cup {s[i]} = ToSet(s)
  BY <1>2, <1>4, <1>6, <1>7
<1> QED BY <1>8 DEF t

LEMMA PlacedElements ==
  ASSUME NEW s \in Seq(Event), NEW e \in Event, NEW w, NEW t \in Placements(s, e, w)
  PROVE  t \in Seq(Event) /\ ToSet(t) = ToSet(s) \cup {e}
BY InsertAtElements DEF Placements

LEMMA RemovedElements ==
  ASSUME NEW s \in Seq(Event), NEW e, NEW t \in Removals(s, e)
  PROVE  t \in Seq(Event) /\ ToSet(t) \cup {e} = ToSet(s)
BY RemoveAtElements DEF Removals

-----------------------------------------------------------------------------
(* What the outbox delivers.                                               *)

\* Publishers work on committed events, and what they hold as stored is.
InHandCommitted ==
  \A p \in Publisher :
    /\ batch[p] \subseteq Committed
    /\ current[p] # None => current[p] \in Committed
    /\ phase[p] \in {"stored", "acked"} => current[p] \in accepted

DeliveryInv == line \in Seq(Event) /\ published \subseteq Event /\ InHandCommitted

\* The effect of a step on what is committed, delivered and settled.
StepDelivers ==
  /\ line' \in Seq(Event) /\ published' \subseteq Event
  /\ Committed \subseteq Committed' /\ accepted \subseteq accepted'
  /\ [Promise!Next]_(Promise!vars)

LEMMA UnchangedDelivers ==
  ASSUME DeliveryInv, UNCHANGED <<line, published, accepted>>
  PROVE  StepDelivers
BY DEF DeliveryInv, StepDelivers, Committed, Promise!vars

LEMMA EnqueueDelivers ==
  ASSUME DeliveryInv, NEW e \in Event, Enqueue(e)
  PROVE  StepDelivers
<1>1. line' \in Seq(Event) /\ ToSet(line') = ToSet(line) \cup {e}
  BY PlacedElements DEF Enqueue, DeliveryInv
<1>2. UNCHANGED <<published, accepted>> /\ e \notin Committed
  BY DEF Enqueue
<1>3. Committed' = Committed \cup {e}
  BY <1>1, <1>2 DEF Committed
<1>4. Promise!Commit(e)
  BY <1>2, <1>3 DEF Promise!Commit
<1> QED BY <1>1, <1>2, <1>3, <1>4 DEF StepDelivers, DeliveryInv, Promise!Next

LEMMA BrokerStoresDelivers ==
  ASSUME LeaseInv, DeliveryInv, NEW p \in Publisher, BrokerStores(p)
  PROVE  StepDelivers
<1>1. current[p] \in Event /\ current[p] \in Committed
  BY DEF BrokerStores, LeaseInv, LeaseTypes, InHand, DeliveryInv, InHandCommitted
<1>2. UNCHANGED <<line, published>> /\ accepted' = accepted \cup {current[p]}
  BY DEF BrokerStores, rows
<1>3. Committed' = Committed
  BY <1>2 DEF Committed
<1>4. Promise!Deliver(current[p])
  BY <1>1, <1>2, <1>3 DEF Promise!Deliver
<1> QED BY <1>1, <1>2, <1>3, <1>4 DEF StepDelivers, DeliveryInv, Promise!Next

LEMMA MarkPublishedDelivers ==
  ASSUME LeaseInv, DeliveryInv, NEW p \in Publisher, MarkPublished(p)
  PROVE  StepDelivers
<1> DEFINE e == current[p]
<1>1. e \in Event /\ e \in accepted
  BY DEF MarkPublished, LeaseInv, LeaseTypes, InHand, DeliveryInv, InHandCommitted
<1>2. /\ published' = published \cup {e} /\ accepted' = accepted
      /\ line' \in Removals(line, e)
  BY DEF MarkPublished
<1>3. line' \in Seq(Event) /\ ToSet(line') \cup {e} = ToSet(line)
  BY <1>2, RemovedElements DEF DeliveryInv
<1>4. Committed' = Committed
  BY <1>2, <1>3 DEF Committed
<1> HIDE DEF e
<1>5. CASE e \in published
  BY <1>1, <1>2, <1>3, <1>4, <1>5 DEF StepDelivers, DeliveryInv, Promise!vars
<1>6. CASE e \notin published
  <2>1. Promise!Settle(e)
    BY <1>1, <1>2, <1>4, <1>6 DEF Promise!Settle
  <2> QED BY <2>1, <1>1, <1>2, <1>3, <1>4 DEF StepDelivers, DeliveryInv, Promise!Next
<1> QED BY <1>5, <1>6

LEMMA ReleaseDelivers ==
  ASSUME LeaseInv, DeliveryInv, NEW p \in Publisher, ReleaseWithBackoff(p)
  PROVE  StepDelivers
<1> DEFINE e == current[p]
<1>1. e \in Event
  BY DEF ReleaseWithBackoff, LeaseInv, LeaseTypes, InHand
<1>2. UNCHANGED <<published, accepted>>
  BY DEF ReleaseWithBackoff
<1>3. PICK rest \in Removals(line, e) : line' \in Placements(rest, e, Backoff(e))
  BY DEF ReleaseWithBackoff
<1>4. rest \in Seq(Event) /\ ToSet(rest) \cup {e} = ToSet(line)
  BY <1>3, RemovedElements DEF DeliveryInv
<1>5. line' \in Seq(Event) /\ ToSet(line') = ToSet(rest) \cup {e}
  BY <1>1, <1>3, <1>4, PlacedElements
<1>6. Committed' = Committed
  BY <1>2, <1>4, <1>5 DEF Committed
<1> QED BY <1>2, <1>5, <1>6 DEF StepDelivers, DeliveryInv, Promise!vars

LEMMA NextDelivers ==
  ASSUME LeaseInv, DeliveryInv, [Next]_vars
  PROVE  StepDelivers
<1>1. CASE Tick \/ UNCHANGED vars
  BY <1>1, UnchangedDelivers DEF Tick, vars
<1>2. ASSUME NEW p \in Publisher, Works(p) \/ BrokerStores(p) \/ Disturbed(p)
      PROVE  StepDelivers
  <2>1. CASE BrokerStores(p)
    BY <2>1, BrokerStoresDelivers
  <2>2. CASE MarkPublished(p)
    BY <2>2, MarkPublishedDelivers
  <2>3. CASE ReleaseWithBackoff(p)
    BY <2>3, ReleaseDelivers
  <2>4. CASE UNCHANGED <<line, published, accepted>>
    BY <2>4, UnchangedDelivers
  <2>5. CASE Connect(p) \/ ClaimBatch(p) \/ Confirmed(p) \/ PublishFails(p)
             \/ RenewAndLoadEvent(p) \/ SkipLostClaim(p) \/ StaleOutcome(p)
             \/ \E e \in Event : RenewBatchNearExpiry(p, e)
    BY <2>4, <2>5 DEF Connect, ClaimBatch, Confirmed, PublishFails, rows,
       RenewAndLoadEvent, SkipLostClaim, StaleOutcome, RenewBatchNearExpiry
  <2>6. CASE Disturbed(p)
    BY <2>4, <2>6 DEF Disturbed, StatementFails, Stop, ChannelCloses, rows
  <2> QED BY <1>2, <2>1, <2>2, <2>3, <2>5, <2>6 DEF Works
<1> QED BY <1>1, <1>2, EnqueueDelivers DEF Next, Step

\* A claimed batch consists of committed rows.
LEMMA ClaimedCommitted ==
  ASSUME NEW S \in SUBSET Event, IsBatch(S)
  PROVE  S \subseteq Committed
BY DEF IsBatch, Committed, ToSet

LEMMA DeliveryInvStep == LeaseInv /\ DeliveryInv /\ [Next]_vars => DeliveryInv'
<1> SUFFICES ASSUME LeaseInv, DeliveryInv, [Next]_vars PROVE DeliveryInv'
  OBVIOUS
<1> USE DEF LeaseInv, LeaseTypes
<1>1. StepDelivers
  BY NextDelivers
<1>2. Committed \subseteq Committed' /\ accepted \subseteq accepted'
  BY <1>1 DEF StepDelivers
<1>3. ASSUME UNCHANGED <<phase, batch, current>> PROVE InHandCommitted'
  BY <1>2, <1>3 DEF DeliveryInv, InHandCommitted
<1>4. ASSUME NEW p \in Publisher, ClaimBatch(p) PROVE InHandCommitted'
  <2>1. PICK S \in SUBSET Event \ {{}} :
          IsBatch(S) /\ batch' = [batch EXCEPT ![p] = S]
    BY <1>4 DEF ClaimBatch
  <2>2. S \subseteq Committed
    BY <2>1, ClaimedCommitted
  <2>3. phase' = [phase EXCEPT ![p] = "next"] /\ UNCHANGED current
    BY <1>4 DEF ClaimBatch
  <2> QED BY <2>1, <2>2, <2>3, <1>2 DEF DeliveryInv, InHandCommitted
<1>5. ASSUME NEW p \in Publisher, NEW e \in Event, RenewBatchNearExpiry(p, e)
      PROVE  InHandCommitted'
  <2>1. /\ e \in batch[p] /\ phase' = [phase EXCEPT ![p] = "load"]
        /\ current' = [current EXCEPT ![p] = e]
        /\ batch' = [batch EXCEPT ![p] = @ \ {e}]
    BY <1>5 DEF RenewBatchNearExpiry
  <2> QED BY <2>1, <1>2 DEF DeliveryInv, InHandCommitted
<1>6. ASSUME NEW p \in Publisher,
             Connect(p) \/ RenewAndLoadEvent(p) \/ PublishFails(p) \/ Confirmed(p)
      PROVE  InHandCommitted'
  <2>1. UNCHANGED <<batch, current>>
    BY <1>6 DEF Connect, RenewAndLoadEvent, PublishFails, Confirmed
  <2>2. \E to \in {"idle", "failed", "publishing", "unavailable", "acked"} :
          /\ phase' = [phase EXCEPT ![p] = to]
          /\ to = "acked" => phase[p] = "stored"
    BY <1>6 DEF Connect, RenewAndLoadEvent, PublishFails, Confirmed, AfterConfirm
  <2> QED BY <2>1, <2>2, <1>2 DEF DeliveryInv, InHandCommitted
<1>7. ASSUME NEW p \in Publisher, BrokerStores(p) PROVE InHandCommitted'
  <2>1. /\ UNCHANGED <<batch, current>> /\ phase' = [phase EXCEPT ![p] = "stored"]
        /\ accepted' = accepted \cup {current[p]}
    BY <1>7 DEF BrokerStores
  <2> QED BY <2>1, <1>2 DEF DeliveryInv, InHandCommitted
<1>8. ASSUME NEW p \in Publisher, NEW to \in {"down", "idle"}, NEW claims,
             EndBatch(p, to, claims)
      PROVE  InHandCommitted'
  <2>1. /\ phase' = [phase EXCEPT ![p] = to] /\ batch' = [batch EXCEPT ![p] = {}]
        /\ current' = [current EXCEPT ![p] = None]
    BY <1>8 DEF EndBatch
  <2> QED BY <2>1, <1>2 DEF DeliveryInv, InHandCommitted
<1>9. ASSUME NEW p \in Publisher, NEW claims, AfterEvent(p, claims)
      PROVE  InHandCommitted'
  <2>1. CASE /\ phase' = [phase EXCEPT ![p] = "next"] /\ UNCHANGED batch
             /\ current' = [current EXCEPT ![p] = None]
    BY <2>1, <1>2 DEF DeliveryInv, InHandCommitted
  <2> QED BY <1>8, <1>9, <2>1 DEF AfterEvent
<1>10. ASSUME NEW p \in Publisher, Works(p) \/ BrokerStores(p) \/ Disturbed(p)
       PROVE  InHandCommitted'
  <2>1. CASE Works(p)
    BY <2>1, <1>4, <1>5, <1>6, <1>9
       DEF Works, SkipLostClaim, MarkPublished, ReleaseWithBackoff, StaleOutcome
  <2>2. CASE Disturbed(p)
    BY <2>2, <1>3, <1>8 DEF Disturbed, StatementFails, Stop, ChannelCloses
  <2> QED BY <1>10, <2>1, <2>2, <1>7
<1>11. ASSUME Tick \/ (\E e \in Event : Enqueue(e)) \/ UNCHANGED vars
       PROVE  InHandCommitted'
  <2>1. UNCHANGED <<phase, batch, current>>
    BY <1>11 DEF Tick, Enqueue, process, vars
  <2> QED BY <2>1, <1>3
<1>12. InHandCommitted'
  BY <1>10, <1>11 DEF Next, Step
<1> QED BY <1>1, <1>12 DEF DeliveryInv, StepDelivers

\* Every step of the publishers, whatever fails or stops, is a step of Delivery:
\* committed, then stored by the broker, then marked published.
THEOREM ImplementsDeliveryCorrect == Spec => ImplementsDelivery
<1>1. Init => Promise!Init
  BY DEF Init, Promise!Init, Committed, ToSet
<1>2. Init => DeliveryInv
  BY DEF Init, DeliveryInv, InHandCommitted
<1>3. LeaseInv /\ DeliveryInv /\ [Next]_vars => [Promise!Next]_(Promise!vars)
  BY NextDelivers DEF StepDelivers
<1> QED BY <1>1, <1>2, <1>3, LeaseInvCorrect, DeliveryInvStep, PTL
        DEF Spec, ImplementsDelivery, Promise!Spec

-----------------------------------------------------------------------------
(* The rows stand in the order in which they fall due, each once.          *)

\* A sequence of rows, given when each is due.
Ordered(s, due) ==
  \A i, j \in DOMAIN s : i < j => s[i] # s[j] /\ due[s[i]] <= due[s[j]]

\* A new row in one of its placements keeps the order of the others.
LEMMA PlacedOrdered ==
  ASSUME NEW s \in Seq(Event), NEW e \in Event, e \notin ToSet(s), NEW w \in Nat,
         wait \in [Event -> Nat], Ordered(s, wait),
         NEW due \in [Event -> Nat], due[e] = w,
         \A f \in Event \ {e} : due[f] = wait[f],
         NEW t \in Placements(s, e, w)
  PROVE  Ordered(t, due)
<1>1. PICK i \in 1 .. Len(s) + 1 :
        /\ t = InsertAt(s, i, e)
        /\ \A j \in DOMAIN s : IF j < i THEN wait[s[j]] <= w ELSE wait[s[j]] >= w
  BY DEF Placements
<1>2. /\ t \in Seq(Event) /\ Len(t) = Len(s) + 1
      /\ \A j \in 1 .. Len(s) + 1 :
           t[j] = IF j < i THEN s[j] ELSE IF j = i THEN e ELSE s[j - 1]
  <2>1. i \in 1 .. Len(s) + 1
    BY <1>1
  <2>2. InsertAt(s, i, e) \in Seq(Event)
    BY <2>1, InsertAtPlaces
  <2>3. Len(InsertAt(s, i, e)) = Len(s) + 1
    BY <2>1, InsertAtPlaces
  <2>4. \A j \in 1 .. Len(s) + 1 :
             InsertAt(s, i, e)[j] =
               IF j < i THEN s[j] ELSE IF j = i THEN e ELSE s[j - 1]
    BY <2>1, InsertAtPlaces
  <2> QED BY <2>2, <2>3, <2>4, <1>1
<1>3. DOMAIN t = 1 .. Len(s) + 1 /\ DOMAIN s = 1 .. Len(s) /\ Len(s) \in Nat
  BY <1>2, LenProperties
<1>4. \A j \in DOMAIN s : s[j] \in Event \ {e} /\ due[s[j]] = wait[s[j]]
  BY <1>3, LenProperties DEF ToSet
<1> DEFINE At(j) == IF j < i THEN j ELSE j - 1
<1>5. ASSUME NEW j \in DOMAIN t, j # i
      PROVE  At(j) \in DOMAIN s /\ t[j] = s[At(j)]
  <2>1. At(j) \in DOMAIN s
    BY <1>3, <1>5
  <2>2. t[j] = IF j < i THEN s[j] ELSE s[j - 1]
    BY <1>2, <1>3, <1>5
  <2> QED BY <2>1, <2>2
<1>6. SUFFICES ASSUME NEW j \in DOMAIN t, NEW k \in DOMAIN t, j < k
               PROVE  t[j] # t[k] /\ due[t[j]] <= due[t[k]]
  BY DEF Ordered
<1>7. CASE j # i /\ k # i
  <2>1. At(j) \in DOMAIN s /\ At(k) \in DOMAIN s /\ t[j] = s[At(j)] /\ t[k] = s[At(k)]
    BY <1>5, <1>7
  <2>2. At(j) < At(k)
    BY <1>3, <1>6, <1>7
  <2> HIDE DEF At
  <2>3. s[At(j)] # s[At(k)] /\ wait[s[At(j)]] <= wait[s[At(k)]]
    BY <2>1, <2>2 DEF Ordered
  <2> QED BY <2>1, <2>3, <1>4
<1>8. CASE j = i
  <2>1. t[j] = e /\ At(k) \in DOMAIN s /\ t[k] = s[At(k)]
    <3>1. k # i
      BY <1>3, <1>6, <1>8
    <3> QED BY <3>1, <1>2, <1>3, <1>5, <1>8
  <2>2. ~(At(k) < i)
    BY <1>3, <1>6, <1>8
  <2> HIDE DEF At
  <2>3. wait[s[At(k)]] >= w
    BY <2>1, <2>2, <1>1
  <2>4. due[s[At(k)]] = wait[s[At(k)]] /\ s[At(k)] \in Event \ {e}
    BY <2>1, <1>4
  <2>5. wait[s[At(k)]] \in Nat
    BY <2>4
  <2> QED BY <2>1, <2>3, <2>4, <2>5
<1>9. CASE k = i
  <2>1. t[k] = e /\ At(j) \in DOMAIN s /\ t[j] = s[At(j)] /\ At(j) < i
    BY <1>2, <1>3, <1>5, <1>6, <1>9
  <2> HIDE DEF At
  <2>2. wait[s[At(j)]] <= w
    BY <2>1, <1>1
  <2>3. due[s[At(j)]] = wait[s[At(j)]] /\ s[At(j)] \in Event \ {e}
    BY <2>1, <1>4
  <2> QED BY <2>1, <2>2, <2>3
<1> QED BY <1>7, <1>8, <1>9

\* Removing a row keeps the order, and no second row of the event is left.
LEMMA RemovedOrdered ==
  ASSUME NEW s \in Seq(Event), NEW e \in Event, Ordered(s, wait),
         NEW t \in Removals(s, e)
  PROVE  t \in Seq(Event) /\ Ordered(t, wait) /\ e \notin ToSet(t)
<1>1. PICK i \in DOMAIN s : s[i] = e /\ t = RemoveAt(s, i)
  BY DEF Removals
<1>2. /\ t \in Seq(Event) /\ Len(t) = Len(s) - 1
      /\ \A j \in 1 .. Len(s) - 1 : t[j] = IF j < i THEN s[j] ELSE s[j + 1]
  BY <1>1, RemoveAtPlaces
<1>3. /\ DOMAIN t = 1 .. Len(s) - 1 /\ DOMAIN s = 1 .. Len(s)
      /\ Len(s) \in Nat /\ i \in 1 .. Len(s)
  BY <1>1, <1>2, LenProperties
<1> DEFINE At(j) == IF j < i THEN j ELSE j + 1
<1>4. ASSUME NEW j \in DOMAIN t
      PROVE  At(j) \in DOMAIN s /\ At(j) # i /\ t[j] = s[At(j)]
  <2>1. At(j) \in DOMAIN s /\ At(j) # i
    BY <1>3
  <2>2. t[j] = IF j < i THEN s[j] ELSE s[j + 1]
    BY <1>2, <1>3
  <2> QED BY <2>1, <2>2
<1>5. ASSUME NEW j \in DOMAIN t, NEW k \in DOMAIN t, j < k
      PROVE  t[j] # t[k] /\ wait[t[j]] <= wait[t[k]]
  <2>1. At(j) < At(k)
    BY <1>3, <1>5
  <2>2. At(j) \in DOMAIN s /\ At(k) \in DOMAIN s /\ t[j] = s[At(j)] /\ t[k] = s[At(k)]
    BY <1>4
  <2> HIDE DEF At
  <2> QED BY <2>1, <2>2 DEF Ordered
<1>6. ASSUME NEW j \in DOMAIN t PROVE t[j] # e
  <2>1. At(j) \in DOMAIN s /\ At(j) # i /\ t[j] = s[At(j)]
    BY <1>4
  <2>2. At(j) < i \/ i < At(j)
    BY <2>1, <1>3
  <2> HIDE DEF At
  <2> QED BY <2>1, <2>2, <1>1 DEF Ordered
<1>7. Ordered(t, wait) /\ e \notin ToSet(t)
  BY <1>5, <1>6 DEF Ordered, ToSet
<1> QED BY <1>2, <1>7

\* The back-off is longest at the cap: sets of k members have 2 ^ k subsets.
LEMMA BackoffBounded ==
  ASSUME NEW k \in 0 .. BackoffCap
  PROVE  2 ^ k \in 0 .. 2 ^ BackoffCap
<1>1. ASSUME NEW n \in Nat
      PROVE  IsFiniteSet(SUBSET (1 .. n)) /\ Cardinality(SUBSET (1 .. n)) = 2 ^ n
  <2>1. IsFiniteSet(1 .. n) /\ Cardinality(1 .. n) = n
    BY FS_Interval
  <2> QED BY <2>1, FS_SUBSET
<1>2. k \in Nat /\ BackoffCap \in Nat /\ 1 .. k \subseteq 1 .. BackoffCap
  OBVIOUS
<1>3. /\ 2 ^ k = Cardinality(SUBSET (1 .. k))
      /\ 2 ^ BackoffCap = Cardinality(SUBSET (1 .. BackoffCap))
  BY <1>1, <1>2
<1>4. /\ Cardinality(SUBSET (1 .. k)) \in Nat
      /\ Cardinality(SUBSET (1 .. BackoffCap)) \in Nat
  BY <1>1, <1>2, FS_CardinalityType
<1>5. Cardinality(SUBSET (1 .. k)) <= Cardinality(SUBSET (1 .. BackoffCap))
  <2>1. SUBSET (1 .. k) \in SUBSET (SUBSET (1 .. BackoffCap))
    BY <1>2
  <2> QED BY <2>1, <1>1, <1>2, FS_Subset
<1> QED BY <1>3, <1>4, <1>5

\* What TypeOK says of the rows and of what no lease argument speaks of; a row
\* that is still to be written has never been backed off.
RowInv ==
  /\ Ordered(line, wait)
  /\ wait \in [Event -> 0 .. 2 ^ BackoffCap]
  /\ \A e \in Event \ Committed : wait[e] = 0
  /\ channel \in [Publisher -> BOOLEAN]
  /\ accepted \subseteq Event

LEMMA WaitTypes ==
  ASSUME RowInv
  PROVE  wait \in [Event -> Nat] /\ 2 ^ BackoffCap \in Nat
<1>1. 2 ^ BackoffCap \in 0 .. 2 ^ BackoffCap
  BY BackoffBounded
<1>2. 2 ^ BackoffCap \in Nat
  BY <1>1
<1> QED BY <1>2 DEF RowInv

LEMMA EnqueueKeepsRows ==
  ASSUME DeliveryInv, RowInv, NEW e \in Event, Enqueue(e)
  PROVE  RowInv'
<1>1. /\ UNCHANGED <<wait, published, channel, accepted>> /\ e \notin Committed
      /\ line' \in Placements(line, e, 0)
  BY DEF Enqueue, process
<1>2. e \notin ToSet(line) /\ wait[e] = 0
  BY <1>1 DEF RowInv, Committed
<1>3. wait \in [Event -> Nat] /\ line \in Seq(Event) /\ Ordered(line, wait)
  BY WaitTypes DEF DeliveryInv, RowInv
<1>4. Ordered(line', wait)
  BY <1>1, <1>2, <1>3, PlacedOrdered
<1>5. Committed \subseteq Committed'
  BY EnqueueDelivers DEF StepDelivers
<1> QED BY <1>1, <1>4, <1>5 DEF RowInv

LEMMA MarkPublishedKeepsRows ==
  ASSUME LeaseInv, DeliveryInv, RowInv, NEW p \in Publisher, MarkPublished(p)
  PROVE  Ordered(line', wait')
<1>1. current[p] \in Event
  BY DEF MarkPublished, LeaseInv, LeaseTypes, InHand
<1>2. line' \in Removals(line, current[p]) /\ wait' = wait
  BY DEF MarkPublished
<1> QED BY <1>1, <1>2, RemovedOrdered DEF DeliveryInv, RowInv

LEMMA ReleaseKeepsRows ==
  ASSUME LeaseInv, AttemptTypes, DeliveryInv, RowInv,
         NEW p \in Publisher, ReleaseWithBackoff(p)
  PROVE  /\ Ordered(line', wait')
         /\ wait' \in [Event -> 0 .. 2 ^ BackoffCap]
         /\ \A f \in Event \ Committed : wait'[f] = wait[f]
<1> DEFINE e == current[p]
           w == 2 ^ attempts[e]
<1>1. e \in Event /\ e \in Committed
  BY DEF ReleaseWithBackoff, LeaseInv, LeaseTypes, InHand, DeliveryInv, InHandCommitted
<1>2. /\ wait' = [wait EXCEPT ![e] = w]
      /\ \E rest \in Removals(line, e) : line' \in Placements(rest, e, w)
  BY DEF ReleaseWithBackoff, Backoff
<1>3. w \in 0 .. 2 ^ BackoffCap
  BY <1>1, BackoffBounded DEF AttemptTypes
<1>4. wait \in [Event -> Nat] /\ 2 ^ BackoffCap \in Nat
  BY WaitTypes
<1> HIDE DEF e, w
<1>5. w \in Nat
  BY <1>3, <1>4
<1>6. PICK rest \in Removals(line, e) : line' \in Placements(rest, e, w)
  BY <1>2
<1>7. rest \in Seq(Event) /\ Ordered(rest, wait) /\ e \notin ToSet(rest)
  BY <1>1, <1>6, RemovedOrdered DEF DeliveryInv, RowInv
<1>8. /\ wait' \in [Event -> Nat] /\ wait'[e] = w
      /\ \A f \in Event \ {e} : wait'[f] = wait[f]
  BY <1>1, <1>2, <1>4, <1>5
<1>9. e \in Event \ ToSet(rest)
  BY <1>1, <1>7
<1>10. Ordered(line', wait')
  BY <1>4, <1>5, <1>6, <1>7, <1>8, <1>9, PlacedOrdered
<1>11. wait' \in [Event -> 0 .. 2 ^ BackoffCap]
  BY <1>1, <1>2, <1>3 DEF RowInv
<1> QED BY <1>1, <1>8, <1>10, <1>11

LEMMA TickKeepsRows ==
  ASSUME DeliveryInv, RowInv, Tick
  PROVE  RowInv'
<1>1. /\ UNCHANGED <<line, published, channel, accepted>>
      /\ wait' = [e \in Event |-> IF wait[e] > 0 THEN wait[e] - 1 ELSE 0]
  BY DEF Tick
<1>2. wait \in [Event -> Nat] /\ 2 ^ BackoffCap \in Nat
  BY WaitTypes
<1>3. \A e \in Event : wait[e] \in Nat /\ wait[e] <= 2 ^ BackoffCap
  BY <1>2 DEF RowInv
<1> DEFINE Cap == 2 ^ BackoffCap
<1>4. wait' \in [Event -> 0 .. Cap]
  <2>1. Cap \in Nat /\ \A e \in Event : wait[e] \in Nat /\ wait[e] <= Cap
    BY <1>2, <1>3
  <2> HIDE DEF Cap
  <2>2. \A e \in Event : (IF wait[e] > 0 THEN wait[e] - 1 ELSE 0) \in 0 .. Cap
    BY <2>1
  <2> QED BY <2>2, <1>1
<1> HIDE DEF Cap
<1>5. \A j \in DOMAIN line : line[j] \in Event
  BY LenProperties DEF DeliveryInv
<1>6. Ordered(line', wait')
  BY <1>1, <1>2, <1>5 DEF Ordered, RowInv
<1>7. \A e \in Event \ Committed' : wait'[e] = 0
  BY <1>1, <1>2 DEF Committed, RowInv
<1> QED BY <1>1, <1>4, <1>6, <1>7 DEF RowInv, Cap

LEMMA RowInvStep ==
  LeaseInv /\ AttemptTypes /\ DeliveryInv /\ RowInv /\ [Next]_vars => RowInv'
<1> SUFFICES ASSUME LeaseInv, AttemptTypes, DeliveryInv, RowInv, [Next]_vars
             PROVE  RowInv'
  OBVIOUS
<1>1. ASSUME NEW p \in Publisher, Works(p) \/ BrokerStores(p) \/ Disturbed(p)
      PROVE  RowInv'
  <2>1. channel' \in [Publisher -> BOOLEAN]
    <3>1. ASSUME NEW to, NEW claims, EndBatch(p, to, claims)
          PROVE  channel' \in [Publisher -> BOOLEAN]
      BY <3>1 DEF EndBatch, RowInv
    <3>2. ASSUME NEW claims, AfterEvent(p, claims)
          PROVE  channel' \in [Publisher -> BOOLEAN]
      BY <3>1, <3>2 DEF AfterEvent, RowInv
    <3>3. CASE Connect(p) \/ ChannelCloses(p)
      BY <3>3 DEF Connect, ChannelCloses, RowInv
    <3>4. CASE SkipLostClaim(p) \/ MarkPublished(p) \/ ReleaseWithBackoff(p)
               \/ StaleOutcome(p)
      BY <3>2, <3>4 DEF SkipLostClaim, MarkPublished, ReleaseWithBackoff, StaleOutcome
    <3>5. CASE StatementFails(p) \/ Stop(p)
      BY <3>1, <3>5 DEF StatementFails, Stop
    <3>6. CASE ClaimBatch(p) \/ RenewAndLoadEvent(p) \/ Confirmed(p)
               \/ PublishFails(p) \/ BrokerStores(p)
               \/ \E e \in Event : RenewBatchNearExpiry(p, e)
      BY <3>6 DEF ClaimBatch, RenewAndLoadEvent, Confirmed, PublishFails,
         BrokerStores, RenewBatchNearExpiry, RowInv
    <3> QED BY <1>1, <3>3, <3>4, <3>5, <3>6 DEF Works, Disturbed
  <2>2. accepted' \subseteq Event
    <3>1. CASE BrokerStores(p)
      BY <3>1 DEF BrokerStores, LeaseInv, LeaseTypes, InHand, RowInv
    <3>2. CASE ~BrokerStores(p)
      BY <1>1, <3>2 DEF Works, Disturbed, Connect, ClaimBatch, RenewBatchNearExpiry,
         RenewAndLoadEvent, SkipLostClaim, Confirmed, PublishFails, MarkPublished,
         ReleaseWithBackoff, StaleOutcome, StatementFails, Stop, ChannelCloses, RowInv
    <3> QED BY <3>1, <3>2
  <2>3. Committed \subseteq Committed'
    BY <1>1, NextDelivers DEF StepDelivers, Next, Step
  <2>4. /\ Ordered(line', wait') /\ wait' \in [Event -> 0 .. 2 ^ BackoffCap]
        /\ \A e \in Event \ Committed : wait'[e] = wait[e]
    <3>1. CASE MarkPublished(p)
      BY <3>1, MarkPublishedKeepsRows DEF MarkPublished, RowInv
    <3>2. CASE ReleaseWithBackoff(p)
      BY <3>2, ReleaseKeepsRows
    <3>3. CASE ~MarkPublished(p) /\ ~ReleaseWithBackoff(p)
      <4>1. UNCHANGED <<line, wait>>
        BY <1>1, <3>3 DEF Works, Disturbed, Connect, ClaimBatch, RenewBatchNearExpiry,
           RenewAndLoadEvent, SkipLostClaim, Confirmed, PublishFails, BrokerStores,
           StaleOutcome, StatementFails, Stop, ChannelCloses, rows
      <4> QED BY <4>1 DEF RowInv
    <3> QED BY <3>1, <3>2, <3>3
  <2>5. \A e \in Event \ Committed' : wait'[e] = 0
    BY <2>3, <2>4 DEF RowInv
  <2> QED BY <2>1, <2>2, <2>4, <2>5 DEF RowInv
<1>2. CASE UNCHANGED vars
  BY <1>2 DEF vars, RowInv, Ordered, Committed
<1> QED BY <1>1, <1>2, EnqueueKeepsRows, TickKeepsRows DEF Next, Step

\* Every statement leaves rows the schema allows, in the order of the claim
\* query: Enqueue, MarkPublished and ReleaseWithBackoff move one row each, and
\* no back-off exceeds that of the cap.
THEOREM TypeCorrect == Spec => []TypeOK
<1>1. Init => AttemptTypes /\ DeliveryInv /\ RowInv
  <2>1. 0 \in 0 .. 2 ^ BackoffCap
    <3>1. 2 ^ BackoffCap \in 0 .. 2 ^ BackoffCap
      BY BackoffBounded
    <3> QED BY <3>1
  <2> QED BY <2>1 DEF Init, AttemptTypes, DeliveryInv, InHandCommitted, RowInv,
                      Ordered
<1>2. LeaseInv /\ AttemptTypes /\ DeliveryInv /\ RowInv => TypeOK
  BY DEF LeaseInv, LeaseTypes, AttemptTypes, DeliveryInv, RowInv, Ordered, TypeOK
<1> QED BY <1>1, <1>2, LeaseInvCorrect, AttemptTypesCorrect, DeliveryInvStep,
           RowInvStep, PTL DEF Spec
=============================================================================
