------------------------------- MODULE Outbox -------------------------------
(***************************************************************************)
(* packages/outbox, the publishing half of packages/messaging and the loop *)
(* of apps/workers/general-worker: rows of outbox_events, the leases that  *)
(* publishers take on them, and publishers that may be slow, fail, stop    *)
(* and lose their channel between any two statements.                      *)
(*                                                                         *)
(* A statement is one action.  Durations are whole ticks and clocks are    *)
(* relative: how long ago a row was claimed, how long until it is due.     *)
(***************************************************************************)
EXTENDS Integers, Sequences, FiniteSets, SequencesExt

CONSTANTS
  Event,           \* outbox_events.event_id
  Malformed,       \* events whose envelope or routing key cannot be resolved
  Publisher,       \* general-worker processes
  Lease,           \* OUTBOX_CLAIM_LEASE_DURATION
  Margin,          \* OUTBOX_CLAIM_RENEWAL_MARGIN
  ConfirmTimeout,  \* RABBITMQ_PUBLISH_CONFIRM_TIMEOUT
  BatchSize,       \* OUTBOX_BATCH_SIZE
  BackoffCap,      \* 6 in ReleaseWithBackoff
  None,            \* NULL
  Orphan           \* a claim id that no running batch knows

ASSUME OutboxAssumption ==
  /\ IsFiniteSet(Event)
  /\ Malformed \subseteq Event
  /\ None \notin Event \cup Publisher
  /\ Orphan \notin Publisher \cup {None}

\* The checks of config.Load, 94 to 111.
ASSUME ConfigAssumption ==
  /\ Lease \in Nat \ {0}
  /\ Margin \in 1 .. Lease - 1
  /\ ConfirmTimeout \in 1 .. Lease - 1
  /\ BatchSize \in Nat \ {0}
  /\ BackoffCap \in Nat

VARIABLES
  line,       \* unpublished rows by next_attempt_at, created_at, event_id
  published,  \* rows with published_at set
  claim,      \* publish_claim_id, as the publisher whose batch knows it
  age,        \* time since publish_claimed_at, up to just expired
  wait,       \* time until next_attempt_at, 0 when due
  attempts,   \* publish_attempts, up to where the back-off stops growing
  phase,      \* where a publisher is in Run and ProcessBatch
  batch,      \* claimedIDs not yet begun
  current,    \* eventID of the loop
  channel,    \* whether the channel of the publisher is open
  held,       \* time since the renewal that allowed the running publication
  accepted    \* events the broker has stored

rows == <<line, published, claim, age, wait, attempts>>
process == <<phase, batch, current, channel, held>>
vars == <<line, published, claim, age, wait, attempts, phase, batch, current,
          channel, held, accepted>>

(***************************************************************************)
(* "down": no session; "idle": between batches; "next": before renewing    *)
(* the remaining batch; "load": before RenewAndLoadEvent; "publishing" and *)
(* "stored": inside PublishEvent, before and after the broker has it;      *)
(* "acked", "failed" and "unavailable": before the statement that records  *)
(* the outcome.                                                            *)
(***************************************************************************)
Phase == {"down", "idle", "next", "load", "publishing", "stored", "acked",
          "failed", "unavailable"}

Sending == {"publishing", "stored"}

Committed == ToSet(line) \cup published

TypeOK ==
  /\ line \in Seq(Event)
  /\ \A i, j \in DOMAIN line : i < j => /\ line[i] # line[j]
                                        /\ wait[line[i]] <= wait[line[j]]
  /\ published \subseteq Event
  /\ claim \in [Event -> Publisher \cup {None, Orphan}]
  /\ age \in [Event -> 0 .. Lease + 1]
  /\ wait \in [Event -> 0 .. 2 ^ BackoffCap]
  /\ attempts \in [Event -> 0 .. BackoffCap]
  /\ phase \in [Publisher -> Phase]
  /\ batch \in [Publisher -> SUBSET Event]
  /\ current \in [Publisher -> Event \cup {None}]
  /\ channel \in [Publisher -> BOOLEAN]
  /\ held \in [Publisher -> 0 .. Lease + 1]
  /\ accepted \subseteq Event

Init ==
  /\ line = <<>> /\ published = {} /\ accepted = {}
  /\ claim = [e \in Event |-> None]
  /\ age = [e \in Event |-> 0]
  /\ wait = [e \in Event |-> 0]
  /\ attempts = [e \in Event |-> 0]
  /\ phase = [p \in Publisher |-> "down"]
  /\ batch = [p \in Publisher |-> {}]
  /\ current = [p \in Publisher |-> None]
  /\ channel = [p \in Publisher |-> FALSE]
  /\ held = [p \in Publisher |-> 0]

-----------------------------------------------------------------------------
(* The rows.                                                               *)

\* Where a row due in w ticks may stand in the order of the claim query: rows
\* due at the same tick are ordered by finer times and by their identifiers.
Placements(s, e, w) ==
  {InsertAt(s, i, e) : i \in {k \in 1 .. Len(s) + 1 :
     \A j \in DOMAIN s : IF j < k THEN wait[s[j]] <= w ELSE wait[s[j]] >= w}}

\* The row leaves its place; it has only one.
Removals(s, e) == {RemoveAt(s, i) : i \in {k \in DOMAIN s : s[k] = e}}

\* Store.Enqueue and the commit of the transaction it is part of.
Enqueue(e) ==
  /\ e \notin Committed
  /\ line' \in Placements(line, e, 0)
  /\ UNCHANGED <<published, claim, age, wait, attempts, process, accepted>>

\* Mutant: a claim ends one instant before its owner thinks it does.
EligibleAtLease(e) ==
  wait[e] = 0 /\ (claim[e] = None \/ age[e] >= Lease)

\* Mutant: only rows without a claim are eligible.
EligibleUnclaimed(e) == wait[e] = 0 /\ claim[e] = None

Eligible(e) == wait[e] = 0 /\ (claim[e] = None \/ age[e] > Lease)

\* ORDER BY ... LIMIT: S is the first BatchSize eligible rows.
IsBatch(S) ==
  LET eligible == {i \in DOMAIN line : Eligible(line[i])}
      taken == {i \in eligible : line[i] \in S}
  IN  /\ S = {line[i] : i \in taken}
      /\ \/ taken = eligible
         \/ Cardinality(taken) = BatchSize
      /\ Cardinality(taken) <= BatchSize
      /\ \A i \in taken, j \in eligible \ taken : i < j

\* Mutant: the owner of a row is not compared.
OwnsAny(p, e) == TRUE

\* publish_claim_id = $claim; a published row has no claim.
Owns(p, e) == claim[e] = p

\* ... AND publish_claimed_at >= clock_timestamp() - lease
Leased(p, e) == claim[e] = p /\ age[e] <= Lease

\* Mutant: the age of the lease is compared with the margin.
OldEnough(e) == age[e] >= Margin

NearExpiry(e) == Lease - age[e] <= Margin

\* Mutant: the claim id is left in the row.
Kept(e) == claim

Unclaimed(e) == [claim EXCEPT ![e] = None]

\* Mutant: the new number of attempts is the exponent.
LaterBackoff(e) == 2 ^ (attempts[e] + 1)

Backoff(e) == 2 ^ attempts[e]

-----------------------------------------------------------------------------
(* The publishers.                                                         *)

\* When a batch ends its claim id is forgotten; rows still claimed under it
\* belong to nobody until their lease runs out.
Forgotten(p, claims) ==
  [e \in Event |-> IF claims[e] = p THEN Orphan ELSE claims[e]]

\* Return from ProcessBatch with the row claims as given.
EndBatch(p, to, claims) ==
  /\ phase' = [phase EXCEPT ![p] = to]
  /\ claim' = Forgotten(p, claims)
  /\ batch' = [batch EXCEPT ![p] = {}]
  /\ current' = [current EXCEPT ![p] = None]
  /\ channel' = [channel EXCEPT ![p] = @ /\ to # "down"]
  /\ held' = [held EXCEPT ![p] = 0]

\* The loop of ProcessBatch goes on to the next event or is through; after a
\* transport failure it is left, and Run with it.
AfterEvent(p, claims) ==
  \/ /\ phase[p] = "unavailable"
     /\ EndBatch(p, "down", claims)
  \/ /\ phase[p] # "unavailable" /\ batch[p] = {}
     /\ EndBatch(p, "idle", claims)
  \/ /\ phase[p] # "unavailable" /\ batch[p] # {}
     /\ phase' = [phase EXCEPT ![p] = "next"]
     /\ claim' = claims
     /\ current' = [current EXCEPT ![p] = None]
     /\ held' = [held EXCEPT ![p] = 0]
     /\ UNCHANGED <<batch, channel>>

\* runWorkerLoop: a session with a fresh connection and channel.
Connect(p) ==
  /\ phase[p] = "down"
  /\ phase' = [phase EXCEPT ![p] = "idle"]
  /\ channel' = [channel EXCEPT ![p] = TRUE]
  /\ UNCHANGED <<rows, batch, current, held, accepted>>

\* Store.ClaimBatch under a new claim id.  An empty batch changes nothing.
ClaimBatch(p) ==
  /\ phase[p] = "idle"
  /\ \E S \in SUBSET Event \ {{}} :
       /\ IsBatch(S)
       /\ claim' = [e \in Event |-> IF e \in S THEN p ELSE claim[e]]
       /\ age' = [e \in Event |-> IF e \in S THEN 0 ELSE age[e]]
       /\ batch' = [batch EXCEPT ![p] = S]
  /\ phase' = [phase EXCEPT ![p] = "next"]
  /\ UNCHANGED <<line, published, wait, attempts, current, channel, held,
                 accepted>>

\* Store.RenewBatchNearExpiry before event e; RETURNING gave the batch in any
\* order.
RenewBatchNearExpiry(p, e) ==
  /\ phase[p] = "next" /\ e \in batch[p]
  /\ age' = [f \in Event |->
       IF f \in batch[p] /\ Leased(p, f) /\ NearExpiry(f) THEN 0 ELSE age[f]]
  /\ current' = [current EXCEPT ![p] = e]
  /\ batch' = [batch EXCEPT ![p] = @ \ {e}]
  /\ phase' = [phase EXCEPT ![p] = "load"]
  /\ UNCHANGED <<line, published, claim, wait, attempts, channel, held,
                 accepted>>

\* Store.RenewAndLoadEvent, ResolveRoutingKey, and the first check of publish.
RenewAndLoadEvent(p) ==
  /\ phase[p] = "load" /\ Leased(p, current[p])
  /\ age' = [age EXCEPT ![current[p]] = 0]
  /\ \/ /\ current[p] \in Malformed
        /\ phase' = [phase EXCEPT ![p] = "failed"]
     \/ /\ current[p] \notin Malformed
        /\ phase' = [phase EXCEPT ![p] =
             IF channel[p] THEN "publishing" ELSE "unavailable"]
  /\ UNCHANGED <<line, published, claim, wait, attempts, batch, current,
                 channel, held, accepted>>

\* ErrClaimLost: no publication.
SkipLostClaim(p) ==
  /\ phase[p] = "load" /\ ~Leased(p, current[p])
  /\ AfterEvent(p, claim)
  /\ UNCHANGED <<line, published, age, wait, attempts, accepted>>

\* The broker has the message on disk.
BrokerStores(p) ==
  /\ phase[p] = "publishing" /\ channel[p]
  /\ accepted' = accepted \cup {current[p]}
  /\ phase' = [phase EXCEPT ![p] = "stored"]
  /\ UNCHANGED <<rows, batch, current, channel, held>>

\* Mutant: a message handed to the channel counts as published.
AfterPublish == Sending

AfterConfirm == {"stored"}

\* WaitContext returns true.
Confirmed(p) ==
  /\ phase[p] \in AfterConfirm /\ channel[p]
  /\ phase' = [phase EXCEPT ![p] = "acked"]
  /\ held' = [held EXCEPT ![p] = 0]
  /\ UNCHANGED <<rows, batch, current, channel, accepted>>

\* PublishEvent returns an error: a nack or the timeout of the confirmation,
\* whether or not the broker has the message, or a closed channel.
PublishFails(p) ==
  /\ phase[p] \in Sending
  /\ \/ phase' = [phase EXCEPT ![p] = "failed"]
     \/ ~channel[p] /\ phase' = [phase EXCEPT ![p] = "unavailable"]
  /\ held' = [held EXCEPT ![p] = 0]
  /\ UNCHANGED <<rows, batch, current, channel, accepted>>

\* Store.MarkPublished, and the answer that the claim was lost.
MarkPublished(p) ==
  /\ phase[p] = "acked" /\ Owns(p, current[p])
  /\ published' = published \cup {current[p]}
  /\ line' \in Removals(line, current[p])
  /\ age' = [age EXCEPT ![current[p]] = 0]
  /\ AfterEvent(p, Unclaimed(current[p]))
  /\ UNCHANGED <<wait, attempts, accepted>>

\* Store.ReleaseWithBackoff.
ReleaseWithBackoff(p) ==
  LET e == current[p]
  IN  /\ phase[p] \in {"failed", "unavailable"} /\ Owns(p, e)
      /\ attempts' = [attempts EXCEPT ![e] =
                        IF @ < BackoffCap THEN @ + 1 ELSE @]
      /\ wait' = [wait EXCEPT ![e] = Backoff(e)]
      /\ \E rest \in Removals(line, e) :
           line' \in Placements(rest, e, Backoff(e))
      /\ age' = [age EXCEPT ![e] = 0]
      /\ AfterEvent(p, Unclaimed(e))
      /\ UNCHANGED <<published, accepted>>

\* MarkPublished or ReleaseWithBackoff finds the claim gone.
StaleOutcome(p) ==
  /\ phase[p] \in {"acked", "failed", "unavailable"} /\ ~Owns(p, current[p])
  /\ AfterEvent(p, claim)
  /\ UNCHANGED <<line, published, age, wait, attempts, accepted>>

\* A statement of the batch fails: ProcessBatch returns, Run goes on.
StatementFails(p) ==
  /\ phase[p] \in {"next", "load", "acked", "failed", "unavailable"}
  /\ EndBatch(p, "idle", claim)
  /\ UNCHANGED <<line, published, age, wait, attempts, accepted>>

\* The process dies or its context is cancelled.
Stop(p) ==
  /\ phase[p] # "down"
  /\ EndBatch(p, "down", claim)
  /\ UNCHANGED <<line, published, age, wait, attempts, accepted>>

\* The broker or the network closes the channel; it stays so in a session.
ChannelCloses(p) ==
  /\ channel[p]
  /\ channel' = [channel EXCEPT ![p] = FALSE]
  /\ UNCHANGED <<rows, phase, batch, current, held, accepted>>

\* clock_timestamp()
Tick ==
  /\ age' = [e \in Event |->
       IF claim[e] # None /\ age[e] <= Lease THEN age[e] + 1 ELSE age[e]]
  /\ wait' = [e \in Event |-> IF wait[e] > 0 THEN wait[e] - 1 ELSE 0]
  /\ held' = [p \in Publisher |->
       IF phase[p] \in Sending /\ held[p] <= Lease THEN held[p] + 1
       ELSE held[p]]
  /\ UNCHANGED <<line, published, claim, attempts, phase, batch, current,
                 channel, accepted>>

-----------------------------------------------------------------------------

\* ProcessBatch and runWorkerLoop going on.
Works(p) ==
  \/ Connect(p) \/ ClaimBatch(p)
  \/ \E e \in Event : RenewBatchNearExpiry(p, e)
  \/ RenewAndLoadEvent(p) \/ SkipLostClaim(p)
  \/ Confirmed(p) \/ PublishFails(p)
  \/ MarkPublished(p) \/ ReleaseWithBackoff(p) \/ StaleOutcome(p)

Disturbed(p) == StatementFails(p) \/ Stop(p) \/ ChannelCloses(p)

Step ==
  \/ \E e \in Event : Enqueue(e)
  \/ \E p \in Publisher : Works(p) \/ BrokerStores(p) \/ Disturbed(p)

Next == Step \/ Tick

Spec == Init /\ [][Next]_vars

\* A schedule without delays: statements take no time, and a publication no
\* longer than RABBITMQ_PUBLISH_CONFIRM_TIMEOUT.
PromptTick ==
  /\ \A p \in Publisher :
       \/ phase[p] \in {"down", "idle"}
       \/ phase[p] \in Sending /\ held[p] < ConfirmTimeout
  /\ Tick

PromptSpec == Init /\ [][Step \/ PromptTick]_vars

(***************************************************************************)
(* Fairness.  Time passes and a publisher goes on with what it is at.      *)
(* Statements and publications that are possible again and again succeed   *)
(* in the end; each may fail, be late or be cut short by a stop infinitely *)
(* often before and between.  From some time on channels stay open.        *)
(***************************************************************************)
Fair(p) ==
  /\ WF_vars(Works(p))
  /\ SF_vars(ClaimBatch(p))
  /\ \A e \in Event :
       /\ SF_vars(Leased(p, e) /\ RenewBatchNearExpiry(p, e))
       /\ SF_vars(current[p] = e /\ RenewAndLoadEvent(p))
  /\ \A e \in Malformed : SF_vars(current[p] = e /\ ReleaseWithBackoff(p))
  /\ \A e \in Event \ Malformed :
       /\ SF_vars(current[p] = e /\ Owns(p, e) /\ BrokerStores(p))
       /\ SF_vars(current[p] = e /\ Owns(p, e) /\ Confirmed(p))
       /\ SF_vars(current[p] = e /\ MarkPublished(p))
       /\ SF_vars(/\ current[p] = e /\ phase[p] = "unavailable"
                  /\ ReleaseWithBackoff(p))

ChannelsStayOpen == <>[][\A p \in Publisher : ~ChannelCloses(p)]_vars

FairSpec ==
  Spec /\ WF_vars(Tick) /\ ChannelsStayOpen /\ \A p \in Publisher : Fair(p)

-----------------------------------------------------------------------------
(* Properties.                                                             *)

\* Two publishers send the same event at the same time only if one of them
\* has been at it for longer than the lease it renewed just before
\* (RenewAndLoadEvent in front of every PublishEvent, outbox.go 121).
OverlapOnlyAfterLease ==
  \A p, q \in Publisher :
    /\ p # q /\ phase[p] \in Sending /\ phase[q] \in Sending
    /\ current[p] = current[q]
    => held[p] > Lease \/ held[q] > Lease

\* No event is parked: a claim that is still in force belongs to a batch whose
\* publisher has the event before it or in hand, so an outcome will be recorded
\* or the lease will run out (ClaimBatch to ReleaseWithBackoff, all branches of
\* ProcessBatch).
ClaimsAreWorkedOn ==
  \A p \in Publisher, e \in Event :
    Leased(p, e) => e \in batch[p] \cup {current[p]}

\* A late publisher harms nobody: a row claimed under an unexpired lease is
\* changed only by a step of the publisher that holds it, and so is the time
\* its lease counts from (the claim id in the WHERE clauses of MarkPublished,
\* ReleaseWithBackoff and both renewals).
ForeignClaimsUntouched ==
  [][\A p \in Publisher, e \in Event :
       /\ Leased(p, e)
       /\ <<phase[p], batch[p], current[p]>>' = <<phase[p], batch[p], current[p]>>
       => /\ claim'[e] = p
          /\ age'[e] >= age[e]
          /\ attempts'[e] = attempts[e]
          /\ (e \in published') = (e \in published)]_vars

\* The outbox delivers: only committed events are sent, only stored ones are
\* settled, none is taken back (Delivery).
Promise == INSTANCE Delivery WITH
  committed <- Committed, delivered <- accepted, settled <- published

ImplementsDelivery == Promise!Spec

\* A long batch keeps its leases: as long as no statement is delayed and no
\* publication exceeds its timeout, every event a batch has claimed and not
\* finished stays leased to it (RenewBatchNearExpiry in front of every event).
BatchKeepsLeases ==
  \A p \in Publisher : \A e \in batch[p] \cup ({current[p]} \ {None}) :
    Leased(p, e)

\* At least once: whatever stops, fails, or is published twice, every committed
\* event with a well-formed envelope is marked published in the end, and
\* malformed events in front of it do not hold it up (Run, ProcessBatch).
EveryEventPublished ==
  \A e \in Event \ Malformed : (e \in Committed) ~> (e \in published)
=============================================================================
