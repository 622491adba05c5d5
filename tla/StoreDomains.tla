---------------------------- MODULE StoreDomains ----------------------------
(***************************************************************************)
(* modules/commerce/domain_repository.go and domain_service.go: the        *)
(* lifecycle of the domains of a store, which of them is its primary, and  *)
(* the transactions that change them at the same time.                     *)
(*                                                                         *)
(* A session is one call.  A statement is one action, under READ           *)
(* COMMITTED: it sees what was committed when it began, waits for a row    *)
(* that another transaction has locked and then looks at the row again.    *)
(* Locks are kept to the end of the transaction, also on a row that did    *)
(* not qualify any more.  A call that is refused changes nothing and is    *)
(* left out.                                                               *)
(***************************************************************************)
CONSTANTS
  Domain,    \* names in store_domains
  Platform,  \* the names with domain_type = 'platform'
  Store,     \* stores.id
  StoreOf,   \* the store a name belongs to
  Session,   \* requests in flight, one transaction each
  Seller,    \* the requests of sellers: verification and activation
  Admin,     \* the requests that passed requireAdmin: moderation
  None       \* no lock, no domain

\* createStoreForSeller gives a store one platform domain at most.
ASSUME DomainAssumption ==
  /\ StoreOf \in [Domain -> Store]
  /\ Platform \subseteq Domain
  /\ \A d, e \in Platform : StoreOf[d] = StoreOf[e] => d = e
  /\ Seller \cup Admin \subseteq Session
  /\ None \notin Domain \cup Session

VARIABLES
  row,     \* store_domains as committed
  work,    \* the newest version of each row, committed or not
  lock,    \* the transaction that holds the row
  phase,   \* where a session is in its call
  goal,    \* the domain its call is to change, or to promote
  waiting  \* the rows its statement found and has not locked yet

vars == <<row, work, lock, phase, goal, waiting>>

Status == {"absent", "pending", "failed", "verified", "active", "disabled"}

\* verified: verified_at is set
Row == [status : Status, primary : BOOLEAN, verified : BOOLEAN]

(***************************************************************************)
(* "idle": no call; "demote", "fallback", "count": before the statement    *)
(* of that name; "demoting", "choosing": that statement may wait for rows; *)
(* "promote": before the update that sets is_primary; "commit": before     *)
(* COMMIT; "lookup": the DNS query runs; "match", "mismatch": before the   *)
(* update that records the answer.                                         *)
(***************************************************************************)
InTransaction == {"demote", "demoting", "fallback", "choosing", "count",
                  "promote", "commit"}

Phase == InTransaction \cup {"idle", "lookup", "match", "mismatch"}

TypeOK ==
  /\ row \in [Domain -> Row]
  /\ work \in [Domain -> Row]
  /\ lock \in [Domain -> Session \cup {None}]
  /\ phase \in [Session -> Phase]
  /\ goal \in [Session -> Domain \cup {None}]
  /\ waiting \in [Session -> SUBSET Domain]
  /\ \A d \in Domain :
       /\ lock[d] = None => work[d] = row[d]
       /\ lock[d] # None => phase[lock[d]] \in InTransaction

Absent == [status |-> "absent", primary |-> FALSE, verified |-> FALSE]

Init ==
  /\ row = [d \in Domain |-> Absent]
  /\ work = row
  /\ lock = [d \in Domain |-> None]
  /\ phase = [s \in Session |-> "idle"]
  /\ goal = [s \in Session |-> None]
  /\ waiting = [s \in Session |-> {}]

-----------------------------------------------------------------------------
(* Rows, locks and the unique index.                                       *)

Domains(t) == {d \in Domain : StoreOf[d] = t}

Siblings(d) == Domains(StoreOf[d])

\* What a statement of session s sees: committed rows and its own changes.
Sees(s, d) == IF lock[d] = s THEN work[d] ELSE row[d]

Held(s) == {d \in Domain : lock[d] = s}

Updated(d) == work[d] # row[d]

\* store_domains_one_primary_per_store while session s sets is_primary on d:
\* a committed primary that nobody is changing is a violation,
IndexTaken(s, d) ==
  \E e \in Siblings(d) \ {d} : row[e].primary /\ ~Updated(e)

\* and a primary that another transaction gives or takes is waited for.
IndexHolders(s, d) ==
  {lock[e] : e \in {f \in Siblings(d) \ {d} :
     /\ Updated(f) /\ lock[f] # s
     /\ row[f].primary \/ work[f].primary}}

\* The sessions that the running statement of s waits for.
WaitsFor(s) ==
  CASE phase[s] \in {"demoting", "choosing"} ->
         {lock[d] : d \in waiting[s]} \ {None, s}
    [] phase[s] = "promote" -> IndexHolders(s, goal[s])
    [] OTHER -> {}

\* Sessions of which each waits for another one.
Deadlocked(S) == S # {} /\ \A s \in S : WaitsFor(s) \cap S # {}

Go(s, to) == phase' = [phase EXCEPT ![s] = to]

\* The call returns.
Finish(s) ==
  /\ Go(s, "idle")
  /\ goal' = [goal EXCEPT ![s] = None]
  /\ waiting' = [waiting EXCEPT ![s] = {}]

\* Session s takes the lock of row d and writes version r.
Write(s, d, r) ==
  /\ lock' = [lock EXCEPT ![d] = s]
  /\ work' = [work EXCEPT ![d] = r]

\* A statement that commits by itself.
Autocommit(d, r) ==
  /\ row' = [row EXCEPT ![d] = r]
  /\ work' = [work EXCEPT ![d] = r]
  /\ UNCHANGED lock

\* Mutant: the connection goes back to the pool without ROLLBACK.
KeptLocks(s) == lock

Unlocked(s) == [d \in Domain |-> IF lock[d] = s THEN None ELSE lock[d]]

\* ROLLBACK, deferred by withTx.
Rollback(s) ==
  /\ work' = [d \in Domain |-> IF lock[d] = s THEN row[d] ELSE work[d]]
  /\ lock' = Unlocked(s)
  /\ Finish(s)
  /\ UNCHANGED row

\* COMMIT
Commit(s) ==
  /\ phase[s] = "commit"
  /\ row' = [d \in Domain |-> IF lock[d] = s THEN work[d] ELSE row[d]]
  /\ lock' = Unlocked(s)
  /\ Finish(s)
  /\ UNCHANGED work

-----------------------------------------------------------------------------
(* New domains.                                                            *)

\* createStoreForSeller and CreateStoreWithDomain.
CreateStoreWithDomain(d) ==
  /\ d \in Platform /\ row[d].status = "absent"
  /\ Autocommit(d, [status |-> "active", primary |-> TRUE, verified |-> TRUE])
  /\ UNCHANGED <<phase, goal, waiting>>

\* RequestCustomStoreDomain of a store that exists, for a free name.
CreateCustomStoreDomain(d) ==
  /\ d \notin Platform /\ row[d].status = "absent"
  /\ \A e \in Siblings(d) \cap Platform : row[e].status # "absent"
  /\ Autocommit(d, [Absent EXCEPT !.status = "pending"])
  /\ UNCHANGED <<phase, goal, waiting>>

-----------------------------------------------------------------------------
(* VerifyCustomStoreDomainForSubject.                                      *)

Verifiable == {"pending", "failed"}

\* The domain is read without a lock and the DNS query is sent.
BeginVerify(s, d) ==
  /\ phase[s] = "idle"
  /\ d \notin Platform /\ row[d].status \in Verifiable
  /\ goal' = [goal EXCEPT ![s] = d]
  /\ Go(s, "lookup")
  /\ UNCHANGED <<row, work, lock, waiting>>

\* The answer, or none in time: then the status stays as it is.
LookupTXT(s) ==
  /\ phase[s] = "lookup"
  /\ \/ /\ \E answer \in {"match", "mismatch"} : Go(s, answer)
        /\ UNCHANGED <<goal, waiting>>
     \/ Finish(s)
  /\ UNCHANGED <<row, work, lock>>

\* Mutant: the status is not compared when the answer is recorded.
MarkableAny(d) == TRUE

Markable(d) == row[d].status \in Verifiable

\* Mutant: ErrConflict is retried with another query.
MarkVerifiedOrRetry(s) ==
  LET d == goal[s]
  IN  /\ phase[s] = "match" /\ lock[d] = None
      /\ \/ /\ Markable(d)
            /\ Autocommit(d, [row[d] EXCEPT !.status = "verified",
                                            !.verified = TRUE])
            /\ Finish(s)
         \/ /\ ~Markable(d)
            /\ Go(s, "lookup")
            /\ UNCHANGED <<row, work, lock, goal, waiting>>

\* MarkDomainVerifiedIfVerifiable
MarkVerified(s) ==
  LET d == goal[s]
  IN  /\ phase[s] = "match" /\ lock[d] = None
      /\ IF Markable(d)
         THEN Autocommit(d, [row[d] EXCEPT !.status = "verified",
                                           !.verified = TRUE])
         ELSE UNCHANGED <<row, work, lock>>
      /\ Finish(s)

\* MarkDomainVerificationFailedIfVerifiable
MarkVerificationFailed(s) ==
  LET d == goal[s]
  IN  /\ phase[s] = "mismatch" /\ lock[d] = None
      /\ IF Markable(d)
         THEN Autocommit(d, [row[d] EXCEPT !.status = "failed"])
         ELSE UNCHANGED <<row, work, lock>>
      /\ Finish(s)

-----------------------------------------------------------------------------
(* ActivateCustomDomainTx.                                                 *)

\* The target is locked and must be a verified custom domain.
BeginActivate(s, d) ==
  /\ phase[s] = "idle" /\ lock[d] = None
  /\ d \notin Platform /\ row[d].status = "verified"
  /\ Write(s, d, row[d])
  /\ goal' = [goal EXCEPT ![s] = d]
  /\ Go(s, "demote")
  /\ UNCHANGED <<row, waiting>>

\* Mutant: every other domain of the store is made non-primary.
AllOthers(s) == Siblings(goal[s]) \ {goal[s]}

Primaries(s) == {d \in Siblings(goal[s]) : Sees(s, d).primary}

\* UPDATE ... WHERE store_id = $1 AND is_primary = true begins,
FindPrimary(s) ==
  /\ phase[s] = "demote"
  /\ waiting' = [waiting EXCEPT ![s] = Primaries(s)]
  /\ Go(s, "demoting")
  /\ UNCHANGED <<row, work, lock, goal>>

\* Mutant: the update does not run in the transaction.
DemoteOutside(s, d) ==
  /\ phase[s] = "demoting" /\ d \in waiting[s] /\ lock[d] = None
  /\ Autocommit(d, [row[d] EXCEPT !.primary = FALSE])
  /\ waiting' = [waiting EXCEPT ![s] = @ \ {d}]
  /\ UNCHANGED <<phase, goal>>

\* and changes a row it found; one that is no primary any more stays as it is.
Demote(s, d) ==
  /\ phase[s] = "demoting" /\ d \in waiting[s] /\ lock[d] = None
  /\ Write(s, d, [row[d] EXCEPT !.primary = FALSE])
  /\ waiting' = [waiting EXCEPT ![s] = @ \ {d}]
  /\ UNCHANGED <<row, phase, goal>>

Demoted(s) ==
  /\ phase[s] = "demoting" /\ waiting[s] = {}
  /\ Go(s, "promote")
  /\ UNCHANGED <<row, work, lock, goal, waiting>>

\* The update that makes goal the active primary: of the target here, of the
\* fallback in DisableDomainTx, of the platform domain in EnableDomainTx.
Promote(s) ==
  LET d == goal[s]
  IN  /\ phase[s] = "promote"
      /\ ~IndexTaken(s, d) /\ IndexHolders(s, d) = {}
      /\ Write(s, d, [work[d] EXCEPT !.status = "active", !.primary = TRUE])
      /\ Go(s, "commit")
      /\ UNCHANGED <<row, goal, waiting>>

\* A unique violation ends the transaction.
PromoteConflict(s) ==
  /\ phase[s] = "promote" /\ IndexTaken(s, goal[s])
  /\ Rollback(s)

-----------------------------------------------------------------------------
(* DisableDomainTx.                                                        *)

\* Mutant: the disabled domain stays the primary.
DisabledPrimary(d) == [row[d] EXCEPT !.status = "disabled"]

DisabledRow(d) == [row[d] EXCEPT !.status = "disabled", !.primary = FALSE]

BeginDisable(s, d) ==
  /\ phase[s] = "idle" /\ lock[d] = None
  /\ row[d].status \notin {"absent", "disabled"}
  /\ Write(s, d, DisabledRow(d))
  /\ goal' = [goal EXCEPT ![s] = d]
  /\ Go(s, IF row[d].primary THEN "fallback" ELSE "commit")
  /\ UNCHANGED <<row, waiting>>

Candidate(s, d) == d \in Platform /\ Sees(s, d).status = "active"

\* SELECT id ... AND domain_type = 'platform' AND status = 'active' begins,
FindFallback(s) ==
  LET found == {d \in Siblings(goal[s]) : Candidate(s, d)}
  IN  /\ phase[s] = "fallback"
      /\ waiting' = [waiting EXCEPT ![s] = found]
      /\ Go(s, IF found = {} THEN "commit" ELSE "choosing")
      /\ UNCHANGED <<row, work, lock, goal>>

\* and locks the row it found, FOR UPDATE, if that is still active.
LockFallback(s, d) ==
  /\ phase[s] = "choosing" /\ d \in waiting[s] /\ lock[d] = None
  /\ Write(s, d, row[d])
  /\ waiting' = [waiting EXCEPT ![s] = {}]
  /\ IF Candidate(s, d)
     THEN Go(s, "promote") /\ goal' = [goal EXCEPT ![s] = d]
     ELSE Go(s, "commit") /\ UNCHANGED goal
  /\ UNCHANGED row

-----------------------------------------------------------------------------
(* EnableDomainTx.                                                         *)

\* A custom domain returns to where its verification left it.
BeginEnableCustom(s, d) ==
  /\ phase[s] = "idle" /\ lock[d] = None
  /\ d \notin Platform /\ row[d].status = "disabled"
  /\ Write(s, d, [row[d] EXCEPT
       !.status = IF row[d].verified THEN "verified" ELSE "pending"])
  /\ goal' = [goal EXCEPT ![s] = d]
  /\ Go(s, "commit")
  /\ UNCHANGED <<row, waiting>>

BeginEnablePlatform(s, d) ==
  /\ phase[s] = "idle" /\ lock[d] = None
  /\ d \in Platform /\ row[d].status = "disabled"
  /\ Write(s, d, row[d])
  /\ goal' = [goal EXCEPT ![s] = d]
  /\ Go(s, "count")
  /\ UNCHANGED <<row, waiting>>

\* SELECT count(*) ... AND is_primary = true, and the update that follows.
CountPrimaries(s) ==
  LET d == goal[s]
  IN  /\ phase[s] = "count"
      /\ IF Primaries(s) # {}
         THEN /\ Write(s, d, [work[d] EXCEPT !.status = "active"])
              /\ Go(s, "commit")
         ELSE /\ Go(s, "promote")
              /\ UNCHANGED <<work, lock>>
      /\ UNCHANGED <<row, goal, waiting>>

-----------------------------------------------------------------------------

\* A statement fails, the request is cancelled or the process dies.
Abort(s) ==
  /\ phase[s] # "idle"
  /\ Rollback(s)

\* PostgreSQL ends one of the transactions that wait for each other.
DeadlockVictim(s) ==
  /\ \E S \in SUBSET Session : s \in S /\ Deadlocked(S)
  /\ Rollback(s)

Begin(s, d) ==
  \/ s \in Seller /\ (BeginVerify(s, d) \/ BeginActivate(s, d))
  \/ /\ s \in Admin
     /\ \/ BeginDisable(s, d)
        \/ BeginEnableCustom(s, d) \/ BeginEnablePlatform(s, d)

\* The call of session s goes on.
Continue(s) ==
  \/ LookupTXT(s) \/ MarkVerified(s) \/ MarkVerificationFailed(s)
  \/ FindPrimary(s) \/ Demoted(s) \/ Promote(s) \/ PromoteConflict(s)
  \/ FindFallback(s) \/ CountPrimaries(s) \/ Commit(s)
  \/ \E d \in Domain : Demote(s, d) \/ LockFallback(s, d)

Next ==
  \/ \E d \in Domain : CreateStoreWithDomain(d) \/ CreateCustomStoreDomain(d)
  \/ \E s \in Session :
       \/ \E d \in Domain : Begin(s, d)
       \/ Continue(s) \/ Abort(s) \/ DeadlockVictim(s)

Spec == Init /\ [][Next]_vars

(***************************************************************************)
(* Fairness.  A statement that can run does run; one that waits for a row  *)
(* stands in the queue of its lock, so it gets the row if the row is       *)
(* released again and again.  DNS queries end after five seconds, and the  *)
(* deadlock detector runs after deadlock_timeout.                          *)
(***************************************************************************)
FairSpec ==
  /\ Spec
  /\ \A s \in Session : SF_vars(Continue(s))
  /\ WF_vars(\E s \in Session : DeadlockVictim(s))

-----------------------------------------------------------------------------
(* Reading.                                                                *)

\* StoreResolver.Resolve: the hosts the storefront answers.
Served(d) == row[d].status = "active"

\* GetActivePrimaryStoreDomain: the host of a store, if it has one.
StorefrontHost(t) == {d \in Domains(t) : row[d].primary /\ Served(d)}

-----------------------------------------------------------------------------
(* Properties.                                                             *)

\* Whatever two moderators, a seller and late DNS answers do at once, is_primary
\* is on one domain of a store at most, that domain is served, and a custom
\* domain is served only after its DNS challenge was met (ActivateCustomDomainTx,
\* DisableDomainTx and EnableDomainTx together).
PrimaryIsServed ==
  /\ \A d, e \in Domain :
       row[d].primary /\ row[e].primary /\ StoreOf[d] = StoreOf[e] => d = e
  /\ \A d \in Domain :
       /\ row[d].primary => Served(d)
       /\ Served(d) => row[d].verified

\* Moderation holds: a DNS answer that arrives after a domain was disabled
\* changes nothing, and the domain comes back by EnableDomainTx to the status
\* its earlier verification earned; no call moves a verified or active domain
\* back, except to disabled (the TOCTOU section of
\* custom-domain-lifecycle-report.md, on the conditional updates).
ModerationHolds ==
  [][\A d \in Domain :
       LET old == row[d].status
           new == row'[d].status
       IN  /\ old = "disabled" /\ new # "disabled" =>
                /\ row'[d].verified = row[d].verified
                /\ \E s \in Session : lock[d] = s /\ phase[s] = "commit"
                /\ new = IF d \in Platform THEN "active"
                         ELSE IF row[d].verified THEN "verified" ELSE "pending"
           /\ old = "verified" => new \in {"verified", "active", "disabled"}
           /\ old = "active" => new \in {"active", "disabled"}]_row

\* The primary is handed over in one commit: a store that has a host loses it
\* only when that host is disabled, never through activations, conflicts or
\* aborts between demotion and promotion.
HostHandedOver ==
  [][\A t \in Store, d \in Domain :
       d \in StorefrontHost(t) /\ StorefrontHost(t)' = {}
         => row'[d].status = "disabled"]_row

\* Activations, enabling and verification never deadlock among themselves:
\* sessions that wait for each other include one that moves the primary from a
\* domain being disabled to the fallback, holding the first and waiting for the
\* second (the lock order of ActivateCustomDomainTx and DisableDomainTx).
DeadlocksNeedDisable ==
  \A S \in SUBSET Session :
    Deadlocked(S) => \E s \in S : phase[s] = "choosing"

\* Every call returns, also when its transaction has to wait for others, loses
\* the race for the primary or is chosen to break a deadlock.
EveryCallReturns ==
  \A s \in Session : phase[s] # "idle" ~> phase[s] = "idle"

=============================================================================
