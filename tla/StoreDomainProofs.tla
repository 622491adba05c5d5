-------------------------- MODULE StoreDomainProofs --------------------------
(***************************************************************************)
(* A store has one primary domain at most, it is served, and what is       *)
(* served was verified, for any number of stores, domains and concurrent   *)
(* requests.  PrimaryIsServed is about committed rows and is not           *)
(* inductive: DomainInv adds what holds of the versions that are not       *)
(* committed yet, above all that a new primary and the committed one it    *)
(* replaces are locked by the same transaction.                            *)
(***************************************************************************)
EXTENDS StoreDomains, TLAPS

VersionOK(d, r) ==
  /\ r.primary => r.status = "active"
  /\ r.status \in {"active", "verified"} => r.verified
  /\ d \in Platform => r.status = "absent" \/ r.verified

Versions == \A d \in Domain : VersionOK(d, row[d]) /\ VersionOK(d, work[d])

OnePrimary ==
  \A d, e \in Domain :
    StoreOf[d] = StoreOf[e] /\ d # e =>
      /\ ~(row[d].primary /\ row[e].primary)
      /\ ~(work[d].primary /\ work[e].primary)
      /\ work[d].primary /\ row[e].primary => lock[d] = lock[e] /\ lock[d] # None

\* Rows that are locked exist, and a store's custom domains follow its platform domain.
Existing ==
  /\ \A d \in Domain :
       lock[d] # None => row[d].status # "absent" /\ work[d].status # "absent"
  /\ \A d \in Domain, e \in Platform :
       StoreOf[d] = StoreOf[e] /\ row[d].status # "absent" => row[e].status # "absent"

SessionOK(s) ==
  /\ phase[s] \in {"demote", "demoting", "promote", "count"} =>
       goal[s] \in Domain /\ lock[goal[s]] = s /\ work[goal[s]].verified
  /\ phase[s] \in {"lookup", "match", "mismatch"} => goal[s] \in Domain
  /\ \A d \in Domain :
       lock[d] = s /\ Updated(d) /\ work[d].primary => phase[s] = "commit"
  /\ \A d \in waiting[s] : row[d].status # "absent"

Rows == Versions /\ OnePrimary /\ Existing

DomainInv == TypeOK /\ Rows /\ \A s \in Session : SessionOK(s)

-----------------------------------------------------------------------------
(* What the statements do to the rows *)

\* A version written under a lock that makes nothing a primary.
LEMMA WriteRows ==
  ASSUME DomainInv, NEW s \in Session, NEW d \in Domain, NEW r \in Row,
         lock[d] \in {None, s}, Write(s, d, r), UNCHANGED row,
         VersionOK(d, r), row[d].status # "absent", r.status # "absent",
         r.primary => work[d].primary
  PROVE  Rows'
  <1>1. /\ lock' = [lock EXCEPT ![d] = s]
        /\ work' = [work EXCEPT ![d] = r]
        /\ row' = row
    BY DEF Write
  <1>2. /\ \A e \in Domain : lock'[e] = IF e = d THEN s ELSE lock[e]
        /\ \A e \in Domain : work'[e] = IF e = d THEN r ELSE work[e]
    BY <1>1 DEF DomainInv, TypeOK
  <1>3. s # None
    BY DomainAssumption
  <1>4. Versions'
    BY <1>1, <1>2 DEF DomainInv, Rows, Versions
  <1>5. OnePrimary'
    <2> SUFFICES ASSUME NEW e \in Domain, NEW f \in Domain,
                        StoreOf[e] = StoreOf[f], e # f
                 PROVE  /\ ~(row[e].primary /\ row[f].primary)
                        /\ ~(work'[e].primary /\ work'[f].primary)
                        /\ work'[e].primary /\ row[f].primary =>
                             lock'[e] = lock'[f] /\ lock'[e] # None
      BY <1>1 DEF OnePrimary
    <2>1. /\ ~(row[e].primary /\ row[f].primary)
          /\ ~(work[e].primary /\ work[f].primary)
          /\ work[e].primary /\ row[f].primary => lock[e] = lock[f] /\ lock[e] # None
      BY DEF DomainInv, Rows, OnePrimary
    <2>2. /\ work'[e].primary => work[e].primary
          /\ work'[f].primary => work[f].primary
      BY <1>2
    <2>3. work[e].primary /\ row[f].primary => lock'[e] = lock'[f] /\ lock'[e] # None
      BY <2>1, <1>2, <1>3
    <2>4. QED
      BY <2>1, <2>2, <2>3
  <1>6. Existing'
    BY <1>1, <1>2 DEF DomainInv, Rows, Existing
  <1>7. QED
    BY <1>4, <1>5, <1>6 DEF Rows

\* A statement that commits by itself on a row nobody has locked, without
\* making it a primary.
LEMMA AutocommitRows ==
  ASSUME DomainInv, NEW d \in Domain, NEW r \in Row, lock[d] = None,
         Autocommit(d, r), VersionOK(d, r), r.status # "absent", ~r.primary,
         \A e \in Platform : StoreOf[d] = StoreOf[e] => e = d \/ row[e].status # "absent"
  PROVE  Rows'
  <1>1. /\ row' = [row EXCEPT ![d] = r]
        /\ work' = [work EXCEPT ![d] = r]
        /\ lock' = lock
    BY DEF Autocommit
  <1>2. /\ \A e \in Domain : row'[e] = IF e = d THEN r ELSE row[e]
        /\ \A e \in Domain : work'[e] = IF e = d THEN r ELSE work[e]
    BY <1>1 DEF DomainInv, TypeOK
  <1>3. Versions'
    BY <1>2 DEF DomainInv, Rows, Versions
  <1>4. OnePrimary'
    BY <1>1, <1>2 DEF DomainInv, Rows, OnePrimary
  <1>5. Existing'
    BY <1>1, <1>2, DomainAssumption DEF DomainInv, Rows, Existing
  <1>6. QED
    BY <1>3, <1>4, <1>5 DEF Rows

LEMMA CommitRows ==
  ASSUME DomainInv, NEW s \in Session, Commit(s)
  PROVE  Rows'
  <1>1. /\ row' = [d \in Domain |-> IF lock[d] = s THEN work[d] ELSE row[d]]
        /\ lock' = [d \in Domain |-> IF lock[d] = s THEN None ELSE lock[d]]
        /\ work' = work
    BY DEF Commit, Unlocked
  <1>2. \A d \in Domain : row'[d] = work[d] \/ (row'[d] = row[d] /\ lock[d] # s)
    BY <1>1
  <1>3. Versions'
    BY <1>1, <1>2 DEF DomainInv, Rows, Versions
  <1>4. OnePrimary'
    <2> SUFFICES ASSUME NEW e \in Domain, NEW f \in Domain,
                        StoreOf[e] = StoreOf[f], e # f
                 PROVE  /\ ~(row'[e].primary /\ row'[f].primary)
                        /\ ~(work[e].primary /\ work[f].primary)
                        /\ work[e].primary /\ row'[f].primary =>
                             lock'[e] = lock'[f] /\ lock'[e] # None
      BY <1>1 DEF OnePrimary
    <2>1. /\ ~(row[e].primary /\ row[f].primary)
          /\ ~(work[e].primary /\ work[f].primary)
          /\ work[e].primary /\ row[f].primary => lock[e] = lock[f] /\ lock[e] # None
          /\ work[f].primary /\ row[e].primary => lock[e] = lock[f] /\ lock[e] # None
      BY DEF DomainInv, Rows, OnePrimary
    <2>2. s # None
      BY DomainAssumption
    <2>3. QED
      BY <1>1, <2>1, <2>2
  <1>5. Existing'
    <2>1. \A d \in Domain : (row[d].status = "absent") <=> (row'[d].status = "absent")
      BY <1>1, DomainAssumption DEF DomainInv, Rows, Existing
    <2>2. \A d \in Domain : lock'[d] # None => lock[d] # None
      BY <1>1
    <2>3. QED
      BY <1>1, <2>1, <2>2, DomainAssumption DEF DomainInv, Rows, Existing
  <1>6. QED
    BY <1>3, <1>4, <1>5 DEF Rows

LEMMA RollbackRows ==
  ASSUME DomainInv, NEW s \in Session, Rollback(s)
  PROVE  Rows'
  <1>1. /\ work' = [d \in Domain |-> IF lock[d] = s THEN row[d] ELSE work[d]]
        /\ lock' = [d \in Domain |-> IF lock[d] = s THEN None ELSE lock[d]]
        /\ row' = row
    BY DEF Rollback, Unlocked
  <1>2. Versions'
    BY <1>1 DEF DomainInv, Rows, Versions
  <1>3. OnePrimary'
    <2> SUFFICES ASSUME NEW e \in Domain, NEW f \in Domain,
                        StoreOf[e] = StoreOf[f], e # f
                 PROVE  /\ ~(row[e].primary /\ row[f].primary)
                        /\ ~(work'[e].primary /\ work'[f].primary)
                        /\ work'[e].primary /\ row[f].primary =>
                             lock'[e] = lock'[f] /\ lock'[e] # None
      BY <1>1 DEF OnePrimary
    <2>1. /\ ~(row[e].primary /\ row[f].primary)
          /\ ~(work[e].primary /\ work[f].primary)
          /\ work[e].primary /\ row[f].primary => lock[e] = lock[f] /\ lock[e] # None
          /\ work[f].primary /\ row[e].primary => lock[e] = lock[f] /\ lock[e] # None
      BY DEF DomainInv, Rows, OnePrimary
    <2>2. s # None
      BY DomainAssumption
    <2>3. QED
      BY <1>1, <2>1, <2>2
  <1>4. Existing'
    BY <1>1 DEF DomainInv, Rows, Existing
  <1>5. QED
    BY <1>2, <1>3, <1>4 DEF Rows

-----------------------------------------------------------------------------
(* What they do to the sessions *)

\* A step of session s is not seen by a session whose locked rows it leaves alone.
LEMMA OtherSession ==
  ASSUME DomainInv, NEW t \in Session,
         phase'[t] = phase[t], goal'[t] = goal[t], waiting'[t] = waiting[t],
         \A e \in Domain : lock'[e] = t <=> lock[e] = t,
         \A e \in Domain : lock[e] = t => work'[e] = work[e] /\ row'[e] = row[e],
         \A e \in Domain : row[e].status # "absent" => row'[e].status # "absent"
  PROVE  SessionOK(t)'
  <1>1. SessionOK(t) /\ waiting[t] \subseteq Domain
    BY DEF DomainInv, TypeOK
  <1>2. QED
    BY <1>1 DEF SessionOK, Updated

\* Writes under a lock, seen by the others.
LEMMA WriteOthers ==
  ASSUME DomainInv, NEW s \in Session, NEW d \in Domain, NEW r \in Row,
         lock[d] \in {None, s}, Write(s, d, r), UNCHANGED row,
         NEW t \in Session, t # s,
         phase'[t] = phase[t], goal'[t] = goal[t], waiting'[t] = waiting[t]
  PROVE  SessionOK(t)'
  <1>1. /\ \A e \in Domain : lock'[e] = IF e = d THEN s ELSE lock[e]
        /\ \A e \in Domain : work'[e] = IF e = d THEN r ELSE work[e]
    BY DEF DomainInv, TypeOK, Write
  <1>2. t # None
    BY DomainAssumption
  <1>3. QED
    BY <1>1, <1>2, OtherSession

\* The end of a transaction: s has no locks left and the others keep theirs.
LEMMA EndSessions ==
  ASSUME DomainInv, NEW s \in Session, Finish(s),
         \A e \in Domain : lock'[e] = IF lock[e] = s THEN None ELSE lock[e],
         \A e \in Domain : lock[e] \notin {s, None} => work'[e] = work[e] /\ row'[e] = row[e],
         \A e \in Domain : row[e].status # "absent" => row'[e].status # "absent"
  PROVE  \A t \in Session : SessionOK(t)'
  <1>1. None \notin Session
    BY DomainAssumption
  <1>2. ASSUME NEW t \in Session, t # s
        PROVE  SessionOK(t)'
    <2>1. phase'[t] = phase[t] /\ goal'[t] = goal[t] /\ waiting'[t] = waiting[t]
      BY <1>2 DEF Finish, Go, DomainInv, TypeOK
    <2>2. QED
      BY <1>1, <1>2, <2>1, OtherSession
  <1>3. SessionOK(s)'
    <2>1. phase'[s] = "idle" /\ waiting'[s] = {}
      BY DEF Finish, Go, DomainInv, TypeOK
    <2>2. \A e \in Domain : lock'[e] # s
      BY <1>1
    <2>3. QED
      BY <2>1, <2>2 DEF SessionOK
  <1>4. QED
    BY <1>2, <1>3

-----------------------------------------------------------------------------
(* Steps that write no row *)

LEMMA SameRows ==
  ASSUME DomainInv, UNCHANGED <<row, work, lock>>
  PROVE  Rows'
  BY DEF DomainInv, Rows, Versions, OnePrimary, Existing

LEMMA SameOthers ==
  ASSUME DomainInv, NEW s \in Session, NEW t \in Session, t # s,
         UNCHANGED <<row, work, lock>>,
         phase'[t] = phase[t], goal'[t] = goal[t], waiting'[t] = waiting[t]
  PROVE  SessionOK(t)'
  BY OtherSession

LEMMA BeginVerifyStep ==
  ASSUME DomainInv, NEW s \in Session, NEW d \in Domain, BeginVerify(s, d)
  PROVE  DomainInv'
  <1>1. /\ goal' = [goal EXCEPT ![s] = d]
        /\ phase' = [phase EXCEPT ![s] = "lookup"]
        /\ phase[s] = "idle"
        /\ UNCHANGED <<row, work, lock, waiting>>
    BY DEF BeginVerify, Go
  <1>2. TypeOK'
    BY <1>1 DEF DomainInv, TypeOK, Phase, InTransaction
  <1>3. ASSUME NEW t \in Session
        PROVE  SessionOK(t)'
    <2>1. CASE t = s
      BY <1>1, <2>1 DEF DomainInv, TypeOK, SessionOK, Updated, InTransaction
    <2>2. CASE t # s
      BY <1>1, <2>2, SameOthers DEF DomainInv, TypeOK
    <2>3. QED
      BY <2>1, <2>2
  <1>4. QED
    BY <1>1, <1>2, <1>3, SameRows DEF DomainInv

LEMMA LookupStep ==
  ASSUME DomainInv, NEW s \in Session, LookupTXT(s)
  PROVE  DomainInv'
  <1>1. phase[s] = "lookup" /\ UNCHANGED <<row, work, lock>>
    BY DEF LookupTXT
  <1>2. \A d \in Domain : lock[d] # s
    BY <1>1, DomainAssumption DEF DomainInv, TypeOK, InTransaction
  <1>3. CASE Finish(s)
    <2>1. TypeOK'
      BY <1>1, <1>2, <1>3 DEF DomainInv, TypeOK, Finish, Go, Phase
    <2>2. QED
      BY <1>1, <1>2, <1>3, <2>1, SameRows, EndSessions DEF DomainInv
  <1>4. CASE \E answer \in {"match", "mismatch"} : Go(s, answer) /\ UNCHANGED <<goal, waiting>>
    <2>1. PICK answer \in {"match", "mismatch"} :
            phase' = [phase EXCEPT ![s] = answer] /\ UNCHANGED <<goal, waiting>>
      BY <1>4 DEF Go
    <2>2. TypeOK'
      BY <1>1, <1>2, <2>1 DEF DomainInv, TypeOK, Phase
    <2>3. ASSUME NEW t \in Session
          PROVE  SessionOK(t)'
      <3>1. CASE t = s
        BY <1>1, <1>2, <2>1, <3>1 DEF DomainInv, TypeOK, SessionOK
      <3>2. CASE t # s
        BY <1>1, <2>1, <3>2, SameOthers DEF DomainInv, TypeOK
      <3>3. QED
        BY <3>1, <3>2
    <2>4. QED
      BY <1>1, <2>2, <2>3, SameRows DEF DomainInv
  <1>5. QED
    BY <1>3, <1>4 DEF LookupTXT

\* A statement begins, or ends, on rows that it will lock or has locked.
LEMMA StatementStep ==
  ASSUME DomainInv, NEW s \in Session,
         NEW to \in InTransaction, NEW W \in SUBSET Domain,
         phase[s] \in InTransaction, phase[s] # "commit",
         phase' = [phase EXCEPT ![s] = to],
         waiting' = [waiting EXCEPT ![s] = W],
         UNCHANGED <<row, work, lock, goal>>,
         to \in {"demote", "demoting", "promote", "count"} =>
           phase[s] \in {"demote", "demoting", "promote", "count"},
         \A d \in W : row[d].status # "absent"
  PROVE  DomainInv'
  <1>1. TypeOK'
    BY DEF DomainInv, TypeOK, Phase
  <1>2. ASSUME NEW t \in Session
        PROVE  SessionOK(t)'
    <2>1. CASE t = s
      <3>1. SessionOK(s) /\ phase'[s] = to /\ waiting'[s] = W
        BY DEF DomainInv, TypeOK
      <3>2. to \notin {"lookup", "match", "mismatch"}
        BY DEF InTransaction
      <3>3. QED
        BY <2>1, <3>1, <3>2 DEF SessionOK, Updated
    <2>2. CASE t # s
      BY <2>2, SameOthers DEF DomainInv, TypeOK
    <2>3. QED
      BY <2>1, <2>2
  <1>3. QED
    BY <1>1, <1>2, SameRows DEF DomainInv

\* What a statement sees as a primary or as active exists.
LEMMA SeenExists ==
  ASSUME DomainInv, NEW s \in Session, NEW d \in Domain,
         Sees(s, d).primary \/ Sees(s, d).status = "active"
  PROVE  row[d].status # "absent"
  BY DomainAssumption DEF DomainInv, Rows, Versions, Existing, VersionOK, Sees

LEMMA QueryStep ==
  ASSUME DomainInv, NEW s \in Session, FindPrimary(s) \/ Demoted(s) \/ FindFallback(s)
  PROVE  DomainInv'
  <1>1. CASE FindPrimary(s)
    <2>1. Primaries(s) \in SUBSET Domain /\ \A d \in Primaries(s) : row[d].status # "absent"
      BY SeenExists DEF Primaries, Siblings, Domains
    <2>2. "demoting" \in InTransaction /\ "demote" \in InTransaction
      BY DEF InTransaction
    <2>3. QED
      BY <1>1, <2>1, <2>2, StatementStep DEF FindPrimary, Go
  <1>2. CASE Demoted(s)
    <2>1. waiting' = [waiting EXCEPT ![s] = {}]
      BY <1>2 DEF Demoted, DomainInv, TypeOK
    <2>2. "demoting" \in InTransaction /\ "promote" \in InTransaction
      BY DEF InTransaction
    <2>3. QED
      BY <1>2, <2>1, <2>2, StatementStep DEF Demoted, Go
  <1>3. CASE FindFallback(s)
    <2> DEFINE found == {d \in Siblings(goal[s]) : Candidate(s, d)}
               to == IF found = {} THEN "commit" ELSE "choosing"
    <2>1. found \in SUBSET Domain /\ \A d \in found : row[d].status # "absent"
      BY SeenExists DEF Candidate, Siblings, Domains
    <2>2. to \in InTransaction /\ "fallback" \in InTransaction
      BY DEF InTransaction
    <2>3. /\ phase[s] = "fallback"
          /\ waiting' = [waiting EXCEPT ![s] = found]
          /\ phase' = [phase EXCEPT ![s] = to]
          /\ UNCHANGED <<row, work, lock, goal>>
      BY <1>3 DEF FindFallback, Go
    <2>4. to \notin {"demote", "demoting", "promote", "count"}
      OBVIOUS
    <2> HIDE DEF found, to
    <2>5. QED
      BY <2>1, <2>2, <2>3, <2>4, StatementStep
  <1>4. QED
    BY <1>1, <1>2, <1>3

-----------------------------------------------------------------------------
(* Steps that commit by themselves *)

LEMMA CreateStoreStep ==
  ASSUME DomainInv, NEW d \in Domain, CreateStoreWithDomain(d)
  PROVE  DomainInv'
  <1> DEFINE r == [status |-> "active", primary |-> TRUE, verified |-> TRUE]
  <1>1. /\ d \in Platform /\ row[d].status = "absent"
        /\ row' = [row EXCEPT ![d] = r]
        /\ work' = [work EXCEPT ![d] = r]
        /\ UNCHANGED <<lock, phase, goal, waiting>>
    BY DEF CreateStoreWithDomain, Autocommit
  <1>2. /\ \A e \in Domain : row'[e] = IF e = d THEN r ELSE row[e]
        /\ \A e \in Domain : work'[e] = IF e = d THEN r ELSE work[e]
    BY <1>1 DEF DomainInv, TypeOK
  <1>3. lock[d] = None
    BY <1>1 DEF DomainInv, Rows, Existing
  <1>4. TypeOK'
    <2>1. r \in Row
      BY DEF Row, Status
    <2>2. QED
      BY <1>1, <1>3, <2>1 DEF DomainInv, TypeOK
  \* Nothing else of the store exists yet.
  <1>5. \A e \in Domain : StoreOf[e] = StoreOf[d] => ~row[e].primary /\ ~work[e].primary
    <2>1. \A e \in Domain : StoreOf[e] = StoreOf[d] => row[e].status = "absent"
      BY <1>1 DEF DomainInv, Rows, Existing
    <2>2. \A e \in Domain : StoreOf[e] = StoreOf[d] => work[e] = row[e]
      BY <2>1 DEF DomainInv, TypeOK, Rows, Existing
    <2>3. QED
      BY <2>1, <2>2 DEF DomainInv, Rows, Versions, VersionOK
  <1>6. Rows'
    <2>1. Versions'
      BY <1>2 DEF DomainInv, Rows, Versions, VersionOK
    <2>2. OnePrimary'
      BY <1>1, <1>2, <1>5 DEF DomainInv, Rows, OnePrimary
    <2>3. Existing'
      BY <1>1, <1>2, <1>3, DomainAssumption DEF DomainInv, Rows, Existing
    <2>4. QED
      BY <2>1, <2>2, <2>3 DEF Rows
  <1>7. ASSUME NEW t \in Session
        PROVE  SessionOK(t)'
    <2>1. t # None
      BY DomainAssumption
    <2>2. QED
      BY <1>1, <1>2, <1>3, <2>1, OtherSession
  <1>8. QED
    BY <1>4, <1>6, <1>7 DEF DomainInv

LEMMA CreateCustomStep ==
  ASSUME DomainInv, NEW d \in Domain, CreateCustomStoreDomain(d)
  PROVE  DomainInv'
  <1> DEFINE r == [Absent EXCEPT !.status = "pending"]
  <1>1. /\ d \notin Platform /\ row[d].status = "absent"
        /\ \A e \in Platform : StoreOf[d] = StoreOf[e] => row[e].status # "absent"
        /\ Autocommit(d, r)
        /\ UNCHANGED <<phase, goal, waiting>>
    BY DomainAssumption DEF CreateCustomStoreDomain, Siblings, Domains
  <1>2. lock[d] = None
    BY <1>1 DEF DomainInv, Rows, Existing
  <1>4. r \in Row /\ VersionOK(d, r) /\ r.status # "absent" /\ ~r.primary
    BY <1>1 DEF Row, Status, VersionOK, Absent
  <1> HIDE DEF r
  <1>5. Rows'
    BY <1>1, <1>2, <1>4, AutocommitRows
  <1>6. TypeOK'
    BY <1>1, <1>2, <1>4 DEF DomainInv, TypeOK, Autocommit
  <1>7. ASSUME NEW t \in Session
        PROVE  SessionOK(t)'
    <2>1. t # None
      BY DomainAssumption
    <2>2. /\ \A e \in Domain : row'[e] = IF e = d THEN r ELSE row[e]
          /\ \A e \in Domain : work'[e] = IF e = d THEN r ELSE work[e]
          /\ lock' = lock
      BY <1>1 DEF DomainInv, TypeOK, Autocommit
    <2>3. QED
      BY <1>1, <1>2, <1>4, <2>1, <2>2, OtherSession
  <1>8. QED
    BY <1>5, <1>6, <1>7 DEF DomainInv

\* An answer is recorded on a row that still waits for one, or not at all.
LEMMA MarkStep ==
  ASSUME DomainInv, NEW s \in Session, MarkVerified(s) \/ MarkVerificationFailed(s)
  PROVE  DomainInv'
  <1> DEFINE d == goal[s]
             r == [row[d] EXCEPT !.status = "verified", !.verified = TRUE]
             f == [row[d] EXCEPT !.status = "failed"]
  <1>1. /\ phase[s] \in {"match", "mismatch"} /\ lock[d] = None /\ Finish(s)
        /\ \/ Markable(d) /\ (Autocommit(d, r) \/ Autocommit(d, f))
           \/ UNCHANGED <<row, work, lock>>
    BY DEF MarkVerified, MarkVerificationFailed
  <1>2. d \in Domain
    BY <1>1 DEF DomainInv, SessionOK
  <1>3. \A e \in Domain : lock[e] # s
    BY <1>1, DomainAssumption DEF DomainInv, TypeOK, InTransaction
  <1>4. s # None
    BY DomainAssumption
  <1>5. ASSUME NEW x \in {r, f}, Markable(d), Autocommit(d, x)
        PROVE  DomainInv'
    <2>1. /\ row[d] \in Row /\ row[d].status \in {"pending", "failed"} /\ ~row[d].primary
          /\ d \in Platform => row[d].verified
      BY <1>2, <1>5 DEF Markable, Verifiable, DomainInv, TypeOK, Rows, Versions, VersionOK
    <2>2. x \in Row /\ VersionOK(d, x) /\ x.status # "absent" /\ ~x.primary
      <3>1. CASE x = r
        BY <2>1, <3>1 DEF Row, Status, VersionOK
      <3>2. CASE x = f
        BY <2>1, <3>2 DEF Row, Status, VersionOK
      <3>3. QED
        BY <1>5, <3>1, <3>2
    <2>3. \A e \in Platform : StoreOf[d] = StoreOf[e] => row[e].status # "absent"
      BY <1>2, <2>1 DEF DomainInv, Rows, Existing
    <2> HIDE DEF d
    <2>4. Rows'
      BY <1>1, <1>2, <1>5, <2>2, <2>3, AutocommitRows
    <2>5. /\ row' = [row EXCEPT ![d] = x]
          /\ work' = [work EXCEPT ![d] = x]
          /\ lock' = lock
      BY <1>5 DEF Autocommit
    <2>6. TypeOK'
      BY <1>1, <1>2, <1>3, <2>2, <2>5 DEF DomainInv, TypeOK, Finish, Go, Phase
    <2>7. /\ \A e \in Domain : row'[e] = IF e = d THEN x ELSE row[e]
          /\ \A e \in Domain : work'[e] = IF e = d THEN x ELSE work[e]
      BY <2>5 DEF DomainInv, TypeOK
    <2>8. \A t \in Session : SessionOK(t)'
      BY <1>1, <1>2, <1>3, <2>2, <2>5, <2>7, EndSessions
    <2>9. QED
      BY <2>4, <2>6, <2>8 DEF DomainInv
  <1>6. CASE UNCHANGED <<row, work, lock>>
    <2>1. TypeOK'
      BY <1>1, <1>3, <1>6 DEF DomainInv, TypeOK, Finish, Go, Phase
    <2>2. \A t \in Session : SessionOK(t)'
      BY <1>1, <1>3, <1>6, EndSessions
    <2>3. QED
      BY <1>6, <2>1, <2>2, SameRows DEF DomainInv
  <1>7. QED
    BY <1>1, <1>5, <1>6

-----------------------------------------------------------------------------
(* Steps inside a transaction *)

\* Session s writes version r of d under a lock and goes on to its next statement.
WriteAndGo(s, d, r, to, g, W) ==
  /\ lock[d] \in {None, s} /\ Write(s, d, r) /\ UNCHANGED row
  /\ r \in Row /\ VersionOK(d, r) /\ r.status # "absent" /\ row[d].status # "absent"
  /\ r.primary => work[d].primary
  /\ phase[s] # "commit" /\ to \in InTransaction /\ phase' = [phase EXCEPT ![s] = to]
  /\ g \in Domain \cup {None} /\ goal' = [goal EXCEPT ![s] = g]
  /\ W \subseteq waiting[s] /\ waiting' = [waiting EXCEPT ![s] = W]
  /\ to # "commit" => ~r.primary \/ r = row[d]
  /\ to \in {"demote", "demoting", "promote", "count"} =>
       \/ g = d /\ r.verified
       \/ /\ phase[s] \in {"demote", "demoting", "promote", "count"}
          /\ g = goal[s] /\ g # d

LEMMA WriteStep ==
  ASSUME DomainInv, NEW s \in Session, NEW d \in Domain, NEW r, NEW to, NEW g, NEW W,
         WriteAndGo(s, d, r, to, g, W)
  PROVE  DomainInv'
  <1>1. /\ \A e \in Domain : lock'[e] = IF e = d THEN s ELSE lock[e]
        /\ \A e \in Domain : work'[e] = IF e = d THEN r ELSE work[e]
        /\ row' = row
    BY DEF WriteAndGo, DomainInv, TypeOK, Write
  <1>2. s # None
    BY DomainAssumption
  <1>3. TypeOK'
    <2>1. /\ row' \in [Domain -> Row]
          /\ work' \in [Domain -> Row]
          /\ lock' \in [Domain -> Session \cup {None}]
      BY DEF WriteAndGo, DomainInv, TypeOK, Write
    <2>2. /\ phase' \in [Session -> Phase]
          /\ goal' \in [Session -> Domain \cup {None}]
          /\ waiting' \in [Session -> SUBSET Domain]
      BY DEF WriteAndGo, DomainInv, TypeOK, Phase
    <2>3. ASSUME NEW e \in Domain
          PROVE  /\ lock'[e] = None => work'[e] = row'[e]
                 /\ lock'[e] # None => phase'[lock'[e]] \in InTransaction
      BY <1>1, <1>2 DEF WriteAndGo, DomainInv, TypeOK
    <2>4. QED
      BY <2>1, <2>2, <2>3 DEF TypeOK
  <1>4. Rows'
    BY WriteRows DEF WriteAndGo
  <1>5. ASSUME NEW t \in Session
        PROVE  SessionOK(t)'
    <2>1. CASE t # s
      BY <2>1, WriteOthers DEF WriteAndGo, DomainInv, TypeOK
    <2>2. CASE t = s
      <3>1. /\ phase'[s] = to /\ goal'[s] = g /\ waiting'[s] = W
            /\ SessionOK(s)
            /\ waiting[s] \subseteq Domain
        BY DEF WriteAndGo, DomainInv, TypeOK
      <3>2. to \in {"demote", "demoting", "promote", "count"} =>
              g \in Domain /\ lock'[g] = s /\ work'[g].verified
        BY <1>1, <3>1 DEF WriteAndGo, SessionOK
      <3>3. to \notin {"lookup", "match", "mismatch"}
        BY DEF WriteAndGo, InTransaction
      <3>4. ASSUME NEW e \in Domain, lock'[e] = s, work'[e] # row'[e], work'[e].primary
            PROVE  to = "commit"
        BY <1>1, <3>1, <3>4 DEF WriteAndGo, SessionOK, Updated
      <3>5. \A e \in W : row'[e].status # "absent"
        BY <1>1, <3>1 DEF WriteAndGo, SessionOK
      <3>6. QED
        BY <2>2, <3>1, <3>2, <3>3, <3>4, <3>5 DEF SessionOK, Updated
    <2>3. QED
      BY <2>1, <2>2
  <1>6. QED
    BY <1>3, <1>4, <1>5 DEF DomainInv

LEMMA BeginStep ==
  ASSUME DomainInv, NEW s \in Session, NEW d \in Domain,
         \/ BeginActivate(s, d)
         \/ BeginDisable(s, d)
         \/ BeginEnableCustom(s, d)
         \/ BeginEnablePlatform(s, d)
  PROVE  DomainInv'
  <1>1. /\ phase[s] = "idle" /\ lock[d] = None
        /\ row[d].status # "absent"
        /\ goal' = [goal EXCEPT ![s] = d]
        /\ waiting' = [waiting EXCEPT ![s] = waiting[s]]
        /\ UNCHANGED row
    BY DEF BeginActivate, BeginDisable, BeginEnableCustom, BeginEnablePlatform,
           DomainInv, TypeOK
  <1>2. row[d] \in Row /\ VersionOK(d, row[d]) /\ work[d] = row[d]
    BY <1>1 DEF DomainInv, TypeOK, Rows, Versions
  <1>3. CASE BeginActivate(s, d)
    <2>1. row[d].verified
      BY <1>2, <1>3 DEF BeginActivate, VersionOK
    <2>2. WriteAndGo(s, d, row[d], "demote", d, waiting[s])
      BY <1>1, <1>2, <1>3, <2>1 DEF WriteAndGo, BeginActivate, Go, InTransaction
    <2>3. QED
      BY <2>2, WriteStep
  <1>4. CASE BeginDisable(s, d)
    <2> DEFINE r == DisabledRow(d)
               to == IF row[d].primary THEN "fallback" ELSE "commit"
    <2>1. r \in Row /\ VersionOK(d, r) /\ r.status # "absent" /\ ~r.primary
      BY <1>1, <1>2 DEF DisabledRow, Row, Status, VersionOK
    <2>2. Write(s, d, r) /\ phase' = [phase EXCEPT ![s] = to]
      BY <1>4 DEF BeginDisable, Go
    <2>3. to \in InTransaction /\ to \notin {"demote", "demoting", "promote", "count"}
      BY DEF InTransaction
    <2> HIDE DEF r, to
    <2>4. WriteAndGo(s, d, r, to, d, waiting[s])
      BY <1>1, <2>1, <2>2, <2>3 DEF WriteAndGo
    <2>5. QED
      BY <2>4, WriteStep
  <1>5. CASE BeginEnableCustom(s, d)
    <2> DEFINE r == [row[d] EXCEPT
                       !.status = IF row[d].verified THEN "verified" ELSE "pending"]
    <2>1. /\ d \notin Platform /\ row[d].status = "disabled"
          /\ Write(s, d, r) /\ phase' = [phase EXCEPT ![s] = "commit"]
      BY <1>5 DEF BeginEnableCustom, Go
    <2>2. r \in Row /\ VersionOK(d, r) /\ r.status # "absent" /\ ~r.primary
      BY <1>2, <2>1 DEF Row, Status, VersionOK
    <2> HIDE DEF r
    <2>3. WriteAndGo(s, d, r, "commit", d, waiting[s])
      BY <1>1, <2>1, <2>2 DEF WriteAndGo, InTransaction
    <2>4. QED
      BY <2>3, WriteStep
  <1>6. CASE BeginEnablePlatform(s, d)
    <2>1. row[d].verified
      BY <1>1, <1>2, <1>6 DEF BeginEnablePlatform, VersionOK
    <2>2. WriteAndGo(s, d, row[d], "count", d, waiting[s])
      BY <1>1, <1>2, <1>6, <2>1 DEF WriteAndGo, BeginEnablePlatform, Go, InTransaction
    <2>3. QED
      BY <2>2, WriteStep
  <1>7. QED
    BY <1>3, <1>4, <1>5, <1>6

LEMMA DemoteStep ==
  ASSUME DomainInv, NEW s \in Session, NEW d \in Domain, Demote(s, d)
  PROVE  DomainInv'
  <1> DEFINE r == [row[d] EXCEPT !.primary = FALSE]
             W == waiting[s] \ {d}
  <1>1. /\ phase[s] = "demoting" /\ d \in waiting[s] /\ lock[d] = None
        /\ Write(s, d, r)
        /\ waiting' = [waiting EXCEPT ![s] = W]
        /\ UNCHANGED <<row, phase, goal>>
    BY DEF Demote
  <1>2. /\ phase' = [phase EXCEPT ![s] = "demoting"]
        /\ goal' = [goal EXCEPT ![s] = goal[s]]
        /\ goal[s] \in Domain \cup {None}
    BY <1>1 DEF DomainInv, TypeOK
  <1>3. row[d] \in Row /\ VersionOK(d, row[d]) /\ row[d].status # "absent"
    BY <1>1 DEF DomainInv, TypeOK, Rows, Versions, SessionOK
  <1>4. r \in Row /\ VersionOK(d, r) /\ r.status # "absent" /\ ~r.primary
    BY <1>3 DEF Row, VersionOK
  <1>5. goal[s] # d
    BY <1>1, DomainAssumption DEF DomainInv, SessionOK
  <1>6. W \subseteq waiting[s]
    OBVIOUS
  <1> HIDE DEF r, W
  <1>7. WriteAndGo(s, d, r, "demoting", goal[s], W)
    BY <1>1, <1>2, <1>3, <1>4, <1>5, <1>6 DEF WriteAndGo, InTransaction
  <1>8. QED
    BY <1>7, WriteStep

LEMMA FallbackStep ==
  ASSUME DomainInv, NEW s \in Session, NEW d \in Domain, LockFallback(s, d)
  PROVE  DomainInv'
  <1>1. /\ phase[s] = "choosing" /\ d \in waiting[s] /\ lock[d] = None
        /\ Write(s, d, row[d])
        /\ waiting' = [waiting EXCEPT ![s] = {}]
        /\ UNCHANGED row
    BY DEF LockFallback
  <1>2. /\ row[d] \in Row /\ VersionOK(d, row[d]) /\ row[d].status # "absent"
        /\ work[d] = row[d]
    BY <1>1 DEF DomainInv, TypeOK, Rows, Versions, SessionOK
  <1>3. CASE Candidate(s, d)
    <2>1. row[d].verified
      BY <1>1, <1>2, <1>3, DomainAssumption DEF Candidate, Sees, VersionOK
    <2>2. phase' = [phase EXCEPT ![s] = "promote"] /\ goal' = [goal EXCEPT ![s] = d]
      BY <1>3 DEF LockFallback, Go
    <2>3. WriteAndGo(s, d, row[d], "promote", d, {})
      BY <1>1, <1>2, <2>1, <2>2 DEF WriteAndGo, InTransaction
    <2>4. QED
      BY <2>3, WriteStep
  <1>4. CASE ~Candidate(s, d)
    <2>1. /\ phase' = [phase EXCEPT ![s] = "commit"]
          /\ goal' = [goal EXCEPT ![s] = goal[s]]
          /\ goal[s] \in Domain \cup {None}
      BY <1>4 DEF LockFallback, Go, DomainInv, TypeOK
    <2>2. WriteAndGo(s, d, row[d], "commit", goal[s], {})
      BY <1>1, <1>2, <2>1 DEF WriteAndGo, InTransaction
    <2>3. QED
      BY <2>2, WriteStep
  <1>5. QED
    BY <1>3, <1>4

LEMMA CountStep ==
  ASSUME DomainInv, NEW s \in Session, CountPrimaries(s)
  PROVE  DomainInv'
  <1> DEFINE d == goal[s]
             r == [work[d] EXCEPT !.status = "active"]
             W == waiting[s]
  <1>1. phase[s] = "count" /\ UNCHANGED <<row, goal, waiting>>
    BY DEF CountPrimaries
  <1>2. /\ d \in Domain /\ lock[d] = s /\ work[d].verified
        /\ \A e \in W : row[e].status # "absent"
    BY <1>1 DEF DomainInv, SessionOK
  <1>3. /\ waiting' = [waiting EXCEPT ![s] = W]
        /\ goal' = [goal EXCEPT ![s] = d]
        /\ W \in SUBSET Domain
    BY <1>1 DEF DomainInv, TypeOK
  <1>4. CASE Primaries(s) # {}
    <2>1. Write(s, d, r) /\ phase' = [phase EXCEPT ![s] = "commit"]
      BY <1>4 DEF CountPrimaries, Go
    <2>2. row[d].status # "absent" /\ work[d] \in Row /\ VersionOK(d, work[d])
      BY <1>2, DomainAssumption DEF DomainInv, TypeOK, Rows, Versions, Existing
    <2>3. /\ r \in Row /\ VersionOK(d, r) /\ r.status # "absent"
          /\ r.primary => work[d].primary
      BY <1>2, <2>2 DEF Row, Status, VersionOK
    <2> HIDE DEF r
    <2>4. WriteAndGo(s, d, r, "commit", d, W)
      BY <1>1, <1>2, <1>3, <2>1, <2>2, <2>3 DEF WriteAndGo, InTransaction
    <2>5. QED
      BY <1>2, <2>4, WriteStep
  <1>5. CASE Primaries(s) = {}
    <2>1. UNCHANGED <<work, lock>> /\ phase' = [phase EXCEPT ![s] = "promote"]
      BY <1>5 DEF CountPrimaries, Go
    <2>2. /\ phase[s] \in InTransaction /\ phase[s] # "commit" /\ "promote" \in InTransaction
          /\ phase[s] \in {"demote", "demoting", "promote", "count"}
          /\ UNCHANGED <<row, work, lock, goal>>
      BY <1>1, <2>1 DEF InTransaction
    <2>3. W \in SUBSET Domain /\ \A e \in W : row[e].status # "absent"
      BY <1>2, <1>3
    <2>4. waiting' = [waiting EXCEPT ![s] = W]
      BY <1>3
    <2> HIDE DEF W, d
    <2>5. QED
      BY <2>1, <2>2, <2>3, <2>4, StatementStep
  <1>6. QED
    BY <1>4, <1>5

\* The unique index lets goal become the primary only if every other primary of
\* the store, committed or not, has been demoted by the same transaction.
LEMMA PromoteStep ==
  ASSUME DomainInv, NEW s \in Session, Promote(s)
  PROVE  DomainInv'
  <1> DEFINE d == goal[s]
             r == [work[d] EXCEPT !.status = "active", !.primary = TRUE]
  <1>1. /\ phase[s] = "promote"
        /\ ~IndexTaken(s, d) /\ IndexHolders(s, d) = {}
        /\ lock' = [lock EXCEPT ![d] = s]
        /\ work' = [work EXCEPT ![d] = r]
        /\ phase' = [phase EXCEPT ![s] = "commit"]
        /\ UNCHANGED <<row, goal, waiting>>
    BY DEF Promote, Write, Go
  <1>2. SessionOK(s) /\ d \in Domain /\ lock[d] = s /\ work[d].verified
    BY <1>1 DEF DomainInv, SessionOK
  <1>3. s # None
    BY DomainAssumption
  <1>4. work[d] \in Row /\ VersionOK(d, work[d])
    BY <1>2 DEF DomainInv, TypeOK, Rows, Versions
  <1>5. r \in Row /\ VersionOK(d, r) /\ r.status # "absent"
    BY <1>2, <1>4 DEF Row, Status, VersionOK
  <1>6. ASSUME NEW e \in Domain, StoreOf[e] = StoreOf[d], e # d
        PROVE  /\ ~work[e].primary
               /\ row[e].primary => lock[e] = s
    <2>1. e \in Siblings(d) \ {d}
      BY <1>6 DEF Siblings, Domains
    <2>2. ~(row[e].primary /\ ~Updated(e))
      BY <1>1, <2>1 DEF IndexTaken
    <2>3. ~(Updated(e) /\ lock[e] # s /\ (row[e].primary \/ work[e].primary))
      BY <1>1, <2>1 DEF IndexHolders
    <2>4. ~(lock[e] = s /\ Updated(e) /\ work[e].primary)
      BY <1>1, <1>2, <1>6 DEF SessionOK
    <2>5. QED
      BY <2>2, <2>3, <2>4 DEF Updated
  <1> HIDE DEF d, r
  <1>7. /\ lock' = lock
        /\ \A e \in Domain : work'[e] = IF e = d THEN r ELSE work[e]
    BY <1>1, <1>2 DEF DomainInv, TypeOK
  <1>8. TypeOK'
    <2>1. /\ row' \in [Domain -> Row]
          /\ work' \in [Domain -> Row]
          /\ lock' \in [Domain -> Session \cup {None}]
      BY <1>1, <1>5, <1>7 DEF DomainInv, TypeOK
    <2>2. "commit" \in InTransaction
      BY DEF InTransaction
    <2>3. /\ phase' \in [Session -> Phase]
          /\ goal' \in [Session -> Domain \cup {None}]
          /\ waiting' \in [Session -> SUBSET Domain]
      BY <1>1, <2>2 DEF DomainInv, TypeOK, Phase
    <2>4. ASSUME NEW e \in Domain
          PROVE  /\ lock'[e] = None => work'[e] = row'[e]
                 /\ lock'[e] # None => phase'[lock'[e]] \in InTransaction
      BY <1>1, <1>2, <1>3, <1>7, <2>2 DEF DomainInv, TypeOK
    <2>5. QED
      BY <2>1, <2>3, <2>4 DEF TypeOK
  <1>9. Rows'
    <2>1. Versions'
      BY <1>1, <1>5, <1>7 DEF DomainInv, Rows, Versions
    <2>2. OnePrimary'
      <3> SUFFICES ASSUME NEW e \in Domain, NEW f \in Domain,
                          StoreOf[e] = StoreOf[f], e # f
                   PROVE  /\ ~(row[e].primary /\ row[f].primary)
                          /\ ~(work'[e].primary /\ work'[f].primary)
                          /\ work'[e].primary /\ row[f].primary =>
                               lock[e] = lock[f] /\ lock[e] # None
        BY <1>1, <1>7 DEF OnePrimary
      <3>1. /\ ~(row[e].primary /\ row[f].primary)
            /\ ~(work[e].primary /\ work[f].primary)
            /\ work[e].primary /\ row[f].primary => lock[e] = lock[f] /\ lock[e] # None
        BY DEF DomainInv, Rows, OnePrimary
      <3>2. CASE e = d
        <4>1. ~work'[f].primary /\ (row[f].primary => lock[f] = s)
          BY <1>6, <1>7, <3>2
        <4>2. QED
          BY <1>2, <1>3, <3>1, <3>2, <4>1
      <3>3. CASE f = d
        <4>1. ~work'[e].primary
          BY <1>6, <1>7, <3>3
        <4>2. QED
          BY <3>1, <4>1
      <3>4. CASE e # d /\ f # d
        BY <1>7, <3>1, <3>4
      <3>5. QED
        BY <3>2, <3>3, <3>4
    <2>3. Existing'
      BY <1>1, <1>5, <1>7 DEF DomainInv, Rows, Existing
    <2>4. QED
      BY <2>1, <2>2, <2>3 DEF Rows
  <1>10. ASSUME NEW t \in Session
         PROVE  SessionOK(t)'
    <2>1. CASE t = s
      <3>1. phase'[s] = "commit" /\ waiting'[s] = waiting[s] /\ row' = row
        BY <1>1 DEF DomainInv, TypeOK
      <3>2. QED
        BY <1>2, <2>1, <3>1 DEF SessionOK
    <2>2. CASE t # s
      <3>1. phase'[t] = phase[t] /\ goal'[t] = goal[t] /\ waiting'[t] = waiting[t]
        BY <1>1, <2>2 DEF DomainInv, TypeOK
      <3>2. QED
        BY <1>1, <1>2, <1>7, <2>2, <3>1, OtherSession
    <2>3. QED
      BY <2>1, <2>2
  <1>11. QED
    BY <1>8, <1>9, <1>10 DEF DomainInv

LEMMA CommitStep ==
  ASSUME DomainInv, NEW s \in Session, Commit(s)
  PROVE  DomainInv'
  <1>1. /\ row' = [d \in Domain |-> IF lock[d] = s THEN work[d] ELSE row[d]]
        /\ lock' = [d \in Domain |-> IF lock[d] = s THEN None ELSE lock[d]]
        /\ work' = work
        /\ Finish(s)
    BY DEF Commit, Unlocked
  <1>2. s # None
    BY DomainAssumption
  <1>3. TypeOK'
    BY <1>1, <1>2 DEF DomainInv, TypeOK, Finish, Go, Phase
  <1>4. \A e \in Domain : row[e].status # "absent" => row'[e].status # "absent"
    BY <1>1, <1>2 DEF DomainInv, Rows, Existing
  <1>5. \A t \in Session : SessionOK(t)'
    BY <1>1, <1>4, EndSessions
  <1>6. QED
    BY <1>3, <1>5, CommitRows DEF DomainInv

LEMMA RollbackStep ==
  ASSUME DomainInv, NEW s \in Session, Rollback(s)
  PROVE  DomainInv'
  <1>1. /\ work' = [d \in Domain |-> IF lock[d] = s THEN row[d] ELSE work[d]]
        /\ lock' = [d \in Domain |-> IF lock[d] = s THEN None ELSE lock[d]]
        /\ row' = row
        /\ Finish(s)
    BY DEF Rollback, Unlocked
  <1>2. TypeOK'
    BY <1>1 DEF DomainInv, TypeOK, Finish, Go, Phase
  <1>3. \A t \in Session : SessionOK(t)'
    BY <1>1, EndSessions
  <1>4. QED
    BY <1>2, <1>3, RollbackRows DEF DomainInv

-----------------------------------------------------------------------------

LEMMA InitDomainInv == Init => DomainInv
  <1> SUFFICES ASSUME Init PROVE DomainInv
    OBVIOUS
  <1>1. Absent \in Row /\ \A d \in Domain : VersionOK(d, Absent)
    BY DEF Absent, Row, Status, VersionOK
  <1>2. TypeOK
    BY <1>1 DEF Init, TypeOK, Phase
  <1>3. Rows
    BY <1>1 DEF Init, Rows, Versions, OnePrimary, Existing, Absent
  <1>4. \A s \in Session : SessionOK(s)
    BY DomainAssumption DEF Init, SessionOK
  <1>5. QED
    BY <1>2, <1>3, <1>4 DEF DomainInv

LEMMA NextDomainInv == DomainInv /\ [Next]_vars => DomainInv'
  <1> SUFFICES ASSUME DomainInv, [Next]_vars PROVE DomainInv'
    OBVIOUS
  <1>1. CASE UNCHANGED vars
    <2>1. UNCHANGED <<row, work, lock>> /\ UNCHANGED <<phase, goal, waiting>>
      BY <1>1 DEF vars
    <2>2. TypeOK'
      BY <2>1 DEF DomainInv, TypeOK
    <2>3. \A s \in Session : SessionOK(s)'
      BY <2>1, OtherSession
    <2>4. QED
      BY <2>1, <2>2, <2>3, SameRows DEF DomainInv
  <1>2. ASSUME NEW d \in Domain, CreateStoreWithDomain(d) \/ CreateCustomStoreDomain(d)
        PROVE  DomainInv'
    BY <1>2, CreateStoreStep, CreateCustomStep
  <1>3. ASSUME NEW s \in Session, NEW d \in Domain, Begin(s, d)
        PROVE  DomainInv'
    BY <1>3, BeginVerifyStep, BeginStep DEF Begin
  <1>4. ASSUME NEW s \in Session, Continue(s)
        PROVE  DomainInv'
    BY <1>4, LookupStep, MarkStep, QueryStep, PromoteStep, RollbackStep, CountStep,
       CommitStep, DemoteStep, FallbackStep DEF Continue, PromoteConflict
  <1>5. ASSUME NEW s \in Session, Abort(s) \/ DeadlockVictim(s)
        PROVE  DomainInv'
    BY <1>5, RollbackStep DEF Abort, DeadlockVictim
  <1>6. QED
    BY <1>1, <1>2, <1>3, <1>4, <1>5 DEF Next

LEMMA DomainInvServed == DomainInv => PrimaryIsServed
  BY DEF DomainInv, Rows, Versions, OnePrimary, VersionOK, PrimaryIsServed, Served

\* Rows, versions, locks and calls stay well typed; a row that nobody has
\* locked has no uncommitted version, and locks belong to open transactions.
THEOREM TypeCorrect == Spec => []TypeOK
  <1>1. Spec => []DomainInv
    BY InitDomainInv, NextDomainInv, PTL DEF Spec
  <1>2. DomainInv => TypeOK
    BY DEF DomainInv
  <1>3. QED
    BY <1>1, <1>2, PTL

\* ActivateCustomDomainTx, DisableDomainTx, EnableDomainTx and the verification
\* together: is_primary is on one domain of a store at most, that domain is
\* served, and a domain is served only after it was verified.
THEOREM PrimaryIsServedCorrect == Spec => []PrimaryIsServed
  <1>1. Spec => []DomainInv
    BY InitDomainInv, NextDomainInv, PTL DEF Spec
  <1>2. QED
    BY <1>1, DomainInvServed, PTL

-----------------------------------------------------------------------------
(***************************************************************************)
(* What a transaction may still do to the primary.  ModerationHolds and    *)
(* HostHandedOver are about the rows that COMMIT publishes, so the         *)
(* invariant says of every uncommitted version how it differs from the     *)
(* committed one; DeadlocksNeedDisable is about who waits for whom, so it  *)
(* says which rows a call holds while it waits.                            *)
(***************************************************************************)

\* Version new may replace version old of domain d.
MoveOK(d, old, new) ==
  /\ new.verified = old.verified
  /\ old.status = "disabled" /\ new.status # "disabled" =>
       new.status = IF d \in Platform THEN "active"
                    ELSE IF old.verified THEN "verified" ELSE "pending"
  /\ old.status = "verified" => new.status \in {"verified", "active", "disabled"}
  /\ old.status = "active" => new.status \in {"active", "disabled"}

Moves == \A d \in Domain : lock[d] # None => MoveOK(d, row[d], work[d])

\* Session s has taken is_primary from d, which stays in service.
Took(s, d) ==
  lock[d] = s /\ row[d].primary /\ ~work[d].primary /\ work[d].status # "disabled"

Handing(s) ==
  /\ phase[s] \in InTransaction => goal[s] \in Domain
  /\ \A d \in Domain : lock[d] = s => StoreOf[d] = StoreOf[goal[s]]
  /\ phase[s] \in {"demoting", "choosing"} =>
       \A d \in waiting[s] : StoreOf[d] = StoreOf[goal[s]]
  /\ phase[s] \in {"demote", "demoting"} => row[goal[s]].status = "verified"
  /\ phase[s] = "demote" => \A d \in Domain : lock[d] = s => d = goal[s]
  /\ phase[s] = "demoting" =>
       /\ \A d, e \in waiting[s] : d = e
       /\ waiting[s] # {} => \A d \in Domain : lock[d] = s => d = goal[s]
  /\ phase[s] = "promote" /\ row[goal[s]].status = "disabled" => goal[s] \in Platform
  /\ phase[s] = "count" => row[goal[s]].status = "disabled" /\ goal[s] \in Platform
  /\ \A d \in Domain : Took(s, d) =>
       \/ phase[s] \in {"demoting", "promote"}
       \/ phase[s] = "commit" /\ lock[goal[s]] = s /\ work[goal[s]].primary

\* Demotion s may wait for demotion u.
DemoteWaits(s, u) ==
  phase[s] = "demoting" /\ phase[u] = "demoting" /\ goal[u] \in waiting[s]

\* A demotion waits for committed primaries and the goal of a demotion is none.
NoCycle ==
  \A S \in SUBSET Session :
    S # {} => \E s \in S : \A u \in S : ~DemoteWaits(s, u)

HandInv == Moves /\ (\A s \in Session : Handing(s)) /\ NoCycle

\* A step that no session sees: locks stay, and locked rows.
LEMMA HandSame ==
  ASSUME DomainInv, HandInv, UNCHANGED <<lock, phase, goal, waiting>>,
         \A e \in Domain : lock[e] # None => work'[e] = work[e] /\ row'[e] = row[e]
  PROVE  HandInv'
  <1>1. Moves'
    BY DEF HandInv, Moves
  <1>2. ASSUME NEW t \in Session
        PROVE  Handing(t)'
    <2>1. Handing(t) /\ SessionOK(t) /\ t # None
      BY DomainAssumption DEF HandInv, DomainInv
    <2>2. QED
      BY <2>1 DEF Handing, SessionOK, Took, InTransaction
  <1>3. NoCycle'
    BY DEF HandInv, NoCycle, DemoteWaits
  <1>4. QED
    BY <1>1, <1>2, <1>3 DEF HandInv

\* A step of session s leaves the locked rows of the others alone; a statement of
\* s that starts to wait as a demotion waits for no goal of a demotion.
LEMMA HandFrame ==
  ASSUME DomainInv, HandInv, NEW s \in Session,
         \A t \in Session : t # s =>
           phase'[t] = phase[t] /\ goal'[t] = goal[t] /\ waiting'[t] = waiting[t],
         \A e \in Domain : \A t \in Session : t # s => (lock'[e] = t <=> lock[e] = t),
         \A e \in Domain : lock[e] \notin {s, None} => work'[e] = work[e] /\ row'[e] = row[e],
         \A e \in Domain : lock'[e] = s => MoveOK(e, row'[e], work'[e]),
         \A e \in Domain : lock'[e] \in Session \cup {None},
         Handing(s)',
         \/ phase'[s] # "demoting"
         \/ phase[s] = "demoting" /\ goal'[s] = goal[s] /\ waiting'[s] \subseteq waiting[s]
         \/ /\ goal'[s] \notin waiting'[s]
            /\ \A u \in Session : phase[u] = "demoting" => goal[u] \notin waiting'[s]
  PROVE  HandInv'
  <1>1. Moves'
    <2> SUFFICES ASSUME NEW e \in Domain, lock'[e] # None
                 PROVE  MoveOK(e, row'[e], work'[e])
      BY DEF Moves
    <2>1. CASE lock'[e] = s
      BY <2>1
    <2>2. CASE lock'[e] # s
      <3>1. lock'[e] \in Session /\ lock[e] = lock'[e]
        BY <2>2
      <3>2. work'[e] = work[e] /\ row'[e] = row[e]
        BY <2>2, <3>1
      <3>3. QED
        BY <3>1, <3>2 DEF HandInv, Moves
    <2>3. QED
      BY <2>1, <2>2
  <1>2. ASSUME NEW t \in Session
        PROVE  Handing(t)'
    <2>1. CASE t = s
      BY <2>1
    <2>2. CASE t # s
      <3>1. Handing(t) /\ SessionOK(t) /\ t # None
        BY DomainAssumption DEF HandInv, DomainInv
      <3>2. /\ \A e \in Domain : lock'[e] = t <=> lock[e] = t
            /\ \A e \in Domain : lock[e] = t => work'[e] = work[e] /\ row'[e] = row[e]
            /\ phase'[t] = phase[t] /\ goal'[t] = goal[t] /\ waiting'[t] = waiting[t]
        BY <2>2, <3>1
      <3>3. \A e \in Domain : Took(t, e)' => Took(t, e)
        BY <3>2 DEF Took
      <3>4. QED
        BY <3>1, <3>2, <3>3 DEF Handing, SessionOK, Took, InTransaction
    <2>3. QED
      BY <2>1, <2>2
  <1>3. NoCycle'
    <2> SUFFICES ASSUME NEW S \in SUBSET Session, S # {}
                 PROVE  \E t \in S : \A u \in S : ~DemoteWaits(t, u)'
      BY DEF NoCycle
    <2>1. PICK t \in S : \A u \in S : ~DemoteWaits(t, u)
      BY DEF HandInv, NoCycle
    <2>2. CASE s \notin S
      BY <2>1, <2>2 DEF DemoteWaits
    <2>3. CASE s \in S /\ phase'[s] # "demoting"
      BY <2>3 DEF DemoteWaits
    <2>4. CASE phase[s] = "demoting" /\ goal'[s] = goal[s] /\ waiting'[s] \subseteq waiting[s]
      BY <2>1, <2>4 DEF DemoteWaits
    <2>5. CASE /\ s \in S /\ goal'[s] \notin waiting'[s]
               /\ \A u \in Session : phase[u] = "demoting" => goal[u] \notin waiting'[s]
      BY <2>5 DEF DemoteWaits
    <2>6. QED
      BY <2>2, <2>3, <2>4, <2>5
  <1>4. QED
    BY <1>1, <1>2, <1>3 DEF HandInv

\* Session s ends with no lock, as every call does.
LEMMA HandEnd ==
  ASSUME DomainInv, HandInv, NEW s \in Session,
         \A t \in Session : t # s =>
           phase'[t] = phase[t] /\ goal'[t] = goal[t] /\ waiting'[t] = waiting[t],
         \A e \in Domain : lock'[e] = IF lock[e] = s THEN None ELSE lock[e],
         \A e \in Domain : lock[e] \notin {s, None} => work'[e] = work[e] /\ row'[e] = row[e],
         phase'[s] \in {"idle", "lookup", "match", "mismatch"}
  PROVE  HandInv'
  <1>1. /\ s # None /\ None \notin Session
        /\ \A e \in Domain : lock'[e] \in Session \cup {None}
        /\ \A e \in Domain : lock'[e] # s
    BY DomainAssumption DEF DomainInv, TypeOK
  <1>2. \A e \in Domain : \A t \in Session : t # s => (lock'[e] = t <=> lock[e] = t)
    BY <1>1
  <1>3. Handing(s)'
    BY <1>1 DEF Handing, Took, InTransaction
  <1>4. QED
    BY <1>1, <1>2, <1>3, HandFrame

LEMMA HandFinish ==
  ASSUME DomainInv, HandInv, NEW s \in Session, Finish(s),
         \A e \in Domain : lock'[e] = IF lock[e] = s THEN None ELSE lock[e],
         \A e \in Domain : lock[e] \notin {s, None} => work'[e] = work[e] /\ row'[e] = row[e]
  PROVE  HandInv'
  <1>1. /\ phase'[s] = "idle"
        /\ \A t \in Session : t # s =>
             phase'[t] = phase[t] /\ goal'[t] = goal[t] /\ waiting'[t] = waiting[t]
    BY DEF Finish, Go, DomainInv, TypeOK
  <1>2. QED
    BY <1>1, HandEnd

\* Session s writes version r of d and goes on.
LEMMA HandWrite ==
  ASSUME DomainInv, HandInv, NEW s \in Session, NEW d \in Domain, NEW r \in Row,
         NEW to \in Phase, NEW g \in Domain \cup {None}, NEW W \in SUBSET Domain,
         lock[d] \in {None, s}, Write(s, d, r), UNCHANGED row,
         phase' = [phase EXCEPT ![s] = to],
         goal' = [goal EXCEPT ![s] = g],
         waiting' = [waiting EXCEPT ![s] = W],
         MoveOK(d, row[d], r), Handing(s)',
         \/ to # "demoting"
         \/ phase[s] = "demoting" /\ g = goal[s] /\ W \subseteq waiting[s]
  PROVE  HandInv'
  <1>1. /\ \A e \in Domain : lock'[e] = IF e = d THEN s ELSE lock[e]
        /\ \A e \in Domain : work'[e] = IF e = d THEN r ELSE work[e]
        /\ row' = row
    BY DEF DomainInv, TypeOK, Write
  <1>2. s # None
    BY DomainAssumption
  <1>3. /\ \A t \in Session : t # s =>
             phase'[t] = phase[t] /\ goal'[t] = goal[t] /\ waiting'[t] = waiting[t]
        /\ phase'[s] = to /\ goal'[s] = g /\ waiting'[s] = W
    BY DEF DomainInv, TypeOK
  <1>4. /\ \A e \in Domain : \A t \in Session : t # s => (lock'[e] = t <=> lock[e] = t)
        /\ \A e \in Domain : lock'[e] \in Session \cup {None}
        /\ \A e \in Domain : lock[e] \notin {s, None} => work'[e] = work[e] /\ row'[e] = row[e]
    BY <1>1, DomainAssumption DEF DomainInv, TypeOK
  <1>5. ASSUME NEW e \in Domain, lock'[e] = s
        PROVE  MoveOK(e, row'[e], work'[e])
    BY <1>1, <1>2, <1>5 DEF HandInv, Moves
  <1>6. QED
    BY <1>3, <1>4, <1>5, HandFrame

\* Session s goes on and writes nothing.
LEMMA HandGo ==
  ASSUME DomainInv, HandInv, NEW s \in Session, UNCHANGED <<row, work, lock, goal>>,
         NEW to \in Phase, NEW W \in SUBSET Domain,
         phase' = [phase EXCEPT ![s] = to],
         waiting' = [waiting EXCEPT ![s] = W],
         Handing(s)',
         \/ to # "demoting"
         \/ goal[s] \notin W /\ \A u \in Session : phase[u] = "demoting" => goal[u] \notin W
  PROVE  HandInv'
  <1>1. /\ \A t \in Session : t # s =>
             phase'[t] = phase[t] /\ goal'[t] = goal[t] /\ waiting'[t] = waiting[t]
        /\ phase'[s] = to /\ goal'[s] = goal[s] /\ waiting'[s] = W
    BY DEF DomainInv, TypeOK
  <1>2. /\ \A e \in Domain : lock'[e] \in Session \cup {None}
        /\ \A e \in Domain : lock'[e] = s => MoveOK(e, row'[e], work'[e])
    BY DomainAssumption DEF HandInv, Moves, DomainInv, TypeOK
  <1>3. QED
    BY <1>1, <1>2, HandFrame

\* A session outside a transaction holds no row.
LEMMA IdleHolds ==
  ASSUME DomainInv, NEW s \in Session, phase[s] \notin InTransaction
  PROVE  \A e \in Domain : lock[e] # s
  BY DomainAssumption DEF DomainInv, TypeOK

LEMMA HandVerify ==
  ASSUME DomainInv, HandInv, NEW s \in Session,
         \/ \E d \in Domain : BeginVerify(s, d)
         \/ LookupTXT(s) \/ MarkVerified(s) \/ MarkVerificationFailed(s)
  PROVE  HandInv'
  <1>1. phase[s] \in {"idle", "lookup", "match", "mismatch"}
    BY DEF BeginVerify, LookupTXT, MarkVerified, MarkVerificationFailed
  <1>2. \A e \in Domain : lock[e] # s
    BY <1>1, IdleHolds DEF InTransaction
  <1>3. /\ lock' = lock
        /\ \A e \in Domain : lock[e] \notin {s, None} => work'[e] = work[e] /\ row'[e] = row[e]
    <2>1. CASE UNCHANGED <<row, work, lock>>
      BY <2>1
    <2>2. ASSUME NEW r, lock[goal[s]] = None, Autocommit(goal[s], r)
          PROVE  /\ lock' = lock
                 /\ \A e \in Domain :
                      lock[e] # None => work'[e] = work[e] /\ row'[e] = row[e]
      BY <2>2 DEF Autocommit, DomainInv, TypeOK
    <2>3. QED
      BY <2>1, <2>2 DEF BeginVerify, LookupTXT, MarkVerified, MarkVerificationFailed
  <1>4. CASE Finish(s)
    BY <1>2, <1>3, <1>4, HandFinish
  <1>5. CASE ~Finish(s)
    <2>1. /\ phase'[s] \in {"idle", "lookup", "match", "mismatch"}
          /\ \A t \in Session : t # s =>
               phase'[t] = phase[t] /\ goal'[t] = goal[t] /\ waiting'[t] = waiting[t]
      BY <1>5 DEF BeginVerify, LookupTXT, MarkVerified, MarkVerificationFailed, Go,
                  DomainInv, TypeOK
    <2>2. QED
      BY <1>2, <1>3, <2>1, HandEnd
  <1>6. QED
    BY <1>4, <1>5

LEMMA HandCreate ==
  ASSUME DomainInv, HandInv, NEW d \in Domain,
         CreateStoreWithDomain(d) \/ CreateCustomStoreDomain(d)
  PROVE  HandInv'
  <1>1. row[d].status = "absent" /\ UNCHANGED <<lock, phase, goal, waiting>>
    BY DEF CreateStoreWithDomain, CreateCustomStoreDomain, Autocommit
  <1>2. lock[d] = None
    BY <1>1 DEF DomainInv, Rows, Existing
  <1>3. \A e \in Domain : e # d => work'[e] = work[e] /\ row'[e] = row[e]
    BY DEF CreateStoreWithDomain, CreateCustomStoreDomain, Autocommit, DomainInv, TypeOK
  <1>4. QED
    BY <1>1, <1>2, <1>3, HandSame

\* The first statement of a transaction locks the row the call is about.
LEMMA HandBegin ==
  ASSUME DomainInv, HandInv, NEW s \in Session, NEW d \in Domain,
         NEW r \in Row, NEW to \in {"demote", "fallback", "commit", "count"},
         phase[s] = "idle", lock[d] = None, Write(s, d, r),
         goal' = [goal EXCEPT ![s] = d], phase' = [phase EXCEPT ![s] = to],
         UNCHANGED <<row, waiting>>,
         MoveOK(d, row[d], r), row[d].primary => r.primary \/ r.status = "disabled",
         to = "demote" => row[d].status = "verified",
         to = "count" => row[d].status = "disabled" /\ d \in Platform
  PROVE  HandInv'
  <1>1. \A e \in Domain : lock[e] # s
    BY IdleHolds DEF InTransaction
  <1>2. /\ \A e \in Domain : lock'[e] = IF e = d THEN s ELSE lock[e]
        /\ \A e \in Domain : work'[e] = IF e = d THEN r ELSE work[e]
        /\ phase'[s] = to /\ goal'[s] = d
    BY DEF DomainInv, TypeOK, Write
  <1>3. \A e \in Domain : lock'[e] = s <=> e = d
    BY <1>1, <1>2
  <1>4. \A e \in Domain : ~Took(s, e)'
    BY <1>2, <1>3 DEF Took
  <1>5. Handing(s)'
    BY <1>2, <1>3, <1>4 DEF Handing
  <1>6. to \in Phase /\ to # "demoting"
    BY DEF Phase, InTransaction
  <1>7. waiting[s] \in SUBSET Domain /\ waiting' = [waiting EXCEPT ![s] = waiting[s]]
    BY DEF DomainInv, TypeOK
  <1>8. QED
    BY <1>5, <1>6, <1>7, HandWrite

LEMMA HandBegins ==
  ASSUME DomainInv, HandInv, NEW s \in Session, NEW d \in Domain,
         \/ BeginActivate(s, d)
         \/ BeginDisable(s, d)
         \/ BeginEnableCustom(s, d)
         \/ BeginEnablePlatform(s, d)
  PROVE  HandInv'
  <1>1. row[d] \in Row /\ VersionOK(d, row[d])
    BY DEF DomainInv, TypeOK, Rows, Versions
  <1>2. CASE BeginActivate(s, d)
    <2>1. MoveOK(d, row[d], row[d])
      BY <1>2 DEF BeginActivate, MoveOK
    <2>2. QED
      BY <1>1, <1>2, <2>1, HandBegin DEF BeginActivate, Go
  <1>3. CASE BeginDisable(s, d)
    <2> DEFINE r == DisabledRow(d)
               to == IF row[d].primary THEN "fallback" ELSE "commit"
    <2>1. r \in Row /\ MoveOK(d, row[d], r) /\ r.status = "disabled"
      BY <1>1, <1>3 DEF DisabledRow, Row, Status, MoveOK
    <2>2. /\ phase[s] = "idle" /\ lock[d] = None /\ Write(s, d, r)
          /\ goal' = [goal EXCEPT ![s] = d] /\ phase' = [phase EXCEPT ![s] = to]
          /\ UNCHANGED <<row, waiting>>
      BY <1>3 DEF BeginDisable, Go
    <2>3. to \in {"demote", "fallback", "commit", "count"} /\ to \notin {"demote", "count"}
      OBVIOUS
    <2> HIDE DEF r, to
    <2>4. QED
      BY <2>1, <2>2, <2>3, HandBegin
  <1>4. CASE BeginEnableCustom(s, d)
    <2> DEFINE r == [row[d] EXCEPT
                       !.status = IF row[d].verified THEN "verified" ELSE "pending"]
    <2>1. /\ phase[s] = "idle" /\ lock[d] = None /\ Write(s, d, r)
          /\ goal' = [goal EXCEPT ![s] = d] /\ phase' = [phase EXCEPT ![s] = "commit"]
          /\ UNCHANGED <<row, waiting>>
          /\ d \notin Platform /\ row[d].status = "disabled"
      BY <1>4 DEF BeginEnableCustom, Go
    <2>2. r \in Row /\ MoveOK(d, row[d], r) /\ ~row[d].primary
      BY <1>1, <2>1 DEF Row, Status, MoveOK, VersionOK
    <2> HIDE DEF r
    <2>3. QED
      BY <2>1, <2>2, HandBegin
  <1>5. CASE BeginEnablePlatform(s, d)
    <2>1. MoveOK(d, row[d], row[d])
      BY <1>5 DEF BeginEnablePlatform, MoveOK
    <2>2. QED
      BY <1>1, <1>5, <2>1, HandBegin DEF BeginEnablePlatform, Go
  <1>6. QED
    BY <1>2, <1>3, <1>4, <1>5

\* The statement that demotes finds one row at most, a committed primary.
LEMMA HandFindPrimary ==
  ASSUME DomainInv, HandInv, NEW s \in Session, FindPrimary(s)
  PROVE  HandInv'
  <1> DEFINE W == Primaries(s)
  <1>1. /\ phase[s] = "demote"
        /\ waiting' = [waiting EXCEPT ![s] = W]
        /\ phase' = [phase EXCEPT ![s] = "demoting"]
        /\ UNCHANGED <<row, work, lock, goal>>
    BY DEF FindPrimary, Go
  <1>2. /\ goal[s] \in Domain /\ row[goal[s]].status = "verified"
        /\ \A d \in Domain : lock[d] = s => d = goal[s] /\ StoreOf[d] = StoreOf[goal[s]]
        /\ \A d \in Domain : lock[d] = s /\ Updated(d) => ~work[d].primary
    BY <1>1 DEF HandInv, Handing, DomainInv, SessionOK
  <1>3. /\ \A d, e \in Domain : StoreOf[d] = StoreOf[e] /\ row[d].primary /\ row[e].primary => d = e
        /\ \A d \in Domain : row[d].primary => row[d].status # "verified"
    BY DEF DomainInv, Rows, OnePrimary, Versions, VersionOK
  <1>4. \A d \in W : d \in Domain /\ StoreOf[d] = StoreOf[goal[s]] /\ row[d].primary
    BY <1>2, <1>3 DEF Primaries, Siblings, Domains, Sees, Updated
  <1>5. /\ W \in SUBSET Domain
        /\ \A d, e \in W : d = e
        /\ goal[s] \notin W
    BY <1>2, <1>3, <1>4
  <1>6. \A u \in Session : phase[u] = "demoting" => goal[u] \notin W
    BY <1>3, <1>4 DEF HandInv, Handing
  <1> HIDE DEF W
  <1>7. phase'[s] = "demoting" /\ goal'[s] = goal[s] /\ waiting'[s] = W
    BY <1>1, <1>5 DEF DomainInv, TypeOK
  <1>8. Handing(s)'
    BY <1>1, <1>2, <1>4, <1>5, <1>7 DEF Handing, Took
  <1>9. "demoting" \in Phase
    BY DEF Phase, InTransaction
  <1>10. QED
    BY <1>1, <1>5, <1>6, <1>8, <1>9, HandGo

LEMMA HandQuery ==
  ASSUME DomainInv, HandInv, NEW s \in Session, Demoted(s) \/ FindFallback(s)
  PROVE  HandInv'
  <1>1. Handing(s)
    BY DEF HandInv
  <1>2. CASE Demoted(s)
    <2>1. /\ phase[s] = "demoting" /\ waiting[s] = {}
          /\ waiting' = [waiting EXCEPT ![s] = {}]
          /\ phase' = [phase EXCEPT ![s] = "promote"]
          /\ UNCHANGED <<row, work, lock, goal>>
      BY <1>2 DEF Demoted, Go, DomainInv, TypeOK
    <2>2. phase'[s] = "promote" /\ "promote" \in Phase
      BY <2>1 DEF DomainInv, TypeOK, Phase, InTransaction
    <2>3. Handing(s)'
      BY <1>1, <2>1, <2>2 DEF Handing, Took, InTransaction
    <2>4. QED
      BY <2>1, <2>2, <2>3, HandGo
  <1>3. CASE FindFallback(s)
    <2> DEFINE found == {d \in Siblings(goal[s]) : Candidate(s, d)}
               to == IF found = {} THEN "commit" ELSE "choosing"
    <2>1. /\ phase[s] = "fallback"
          /\ waiting' = [waiting EXCEPT ![s] = found]
          /\ phase' = [phase EXCEPT ![s] = to]
          /\ UNCHANGED <<row, work, lock, goal>>
      BY <1>3 DEF FindFallback, Go
    <2>2. found \in SUBSET Domain /\ \A d \in found : StoreOf[d] = StoreOf[goal[s]]
      BY DEF Siblings, Domains
    <2>3. to \in Phase /\ to \in {"commit", "choosing"}
      BY DEF Phase, InTransaction
    <2> HIDE DEF found, to
    <2>4. phase'[s] = to /\ waiting'[s] = found
      BY <2>1, <2>2 DEF DomainInv, TypeOK
    <2>5. \A d \in Domain : ~Took(s, d)'
      BY <1>1, <2>1 DEF Handing, Took
    <2>6. Handing(s)'
      BY <1>1, <2>1, <2>2, <2>3, <2>4, <2>5 DEF Handing, InTransaction
    <2>7. QED
      BY <2>1, <2>2, <2>3, <2>6, HandGo
  <1>4. QED
    BY <1>2, <1>3

LEMMA HandDemote ==
  ASSUME DomainInv, HandInv, NEW s \in Session, NEW d \in Domain, Demote(s, d)
  PROVE  HandInv'
  <1> DEFINE r == [row[d] EXCEPT !.primary = FALSE]
             W == waiting[s] \ {d}
  <1>1. /\ phase[s] = "demoting" /\ d \in waiting[s] /\ lock[d] = None
        /\ Write(s, d, r)
        /\ waiting' = [waiting EXCEPT ![s] = W]
        /\ UNCHANGED <<row, phase, goal>>
    BY DEF Demote
  <1>2. /\ phase' = [phase EXCEPT ![s] = "demoting"]
        /\ goal' = [goal EXCEPT ![s] = goal[s]]
        /\ goal[s] \in Domain /\ "demoting" \in Phase
        /\ row[d] \in Row
    BY <1>1 DEF DomainInv, TypeOK, SessionOK, Phase, InTransaction
  <1>3. Handing(s) /\ W = {} /\ StoreOf[d] = StoreOf[goal[s]]
    BY <1>1 DEF HandInv, Handing
  <1>4. r \in Row /\ MoveOK(d, row[d], r)
    BY <1>2 DEF Row, MoveOK
  <1> HIDE DEF r, W
  <1>5. /\ \A e \in Domain : lock'[e] = IF e = d THEN s ELSE lock[e]
        /\ phase'[s] = "demoting" /\ goal'[s] = goal[s] /\ waiting'[s] = {}
    BY <1>1, <1>3 DEF DomainInv, TypeOK, Write
  <1>6. Handing(s)'
    BY <1>1, <1>2, <1>3, <1>5 DEF Handing
  <1>7. W \in SUBSET Domain /\ goal[s] \in Domain \cup {None} /\ W \subseteq waiting[s]
    BY <1>2, <1>3
  <1>8. lock[d] \in {None, s} /\ UNCHANGED row
    BY <1>1
  <1>9. QED
    BY <1>1, <1>2, <1>4, <1>6, <1>7, <1>8, HandWrite

LEMMA HandFallback ==
  ASSUME DomainInv, HandInv, NEW s \in Session, NEW d \in Domain, LockFallback(s, d)
  PROVE  HandInv'
  <1> DEFINE to == IF Candidate(s, d) THEN "promote" ELSE "commit"
             g == IF Candidate(s, d) THEN d ELSE goal[s]
  <1>1. /\ phase[s] = "choosing" /\ d \in waiting[s] /\ lock[d] = None
        /\ Write(s, d, row[d])
        /\ waiting' = [waiting EXCEPT ![s] = {}]
        /\ phase' = [phase EXCEPT ![s] = to]
        /\ goal' = [goal EXCEPT ![s] = g]
        /\ UNCHANGED row
    BY DEF LockFallback, Go, DomainInv, TypeOK
  <1>2. /\ to \in Phase /\ to \in {"promote", "commit"}
        /\ to = "promote" => g = d /\ d \in Platform
        /\ g \in {d, goal[s]}
    BY DEF Phase, InTransaction, Candidate
  <1>3. /\ g \in Domain \cup {None}
        /\ row[d] \in Row /\ MoveOK(d, row[d], row[d])
    BY <1>2 DEF DomainInv, TypeOK, MoveOK
  <1>4. Handing(s) /\ StoreOf[d] = StoreOf[goal[s]]
    BY <1>1 DEF HandInv, Handing
  <1> HIDE DEF to, g
  <1>5. /\ \A e \in Domain : lock'[e] = IF e = d THEN s ELSE lock[e]
        /\ \A e \in Domain : work'[e] = IF e = d THEN row[d] ELSE work[e]
        /\ phase'[s] = to /\ goal'[s] = g /\ waiting'[s] = {}
    BY <1>1, <1>3 DEF DomainInv, TypeOK, Write
  <1>6. \A e \in Domain : ~Took(s, e)'
    BY <1>1, <1>4, <1>5 DEF Handing, Took
  <1>7. g \in Domain /\ \A e \in Domain : lock'[e] = s => StoreOf[e] = StoreOf[g]
    <2>1. goal[s] \in Domain /\ StoreOf[g] = StoreOf[goal[s]]
      BY <1>1, <1>2, <1>4 DEF Handing, InTransaction
    <2>2. QED
      BY <1>2, <1>4, <1>5, <2>1 DEF Handing
  <1>8. Handing(s)'
    BY <1>1, <1>2, <1>5, <1>6, <1>7 DEF Handing
  <1>9. lock[d] \in {None, s} /\ UNCHANGED row /\ {} \in SUBSET Domain
    BY <1>1
  <1>10. to \in Phase /\ to # "demoting"
    BY <1>2
  <1>11. QED
    BY <1>1, <1>3, <1>8, <1>9, <1>10, HandWrite

\* A platform domain that is enabled becomes active, as the primary or not.
LEMMA HandPromote ==
  ASSUME DomainInv, HandInv, NEW s \in Session, Promote(s) \/ CountPrimaries(s)
  PROVE  HandInv'
  <1> DEFINE d == goal[s]
             p == [work[d] EXCEPT !.status = "active", !.primary = TRUE]
             c == [work[d] EXCEPT !.status = "active"]
             W == waiting[s]
  <1>1. phase[s] \in {"promote", "count"} /\ UNCHANGED <<row, goal, waiting>>
    BY DEF Promote, CountPrimaries
  <1>2. /\ d \in Domain /\ lock[d] = s /\ work[d].verified
        /\ Handing(s) /\ W \in SUBSET Domain /\ work[d] \in Row
        /\ MoveOK(d, row[d], work[d])
    BY <1>1, DomainAssumption DEF DomainInv, TypeOK, SessionOK, HandInv, Moves
  <1>3. row[d].status = "disabled" => d \in Platform /\ ~row[d].primary
    BY <1>1, <1>2 DEF Handing, DomainInv, Rows, Versions, VersionOK
  <1>4. /\ goal' = [goal EXCEPT ![s] = d]
        /\ waiting' = [waiting EXCEPT ![s] = W]
        /\ d \in Domain \cup {None}
        /\ "commit" \in Phase /\ "promote" \in Phase
    BY <1>1, <1>2 DEF DomainInv, TypeOK, Phase, InTransaction
  <1>5. ASSUME NEW r \in {p, c}, Write(s, d, r), phase' = [phase EXCEPT ![s] = "commit"],
               r.primary \/ ~row[d].primary,
               r.primary \/ phase[s] = "count"
        PROVE  HandInv'
    <2>1. r \in Row /\ MoveOK(d, row[d], r)
      BY <1>2, <1>3 DEF Row, Status, MoveOK
    <2> HIDE DEF d, p, c, W
    <2>2. /\ \A e \in Domain : lock'[e] = lock[e]
          /\ \A e \in Domain : work'[e] = IF e = d THEN r ELSE work[e]
          /\ phase'[s] = "commit" /\ goal'[s] = d /\ waiting'[s] = W
      BY <1>1, <1>2, <1>4, <1>5 DEF DomainInv, TypeOK, Write
    <2>3. \A e \in Domain : Took(s, e)' => r.primary
      BY <1>1, <1>2, <1>5, <2>2 DEF Handing, Took
    <2>4. Handing(s)'
      <3>1. \A e \in Domain : lock[e] = s => StoreOf[e] = StoreOf[d]
        BY <1>2 DEF Handing, d
      <3>2. QED
        BY <1>2, <2>2, <2>3, <3>1 DEF Handing
    <2>5. QED
      BY <1>1, <1>2, <1>4, <1>5, <2>1, <2>4, HandWrite
  <1>6. CASE Promote(s)
    <2>1. /\ Write(s, d, p) /\ phase' = [phase EXCEPT ![s] = "commit"]
          /\ p.primary
      BY <1>2, <1>6 DEF Promote, Go, Row
    <2>2. QED
      BY <1>5, <2>1
  <1>7. CASE CountPrimaries(s) /\ Primaries(s) # {}
    <2>1. /\ Write(s, d, c) /\ phase' = [phase EXCEPT ![s] = "commit"]
          /\ phase[s] = "count"
      BY <1>7 DEF CountPrimaries, Go
    <2>2. ~row[d].primary
      BY <1>2, <1>3, <2>1 DEF Handing
    <2>3. QED
      BY <1>5, <2>1, <2>2
  <1>8. CASE CountPrimaries(s) /\ Primaries(s) = {}
    <2>1. /\ phase' = [phase EXCEPT ![s] = "promote"] /\ UNCHANGED <<row, work, lock, goal>>
          /\ phase[s] = "count"
      BY <1>8 DEF CountPrimaries, Go
    <2>2. phase'[s] = "promote" /\ waiting'[s] = W
      BY <1>4, <2>1 DEF DomainInv, TypeOK
    <2>3. Handing(s)'
      BY <1>2, <2>1, <2>2 DEF Handing, Took
    <2> HIDE DEF W
    <2>4. QED
      BY <1>2, <1>4, <2>1, <2>3, HandGo
  <1>9. QED
    BY <1>6, <1>7, <1>8

LEMMA HandEnds ==
  ASSUME DomainInv, HandInv, NEW s \in Session, Commit(s) \/ Rollback(s)
  PROVE  HandInv'
  <1>1. /\ Finish(s)
        /\ lock' = [d \in Domain |-> IF lock[d] = s THEN None ELSE lock[d]]
        /\ \A e \in Domain : lock[e] # s => work'[e] = work[e] /\ row'[e] = row[e]
    BY DEF Commit, Rollback, Unlocked
  <1>2. QED
    BY <1>1, HandFinish

LEMMA InitHandInv == Init => HandInv
  <1> SUFFICES ASSUME Init PROVE HandInv
    OBVIOUS
  <1>1. Moves /\ \A s \in Session : Handing(s)
    BY DomainAssumption DEF Init, Moves, Handing, Took, InTransaction
  <1>2. NoCycle
    BY DEF Init, NoCycle, DemoteWaits
  <1>3. QED
    BY <1>1, <1>2 DEF HandInv

LEMMA NextHandInv == DomainInv /\ HandInv /\ [Next]_vars => HandInv'
  <1> SUFFICES ASSUME DomainInv, HandInv, [Next]_vars PROVE HandInv'
    OBVIOUS
  <1>1. CASE UNCHANGED vars
    BY <1>1, HandSame DEF vars
  <1>2. ASSUME NEW d \in Domain, CreateStoreWithDomain(d) \/ CreateCustomStoreDomain(d)
        PROVE  HandInv'
    BY <1>2, HandCreate
  <1>3. ASSUME NEW s \in Session, NEW d \in Domain, Begin(s, d)
        PROVE  HandInv'
    BY <1>3, HandVerify, HandBegins DEF Begin
  <1>4. ASSUME NEW s \in Session, Continue(s)
        PROVE  HandInv'
    BY <1>4, HandVerify, HandFindPrimary, HandQuery, HandPromote, HandEnds, HandDemote,
       HandFallback DEF Continue, PromoteConflict
  <1>5. ASSUME NEW s \in Session, Abort(s) \/ DeadlockVictim(s)
        PROVE  HandInv'
    BY <1>5, HandEnds DEF Abort, DeadlockVictim
  <1>6. QED
    BY <1>1, <1>2, <1>3, <1>4, <1>5 DEF Next

LEMMA AlwaysHandInv == Spec => [](DomainInv /\ HandInv)
  <1>1. Init => DomainInv /\ HandInv
    BY InitDomainInv, InitHandInv
  <1>2. (DomainInv /\ HandInv) /\ [Next]_vars => (DomainInv /\ HandInv)'
    BY NextDomainInv, NextHandInv
  <1>3. QED
    BY <1>1, <1>2, PTL DEF Spec

-----------------------------------------------------------------------------
(* The theorems about concurrent moderation *)

\* Two sessions that wait for each other's updates of is_primary: one promotes
\* and waits for the holder of the committed primary, which is a promotion too.
LEMMA PromoteWaits ==
  ASSUME DomainInv, HandInv, NEW S \in SUBSET Session, NEW s \in S,
         Deadlocked(S), \A u \in S : phase[u] # "choosing"
  PROVE  phase[s] = "demoting"
  <1>1. \A u \in S : phase[u] \in {"demoting", "promote"}
    BY DEF Deadlocked, WaitsFor
  <1> SUFFICES ASSUME phase[s] = "promote" PROVE FALSE
    BY <1>1
  \* A promotion in S waits for a holder in S of the committed primary.
  <1>2. ASSUME NEW u \in S, phase[u] = "promote"
        PROVE  \E e \in Domain :
                 /\ StoreOf[e] = StoreOf[goal[u]] /\ row[e].primary
                 /\ lock[e] \in S /\ lock[e] # u
    <2>1. WaitsFor(u) \cap S # {} /\ WaitsFor(u) = IndexHolders(u, goal[u])
      BY <1>2 DEF Deadlocked, WaitsFor
    <2>2. PICK e \in Siblings(goal[u]) \ {goal[u]} :
                 /\ lock[e] \in S /\ lock[e] # u
                 /\ Updated(e) /\ (row[e].primary \/ work[e].primary)
      BY <2>1 DEF IndexHolders
    <2>3. e \in Domain /\ StoreOf[e] = StoreOf[goal[u]]
      BY <2>2 DEF Siblings, Domains
    <2>4. ~work[e].primary
      BY <1>1, <2>2, <2>3 DEF DomainInv, SessionOK
    <2>5. QED
      BY <2>2, <2>3, <2>4
  <1>3. PICK e \in Domain :
               /\ StoreOf[e] = StoreOf[goal[s]] /\ row[e].primary
               /\ lock[e] \in S /\ lock[e] # s
    BY <1>2
  <1> DEFINE v == lock[e]
  <1>4. CASE phase[v] = "demoting"
    <2>1. waiting[v] # {}
      BY <1>3, <1>4 DEF Deadlocked, WaitsFor
    <2>2. e = goal[v] /\ row[goal[v]].status = "verified"
      BY <1>3, <1>4, <2>1 DEF HandInv, Handing
    <2>3. QED
      BY <1>3, <2>2 DEF DomainInv, Rows, Versions, VersionOK
  <1>5. CASE phase[v] = "promote"
    <2>1. PICK f \in Domain :
                 /\ StoreOf[f] = StoreOf[goal[v]] /\ row[f].primary
                 /\ lock[f] # v
      BY <1>2, <1>3, <1>5
    <2>2. StoreOf[e] = StoreOf[goal[v]]
      BY <1>3 DEF HandInv, Handing
    <2>3. QED
      BY <1>3, <2>1, <2>2 DEF DomainInv, Rows, OnePrimary
  <1>6. QED
    BY <1>1, <1>3, <1>4, <1>5

LEMMA HandInvDeadlocks == DomainInv /\ HandInv => DeadlocksNeedDisable
  <1> SUFFICES ASSUME DomainInv, HandInv, NEW S \in SUBSET Session, Deadlocked(S),
                      \A s \in S : phase[s] # "choosing"
               PROVE  FALSE
    BY DEF DeadlocksNeedDisable
  <1>1. \A s \in S : phase[s] = "demoting"
    BY PromoteWaits
  <1>2. PICK s \in S : \A u \in S : ~DemoteWaits(s, u)
    BY DEF HandInv, NoCycle, Deadlocked
  <1>3. PICK d \in waiting[s] : lock[d] \in S
    BY <1>1, <1>2 DEF Deadlocked, WaitsFor
  <1>4. d \in Domain
    BY <1>2, <1>3 DEF DomainInv, TypeOK
  <1>5. waiting[lock[d]] # {}
    BY <1>1, <1>3 DEF Deadlocked, WaitsFor
  <1>6. d = goal[lock[d]]
    BY <1>1, <1>3, <1>4, <1>5 DEF HandInv, Handing
  <1>7. QED
    BY <1>1, <1>2, <1>3, <1>6 DEF DemoteWaits

\* What one step may publish of domain d.
ModerationStep(d) ==
  LET old == row[d].status
      new == row'[d].status
  IN  /\ old = "disabled" /\ new # "disabled" =>
           /\ row'[d].verified = row[d].verified
           /\ \E s \in Session : lock[d] = s /\ phase[s] = "commit"
           /\ new = IF d \in Platform THEN "active"
                    ELSE IF row[d].verified THEN "verified" ELSE "pending"
      /\ old = "verified" => new \in {"verified", "active", "disabled"}
      /\ old = "active" => new \in {"active", "disabled"}

\* A step publishes versions by COMMIT, or changes one row that is new or waits
\* for its verification.
LEMMA RowChanges ==
  ASSUME DomainInv, Next
  PROVE  \/ row' = row
         \/ \E s \in Session : Commit(s)
         \/ \E d \in Domain :
              /\ row[d].status \in {"absent", "pending", "failed"}
              /\ \A e \in Domain : e # d => row'[e] = row[e]
  <1>1. ASSUME NEW d \in Domain, CreateStoreWithDomain(d) \/ CreateCustomStoreDomain(d)
        PROVE  /\ row[d].status = "absent"
               /\ \A e \in Domain : e # d => row'[e] = row[e]
    BY <1>1 DEF CreateStoreWithDomain, CreateCustomStoreDomain, Autocommit, DomainInv, TypeOK
  <1>2. ASSUME NEW s \in Session, MarkVerified(s) \/ MarkVerificationFailed(s), row' # row
        PROVE  /\ goal[s] \in Domain /\ row[goal[s]].status \in {"pending", "failed"}
               /\ \A e \in Domain : e # goal[s] => row'[e] = row[e]
    <2>1. goal[s] \in Domain
      BY <1>2 DEF MarkVerified, MarkVerificationFailed, DomainInv, SessionOK
    <2>2. QED
      BY <1>2, <2>1 DEF MarkVerified, MarkVerificationFailed, Markable, Verifiable,
                        Autocommit, DomainInv, TypeOK
  <1>3. ASSUME NEW s \in Session, NEW d \in Domain, Begin(s, d)
        PROVE  row' = row
    BY <1>3 DEF Begin, BeginVerify, BeginActivate, BeginDisable, BeginEnableCustom,
                BeginEnablePlatform
  <1>4. ASSUME NEW s \in Session, Abort(s) \/ DeadlockVictim(s) \/ PromoteConflict(s)
        PROVE  row' = row
    BY <1>4 DEF Abort, DeadlockVictim, PromoteConflict, Rollback
  <1>5. ASSUME NEW s \in Session,
               \/ LookupTXT(s) \/ FindPrimary(s) \/ Demoted(s) \/ Promote(s)
               \/ FindFallback(s) \/ CountPrimaries(s)
               \/ \E d \in Domain : Demote(s, d) \/ LockFallback(s, d)
        PROVE  row' = row
    BY <1>5 DEF LookupTXT, FindPrimary, Demoted, Promote, FindFallback, CountPrimaries,
                Demote, LockFallback
  <1>6. QED
    BY <1>1, <1>2, <1>3, <1>4, <1>5 DEF Next, Continue

LEMMA ModerationHeld ==
  ASSUME DomainInv, HandInv, Next, NEW d \in Domain
  PROVE  ModerationStep(d)
  <1>1. CASE row'[d] = row[d]
    BY <1>1 DEF ModerationStep
  <1>2. ASSUME NEW s \in Session, Commit(s), row'[d] # row[d]
        PROVE  ModerationStep(d)
    <2>1. lock[d] = s /\ phase[s] = "commit" /\ row'[d] = work[d]
      BY <1>2 DEF Commit
    <2>2. MoveOK(d, row[d], work[d])
      BY <2>1, DomainAssumption DEF HandInv, Moves
    <2>3. QED
      BY <2>1, <2>2 DEF MoveOK, ModerationStep
  <1>3. CASE row[d].status \in {"absent", "pending", "failed"}
    BY <1>3 DEF ModerationStep
  <1>4. QED
    BY <1>1, <1>2, <1>3, RowChanges

LEMMA HandedOver ==
  ASSUME DomainInv, HandInv, Next, NEW t \in Store, NEW d \in Domain,
         d \in StorefrontHost(t), StorefrontHost(t)' = {}
  PROVE  row'[d].status = "disabled"
  <1>1. StoreOf[d] = t /\ row[d].primary /\ row[d].status = "active"
    BY DEF StorefrontHost, Domains, Served
  <1>2. \A e \in Domain : StoreOf[e] = t /\ row'[e].primary => row'[e].status # "active"
    BY DEF StorefrontHost, Domains, Served
  <1>3. row'[d] # row[d]
    BY <1>1, <1>2
  <1>4. PICK s \in Session : Commit(s)
    BY <1>1, <1>3, RowChanges
  <1>5. /\ phase[s] = "commit" /\ lock[d] = s /\ row'[d] = work[d]
        /\ \A e \in Domain : lock[e] = s => row'[e] = work[e]
    BY <1>3, <1>4 DEF Commit
  <1>6. work[d].status \in {"active", "disabled"}
    BY <1>1, <1>5, DomainAssumption DEF HandInv, Moves, MoveOK
  <1>7. Handing(s)
    BY DEF HandInv
  <1>8. CASE Took(s, d)
    \* Then the goal of the call has become the primary in the same commit.
    <2>1. /\ lock[goal[s]] = s /\ work[goal[s]].primary
          /\ goal[s] \in Domain /\ StoreOf[goal[s]] = t
      BY <1>1, <1>5, <1>7, <1>8 DEF Handing, InTransaction
    <2>2. work[goal[s]].status = "active"
      BY <2>1 DEF DomainInv, Rows, Versions, VersionOK
    <2>3. QED
      BY <1>2, <1>5, <2>1, <2>2
  <1>9. CASE ~Took(s, d)
    BY <1>1, <1>2, <1>5, <1>6, <1>9 DEF Took
  <1>10. QED
    BY <1>8, <1>9

\* Activations, enabling and verification never deadlock among themselves: of the
\* sessions that wait for each other one is DisableDomainTx, which holds the
\* domain it disables and waits for the fallback.
THEOREM DeadlocksNeedDisableCorrect == Spec => []DeadlocksNeedDisable
  <1>1. DomainInv /\ HandInv => DeadlocksNeedDisable
    BY HandInvDeadlocks
  <1>2. QED
    BY <1>1, AlwaysHandInv, PTL

\* A DNS answer that comes after a domain was disabled changes nothing;
\* EnableDomainTx alone brings it back, to the status its verification earned,
\* and no call moves a verified or active domain back except to disabled.
THEOREM ModerationHoldsCorrect == Spec => ModerationHolds
  <1>1. DomainInv /\ HandInv /\ [Next]_vars =>
          [\A d \in Domain : ModerationStep(d)]_row
    <2> SUFFICES ASSUME DomainInv, HandInv, [Next]_vars
                 PROVE  [\A d \in Domain : ModerationStep(d)]_row
      OBVIOUS
    <2>1. CASE Next
      BY <2>1, ModerationHeld
    <2>2. CASE UNCHANGED vars
      BY <2>2 DEF vars
    <2>3. QED
      BY <2>1, <2>2
  <1>2. Spec => [][\A d \in Domain : ModerationStep(d)]_row
    BY <1>1, AlwaysHandInv, PTL DEF Spec
  <1>3. QED
    BY <1>2 DEF ModerationHolds, ModerationStep

\* Through activations, conflicts and aborts between demotion and promotion a
\* store keeps its host: the commit that takes is_primary from a domain gives it
\* to another one of the store, unless the domain was disabled.
THEOREM HostHandedOverCorrect == Spec => HostHandedOver
  <1> DEFINE Kept == \A t \in Store, d \in Domain :
                       d \in StorefrontHost(t) /\ StorefrontHost(t)' = {}
                         => row'[d].status = "disabled"
  <1>1. DomainInv /\ HandInv /\ [Next]_vars => [Kept]_row
    <2> SUFFICES ASSUME DomainInv, HandInv, [Next]_vars
                 PROVE  [Kept]_row
      OBVIOUS
    <2>1. CASE Next
      BY <2>1, HandedOver
    <2>2. CASE UNCHANGED vars
      BY <2>2 DEF vars
    <2>3. QED
      BY <2>1, <2>2
  <1>2. Spec => [][Kept]_row
    BY <1>1, AlwaysHandInv, PTL DEF Spec
  <1>3. QED
    BY <1>2 DEF HostHandedOver
=============================================================================
