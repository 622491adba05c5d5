--------------------------- MODULE ThemeDraftProofs ---------------------------
(***************************************************************************)
(* What is public was validated, for any number of installations, versions *)
(* and concurrent requests.  A call keeps for its write what it has read   *)
(* long before; ThemeInv says what of that is still true when it writes:   *)
(* an installation keeps its theme and every draft it had, so the version  *)
(* a call has chosen is of the right theme, and the configuration it has   *)
(* validated is the draft that had the revision it has read.               *)
(***************************************************************************)
EXTENDS ThemeDrafts, TLAPS

\* Configuration c fits the theme of version v.
Fits(v, c) == \E w \in Version : ThemeOf[w] = ThemeOf[v] /\ c \in Accepts[w]

RowsOK ==
  \A i \in Installed : Fits(version[i], live[i]) /\ Fits(version[i], Draft(i))

SessionOK(s) ==
  /\ phase[s] # "idle" => inst[s] \in Installed
  /\ phase[s] = "edit" => Fits(version[inst[s]], conf[s])
  /\ phase[s] \in {"publish?", "upgrade?", "publish", "upgrade", "preview", "shown"} =>
       ver[s] \in Version /\ ThemeOf[ver[s]] = ThemeOf[version[inst[s]]]
  /\ phase[s] \in {"publish", "upgrade", "shown"} =>
       /\ Valid(ver[s], conf[s])
       /\ rev[s] + 1 \in 1 .. Len(drafts[inst[s]])
       /\ conf[s] = drafts[inst[s]][rev[s] + 1]

ThemeInv == TypeOK /\ RowsOK /\ \A s \in Session : SessionOK(s)

-----------------------------------------------------------------------------
(* Rows                                                                    *)

LEMMA InstalledRow ==
  ASSUME ThemeInv, NEW i \in Installed
  PROVE  /\ i \in Installation /\ version[i] \in Version
         /\ drafts[i] \in Seq(Config) /\ Len(drafts[i]) \in Nat /\ Len(drafts[i]) > 0
         /\ DraftRevision(i) \in 0 .. MaxRevision
         /\ Draft(i) = drafts[i][DraftRevision(i) + 1] /\ Draft(i) \in Config
         /\ live[i] \in Config
  <1>1. /\ i \in Installation /\ version[i] \in Version
        /\ drafts[i] \in Seq(Config) /\ Len(drafts[i]) \in 1 .. MaxRevision + 1
        /\ live[i] \in Config
    BY ThemeAssumption DEF ThemeInv, TypeOK, Installed
  <1>2. QED
    BY <1>1, ThemeAssumption DEF DraftRevision, Draft, Last

LEMMA FitsSomeConfig ==
  ASSUME NEW v, NEW c, Fits(v, c)
  PROVE  c \in Config
  BY ThemeAssumption DEF Fits

\* No step of another call takes back what a call has read of an installation:
\* its theme and the drafts it had.
Kept ==
  \A i \in Installed :
    /\ i \in Installed'
    /\ ThemeOf[version'[i]] = ThemeOf[version[i]]
    /\ Len(drafts'[i]) \in Nat /\ Len(drafts'[i]) >= Len(drafts[i])
    /\ \A k \in 1 .. Len(drafts[i]) : drafts'[i][k] = drafts[i][k]

LEMMA KeptSession ==
  ASSUME ThemeInv, Kept, NEW t \in Session,
         phase'[t] = phase[t], inst'[t] = inst[t], ver'[t] = ver[t],
         rev'[t] = rev[t], conf'[t] = conf[t]
  PROVE  SessionOK(t)'
  <1>1. SessionOK(t) /\ rev[t] \in Nat
    BY ThemeAssumption DEF ThemeInv, TypeOK
  <1>2. CASE phase[t] = "idle"
    BY <1>2 DEF SessionOK
  <1>3. CASE phase[t] # "idle"
    <2> DEFINE i == inst[t]
    <2>1. /\ i \in Installed /\ Len(drafts[i]) \in Nat
          /\ i \in Installed'
          /\ ThemeOf[version'[i]] = ThemeOf[version[i]]
          /\ Len(drafts'[i]) \in Nat /\ Len(drafts'[i]) >= Len(drafts[i])
          /\ \A k \in 1 .. Len(drafts[i]) : drafts'[i][k] = drafts[i][k]
      BY <1>1, <1>3, InstalledRow DEF SessionOK, Kept
    <2>2. ASSUME rev[t] + 1 \in 1 .. Len(drafts[i])
          PROVE  /\ rev[t] + 1 \in 1 .. Len(drafts'[i])
                 /\ drafts'[i][rev[t] + 1] = drafts[i][rev[t] + 1]
      BY <2>1, <2>2
    <2>3. \A c : Fits(version[i], c) => Fits(version'[i], c)
      BY <2>1 DEF Fits
    <2>4. QED
      BY <1>1, <2>1, <2>2, <2>3 DEF SessionOK, Valid
  <1>4. QED
    BY <1>2, <1>3

LEMMA KeptStore ==
  ASSUME ThemeInv, UNCHANGED store
  PROVE  Kept /\ RowsOK'
  BY InstalledRow DEF ThemeInv, Kept, store, Installed, RowsOK, Draft, Fits

\* The end of a call.
LEMMA FinishSession ==
  ASSUME ThemeInv, Kept, NEW s \in Session, Finish(s)
  PROVE  /\ \A t \in Session : SessionOK(t)'
         /\ phase' \in [Session -> Phase]
         /\ inst' \in [Session -> Installation \cup {None}]
         /\ ver' \in [Session -> Version \cup {None}]
         /\ rev' \in [Session -> 0 .. MaxRevision]
         /\ conf' \in [Session -> Config \cup {None}]
  <1>1. /\ phase' \in [Session -> Phase]
        /\ inst' \in [Session -> Installation \cup {None}]
        /\ ver' \in [Session -> Version \cup {None}]
        /\ rev' \in [Session -> 0 .. MaxRevision]
        /\ conf' \in [Session -> Config \cup {None}]
    BY ThemeAssumption DEF Finish, ThemeInv, TypeOK, Phase
  <1>2. ASSUME NEW t \in Session
        PROVE  SessionOK(t)'
    <2>1. CASE t = s
      BY <2>1 DEF Finish, ThemeInv, TypeOK, SessionOK
    <2>2. CASE t # s
      BY <2>2, KeptSession DEF Finish, ThemeInv, TypeOK
    <2>3. QED
      BY <2>1, <2>2
  <1>3. QED
    BY <1>1, <1>2

\* A step of session s on the columns of its call alone.
LEMMA CallStep ==
  ASSUME ThemeInv, NEW s \in Session, UNCHANGED store, tokens' \subseteq tokens,
         NEW p \in Phase, NEW i \in Installation \cup {None}, NEW v \in Version \cup {None},
         NEW r \in 0 .. MaxRevision, NEW c \in Config \cup {None},
         phase' = [phase EXCEPT ![s] = p], inst' = [inst EXCEPT ![s] = i],
         ver' = [ver EXCEPT ![s] = v], rev' = [rev EXCEPT ![s] = r],
         conf' = [conf EXCEPT ![s] = c], SessionOK(s)'
  PROVE  ThemeInv'
  <1>1. TypeOK'
    BY DEF ThemeInv, TypeOK, store, Installed
  <1>2. ASSUME NEW t \in Session, t # s
        PROVE  SessionOK(t)'
    BY <1>2, KeptStore, KeptSession DEF ThemeInv, TypeOK
  <1>3. QED
    BY <1>1, <1>2, KeptStore DEF ThemeInv

-----------------------------------------------------------------------------
(* What a call reads                                                       *)

LEMMA ReadStep ==
  ASSUME ThemeInv, NEW s \in Session,
         NEW to \in {"edit", "discard", "token", "publish?", "upgrade?"},
         NEW v \in Version \cup {None}, NEW c \in Config \cup {None},
         ReadInstallation(s, to, v, c),
         to = "edit" => Fits(version[active], c),
         to \in {"publish?", "upgrade?"} => v # None /\ ThemeOf[v] = ThemeOf[version[active]]
  PROVE  ThemeInv'
  <1>1. /\ active \in Installed /\ active \in Installation \cup {None}
        /\ phase' = [phase EXCEPT ![s] = to] /\ inst' = [inst EXCEPT ![s] = active]
        /\ ver' = [ver EXCEPT ![s] = v] /\ conf' = [conf EXCEPT ![s] = c]
        /\ UNCHANGED <<store, tokens, rev>>
    BY DEF ReadInstallation, ThemeInv, TypeOK, Installed
  <1>2. rev[s] \in 0 .. MaxRevision /\ rev' = [rev EXCEPT ![s] = rev[s]]
    BY <1>1 DEF ThemeInv, TypeOK
  <1>3. SessionOK(s)'
    BY <1>1 DEF SessionOK, ThemeInv, TypeOK, store, Installed, Fits
  <1>4. to \in Phase
    BY DEF Phase
  <1>5. QED
    BY <1>1, <1>2, <1>3, <1>4, CallStep

LEMMA BeginStep ==
  ASSUME ThemeInv, NEW s \in Session,
         \/ \E c \in Config : BeginEdit(s, c)
         \/ BeginDiscard(s) \/ BeginToken(s) \/ BeginPublish(s)
         \/ \E v \in Version : BeginUpgrade(s, v)
  PROVE  ThemeInv'
  <1>1. active # None => active \in Installed /\ version[active] \in Version
    BY InstalledRow DEF ThemeInv, TypeOK
  <1>2. ASSUME NEW c \in Config, BeginEdit(s, c)
        PROVE  ThemeInv'
    BY <1>1, <1>2, ReadStep DEF BeginEdit, Valid, Fits
  <1>3. CASE BeginDiscard(s) \/ BeginToken(s)
    BY <1>3, ReadStep DEF BeginDiscard, BeginToken
  <1>4. CASE BeginPublish(s)
    BY <1>1, <1>4, ReadStep, ThemeAssumption DEF BeginPublish
  <1>5. ASSUME NEW v \in Version, BeginUpgrade(s, v)
        PROVE  ThemeInv'
    BY <1>1, <1>5, ReadStep, ThemeAssumption DEF BeginUpgrade
  <1>6. QED
    BY <1>2, <1>3, <1>4, <1>5

\* The draft is read and validated.
LEMMA ValidateStep ==
  ASSUME ThemeInv, NEW s \in Session, ValidateDraft(s) \/ ResolvePreview(s)
  PROVE  ThemeInv'
  <1> DEFINE i == inst[s]
             to == IF ResolvePreview(s) THEN "shown"
                   ELSE IF phase[s] = "publish?" THEN "publish" ELSE "upgrade"
             r == IF ResolvePreview(s) THEN rev[s] ELSE DraftRevision(i)
  <1>1. /\ phase[s] \in {"publish?", "upgrade?", "preview"}
        /\ Valid(ver[s], Draft(i)) /\ r = DraftRevision(i)
        /\ UNCHANGED <<store, tokens>>
        /\ phase' = [phase EXCEPT ![s] = to]
        /\ inst' = [inst EXCEPT ![s] = i]
        /\ ver' = [ver EXCEPT ![s] = ver[s]]
        /\ rev' = [rev EXCEPT ![s] = r]
        /\ conf' = [conf EXCEPT ![s] = Draft(i)]
    BY DEF ValidateDraft, ResolvePreview, ExpectedRevision, Target, ThemeInv, TypeOK
  <1>2. /\ i \in Installed /\ ver[s] \in Version
        /\ ThemeOf[ver[s]] = ThemeOf[version[i]]
    BY <1>1 DEF ThemeInv, SessionOK
  <1>3. /\ i \in Installation /\ r \in 0 .. MaxRevision /\ Draft(i) \in Config
        /\ r + 1 \in 1 .. Len(drafts[i]) /\ Draft(i) = drafts[i][r + 1]
    BY <1>1, <1>2, InstalledRow, ThemeAssumption DEF DraftRevision
  <1>4. to \in Phase /\ to \in {"publish", "upgrade", "shown"}
    BY DEF Phase
  <1> HIDE DEF i, to, r
  <1>5. /\ phase'[s] = to /\ inst'[s] = i /\ ver'[s] = ver[s] /\ rev'[s] = r
        /\ conf'[s] = Draft(i)
        /\ Installed' = Installed /\ drafts' = drafts /\ version' = version
    BY <1>1 DEF ThemeInv, TypeOK, store, Installed
  <1>6. SessionOK(s)'
    BY <1>1, <1>2, <1>3, <1>4, <1>5 DEF SessionOK, Valid
  <1>7. QED
    BY <1>1, <1>2, <1>3, <1>4, <1>6, CallStep

LEMMA BeginPreviewStep ==
  ASSUME ThemeInv, NEW s \in Session, NEW t \in tokens, BeginPreview(s, t)
  PROVE  ThemeInv'
  <1>1. /\ active \in Installation /\ active \in Installed /\ version[active] \in Version
        /\ t.revision \in 0 .. MaxRevision
    BY InstalledRow, ThemeAssumption DEF BeginPreview, ThemeInv, TypeOK, Token
  <1>2. /\ UNCHANGED <<store, tokens>>
        /\ phase' = [phase EXCEPT ![s] = "preview"]
        /\ inst' = [inst EXCEPT ![s] = active]
        /\ ver' = [ver EXCEPT ![s] = version[active]]
        /\ rev' = [rev EXCEPT ![s] = t.revision]
        /\ conf' = [conf EXCEPT ![s] = conf[s]]
        /\ conf[s] \in Config \cup {None}
    BY DEF BeginPreview, ThemeInv, TypeOK
  <1>3. SessionOK(s)'
    BY <1>1, <1>2 DEF SessionOK, ThemeInv, TypeOK, store, Installed
  <1>4. "preview" \in Phase
    BY DEF Phase
  <1>5. QED
    BY <1>1, <1>2, <1>3, <1>4, CallStep

\* A call ends and writes no row of the store.
LEMMA EndStep ==
  ASSUME ThemeInv, NEW s \in Session, IssuePreviewToken(s) \/ Return(s)
  PROVE  ThemeInv'
  <1>1. Finish(s) /\ UNCHANGED store
    BY DEF IssuePreviewToken, Return
  <1>2. tokens' \subseteq Token
    <2>1. CASE IssuePreviewToken(s)
      <3>1. inst[s] \in Installation /\ DraftRevision(inst[s]) \in 0 .. MaxRevision
        BY <2>1, InstalledRow DEF IssuePreviewToken, ThemeInv, SessionOK
      <3>2. QED
        BY <2>1, <3>1 DEF IssuePreviewToken, ThemeInv, TypeOK, Token
    <2>2. CASE Return(s)
      BY <2>2 DEF Return, ThemeInv, TypeOK
    <2>3. QED
      BY <2>1, <2>2
  <1>3. Kept /\ RowsOK'
    BY <1>1, KeptStore
  <1>4. TypeOK'
    BY <1>1, <1>2, <1>3, FinishSession DEF ThemeInv, TypeOK, store, Installed
  <1>5. QED
    BY <1>1, <1>3, <1>4, FinishSession DEF ThemeInv

LEMMA ExpireStep ==
  ASSUME ThemeInv, NEW t \in tokens, ExpireToken(t)
  PROVE  ThemeInv'
  <1>1. UNCHANGED <<store, call>> /\ tokens' \subseteq tokens
    BY DEF ExpireToken
  <1>2. TypeOK'
    BY <1>1 DEF ThemeInv, TypeOK, store, call, Installed
  <1>3. \A s \in Session : SessionOK(s)'
    BY <1>1, KeptStore, KeptSession DEF call
  <1>4. QED
    BY <1>1, <1>2, <1>3, KeptStore DEF ThemeInv

-----------------------------------------------------------------------------
(* What a call writes                                                      *)

LEMMA InstallStep ==
  ASSUME ThemeInv, NEW i \in Installation, NEW v \in Version, Install(i, v)
  PROVE  ThemeInv' /\ Kept
  <1>1. /\ i \notin Installed /\ active' = i
        /\ version' = [version EXCEPT ![i] = v]
        /\ drafts' = [drafts EXCEPT ![i] = <<Default[v]>>]
        /\ live' = [live EXCEPT ![i] = Default[v]]
        /\ UNCHANGED <<tokens, phase, inst, ver, rev, conf>>
    BY DEF Install, call
  <1>2. Default[v] \in Config /\ Default[v] \in Accepts[v] /\ v # None
    BY ThemeAssumption
  <1>3. /\ Installed' = Installed \cup {i}
        /\ version'[i] = v /\ drafts'[i] = <<Default[v]>> /\ live'[i] = Default[v]
        /\ \A j \in Installed : /\ version'[j] = version[j] /\ drafts'[j] = drafts[j]
                                /\ live'[j] = live[j]
    BY <1>1, <1>2 DEF ThemeInv, TypeOK, Installed
  <1>4. /\ <<Default[v]>> \in Seq(Config) /\ Len(<<Default[v]>>) = 1
        /\ <<Default[v]>>[1] = Default[v]
    BY <1>2
  <1>5. TypeOK'
    <2>1. \A j \in Installed' : Len(drafts'[j]) \in 1 .. MaxRevision + 1 /\ live'[j] \in Config
      <3>1. \A j \in Installed : Len(drafts[j]) \in 1 .. MaxRevision + 1 /\ live[j] \in Config
        BY DEF ThemeInv, TypeOK
      <3>2. 1 \in 1 .. MaxRevision + 1
        BY ThemeAssumption
      <3>3. QED
        BY <1>2, <1>3, <1>4, <3>1, <3>2
    <2>2. /\ version' \in [Installation -> Version \cup {None}]
          /\ drafts' \in [Installation -> Seq(Config)]
          /\ live' \in [Installation -> Config \cup {None}]
      BY <1>1, <1>2, <1>4 DEF ThemeInv, TypeOK
    <2>3. QED
      BY <1>1, <1>3, <2>1, <2>2 DEF ThemeInv, TypeOK
  <1>6. RowsOK'
    <2> SUFFICES ASSUME NEW j \in Installed'
                 PROVE  Fits(version'[j], live'[j]) /\ Fits(version'[j], Last(drafts'[j]))
      BY DEF RowsOK, Draft
    <2>1. CASE j = i
      BY <1>2, <1>3, <1>4, <2>1 DEF Fits, Last
    <2>2. CASE j # i
      BY <1>3, <2>2 DEF ThemeInv, RowsOK, Draft
    <2>3. QED
      BY <2>1, <2>2
  <1>7. Kept
    BY <1>3, InstalledRow DEF Kept
  <1>8. \A s \in Session : SessionOK(s)'
    BY <1>1, <1>7, KeptSession
  <1>9. QED
    BY <1>5, <1>6, <1>7, <1>8 DEF ThemeInv

\* UpdateDraftConfiguration and DiscardDraft append a draft that fits the theme.
LEMMA DraftStep ==
  ASSUME ThemeInv, NEW s \in Session, UpdateDraftConfiguration(s) \/ DiscardDraft(s)
  PROVE  ThemeInv'
  <1> DEFINE i == inst[s]
             c == IF phase[s] = "edit" THEN conf[s] ELSE live[i]
  <1>1. /\ phase[s] \in {"edit", "discard"}
        /\ DraftRevision(i) < MaxRevision
        /\ drafts' = [drafts EXCEPT ![i] = Append(drafts[i], c)]
        /\ Finish(s)
        /\ UNCHANGED <<active, version, live, tokens>>
    BY DEF UpdateDraftConfiguration, DiscardDraft, WriteDraft, Target
  <1>2. i \in Installed /\ Fits(version[i], c)
    BY <1>1 DEF ThemeInv, SessionOK, RowsOK
  <1>3. c \in Config
    BY <1>2, FitsSomeConfig
  <1>4. /\ i \in Installation /\ drafts[i] \in Seq(Config)
        /\ Len(drafts[i]) \in Nat /\ Len(drafts[i]) > 0
    BY <1>2, InstalledRow
  <1> HIDE DEF i, c
  <1>5. /\ Append(drafts[i], c) \in Seq(Config)
        /\ Len(Append(drafts[i], c)) = Len(drafts[i]) + 1
        /\ \A k \in 1 .. Len(drafts[i]) : Append(drafts[i], c)[k] = drafts[i][k]
        /\ Last(Append(drafts[i], c)) = c
    BY <1>3, <1>4 DEF Last
  <1>6. /\ Installed' = Installed
        /\ drafts' \in [Installation -> Seq(Config)]
        /\ drafts'[i] = Append(drafts[i], c)
        /\ \A j \in Installation : j # i => drafts'[j] = drafts[j]
    BY <1>1, <1>4, <1>5 DEF ThemeInv, TypeOK, Installed
  <1>7. Kept
    BY <1>1, <1>5, <1>6, InstalledRow DEF Kept
  <1>8. TypeOK'
    <2>1. \A j \in Installed' : Len(drafts'[j]) \in 1 .. MaxRevision + 1
      BY <1>1, <1>4, <1>5, <1>6, ThemeAssumption DEF ThemeInv, TypeOK, DraftRevision
    <2>2. QED
      BY <1>1, <1>6, <1>7, <2>1, FinishSession DEF ThemeInv, TypeOK
  <1>9. RowsOK'
    BY <1>1, <1>2, <1>5, <1>6, InstalledRow DEF ThemeInv, RowsOK, Draft
  <1>10. QED
    BY <1>1, <1>7, <1>8, <1>9, FinishSession DEF ThemeInv

\* The draft that PublishConfiguration makes public is the one its call validated.
LEMMA Published ==
  ASSUME ThemeInv, NEW s \in Session, PublishConfiguration(s)
  PROVE  /\ inst[s] \in Installed
         /\ live' = [live EXCEPT ![inst[s]] = conf[s]]
         /\ Valid(ver[s], conf[s]) /\ Fits(version[inst[s]], conf[s])
         /\ conf[s] \in Config
  <1>1. /\ phase[s] = "publish" /\ DraftRevision(inst[s]) = rev[s]
        /\ live' = [live EXCEPT ![inst[s]] = Draft(inst[s])]
    BY DEF PublishConfiguration, ExpectedRevision, Target
  <1>2. /\ inst[s] \in Installed /\ Valid(ver[s], conf[s])
        /\ ver[s] \in Version /\ ThemeOf[ver[s]] = ThemeOf[version[inst[s]]]
        /\ conf[s] = drafts[inst[s]][rev[s] + 1]
    BY <1>1 DEF ThemeInv, SessionOK
  <1>3. Draft(inst[s]) = conf[s]
    BY <1>1, <1>2, InstalledRow
  <1>4. Fits(version[inst[s]], conf[s])
    BY <1>2 DEF Fits, Valid
  <1>5. QED
    BY <1>1, <1>2, <1>3, <1>4, FitsSomeConfig

LEMMA PublishStep ==
  ASSUME ThemeInv, NEW s \in Session, PublishConfiguration(s)
  PROVE  ThemeInv'
  <1> DEFINE i == inst[s]
  <1>1. Finish(s) /\ UNCHANGED <<active, version, drafts, tokens>>
    BY DEF PublishConfiguration
  <1>2. /\ i \in Installed /\ i \in Installation
        /\ live' = [live EXCEPT ![i] = conf[s]]
        /\ Fits(version[i], conf[s]) /\ conf[s] \in Config
    BY Published DEF Installed
  <1>3. Installed' = Installed
    BY <1>1 DEF Installed
  <1>4. Kept
    BY <1>1, <1>3, InstalledRow DEF Kept
  <1>5. TypeOK'
    BY <1>1, <1>2, <1>3, <1>4, FinishSession DEF ThemeInv, TypeOK
  <1>6. RowsOK'
    BY <1>1, <1>2, <1>3 DEF ThemeInv, TypeOK, RowsOK, Draft
  <1>7. QED
    BY <1>1, <1>4, <1>5, <1>6, FinishSession DEF ThemeInv

\* An upgrade stays in its theme, so whatever fitted still fits.
LEMMA UpgradeStep ==
  ASSUME ThemeInv, NEW s \in Session, UpdateInstallationVersion(s)
  PROVE  ThemeInv'
  <1> DEFINE i == inst[s]
  <1>1. /\ phase[s] = "upgrade" /\ Finish(s)
        /\ version' = [version EXCEPT ![i] = ver[s]]
        /\ UNCHANGED <<active, drafts, live, tokens>>
    BY DEF UpdateInstallationVersion, Target
  <1>2. /\ i \in Installed /\ i \in Installation
        /\ ver[s] \in Version /\ ThemeOf[ver[s]] = ThemeOf[version[i]]
    BY <1>1 DEF ThemeInv, SessionOK, Installed
  <1>3. /\ version' \in [Installation -> Version \cup {None}]
        /\ Installed' = Installed
        /\ \A j \in Installed : ThemeOf[version'[j]] = ThemeOf[version[j]]
    BY <1>1, <1>2, ThemeAssumption DEF ThemeInv, TypeOK, Installed
  <1>4. Kept
    BY <1>1, <1>3, InstalledRow DEF Kept
  <1>5. TypeOK'
    BY <1>1, <1>3, <1>4, FinishSession DEF ThemeInv, TypeOK
  <1>6. RowsOK'
    BY <1>1, <1>3 DEF ThemeInv, RowsOK, Draft, Fits
  <1>7. QED
    BY <1>1, <1>4, <1>5, <1>6, FinishSession DEF ThemeInv

-----------------------------------------------------------------------------

LEMMA InitThemeInv == Init => ThemeInv
  <1> SUFFICES ASSUME Init PROVE ThemeInv
    OBVIOUS
  <1>1. Installed = {}
    BY DEF Init, Installed
  <1>2. <<>> \in Seq(Config)
    OBVIOUS
  <1>3. TypeOK
    BY <1>1, <1>2, ThemeAssumption DEF Init, TypeOK, Phase
  <1>4. QED
    BY <1>1, <1>3 DEF Init, ThemeInv, RowsOK, SessionOK

LEMMA NextThemeInv == ThemeInv /\ [Next]_vars => ThemeInv'
  <1> SUFFICES ASSUME ThemeInv, [Next]_vars PROVE ThemeInv'
    OBVIOUS
  <1>1. CASE UNCHANGED vars
    <2>1. UNCHANGED <<store, call, tokens>>
      BY <1>1 DEF vars, store, call
    <2>2. TypeOK'
      BY <2>1 DEF ThemeInv, TypeOK, store, call, Installed
    <2>3. \A s \in Session : SessionOK(s)'
      BY <2>1, KeptStore, KeptSession DEF call
    <2>4. QED
      BY <2>1, <2>2, <2>3, KeptStore DEF ThemeInv
  <1>2. ASSUME NEW i \in Installation, NEW v \in Version, Install(i, v)
        PROVE  ThemeInv'
    BY <1>2, InstallStep
  <1>3. ASSUME NEW t \in tokens, ExpireToken(t)
        PROVE  ThemeInv'
    BY <1>3, ExpireStep
  <1>4. ASSUME NEW s \in Session, Call(s)
        PROVE  ThemeInv'
    BY <1>4, BeginStep, DraftStep, ValidateStep, PublishStep, UpgradeStep,
       BeginPreviewStep, EndStep DEF Call
  <1>5. QED
    BY <1>1, <1>2, <1>3, <1>4 DEF Next

LEMMA AlwaysThemeInv == Spec => []ThemeInv
  BY InitThemeInv, NextThemeInv, PTL DEF Spec

\* Which steps change what customers see.
LEMMA StoreChanges ==
  ASSUME Next
  PROVE  \/ \E i \in Installation, v \in Version : Install(i, v)
         \/ \E s \in Session : PublishConfiguration(s)
         \/ \E s \in Session : UpdateInstallationVersion(s)
         \/ UNCHANGED <<active, version, live>>
  <1>1. ASSUME NEW s \in Session, Call(s)
        PROVE  \/ PublishConfiguration(s) \/ UpdateInstallationVersion(s)
               \/ UNCHANGED <<active, version, live>>
    BY <1>1 DEF Call, BeginEdit, BeginDiscard, BeginPublish, BeginUpgrade, BeginToken,
                ReadInstallation, UpdateDraftConfiguration, DiscardDraft, WriteDraft,
                ValidateDraft, IssuePreviewToken, BeginPreview, ResolvePreview, Return, store
  <1>2. ASSUME NEW t \in tokens, ExpireToken(t)
        PROVE  UNCHANGED <<active, version, live>>
    BY <1>2 DEF ExpireToken, store
  <1>3. QED
    BY <1>1, <1>2 DEF Next

LEMMA InstallNew ==
  ASSUME ThemeInv, NEW i \in Installation, NEW v \in Version, Install(i, v),
         NEW j \in Installed
  PROVE  /\ version'[j] = version[j] /\ live'[j] = live[j]
         /\ active' # j
  BY DEF Install, ThemeInv, TypeOK, Installed

LEMMA UpgradeOne ==
  ASSUME ThemeInv, NEW s \in Session, UpdateInstallationVersion(s), NEW i \in Installation
  PROVE  /\ phase[s] = "upgrade" /\ phase'[s] = "idle"
         /\ live' = live
         /\ version'[i] = IF i = inst[s] THEN ver[s] ELSE version[i]
  BY DEF UpdateInstallationVersion, Target, Finish, ThemeInv, TypeOK

LEMMA PublishOne ==
  ASSUME ThemeInv, NEW s \in Session, PublishConfiguration(s), NEW i \in Installation
  PROVE  /\ phase[s] = "publish" /\ phase'[s] = "idle"
         /\ version' = version
         /\ live'[i] = IF i = inst[s] THEN conf[s] ELSE live[i]
         /\ Valid(ver[s], conf[s])
  <1>1. live' = [live EXCEPT ![inst[s]] = conf[s]] /\ Valid(ver[s], conf[s])
    BY Published
  <1>2. QED
    BY <1>1 DEF PublishConfiguration, Finish, ThemeInv, TypeOK

\* Rows and calls stay well typed, and draft revisions within the model's bound.
THEOREM TypeCorrect == Spec => []TypeOK
  <1>1. ThemeInv => TypeOK
    BY DEF ThemeInv
  <1>2. QED
    BY <1>1, AlwaysThemeInv, PTL

\* What is public and what is edited was accepted by some version of the theme
\* of its installation, whatever switch of themes or upgrade came between the
\* validation of a write and the write.
THEOREM ConfigsFitThemeCorrect == Spec => []ConfigsFitTheme
  <1>1. ThemeInv => ConfigsFitTheme
    BY DEF ThemeInv, RowsOK, Fits, ConfigsFitTheme
  <1>2. QED
    BY <1>1, AlwaysThemeInv, PTL

\* ResolveStorefrontPreview shows the draft as it was when the token was issued,
\* in a version that accepts it.
THEOREM PreviewShowsItsDraftCorrect == Spec => []PreviewShowsItsDraft
  <1>1. ThemeInv => PreviewShowsItsDraft
    BY DEF ThemeInv, SessionOK, PreviewShowsItsDraft
  <1>2. QED
    BY <1>1, AlwaysThemeInv, PTL

\* PublishConfiguration makes public the very draft that its call validated,
\* because it compares the draft's revision under the lock.
THEOREM PublishesValidatedDraftCorrect == Spec => PublishesValidatedDraft
  <1> DEFINE Validated ==
        \A i \in Installation :
          live'[i] # live[i] /\ i \in Installed =>
            \E s \in Session : /\ phase[s] = "publish" /\ inst[s] = i
                               /\ live'[i] = conf[s] /\ Valid(ver[s], conf[s])
  <1>1. ThemeInv /\ [Next]_vars => [Validated]_live
    <2> SUFFICES ASSUME ThemeInv, Next, NEW i \in Installation, live'[i] # live[i],
                        i \in Installed
                 PROVE  \E s \in Session : /\ phase[s] = "publish" /\ inst[s] = i
                                           /\ live'[i] = conf[s] /\ Valid(ver[s], conf[s])
      BY DEF vars
    <2>1. PICK s \in Session : PublishConfiguration(s)
      BY StoreChanges, InstallNew, UpgradeOne
    <2>2. QED
      BY <2>1, PublishOne
  <1>2. Spec => [][Validated]_live
    BY <1>1, AlwaysThemeInv, PTL DEF Spec
  <1>3. QED
    BY <1>2 DEF PublishesValidatedDraft

\* Only a call that read the active installation itself, or a new installation,
\* changes the theme that customers see.
THEOREM LateWritesStayBehindCorrect == Spec => LateWritesStayBehind
  <1> DEFINE Own ==
        \A i \in Installation :
          i = active /\ active' = active
          /\ <<version[i], live[i]>>' # <<version[i], live[i]>>
            => \E s \in Session : /\ phase[s] \in {"publish", "upgrade"}
                                  /\ inst[s] = i /\ phase'[s] = "idle"
  <1>1. ThemeInv /\ [Next]_vars => [Own]_store
    <2> SUFFICES ASSUME ThemeInv, Next, NEW i \in Installation, i = active,
                        active' = active, <<version[i], live[i]>>' # <<version[i], live[i]>>
                 PROVE  \E s \in Session : /\ phase[s] \in {"publish", "upgrade"}
                                           /\ inst[s] = i /\ phase'[s] = "idle"
      BY DEF vars, store
    <2>1. i \in Installed
      BY ThemeAssumption DEF ThemeInv, TypeOK
    <2>2. CASE \E s \in Session : PublishConfiguration(s)
      BY <2>2, PublishOne
    <2>3. CASE \E s \in Session : UpdateInstallationVersion(s)
      BY <2>3, UpgradeOne
    <2>4. QED
      BY <2>1, <2>2, <2>3, StoreChanges, InstallNew
  <1>2. Spec => [][Own]_store
    BY <1>1, AlwaysThemeInv, PTL DEF Spec
  <1>3. QED
    BY <1>2 DEF LateWritesStayBehind

\* UpgradeInstallation puts in place a version that accepts the draft, or one
\* whose call had validated an earlier draft.
THEOREM UpgradesValidatedDraftCorrect == Spec => UpgradesValidatedDraft
  <1> DEFINE Validated ==
        \A i \in Installed :
          version'[i] # version[i] =>
            \E s \in Session :
              /\ phase[s] = "upgrade" /\ inst[s] = i
              /\ Valid(version'[i], Draft(i)) \/ DraftRevision(i) > rev[s]
  <1>1. ThemeInv /\ [Next]_vars => [Validated]_version
    <2> SUFFICES ASSUME ThemeInv, Next, NEW i \in Installed, version'[i] # version[i]
                 PROVE  \E s \in Session :
                          /\ phase[s] = "upgrade" /\ inst[s] = i
                          /\ Valid(version'[i], Draft(i)) \/ DraftRevision(i) > rev[s]
      BY DEF vars
    <2>1. PICK s \in Session : UpdateInstallationVersion(s)
      BY StoreChanges, InstallNew, PublishOne DEF Installed
    <2>2. phase[s] = "upgrade" /\ inst[s] = i /\ version'[i] = ver[s]
      BY <2>1, UpgradeOne DEF Installed
    <2>3. /\ Valid(ver[s], conf[s])
          /\ rev[s] + 1 \in 1 .. Len(drafts[i])
          /\ conf[s] = drafts[i][rev[s] + 1]
      BY <2>2 DEF ThemeInv, SessionOK
    <2>4. /\ DraftRevision(i) = Len(drafts[i]) - 1 /\ Len(drafts[i]) \in Nat
          /\ Draft(i) = drafts[i][DraftRevision(i) + 1]
          /\ rev[s] \in Nat
      BY InstalledRow, ThemeAssumption DEF DraftRevision, ThemeInv, TypeOK
    <2>5. CASE DraftRevision(i) = rev[s]
      BY <2>2, <2>3, <2>4, <2>5
    <2>6. CASE DraftRevision(i) # rev[s]
      BY <2>2, <2>3, <2>4, <2>6
    <2>7. QED
      BY <2>5, <2>6
  <1>2. Spec => [][Validated]_version
    BY <1>1, AlwaysThemeInv, PTL DEF Spec
  <1>3. QED
    BY <1>2 DEF UpgradesValidatedDraft
=============================================================================
