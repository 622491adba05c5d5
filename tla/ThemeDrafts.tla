---------------------------- MODULE ThemeDrafts ----------------------------
(***************************************************************************)
(* modules/themes: the theme installations of one store, the draft and the *)
(* published configuration of each, and the calls that edit, publish,      *)
(* discard, upgrade and preview them at the same time.                     *)
(*                                                                         *)
(* A call reads the installation and the configuration without locks, one  *)
(* statement after the other, and writes at the end; a statement or a      *)
(* transaction that holds its only row from the start is one action.       *)
(* Calls that are refused, and calls that end before they write, change    *)
(* nothing.  published_revision, which nothing compares, is left out.      *)
(***************************************************************************)
EXTENDS Naturals, Sequences, FiniteSets, SequencesExt

CONSTANTS
  Installation,  \* theme_installations.id
  Version,       \* theme_versions.id
  Theme,         \* themes.id
  ThemeOf,       \* theme_id of a version
  Offered,       \* published versions of active themes
  Config,        \* configurations
  Accepts,       \* those a version's schema and RejectUnsafeContent pass
  Default,       \* default_configuration of a version
  Session,       \* requests in flight
  None,          \* no row
  MaxRevision,   \* bound of the model on draft_revision
  MaxTokens      \* bound of the model on tokens that have not expired

\* Themes and versions are created by SeedBuiltInThemes and never changed; the
\* seeded default passes its schema (TestDefaultConfigValidatesAgainstSchema).
ASSUME ThemeAssumption ==
  /\ ThemeOf \in [Version -> Theme]
  /\ Offered \subseteq Version
  /\ Accepts \in [Version -> SUBSET Config]
  /\ \A v \in Version : Default[v] \in Accepts[v]
  /\ MaxRevision \in Nat /\ MaxTokens \in Nat
  /\ None \notin Installation \cup Version \cup Config

VARIABLES
  active,   \* the installation with status 'active'
  version,  \* theme_version_id
  drafts,   \* every draft an installation had; the last is draft_config and
            \* its place, from 0, is draft_revision
  live,     \* published_config
  tokens,   \* preview tokens that have not expired
  phase,    \* where a session is in its call
  inst,     \* the installation the call has read,
  ver,      \* the version it validates against,
  rev,      \* the draft revision,
  conf      \* and the configuration it has read, or was given

store == <<active, version, drafts, live>>
call == <<phase, inst, ver, rev, conf>>
vars == <<active, version, drafts, live, tokens, phase, inst, ver, rev, conf>>

(***************************************************************************)
(* "idle": no call; "edit", "discard", "token", "preview": after the       *)
(* installation was read, before the statement that ends the call;         *)
(* "publish?", "upgrade?": before GetConfiguration; "publish", "upgrade":  *)
(* after validation, before the write; "shown": a preview was answered.    *)
(***************************************************************************)
Phase == {"idle", "edit", "discard", "token", "preview", "publish?",
          "upgrade?", "publish", "upgrade", "shown"}

Token == [installation : Installation, revision : 0 .. MaxRevision]

Installed == {i \in Installation : version[i] # None}

TypeOK ==
  /\ active \in Installation \cup {None}
  /\ active # None => active \in Installed
  /\ version \in [Installation -> Version \cup {None}]
  /\ drafts \in [Installation -> Seq(Config)]
  /\ \A i \in Installed : Len(drafts[i]) \in 1 .. MaxRevision + 1
  /\ live \in [Installation -> Config \cup {None}]
  /\ \A i \in Installed : live[i] \in Config
  /\ tokens \subseteq Token
  /\ phase \in [Session -> Phase]
  /\ inst \in [Session -> Installation \cup {None}]
  /\ ver \in [Session -> Version \cup {None}]
  /\ rev \in [Session -> 0 .. MaxRevision]
  /\ conf \in [Session -> Config \cup {None}]

Init ==
  /\ active = None
  /\ version = [i \in Installation |-> None]
  /\ drafts = [i \in Installation |-> <<>>]
  /\ live = [i \in Installation |-> None]
  /\ tokens = {}
  /\ phase = [s \in Session |-> "idle"]
  /\ inst = [s \in Session |-> None]
  /\ ver = [s \in Session |-> None]
  /\ rev = [s \in Session |-> 0]
  /\ conf = [s \in Session |-> None]

-----------------------------------------------------------------------------
(* Rows.                                                                   *)

DraftRevision(i) == Len(drafts[i]) - 1

Draft(i) == Last(drafts[i])

\* ValidateConfiguration and RejectUnsafeContent.
Valid(v, c) == c \in Accepts[v]

\* Mutant: the write goes to the installation that is active by then.
CurrentTarget(s) == active

\* WHERE installation_id = $1
Target(s) == inst[s]

\* draft_config = c, draft_revision = draft_revision + 1
WriteDraft(i, c) ==
  /\ DraftRevision(i) < MaxRevision
  /\ drafts' = [drafts EXCEPT ![i] = Append(@, c)]
  /\ UNCHANGED <<active, version, live>>

\* The call returns.
Finish(s) ==
  /\ phase' = [phase EXCEPT ![s] = "idle"]
  /\ inst' = [inst EXCEPT ![s] = None]
  /\ ver' = [ver EXCEPT ![s] = None]
  /\ rev' = [rev EXCEPT ![s] = 0]
  /\ conf' = [conf EXCEPT ![s] = None]

\* GetInstallationByStore; v is the version the call will validate against and
\* c the configuration it was given.
ReadInstallation(s, to, v, c) ==
  /\ phase[s] = "idle" /\ active # None
  /\ phase' = [phase EXCEPT ![s] = to]
  /\ inst' = [inst EXCEPT ![s] = active]
  /\ ver' = [ver EXCEPT ![s] = v]
  /\ conf' = [conf EXCEPT ![s] = c]
  /\ UNCHANGED <<store, tokens, rev>>

-----------------------------------------------------------------------------

\* Mutant: only the draft is seeded.
InstallUnpublished(i, v) ==
  /\ i \notin Installed /\ v \in Offered
  /\ active' = i
  /\ version' = [version EXCEPT ![i] = v]
  /\ drafts' = [drafts EXCEPT ![i] = <<Default[v]>>]
  /\ UNCHANGED <<live, tokens, call>>

\* Install and InstallAtomically: i is a new row.  Of two at once the second
\* finds the first one's row, or breaks theme_installations_one_active_per_store.
Install(i, v) ==
  /\ i \notin Installed /\ v \in Offered
  /\ active' = i
  /\ version' = [version EXCEPT ![i] = v]
  /\ drafts' = [drafts EXCEPT ![i] = <<Default[v]>>]
  /\ live' = [live EXCEPT ![i] = Default[v]]
  /\ UNCHANGED <<tokens, call>>

\* UpdateDraftConfiguration of the service: the new draft is validated,
BeginEdit(s, c) ==
  /\ active # None /\ Valid(version[active], c)
  /\ ReadInstallation(s, "edit", version[active], c)

\* and written.
UpdateDraftConfiguration(s) ==
  /\ phase[s] = "edit"
  /\ WriteDraft(Target(s), conf[s])
  /\ Finish(s)
  /\ UNCHANGED tokens

\* DiscardDraft
BeginDiscard(s) == ReadInstallation(s, "discard", None, None)

DiscardDraft(s) ==
  /\ phase[s] = "discard"
  /\ WriteDraft(Target(s), live[Target(s)])
  /\ Finish(s)
  /\ UNCHANGED tokens

\* PublishConfiguration of the service
BeginPublish(s) ==
  /\ active # None
  /\ ReadInstallation(s, "publish?", version[active], None)

\* UpgradeInstallation: the target is another published version of the theme.
BeginUpgrade(s, v) ==
  /\ active # None
  /\ v \in Offered \ {version[active]}
  /\ ThemeOf[v] = ThemeOf[version[active]]
  /\ ReadInstallation(s, "upgrade?", v, None)

\* Mutant: the draft is validated against the installed version.
ValidateInstalled(s) ==
  LET i == inst[s]
  IN  /\ phase[s] \in {"publish?", "upgrade?"}
      /\ Valid(version[i], Draft(i))
      /\ phase' = [phase EXCEPT ![s] =
                     IF @ = "publish?" THEN "publish" ELSE "upgrade"]
      /\ rev' = [rev EXCEPT ![s] = DraftRevision(i)]
      /\ conf' = [conf EXCEPT ![s] = Draft(i)]
      /\ UNCHANGED <<store, tokens, inst, ver>>

\* GetConfiguration and the validation of the draft that both go on with.
ValidateDraft(s) ==
  LET i == inst[s]
  IN  /\ phase[s] \in {"publish?", "upgrade?"}
      /\ Valid(ver[s], Draft(i))
      /\ phase' = [phase EXCEPT ![s] =
                     IF @ = "publish?" THEN "publish" ELSE "upgrade"]
      /\ rev' = [rev EXCEPT ![s] = DraftRevision(i)]
      /\ conf' = [conf EXCEPT ![s] = Draft(i)]
      /\ UNCHANGED <<store, tokens, inst, ver>>

\* Mutant: the revision is not compared.
AnyRevision(s) == TRUE

ExpectedRevision(s) == DraftRevision(Target(s)) = rev[s]

\* PublishConfiguration of the repository, under FOR UPDATE.
PublishConfiguration(s) ==
  /\ phase[s] = "publish" /\ ExpectedRevision(s)
  /\ live' = [live EXCEPT ![Target(s)] = Draft(Target(s))]
  /\ Finish(s)
  /\ UNCHANGED <<active, version, drafts, tokens>>

\* UpdateInstallationVersion
UpdateInstallationVersion(s) ==
  /\ phase[s] = "upgrade"
  /\ version' = [version EXCEPT ![Target(s)] = ver[s]]
  /\ Finish(s)
  /\ UNCHANGED <<active, drafts, live, tokens>>

-----------------------------------------------------------------------------
(* Previews.                                                               *)

\* CreatePreviewToken
BeginToken(s) == ReadInstallation(s, "token", None, None)

IssuePreviewToken(s) ==
  /\ phase[s] = "token"
  /\ Cardinality(tokens) < MaxTokens
  /\ tokens' = tokens \cup
       {[installation |-> inst[s], revision |-> DraftRevision(inst[s])]}
  /\ Finish(s)
  /\ UNCHANGED store

\* VerifyPreviewToken fails from now on.
ExpireToken(t) ==
  /\ t \in tokens
  /\ tokens' = tokens \ {t}
  /\ UNCHANGED <<store, call>>

\* ResolveStorefrontPreview: the token is verified and the installation read.
BeginPreview(s, t) ==
  /\ phase[s] = "idle" /\ t \in tokens /\ t.installation = active
  /\ phase' = [phase EXCEPT ![s] = "preview"]
  /\ inst' = [inst EXCEPT ![s] = active]
  /\ ver' = [ver EXCEPT ![s] = version[active]]
  /\ rev' = [rev EXCEPT ![s] = t.revision]
  /\ UNCHANGED <<store, tokens, conf>>

\* currentPreviewConfiguration from GetConfiguration on, and the validation.
ResolvePreview(s) ==
  /\ phase[s] = "preview" /\ ExpectedRevision(s)
  /\ Valid(ver[s], Draft(inst[s]))
  /\ phase' = [phase EXCEPT ![s] = "shown"]
  /\ conf' = [conf EXCEPT ![s] = Draft(inst[s])]
  /\ UNCHANGED <<store, tokens, inst, ver, rev>>

-----------------------------------------------------------------------------

\* The call returns without a write: a draft that is not valid, a revision that
\* has moved, a lost connection; or a preview has been answered.
Return(s) ==
  /\ phase[s] # "idle"
  /\ Finish(s)
  /\ UNCHANGED <<store, tokens>>

Call(s) ==
  \/ \E c \in Config : BeginEdit(s, c)
  \/ UpdateDraftConfiguration(s)
  \/ BeginDiscard(s) \/ DiscardDraft(s)
  \/ BeginPublish(s) \/ \E v \in Version : BeginUpgrade(s, v)
  \/ ValidateDraft(s) \/ PublishConfiguration(s) \/ UpdateInstallationVersion(s)
  \/ BeginToken(s) \/ IssuePreviewToken(s)
  \/ \E t \in tokens : BeginPreview(s, t)
  \/ ResolvePreview(s) \/ Return(s)

Next ==
  \/ \E i \in Installation, v \in Version : Install(i, v)
  \/ \E t \in tokens : ExpireToken(t)
  \/ \E s \in Session : Call(s)

Spec == Init /\ [][Next]_vars

-----------------------------------------------------------------------------
(* Properties.                                                             *)

\* What is public and what is edited was accepted by some version of the theme
\* it belongs to: a write validated before a switch of themes never lands in
\* the installation of another theme (validation in service.go, the writes by
\* installation_id in repository.go).
ConfigsFitTheme ==
  \A i \in Installed, c \in Config :
    c \in {live[i], Draft(i)} =>
      \E v \in Version : ThemeOf[v] = ThemeOf[version[i]] /\ c \in Accepts[v]

\* A publish makes public exactly the draft that its call validated, however
\* many edits, discards and other publishes came between the validation and the
\* write (expectedDraftRevision in PublishConfiguration, repository.go 442-450).
PublishesValidatedDraft ==
  [][\A i \in Installation :
       live'[i] # live[i] /\ i \in Installed =>
         \E s \in Session : /\ phase[s] = "publish" /\ inst[s] = i
                            /\ live'[i] = conf[s] /\ Valid(ver[s], conf[s])]_live

\* A preview shows the draft as it was when its token was issued, and only in a
\* version that accepts it, although the installation, the configuration and
\* the version are read one after the other (ResolveStorefrontPreview).
PreviewShowsItsDraft ==
  \A s \in Session : phase[s] = "shown" =>
    /\ conf[s] = drafts[inst[s]][rev[s] + 1]
    /\ Valid(ver[s], conf[s])

\* The theme that customers see changes only by a new installation or by a call
\* that read the active installation itself: what was begun before a switch of
\* themes stays behind in the old installation, which is never active again
\* (InstallAtomically against the four writes by installation_id).
LateWritesStayBehind ==
  [][\A i \in Installation :
       i = active /\ active' = active
       /\ <<version[i], live[i]>>' # <<version[i], live[i]>>
         => \E s \in Session : /\ phase[s] \in {"publish", "upgrade"}
                               /\ inst[s] = i /\ phase'[s] = "idle"]_store

\* A version replaces another only with a draft that it accepts, or with one
\* saved after the upgrade had validated the draft of its time: the write of an
\* upgrade does not compare revisions (UpgradeInstallation, service.go:228
\* "validates the current draft against the target schema").
UpgradesValidatedDraft ==
  [][\A i \in Installed :
       version'[i] # version[i] =>
         \E s \in Session :
           /\ phase[s] = "upgrade" /\ inst[s] = i
           /\ Valid(version'[i], Draft(i)) \/ DraftRevision(i) > rev[s]]_version

=============================================================================
