------------------------- MODULE TenantAdminCredentials -------------------------
(***************************************************************************)
(* The credentials of one tenant admin and the mailer that delivers them:  *)
(* platform operators create the account and replace its temporary         *)
(* password (TenantsController), the tenant admin chooses a password       *)
(* (TenantAuthController.changePassword), and operators set up the         *)
(* operational mailer (OperationalMailerController).                       *)
(*                                                                         *)
(* Every endpoint is a transaction under READ COMMITTED, or several: what  *)
(* a statement read may be out of date when the next one writes.           *)
(*                                                                         *)
(* A definition named Bug... is no part of the specification: it is what   *)
(* the definition after it would be with a plausible mistake in the code.  *)
(***************************************************************************)
EXTENDS Naturals, FiniteSets

CONSTANTS
    Calls,       \* operators' calls that create the account or intervene
    Changes,     \* calls to changePassword
    Saves,       \* operators' calls to upsertConfig
    NoPassword,
    NoConfig,
    Faults       \* a subset of FaultKinds

\* "interrupt": an operator's call dies with its replica, or one of its transactions
\* fails.  "provider": the mail provider fails, having sent the mail or not.
FaultKinds == {"interrupt", "provider"}

ASSUME FaultsAssumption == Faults \subseteq FaultKinds
ASSUME PasswordsAssumption == Calls \cap Changes = {} /\ NoPassword \notin Calls \cup Changes
ASSUME ConfigsAssumption == NoConfig \notin Saves

\* A password is known by the call that drew or brought it: a temporary one by an
\* operator's call, the admin's own by a change.
Password == Calls \cup Changes

VARIABLES
    account,   \* the row of tenant_admins; with NoPassword there is none yet
    pc,        \* what an operator's call does next, or how it ended
    outcome,   \* onboarding.status of call c while it is running
    mailed,    \* the passwords that reached the admin's mailbox
    answered,  \* the passwords shown to an operator as initialCredentials
    change,    \* what changePassword does next
    template,  \* operational_email_templates['tenant-admin-welcome']
    configs,   \* operational_mailer_configs, each row known by its creator
    oldest,    \* the row with the least created_at
    active,    \* active[s]: is_active of row s
    save,      \* what upsertConfig does next
    found,     \* "existing" of upsertConfig
    overlap    \* pairs of calls that were in progress together (no code)

mailer == <<template, configs, oldest, active, save, found>>
vars == <<account, pc, outcome, mailed, answered, change, mailer, overlap>>

Statuses == {"none", "SENT", "FAILED", "SKIPPED"}

TypeOK ==
    /\ account \in [password : Password \cup {NoPassword}, must_reset : BOOLEAN,
                    password_set : BOOLEAN, status : Statuses]
    /\ account.must_reset = ~account.password_set
    /\ pc \in [Calls -> {"idle", "update", "mail", "new template", "send", "status", "answer",
                         "answered", "refused", "failed"}]
    /\ outcome \in [Calls -> Statuses]
    /\ mailed \subseteq Calls
    /\ answered \subseteq Calls
    /\ change \in [Changes -> {"idle", "update", "done"}]
    /\ template \in {"none", "active", "inactive", "broken"}
    /\ configs \subseteq Saves
    /\ oldest \in configs \cup {NoConfig}
    /\ oldest = NoConfig => configs = {}
    /\ active \in [Saves -> BOOLEAN]
    /\ save \in [Saves -> {"idle", "write", "done"}]
    /\ found \in [Saves -> configs \cup {NoConfig}]
    /\ overlap \subseteq SUBSET (Password \cup Saves)

Init ==
    /\ account = [password |-> NoPassword, must_reset |-> TRUE,
                  password_set |-> FALSE, status |-> "none"]
    /\ pc = [c \in Calls |-> "idle"]
    /\ outcome = [c \in Calls |-> "none"]
    /\ mailed = {}
    /\ answered = {}
    /\ change = [d \in Changes |-> "idle"]
    /\ template = "none"
    /\ configs = {}
    /\ oldest = NoConfig
    /\ active = [s \in Saves |-> TRUE]
    /\ save = [s \in Saves |-> "idle"]
    /\ found = [s \in Saves |-> NoConfig]
    /\ overlap = {}

Running ==
    {c \in Calls : pc[c] \notin {"idle", "answered", "refused", "failed"}}
        \cup {d \in Changes : change[d] = "update"}

Goto(c, l) == pc' = [pc EXCEPT ![c] = l]

-----------------------------------------------------------------------------
(* createTenant, createTenantAdmin, resetTemporaryPassword, resendOnboarding *)

\* x begins while the calls of Running are in progress.
Begin(x) == overlap' = overlap \cup {{x, y} : y \in Running}

\* The username is unique: a second creation changes nothing.  createTenant may be
\* asked to send no mail (sendOnboardingEmail).
CreateAdmin(c) ==
    /\ pc[c] = "idle"
    /\ account.password = NoPassword
    /\ account' = [account EXCEPT !.password = c]
    /\ Goto(c, "mail") \/ Goto(c, "answer")
    /\ Begin(c)
    /\ UNCHANGED <<outcome, mailed, answered, change, mailer>>

Locked == ~account.must_reset \/ account.password_set

BugChecksNothing(c) ==
    /\ pc[c] = "idle"
    /\ account.password # NoPassword
    /\ Goto(c, "update")
    /\ Begin(c)
    /\ UNCHANGED <<account, outcome, mailed, answered, change, mailer>>
\* findFirst and assertCredentialInterventionAllowed.
CheckIntervention(c) ==
    /\ pc[c] = "idle"
    /\ account.password # NoPassword
    /\ Goto(c, IF Locked THEN "refused" ELSE "update")
    /\ Begin(c)
    /\ UNCHANGED <<account, outcome, mailed, answered, change, mailer>>

\* The UPDATE, the audit row, COMMIT.
ReplacePassword(c) ==
    /\ pc[c] = "update"
    /\ account' = [account EXCEPT !.password = c, !.must_reset = TRUE, !.password_set = FALSE]
    /\ Goto(c, "mail")
    /\ UNCHANGED <<outcome, mailed, answered, change, mailer, overlap>>

-----------------------------------------------------------------------------
(* sendOnboarding with OperationalMailerService.sendTenantAdminOnboarding; its   *)
(* two reads of independent tables, done side by side, are one step              *)

NoMailer == oldest \notin {s \in configs : active[s]}

Settle(c, s) ==
    /\ outcome' = [outcome EXCEPT ![c] = s]
    /\ Goto(c, "status")

SkipMail(c) ==
    /\ pc[c] = "mail"
    /\ template # "none"
    /\ NoMailer \/ template = "inactive"
    /\ Settle(c, "SKIPPED")
    /\ UNCHANGED <<account, mailed, answered, change, mailer, overlap>>

ComposeMail(c) ==
    /\ pc[c] = "mail"
    /\ ~NoMailer
    /\ template = "active"
    /\ Goto(c, "send")
    /\ UNCHANGED <<account, outcome, mailed, answered, change, mailer, overlap>>

\* previewTemplate throws outside the try block, and the call ends with an error.
RenderFails(c) ==
    /\ pc[c] = "mail"
    /\ ~NoMailer
    /\ template = "broken"
    /\ Goto(c, "failed")
    /\ UNCHANGED <<account, outcome, mailed, answered, change, mailer, overlap>>

\* getTemplate finds no row; the configuration is read all the same.
MissTemplate(c) ==
    /\ pc[c] = "mail"
    /\ template = "none"
    /\ outcome' = [outcome EXCEPT ![c] = IF NoMailer THEN "SKIPPED" ELSE "none"]
    /\ Goto(c, "new template")
    /\ UNCHANGED <<account, mailed, answered, change, mailer, overlap>>

CreateTemplate(c) ==
    /\ pc[c] = "new template"
    /\ template = "none"
    /\ template' = "active"
    /\ Goto(c, IF outcome[c] = "SKIPPED" THEN "status" ELSE "send")
    /\ UNCHANGED <<account, outcome, mailed, answered, change, configs, oldest, active, save, found,
                   overlap>>

\* Another call has created it since: the unique key refuses the row, and the
\* exception ends the call.
TemplateExists(c) ==
    /\ pc[c] = "new template"
    /\ template # "none"
    /\ Goto(c, "failed")
    /\ outcome' = [outcome EXCEPT ![c] = "none"]
    /\ UNCHANGED <<account, mailed, answered, change, mailer, overlap>>

SendMail(c) ==
    /\ pc[c] = "send"
    /\ mailed' = mailed \cup {c}
    /\ Settle(c, "SENT")
    /\ UNCHANGED <<account, answered, change, mailer, overlap>>

\* The key cannot be decrypted, the provider is unknown, refuses or does not answer.
MailFails(c) ==
    /\ "provider" \in Faults
    /\ pc[c] = "send"
    /\ mailed' \in {mailed, mailed \cup {c}}
    /\ Settle(c, "FAILED")
    /\ UNCHANGED <<account, answered, change, mailer, overlap>>

BugWritesFirstStatus(c) ==
    /\ pc[c] = "status"
    /\ account' = [account EXCEPT !.status = IF @ = "none" THEN outcome[c] ELSE @]
    /\ Goto(c, "answer")
    /\ UNCHANGED <<outcome, mailed, answered, change, mailer, overlap>>
\* welcome_delivery_status and its companions.
WriteStatus(c) ==
    /\ pc[c] = "status"
    /\ account' = [account EXCEPT !.status = outcome[c]]
    /\ Goto(c, "answer")
    /\ UNCHANGED <<outcome, mailed, answered, change, mailer, overlap>>

BugShowsOnlySent(c) ==
    /\ pc[c] = "answer"
    /\ answered' = IF outcome[c] = "SENT" THEN answered \cup {c} ELSE answered
    /\ Goto(c, "answered")
    /\ outcome' = [outcome EXCEPT ![c] = "none"]
    /\ UNCHANGED <<account, mailed, change, mailer, overlap>>
\* The answer shows initialCredentials whatever became of the mail.
Respond(c) ==
    /\ pc[c] = "answer"
    /\ answered' = answered \cup {c}
    /\ Goto(c, "answered")
    /\ outcome' = [outcome EXCEPT ![c] = "none"]
    /\ UNCHANGED <<account, mailed, change, mailer, overlap>>

Interrupt(c) ==
    /\ "interrupt" \in Faults
    /\ c \in Running
    /\ Goto(c, "failed")
    /\ outcome' = [outcome EXCEPT ![c] = "none"]
    /\ UNCHANGED <<account, mailed, answered, change, mailer, overlap>>

-----------------------------------------------------------------------------
(* TenantAuthController.changePassword *)

\* The admin can know a password: it is the admin's own, was mailed, or was shown to
\* an operator, who passes it on.
Reaches(p) == p \in Changes \cup mailed \cup answered

\* findFirst and verifyPassword; a wrong password changes nothing.
VerifyCurrent(d) ==
    /\ change[d] = "idle"
    /\ Reaches(account.password)
    /\ change' = [change EXCEPT ![d] = "update"]
    /\ Begin(d)
    /\ UNCHANGED <<account, pc, outcome, mailed, answered, mailer>>

ChangePassword(d) ==
    /\ change[d] = "update"
    /\ account' = [account EXCEPT !.password = d, !.password_set = TRUE, !.must_reset = FALSE]
    /\ change' = [change EXCEPT ![d] = "done"]
    /\ UNCHANGED <<pc, outcome, mailed, answered, mailer, overlap>>

-----------------------------------------------------------------------------
(* OperationalMailerController *)

\* upsertTemplate; and getTemplate creates the default one.  Nothing checks that the
\* content compiles.
EditTemplate(s) ==
    /\ template' = s
    /\ UNCHANGED <<account, pc, outcome, mailed, answered, change, configs, oldest, active, save, found,
                   overlap>>

Saving == {s \in Saves : save[s] = "write"}

BugFindsActive(s) ==
    /\ save[s] = "idle"
    /\ save' = [save EXCEPT ![s] = "write"]
    /\ found' = [found EXCEPT ![s] = IF NoMailer THEN NoConfig ELSE oldest]
    /\ overlap' = overlap \cup {{s, u} : u \in Saving}
    /\ UNCHANGED <<account, pc, outcome, mailed, answered, change, template, configs, oldest, active>>
\* upsertConfig looks for the oldest row.
FindConfig(s) ==
    /\ save[s] = "idle"
    /\ save' = [save EXCEPT ![s] = "write"]
    /\ found' = [found EXCEPT ![s] = oldest]
    /\ overlap' = overlap \cup {{s, u} : u \in Saving}
    /\ UNCHANGED <<account, pc, outcome, mailed, answered, change, template, configs, oldest, active>>

\* Of two rows made at the same time either may have the lesser created_at.
CreateConfig(s, b) ==
    /\ save[s] = "write"
    /\ found[s] = NoConfig
    /\ configs' = configs \cup {s}
    /\ oldest' \in IF oldest = NoConfig THEN {s} ELSE {oldest, s}
    /\ active' = [active EXCEPT ![s] = b]
    /\ save' = [save EXCEPT ![s] = "done"]
    /\ UNCHANGED <<account, pc, outcome, mailed, answered, change, template, found, overlap>>

\* The row that was found need not be the oldest any more.
UpdateConfig(s, b) ==
    /\ save[s] = "write"
    /\ found[s] # NoConfig
    /\ active' = [active EXCEPT ![found[s]] = b]
    /\ save' = [save EXCEPT ![s] = "done"]
    /\ UNCHANGED <<account, pc, outcome, mailed, answered, change, template, configs, oldest, found,
                   overlap>>

-----------------------------------------------------------------------------
Operator(c) ==
    \/ CreateAdmin(c) \/ CheckIntervention(c) \/ ReplacePassword(c)
    \/ SkipMail(c) \/ ComposeMail(c) \/ RenderFails(c)
    \/ MissTemplate(c) \/ CreateTemplate(c) \/ TemplateExists(c)
    \/ SendMail(c) \/ MailFails(c) \/ WriteStatus(c) \/ Respond(c) \/ Interrupt(c)

Next ==
    \/ \E c \in Calls : Operator(c)
    \/ \E d \in Changes : VerifyCurrent(d) \/ ChangePassword(d)
    \/ \E s \in {"active", "inactive", "broken"} : EditTemplate(s)
    \/ \E s \in Saves : FindConfig(s)
    \/ \E s \in Saves, b \in BOOLEAN : CreateConfig(s, b) \/ UpdateConfig(s, b)

Spec == Init /\ [][Next]_vars

-----------------------------------------------------------------------------
(* Properties *)

\* Once no call is at work on it, the account's password is one its admin knows, was
\* mailed or an operator was shown; or its call failed before that, and then
\* operators can still replace it.  No overlap of interventions, changes and failures
\* leaves an account that nobody can open or reset (tenants.controller.ts:812-959,
\* tenant-auth.controller.ts:159-226).
PasswordIsReachable ==
    LET p == account.password IN
    p \notin Running \cup {NoPassword} =>
        Reaches(p) \/ (p \in Calls /\ pc[p] = "failed" /\ ~Locked)

\* An operator's call replaces a password the tenant admin chose only if it overlapped
\* the very change (tenants.controller.ts:842, 1068-1079).
OwnPasswordIsKept ==
    [][account.password \in Changes /\ account.password' \in Calls
          => {account.password, account.password'} \in overlap]_vars

\* The list of admins shows SENT for a temporary password that was not mailed only if
\* its call overlapped another operator's, whose status landed later, or ended with an
\* error (tenants.controller.ts:961-1021).
StatusIsExplained ==
    LET p == account.password IN
    p \in Calls /\ pc[p] = "answered" /\ account.status = "SENT" =>
        p \in mailed \/ \E c \in Calls \ {p} : {c, p} \in overlap

\* There is a second mailer configuration, of which every mail but no operator's list
\* of them uses the oldest, only if the saves that made both overlapped
\* (operational-mailer.controller.ts:70-112, operational-mailer.service.ts:32-36).
SingleMailer == \A s, u \in configs : s = u \/ {s, u} \in overlap

\* Credential intervention is locked after the tenant admin completes the first
\* password reset (tenants.controller.ts:1076).
InterventionStaysLocked == [][account.password \in Changes => account.password' \in Changes]_vars
================================================================================
