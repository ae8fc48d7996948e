---------------------- MODULE TenantAdminCredentialsProofs ----------------------
(***************************************************************************)
(* Proofs about TenantAdminCredentials, for every set of operators' calls, *)
(* changes of password and saves of the mailer, with and without faults.   *)
(*                                                                         *)
(* Everything follows from who was at work together: two calls that run    *)
(* now have overlapped (lemma OverlapStep), and a call that still works on *)
(* its mail overlapped the one whose password replaced its own.            *)
(***************************************************************************)
EXTENDS TenantAdminCredentials, TLAPS

\* Where a call is once its password is in the row.
Working == {"mail", "new template", "send", "status", "answer"}

PcValues == Working \cup {"idle", "update", "answered", "refused", "failed"}

Account == [password : Password \cup {NoPassword}, must_reset : BOOLEAN,
            password_set : BOOLEAN, status : Statuses]

\* The steps of a call after its transaction, and its interruption.
Delivery(c) ==
    \/ SkipMail(c) \/ ComposeMail(c) \/ RenderFails(c)
    \/ MissTemplate(c) \/ CreateTemplate(c) \/ TemplateExists(c)
    \/ SendMail(c) \/ MailFails(c) \/ WriteStatus(c) \/ Respond(c) \/ Interrupt(c)

\* The rest of the operators' and the tenant admin's steps, one by one.
Mailer ==
    \/ \E s \in {"active", "inactive", "broken"} : EditTemplate(s)
    \/ \E s \in Saves : FindConfig(s)
    \/ \E s \in Saves, b \in BOOLEAN : CreateConfig(s, b) \/ UpdateConfig(s, b)

\* The steps, one by one.
LEMMA NextCases ==
    ASSUME [Next]_vars
    PROVE  \/ UNCHANGED vars
           \/ Mailer
           \/ \E c \in Calls : CreateAdmin(c) \/ CheckIntervention(c) \/ ReplacePassword(c)
           \/ \E c \in Calls : Delivery(c)
           \/ \E d \in Changes : VerifyCurrent(d) \/ ChangePassword(d)
  BY DEF Next, Operator, Delivery, Mailer

-----------------------------------------------------------------------------
(* Types *)

\* The account, field by field.
LEMMA AccountType ==
    ASSUME TypeOK
    PROVE  /\ account \in Account
           /\ account.password \in Password \cup {NoPassword}
           /\ account.status \in Statuses
  BY DEF TypeOK, Account

\* What mailing a password may change: the call itself, the mail, the status.
LEMMA DeliverySteps ==
    ASSUME TypeOK, NEW c \in Calls, Delivery(c)
    PROVE  /\ \E x \in Working \cup {"answered", "failed"} :
                 /\ pc' = [pc EXCEPT ![c] = x]
                 /\ x = "answered" => c \in answered'
                 /\ x = "answer" => WriteStatus(c)
           /\ pc[c] \in Working \cup {"update"}
           /\ pc[c] \in Working \/ pc'[c] = "failed"
           /\ \E s \in Statuses : account' = [account EXCEPT !.status = s]
           /\ WriteStatus(c) \/ UNCHANGED account
           /\ \E s \in Statuses : outcome' = [outcome EXCEPT ![c] = s] /\ (s = "SENT" => c \in mailed' \/ outcome[c] = s)
           /\ mailed' \in {mailed, mailed \cup {c}}
           /\ answered' \in {answered, answered \cup {c}}
           /\ template' \in {template, "active"}
           /\ UNCHANGED <<change, configs, oldest, active, save, found, overlap>>
<1>1. pc[c] \in PcValues /\ outcome[c] \in Statuses /\ account.status \in Statuses
  BY AccountType DEF TypeOK, PcValues, Working
<1>2. /\ outcome = [outcome EXCEPT ![c] = outcome[c]]
      /\ account = [account EXCEPT !.status = account.status]
  BY AccountType DEF TypeOK, Account
<1>3. \A x \in PcValues : [pc EXCEPT ![c] = x][c] = x
  BY DEF TypeOK
<1>. USE <1>1, <1>2, <1>3 DEF Working, PcValues, Statuses, Goto, Settle, mailer
<1>4. CASE SkipMail(c)
  BY <1>4 DEF SkipMail
<1>5. CASE ComposeMail(c)
  BY <1>5 DEF ComposeMail
<1>6. CASE RenderFails(c)
  BY <1>6 DEF RenderFails
<1>7. CASE MissTemplate(c)
  BY <1>7 DEF MissTemplate
<1>8. CASE CreateTemplate(c)
  BY <1>8 DEF CreateTemplate
<1>9. CASE TemplateExists(c)
  BY <1>9 DEF TemplateExists
<1>10. CASE SendMail(c)
  BY <1>10 DEF SendMail
<1>11. CASE MailFails(c)
  BY <1>11 DEF MailFails
<1>12. CASE WriteStatus(c)
  BY <1>12 DEF WriteStatus
<1>13. CASE Respond(c)
  BY <1>13 DEF Respond
<1>14. CASE Interrupt(c)
  <2>1. pc[c] \in Working \cup {"update"}
    BY <1>14, PasswordsAssumption DEF Interrupt, Running
  <2>. QED
    BY <1>14, <2>1 DEF Interrupt
<1>. QED
  BY <1>4, <1>5, <1>6, <1>7, <1>8, <1>9, <1>10, <1>11, <1>12, <1>13, <1>14 DEF Delivery

\* Pairs with members of a set are subsets of it.
LEMMA PairsType ==
    ASSUME NEW S, NEW P, P \subseteq SUBSET S, NEW x \in S, NEW Y \in SUBSET S
    PROVE  P \cup {{x, y} : y \in Y} \subseteq SUBSET S
<1>. SUFFICES ASSUME NEW e \in P \cup {{x, y} : y \in Y} PROVE e \in SUBSET S
  OBVIOUS
<1>1. CASE e \in P
  BY <1>1
<1>2. ASSUME NEW y \in Y, e = {x, y} PROVE e \in SUBSET S
  BY <1>2
<1>. QED
  BY <1>1, <1>2

\* Beginning records pairs of calls.
LEMMA BeginType ==
    ASSUME TypeOK, NEW x \in Password, Begin(x)
    PROVE  overlap' \subseteq SUBSET (Password \cup Saves)
<1>1. Running \in SUBSET (Password \cup Saves) /\ x \in Password \cup Saves
  BY DEF Running, Password
<1>2. overlap \subseteq SUBSET (Password \cup Saves)
  BY DEF TypeOK
<1>. QED
  BY <1>1, <1>2, PairsType DEF Begin

\* The initial state has the types.
LEMMA TypeInit == Init => TypeOK
<1>. SUFFICES ASSUME Init PROVE TypeOK
  OBVIOUS
<1>1. overlap \subseteq SUBSET (Password \cup Saves)
  BY DEF Init
<1>2. /\ mailed \subseteq Calls /\ answered \subseteq Calls /\ configs \subseteq Saves
      /\ oldest \in configs \cup {NoConfig} /\ oldest = NoConfig => configs = {}
      /\ found \in [Saves -> configs \cup {NoConfig}]
  BY DEF Init
<1>. QED
  BY <1>1, <1>2 DEF Init, TypeOK, Statuses

\* Saving the mailer keeps them,
LEMMA MailerType == TypeOK /\ Mailer => TypeOK'
<1>. SUFFICES ASSUME TypeOK, Mailer PROVE TypeOK'
  OBVIOUS
<1>1. UNCHANGED <<account, pc, outcome, mailed, answered, change>>
  BY DEF Mailer, EditTemplate, FindConfig, CreateConfig, UpdateConfig
<1>2. ASSUME NEW s \in {"active", "inactive", "broken"}, EditTemplate(s) PROVE TypeOK'
  BY <1>1, <1>2 DEF EditTemplate, TypeOK
<1>3. ASSUME NEW s \in Saves, FindConfig(s) PROVE TypeOK'
  <2>1. Saving \in SUBSET (Password \cup Saves) /\ s \in Password \cup Saves
    BY DEF Saving
  <2>2. overlap \subseteq SUBSET (Password \cup Saves)
    BY DEF TypeOK
  <2>3. overlap' = overlap \cup {{s, u} : u \in Saving}
    BY <1>3 DEF FindConfig
  <2>4. overlap' \subseteq SUBSET (Password \cup Saves)
    BY <2>1, <2>2, <2>3, PairsType
  <2>. QED
    BY <1>1, <1>3, <2>4 DEF FindConfig, TypeOK
<1>4. ASSUME NEW s \in Saves, NEW b \in BOOLEAN, CreateConfig(s, b) PROVE TypeOK'
  BY <1>1, <1>4, ConfigsAssumption DEF CreateConfig, TypeOK
<1>5. ASSUME NEW s \in Saves, NEW b \in BOOLEAN, UpdateConfig(s, b) PROVE TypeOK'
  BY <1>1, <1>5 DEF UpdateConfig, TypeOK
<1>. QED
  BY <1>2, <1>3, <1>4, <1>5 DEF Mailer

\* mailing a password,
LEMMA DeliveryType == ASSUME TypeOK, NEW c \in Calls, Delivery(c) PROVE TypeOK'
<1>1. /\ pc' \in [Calls -> PcValues]
      /\ outcome' \in [Calls -> Statuses]
      /\ mailed' \subseteq Calls /\ answered' \subseteq Calls
      /\ template' \in {"none", "active", "inactive", "broken"}
      /\ UNCHANGED <<change, configs, oldest, active, save, found, overlap>>
  <2>1. PICK x \in Working \cup {"answered", "failed"} : pc' = [pc EXCEPT ![c] = x]
    BY DeliverySteps
  <2>2. PICK s \in Statuses : outcome' = [outcome EXCEPT ![c] = s]
    BY DeliverySteps
  <2>3. /\ mailed' \in {mailed, mailed \cup {c}} /\ answered' \in {answered, answered \cup {c}}
        /\ template' \in {template, "active"}
        /\ UNCHANGED <<change, configs, oldest, active, save, found, overlap>>
    BY DeliverySteps
  <2>4. pc' \in [Calls -> PcValues] /\ outcome' \in [Calls -> Statuses]
    BY <2>1, <2>2 DEF TypeOK, PcValues, Working
  <2>. QED
    BY <2>3, <2>4 DEF TypeOK
<1>2. account' \in Account /\ account'.must_reset = ~account'.password_set
  <2>1. PICK s \in Statuses : account' = [account EXCEPT !.status = s]
    BY DeliverySteps
  <2>. QED
    BY <2>1, AccountType DEF Account, TypeOK
<1>. QED
  BY <1>1, <1>2 DEF TypeOK, PcValues, Working, Account

\* creating the account,
LEMMA CreateAdminType == ASSUME TypeOK, NEW c \in Calls, CreateAdmin(c) PROVE TypeOK'
<1>1. account' \in Account /\ account'.must_reset = ~account'.password_set
  BY AccountType DEF CreateAdmin, Account, TypeOK, Password
<1>2. overlap' \subseteq SUBSET (Password \cup Saves)
  BY BeginType DEF CreateAdmin, Password
<1>. QED
  BY <1>1, <1>2 DEF CreateAdmin, Goto, mailer, TypeOK, Account

\* looking at it before an intervention,
LEMMA CheckInterventionType ==
    ASSUME TypeOK, NEW c \in Calls, CheckIntervention(c) PROVE TypeOK'
<1>1. overlap' \subseteq SUBSET (Password \cup Saves)
  BY BeginType DEF CheckIntervention, Password
<1>. QED
  BY <1>1 DEF CheckIntervention, Goto, mailer, TypeOK

\* replacing its password,
LEMMA ReplacePasswordType ==
    ASSUME TypeOK, NEW c \in Calls, ReplacePassword(c) PROVE TypeOK'
<1>1. account' \in Account /\ account'.must_reset = ~account'.password_set
  BY AccountType DEF ReplacePassword, Account, Password
<1>. QED
  BY <1>1 DEF ReplacePassword, Goto, mailer, TypeOK, Account

\* changing it,
LEMMA ChangeType ==
    ASSUME TypeOK, NEW d \in Changes, VerifyCurrent(d) \/ ChangePassword(d) PROVE TypeOK'
<1>1. CASE VerifyCurrent(d)
  <2>1. overlap' \subseteq SUBSET (Password \cup Saves)
    BY <1>1, BeginType DEF VerifyCurrent, Password
  <2>. QED
    BY <1>1, <2>1 DEF VerifyCurrent, mailer, TypeOK
<1>2. CASE ChangePassword(d)
  <2>1. account' \in Account /\ account'.must_reset = ~account'.password_set
    BY <1>2, AccountType DEF ChangePassword, Account, Password
  <2>. QED
    BY <1>2, <2>1 DEF ChangePassword, mailer, TypeOK, Account
<1>. QED
  BY <1>1, <1>2

\* and so every step.
LEMMA TypeStep == TypeOK /\ [Next]_vars => TypeOK'
<1>. SUFFICES ASSUME TypeOK, [Next]_vars PROVE TypeOK'
  OBVIOUS
<1>1. CASE UNCHANGED vars
  BY <1>1 DEF vars, mailer, TypeOK
<1>. QED
  BY <1>1, NextCases, MailerType, DeliveryType, CreateAdminType, CheckInterventionType,
     ReplacePasswordType, ChangeType

\* Types; must_reset_password and password_set_at never contradict each other.
THEOREM TypeCorrect == Spec => []TypeOK
  BY TypeInit, TypeStep, PTL DEF Spec

-----------------------------------------------------------------------------
(* Who was at work together *)

OverlapInv == \A x, y \in Running : x # y => {x, y} \in overlap

\* A call is at work when its first transaction has not ended it.
LEMMA RunningCalls ==
    ASSUME TypeOK
    PROVE  /\ \A c \in Calls : c \in Running <=> pc[c] \in Working \cup {"update"}
           /\ \A d \in Changes : d \in Running <=> change[d] = "update"
  BY PasswordsAssumption DEF TypeOK, Running, Working

\* Only x begins in this step.
LEMMA BeginStep ==
    ASSUME OverlapInv, NEW x, Begin(x), Running' \subseteq Running \cup {x}
    PROVE  OverlapInv'
  BY DEF OverlapInv, Begin

\* Overlaps are recorded when the later of two begins, and for good.
LEMMA OverlapStep == TypeOK /\ OverlapInv /\ [Next]_vars => OverlapInv' /\ overlap \subseteq overlap'
<1>. SUFFICES ASSUME TypeOK, OverlapInv, [Next]_vars PROVE OverlapInv' /\ overlap \subseteq overlap'
  OBVIOUS
<1>1. CASE Running' \subseteq Running /\ overlap \subseteq overlap'
  BY <1>1 DEF OverlapInv
<1>2. CASE UNCHANGED vars
  BY <1>1, <1>2 DEF vars, Running
<1>3. CASE Mailer
  <2>1. UNCHANGED <<pc, change>> /\ overlap \subseteq overlap'
    BY <1>3 DEF Mailer, EditTemplate, FindConfig, CreateConfig, UpdateConfig
  <2>. QED
    BY <1>1, <2>1 DEF Running
<1>4. ASSUME NEW c \in Calls, CreateAdmin(c) \/ CheckIntervention(c) PROVE OverlapInv' /\ overlap \subseteq overlap'
  <2>1. UNCHANGED change /\ Begin(c) /\ \A b \in Calls \ {c} : pc'[b] = pc[b]
    BY <1>4 DEF CreateAdmin, CheckIntervention, Goto, TypeOK
  <2>2. Running' \subseteq Running \cup {c}
    BY <2>1 DEF Running
  <2>. QED
    BY <2>1, <2>2, BeginStep DEF Begin
<1>5. ASSUME NEW c \in Calls, ReplacePassword(c) PROVE OverlapInv' /\ overlap \subseteq overlap'
  <2>1. /\ UNCHANGED <<change, overlap>> /\ \A b \in Calls \ {c} : pc'[b] = pc[b]
        /\ pc[c] = "update"
    BY <1>5 DEF ReplacePassword, Goto, TypeOK
  <2>. QED
    BY <1>1, <2>1 DEF Running
<1>6. ASSUME NEW c \in Calls, Delivery(c) PROVE OverlapInv' /\ overlap \subseteq overlap'
  <2>1. PICK x : pc' = [pc EXCEPT ![c] = x]
    BY <1>6, DeliverySteps
  <2>2. UNCHANGED <<change, overlap>> /\ pc[c] \in Working \cup {"update"}
    BY <1>6, DeliverySteps
  <2>. QED
    BY <1>1, <2>1, <2>2 DEF Running, TypeOK, Working
<1>7. ASSUME NEW d \in Changes, VerifyCurrent(d) PROVE OverlapInv' /\ overlap \subseteq overlap'
  <2>1. UNCHANGED pc /\ Begin(d) /\ \A e \in Changes \ {d} : change'[e] = change[e]
    BY <1>7 DEF VerifyCurrent, TypeOK
  <2>2. Running' \subseteq Running \cup {d}
    BY <2>1 DEF Running
  <2>. QED
    BY <2>1, <2>2, BeginStep DEF Begin
<1>8. ASSUME NEW d \in Changes, ChangePassword(d) PROVE OverlapInv' /\ overlap \subseteq overlap'
  <2>1. /\ UNCHANGED <<pc, overlap>> /\ \A e \in Changes \ {d} : change'[e] = change[e]
        /\ change[d] = "update"
    BY <1>8 DEF ChangePassword, TypeOK
  <2>. QED
    BY <1>1, <2>1 DEF Running
<1>. QED
  BY <1>2, <1>3, <1>4, <1>5, <1>6, <1>7, <1>8, NextCases-----------------------------------------------------------------------------
(* Whose password is in the row *)

PasswordInv ==
    /\ account.password \in Changes => account.password_set
    /\ account.password \notin Changes => ~account.password_set
    /\ account.password \in Calls => pc[account.password] \notin {"idle", "update", "refused"}
    /\ account.password = NoPassword => account.status = "none" /\ \A c \in Calls : pc[c] = "idle"
    /\ \A c \in Calls : pc[c] = "answered" => c \in answered

\* There is no account at first.
LEMMA PasswordInit == Init => PasswordInv
  BY PasswordsAssumption DEF Init, PasswordInv

\* Locked is password_set, by the types.
LEMMA LockedMeans == TypeOK => (Locked <=> account.password_set)
  BY DEF TypeOK, Locked

\* Every step keeps PasswordInv.
LEMMA PasswordStep == TypeOK /\ PasswordInv /\ [Next]_vars => PasswordInv'
<1>. SUFFICES ASSUME TypeOK, PasswordInv, [Next]_vars PROVE PasswordInv'
  OBVIOUS
<1>. USE PasswordsAssumption
<1>1. ASSUME UNCHANGED <<account, pc, answered>> PROVE PasswordInv'
  BY <1>1 DEF PasswordInv
<1>2. CASE UNCHANGED vars
  BY <1>1, <1>2 DEF vars
<1>3. CASE Mailer
  BY <1>1, <1>3 DEF Mailer, EditTemplate, FindConfig, CreateConfig, UpdateConfig
<1>4. ASSUME NEW c \in Calls, CreateAdmin(c) PROVE PasswordInv'
  <2>1. /\ account'.password = c /\ account'.password_set = account.password_set
        /\ account.password = NoPassword
    BY <1>4, AccountType DEF CreateAdmin, Account
  <2>2. /\ pc'[c] \in {"mail", "answer"} /\ \A b \in Calls \ {c} : pc'[b] = pc[b]
        /\ UNCHANGED answered
    <3>1. PICK x \in {"mail", "answer"} : pc' = [pc EXCEPT ![c] = x]
      BY <1>4 DEF CreateAdmin, Goto
    <3>. QED
      BY <1>4, <3>1 DEF CreateAdmin, TypeOK
  <2>. QED
    BY <2>1, <2>2 DEF PasswordInv
<1>5. ASSUME NEW c \in Calls, CheckIntervention(c) PROVE PasswordInv'
  <2>1. /\ pc[c] = "idle" /\ pc'[c] \in {"update", "refused"}
        /\ \A b \in Calls \ {c} : pc'[b] = pc[b]
        /\ UNCHANGED <<account, answered>> /\ account.password # NoPassword
    BY <1>5 DEF CheckIntervention, Goto, TypeOK
  <2>. QED
    BY <2>1 DEF PasswordInv
<1>6. ASSUME NEW c \in Calls, ReplacePassword(c) PROVE PasswordInv'
  <2>1. account'.password = c /\ ~account'.password_set
    BY <1>6, AccountType DEF ReplacePassword, Account
  <2>2. /\ pc'[c] = "mail" /\ \A b \in Calls \ {c} : pc'[b] = pc[b]
        /\ UNCHANGED answered
    BY <1>6 DEF ReplacePassword, Goto, TypeOK
  <2>. QED
    BY <2>1, <2>2 DEF PasswordInv
<1>7. ASSUME NEW c \in Calls, Delivery(c) PROVE PasswordInv'
  <2>1. PICK x \in Working \cup {"answered", "failed"} :
           pc' = [pc EXCEPT ![c] = x] /\ (x = "answered" => c \in answered')
    BY <1>7, DeliverySteps
  <2>2. PICK s \in Statuses : account' = [account EXCEPT !.status = s]
    BY <1>7, DeliverySteps
  <2>3. pc[c] \in Working \cup {"update"} /\ answered \subseteq answered'
    BY <1>7, DeliverySteps
  <2>4. /\ pc'[c] \notin {"idle", "update", "refused"} /\ pc'[c] = x
        /\ \A b \in Calls \ {c} : pc'[b] = pc[b]
    BY <2>1 DEF TypeOK, Working
  <2>5. account.password # NoPassword
    BY <2>3 DEF PasswordInv, Working
  <2>6. account'.password = account.password /\ account'.password_set = account.password_set
    BY <2>2, AccountType DEF Account
  <2>. QED
    BY <2>1, <2>3, <2>4, <2>5, <2>6 DEF PasswordInv
<1>8. ASSUME NEW d \in Changes, VerifyCurrent(d) \/ ChangePassword(d) PROVE PasswordInv'
  <2>1. CASE VerifyCurrent(d)
    BY <1>1, <2>1 DEF VerifyCurrent
  <2>2. CASE ChangePassword(d)
    <3>1. account'.password = d /\ account'.password_set /\ UNCHANGED <<pc, answered>>
      BY <2>2, AccountType DEF ChangePassword, Account
    <3>. QED
      BY <3>1 DEF PasswordInv
  <2>. QED
    BY <1>8, <2>1, <2>2
<1>. QED
  BY <1>2, <1>3, <1>4, <1>5, <1>6, <1>7, <1>8, NextCases

\* No overlap of interventions, changes and failures leaves an account whose password
\* nobody can know and nobody can replace.
THEOREM PasswordStaysReachable == Spec => []PasswordIsReachable
<1>1. ASSUME TypeOK, PasswordInv PROVE PasswordIsReachable
  <2>1. SUFFICES ASSUME account.password \notin Running \cup {NoPassword}
                 PROVE  \/ Reaches(account.password)
                        \/ /\ account.password \in Calls
                           /\ pc[account.password] = "failed"
                           /\ ~Locked
    BY DEF PasswordIsReachable
  <2>2. CASE account.password \in Changes
    BY <2>2 DEF Reaches
  <2>3. CASE account.password \in Calls
    <3>1. pc[account.password] \in {"answered", "failed"}
      BY <1>1, <2>1, <2>3 DEF PasswordInv, Running, TypeOK
    <3>2. ~Locked
      BY <1>1, <2>3, LockedMeans, PasswordsAssumption DEF PasswordInv
    <3>. QED
      BY <1>1, <2>3, <3>1, <3>2 DEF PasswordInv, Reaches
  <2>. QED
    BY <1>1, <2>1, <2>2, <2>3, AccountType DEF Password
<1>. QED
  BY <1>1, TypeInit, TypeStep, PasswordInit, PasswordStep, PTL DEF Spec

-----------------------------------------------------------------------------
(* Which calls the present password has met *)

HistoryInv ==
    \A c \in Calls :
        /\ pc[c] = "update" /\ account.password \in Changes => {account.password, c} \in overlap
        /\ pc[c] \in Working /\ account.password \in Calls \ {c} => {c, account.password} \in overlap

\* Nobody works on a password at first.
LEMMA HistoryInit == Init => HistoryInv
  BY DEF Init, HistoryInv, Working

\* Every step keeps HistoryInv: who replaces a password overlapped those at work.
LEMMA HistoryStep ==
    TypeOK /\ PasswordInv /\ OverlapInv /\ HistoryInv /\ [Next]_vars => HistoryInv'
<1>. SUFFICES ASSUME TypeOK, PasswordInv, OverlapInv, HistoryInv, [Next]_vars PROVE HistoryInv'
  OBVIOUS
<1>. USE PasswordsAssumption
<1>1. overlap \subseteq overlap'
  BY OverlapStep
<1>2. ASSUME UNCHANGED <<account, pc>> PROVE HistoryInv'
  BY <1>1, <1>2 DEF HistoryInv
<1>3. CASE UNCHANGED vars
  BY <1>2, <1>3 DEF vars
<1>4. CASE Mailer
  BY <1>2, <1>4 DEF Mailer, EditTemplate, FindConfig, CreateConfig, UpdateConfig
<1>5. ASSUME NEW c \in Calls, CreateAdmin(c) PROVE HistoryInv'
  <2>1. account'.password = c /\ account.password = NoPassword
    BY <1>5, AccountType DEF CreateAdmin, Account
  <2>2. pc'[c] # "update" /\ \A b \in Calls \ {c} : pc'[b] = "idle"
    BY <1>5, <2>1 DEF CreateAdmin, Goto, TypeOK, PasswordInv
  <2>. QED
    BY <2>1, <2>2 DEF HistoryInv, Working
<1>6. ASSUME NEW c \in Calls, CheckIntervention(c) PROVE HistoryInv'
  <2>1. /\ pc'[c] = IF Locked THEN "refused" ELSE "update"
        /\ \A b \in Calls \ {c} : pc'[b] = pc[b]
        /\ UNCHANGED account
    BY <1>6 DEF CheckIntervention, Goto, TypeOK
  <2>2. account.password \in Changes => pc'[c] = "refused"
    BY <2>1, LockedMeans DEF PasswordInv
  <2>3. pc'[c] \notin Working
    BY <2>1 DEF Working
  <2>. QED
    BY <1>1, <2>1, <2>2, <2>3 DEF HistoryInv
<1>7. ASSUME NEW c \in Calls, ReplacePassword(c) PROVE HistoryInv'
  <2>1. account'.password = c
    BY <1>7, AccountType DEF ReplacePassword, Account
  <2>2. /\ pc[c] = "update" /\ pc'[c] = "mail"
        /\ \A b \in Calls \ {c} : pc'[b] = pc[b]
    BY <1>7 DEF ReplacePassword, Goto, TypeOK
  <2>3. ASSUME NEW b \in Calls \ {c}, pc[b] \in Working PROVE {b, c} \in overlap
    BY <2>2, <2>3, RunningCalls DEF OverlapInv
  <2>. QED
    BY <1>1, <2>1, <2>2, <2>3 DEF HistoryInv
<1>8. ASSUME NEW c \in Calls, Delivery(c) PROVE HistoryInv'
  <2>1. PICK x \in Working \cup {"answered", "failed"} : pc' = [pc EXCEPT ![c] = x]
    BY <1>8, DeliverySteps
  <2>2. PICK s \in Statuses : account' = [account EXCEPT !.status = s]
    BY <1>8, DeliverySteps
  <2>3. account'.password = account.password
    BY <2>2, AccountType DEF Account
  <2>4. /\ pc'[c] # "update" /\ (pc'[c] \in Working => pc[c] \in Working)
        /\ \A b \in Calls \ {c} : pc'[b] = pc[b]
    <3>1. pc[c] \in Working \/ pc'[c] = "failed"
      BY <1>8, DeliverySteps
    <3>2. pc'[c] = x /\ \A b \in Calls \ {c} : pc'[b] = pc[b]
      BY <2>1 DEF TypeOK
    <3>. QED
      BY <2>1, <3>1, <3>2 DEF Working
  <2>. QED
    BY <1>1, <2>3, <2>4 DEF HistoryInv
<1>9. ASSUME NEW d \in Changes, VerifyCurrent(d) \/ ChangePassword(d) PROVE HistoryInv'
  <2>1. CASE VerifyCurrent(d)
    BY <1>2, <2>1 DEF VerifyCurrent
  <2>2. CASE ChangePassword(d)
    <3>1. account'.password = d /\ UNCHANGED pc /\ change[d] = "update"
      BY <2>2, AccountType DEF ChangePassword, Account
    <3>2. ASSUME NEW c \in Calls, pc[c] = "update" PROVE {d, c} \in overlap
      BY <3>1, <3>2, RunningCalls DEF OverlapInv
    <3>. QED
      BY <1>1, <3>1, <3>2 DEF HistoryInv
  <2>. QED
    BY <1>9, <2>1, <2>2
<1>. QED
  BY <1>3, <1>4, <1>5, <1>6, <1>7, <1>8, <1>9, NextCases

\* Nobody is at work at first.
LEMMA OverlapInit == Init => OverlapInv
  BY DEF Init, OverlapInv, Running

\* Only an operator's call that overlapped the change itself replaces a password the
\* tenant admin chose.
THEOREM OwnPasswordKept == Spec => OwnPasswordIsKept
<1>1. ASSUME TypeOK, PasswordInv, HistoryInv, [Next]_vars,
             account.password \in Changes, account.password' \in Calls
      PROVE  {account.password, account.password'} \in overlap
  <2>. USE PasswordsAssumption
  <2>1. ASSUME NEW c \in Calls, ReplacePassword(c)
        PROVE  account.password' = c /\ pc[c] = "update"
    BY <1>1, <2>1, AccountType DEF ReplacePassword, Account
  <2>2. ASSUME NEW c \in Calls, Delivery(c) PROVE account.password' = account.password
    <3>1. PICK s \in Statuses : account' = [account EXCEPT !.status = s]
      BY <1>1, <2>2, DeliverySteps
    <3>. QED
      BY <1>1, <3>1, AccountType DEF Account
  <2>3. ASSUME NEW d \in Changes, ChangePassword(d) PROVE account.password' = d
    BY <1>1, <2>3, AccountType DEF ChangePassword, Account
  <2>4. CASE UNCHANGED account
    BY <1>1, <2>4
  <2>5. CASE UNCHANGED vars \/ Mailer \/ (\E d \in Changes : VerifyCurrent(d))
             \/ (\E c \in Calls : CheckIntervention(c))
    BY <2>4, <2>5 DEF vars, Mailer, EditTemplate, FindConfig, CreateConfig, UpdateConfig,
                      VerifyCurrent, CheckIntervention
  <2>6. ASSUME NEW c \in Calls, CreateAdmin(c) PROVE FALSE
    BY <1>1, <2>6 DEF CreateAdmin
  <2>. QED
    BY <1>1, <2>1, <2>2, <2>3, <2>5, <2>6, NextCases DEF HistoryInv
<1>2. TypeOK /\ PasswordInv /\ HistoryInv /\ [Next]_vars
        => [account.password \in Changes /\ account.password' \in Calls
              => {account.password, account.password'} \in overlap]_vars
  BY <1>1
<1>3. OverlapInv /\ TypeOK /\ [Next]_vars => OverlapInv'
  BY OverlapStep
<1>. QED
  BY <1>2, <1>3, TypeInit, TypeStep, PasswordInit, PasswordStep, OverlapInit, HistoryInit,
     HistoryStep, PTL DEF Spec, OwnPasswordIsKept-----------------------------------------------------------------------------
(* What the list of admins shows *)

StatusInv ==
    /\ \A c \in Calls : outcome[c] = "SENT" => c \in mailed
    /\ LET p == account.password IN
       p \in Calls /\ pc[p] \in {"answer", "answered"} /\ account.status = "SENT" =>
           p \in mailed \/ \E c \in Calls \ {p} : {c, p} \in overlap

\* Nothing is sent at first.
LEMMA StatusInit == Init => StatusInv
  BY PasswordsAssumption DEF Init, StatusInv

\* Every step keeps StatusInv.
LEMMA StatusStep ==
    TypeOK /\ PasswordInv /\ OverlapInv /\ HistoryInv /\ StatusInv /\ [Next]_vars => StatusInv'
<1>. SUFFICES ASSUME TypeOK, PasswordInv, OverlapInv, HistoryInv, StatusInv, [Next]_vars
              PROVE  StatusInv'
  OBVIOUS
<1>. USE PasswordsAssumption
<1>1. overlap \subseteq overlap'
  BY OverlapStep
<1>2. ASSUME UNCHANGED <<account, pc, outcome, mailed>> PROVE StatusInv'
  BY <1>1, <1>2 DEF StatusInv
<1>3. CASE UNCHANGED vars
  BY <1>2, <1>3 DEF vars
<1>4. CASE Mailer
  BY <1>2, <1>4 DEF Mailer, EditTemplate, FindConfig, CreateConfig, UpdateConfig
<1>5. ASSUME NEW c \in Calls, CreateAdmin(c) PROVE StatusInv'
  <2>1. account'.status = "none" /\ UNCHANGED <<outcome, mailed>>
    BY <1>5, AccountType DEF CreateAdmin, PasswordInv, Account
  <2>. QED
    BY <2>1 DEF StatusInv
<1>6. ASSUME NEW c \in Calls, CheckIntervention(c) PROVE StatusInv'
  <2>1. /\ pc'[c] \in {"refused", "update"}
        /\ \A b \in Calls \ {c} : pc'[b] = pc[b]
        /\ UNCHANGED <<account, outcome, mailed>>
    BY <1>6 DEF CheckIntervention, Goto, TypeOK
  <2>. QED
    BY <1>1, <2>1 DEF StatusInv
<1>7. ASSUME NEW c \in Calls, ReplacePassword(c) PROVE StatusInv'
  <2>1. account'.password = c
    BY <1>7, AccountType DEF ReplacePassword, Account
  <2>2. pc'[c] = "mail" /\ UNCHANGED <<outcome, mailed>>
    BY <1>7 DEF ReplacePassword, Goto, TypeOK
  <2>. QED
    BY <2>1, <2>2 DEF StatusInv
<1>8. ASSUME NEW c \in Calls, Delivery(c) PROVE StatusInv'
  <2>1. PICK s \in Statuses :
           outcome' = [outcome EXCEPT ![c] = s] /\ (s = "SENT" => c \in mailed' \/ outcome[c] = s)
    BY <1>8, DeliverySteps
  <2>2. mailed \subseteq mailed'
    BY <1>8, DeliverySteps
  <2>3. \A b \in Calls : outcome'[b] = "SENT" => b \in mailed'
    BY <2>1, <2>2 DEF StatusInv, TypeOK
  <2>4. PICK x \in Working \cup {"answered", "failed"} :
           pc' = [pc EXCEPT ![c] = x] /\ (x = "answer" => WriteStatus(c))
    BY <1>8, DeliverySteps
  <2>5. pc'[c] = x /\ \A b \in Calls \ {c} : pc'[b] = pc[b]
    BY <2>4 DEF TypeOK
  <2>6. CASE WriteStatus(c)
    <3>1. /\ account'.status = outcome[c] /\ account'.password = account.password
          /\ pc[c] = "status" /\ UNCHANGED mailed
      BY <2>6, AccountType DEF WriteStatus, Account
    <3>2. CASE account.password = c
      BY <2>3, <3>1, <3>2 DEF StatusInv
    <3>3. CASE account.password \in Calls \ {c}
      <4>1. {c, account.password} \in overlap'
        BY <1>1, <3>1, <3>3 DEF HistoryInv, Working
      <4>. QED
        BY <2>3, <3>1, <3>3, <4>1 DEF StatusInv
    <3>4. CASE account.password \notin Calls
      BY <2>3, <3>1, <3>4 DEF StatusInv
    <3>. QED
      BY <3>2, <3>3, <3>4
  <2>7. CASE ~WriteStatus(c)
    <3>1. UNCHANGED account /\ x # "answer"
      BY <1>8, <2>4, <2>7, DeliverySteps
    <3>2. x = "answered" => pc[c] = "answer"
      <4>1. pc'[c] = "answered" => Respond(c)
        BY <1>8, <2>4 DEF Delivery, SkipMail, ComposeMail, RenderFails, MissTemplate, CreateTemplate,
           TemplateExists, SendMail, MailFails, WriteStatus, Interrupt, Settle, Goto, TypeOK
      <4>. QED
        BY <2>5, <4>1 DEF Respond
    <3>. QED
      BY <1>1, <2>2, <2>3, <2>5, <3>1, <3>2 DEF StatusInv
  <2>. QED
    BY <2>6, <2>7
<1>9. ASSUME NEW d \in Changes, VerifyCurrent(d) \/ ChangePassword(d) PROVE StatusInv'
  <2>1. CASE VerifyCurrent(d)
    BY <1>2, <2>1 DEF VerifyCurrent
  <2>2. CASE ChangePassword(d)
    <3>1. account'.password = d /\ UNCHANGED <<outcome, mailed>>
      BY <2>2, AccountType DEF ChangePassword, Account
    <3>. QED
      BY <3>1 DEF StatusInv
  <2>. QED
    BY <1>9, <2>1, <2>2
<1>. QED
  BY <1>3, <1>4, <1>5, <1>6, <1>7, <1>8, <1>9, NextCases

\* A temporary password whose status says SENT was mailed, or its call overlapped
\* another one.
THEOREM StatusHasCauses == Spec => []StatusIsExplained
<1>1. StatusInv => StatusIsExplained
  BY DEF StatusInv, StatusIsExplained
<1>2. OverlapInv /\ TypeOK /\ [Next]_vars => OverlapInv'
  BY OverlapStep
<1>. QED
  BY <1>1, <1>2, TypeInit, TypeStep, PasswordInit, PasswordStep, OverlapInit, HistoryInit,
     HistoryStep, StatusInit, StatusStep, PTL DEF Spec

-----------------------------------------------------------------------------
(* The mailer's configurations *)

SavesInv ==
    /\ SingleMailer
    /\ \A s, u \in Saving : s # u => {s, u} \in overlap
    /\ \A s \in Saving, u \in configs : found[s] = NoConfig => {s, u} \in overlap

\* There is no configuration at first.
LEMMA SavesInit == Init => SavesInv
  BY DEF Init, SavesInv, SingleMailer, Saving

\* Every step keeps SavesInv.
LEMMA SavesStep == TypeOK /\ OverlapInv /\ SavesInv /\ [Next]_vars => SavesInv'
<1>. SUFFICES ASSUME TypeOK, OverlapInv, SavesInv, [Next]_vars PROVE SavesInv'
  OBVIOUS
<1>1. overlap \subseteq overlap'
  BY OverlapStep
<1>2. ASSUME UNCHANGED <<configs, save, found>> PROVE SavesInv'
  BY <1>1, <1>2 DEF SavesInv, SingleMailer, Saving
<1>3. ASSUME NEW s \in Saves, FindConfig(s) PROVE SavesInv'
  <2>1. /\ Saving' = Saving \cup {s} /\ s \notin Saving
        /\ found'[s] = oldest /\ \A u \in Saves \ {s} : found'[u] = found[u]
        /\ UNCHANGED configs
    BY <1>3 DEF FindConfig, Saving, TypeOK
  <2>2. \A u \in Saving : {s, u} \in overlap' /\ {u, s} = {s, u}
    BY <1>3 DEF FindConfig
  <2>3. found'[s] = NoConfig => configs = {}
    BY <2>1 DEF TypeOK
  <2>4. Saving \subseteq Saves
    BY DEF Saving
  <2>5. \A t, u \in Saving' : t # u => {t, u} \in overlap'
    BY <1>1, <2>1, <2>2 DEF SavesInv
  <2>6. \A t \in Saving', u \in configs' : found'[t] = NoConfig => {t, u} \in overlap'
    BY <1>1, <2>1, <2>3, <2>4 DEF SavesInv
  <2>. QED
    BY <1>1, <2>1, <2>5, <2>6 DEF SavesInv, SingleMailer
<1>4. ASSUME NEW s \in Saves, NEW b \in BOOLEAN, CreateConfig(s, b) PROVE SavesInv'
  <2>1. /\ Saving' = Saving \ {s} /\ s \in Saving /\ found[s] = NoConfig
        /\ configs' = configs \cup {s} /\ UNCHANGED <<found, overlap>>
    BY <1>4 DEF CreateConfig, Saving, TypeOK
  <2>2. \A u \in configs : {s, u} \in overlap /\ {u, s} = {s, u}
    BY <2>1 DEF SavesInv
  <2>3. \A t \in Saving \ {s} : {t, s} \in overlap
    BY <2>1 DEF SavesInv
  <2>. QED
    BY <2>1, <2>2, <2>3 DEF SavesInv, SingleMailer
<1>5. ASSUME NEW s \in Saves, NEW b \in BOOLEAN, UpdateConfig(s, b) PROVE SavesInv'
  <2>1. Saving' = Saving \ {s} /\ UNCHANGED <<configs, found, overlap>>
    BY <1>5 DEF UpdateConfig, Saving, TypeOK
  <2>. QED
    BY <2>1 DEF SavesInv, SingleMailer
<1>6. ASSUME NEW s \in {"active", "inactive", "broken"}, EditTemplate(s) PROVE SavesInv'
  BY <1>2, <1>6 DEF EditTemplate
<1>7. ASSUME NEW c \in Calls, Delivery(c) PROVE SavesInv'
  BY <1>2, <1>7, DeliverySteps
<1>8. ASSUME NEW c \in Calls, CreateAdmin(c) \/ CheckIntervention(c) \/ ReplacePassword(c)
      PROVE  SavesInv'
  BY <1>2, <1>8 DEF CreateAdmin, CheckIntervention, ReplacePassword, mailer
<1>9. ASSUME NEW d \in Changes, VerifyCurrent(d) \/ ChangePassword(d) PROVE SavesInv'
  BY <1>2, <1>9 DEF VerifyCurrent, ChangePassword, mailer
<1>10. CASE UNCHANGED vars
  BY <1>2, <1>10 DEF vars, mailer
<1>. QED
  BY <1>3, <1>4, <1>5, <1>6, <1>7, <1>8, <1>9, <1>10, NextCases DEF Mailer

\* Two configurations come from overlapping first saves.
THEOREM SecondMailerHasCause == Spec => []SingleMailer
<1>1. SavesInv => SingleMailer
  BY DEF SavesInv
<1>2. OverlapInv /\ TypeOK /\ [Next]_vars => OverlapInv'
  BY OverlapStep
<1>. QED
  BY <1>1, <1>2, TypeInit, TypeStep, OverlapInit, SavesInit, SavesStep, PTL DEF Spec
================================================================================
