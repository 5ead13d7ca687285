------------------------------ MODULE Accounts ------------------------------
(***************************************************************************)
(* The accounts of staff and drivers: workspaces that are signed up,       *)
(* invitations, activation, passwords and the second factor                *)
(* (api/v1/auth.py, services/auth), and the driver profiles that the       *)
(* accounts of drivers are matched with by e-mail (api/v1/drivers.py).     *)
(*                                                                         *)
(* A request reads and checks when it begins, and commits later; an update *)
(* writes the columns whose values differ from those it read.  Staff       *)
(* accounts are unique by workspace and e-mail, workspaces by slug; driver *)
(* profiles, and e-mails over all workspaces, have only the look-up that   *)
(* precedes an insert.                                                     *)
(*                                                                         *)
(* The requests of api/v1/staff_users.py end without a commit, so that no  *)
(* account is changed, disabled or removed by them.                        *)
(***************************************************************************)
EXTENDS Naturals, FiniteSets

CONSTANTS
    Clients,     \* the requests that can be in flight at once
    Names,       \* of organizations that sign up
    MaxSuffix,   \* bound on the workspaces of one name
    Emails,
    Passwords,   \* that users choose
    Profiles,    \* driver profiles, in the order of their creation: 1 .. n
    Secrets,     \* TOTP secrets, in the order of their generation: 1 .. n
    Roles,       \* that accounts are invited with
    Nothing      \* no e-mail, secret, account or profile

Role == {"owner", "admin", "ops_manager", "ops_agent", "billing_admin",
         "support_agent", "viewer", "driver"}

ASSUME RolesAssumption == Roles \subseteq Role
ASSUME OrderAssumption == Profiles \subseteq Nat /\ Secrets \subseteq Nat
ASSUME SuffixAssumption == MaxSuffix \in Nat

VARIABLES
    workspaces,  \* the committed organizations, by slug
    account,     \* the rows of staff_users
    profile,     \* the rows of drivers
    client,      \* what each request is about to commit
    invited,     \* the accounts that an activation link has been sent to
    confirmed,   \* history: the secrets that a code was given for
    drawn,       \* history: the secrets that were generated
    doubled,     \* history: the e-mails that two inserts overlapped on
    interleaved  \* history: the accounts whose MFA requests overlapped

accountsVars == <<workspaces, account, profile, client, invited, confirmed,
                  drawn, doubled, interleaved>>

-----------------------------------------------------------------------------
Workspaces == Names \X (1 .. MaxSuffix)
Ids == Workspaces \X Emails

InitialPassword == "ChangeMe123!"

Account == [role : Role, active : BOOLEAN,
            password : Passwords \cup {InitialPassword},
            mfa_enabled : BOOLEAN, mfa_totp_secret : Secrets \cup {Nothing}]

Profile == [workspace : Workspaces, email : Emails \cup {Nothing},
            active : BOOLEAN]

ASSUME NothingAssumption ==
    /\ Nothing \notin Emails /\ Nothing \notin Secrets /\ Nothing \notin Workspaces
    /\ Nothing \notin Account /\ Nothing \notin Profile

Idle == [op |-> "idle"]

AccountsTypeOK ==
    /\ workspaces \subseteq Workspaces
    /\ account \in [Ids -> Account \cup {Nothing}]
    /\ profile \in [Profiles -> Profile \cup {Nothing}]
    /\ invited \subseteq Ids /\ interleaved \subseteq Ids
    /\ confirmed \subseteq drawn /\ drawn \subseteq Secrets
    /\ doubled \subseteq Emails

NewAccount(role, active, password) ==
    [role |-> role, active |-> active, password |-> password,
     mfa_enabled |-> FALSE, mfa_totp_secret |-> Nothing]

Has(id) == account[id] # Nothing

\* The columns of `new` that differ from those of `old`.
Changes(old, new) == [c \in {c \in DOMAIN old : old[c] # new[c]} |-> new[c]]

\* A password's hash is salted, and always differs.
Rehashed(old, new) ==
    [c \in {c \in DOMAIN old : old[c] # new[c]} \cup {"password"} |-> new[c]]

Overlay(row, changes) ==
    [c \in DOMAIN row |-> IF c \in DOMAIN changes THEN changes[c] ELSE row[c]]

Begin(r, record) ==
    /\ client[r] = Idle
    /\ client' = [client EXCEPT ![r] = record]

End(r) == client' = [client EXCEPT ![r] = Idle]

Others(r) == {client[q] : q \in Clients \ {r}}

-----------------------------------------------------------------------------
(* Driver profiles.                                                        *)

\* DriverRepository.list_by_email
ByEmail(workspace, email) ==
    {d \in Profiles : profile[d] # Nothing /\ email # Nothing
                      /\ profile[d].workspace = workspace
                      /\ profile[d].email = email}

\* DriverRepository.get_by_email: the newest.
DriverFor(workspace, email) ==
    CHOOSE d \in ByEmail(workspace, email) :
        \A other \in ByEmail(workspace, email) : other <= d

\* Mutant: only a profile that can be activated again stands in the way.
MutantConflicts(workspace, email, excluding) ==
    {d \in ByEmail(workspace, email) \ excluding : ~profile[d].active}

\* _email_conflict_state: a profile, active or not, has the e-mail.
Conflicts(workspace, email, excluding) == ByEmail(workspace, email) \ excluding

CreateDriver(r, workspace, email, active) ==
    /\ workspace \in workspaces
    /\ Conflicts(workspace, email, {}) = {}
    /\ Begin(r, [op |-> "create_driver",
                 row |-> [workspace |-> workspace, email |-> email,
                          active |-> active]])
    /\ UNCHANGED <<workspaces, account, profile, invited, confirmed, drawn,
                   doubled, interleaved>>

\* An e-mail and an activity that are given, or those that the row has.
UpdateDriver(r, d, email, active) ==
    /\ profile[d] # Nothing
    /\ email # profile[d].email =>
           Conflicts(profile[d].workspace, email, {d}) = {}
    /\ Begin(r, [op |-> "update_driver", profile |-> d,
                 changes |-> Changes(profile[d],
                     [profile[d] EXCEPT !.email = email, !.active = active])])
    /\ UNCHANGED <<workspaces, account, profile, invited, confirmed, drawn,
                   doubled, interleaved>>

\* Nothing but the activity is looked at.
ReactivateDriver(r, d) ==
    /\ profile[d] # Nothing
    /\ Begin(r, [op |-> "update_driver", profile |-> d,
                 changes |-> Changes(profile[d],
                                     [profile[d] EXCEPT !.active = TRUE])])
    /\ UNCHANGED <<workspaces, account, profile, invited, confirmed, drawn,
                   doubled, interleaved>>

\* The e-mail that a request is about to give to a profile.
Claims(record) ==
    IF record.op = "create_driver" THEN {record.row.email} \ {Nothing}
    ELSE IF record.op = "update_driver" /\ "email" \in DOMAIN record.changes
    THEN {record.changes.email} \ {Nothing}
    ELSE {}

NoteClaims(r) ==
    doubled' = doubled \cup
        (Claims(client[r]) \cap UNION {Claims(other) : other \in Others(r)})

CommitDriver(r) ==
    /\ \/ /\ client[r].op = "create_driver"
          /\ \E d \in Profiles :
               /\ profile[d] = Nothing
               /\ \A e \in Profiles : e < d => profile[e] # Nothing
               /\ profile' = [profile EXCEPT ![d] = client[r].row]
       \/ /\ client[r].op = "update_driver"
          /\ profile' = [profile EXCEPT ![client[r].profile] =
                             Overlay(@, client[r].changes)]
    /\ NoteClaims(r)
    /\ End(r)
    /\ UNCHANGED <<workspaces, account, invited, confirmed, drawn, interleaved>>

-----------------------------------------------------------------------------
(* Workspaces and invitations.                                             *)

\* _build_unique_org_slug: the name, or the name with the first free number.
FreeSlugs(name) ==
    {<<name, n>> : n \in {k \in 1 .. MaxSuffix :
         /\ <<name, k>> \notin workspaces
         /\ \A j \in 1 .. k - 1 : <<name, j>> \in workspaces}}

\* An e-mail signs up once, over all workspaces.
Signup(r, name, email, password) ==
    /\ \A id \in Ids : Has(id) => id[2] # email
    /\ \E slug \in FreeSlugs(name) :
         Begin(r, [op |-> "signup", id |-> <<slug, email>>,
                   row |-> NewAccount("owner", TRUE, password)])
    /\ UNCHANGED <<workspaces, account, profile, invited, confirmed, drawn,
                   doubled, interleaved>>

\* Slugs are unique: the second of two overlapping signups of a name fails.
CommitSignup(r) ==
    /\ client[r].op = "signup"
    /\ LET id == client[r].id
       IN  IF id[1] \in workspaces
           THEN UNCHANGED <<workspaces, account>>
           ELSE /\ workspaces' = workspaces \cup {id[1]}
                /\ account' = [account EXCEPT ![id] = client[r].row]
    /\ End(r)
    /\ UNCHANGED <<profile, invited, confirmed, drawn, doubled, interleaved>>

\* INVITE_PERMISSION_MATRIX
MayInvite(role) ==
    CASE role = "owner" -> Role \ {"owner"}
      [] role = "admin" -> Role \ {"owner", "admin"}
      [] OTHER -> {}

\* TokenService.get_current_staff_user
SignedIn(id) == Has(id) /\ account[id].active

\* invite_user: a new account, or the link of an existing one again.
Invite(r, requester, email, role) ==
    LET id == <<requester[1], email>>
    IN  /\ SignedIn(requester)
        /\ role \in MayInvite(account[requester].role)
        /\ role = "driver" => ByEmail(requester[1], email) # {}
        /\ Has(id) => account[id].role = role
        /\ Begin(r, [op |-> "invite", id |-> id, isNew |-> ~Has(id),
                     row |-> NewAccount(role, FALSE, InitialPassword)])
        /\ UNCHANGED <<workspaces, account, profile, invited, confirmed, drawn,
                       doubled, interleaved>>

\* E-mails are unique in a workspace.  The link is made after the commit, and
\* reaches nobody if the mail server raises an error.
CommitInvite(r) ==
    /\ client[r].op = "invite"
    /\ LET id == client[r].id
       IN  IF client[r].isNew /\ Has(id)
           THEN UNCHANGED <<account, invited>>
           ELSE /\ account' = IF client[r].isNew
                              THEN [account EXCEPT ![id] = client[r].row]
                              ELSE account
                /\ invited' \in {invited, invited \cup {id}}
    /\ End(r)
    /\ UNCHANGED <<workspaces, profile, confirmed, drawn, doubled, interleaved>>

-----------------------------------------------------------------------------
(* Staff.  These requests check, flush and answer, and are never committed. *)

Managers == {"owner", "admin"}

ManagersOf(workspace) ==
    {id \in Ids : id[1] = workspace /\ SignedIn(id)
                  /\ account[id].role \in Managers}

\* can_modify_staff
MayModify(actor, target) ==
    \/ actor = "owner" /\ target \in Role \ {"owner", "driver"}
    \/ actor = "admin" /\ target \in Role \ {"owner", "driver", "admin"}

\* A staff endpoint: the role in the token is the account's, because no role is
\* ever changed.
Unsaved(r, requester, id) ==
    /\ SignedIn(requester) /\ account[requester].role \in Managers
    /\ id[1] = requester[1]
    /\ Begin(r, [op |-> "unsaved"])
    /\ UNCHANGED <<workspaces, account, profile, invited, confirmed, drawn,
                   doubled, interleaved>>

CreateStaff(r, requester, id, role) ==
    /\ Unsaved(r, requester, id)
    /\ role \in {"ops_agent", "billing_admin", "support_agent", "viewer"}
    /\ ~Has(id)

SetRole(r, requester, id, role) ==
    /\ Unsaved(r, requester, id)
    /\ Has(id)
    /\ role # "driver"
    /\ role \in {"owner", "admin", "ops_manager"} =>
           account[requester].role = "owner"
    /\ account[id].role \in Managers /\ role \notin Managers =>
           Cardinality(ManagersOf(id[1])) > 1

SetActive(r, requester, id, active) ==
    /\ Unsaved(r, requester, id)
    /\ Has(id)
    /\ MayModify(account[requester].role, account[id].role)
    /\ ~active => ManagersOf(id[1]) # {id}

RemoveStaff(r, requester, id) ==
    /\ Unsaved(r, requester, id)
    /\ Has(id)
    /\ MayModify(account[requester].role, account[id].role)
    /\ ManagersOf(id[1]) # {id}

-----------------------------------------------------------------------------
(* Passwords and the second factor.                                        *)

\* A request that changes an account's row, by the row it has read.
BeginChange(r, op, id, changes) ==
    /\ Begin(r, [op |-> op, id |-> id, changes |-> changes])
    /\ UNCHANGED <<workspaces, account, profile, invited, doubled>>

Password(r, id, new) ==
    /\ BeginChange(r, "password", id, Rehashed(account[id], new))
    /\ UNCHANGED <<confirmed, drawn, interleaved>>

\* activate_account, with a link that is not used up.
Activate(r, id, password) ==
    /\ id \in invited
    /\ Password(r, id, [account[id] EXCEPT !.password = password, !.active = TRUE])

ChangePassword(r, id, current, password) ==
    /\ SignedIn(id)
    /\ account[id].password = current
    /\ Password(r, id, [account[id] EXCEPT !.password = password])

\* request_password_reset: whom a link is sent to.  Without the workspace, an
\* e-mail of several workspaces gets none.
ResetLink(email, hint) ==
    LET ids == {id \in Ids : Has(id) /\ id[2] = email /\ hint \in {Nothing, id[1]}}
    IN  IF Cardinality(ids) = 1 THEN ids ELSE {}

\* reset_password, with such a link
ResetPassword(r, id, password) ==
    /\ \E hint \in {Nothing, id[1]} : id \in ResetLink(id[2], hint)
    /\ Password(r, id, [account[id] EXCEPT !.password = password])

\* A request of the second factor; one that overlaps another is noted.
SecondFactor(r, id, changes) ==
    /\ SignedIn(id)
    /\ BeginChange(r, "mfa", id, changes)
    /\ interleaved' = interleaved \cup
           {other.id : other \in {o \in Others(r) : o.op = "mfa" /\ o.id = id}}

\* Mutant: a second setup leaves the second factor enabled.
MutantSetupMfa(r, id, secret) ==
    /\ secret \in Secrets \ drawn
    /\ \A s \in Secrets : s < secret => s \in drawn
    /\ SecondFactor(r, id, Changes(account[id],
           [account[id] EXCEPT !.mfa_totp_secret = secret]))
    /\ drawn' = drawn \cup {secret}
    /\ UNCHANGED confirmed

\* setup_mfa: a new secret, to be confirmed by a code.
SetupMfa(r, id, secret) ==
    /\ secret \in Secrets \ drawn
    /\ \A s \in Secrets : s < secret => s \in drawn
    /\ SecondFactor(r, id, Changes(account[id],
           [account[id] EXCEPT !.mfa_totp_secret = secret,
                               !.mfa_enabled = FALSE]))
    /\ drawn' = drawn \cup {secret}
    /\ UNCHANGED confirmed

\* enable_mfa: the code is one of the secret that the request has read.
EnableMfa(r, id) ==
    /\ SecondFactor(r, id, Changes(account[id],
           [account[id] EXCEPT !.mfa_enabled = TRUE]))
    /\ account[id].mfa_totp_secret # Nothing
    /\ confirmed' = confirmed \cup {account[id].mfa_totp_secret}
    /\ UNCHANGED drawn

\* disable_mfa, with the password, and with a code if it is enabled.
DisableMfa(r, id) ==
    /\ SecondFactor(r, id, Changes(account[id],
           [account[id] EXCEPT !.mfa_enabled = FALSE,
                               !.mfa_totp_secret = Nothing]))
    /\ UNCHANGED <<confirmed, drawn>>

CommitChange(r) ==
    /\ client[r].op \in {"password", "mfa"}
    /\ account' = [account EXCEPT ![client[r].id] = Overlay(@, client[r].changes)]
    /\ End(r)
    /\ UNCHANGED <<workspaces, profile, invited, confirmed, drawn, doubled,
                   interleaved>>

\* The request fails, or ends without a commit, or the process ends.
Abandon(r) ==
    /\ client[r] # Idle
    /\ End(r)
    /\ UNCHANGED <<workspaces, account, profile, invited, confirmed, drawn,
                   doubled, interleaved>>

-----------------------------------------------------------------------------
(* authenticate_user_for_login, and the token that follows.                *)

\* The accounts of an e-mail, of one workspace if the request names it.
Matches(email, password, hint) ==
    {id \in Ids : /\ Has(id) /\ id[2] = email
                  /\ hint \in {Nothing, id[1]}
                  /\ account[id].password = password}

\* An account that ends the look-up with an error, whatever others there are.
Stops(id) ==
    IF account[id].role # "driver" THEN ~account[id].active
    ELSE ByEmail(id[1], id[2]) = {}

Usable(id) ==
    /\ account[id].active
    /\ account[id].role = "driver" => profile[DriverFor(id[1], id[2])].active

\* The accounts that the user is signed in to, or has to choose from.
Login(email, password, hint) ==
    LET matches == Matches(email, password, hint)
    IN  IF \E id \in matches : Stops(id) THEN {}
        ELSE {id \in matches : Usable(id)}

-----------------------------------------------------------------------------
AccountsInit ==
    /\ workspaces = {}
    /\ account = [id \in Ids |-> Nothing]
    /\ profile = [d \in Profiles |-> Nothing]
    /\ client = [r \in Clients |-> Idle]
    /\ invited = {} /\ confirmed = {} /\ drawn = {}
    /\ doubled = {} /\ interleaved = {}

SignupStep(r) ==
    \/ \E name \in Names, email \in Emails, password \in Passwords :
         Signup(r, name, email, password)
    \/ CommitSignup(r)

InviteStep(r) ==
    \/ \E requester \in Ids, email \in Emails, role \in Roles :
         Invite(r, requester, email, role)
    \/ CommitInvite(r)

DriverStep(r) ==
    \/ \E workspace \in workspaces, email \in Emails \cup {Nothing},
          active \in BOOLEAN : CreateDriver(r, workspace, email, active)
    \/ \E d \in Profiles, email \in Emails \cup {Nothing}, active \in BOOLEAN :
         UpdateDriver(r, d, email, active)
    \/ \E d \in Profiles : ReactivateDriver(r, d)
    \/ CommitDriver(r)

PasswordStep(r) ==
    \E id \in Ids, password \in Passwords :
       \/ Activate(r, id, password)
       \/ ResetPassword(r, id, password)
       \/ \E current \in Passwords : ChangePassword(r, id, current, password)

MfaStep(r) ==
    \E id \in Ids : \/ \E secret \in Secrets : SetupMfa(r, id, secret)
                    \/ EnableMfa(r, id)
                    \/ DisableMfa(r, id)

StaffStep(r) ==
    \E requester, id \in Ids :
       \/ \E role \in Role : \/ CreateStaff(r, requester, id, role)
                            \/ SetRole(r, requester, id, role)
       \/ \E active \in BOOLEAN : SetActive(r, requester, id, active)
       \/ RemoveStaff(r, requester, id)

AccountsNext ==
    \E r \in Clients :
       \/ SignupStep(r) \/ InviteStep(r) \/ DriverStep(r)
       \/ PasswordStep(r) \/ MfaStep(r) \/ StaffStep(r)
       \/ CommitChange(r) \/ Abandon(r)

AccountsSpec == AccountsInit /\ [][AccountsNext]_accountsVars

-----------------------------------------------------------------------------
(* Properties.                                                             *)

\* A second factor that is asked for was confirmed: its secret is one that a
\* code was given for, unless two requests about it overlapped.
MfaUsable ==
    \A id \in Ids :
        Has(id) /\ account[id].mfa_enabled /\ id \notin interleaved
        => account[id].mfa_totp_secret \in confirmed

\* A user who names the workspace signs in to an active account there with its
\* password; a driver, if a profile with the e-mail is active, unless two
\* requests gave the e-mail to profiles at the same time.
LoginFindsAccount ==
    \A id \in Ids :
        /\ Has(id) /\ account[id].active /\ id[2] \notin doubled
        /\ account[id].role = "driver" =>
               \E d \in ByEmail(id[1], id[2]) : profile[d].active
        => Login(id[2], account[id].password, id[1]) = {id}
=============================================================================
