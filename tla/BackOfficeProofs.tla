-------------------------- MODULE BackOfficeProofs --------------------------
(***************************************************************************)
(* What Accounts and BackOffice guarantee for every number of requests,    *)
(* accounts, profiles and rows.  A request has read rows that others may   *)
(* change before it commits: the invariants say what its changes still     *)
(* mean then.                                                              *)
(***************************************************************************)
EXTENDS BackOffice, TLAPS

-----------------------------------------------------------------------------
(* Rows and changes.                                                       *)

\* `changes` are columns of a record of the set.
From(changes, records) ==
    \E new \in records : \A c \in DOMAIN changes : changes[c] = new[c]

LEMMA AccountOverlaid ==
    ASSUME NEW row \in Account, NEW changes, From(changes, Account)
    PROVE  /\ Overlay(row, changes) \in Account
           /\ DOMAIN Overlay(row, changes) = DOMAIN row
           /\ \A c \in DOMAIN row : Overlay(row, changes)[c] =
                 IF c \in DOMAIN changes THEN changes[c] ELSE row[c]
<1> DEFINE over(c) == IF c \in DOMAIN changes THEN changes[c] ELSE row[c]
<1>1. DOMAIN row = {"role", "active", "password", "mfa_enabled", "mfa_totp_secret"}
  BY DEF Account
<1>2. Overlay(row, changes) =
        [role |-> over("role"), active |-> over("active"),
         password |-> over("password"), mfa_enabled |-> over("mfa_enabled"),
         mfa_totp_secret |-> over("mfa_totp_secret")]
  BY <1>1 DEF Overlay
<1>3. /\ over("role") \in Role
      /\ over("active") \in BOOLEAN
      /\ over("password") \in Passwords \cup {InitialPassword}
      /\ over("mfa_enabled") \in BOOLEAN
      /\ over("mfa_totp_secret") \in Secrets \cup {Nothing}
  BY DEF Account, From
<1> QED  BY <1>1, <1>2, <1>3 DEF Account, Overlay

LEMMA ProfileOverlaid ==
    ASSUME NEW row \in Profile, NEW changes, From(changes, Profile)
    PROVE  /\ Overlay(row, changes) \in Profile
           /\ DOMAIN Overlay(row, changes) = DOMAIN row
           /\ \A c \in DOMAIN row : Overlay(row, changes)[c] =
                 IF c \in DOMAIN changes THEN changes[c] ELSE row[c]
<1> DEFINE over(c) == IF c \in DOMAIN changes THEN changes[c] ELSE row[c]
<1>1. DOMAIN row = {"workspace", "email", "active"}
  BY DEF Profile
<1>2. Overlay(row, changes) =
        [workspace |-> over("workspace"), email |-> over("email"),
         active |-> over("active")]
  BY <1>1 DEF Overlay
<1>3. /\ over("workspace") \in Workspaces
      /\ over("email") \in Emails \cup {Nothing}
      /\ over("active") \in BOOLEAN
  BY DEF Profile, From
<1> QED  BY <1>1, <1>2, <1>3 DEF Profile, Overlay

\* The columns in which two rows differ are columns of the new one.
LEMMA ChangesFrom ==
    ASSUME NEW old, NEW records, NEW new \in records
    PROVE  /\ From(Changes(old, new), records)
           /\ From(Rehashed(old, new), records)
           /\ DOMAIN Changes(old, new) = {c \in DOMAIN old : old[c] # new[c]}
           /\ DOMAIN Rehashed(old, new) =
                 {c \in DOMAIN old : old[c] # new[c]} \cup {"password"}
  BY DEF From, Changes, Rehashed

-----------------------------------------------------------------------------
(* Accounts: the invariant.                                                *)

Generated(row) == row.mfa_totp_secret \in drawn \cup {Nothing}

Confirmed(row) == row.mfa_enabled => row.mfa_totp_secret \in confirmed

\* A row without a second factor.
Fresh(row) == row \in Account /\ ~row.mfa_enabled /\ row.mfa_totp_secret = Nothing

\* What a request is about to commit: its row, or the columns that it may change
\* of a row that is still there.
ClientOK(c) ==
    /\ c.op = "create_driver" => c.row \in Profile
    /\ c.op = "update_driver" =>
          /\ c.profile \in Profiles /\ profile[c.profile] # Nothing
          /\ DOMAIN c.changes \subseteq {"email", "active"}
          /\ From(c.changes, Profile)
    /\ c.op = "signup" => c.id \in Ids /\ Fresh(c.row)
    /\ c.op = "invite" => /\ c.id \in Ids /\ c.id[1] \in workspaces
                          /\ c.isNew \/ Has(c.id)
                          /\ Fresh(c.row)
    /\ c.op \in {"password", "mfa"} =>
          c.id \in Ids /\ Has(c.id) /\ From(c.changes, Account)
    /\ c.op = "password" => DOMAIN c.changes \subseteq {"password", "active"}
    /\ c.op = "mfa" =>
          DOMAIN c.changes \subseteq {"mfa_enabled", "mfa_totp_secret"}

RowsSound ==
    /\ AccountsTypeOK
    /\ client = [r \in Clients |-> client[r]]
    /\ \A id \in Ids : Has(id) => id[1] \in workspaces /\ Generated(account[id])
    /\ \A id \in invited : Has(id)
    /\ \A r \in Clients : ClientOK(client[r])

\* The row that a request about the second factor leaves, when it commits.
Factor(c) == Overlay(account[c.id], c.changes)

\* Such a row was generated, and confirmed unless another such request overlaps.
FactorsSound ==
    /\ MfaUsable
    /\ \A r \in Clients : client[r].op = "mfa" =>
          /\ Generated(Factor(client[r]))
          /\ client[r].id \notin interleaved => Confirmed(Factor(client[r]))
    /\ \A r, q \in Clients :
          /\ r # q /\ client[r].op = "mfa" /\ client[q].op = "mfa"
          /\ client[r].id = client[q].id
          => client[r].id \in interleaved

\* The profile that a request is about to change, and its workspace.
Own(c) == IF c.op = "update_driver" THEN {c.profile} ELSE {}

Target(c) == IF c.op = "create_driver" THEN c.row.workspace
             ELSE profile[c.profile].workspace

\* Nobody else in the workspace has the e-mail that a request is about to give.
ClaimsOK(c) ==
    \A email \in Claims(c) \ doubled : ByEmail(Target(c), email) \subseteq Own(c)

ProfilesSound ==
    /\ \A workspace \in Workspaces, email \in Emails \ doubled :
          \A d, e \in ByEmail(workspace, email) : d = e
    /\ \A r \in Clients : ClaimsOK(client[r])

AccountsInv == RowsSound /\ FactorsSound /\ ProfilesSound

LEMMA AccountsInvInitially == AccountsInit => AccountsInv
<1> SUFFICES ASSUME AccountsInit PROVE AccountsInv
  OBVIOUS
<1>1. \A r \in Clients : client[r].op = "idle"
  BY DEF AccountsInit, Idle
<1>2. RowsSound
  BY <1>1 DEF AccountsInit, RowsSound, AccountsTypeOK, ClientOK, Has, Idle
<1>3. FactorsSound
  BY <1>1 DEF AccountsInit, FactorsSound, MfaUsable, Has
<1>4. ProfilesSound
  BY <1>1 DEF AccountsInit, ProfilesSound, ByEmail, ClaimsOK, Claims
<1> QED  BY <1>2, <1>3, <1>4 DEF AccountsInv

\* A step that commits nothing about accounts, and lets requests begin that are
\* not about the second factor.
LEMMA QuietStep ==
    ASSUME AccountsInv,
           UNCHANGED <<workspaces, account, profile, invited, confirmed, drawn,
                       doubled, interleaved>>,
           client' = [q \in Clients |-> client'[q]],
           \A q \in Clients : \/ client'[q] = client[q]
                              \/ /\ client'[q].op # "mfa"
                                 /\ ClientOK(client'[q])
                                 /\ ClaimsOK(client'[q])
    PROVE  AccountsInv'
<1>1. RowsSound'
  BY DEF AccountsInv, RowsSound, AccountsTypeOK, ClientOK, Has, Generated
<1>2. FactorsSound'
  BY DEF AccountsInv, FactorsSound, MfaUsable, Has, Generated, Confirmed, Factor,
         Overlay
<1>3. ProfilesSound'
  BY DEF AccountsInv, ProfilesSound, ByEmail, ClaimsOK, Target, Own
<1> QED  BY <1>1, <1>2, <1>3 DEF AccountsInv

\* A request that begins, or ends, is alone in what it changes.
LEMMA QuietRequest ==
    ASSUME AccountsInv, NEW r \in Clients, NEW record, record.op # "mfa",
           client' = [client EXCEPT ![r] = record],
           UNCHANGED <<workspaces, account, profile, invited, confirmed, drawn,
                       doubled, interleaved>>,
           ClientOK(record), ClaimsOK(record)
    PROVE  AccountsInv'
<1>1. client' = [q \in Clients |-> IF q = r THEN record ELSE client[q]]
  BY DEF AccountsInv, RowsSound
<1>2. /\ client' = [q \in Clients |-> client'[q]]
      /\ \A q \in Clients : client'[q] = client[q] \/ client'[q] = record
  BY <1>1
<1> QED  BY <1>2, QuietStep

LEMMA IdleOK == Idle.op = "idle" /\ ClientOK(Idle) /\ ClaimsOK(Idle)
  BY DEF Idle, ClientOK, ClaimsOK, Claims

LEMMA AbandonKeeps ==
    ASSUME AccountsInv, NEW r \in Clients, Abandon(r)
    PROVE  AccountsInv'
  BY QuietRequest, IdleOK DEF Abandon, End

LEMMA SignupKeeps ==
    ASSUME AccountsInv, NEW r \in Clients, NEW name \in Names,
           NEW email \in Emails, NEW password \in Passwords,
           Signup(r, name, email, password)
    PROVE  AccountsInv'
<1> DEFINE row == NewAccount("owner", TRUE, password)
<1>1. PICK slug \in FreeSlugs(name) :
        Begin(r, [op |-> "signup", id |-> <<slug, email>>, row |-> row])
  BY DEF Signup
<1>2. slug \in Workspaces
  <2>1. PICK n \in 1 .. MaxSuffix : slug = <<name, n>>
    BY DEF FreeSlugs
  <2> QED  BY <2>1 DEF Workspaces
<1>3. Fresh(row)
  BY DEF Fresh, NewAccount, Account, Role
<1> HIDE DEF row
<1> DEFINE record == [op |-> "signup", id |-> <<slug, email>>, row |-> row]
<1>4. ClientOK(record) /\ ClaimsOK(record) /\ record.op # "mfa"
  BY <1>2, <1>3 DEF ClientOK, ClaimsOK, Claims, Ids
<1>5. client' = [client EXCEPT ![r] = record]
  BY <1>1 DEF Begin
<1> HIDE DEF record
<1> QED  BY <1>4, <1>5, QuietRequest DEF Signup

LEMMA InviteKeeps ==
    ASSUME AccountsInv, NEW r \in Clients, NEW requester \in Ids,
           NEW email \in Emails, NEW role \in Roles,
           Invite(r, requester, email, role)
    PROVE  AccountsInv'
<1> DEFINE id == <<requester[1], email>>
           row == NewAccount(role, FALSE, InitialPassword)
           record == [op |-> "invite", id |-> id, isNew |-> ~Has(id), row |-> row]
<1>1. Fresh(row)
  BY RolesAssumption DEF Fresh, NewAccount, Account
<1>2. id \in Ids /\ requester[1] \in workspaces
  BY DEF Invite, SignedIn, Ids, AccountsInv, RowsSound
<1>3. client' = [client EXCEPT ![r] = record]
  BY DEF Invite, Begin
<1>4. record.isNew \/ Has(id)
  OBVIOUS
<1> HIDE DEF row
<1>5. ClientOK(record) /\ ClaimsOK(record) /\ record.op # "mfa"
  BY <1>1, <1>2, <1>4 DEF ClientOK, ClaimsOK, Claims
<1> HIDE DEF record
<1> QED  BY <1>3, <1>5, QuietRequest DEF Invite

LEMMA StaffKeeps ==
    ASSUME AccountsInv, NEW r \in Clients, StaffStep(r)
    PROVE  AccountsInv'
<1> DEFINE record == [op |-> "unsaved"]
<1>1. ClientOK(record) /\ ClaimsOK(record) /\ record.op # "mfa"
  BY DEF ClientOK, ClaimsOK, Claims
<1>2. PICK requester, id \in Ids : Unsaved(r, requester, id)
  BY DEF StaffStep, CreateStaff, SetRole, SetActive, RemoveStaff
<1> QED  BY <1>1, <1>2, QuietRequest DEF Unsaved, Begin

LEMMA PasswordKeeps ==
    ASSUME AccountsInv, NEW r \in Clients, PasswordStep(r)
    PROVE  AccountsInv'
<1>1. PICK id \in Ids, new \in Account :
        /\ Has(id) /\ Password(r, id, new)
        /\ {c \in DOMAIN account[id] : account[id][c] # new[c]}
              \subseteq {"password", "active"}
  <2>1. PICK id \in Ids, password \in Passwords :
          /\ Has(id)
          /\ \/ Password(r, id, [account[id] EXCEPT !.password = password,
                                                    !.active = TRUE])
             \/ Password(r, id, [account[id] EXCEPT !.password = password])
    BY DEF PasswordStep, Activate, ResetPassword, ResetLink, ChangePassword,
           SignedIn, AccountsInv, RowsSound
  <2>2. account[id] \in Account
    BY <2>1 DEF AccountsInv, RowsSound, AccountsTypeOK, Has
  <2> DEFINE changed == [account[id] EXCEPT !.password = password]
             opened == [account[id] EXCEPT !.password = password, !.active = TRUE]
  <2>3. /\ changed \in Account
        /\ {c \in DOMAIN account[id] : account[id][c] # changed[c]}
              \subseteq {"password", "active"}
    BY <2>2 DEF Account
  <2>4. /\ opened \in Account
        /\ {c \in DOMAIN account[id] : account[id][c] # opened[c]}
              \subseteq {"password", "active"}
    BY <2>2 DEF Account
  <2> HIDE DEF changed, opened
  <2>5. Password(r, id, changed) \/ Password(r, id, opened)
    BY <2>1 DEF changed, opened
  <2> QED  BY <2>1, <2>3, <2>4, <2>5
<1> DEFINE changes == Rehashed(account[id], new)
           record == [op |-> "password", id |-> id, changes |-> changes]
<1>2. DOMAIN changes \subseteq {"password", "active"}
  <2>1. DOMAIN changes =
          {c \in DOMAIN account[id] : account[id][c] # new[c]} \cup {"password"}
    BY DEF Rehashed
  <2> QED  BY <1>1, <2>1
<1>3. From(changes, Account)
  BY ChangesFrom
<1> HIDE DEF changes
<1>4. ClientOK(record) /\ ClaimsOK(record) /\ record.op # "mfa"
  BY <1>1, <1>2, <1>3 DEF ClientOK, ClaimsOK, Claims
<1>5. /\ client' = [client EXCEPT ![r] = record]
      /\ UNCHANGED <<workspaces, account, profile, invited, confirmed, drawn,
                     doubled, interleaved>>
  BY <1>1 DEF Password, BeginChange, Begin, changes
<1> HIDE DEF record
<1> QED  BY <1>4, <1>5, QuietRequest

LEMMA CreateDriverKeeps ==
    ASSUME AccountsInv, NEW r \in Clients, NEW workspace \in workspaces,
           NEW email \in Emails \cup {Nothing}, NEW active \in BOOLEAN,
           CreateDriver(r, workspace, email, active)
    PROVE  AccountsInv'
<1> DEFINE row == [workspace |-> workspace, email |-> email, active |-> active]
           record == [op |-> "create_driver", row |-> row]
<1>1. row \in Profile
  BY DEF Profile, AccountsInv, RowsSound, AccountsTypeOK
<1>2. ByEmail(workspace, email) = {}
  BY DEF CreateDriver, Conflicts
<1>3. row.workspace = workspace /\ row.email = email
  OBVIOUS
<1> HIDE DEF row
<1>4. ClientOK(record) /\ record.op # "mfa"
  BY <1>1 DEF ClientOK
<1>5. ClaimsOK(record)
  BY <1>2, <1>3 DEF ClaimsOK, Claims, Target
<1>6. client' = [client EXCEPT ![r] = record]
  BY DEF CreateDriver, Begin, row
<1> HIDE DEF record
<1> QED  BY <1>4, <1>5, <1>6, QuietRequest DEF CreateDriver

\* A request that is about to change a profile's e-mail or activity.
LEMMA ProfileUpdateKeeps ==
    ASSUME AccountsInv, NEW r \in Clients, NEW d \in Profiles,
           profile[d] # Nothing, NEW new \in Profile,
           new.workspace = profile[d].workspace,
           new.email # profile[d].email =>
               Conflicts(profile[d].workspace, new.email, {d}) = {},
           Begin(r, [op |-> "update_driver", profile |-> d,
                     changes |-> Changes(profile[d], new)]),
           UNCHANGED <<workspaces, account, profile, invited, confirmed, drawn,
                       doubled, interleaved>>
    PROVE  AccountsInv'
<1> DEFINE changes == Changes(profile[d], new)
           record == [op |-> "update_driver", profile |-> d, changes |-> changes]
<1>1. profile[d] \in Profile
  BY DEF AccountsInv, RowsSound, AccountsTypeOK
<1>2. /\ DOMAIN changes = {c \in DOMAIN profile[d] : profile[d][c] # new[c]}
      /\ \A c \in DOMAIN changes : changes[c] = new[c]
  BY DEF Changes
<1>3. From(changes, Profile)
  BY <1>2 DEF From
<1>4. DOMAIN changes \subseteq {"email", "active"}
  BY <1>1, <1>2 DEF Profile
<1> HIDE DEF changes
<1>5. ClientOK(record) /\ record.op # "mfa"
  BY <1>3, <1>4 DEF ClientOK
<1>6. ClaimsOK(record)
  <2> SUFFICES ASSUME NEW email \in Claims(record), NEW e \in ByEmail(profile[d].workspace, email)
               PROVE  e = d
    BY DEF ClaimsOK, Target, Own
  <2>1. "email" \in DOMAIN changes /\ email = new.email
    BY <1>2 DEF Claims
  <2>2. new.email # profile[d].email
    BY <2>1, <1>2
  <2> QED  BY <2>1, <2>2 DEF Conflicts
<1>7. client' = [client EXCEPT ![r] = record]
  BY DEF Begin, changes
<1> HIDE DEF record
<1> QED  BY <1>5, <1>6, <1>7, QuietRequest

LEMMA UpdateDriverKeeps ==
    ASSUME AccountsInv, NEW r \in Clients, NEW d \in Profiles,
           \/ \E email \in Emails \cup {Nothing}, active \in BOOLEAN :
                 UpdateDriver(r, d, email, active)
           \/ ReactivateDriver(r, d)
    PROVE  AccountsInv'
<1>1. profile[d] # Nothing /\ profile[d] \in Profile
  BY DEF UpdateDriver, ReactivateDriver, AccountsInv, RowsSound, AccountsTypeOK
<1>2. ASSUME NEW email \in Emails \cup {Nothing}, NEW active \in BOOLEAN,
             UpdateDriver(r, d, email, active)
      PROVE  AccountsInv'
  <2> DEFINE new == [profile[d] EXCEPT !.email = email, !.active = active]
  <2>1. /\ new \in Profile /\ new.workspace = profile[d].workspace
        /\ new.email = email
    BY <1>1 DEF Profile
  <2>2. Begin(r, [op |-> "update_driver", profile |-> d,
                  changes |-> Changes(profile[d], new)])
    BY <1>2 DEF UpdateDriver
  <2> HIDE DEF new
  <2> QED  BY <1>1, <1>2, <2>1, <2>2, ProfileUpdateKeeps DEF UpdateDriver
<1>3. ASSUME ReactivateDriver(r, d)
      PROVE  AccountsInv'
  <2> DEFINE new == [profile[d] EXCEPT !.active = TRUE]
  <2>1. /\ new \in Profile /\ new.workspace = profile[d].workspace
        /\ new.email = profile[d].email
    BY <1>1 DEF Profile
  <2>2. Begin(r, [op |-> "update_driver", profile |-> d,
                  changes |-> Changes(profile[d], new)])
    BY <1>3 DEF ReactivateDriver
  <2> HIDE DEF new
  <2> QED  BY <1>1, <1>3, <2>1, <2>2, ProfileUpdateKeeps DEF ReactivateDriver
<1> QED  BY <1>2, <1>3

\* A request that ends leaves the others as they are.
LEMMA Ended ==
    ASSUME AccountsInv, NEW r \in Clients, End(r)
    PROVE  /\ client' = [q \in Clients |-> client'[q]]
           /\ client'[r] = Idle
           /\ \A q \in Clients \ {r} : client'[q] = client[q]
<1>1. client' = [q \in Clients |-> IF q = r THEN Idle ELSE client[q]]
  BY DEF AccountsInv, RowsSound, End
<1> QED  BY <1>1

\* What a commit leaves true of the requests that are still in flight.
LEMMA ClientsKeep ==
    ASSUME AccountsInv, NEW r \in Clients, End(r),
           workspaces \subseteq workspaces',
           \A id \in Ids : Has(id) => Has(id)',
           \A d \in Profiles : profile[d] # Nothing => profile'[d] # Nothing
    PROVE  \A q \in Clients : ClientOK(client[q])'
<1>1. \A q \in Clients : ClientOK(client[q])
  BY DEF AccountsInv, RowsSound
<1>2. \A q \in Clients \ {r} : client'[q] = client[q]
  BY Ended
<1>3. client'[r].op = "idle"
  BY Ended DEF Idle
<1>4. ASSUME NEW q \in Clients \ {r} PROVE ClientOK(client[q])'
  BY <1>1, <1>2 DEF ClientOK
<1>5. ClientOK(client[r])'
  BY <1>3 DEF ClientOK
<1> QED  BY <1>4, <1>5

LEMMA FactorsKeep ==
    ASSUME AccountsInv, NEW r \in Clients, End(r),
           UNCHANGED <<account, confirmed, drawn, interleaved>>
    PROVE  FactorsSound'
<1>1. client'[r].op = "idle"
  BY Ended DEF Idle
<1>2. \A q \in Clients \ {r} : client'[q] = client[q]
  BY Ended
<1> QED  BY <1>1, <1>2
         DEF AccountsInv, FactorsSound, MfaUsable, Has, Factor, Generated,
             Confirmed, Overlay

LEMMA ProfilesKeep ==
    ASSUME AccountsInv, NEW r \in Clients, End(r), UNCHANGED <<profile, doubled>>
    PROVE  ProfilesSound'
<1>1. client'[r].op = "idle"
  BY Ended DEF Idle
<1>2. \A q \in Clients \ {r} : client'[q] = client[q]
  BY Ended
<1>3. ClaimsOK(client[r])'
  BY <1>1 DEF ClaimsOK, Claims
<1>4. ASSUME NEW q \in Clients \ {r} PROVE ClaimsOK(client[q])'
  BY <1>2 DEF AccountsInv, ProfilesSound, ClaimsOK, ByEmail, Target, Own
<1>5. \A workspace \in Workspaces, email \in Emails \ doubled' :
         \A d, e \in ByEmail(workspace, email)' : d = e
  BY DEF AccountsInv, ProfilesSound, ByEmail
<1> QED  BY <1>3, <1>4, <1>5 DEF ProfilesSound

\* The row that a driver's request commits, and where; the e-mail is the one that
\* the row had, or one that the request claims.
LEMMA DriverCommitted ==
    ASSUME AccountsInv, NEW r \in Clients, CommitDriver(r)
    PROVE  \E d \in Profiles, new \in Profile :
              /\ profile' = [profile EXCEPT ![d] = new]
              /\ profile[d] # Nothing => new.workspace = profile[d].workspace
              /\ \/ new.email = Nothing
                 \/ profile[d] # Nothing /\ new.email = profile[d].email
                 \/ /\ new.email \in Claims(client[r])
                    /\ \/ new.email \in doubled
                       \/ ByEmail(new.workspace, new.email) \subseteq {d}
<1>1. ClientOK(client[r]) /\ ClaimsOK(client[r])
  BY DEF AccountsInv, RowsSound, ProfilesSound
<1>2. CASE client[r].op = "create_driver"
  <2> DEFINE new == client[r].row
  <2>1. PICK d \in Profiles : /\ profile[d] = Nothing
                              /\ profile' = [profile EXCEPT ![d] = client[r].row]
    BY <1>2 DEF CommitDriver
  <2>2. new \in Profile
    BY <1>1, <1>2 DEF ClientOK
  <2>3. Claims(client[r]) = {new.email} \ {Nothing}
    BY <1>2 DEF Claims
  <2>4. new.email \in Claims(client[r]) \ doubled =>
           ByEmail(new.workspace, new.email) \subseteq {d}
    BY <1>1, <1>2, <2>3 DEF ClaimsOK, Target, Own
  <2> QED  BY <2>1, <2>2, <2>3, <2>4
<1>3. CASE client[r].op = "update_driver"
  <2> DEFINE d == client[r].profile
             changes == client[r].changes
             new == Overlay(profile[d], changes)
  <2>1. /\ profile[d] # Nothing /\ d \in Profiles
        /\ DOMAIN changes \subseteq {"email", "active"}
        /\ From(changes, Profile)
    BY <1>1, <1>3 DEF ClientOK
  <2>2. profile[d] \in Profile
    BY <2>1 DEF AccountsInv, RowsSound, AccountsTypeOK
  <2>3. profile' = [profile EXCEPT ![d] = new]
    BY <1>3 DEF CommitDriver
  <2>4. /\ new \in Profile
        /\ new.workspace = profile[d].workspace
        /\ new.email = IF "email" \in DOMAIN changes THEN changes.email
                       ELSE profile[d].email
    <3>1. {"workspace", "email"} \subseteq DOMAIN profile[d]
      BY <2>2 DEF Profile
    <3> QED  BY <2>1, <2>2, <3>1, ProfileOverlaid
  <2> HIDE DEF new
  <2>5. "email" \in DOMAIN changes => Claims(client[r]) = {new.email} \ {Nothing}
    BY <1>3, <2>4 DEF Claims
  <2>6. new.email \in Claims(client[r]) \ doubled =>
           ByEmail(new.workspace, new.email) \subseteq {d}
    BY <1>1, <1>3, <2>4 DEF ClaimsOK, Target, Own
  <2> QED  BY <2>1, <2>3, <2>4, <2>5, <2>6
<1> QED  BY <1>2, <1>3 DEF CommitDriver

LEMMA ClaimsAreEmails ==
    ASSUME NEW c, ClientOK(c)
    PROVE  Claims(c) \subseteq Emails
<1>1. CASE c.op = "create_driver"
  BY <1>1 DEF Claims, ClientOK, Profile
<1>2. CASE c.op = "update_driver" /\ "email" \in DOMAIN c.changes
  <2>1. PICK new \in Profile : \A col \in DOMAIN c.changes : c.changes[col] = new[col]
    BY <1>2 DEF ClientOK, From
  <2> QED  BY <1>2, <2>1 DEF Claims, Profile
<1> QED  BY <1>1, <1>2 DEF Claims

LEMMA CommitDriverKeeps ==
    ASSUME AccountsInv, NEW r \in Clients, CommitDriver(r)
    PROVE  AccountsInv'
<1> USE DEF AccountsInv
<1>1. PICK d \in Profiles, new \in Profile :
        /\ profile' = [profile EXCEPT ![d] = new]
        /\ profile[d] # Nothing => new.workspace = profile[d].workspace
        /\ \/ new.email = Nothing
           \/ profile[d] # Nothing /\ new.email = profile[d].email
           \/ /\ new.email \in Claims(client[r])
              /\ \/ new.email \in doubled
                 \/ ByEmail(new.workspace, new.email) \subseteq {d}
  BY DriverCommitted
<1>2. End(r) /\ UNCHANGED <<workspaces, account, invited, confirmed, drawn,
                            interleaved>>
  BY DEF CommitDriver
<1>3. /\ profile \in [Profiles -> Profile \cup {Nothing}]
      /\ Nothing \notin Profile
  BY NothingAssumption DEF RowsSound, AccountsTypeOK
<1>4. /\ profile'[d] = new
      /\ \A e \in Profiles \ {d} : profile'[e] = profile[e]
      /\ profile' \in [Profiles -> Profile \cup {Nothing}]
  BY <1>1, <1>3
<1>5. Claims(client[r]) \subseteq Emails
  BY ClaimsAreEmails DEF RowsSound
<1>6. RowsSound'
  <2>1. \A q \in Clients : ClientOK(client[q])'
    <3>1. \A e \in Profiles : profile[e] # Nothing => profile'[e] # Nothing
      BY <1>3, <1>4
    <3>2. \A id \in Ids : Has(id) => Has(id)'
      BY <1>2 DEF Has
    <3> QED  BY <1>2, <3>1, <3>2, ClientsKeep
  <2>2. doubled' \subseteq Emails
    BY <1>5 DEF CommitDriver, NoteClaims, RowsSound, AccountsTypeOK
  <2>3. client' = [q \in Clients |-> client'[q]]
    BY <1>2, Ended
  <2> QED  BY <1>2, <1>4, <2>1, <2>2, <2>3
           DEF RowsSound, AccountsTypeOK, Has, Generated
<1>7. FactorsSound'
  BY <1>2, FactorsKeep
<1>8. /\ client'[r].op = "idle"
      /\ \A q \in Clients \ {r} : client'[q] = client[q]
  BY <1>2, Ended DEF Idle
<1>9. /\ doubled \subseteq doubled'
      /\ \A q \in Clients \ {r} :
            Claims(client[q]) \cap Claims(client[r]) \subseteq doubled'
  BY DEF CommitDriver, NoteClaims, Others
<1>10. ASSUME NEW workspace, NEW email, NEW e \in ByEmail(workspace, email)',
              e \notin ByEmail(workspace, email)
       PROVE  /\ e = d /\ workspace = new.workspace /\ email = new.email
              /\ email \in Claims(client[r])
              /\ email \in doubled \/ ByEmail(workspace, email) \subseteq {d}
  BY <1>1, <1>4, <1>10 DEF ByEmail
<1>11. ASSUME NEW workspace \in Workspaces, NEW email \in Emails \ doubled',
              NEW e \in ByEmail(workspace, email)',
              NEW f \in ByEmail(workspace, email)'
       PROVE  e = f
  <2>1. CASE e \in ByEmail(workspace, email) /\ f \in ByEmail(workspace, email)
    BY <1>9, <2>1 DEF ProfilesSound
  <2> QED  BY <1>9, <1>10, <2>1
<1>12. ASSUME NEW q \in Clients
       PROVE  ClaimsOK(client[q])'
  <2>1. CASE q = r
    BY <1>8, <2>1 DEF ClaimsOK, Claims
  <2>2. CASE q # r
    <3> DEFINE c == client[q]
    <3>1. c' = c /\ ClientOK(c) /\ ClaimsOK(c)
      BY <1>8, <2>2 DEF RowsSound, ProfilesSound
    <3>2. ASSUME NEW email \in Claims(c) PROVE Target(c)' = Target(c)
      BY <1>1, <1>4, <3>1, <3>2 DEF Target, ClientOK, Claims
    <3>3. ASSUME NEW email \in Claims(c) \ doubled',
                 NEW e \in ByEmail(Target(c), email)'
          PROVE  e \in Own(c)
      <4>1. email \notin Claims(client[r]) /\ email \notin doubled
        BY <1>9, <2>2, <3>3
      <4>2. e \in ByEmail(Target(c), email)
        BY <1>10, <4>1, <3>2
      <4> QED  BY <3>1, <4>1, <4>2 DEF ClaimsOK
    <3> HIDE DEF c
    <3> QED  BY <3>1, <3>2, <3>3 DEF ClaimsOK, c, Own
  <2> QED  BY <2>1, <2>2
<1> QED  BY <1>6, <1>7, <1>11, <1>12 DEF ProfilesSound

\* A new account, of which no request can have read a row.
LEMMA AccountAdded ==
    ASSUME AccountsInv, NEW r \in Clients, End(r),
           NEW id \in Ids, ~Has(id), NEW row, Fresh(row),
           account' = [account EXCEPT ![id] = row],
           workspaces \subseteq workspaces', workspaces' \subseteq Workspaces,
           id[1] \in workspaces',
           invited' \subseteq invited \cup {id},
           UNCHANGED <<profile, confirmed, drawn, doubled, interleaved>>
    PROVE  AccountsInv'
<1> USE DEF AccountsInv
<1>1. /\ account \in [Ids -> Account \cup {Nothing}]
      /\ Nothing \notin Account
  BY NothingAssumption DEF RowsSound, AccountsTypeOK
<1>2. /\ account'[id] = row /\ row \in Account
      /\ \A other \in Ids \ {id} : account'[other] = account[other]
      /\ account' \in [Ids -> Account \cup {Nothing}]
  BY <1>1 DEF Fresh
<1>3. \A other \in Ids : Has(other) => Has(other)'
  BY <1>1, <1>2 DEF Has
<1>4. /\ client'[r].op = "idle"
      /\ \A q \in Clients \ {r} : client'[q] = client[q]
      /\ client' = [q \in Clients |-> client'[q]]
  BY Ended DEF Idle
<1>5. RowsSound'
  <2>1. \A q \in Clients : ClientOK(client[q])'
    BY <1>3, ClientsKeep
  <2>2. \A other \in Ids : Has(other)' =>
           other[1] \in workspaces' /\ Generated(account[other])'
    BY <1>1, <1>2 DEF RowsSound, Has, Generated, Fresh
  <2>3. \A other \in invited' : Has(other)'
    BY <1>1, <1>2, <1>3 DEF RowsSound, Has, AccountsTypeOK
  <2>4. AccountsTypeOK'
    BY <1>2 DEF RowsSound, AccountsTypeOK
  <2> QED  BY <1>4, <2>1, <2>2, <2>3, <2>4 DEF RowsSound
<1>6. FactorsSound'
  <2>1. MfaUsable'
    BY <1>2 DEF FactorsSound, MfaUsable, Has, Fresh
  <2>2. ASSUME NEW q \in Clients, client'[q].op = "mfa"
        PROVE  client'[q] = client[q] /\ Factor(client[q])' = Factor(client[q])
    <3>1. q # r /\ client'[q] = client[q]
      BY <1>4, <2>2
    <3>2. client[q].id \in Ids /\ Has(client[q].id)
      BY <2>2, <3>1 DEF RowsSound, ClientOK
    <3>3. account'[client[q].id] = account[client[q].id]
      BY <1>2, <3>2
    <3> QED  BY <3>1, <3>3 DEF Factor, Overlay
  <2>3. \A q \in Clients : client'[q].op = "mfa" =>
          /\ Generated(Factor(client[q]))'
          /\ client'[q].id \notin interleaved' => Confirmed(Factor(client[q]))'
    BY <2>2 DEF FactorsSound, Generated, Confirmed
  <2>4. \A p, q \in Clients :
          /\ p # q /\ client'[p].op = "mfa" /\ client'[q].op = "mfa"
          /\ client'[p].id = client'[q].id
          => client'[p].id \in interleaved'
    BY <2>2 DEF FactorsSound
  <2> QED  BY <2>1, <2>3, <2>4 DEF FactorsSound
<1>7. ProfilesSound'
  BY ProfilesKeep
<1> QED  BY <1>5, <1>6, <1>7

\* A commit that is refused changes no row.
LEMMA Refused ==
    ASSUME AccountsInv, NEW r \in Clients, End(r),
           invited \subseteq invited',
           invited' \subseteq {id \in Ids : Has(id)},
           UNCHANGED <<workspaces, account, profile, confirmed, drawn, doubled,
                       interleaved>>
    PROVE  AccountsInv'
<1> USE DEF AccountsInv
<1>1. RowsSound'
  <2>1. \A id \in Ids : Has(id) => Has(id)'
    BY DEF Has
  <2>2. \A q \in Clients : ClientOK(client[q])'
    BY <2>1, ClientsKeep
  <2>3. client' = [q \in Clients |-> client'[q]]
    BY Ended
  <2> QED  BY <2>1, <2>2, <2>3 DEF RowsSound, AccountsTypeOK, Has, Generated
<1> QED  BY <1>1, FactorsKeep, ProfilesKeep

LEMMA CommitSignupKeeps ==
    ASSUME AccountsInv, NEW r \in Clients, CommitSignup(r)
    PROVE  AccountsInv'
<1> DEFINE id == client[r].id
<1>1. id \in Ids /\ Fresh(client[r].row)
  BY DEF AccountsInv, RowsSound, ClientOK, CommitSignup
<1>2. id[1] \in Workspaces
  BY <1>1 DEF Ids
<1>3. CASE id[1] \in workspaces
  BY <1>3, Refused DEF CommitSignup, AccountsInv, RowsSound, AccountsTypeOK
<1>4. CASE id[1] \notin workspaces
  <2>1. ~Has(id)
    BY <1>1, <1>4 DEF AccountsInv, RowsSound
  <2>2. /\ workspaces' = workspaces \cup {id[1]}
        /\ account' = [account EXCEPT ![id] = client[r].row]
        /\ End(r)
        /\ UNCHANGED <<profile, invited, confirmed, drawn, doubled, interleaved>>
    BY <1>4 DEF CommitSignup
  <2>3. workspaces' \subseteq Workspaces
    BY <1>2, <2>2 DEF AccountsInv, RowsSound, AccountsTypeOK
  <2> QED  BY <1>1, <2>1, <2>2, <2>3, AccountAdded
<1> QED  BY <1>3, <1>4

LEMMA CommitInviteKeeps ==
    ASSUME AccountsInv, NEW r \in Clients, CommitInvite(r)
    PROVE  AccountsInv'
<1> DEFINE id == client[r].id
<1>1. /\ id \in Ids /\ id[1] \in workspaces
      /\ client[r].isNew \/ Has(id)
      /\ Fresh(client[r].row)
  BY DEF AccountsInv, RowsSound, ClientOK, CommitInvite
<1>2. workspaces \subseteq Workspaces /\ invited \subseteq {j \in Ids : Has(j)}
  BY DEF AccountsInv, RowsSound, AccountsTypeOK
<1>3. CASE client[r].isNew /\ ~Has(id)
  <2>1. /\ account' = [account EXCEPT ![id] = client[r].row]
        /\ invited' \subseteq invited \cup {id}
        /\ End(r)
        /\ UNCHANGED <<workspaces, profile, confirmed, drawn, doubled, interleaved>>
    BY <1>3 DEF CommitInvite
  <2> QED  BY <1>1, <1>2, <1>3, <2>1, AccountAdded
<1>4. CASE Has(id)
  <2>1. /\ invited \subseteq invited' /\ invited' \subseteq invited \cup {id}
        /\ End(r)
        /\ UNCHANGED <<workspaces, account, profile, confirmed, drawn, doubled,
                       interleaved>>
    BY <1>4 DEF CommitInvite
  <2> QED  BY <1>1, <1>2, <1>4, <2>1, Refused
<1> QED  BY <1>1, <1>3, <1>4

\* A request about the second factor, and the row that it is to leave.
LEMMA SecondFactorKeeps ==
    ASSUME AccountsInv, NEW r \in Clients, NEW id \in Ids, NEW new \in Account,
           SecondFactor(r, id, Changes(account[id], new)),
           new.role = account[id].role, new.active = account[id].active,
           new.password = account[id].password,
           confirmed \subseteq confirmed', drawn \subseteq drawn',
           confirmed' \subseteq drawn', drawn' \subseteq Secrets,
           Generated(new)', Confirmed(new)'
    PROVE  AccountsInv'
<1> USE DEF AccountsInv
<1> DEFINE changes == Changes(account[id], new)
           record == [op |-> "mfa", id |-> id, changes |-> changes]
<1>1. /\ client' = [client EXCEPT ![r] = record]
      /\ UNCHANGED <<workspaces, account, profile, invited, doubled>>
      /\ interleaved' = interleaved \cup
            {other.id : other \in {o \in Others(r) : o.op = "mfa" /\ o.id = id}}
  BY DEF SecondFactor, BeginChange, Begin
<1>2. Has(id) /\ account[id] \in Account
  BY DEF SecondFactor, SignedIn, Has, RowsSound, AccountsTypeOK
<1>3. /\ DOMAIN changes = {c \in DOMAIN account[id] : account[id][c] # new[c]}
      /\ \A c \in DOMAIN changes : changes[c] = new[c]
  BY DEF Changes
<1>4. From(changes, Account)
  BY <1>3 DEF From
<1>5. DOMAIN changes \subseteq {"mfa_enabled", "mfa_totp_secret"}
  BY <1>2, <1>3 DEF Account
<1> HIDE DEF changes
<1>6. /\ Factor(record).mfa_enabled = new.mfa_enabled
      /\ Factor(record).mfa_totp_secret = new.mfa_totp_secret
  <2>1. {"mfa_enabled", "mfa_totp_secret"} \subseteq DOMAIN account[id]
    BY <1>2 DEF Account
  <2>2. Factor(record) = Overlay(account[id], changes)
    BY DEF Factor
  <2> QED  BY <1>2, <1>3, <1>4, <2>1, <2>2, AccountOverlaid
<1>7. /\ ClientOK(record) /\ ClaimsOK(record)
      /\ record.op = "mfa" /\ record.id = id
  BY <1>2, <1>4, <1>5 DEF ClientOK, ClaimsOK, Claims
<1> HIDE DEF record
<1>8. /\ client' = [q \in Clients |-> client'[q]]
      /\ client'[r] = record
      /\ \A q \in Clients \ {r} : client'[q] = client[q]
  <2>1. client' = [q \in Clients |-> IF q = r THEN record ELSE client[q]]
    BY <1>1 DEF RowsSound
  <2> QED  BY <2>1
<1>9. interleaved' \subseteq Ids
  BY <1>1 DEF RowsSound, AccountsTypeOK
<1>10. RowsSound'
  <2>1. \A q \in Clients : ClientOK(client[q])'
    BY <1>1, <1>7, <1>8 DEF RowsSound, ClientOK, Has
  <2> QED  BY <1>1, <1>8, <1>9, <2>1 DEF RowsSound, AccountsTypeOK, Has, Generated
<1>11. FactorsSound'
  <2>1. MfaUsable'
    BY <1>1 DEF FactorsSound, MfaUsable, Has
  <2>2. \A c : Factor(c)' = Factor(c)
    BY <1>1 DEF Factor
  <2>3. \A q \in Clients : client'[q].op = "mfa" =>
          /\ Generated(Factor(client[q]))'
          /\ client'[q].id \notin interleaved' => Confirmed(Factor(client[q]))'
    BY <1>1, <1>6, <1>8, <2>2 DEF FactorsSound, Generated, Confirmed
  <2>4. ASSUME NEW q \in Clients \ {r}, client[q].op = "mfa", client[q].id = id
        PROVE  id \in interleaved'
    BY <1>1, <2>4 DEF Others
  <2>5. \A p, q \in Clients :
          /\ p # q /\ client'[p].op = "mfa" /\ client'[q].op = "mfa"
          /\ client'[p].id = client'[q].id
          => client'[p].id \in interleaved'
    BY <1>1, <1>7, <1>8, <2>4 DEF FactorsSound
  <2> QED  BY <2>1, <2>3, <2>5 DEF FactorsSound
<1>12. ProfilesSound'
  BY <1>1, <1>7, <1>8 DEF ProfilesSound, ClaimsOK, ByEmail, Target, Own
<1> QED  BY <1>10, <1>11, <1>12

LEMMA MfaKeeps ==
    ASSUME AccountsInv, NEW r \in Clients, MfaStep(r)
    PROVE  AccountsInv'
<1>1. PICK id \in Ids : \/ \E secret \in Secrets : SetupMfa(r, id, secret)
                        \/ EnableMfa(r, id)
                        \/ DisableMfa(r, id)
  BY DEF MfaStep
<1>2. account[id] \in Account /\ Generated(account[id])
  BY <1>1 DEF SetupMfa, EnableMfa, DisableMfa, SecondFactor, SignedIn, Has,
              AccountsInv, RowsSound, AccountsTypeOK
<1>3. confirmed \subseteq drawn /\ drawn \subseteq Secrets
  BY DEF AccountsInv, RowsSound, AccountsTypeOK
<1>4. ASSUME NEW secret \in Secrets, SetupMfa(r, id, secret)
      PROVE  AccountsInv'
  <2>0. PICK new : new = [account[id] EXCEPT !.mfa_totp_secret = secret,
                                            !.mfa_enabled = FALSE]
    OBVIOUS
  <2>1. /\ new \in Account /\ new.role = account[id].role
        /\ new.active = account[id].active
        /\ new.password = account[id].password
        /\ new.mfa_totp_secret = secret /\ ~new.mfa_enabled
    BY <1>2, <2>0 DEF Account
  <2>2. SecondFactor(r, id, Changes(account[id], new))
    BY <1>4, <2>0 DEF SetupMfa
  <2>3. drawn' = drawn \cup {secret} /\ confirmed' = confirmed
    BY <1>4 DEF SetupMfa
  <2>4. Generated(new)' /\ Confirmed(new)'
    BY <2>1, <2>3 DEF Generated, Confirmed
  <2> QED  BY <1>3, <2>1, <2>2, <2>3, <2>4, SecondFactorKeeps
<1>5. ASSUME EnableMfa(r, id)
      PROVE  AccountsInv'
  <2>0. PICK new : new = [account[id] EXCEPT !.mfa_enabled = TRUE]
    OBVIOUS
  <2>1. /\ new \in Account /\ new.role = account[id].role
        /\ new.active = account[id].active
        /\ new.password = account[id].password
        /\ new.mfa_totp_secret = account[id].mfa_totp_secret
    BY <1>2, <2>0 DEF Account
  <2>2. SecondFactor(r, id, Changes(account[id], new))
    BY <1>5, <2>0 DEF EnableMfa
  <2>3. /\ drawn' = drawn
        /\ confirmed' = confirmed \cup {account[id].mfa_totp_secret}
        /\ account[id].mfa_totp_secret \in drawn
    BY <1>2, <1>5 DEF EnableMfa, Generated
  <2>4. Generated(new)' /\ Confirmed(new)'
    BY <2>1, <2>3 DEF Generated, Confirmed
  <2> QED  BY <1>3, <2>1, <2>2, <2>3, <2>4, SecondFactorKeeps
<1>6. ASSUME DisableMfa(r, id)
      PROVE  AccountsInv'
  <2>0. PICK new : new = [account[id] EXCEPT !.mfa_enabled = FALSE,
                                            !.mfa_totp_secret = Nothing]
    OBVIOUS
  <2>1. /\ new \in Account /\ new.role = account[id].role
        /\ new.active = account[id].active
        /\ new.password = account[id].password
        /\ new.mfa_totp_secret = Nothing /\ ~new.mfa_enabled
    BY <1>2, <2>0 DEF Account
  <2>2. SecondFactor(r, id, Changes(account[id], new))
    BY <1>6, <2>0 DEF DisableMfa
  <2>3. drawn' = drawn /\ confirmed' = confirmed
    BY <1>6 DEF DisableMfa
  <2>4. Generated(new)' /\ Confirmed(new)'
    BY <2>1 DEF Generated, Confirmed
  <2> QED  BY <1>3, <2>1, <2>2, <2>3, <2>4, SecondFactorKeeps
<1> QED  BY <1>1, <1>4, <1>5, <1>6

\* A commit writes its columns into the row as it is then.
LEMMA CommitChangeKeeps ==
    ASSUME AccountsInv, NEW r \in Clients, CommitChange(r)
    PROVE  AccountsInv'
<1> USE DEF AccountsInv
<1> DEFINE id == client[r].id
           changes == client[r].changes
           row == Overlay(account[id], changes)
<1>1. /\ client[r].op \in {"password", "mfa"}
      /\ account' = [account EXCEPT ![id] = row]
      /\ End(r)
      /\ UNCHANGED <<workspaces, profile, invited, confirmed, drawn, doubled,
                     interleaved>>
  BY DEF CommitChange
<1>2. id \in Ids /\ Has(id) /\ From(changes, Account)
  BY <1>1 DEF RowsSound, ClientOK
<1>3. /\ account \in [Ids -> Account \cup {Nothing}]
      /\ account[id] \in Account
      /\ Nothing \notin Account
  BY <1>2, NothingAssumption DEF RowsSound, AccountsTypeOK, Has
<1>4. {"mfa_enabled", "mfa_totp_secret"} \subseteq DOMAIN account[id]
  BY <1>3 DEF Account
<1>5. row \in Account
  BY <1>2, <1>3, AccountOverlaid
<1>6. client[r].op = "password" =>
        /\ row.mfa_enabled = account[id].mfa_enabled
        /\ row.mfa_totp_secret = account[id].mfa_totp_secret
  <2>1. client[r].op = "password" =>
          DOMAIN changes \subseteq {"password", "active"}
    BY DEF RowsSound, ClientOK
  <2> QED  BY <1>2, <1>3, <1>4, <2>1, AccountOverlaid
<1>7. client[r].op = "mfa" =>
        Generated(row) /\ (id \notin interleaved => Confirmed(row))
  BY DEF FactorsSound, Factor
<1>8. Generated(row) /\ (id \notin interleaved => Confirmed(row))
  <2>1. Generated(account[id])
    BY <1>2 DEF RowsSound
  <2>2. id \notin interleaved => Confirmed(account[id])
    BY <1>2 DEF FactorsSound, MfaUsable, Confirmed
  <2> QED  BY <1>1, <1>6, <1>7, <2>1, <2>2 DEF Generated, Confirmed
<1> HIDE DEF row
<1>9. /\ account'[id] = row
      /\ \A other \in Ids \ {id} : account'[other] = account[other]
      /\ account' \in [Ids -> Account \cup {Nothing}]
  BY <1>1, <1>2, <1>3, <1>5
<1>10. \A other \in Ids : Has(other) <=> Has(other)'
  BY <1>2, <1>3, <1>5, <1>9 DEF Has
<1>11. /\ client'[r].op = "idle"
       /\ \A q \in Clients \ {r} : client'[q] = client[q]
       /\ client' = [q \in Clients |-> client'[q]]
  BY <1>1, Ended DEF Idle
<1>12. RowsSound'
  <2>1. \A q \in Clients : ClientOK(client[q])'
    BY <1>1, <1>10, ClientsKeep
  <2>2. \A other \in Ids : Has(other)' =>
           other[1] \in workspaces' /\ Generated(account[other])'
    BY <1>1, <1>8, <1>9, <1>10 DEF RowsSound, Generated
  <2>3. \A other \in invited' : Has(other)'
    BY <1>1, <1>10 DEF RowsSound, AccountsTypeOK
  <2>4. AccountsTypeOK'
    BY <1>1, <1>9 DEF RowsSound, AccountsTypeOK
  <2> QED  BY <1>11, <2>1, <2>2, <2>3, <2>4 DEF RowsSound
<1>13. FactorsSound'
  <2>1. MfaUsable'
    BY <1>1, <1>8, <1>9, <1>10 DEF FactorsSound, MfaUsable, Confirmed
  <2>2. ASSUME NEW q \in Clients, client'[q].op = "mfa"
        PROVE  /\ q # r /\ client'[q] = client[q]
               /\ Generated(Factor(client[q]))'
               /\ client'[q].id \notin interleaved' => Confirmed(Factor(client[q]))'
    <3> DEFINE c == client[q]
    <3>1. q # r /\ client'[q] = c
      BY <1>11, <2>2
    <3>2. /\ c.id \in Ids /\ Has(c.id) /\ From(c.changes, Account)
          /\ Generated(Factor(c)) /\ (c.id \notin interleaved => Confirmed(Factor(c)))
      BY <2>2, <3>1 DEF RowsSound, ClientOK, FactorsSound
    <3>3. CASE c.id # id
      <4>1. Factor(c)' = Factor(c)
        BY <1>9, <3>1, <3>2, <3>3 DEF Factor
      <4> QED  BY <1>1, <3>1, <3>2, <4>1 DEF Generated, Confirmed
    <3>4. CASE c.id = id
      <4>1. /\ Factor(c) = Overlay(account[id], c.changes)
            /\ Factor(c)' = Overlay(row, c.changes)
        BY <1>9, <3>1, <3>4 DEF Factor
      <4>2. \A col \in {"mfa_enabled", "mfa_totp_secret"} :
              /\ Factor(c)[col] = IF col \in DOMAIN c.changes THEN c.changes[col]
                                  ELSE account[id][col]
              /\ Factor(c)'[col] = IF col \in DOMAIN c.changes THEN c.changes[col]
                                   ELSE row[col]
        <5>1. {"mfa_enabled", "mfa_totp_secret"} \subseteq DOMAIN row
          BY <1>5 DEF Account
        <5> QED  BY <1>3, <1>4, <1>5, <3>2, <4>1, <5>1, AccountOverlaid
      <4>3. Generated(Factor(c))'
        BY <1>1, <1>8, <3>1, <3>2, <4>2 DEF Generated
      <4>4. c.id \notin interleaved =>
              /\ row.mfa_enabled = account[id].mfa_enabled
              /\ row.mfa_totp_secret = account[id].mfa_totp_secret
        BY <1>1, <1>6, <2>2, <3>1, <3>4 DEF FactorsSound
      <4>5. c.id \notin interleaved => Confirmed(Factor(c))'
        BY <1>1, <3>1, <3>2, <4>2, <4>4 DEF Confirmed
      <4> QED  BY <1>1, <3>1, <4>3, <4>5
    <3> QED  BY <3>3, <3>4
  <2>3. \A p, q \in Clients :
          /\ p # q /\ client'[p].op = "mfa" /\ client'[q].op = "mfa"
          /\ client'[p].id = client'[q].id
          => client'[p].id \in interleaved'
    BY <1>1, <2>2 DEF FactorsSound
  <2> QED  BY <2>1, <2>2, <2>3 DEF FactorsSound
<1>14. ProfilesSound'
  BY <1>1, ProfilesKeep
<1> QED  BY <1>12, <1>13, <1>14

LEMMA AccountsNextKeeps ==
    ASSUME AccountsInv, [AccountsNext]_accountsVars
    PROVE  AccountsInv'
<1>1. CASE UNCHANGED accountsVars
  <2>1. client' = [q \in Clients |-> client'[q]]
    BY <1>1 DEF accountsVars, AccountsInv, RowsSound
  <2> QED  BY <1>1, <2>1, QuietStep DEF accountsVars
<1>2. CASE AccountsNext
  <2>1. PICK r \in Clients :
          \/ SignupStep(r) \/ InviteStep(r) \/ DriverStep(r)
          \/ PasswordStep(r) \/ MfaStep(r) \/ StaffStep(r)
          \/ CommitChange(r) \/ Abandon(r)
    BY <1>2 DEF AccountsNext
  <2>2. CASE SignupStep(r)
    BY <2>2, SignupKeeps, CommitSignupKeeps DEF SignupStep
  <2>3. CASE InviteStep(r)
    BY <2>3, InviteKeeps, CommitInviteKeeps DEF InviteStep
  <2>4. CASE DriverStep(r)
    BY <2>4, CreateDriverKeeps, UpdateDriverKeeps, CommitDriverKeeps DEF DriverStep
  <2> QED  BY <2>1, <2>2, <2>3, <2>4, PasswordKeeps, MfaKeeps, StaffKeeps,
              CommitChangeKeeps, AbandonKeeps
<1> QED  BY <1>1, <1>2

\* With one profile for each e-mail, and an active one among them, it is the one
\* that the login looks at.
LEMMA LoginsFind == AccountsInv => LoginFindsAccount
<1> SUFFICES ASSUME AccountsInv, NEW id \in Ids, Has(id), account[id].active,
                    id[2] \notin doubled,
                    account[id].role = "driver" =>
                        \E d \in ByEmail(id[1], id[2]) : profile[d].active
             PROVE  Login(id[2], account[id].password, id[1]) = {id}
  BY DEF LoginFindsAccount
<1>1. /\ id = <<id[1], id[2]>>
      /\ id[1] \in Workspaces /\ id[2] \in Emails /\ id[1] # Nothing
  BY NothingAssumption DEF Ids
<1>2. \A other \in Ids : other[1] = id[1] /\ other[2] = id[2] => other = id
  BY <1>1 DEF Ids
<1>3. Matches(id[2], account[id].password, id[1]) = {id}
  BY <1>1, <1>2 DEF Matches
<1>4. ~Stops(id)
  BY DEF Stops
<1>5. Usable(id)
  <2>1. CASE account[id].role = "driver"
    <3>1. PICK d \in ByEmail(id[1], id[2]) : profile[d].active
      BY <2>1
    <3>2. \A e \in ByEmail(id[1], id[2]) : e = d
      BY <1>1, <3>1 DEF AccountsInv, ProfilesSound
    <3>3. d <= d
      BY OrderAssumption DEF ByEmail
    <3>4. DriverFor(id[1], id[2]) = d
      BY <3>1, <3>2, <3>3 DEF DriverFor
    <3> QED  BY <3>1, <3>4 DEF Usable
  <2> QED  BY <2>1 DEF Usable
<1> QED  BY <1>3, <1>4, <1>5 DEF Login

LEMMA AccountsAlwaysSound == AccountsSpec => []AccountsInv
<1>1. AccountsInv /\ [AccountsNext]_accountsVars => AccountsInv'
  BY AccountsNextKeeps
<1> QED  BY <1>1, AccountsInvInitially, PTL DEF AccountsSpec

-----------------------------------------------------------------------------
(* The back office: rows of the tables.                                    *)

\* The records of a row's table.
RecordsOf(row) ==
    IF row \in Tickets THEN Ticket
    ELSE IF row \in Checklists THEN Checklist
    ELSE IF row \in CustomerAccounts THEN CustomerAccount
    ELSE IF row \in Brokers THEN Broker
    ELSE IF row \in FactoringCompanies THEN FactoringCompany
    ELSE IF row \in Carriers THEN CarrierProfile
    ELSE IF row \in Ledgers THEN Ledger
    ELSE Lead

LEMMA TablesDisjoint ==
    /\ \A row \in Tickets : RecordsOf(row) = Ticket
    /\ \A row \in Checklists : RecordsOf(row) = Checklist /\ row \notin Tickets
    /\ \A row \in CustomerAccounts : RecordsOf(row) = CustomerAccount
    /\ \A row \in Brokers : RecordsOf(row) = Broker
    /\ \A row \in FactoringCompanies : RecordsOf(row) = FactoringCompany
    /\ \A row \in Carriers : RecordsOf(row) = CarrierProfile
    /\ \A row \in Ledgers : RecordsOf(row) = Ledger
    /\ \A row \in Leads : RecordsOf(row) = Lead
    /\ (CustomerAccounts \cup Brokers \cup FactoringCompanies \cup Carriers
        \cup Ledgers \cup Leads) \cap (Tickets \cup Checklists) = {}
<1> DEFINE tables == <<Tickets, Checklists, CustomerAccounts, Brokers,
                       FactoringCompanies, Carriers, Ledgers, Leads>>
<1>1. \A j, k \in 1 .. 8 : j = k \/ tables[j] \cap tables[k] = {}
  BY RowsAssumption
<1>2. /\ tables[1] = Tickets /\ tables[2] = Checklists
      /\ tables[3] = CustomerAccounts /\ tables[4] = Brokers
      /\ tables[5] = FactoringCompanies /\ tables[6] = Carriers
      /\ tables[7] = Ledgers /\ tables[8] = Leads
  OBVIOUS
<1> HIDE DEF tables
<1>3. \A j, k \in 1 .. 8 : j < k => tables[j] \cap tables[k] = {}
  BY <1>1
<1> DEFINE Below(k) == \A j \in 1 .. 8 : j < k => tables[j] \cap tables[k] = {}
<1>4. Below(2) /\ Below(3) /\ Below(4) /\ Below(5) /\ Below(6) /\ Below(7) /\ Below(8)
  BY <1>3
<1>5. Tickets \cap Checklists = {}
  BY <1>2, <1>4
<1>6. CustomerAccounts \cap (Tickets \cup Checklists) = {}
  BY <1>2, <1>4
<1>7. Brokers \cap (Tickets \cup Checklists \cup CustomerAccounts) = {}
  BY <1>2, <1>4
<1>8. FactoringCompanies \cap (Tickets \cup Checklists \cup CustomerAccounts
                               \cup Brokers) = {}
  BY <1>2, <1>4
<1>9. Carriers \cap (Tickets \cup Checklists \cup CustomerAccounts
                     \cup Brokers \cup FactoringCompanies) = {}
  BY <1>2, <1>4
<1>10. Ledgers \cap (Tickets \cup Checklists \cup CustomerAccounts
                     \cup Brokers \cup FactoringCompanies \cup Carriers) = {}
  BY <1>2, <1>4
<1>11. Leads \cap (Tickets \cup Checklists \cup CustomerAccounts \cup Brokers
                   \cup FactoringCompanies \cup Carriers \cup Ledgers) = {}
  BY <1>2, <1>4
<1> QED  BY <1>5, <1>6, <1>7, <1>8, <1>9, <1>10, <1>11 DEF RecordsOf

\* Columns of a table's record, written into a row of it, give such a row.
LEMMA RowOverlaid ==
    ASSUME NEW row \in Rows, NEW old \in RecordsOf(row), NEW changes,
           From(changes, RecordsOf(row))
    PROVE  Overlay(old, changes) \in RecordsOf(row)
<1> DEFINE over(c) == IF c \in DOMAIN changes THEN changes[c] ELSE old[c]
<1>1. PICK new \in RecordsOf(row) : \A c \in DOMAIN changes : changes[c] = new[c]
  BY DEF From
<1>2. \A c : over(c) \in {old[c], new[c]}
  BY <1>1
<1>3. CASE RecordsOf(row) = Ticket
  <2>1. Overlay(old, changes) = [driver |-> over("driver"), status |-> over("status"),
                                 resolved |-> over("resolved")]
    BY <1>3 DEF Overlay, Ticket
  <2> HIDE DEF over
  <2> QED  BY <1>1, <1>2, <1>3, <2>1 DEF Ticket
<1>4. CASE RecordsOf(row) = Checklist
  <2>1. Overlay(old, changes) = [status |-> over("status"), ready |-> over("ready"),
                                 completed |-> over("completed")]
    BY <1>4 DEF Overlay, Checklist
  <2> HIDE DEF over
  <2> QED  BY <1>1, <1>2, <1>4, <2>1 DEF Checklist
<1>5. CASE RecordsOf(row) = CustomerAccount
  <2>1. Overlay(old, changes) = [name |-> over("name"), code |-> over("code"),
                                 status |-> over("status")]
    BY <1>5 DEF Overlay, CustomerAccount
  <2> HIDE DEF over
  <2> QED  BY <1>1, <1>2, <1>5, <2>1 DEF CustomerAccount
<1>6. CASE RecordsOf(row) = Broker
  <2>1. Overlay(old, changes) = [name |-> over("name"),
                                 mc_number |-> over("mc_number")]
    BY <1>6 DEF Overlay, Broker
  <2> HIDE DEF over
  <2> QED  BY <1>1, <1>2, <1>6, <2>1 DEF Broker
<1>7. CASE RecordsOf(row) = FactoringCompany
  <2>1. Overlay(old, changes) = [name |-> over("name"), reserve |-> over("reserve")]
    BY <1>7 DEF Overlay, FactoringCompany
  <2> HIDE DEF over
  <2> QED  BY <1>1, <1>2, <1>7, <2>1 DEF FactoringCompany
<1>8. CASE RecordsOf(row) = CarrierProfile
  <2>1. Overlay(old, changes) = [name |-> over("name"),
                                 address_line2 |-> over("address_line2")]
    BY <1>8 DEF Overlay, CarrierProfile
  <2> HIDE DEF over
  <2> QED  BY <1>1, <1>2, <1>8, <2>1 DEF CarrierProfile
<1>9. CASE RecordsOf(row) = Ledger
  <2>1. Overlay(old, changes) = [category |-> over("category"),
                                 enabled |-> over("enabled")]
    BY <1>9 DEF Overlay, Ledger
  <2> HIDE DEF over
  <2> QED  BY <1>1, <1>2, <1>9, <2>1 DEF Ledger
<1>10. CASE RecordsOf(row) = Lead
  <2>1. Overlay(old, changes) = [status |-> over("status"), notes |-> over("notes")]
    BY <1>10 DEF Overlay, Lead
  <2> HIDE DEF over
  <2> QED  BY <1>1, <1>2, <1>10, <2>1 DEF Lead
<1> QED
  BY <1>3, <1>4, <1>5, <1>6, <1>7, <1>8, <1>9, <1>10 DEF RecordsOf

-----------------------------------------------------------------------------
(* The back office: the invariant.                                         *)

\* What the columns of a ticket, or of a checklist, say together.
Agrees(row, value) ==
    /\ row \in Tickets => (value.resolved <=> value.status = "resolved")
    /\ row \in Checklists =>
          (value.ready => value.status = "completed" /\ value.completed)

\* Columns that a client has given, or that are written without.
MayWrite(row, given, values) ==
    \A c \in DOMAIN values : c \in given \/ Unasked(row, c, values[c])

\* What a request is about to commit, and means unless it is overtaken.
RequestOK(c) ==
    /\ c.op = "insert" =>
          /\ c.rows \subseteq Rows
          /\ \A row \in c.rows : c.new \in RecordsOf(row) /\ Agrees(row, c.new)
    /\ c.op = "upsert" => /\ c.row \in Carriers /\ c.new \in CarrierProfile
                         /\ MayWrite(c.row, c.given, c.new)
    /\ c.op = "update" =>
          /\ c = [op |-> "update", row |-> c.row, given |-> c.given,
                  stale |-> c.stale, changes |-> c.changes, absent |-> c.absent]
          /\ c.row \in Rows /\ Exists(c.row)
          /\ From(c.changes, RecordsOf(c.row))
          /\ MayWrite(c.row, c.given, c.changes)
          /\ ~c.stale => Agrees(c.row, Overlay(desk[c.row], c.changes))

DeskOps == {"insert", "upsert", "update"}

DeskSound ==
    /\ desk = [row \in Rows |-> desk[row]]
    /\ torn \subseteq Rows
    /\ \A row \in Rows : Exists(row) =>
          /\ desk[row] \in RecordsOf(row)
          /\ row \notin torn => Agrees(row, desk[row])
    /\ \A l \in Ledgers : Exists(l)
    /\ \A r \in Clients : RequestOK(client[r])

DeskInv == AccountsInv /\ DeskSound

LEMMA RecordsAreRows == \A row \in Rows : Nothing \notin RecordsOf(row)
  BY NoRowAssumption DEF RecordsOf

LEMMA DeskInvInitially == AccountsInit /\ DeskInit => DeskInv
<1> SUFFICES ASSUME AccountsInit, DeskInit PROVE DeskSound
  BY AccountsInvInitially DEF DeskInv
<1>1. \A r \in Clients : client[r].op = "idle"
  BY DEF AccountsInit, Idle
<1>2. \A r \in Clients : RequestOK(client[r])
  BY <1>1 DEF RequestOK
<1>3. NoLedger \in Ledger /\ NoLedger # Nothing
  BY NoRowAssumption DEF NoLedger, Ledger, Text
<1>4. \A row \in Rows : desk[row] = IF row \in Ledgers THEN NoLedger ELSE Nothing
  BY DEF DeskInit
<1>5. \A l \in Ledgers : l \in Rows /\ RecordsOf(l) = Ledger
  BY TablesDisjoint DEF Rows
<1>6. \A l \in Ledgers : l \notin Tickets /\ l \notin Checklists
  BY TablesDisjoint
<1> QED  BY <1>2, <1>3, <1>4, <1>5, <1>6 DEF DeskSound, DeskInit, Exists, Agrees

\* The requests of the back office are none of the accounts'.
LEMMA DeskRequest ==
    ASSUME NEW c, c.op \in DeskOps
    PROVE  c.op # "mfa" /\ ClientOK(c) /\ ClaimsOK(c)
  BY DEF DeskOps, ClientOK, ClaimsOK, Claims

\* A request that begins, with a change that it means.
LEMMA DeskBegins ==
    ASSUME DeskInv, NEW r \in Clients, NEW record,
           record.op \in DeskOps \cup {"idle"}, record.op = "idle" => record = Idle,
           client' = [client EXCEPT ![r] = record],
           RequestOK(record),
           UNCHANGED <<workspaces, account, profile, invited, confirmed, drawn,
                       doubled, interleaved, desk, torn>>
    PROVE  DeskInv'
<1>1. record.op # "mfa" /\ ClientOK(record) /\ ClaimsOK(record)
  BY DeskRequest, IdleOK
<1>2. AccountsInv'
  BY <1>1, QuietRequest DEF DeskInv
<1>3. client' = [q \in Clients |-> IF q = r THEN record ELSE client[q]]
  BY DEF DeskInv, AccountsInv, RowsSound
<1>4. ASSUME NEW q \in Clients PROVE RequestOK(client[q])'
  <2>1. RequestOK(client'[q])
    BY <1>3 DEF DeskInv, DeskSound
  <2> QED  BY <2>1 DEF RequestOK, Exists, Overlay
<1> QED  BY <1>2, <1>4 DEF DeskInv, DeskSound, Exists

LEMMA InsertKeeps ==
    ASSUME DeskInv, NEW r \in Clients, NEW rows, NEW new,
           rows \subseteq Rows, Insert(r, rows, new),
           \A row \in rows : new \in RecordsOf(row) /\ Agrees(row, new)
    PROVE  DeskInv'
<1> DEFINE record == [op |-> "insert", rows |-> rows, new |-> new]
<1>1. RequestOK(record) /\ record.op \in DeskOps
  BY DEF RequestOK, DeskOps
<1>2. client' = [client EXCEPT ![r] = record]
  BY DEF Insert, Begin
<1> HIDE DEF record
<1> QED  BY <1>1, <1>2, DeskBegins DEF Insert, DeskOps, deskVars

LEMMA UpdateKeeps ==
    ASSUME DeskInv, NEW r \in Clients, NEW row \in Rows,
           NEW new \in RecordsOf(row), NEW given,
           Update(r, row, new, given), Agrees(row, new),
           DOMAIN new = DOMAIN desk[row],
           \A c \in DOMAIN desk[row] :
               desk[row][c] # new[c] => c \in given \/ Unasked(row, c, new[c])
    PROVE  DeskInv'
<1> DEFINE changes == Changes(desk[row], new)
           absent == {c \in DOMAIN changes :
                         row \in Ledgers /\ desk[row][c] = Nothing}
           record == [op |-> "update", row |-> row, given |-> given,
                      stale |-> FALSE, changes |-> changes, absent |-> absent]
<1>1. /\ DOMAIN changes = {c \in DOMAIN desk[row] : desk[row][c] # new[c]}
      /\ \A c \in DOMAIN changes : changes[c] = new[c]
  BY DEF Changes
<1>2. From(changes, RecordsOf(row))
  BY <1>1 DEF From
<1>3. client' = [client EXCEPT ![r] = record]
  BY DEF Update, Begin
<1> HIDE DEF changes, absent
<1>4. \A c \in DOMAIN desk[row] : Overlay(desk[row], changes)[c] = new[c]
  BY <1>1 DEF Overlay
<1>5. Agrees(row, Overlay(desk[row], changes))
  <2>1. CASE row \in Tickets
    <3>1. {"status", "resolved"} \subseteq DOMAIN desk[row] /\ row \notin Checklists
      <4>1. new \in Ticket /\ row \notin Checklists
        BY <2>1, TablesDisjoint
      <4> QED  BY <4>1 DEF Ticket
    <3>2. /\ Overlay(desk[row], changes).status = new.status
          /\ Overlay(desk[row], changes).resolved = new.resolved
      BY <1>4, <3>1
    <3> QED  BY <2>1, <3>1, <3>2 DEF Agrees
  <2>2. CASE row \in Checklists
    <3>1. /\ {"status", "ready", "completed"} \subseteq DOMAIN desk[row]
          /\ row \notin Tickets
      <4>1. new \in Checklist /\ row \notin Tickets
        BY <2>2, TablesDisjoint
      <4> QED  BY <4>1 DEF Checklist
    <3>2. /\ Overlay(desk[row], changes).status = new.status
          /\ Overlay(desk[row], changes).ready = new.ready
          /\ Overlay(desk[row], changes).completed = new.completed
      BY <1>4, <3>1
    <3> QED  BY <2>2, <3>1, <3>2 DEF Agrees
  <2> QED  BY <2>1, <2>2 DEF Agrees
<1>6. RequestOK(record)
  BY <1>1, <1>2, <1>5 DEF RequestOK, Update, MayWrite
<1>7. record.op \in DeskOps
  BY DEF DeskOps
<1> HIDE DEF record
<1> QED  BY <1>3, <1>6, <1>7, DeskBegins DEF Update, DeskOps, deskVars

\* The columns that the client gives, written over the row that was read.
LEMMA PatchKeeps ==
    ASSUME DeskInv, NEW r \in Clients, NEW row \in Rows \ (Tickets \cup Checklists),
           NEW asked, From(asked, RecordsOf(row)), Patch(r, row, asked)
    PROVE  DeskInv'
<1> DEFINE new == Overlay(desk[row], asked)
<1>1. Exists(row) /\ Update(r, row, new, DOMAIN asked)
  BY DEF Patch
<1>2. new \in RecordsOf(row)
  BY <1>1, RowOverlaid DEF DeskInv, DeskSound
<1>3. /\ DOMAIN new = DOMAIN desk[row]
      /\ \A c \in DOMAIN desk[row] : desk[row][c] # new[c] => c \in DOMAIN asked
  BY DEF Overlay
<1>4. Agrees(row, new)
  BY DEF Agrees
<1> HIDE DEF new
<1> QED  BY <1>1, <1>2, <1>3, <1>4, UpdateKeeps

\* What requests ask for.
LEMMA Asking ==
    ASSUME NEW records, NEW columns, NEW asked \in Asks(records, columns)
    PROVE  From(asked, records) /\ DOMAIN asked \subseteq columns
  BY DEF Asks, From

LEMMA FromMore ==
    ASSUME NEW changes, NEW records, NEW more, records \subseteq more,
           From(changes, records)
    PROVE  From(changes, more)
  BY DEF From

\* What the client has left out is empty.
LEMMA EmptiedFrom ==
    ASSUME NEW asked, NEW records, NEW column, From(asked, records),
           \A record \in records :
               \E new \in records : new[column] = Nothing
                  /\ \A c \in DOMAIN asked \ {column} : new[c] = record[c]
    PROVE  From(Emptied(asked, column), records)
<1>1. PICK record \in records : \A c \in DOMAIN asked : asked[c] = record[c]
  BY DEF From
<1>2. CASE column \in DOMAIN asked
  BY <1>1, <1>2 DEF From, Emptied
<1>3. CASE column \notin DOMAIN asked
  <2>1. PICK new \in records : /\ new[column] = Nothing
                               /\ \A c \in DOMAIN asked \ {column} : new[c] = record[c]
    BY <1>1
  <2> QED  BY <1>1, <1>3, <2>1 DEF From, Emptied
<1> QED  BY <1>2, <1>3

LEMMA SupportKeeps ==
    ASSUME DeskInv, NEW r \in Clients, SupportStep(r)
    PROVE  DeskInv'
<1>1. ASSUME NEW driver \in Profiles \cup {Nothing}, CreateTicket(r, driver)
      PROVE  DeskInv'
  <2>1. PICK new : new = [driver |-> driver, status |-> "open", resolved |-> FALSE]
    OBVIOUS
  <2>2. new \in Ticket /\ ~new.resolved /\ new.status = "open"
    BY <2>1 DEF Ticket
  <2>3. \A t \in Tickets : new \in RecordsOf(t) /\ Agrees(t, new)
    BY <2>2, TablesDisjoint DEF Agrees
  <2>4. Insert(r, Tickets, new) /\ Tickets \subseteq Rows
    BY <1>1, <2>1 DEF CreateTicket, Rows
  <2> QED  BY <2>3, <2>4, InsertKeeps
<1>2. ASSUME NEW t \in Tickets, NEW actor \in Profiles \cup {Nothing},
             NEW asked \in Asks(Asked(Ticket), {"driver", "status"}),
             UpdateTicket(r, t, actor, asked)
      PROVE  DeskInv'
  <2>1. t \in Rows /\ RecordsOf(t) = Ticket /\ t \notin Checklists
    BY TablesDisjoint DEF Rows
  <2>2. From(asked, Ticket)
    BY Asking, FromMore DEF Asked
  <2>3. desk[t] \in Ticket
    BY <1>2, <2>1 DEF UpdateTicket, Sees, DeskInv, DeskSound
  <2>4. PICK over : over = Overlay(desk[t], asked)
    OBVIOUS
  <2>5. over \in Ticket
    BY <2>1, <2>2, <2>3, <2>4, RowOverlaid
  <2>6. PICK new : new = Dated(over)
    OBVIOUS
  <2>7. /\ new \in Ticket
        /\ new.driver = over.driver /\ new.status = over.status
        /\ new.resolved <=> new.status = "resolved"
    <3>1. (over.status = "resolved") \in BOOLEAN
      OBVIOUS
    <3>2. PICK dated \in BOOLEAN : dated = (over.status = "resolved")
      BY <3>1
    <3>3. new = [over EXCEPT !.resolved = dated]
      BY <2>6, <3>2 DEF Dated
    <3> QED  BY <2>5, <3>2, <3>3 DEF Ticket
  <2>8. Update(r, t, new, DOMAIN asked)
    BY <1>2, <2>4, <2>6 DEF UpdateTicket, Edited
  <2>9. /\ DOMAIN new = DOMAIN desk[t]
        /\ DOMAIN desk[t] = {"driver", "status", "resolved"}
    BY <2>3, <2>7 DEF Ticket
  <2>10. \A c \in {"driver", "status"} : c \notin DOMAIN asked => over[c] = desk[t][c]
    BY <2>4, <2>9 DEF Overlay
  <2>11. \A c \in DOMAIN desk[t] : desk[t][c] # new[c] =>
            c \in DOMAIN asked \/ Unasked(t, c, new[c])
    BY <2>7, <2>9, <2>10 DEF Unasked
  <2>12. Agrees(t, new)
    BY <2>1, <2>7 DEF Agrees
  <2> QED  BY <2>1, <2>7, <2>8, <2>9, <2>11, <2>12, UpdateKeeps
<1> QED  BY <1>1, <1>2 DEF SupportStep

LEMMA OnboardingKeeps ==
    ASSUME DeskInv, NEW r \in Clients, OnboardingStep(r)
    PROVE  DeskInv'
<1>1. PICK k \in Checklists :
        \/ InitializeChecklist(r, k)
        \/ \E asked \in Asked(Checklist) : UpsertChecklist(r, k, asked)
  BY DEF OnboardingStep
<1>2. k \in Rows /\ RecordsOf(k) = Checklist /\ k \notin Tickets
  BY TablesDisjoint DEF Rows
<1>3. ASSUME InitializeChecklist(r, k)
      PROVE  DeskInv'
  <2>1. PICK new : new = [status |-> "not_started", ready |-> FALSE,
                          completed |-> FALSE]
    OBVIOUS
  <2>2. new \in Checklist /\ ~new.ready
    BY <2>1 DEF Checklist
  <2>3. new \in RecordsOf(k) /\ Agrees(k, new)
    BY <1>2, <2>2 DEF Agrees
  <2>4. Insert(r, {k}, new)
    BY <1>3, <2>1 DEF InitializeChecklist
  <2> QED  BY <1>2, <2>3, <2>4, InsertKeeps
<1>4. ASSUME NEW asked \in Asked(Checklist), UpsertChecklist(r, k, asked)
      PROVE  DeskInv'
  <2>1. asked \in Checklist
    BY DEF Asked
  <2>2. PICK new : new = Completed(asked)
    OBVIOUS
  <2>3. new \in Checklist /\ (new.ready => new.status = "completed" /\ new.completed)
    <3>1. CASE asked.ready
      <4>1. new = [asked EXCEPT !.status = "completed", !.completed = TRUE]
        BY <2>2, <3>1 DEF Completed
      <4> QED  BY <2>1, <4>1 DEF Checklist
    <3>2. CASE ~asked.ready
      BY <2>1, <2>2, <3>2 DEF Completed
    <3> QED  BY <3>1, <3>2
  <2>4. Agrees(k, new)
    BY <1>2, <2>3 DEF Agrees
  <2>5. CASE ~Exists(k)
    <3>1. Insert(r, {k}, new)
      BY <1>4, <2>2, <2>5 DEF UpsertChecklist
    <3> QED  BY <1>2, <2>3, <2>4, <3>1, InsertKeeps
  <2>6. CASE Exists(k)
    <3>1. PICK given : /\ Update(r, k, new, given)
                       /\ {"status", "ready"} \subseteq given
      BY <1>4, <2>2, <2>6 DEF UpsertChecklist
    <3>2. desk[k] \in Checklist
      BY <1>2, <2>6 DEF DeskInv, DeskSound
    <3>3. /\ DOMAIN new = DOMAIN desk[k]
          /\ DOMAIN desk[k] = {"status", "ready", "completed"}
      BY <2>1, <2>3, <3>2 DEF Checklist
    <3>4. \A c \in DOMAIN desk[k] : c \in given \/ Unasked(k, c, new[c])
      BY <3>1, <3>3 DEF Unasked
    <3> QED  BY <1>2, <2>3, <2>4, <3>1, <3>3, <3>4, UpdateKeeps
  <2> QED  BY <2>5, <2>6
<1> QED  BY <1>1, <1>3, <1>4

\* A row to be inserted into a table whose columns stand by themselves.
LEMMA PlainInsertKeeps ==
    ASSUME DeskInv, NEW r \in Clients, NEW table, NEW new,
           table \in {CustomerAccounts, Brokers, FactoringCompanies, Carriers, Leads},
           \A row \in table : new \in RecordsOf(row),
           Insert(r, table, new)
    PROVE  DeskInv'
<1>1. table \subseteq Rows /\ table \cap (Tickets \cup Checklists) = {}
  BY TablesDisjoint DEF Rows
<1> QED  BY <1>1, InsertKeeps DEF Agrees

LEMMA CustomerKeeps ==
    ASSUME DeskInv, NEW r \in Clients, CustomerStep(r)
    PROVE  DeskInv'
<1>1. ASSUME NEW name \in Texts, NEW code \in Text, NEW elsewhere \in BOOLEAN,
             CreateCustomerAccount(r, name, code, elsewhere)
      PROVE  DeskInv'
  <2>1. [name |-> name, code |-> code, status |-> "prospect"] \in CustomerAccount
    BY DEF CustomerAccount
  <2> QED  BY <1>1, <2>1, TablesDisjoint, PlainInsertKeeps DEF CreateCustomerAccount
<1>2. ASSUME NEW a \in CustomerAccounts, NEW elsewhere \in BOOLEAN,
             NEW asked \in Asks(Asked(CustomerAccount), {"name", "code", "status"}),
             UpdateCustomerAccount(r, a, asked, elsewhere)
      PROVE  DeskInv'
  <2>1. a \in Rows \ (Tickets \cup Checklists) /\ RecordsOf(a) = CustomerAccount
    BY TablesDisjoint DEF Rows
  <2>2. From(asked, CustomerAccount)
    BY Asking, FromMore DEF Asked
  <2>3. PICK written : written = Emptied(asked, "code")
    OBVIOUS
  <2>4. From(written, CustomerAccount)
    <3>1. ASSUME NEW record \in CustomerAccount
          PROVE  \E new \in CustomerAccount : new.code = Nothing
                    /\ \A c \in DOMAIN asked \ {"code"} : new[c] = record[c]
      <4>1. PICK new : new = [record EXCEPT !.code = Nothing]
        OBVIOUS
      <4>2. DOMAIN asked \subseteq {"name", "code", "status"}
        BY Asking
      <4>3. /\ new \in CustomerAccount /\ new.code = Nothing
            /\ new.name = record.name /\ new.status = record.status
        BY <4>1 DEF CustomerAccount, Text
      <4> QED  BY <4>2, <4>3
    <3> QED  BY <2>2, <2>3, <3>1, EmptiedFrom
  <2>5. PICK new : new = Overlay(desk[a], written)
    OBVIOUS
  <2>6. Exists(a) /\ Update(r, a, new, DOMAIN asked)
    BY <1>2, <2>3, <2>5 DEF UpdateCustomerAccount
  <2>7. desk[a] \in CustomerAccount /\ new \in CustomerAccount
    BY <2>1, <2>4, <2>5, <2>6, RowOverlaid DEF DeskInv, DeskSound
  <2>8. DOMAIN new = DOMAIN desk[a]
    BY <2>5 DEF Overlay
  <2>9. \A c \in DOMAIN desk[a] :
            desk[a][c] # new[c] => c \in DOMAIN asked \/ Unasked(a, c, new[c])
    BY <2>3, <2>5 DEF Overlay, Emptied, Unasked
  <2>10. Agrees(a, new)
    BY <2>1 DEF Agrees
  <2> QED  BY <2>1, <2>6, <2>7, <2>8, <2>9, <2>10, UpdateKeeps
<1> QED  BY <1>1, <1>2 DEF CustomerStep

LEMMA BrokerKeeps ==
    ASSUME DeskInv, NEW r \in Clients, BrokerStep(r)
    PROVE  DeskInv'
<1>1. ASSUME NEW new \in Broker, CreateBroker(r, new)
      PROVE  DeskInv'
  BY <1>1, TablesDisjoint, PlainInsertKeeps DEF CreateBroker
<1>2. ASSUME NEW b \in Brokers, NEW asked \in Asks(Broker, {"name", "mc_number"}),
             UpdateBroker(r, b, asked)
      PROVE  DeskInv'
  <2>1. b \in Rows \ (Tickets \cup Checklists) /\ RecordsOf(b) = Broker
    BY TablesDisjoint DEF Rows
  <2> QED  BY <1>2, <2>1, Asking, PatchKeeps DEF UpdateBroker
<1> QED  BY <1>1, <1>2 DEF BrokerStep

LEMMA FactoringKeeps ==
    ASSUME DeskInv, NEW r \in Clients, FactoringStep(r)
    PROVE  DeskInv'
<1>1. ASSUME NEW new \in FactoringCompany, CreateCompany(r, new)
      PROVE  DeskInv'
  BY <1>1, TablesDisjoint, PlainInsertKeeps DEF CreateCompany
<1>2. ASSUME NEW f \in FactoringCompanies,
             NEW asked \in Asks(FactoringCompany, {"name", "reserve"}),
             UpdateCompany(r, f, asked)
      PROVE  DeskInv'
  <2>1. f \in Rows \ (Tickets \cup Checklists) /\ RecordsOf(f) = FactoringCompany
    BY TablesDisjoint DEF Rows
  <2> QED  BY <1>2, <2>1, Asking, PatchKeeps DEF UpdateCompany
<1> QED  BY <1>1, <1>2 DEF FactoringStep

\* The service's own look at the carrier profile decides between the two.
LEMMA UpsertProfileKeeps ==
    ASSUME DeskInv, NEW r \in Clients, UpsertProfile(r)
    PROVE  DeskInv'
<1> DEFINE p == client[r].row
           new == client[r].new
           changes == Changes(desk[p], new)
           insertion == [op |-> "insert", rows |-> {p}, new |-> new]
           given == client[r].given
           update == [op |-> "update", row |-> p, given |-> given,
                      stale |-> FALSE, changes |-> changes, absent |-> {}]
<1>1. p \in Carriers /\ new \in CarrierProfile /\ MayWrite(p, given, new)
  BY DEF UpsertProfile, DeskInv, DeskSound, RequestOK
<1>2. /\ p \in Rows /\ p \notin Tickets /\ p \notin Checklists
      /\ RecordsOf(p) = CarrierProfile
  BY <1>1, TablesDisjoint DEF Rows
<1>3. UNCHANGED <<workspaces, account, profile, invited, confirmed, drawn,
                  doubled, interleaved, desk, torn>>
  BY DEF UpsertProfile, deskVars
<1>4. CASE Exists(p)
  <2>1. /\ DOMAIN changes \subseteq DOMAIN desk[p]
        /\ \A c \in DOMAIN changes : changes[c] = new[c]
    BY DEF Changes
  <2>2. desk[p] \in CarrierProfile
    BY <1>2, <1>4 DEF DeskInv, DeskSound
  <2>3. DOMAIN desk[p] = DOMAIN new
    BY <1>1, <2>2 DEF CarrierProfile
  <2>4. From(changes, RecordsOf(p))
    BY <1>1, <1>2, <2>1 DEF From
  <2>5. client' = [client EXCEPT ![r] = update]
    BY <1>4 DEF UpsertProfile
  <2> HIDE DEF p, new, given, changes
  <2>6. MayWrite(p, given, changes)
    BY <1>1, <2>1, <2>3 DEF MayWrite
  <2>7. RequestOK(update) /\ update.op = "update"
    BY <1>2, <1>4, <2>4, <2>6 DEF RequestOK, Agrees
  <2> HIDE DEF update
  <2> QED  BY <1>3, <2>5, <2>7, DeskBegins DEF DeskOps
<1>5. CASE ~Exists(p)
  <2>1. client' = [client EXCEPT ![r] = insertion]
    BY <1>5 DEF UpsertProfile
  <2> HIDE DEF p, new
  <2>2. RequestOK(insertion) /\ insertion.op = "insert"
    BY <1>1, <1>2 DEF RequestOK, Agrees
  <2> HIDE DEF insertion
  <2> QED  BY <1>3, <2>1, <2>2, DeskBegins DEF DeskOps
<1> QED  BY <1>4, <1>5

LEMMA CarrierKeeps ==
    ASSUME DeskInv, NEW r \in Clients, CarrierStep(r)
    PROVE  DeskInv'
<1>1. ASSUME NEW p \in Carriers,
             NEW asked \in Asks(CarrierProfile, {"name", "address_line2"}),
             CreateCarrierProfile(r, p, asked)
      PROVE  DeskInv'
  <2>1. PICK new : new = Emptied(asked, "address_line2")
    OBVIOUS
  <2>2. /\ "name" \in DOMAIN asked
        /\ DOMAIN asked \subseteq {"name", "address_line2"}
        /\ From(asked, CarrierProfile)
    BY <1>1, Asking DEF CreateCarrierProfile
  <2>3. new \in CarrierProfile
    <3>1. PICK record \in CarrierProfile : \A c \in DOMAIN asked : asked[c] = record[c]
      BY <2>2 DEF From
    <3>2. /\ DOMAIN new = {"name", "address_line2"}
          /\ new = [c \in DOMAIN new |-> new[c]]
          /\ new.name = record.name
          /\ new.address_line2 \in {record.address_line2, Nothing}
      BY <2>1, <2>2, <3>1 DEF Emptied
    <3>3. new = [name |-> new.name, address_line2 |-> new.address_line2]
      BY <3>2
    <3> QED  BY <3>2, <3>3 DEF CarrierProfile, Text
  <2>4. MayWrite(p, DOMAIN asked, new)
    BY <2>1 DEF MayWrite, Emptied, Unasked
  <2> DEFINE record == [op |-> "upsert", row |-> p, given |-> DOMAIN asked,
                        new |-> new]
  <2>5. RequestOK(record) /\ record.op = "upsert"
    BY <2>3, <2>4 DEF RequestOK
  <2>6. client' = [client EXCEPT ![r] = record]
    BY <1>1, <2>1 DEF CreateCarrierProfile, Begin
  <2> HIDE DEF record
  <2> QED  BY <1>1, <2>5, <2>6, DeskBegins
           DEF DeskOps, CreateCarrierProfile, deskVars
<1>2. ASSUME NEW p \in Carriers,
             NEW asked \in Asks(CarrierProfile, {"name", "address_line2"}),
             UpdateCarrierProfile(r, p, asked)
      PROVE  DeskInv'
  <2>1. p \in Rows \ (Tickets \cup Checklists) /\ RecordsOf(p) = CarrierProfile
    BY TablesDisjoint DEF Rows
  <2> QED  BY <1>2, <2>1, Asking, PatchKeeps DEF UpdateCarrierProfile
<1> QED  BY <1>1, <1>2, UpsertProfileKeeps DEF CarrierStep

LEMMA AccountingKeeps ==
    ASSUME DeskInv, NEW r \in Clients, AccountingStep(r)
    PROVE  DeskInv'
<1>1. PICK l \in Ledgers, asked \in Asks(Ledger, {"category", "enabled"}) :
        UpdateAccountingSettings(r, l, asked)
  BY DEF AccountingStep
<1>2. l \in Rows \ (Tickets \cup Checklists) /\ RecordsOf(l) = Ledger
  BY TablesDisjoint DEF Rows
<1> QED  BY <1>1, <1>2, Asking, PatchKeeps DEF UpdateAccountingSettings

LEMMA LeadKeeps ==
    ASSUME DeskInv, NEW r \in Clients, LeadStep(r)
    PROVE  DeskInv'
<1>1. ASSUME ReceiveLead(r)
      PROVE  DeskInv'
  <2>1. [status |-> "new", notes |-> Nothing] \in Lead
    BY DEF Lead, Text
  <2> QED  BY <1>1, <2>1, TablesDisjoint, PlainInsertKeeps DEF ReceiveLead
<1>2. ASSUME NEW d \in Leads, NEW asked \in Asks(Asked(Lead), {"status", "notes"}),
             UpdatePipeline(r, d, asked)
      PROVE  DeskInv'
  <2>1. d \in Rows \ (Tickets \cup Checklists) /\ RecordsOf(d) = Lead
    BY TablesDisjoint DEF Rows
  <2>2. From(asked, Lead)
    BY Asking, FromMore DEF Asked
  <2> QED  BY <1>2, <2>1, <2>2, PatchKeeps DEF UpdatePipeline
<1> QED  BY <1>1, <1>2 DEF LeadStep

\* Requests that are in flight keep their meaning while the rows they have read
\* stay as they are.
LEMMA RequestsKeep ==
    ASSUME NEW c, RequestOK(c), c.op = "update" => desk'[c.row] = desk[c.row]
    PROVE  RequestOK(c)'
  BY DEF RequestOK, Exists

LEMMA CommitInsertKeeps ==
    ASSUME DeskInv, NEW r \in Clients, CommitInsert(r)
    PROVE  DeskInv'
<1>1. End(r) /\ UNCHANGED <<workspaces, account, profile, invited, confirmed,
                            drawn, doubled, interleaved, torn>>
  BY DEF CommitInsert
<1>2. AccountsInv'
  BY <1>1, QuietRequest, IdleOK DEF DeskInv, End
<1>3. /\ client'[r].op = "idle"
      /\ \A q \in Clients \ {r} : client'[q] = client[q]
  BY <1>1, Ended DEF Idle, DeskInv
<1>4. PICK row \in client[r].rows :
        IF Exists(row) \/ Clash(row, client[r].new)
        THEN UNCHANGED desk
        ELSE desk' = [desk EXCEPT ![row] = client[r].new]
  BY DEF CommitInsert
<1>5. row \in Rows /\ client[r].new \in RecordsOf(row) /\ Agrees(row, client[r].new)
  BY DEF CommitInsert, DeskInv, DeskSound, RequestOK
<1>6. PICK new : new = client[r].new
  OBVIOUS
<1>7. new # Nothing
  BY <1>5, <1>6, RecordsAreRows
<1>8. desk = [any \in Rows |-> desk[any]]
  BY DEF DeskInv, DeskSound
<1>9. /\ desk' = [any \in Rows |-> desk'[any]]
      /\ \A other \in Rows : Exists(other) => desk'[other] = desk[other]
      /\ \A other \in Rows : desk'[other] = desk[other] \/ (other = row /\ desk'[other] = new)
  <2>1. CASE UNCHANGED desk
    BY <1>8, <2>1
  <2>2. CASE ~Exists(row) /\ desk' = [desk EXCEPT ![row] = new]
    <3>1. desk' = [any \in Rows |-> IF any = row THEN new ELSE desk[any]]
      BY <1>8, <2>2
    <3> QED  BY <2>2, <3>1
  <2> QED  BY <1>4, <1>6, <2>1, <2>2
<1>10. ASSUME NEW q \in Clients PROVE RequestOK(client[q])'
  <2>1. CASE q = r
    BY <1>3, <2>1 DEF RequestOK
  <2>2. CASE q # r
    <3>1. RequestOK(client[q]) /\ client'[q] = client[q]
      BY <1>3, <2>2 DEF DeskInv, DeskSound
    <3>2. client[q].op = "update" => desk'[client[q].row] = desk[client[q].row]
      BY <1>9, <3>1 DEF RequestOK
    <3> QED  BY <3>1, <3>2, RequestsKeep
  <2> QED  BY <2>1, <2>2
<1>11. \A other \in Rows : Exists(other)' =>
         /\ desk'[other] \in RecordsOf(other)
         /\ other \notin torn' => Agrees(other, desk'[other])
  BY <1>1, <1>5, <1>6, <1>9 DEF DeskInv, DeskSound, Exists
<1>12. \A l \in Ledgers : Exists(l)'
  BY <1>9 DEF DeskInv, DeskSound, Exists, Rows
<1> QED  BY <1>1, <1>2, <1>9, <1>10, <1>11, <1>12 DEF DeskInv, DeskSound

LEMMA CommitUpdateKeeps ==
    ASSUME DeskInv, NEW r \in Clients, CommitUpdate(r)
    PROVE  DeskInv'
<1>1. /\ client[r].op = "update"
      /\ UNCHANGED <<workspaces, account, profile, invited, confirmed, drawn,
                     doubled, interleaved>>
  BY DEF CommitUpdate
<1>2. CASE End(r) /\ UNCHANGED deskVars
  <2>1. RequestOK(Idle)
    BY DEF RequestOK, Idle
  <2> QED  BY <1>1, <1>2, <2>1, IdleOK, DeskBegins DEF End, deskVars
<1>3. CASE ~(End(r) /\ UNCHANGED deskVars)
  <2>0. PICK row : row = client[r].row
    OBVIOUS
  <2> DEFINE new == Overlay(desk[row], client[r].changes)
  <2>1. /\ desk' = [desk EXCEPT ![row] = new]
        /\ torn' = IF client[r].stale THEN torn \cup {row} ELSE torn \ {row}
        /\ client' = [q \in Clients |->
              IF q = r THEN Idle
              ELSE IF client[q].op = "update" /\ client[q].row = row
              THEN [client[q] EXCEPT !.stale = TRUE]
              ELSE client[q]]
    BY <1>3, <2>0 DEF CommitUpdate
  <2>2. /\ row \in Rows /\ Exists(row)
        /\ From(client[r].changes, RecordsOf(row))
        /\ ~client[r].stale => Agrees(row, new)
    BY <1>1, <2>0 DEF DeskInv, DeskSound, RequestOK
  <2>3. new \in RecordsOf(row) /\ new # Nothing
    BY <2>2, RowOverlaid, RecordsAreRows DEF DeskInv, DeskSound
  <2> HIDE DEF new
  <2>4. /\ desk'[row] = new
        /\ \A other \in Rows \ {row} : desk'[other] = desk[other]
        /\ desk' = [any \in Rows |-> desk'[any]]
    <3>1. desk' = [any \in Rows |-> IF any = row THEN new ELSE desk[any]]
      BY <2>1, <2>2 DEF DeskInv, DeskSound
    <3> QED  BY <2>2, <3>1
  <2>5. \A other \in Rows : Exists(other)' =>
          /\ desk'[other] \in RecordsOf(other)
          /\ other \notin torn' => Agrees(other, desk'[other])
    BY <2>1, <2>2, <2>3, <2>4 DEF DeskInv, DeskSound, Exists
  <2>6. torn' \subseteq Rows
    BY <2>1, <2>2 DEF DeskInv, DeskSound
  <2>7. \A l \in Ledgers : Exists(l)'
    BY <2>3, <2>4 DEF DeskInv, DeskSound, Exists, Rows
  <2>8. ASSUME NEW q \in Clients
        PROVE  /\ \/ client'[q] = client[q] \/ client'[q] = Idle
                  \/ client'[q].op = "update"
               /\ RequestOK(client[q])'
    <3> DEFINE c == client[q]
    <3>1. RequestOK(c)
      BY DEF DeskInv, DeskSound
    <3>2. CASE q = r
      <4>1. client'[q] = Idle
        BY <2>1, <3>2
      <4> QED  BY <4>1 DEF RequestOK, Idle
    <3>3. CASE q # r /\ c.op = "update" /\ c.row = row
      <4>1. client'[q] = [c EXCEPT !.stale = TRUE]
        BY <2>1, <3>3
      <4>2. PICK given, stale, changes, absent :
              c = [op |-> "update", row |-> row, given |-> given,
                   stale |-> stale, changes |-> changes, absent |-> absent]
        BY <3>1, <3>3 DEF RequestOK
      <4>3. client'[q] = [op |-> "update", row |-> row, given |-> given,
                          stale |-> TRUE, changes |-> changes, absent |-> absent]
        <5> HIDE DEF c
        <5> QED  BY <4>1, <4>2
      <4>4. Exists(row)'
        BY <2>3, <2>4 DEF Exists
      <4>5. /\ row \in Rows /\ From(changes, RecordsOf(row))
            /\ MayWrite(row, given, changes)
        <5>1. /\ c.row = row /\ c.changes = changes /\ c.given = given
          BY <4>2
        <5> QED  BY <3>1, <3>3, <5>1 DEF RequestOK
      <4>6. PICK record : record = [op |-> "update", row |-> row, given |-> given,
                                    stale |-> TRUE, changes |-> changes,
                                    absent |-> absent]
        OBVIOUS
      <4>7. RequestOK(record)' /\ record.op = "update"
        BY <4>4, <4>5, <4>6 DEF RequestOK
      <4>8. client'[q] = record
        BY <4>3, <4>6
      <4> QED  BY <4>7, <4>8
    <3>4. CASE q # r /\ ~(c.op = "update" /\ c.row = row)
      <4>1. client'[q] = c
        BY <2>1, <3>4
      <4>2. c.op = "update" => desk'[c.row] = desk[c.row]
        BY <2>4, <3>1, <3>4 DEF RequestOK
      <4> QED  BY <3>1, <4>1, <4>2, RequestsKeep
    <3> QED  BY <3>2, <3>3, <3>4
  <2>9. AccountsInv'
    <3>1. client' = [q \in Clients |-> client'[q]]
      BY <2>1
    <3>2. \A q \in Clients : client'[q] = client[q]
                             \/ /\ client'[q].op # "mfa"
                                /\ ClientOK(client'[q]) /\ ClaimsOK(client'[q])
      BY <2>8, IdleOK, DeskRequest DEF DeskOps
    <3> QED  BY <1>1, <3>1, <3>2, QuietStep DEF DeskInv
  <2> QED  BY <2>4, <2>5, <2>6, <2>7, <2>8, <2>9 DEF DeskInv, DeskSound
<1> QED  BY <1>2, <1>3

DeskStep(r) ==
    \/ SupportStep(r) \/ OnboardingStep(r) \/ CustomerStep(r)
    \/ BrokerStep(r) \/ FactoringStep(r) \/ CarrierStep(r) \/ AccountingStep(r)
    \/ LeadStep(r)

\* A request of an account is not one of the back office.
Foreign(r) ==
    \E record : client' = [client EXCEPT ![r] = record] /\ record.op \notin DeskOps

LEMMA BeginsForeign ==
    ASSUME NEW r \in Clients, NEW record, Begin(r, record), record.op \notin DeskOps
    PROVE  Foreign(r)
  BY DEF Begin, Foreign

LEMMA AccountsRequests ==
    ASSUME AccountsNext
    PROVE  \E r \in Clients : Foreign(r)
<1>1. PICK r \in Clients :
        \/ SignupStep(r) \/ InviteStep(r) \/ DriverStep(r)
        \/ PasswordStep(r) \/ MfaStep(r) \/ StaffStep(r)
        \/ CommitChange(r) \/ Abandon(r)
  BY DEF AccountsNext
<1>2. CASE End(r)
  <2>1. Idle.op \notin DeskOps
    BY DEF Idle, DeskOps
  <2>2. Foreign(r)
    BY <1>2, <2>1 DEF End, Foreign
  <2> QED  BY <2>2
<1>3. CASE SignupStep(r) /\ ~End(r)
  <2>1. PICK name \in Names, email \in Emails, password \in Passwords :
          Signup(r, name, email, password)
    BY <1>3 DEF SignupStep, CommitSignup
  <2>2. PICK slug \in FreeSlugs(name) :
          Begin(r, [op |-> "signup", id |-> <<slug, email>>,
                    row |-> NewAccount("owner", TRUE, password)])
    BY <2>1 DEF Signup
  <2> QED  BY <2>2, BeginsForeign DEF DeskOps
<1>4. CASE InviteStep(r) /\ ~End(r)
  <2>1. PICK requester \in Ids, email \in Emails, role \in Roles :
          Invite(r, requester, email, role)
    BY <1>4 DEF InviteStep, CommitInvite
  <2>2. PICK id, new, row :
          Begin(r, [op |-> "invite", id |-> id, isNew |-> new, row |-> row])
    BY <2>1 DEF Invite
  <2> QED  BY <2>2, BeginsForeign DEF DeskOps
<1>5. CASE DriverStep(r) /\ ~End(r)
  <2>1. ASSUME NEW workspace, NEW email, NEW active,
               CreateDriver(r, workspace, email, active)
        PROVE  Foreign(r)
    BY <2>1, BeginsForeign DEF CreateDriver, DeskOps
  <2>2. ASSUME NEW d, NEW changes,
               Begin(r, [op |-> "update_driver", profile |-> d, changes |-> changes])
        PROVE  Foreign(r)
    BY <2>2, BeginsForeign DEF DeskOps
  <2> QED  BY <1>5, <2>1, <2>2
           DEF DriverStep, UpdateDriver, ReactivateDriver, CommitDriver
<1>6. ASSUME NEW id, NEW changes, NEW op \in {"password", "mfa"},
             BeginChange(r, op, id, changes)
      PROVE  Foreign(r)
  BY <1>6, BeginsForeign DEF BeginChange, DeskOps
<1>7. CASE PasswordStep(r)
  BY <1>6, <1>7 DEF PasswordStep, Activate, ResetPassword, ChangePassword, Password
<1>8. CASE MfaStep(r)
  BY <1>6, <1>8 DEF MfaStep, SetupMfa, EnableMfa, DisableMfa, SecondFactor
<1>9. CASE StaffStep(r)
  <2>1. PICK requester, id \in Ids : Unsaved(r, requester, id)
    BY <1>9 DEF StaffStep, CreateStaff, SetRole, SetActive, RemoveStaff
  <2> QED  BY <2>1, BeginsForeign DEF Unsaved, DeskOps
<1>10. CommitChange(r) \/ Abandon(r) => End(r)
  BY DEF CommitChange, Abandon
<1> QED  BY <1>1, <1>2, <1>3, <1>4, <1>5, <1>7, <1>8, <1>9, <1>10

DeskStepNext == DeskNext \/ (AccountsNext /\ UNCHANGED deskVars)

LEMMA DeskNextKeeps ==
    ASSUME DeskInv, [DeskStepNext]_<<accountsVars, deskVars>>
    PROVE  DeskInv'
<1>1. CASE UNCHANGED <<accountsVars, deskVars>>
  <2>1. AccountsInv'
    BY <1>1, AccountsNextKeeps DEF DeskInv
  <2>2. ASSUME NEW q \in Clients PROVE RequestOK(client[q])'
    <3>1. RequestOK(client[q]) /\ client'[q] = client[q] /\ desk' = desk
      BY <1>1 DEF DeskInv, DeskSound, accountsVars, deskVars
    <3> QED  BY <3>1, RequestsKeep
  <2> QED  BY <1>1, <2>1, <2>2 DEF DeskInv, DeskSound, Exists, deskVars
<1>2. CASE AccountsNext /\ UNCHANGED deskVars
  <2>1. AccountsInv'
    BY <1>2, AccountsNextKeeps DEF DeskInv
  <2>2. PICK r \in Clients : \E record :
          client' = [client EXCEPT ![r] = record] /\ record.op \notin DeskOps
    BY <1>2, AccountsRequests DEF Foreign
  <2>3. PICK record : /\ record.op \notin DeskOps
                      /\ client' = [q \in Clients |->
                                       IF q = r THEN record ELSE client[q]]
    BY <2>2 DEF DeskInv, AccountsInv, RowsSound
  <2>4. ASSUME NEW q \in Clients PROVE RequestOK(client[q])'
    <3>1. CASE q = r
      BY <2>3, <3>1 DEF RequestOK, DeskOps
    <3>2. CASE q # r
      <4>1. RequestOK(client[q]) /\ client'[q] = client[q] /\ desk' = desk
        BY <1>2, <2>3, <3>2 DEF DeskInv, DeskSound, deskVars
      <4> QED  BY <4>1, RequestsKeep
    <3> QED  BY <3>1, <3>2
  <2> QED  BY <1>2, <2>1, <2>4 DEF DeskInv, DeskSound, Exists, deskVars
<1>3. CASE DeskNext
  <2>1. PICK r \in Clients :
          \/ DeskStep(r) \/ CommitInsert(r) \/ CommitUpdate(r)
          \/ Abandon(r) /\ UNCHANGED deskVars
    BY <1>3 DEF DeskNext, DeskStep
  <2>2. CASE Abandon(r) /\ UNCHANGED deskVars
    <3>1. RequestOK(Idle)
      BY DEF RequestOK, Idle
    <3> QED  BY <2>2, <3>1, IdleOK, DeskBegins DEF Abandon, End, deskVars
  <2>3. CASE DeskStep(r)
    BY <2>3, SupportKeeps, OnboardingKeeps, CustomerKeeps, BrokerKeeps,
       FactoringKeeps, CarrierKeeps, AccountingKeeps, LeadKeeps DEF DeskStep
  <2> QED  BY <2>1, <2>2, <2>3, CommitInsertKeeps, CommitUpdateKeeps
<1> QED  BY <1>1, <1>2, <1>3 DEF DeskStepNext

\* What one step may change of the rows.
KeepsOthers ==
    \A r \in Clients :
       client[r].op = "update" /\ client'[r] = Idle =>
           \A row \in {row \in Rows : desk'[row] # desk[row]} :
               /\ row = client[r].row
               /\ \A c \in DOMAIN desk[row] :
                    desk'[row][c] # desk[row][c] =>
                        \/ c \in client[r].given
                        \/ Unasked(row, c, desk'[row][c])

\* The steps that do not commit leave the rows alone.
LEMMA StepsKeepRows ==
    ASSUME NEW r \in Clients, DeskStep(r)
    PROVE  UNCHANGED desk
<1>1. ASSUME NEW rows, NEW new, Insert(r, rows, new) PROVE UNCHANGED desk
  BY <1>1 DEF Insert, deskVars
<1>2. ASSUME NEW row, NEW new, NEW given, Update(r, row, new, given)
      PROVE  UNCHANGED desk
  BY <1>2 DEF Update, deskVars
<1>3. ASSUME NEW row, NEW asked, Patch(r, row, asked) PROVE UNCHANGED desk
  BY <1>2, <1>3 DEF Patch
<1>4. CASE SupportStep(r)
  BY <1>1, <1>2, <1>4 DEF SupportStep, CreateTicket, UpdateTicket
<1>5. CASE OnboardingStep(r)
  BY <1>1, <1>2, <1>5 DEF OnboardingStep, InitializeChecklist, UpsertChecklist
<1>6. CASE CustomerStep(r)
  BY <1>1, <1>2, <1>6 DEF CustomerStep, CreateCustomerAccount, UpdateCustomerAccount
<1>7. CASE BrokerStep(r)
  BY <1>1, <1>3, <1>7 DEF BrokerStep, CreateBroker, UpdateBroker
<1>8. CASE FactoringStep(r)
  BY <1>1, <1>3, <1>8 DEF FactoringStep, CreateCompany, UpdateCompany
<1>9. CASE CarrierStep(r)
  BY <1>3, <1>9 DEF CarrierStep, CreateCarrierProfile, UpdateCarrierProfile,
                    UpsertProfile, deskVars
<1>10. CASE AccountingStep(r)
  BY <1>3, <1>10 DEF AccountingStep, UpdateAccountingSettings
<1>11. CASE LeadStep(r)
  BY <1>1, <1>3, <1>11 DEF LeadStep, ReceiveLead, UpdatePipeline
<1> QED  BY <1>4, <1>5, <1>6, <1>7, <1>8, <1>9, <1>10, <1>11 DEF DeskStep

LEMMA StepKeepsOthers ==
    ASSUME DeskInv, [DeskStepNext]_<<accountsVars, deskVars>>
    PROVE  KeepsOthers
<1>1. CASE UNCHANGED desk
  BY <1>1 DEF KeepsOthers
<1>2. CASE desk' # desk
  <2>1. PICK q \in Clients : CommitInsert(q) \/ CommitUpdate(q)
    BY <1>2, StepsKeepRows DEF DeskStepNext, DeskNext, DeskStep, deskVars
  <2> SUFFICES ASSUME NEW r \in Clients, client[r].op = "update", client'[r] = Idle
               PROVE  \A row \in {row \in Rows : desk'[row] # desk[row]} :
                         /\ row = client[r].row
                         /\ \A c \in DOMAIN desk[row] :
                              desk'[row][c] # desk[row][c] =>
                                  \/ c \in client[r].given
                                  \/ Unasked(row, c, desk'[row][c])
    BY DEF KeepsOthers
  <2>2. Idle.op # "update"
    BY DEF Idle
  <2>3. ~CommitInsert(q)
    BY <2>2, Ended DEF CommitInsert, DeskInv
  <2>4. CommitUpdate(q) /\ RequestOK(client[r])
    BY <2>1, <2>3 DEF DeskInv, DeskSound
  <2>5. /\ desk' = [desk EXCEPT ![client[q].row] =
                       Overlay(desk[client[q].row], client[q].changes)]
        /\ client' = [p \in Clients |->
              IF p = q THEN Idle
              ELSE IF client[p].op = "update" /\ client[p].row = client[q].row
              THEN [client[p] EXCEPT !.stale = TRUE]
              ELSE client[p]]
    BY <1>2, <2>4 DEF CommitUpdate, deskVars
  <2>6. r = q
    <3>1. PICK row, given, stale, changes, absent :
            client[r] = [op |-> "update", row |-> row, given |-> given,
                         stale |-> stale, changes |-> changes, absent |-> absent]
      BY <2>4 DEF RequestOK
    <3>2. [client[r] EXCEPT !.stale = TRUE].op = "update"
      BY <3>1
    <3> QED  BY <2>2, <2>5, <3>2
  <2>7. /\ client[r].row \in Rows
        /\ MayWrite(client[r].row, client[r].given, client[r].changes)
    BY <2>4 DEF RequestOK
  <2>8. desk = [row \in Rows |-> desk[row]]
    BY DEF DeskInv, DeskSound
  <2> QED  BY <2>5, <2>6, <2>7, <2>8 DEF Overlay, MayWrite
<1> QED  BY <1>1, <1>2

-----------------------------------------------------------------------------
(* The theorems.                                                           *)

LEMMA DeskAlwaysSound == DeskSpec => []DeskInv
<1>1. DeskInv /\ [DeskStepNext]_<<accountsVars, deskVars>> => DeskInv'
  BY DeskNextKeeps
<1> QED  BY <1>1, DeskInvInitially, PTL DEF DeskSpec, DeskStepNext

LEMMA TypesOfSound == DeskSound => DeskTypeOK
<1> SUFFICES ASSUME DeskSound PROVE DeskTypeOK
  OBVIOUS
<1>1. \A row \in Rows : desk[row] \in RecordsOf(row) \/ desk[row] = Nothing
  BY DEF DeskSound, Exists
<1> QED  BY <1>1, TablesDisjoint DEF DeskSound, DeskTypeOK, Exists, Rows

\* Every row of the accounts and of the back office keeps its type, through all
\* requests that overlap.
THEOREM TypeCorrect == DeskSpec => [](AccountsTypeOK /\ DeskTypeOK)
<1>1. DeskInv => AccountsTypeOK /\ DeskTypeOK
  BY TypesOfSound DEF DeskInv, AccountsInv, RowsSound
<1> QED  BY <1>1, DeskAlwaysSound, PTL

\* A second factor that is asked for at the login was confirmed by a code, for
\* any accounts, secrets and requests in flight (setup_mfa, enable_mfa,
\* disable_mfa beside activations and changes of passwords).
THEOREM SecondFactorsAlwaysUsable == DeskSpec => []MfaUsable
<1>1. DeskInv => MfaUsable
  BY DEF DeskInv, AccountsInv, FactorsSound
<1> QED  BY <1>1, DeskAlwaysSound, PTL

\* A user who names the workspace is signed in there, whatever profiles were
\* created, updated and activated again meanwhile (authenticate_user_for_login).
THEOREM LoginsAlwaysFind == DeskSpec => []LoginFindsAccount
<1>1. DeskInv => LoginFindsAccount
  BY LoginsFind DEF DeskInv
<1> QED  BY <1>1, DeskAlwaysSound, PTL

\* What a ticket's and a checklist's columns say together stays true, except
\* after an update that was overtaken (update_ticket, upsert_checklist).
THEOREM RecordsAlwaysAgree == DeskSpec => []RecordsAgree
<1>1. DeskInv => RecordsAgree
  BY DEF DeskInv, DeskSound, RecordsAgree, Agrees, Rows
<1> QED  BY <1>1, DeskAlwaysSound, PTL

\* No commit changes a column that its client did not give, in any table,
\* except the dates that follow from other columns and the columns of customer
\* accounts and new carrier profiles that are emptied because they were left
\* out; so nothing else that another request wrote is undone.
THEOREM UpdatesAlwaysKeepOthers == DeskSpec => UpdatesKeepOthers
<1>1. DeskInv /\ [DeskStepNext]_<<accountsVars, deskVars>> => KeepsOthers
  BY StepKeepsOthers
<1>2. DeskSpec => [][KeepsOthers]_<<desk, client>>
  BY <1>1, DeskAlwaysSound, PTL DEF DeskSpec, DeskStepNext
<1> QED  BY <1>2 DEF UpdatesKeepOthers, KeepsOthers

=============================================================================
