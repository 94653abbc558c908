------------------------------ MODULE Accounts ------------------------------
(***************************************************************************)
(* Accounts, sessions and tokens of the panel (auth.rs, users.rs,          *)
(* tokens.rs), the gate every request passes (security.rs) and what the    *)
(* panel does about its two token files when it starts (main.rs).          *)
(*                                                                         *)
(* A request is handled in steps that end at its database calls and at     *)
(* its password hashes; other requests, a restart of the panel and the     *)
(* operator's `angie-panel reset-password` come in between.  Row ids are   *)
(* INTEGER PRIMARY KEYs without AUTOINCREMENT: the id of the newest row is *)
(* given out again after that row is deleted.                              *)
(***************************************************************************)
EXTENDS Integers, FiniteSets, Functions

CONSTANTS
    Requests,      \* requests the panel handles at a time
    Emails,
    SetupTokens,   \* values of the one-time set-up token
    Secrets,       \* values of the machine-local token of apctl
    MaxUsers,      \* bound on row ids of users
    MaxCreds,      \* bound on sessions and, separately, on API tokens
    Apart,         \* sets of one or two kinds of requests not handled at the same time
    ReadsFail      \* whether a look-up of credentials may fail (a busy database)

None == "none"
Expired == "expired"
Torn == "torn"     \* an empty file: created, and not written when the panel died
Roles == {"admin", "viewer"}
Kinds == {"setup", "login", "logout", "create", "role", "delete", "password",
          "mint", "revoke", "config"}
SelfService == {"setup", "login", "logout", "password", "mint", "revoke"}
Anonymous == {"setup", "login", "logout"}
Granting == {"login", "mint"}      \* leave a credential behind for an account they know
UserIds == 1..MaxUsers
CredIds == 1..MaxCreds
Creds == {<<t, i>> : t \in {"session", "token"}, i \in CredIds}
         \cup {<<"local", 0>>, <<None, 0>>}
Local == 0         \* the account of the machine-local token: none

ASSUME AccountsAssumption ==
    /\ MaxUsers \in Nat \ {0} /\ MaxCreds \in Nat \ {0}
    /\ \A two \in Apart : two \subseteq Kinds
    /\ \A k \in Kinds : {"login", k} \in Apart => {"setup", k} \in Apart  \* a set-up ends as a login
    /\ ReadsFail \in BOOLEAN
    /\ {None, Torn, Expired} \cap (SetupTokens \cup Secrets) = {}

VARIABLES
    users,      \* table users: a partial function from ids to email and role
    sessions,   \* table sessions: a partial function to user ids
    tokens,     \* table api_tokens without the local one, likewise
    localRow,   \* secret of the is_local row of api_tokens, or None
    localFile,  \* data_dir/cli-token
    setupFile,  \* data_dir/setup-token; Expired when it is older than TOKEN_TTL
    lapses,     \* history: how that file lost its token with no start to replace it
    phase,      \* the panel: "down", starting, or "serving"
    reqs        \* requests in flight
vars == <<users, sessions, tokens, localRow, localFile, setupFile, lapses, phase,
          reqs>>
db == <<users, sessions, tokens, localRow>>
files == <<localFile, setupFile, lapses>>

Empty == [x \in {} |-> 0]
Idle == [kind |-> None, step |-> None, cred |-> <<None, 0>>, me |-> Local,
         id |-> Local, email |-> None, role |-> None, token |-> None,
         admin |-> FALSE, stale |-> FALSE]

(* --------------------------- what the rows say --------------------------- *)

Admins(u) == {i \in DOMAIN u : u[i].role = "admin"}

\* The account a credential stands for in the rows u, s, t; no such account: None.
Account(cred, s, t) ==
    CASE cred[1] = "session" /\ cred[2] \in DOMAIN s -> s[cred[2]]
      [] cred[1] = "token" /\ cred[2] \in DOMAIN t -> t[cred[2]]
      [] cred[1] = "local" /\ localRow # None -> Local
      [] OTHER -> -1

RoleIn(acct, u) ==
    CASE acct = Local -> "admin"
      [] acct \in DOMAIN u -> u[acct].role
      [] OTHER -> None

CallerRole(cred) == RoleIn(Account(cred, sessions, tokens), users)

\* SQLite's next row id of a table whose rows have the ids in S: one above the highest.
IsNextId(new, S) == (\A i \in S : i < new) /\ (new = 1 \/ new - 1 \in S)

\* The table with one more row.
Insert(table, id, row) ==
    [i \in DOMAIN table \cup {id} |-> IF i = id THEN row ELSE table[i]]

(* What the rows look like once the users in gone are deleted: ON DELETE   *)
(* CASCADE takes their sessions and tokens.                                *)
Keeps(table, gone) == table
Cascade(table, gone) == Restrict(table, {i \in DOMAIN table : table[i] \notin gone})

(***************************************************************************)
(* Requests in flight after rows changed.  A session id or a token secret  *)
(* is never given out twice, so a credential whose row went is no          *)
(* credential any more.  admin and stale are histories: the caller was an  *)
(* administrator at some moment of the request; the account for which a    *)
(* credential is on its way was deleted since the request read it.         *)
(***************************************************************************)
Live(cred, s, t) ==
    \/ cred[1] = "local"
    \/ cred[1] = "session" /\ cred[2] \in DOMAIN s
    \/ cred[1] = "token" /\ cred[2] \in DOMAIN t

Gated(q) == q.kind \notin SelfService

Seen(q, u, s, t) ==
    IF q = Idle THEN Idle
    ELSE [q EXCEPT !.cred = IF Live(@, s, t) THEN @ ELSE <<None, 0>>,
                   !.admin = @ \/ (Gated(q) /\ Live(q.cred, s, t)
                                   /\ RoleIn(Account(q.cred, s, t), u) = "admin")]

Holder(q) == IF q.kind = "login" THEN q.id ELSE q.me
Bereft(q, gone) == [q EXCEPT !.stale = @ \/ (q.kind \in Granting /\ Holder(q) \in gone)]

\* Request r becomes q, the tables become u, s and t, and the accounts in gone went.
Writes(r, q, gone, u, s, t) ==
    /\ users' = u /\ sessions' = s /\ tokens' = t
    /\ reqs' = [x \in Requests |-> Seen(Bereft(IF x = r THEN q ELSE reqs[x], gone), u, s, t)]

At(r, kinds, step) == phase = "serving" /\ reqs[r].kind \in kinds /\ reqs[r].step = step

\* A step that reads: only the request itself changes.
Becomes(r, q) == reqs' = [reqs EXCEPT ![r] = q] /\ UNCHANGED <<db, files, phase>>
GoesTo(r, step) == Becomes(r, [reqs[r] EXCEPT !.step = step])
Refused(r) == Becomes(r, Idle)

(* ------------------------- arrival and the gate -------------------------- *)

FirstStep(kind) == CASE kind \in Anonymous -> "read"
                     [] kind \in SelfService -> "auth"
                     [] OTHER -> "gate"

MayStart(kind) == \A x \in Requests : {kind, reqs[x].kind} \notin Apart

Arrive(r, kind, cred, id, email, role) ==
    /\ phase = "serving" /\ reqs[r] = Idle /\ MayStart(kind)
    /\ Becomes(r, [Idle EXCEPT !.kind = kind, !.step = FirstStep(kind), !.cred = cred,
                               !.id = id, !.email = email, !.role = role,
                               !.admin = kind \notin SelfService /\ CallerRole(cred) = "admin"])

\* Requests that differ only in what their kind does not look at are one.
Arrives(r) ==
    \/ \E e \in Emails, k \in {"setup", "login"} : Arrive(r, k, <<None, 0>>, Local, e, None)
    \/ \E c \in Creds :
        /\ CallerRole(c) # None
        /\ \/ \E k \in {"logout", "password", "mint", "config"} : Arrive(r, k, c, Local, None, None)
           \/ \E i \in UserIds : Arrive(r, "delete", c, i, None, None)
           \/ \E i \in CredIds : Arrive(r, "revoke", c, i, None, None)
           \/ \E i \in UserIds, v \in Roles : Arrive(r, "role", c, i, None, v)
           \/ \E e \in Emails, v \in Roles : Arrive(r, "create", c, Local, e, v)

(* The role gate of security_layer: a viewer is turned away.  A caller     *)
(* without valid credentials, and one whose look-up failed (`.ok()`), is   *)
(* let through, for the extractor of the handler to answer 401.            *)
GateMisses(r, role) ==
    /\ At(r, Kinds, "gate")
    /\ role = CallerRole(reqs[r].cred)
    /\ GoesTo(r, "auth")

GateSees(r, role) ==
    /\ At(r, Kinds, "gate")
    /\ role = CallerRole(reqs[r].cred) \/ (role = None /\ ReadsFail)
    /\ IF role = "viewer" THEN Refused(r) ELSE GoesTo(r, "auth")
Gate(r) == \E role \in Roles \cup {None} : GateSees(r, role)

AfterAuth(q, acct) ==
    [q EXCEPT !.cred = <<None, 0>>,
              !.me = IF q.kind \in {"password", "mint", "revoke"} THEN acct ELSE Local,
              !.step = IF q.kind \in {"mint", "config"} THEN "write" ELSE "read",
              !.role = IF q.kind = "revoke" THEN RoleIn(acct, users) ELSE @]

\* What the AuthUser extractor answers 401, and the handlers refuse at once:
\* require_session with require_user_id, and cannot_delete_self.
AskedAnyway(q, acct) == q.kind = "delete" /\ acct # Local /\ acct = q.id
Unauthorized(q, acct) ==
    \/ acct = -1
    \/ q.kind \in {"password", "mint"} /\ q.cred[1] # "session"
    \/ q.kind = "delete" /\ acct # Local /\ acct = q.id

Authenticate(r) ==
    /\ At(r, Kinds, "auth")
    /\ LET acct == Account(reqs[r].cred, sessions, tokens) IN
       IF Unauthorized(reqs[r], acct) THEN Refused(r) ELSE Becomes(r, AfterAuth(reqs[r], acct))

(* ------------------------- reads of the handlers ------------------------- *)

SetupReadsToken(r) ==
    /\ At(r, {"setup"}, "read") /\ setupFile \notin {None, Expired}
    /\ Becomes(r, [reqs[r] EXCEPT !.step = "write", !.token = setupFile])

LoginReadsUser(r) ==
    /\ At(r, {"login"}, "read")
    /\ \E i \in DOMAIN users \cup {Local} :
        /\ IF i = Local THEN \A j \in DOMAIN users : users[j].email # reqs[r].email
                        ELSE users[i].email = reqs[r].email
        /\ Becomes(r, [reqs[r] EXCEPT !.step = "write", !.id = i])

CreateReadsEmail(r) ==
    /\ At(r, {"create"}, "read")
    /\ IF \E i \in DOMAIN users : users[i].email = reqs[r].email
       THEN Refused(r) ELSE GoesTo(r, "write")

\* Whether the write would take an administrator away, so that the others are counted.
Demotes(q) == users[q.id].role = "admin" /\ q.kind = "role" /\ q.role # "admin"
RemovesAdmin(q) ==
    users[q.id].role = "admin" /\ (q.kind = "delete" \/ q.role # "admin")

ReadsTarget(r) ==
    /\ At(r, {"role", "delete"}, "read")
    /\ IF reqs[r].id \notin DOMAIN users THEN Refused(r)
       ELSE GoesTo(r, IF RemovesAdmin(reqs[r]) THEN "count" ELSE "write")

Miscounted == Cardinality(Admins(users)) < 1
LastAdmin == Cardinality(Admins(users)) <= 1

CountsAdmins(r) ==
    /\ At(r, {"role", "delete"}, "count")
    /\ IF LastAdmin THEN Refused(r) ELSE GoesTo(r, "write")

PasswordReadsHash(r) ==
    /\ At(r, {"password"}, "read")
    /\ IF reqs[r].me \in DOMAIN users THEN GoesTo(r, "write") ELSE Refused(r)

RevokeReadsToken(r) ==
    /\ At(r, {"revoke"}, "read")
    /\ LET q == reqs[r] IN
       IF /\ q.id \in DOMAIN tokens
          /\ q.role = "admin" \/ tokens[q.id] = q.me
       THEN GoesTo(r, "write") ELSE Refused(r)

\* Between the read and the write of setup, login, create and password lies an Argon2
\* hash or two, which read and write nothing.  A wrong password ends the request there.
WrongPassword(r) == At(r, {"login", "password"}, "write") /\ Refused(r)

(* ------------------------- writes of the handlers ------------------------ *)

Ends(r, gone, u, s, t) ==
    /\ Writes(r, Idle, gone, u, s, t)
    /\ UNCHANGED <<localRow, files, phase>>
Done(r, u, s, t) == Ends(r, {}, u, s, t)

\* The transaction of setup: every account and session goes, one administrator comes.
SetupCommits(r) ==
    /\ At(r, {"setup"}, "write")
    /\ Writes(r, [reqs[r] EXCEPT !.step = "unlink"], DOMAIN users,
              Insert(Empty, 1, [email |-> reqs[r].email, role |-> "admin"]),
              Empty, Cascade(tokens, DOMAIN users))
    /\ UNCHANGED <<localRow, files, phase>>

\* `let _ = remove_file`: the removal may fail, and nobody is told.
SetupUnlinks(r) ==
    /\ At(r, {"setup"}, "unlink")
    /\ setupFile' \in {None, setupFile}
    /\ reqs' = [reqs EXCEPT ![r].step = "lookup", ![r].token = None]
    /\ UNCHANGED <<db, localFile, lapses, phase>>

SetupLooksUp(r) ==
    /\ At(r, {"setup"}, "lookup")
    /\ \/ /\ \A i \in DOMAIN users : users[i].email # reqs[r].email
          /\ Refused(r)
       \/ \E i \in DOMAIN users :
          /\ users[i].email = reqs[r].email
          /\ Becomes(r, [reqs[r] EXCEPT !.kind = "login", !.step = "write", !.id = i])

\* create_session; the foreign key refuses an account that is gone.
LoginWritesSession(r) ==
    /\ At(r, {"login"}, "write")
    /\ IF reqs[r].id \notin DOMAIN users THEN Refused(r)
       ELSE \E c \in CredIds \ DOMAIN sessions :
            Done(r, users, Insert(sessions, c, reqs[r].id), tokens)

LogsOut(r) ==
    /\ At(r, {"logout"}, "read")
    /\ IF reqs[r].cred[1] = "session"
       THEN Done(r, users, Restrict(sessions, DOMAIN sessions \ {reqs[r].cred[2]}), tokens)
       ELSE Refused(r)

\* insert_user; the UNIQUE email refuses a second account.
CreateWritesUser(r) ==
    /\ At(r, {"create"}, "write")
    /\ LET q == reqs[r] IN
       IF \E i \in DOMAIN users : users[i].email = q.email THEN Refused(r)
       ELSE \E new \in UserIds :
            /\ IsNextId(new, DOMAIN users)
            /\ Done(r, Insert(users, new, [email |-> q.email, role |-> q.role]), sessions, tokens)

RoleWrites(r) ==
    /\ At(r, {"role"}, "write")
    /\ LET q == reqs[r] IN
       IF q.id \notin DOMAIN users THEN Refused(r)
       ELSE Done(r, [users EXCEPT ![q.id].role = q.role], sessions, tokens)

DeletesUser(r) ==
    /\ At(r, {"delete"}, "write")
    /\ LET gone == {reqs[r].id} IN
       Ends(r, gone, Restrict(users, DOMAIN users \ gone),
            Cascade(sessions, gone), Cascade(tokens, gone))

\* The hash itself is no part of the state; config stands for the write of any other
\* handler behind the gate.
PasswordWrites(r) == At(r, {"password"}, "write") /\ Done(r, users, sessions, tokens)
ConfigWrites(r) == At(r, {"config"}, "write") /\ Done(r, users, sessions, tokens)

MintWrites(r) ==
    /\ At(r, {"mint"}, "write")
    /\ LET q == reqs[r] IN
       IF q.me \notin DOMAIN users THEN Refused(r)
       ELSE \E new \in CredIds :
            IsNextId(new, DOMAIN tokens) /\ Done(r, users, sessions, Insert(tokens, new, q.me))

RevokeWrites(r) ==
    /\ At(r, {"revoke"}, "write")
    /\ Done(r, users, sessions, Restrict(tokens, DOMAIN tokens \ {reqs[r].id}))

\* The client goes away: the handler is dropped where it waits.
Dropped(r) == phase = "serving" /\ reqs[r] # Idle /\ Refused(r)

(* --------------------- start, stop and the operator ---------------------- *)

\* Also a start that gives up: every step of it but the last ends in `?`.
Dies ==
    /\ phase # "down" /\ phase' = "down"
    /\ reqs' = [r \in Requests |-> Idle]
    /\ lapses' = IF phase = "writing setup token" THEN {Torn} ELSE lapses
    /\ UNCHANGED <<db, localFile, setupFile>>

Starts ==
    /\ phase = "down" /\ phase' = "setup token"
    /\ UNCHANGED <<db, files, reqs>>

NoSetupFile == DOMAIN users = {} /\ setupFile = None
NoSetupPath == DOMAIN users = {} /\ setupFile \in {None, Expired}

\* bootstrap_setup_token looks at the file of a panel without accounts, where an empty
\* one passes for a token; write_setup_token creates the file before it writes it.
BootSetupToken ==
    /\ phase = "setup token"
    /\ \/ ~NoSetupPath /\ phase' = "cli token" /\ UNCHANGED setupFile
       \/ NoSetupPath /\ setupFile' = Torn /\ phase' = "writing setup token"
    /\ lapses' = IF DOMAIN users = {} THEN lapses \ {Expired} ELSE lapses
    /\ UNCHANGED <<db, localFile, reqs>>

\* 256 random bits: none a request or the file has.
NewSetupToken == SetupTokens \ ({setupFile} \cup {reqs[r].token : r \in Requests})

WriteSetupToken ==
    /\ phase = "writing setup token" /\ phase' = "cli token"
    /\ setupFile' \in NewSetupToken /\ lapses' = {}
    /\ UNCHANGED <<db, localFile, reqs>>

\* bootstrap_cli_token: the file is kept if the database knows it.
LocalThere == localFile # None
LocalKnown == localFile # None /\ localFile = localRow

BootLocalToken ==
    /\ phase = "cli token"
    /\ IF LocalKnown
       THEN phase' = "serving" /\ UNCHANGED localRow
       ELSE localRow' \in Secrets \ {localRow, localFile} /\ phase' = "cli row"
    /\ UNCHANGED <<users, sessions, tokens, files, reqs>>

CreateLocalFile ==
    /\ phase = "cli row" /\ phase' = "cli file" /\ localFile' = Torn
    /\ UNCHANGED <<db, setupFile, lapses, reqs>>

WriteLocalFile ==
    /\ phase = "cli file" /\ phase' = "serving" /\ localFile' = localRow
    /\ UNCHANGED <<db, setupFile, lapses, reqs>>

\* The operator: `angie-panel reset-password`, and deleting cli-token to rotate it.
ResetPassword ==
    /\ phase # "writing setup token"
    /\ setupFile' \in NewSetupToken /\ lapses' = {}
    /\ UNCHANGED <<db, localFile, phase, reqs>>

DeletesLocalFile ==
    /\ phase = "down" /\ localFile # None /\ localFile' = None
    /\ UNCHANGED <<db, setupFile, lapses, phase, reqs>>

TokenExpires ==
    /\ phase # "writing setup token"
    /\ setupFile \notin {None, Expired} /\ setupFile' = Expired /\ lapses' = {Expired}
    /\ UNCHANGED <<db, localFile, phase, reqs>>

CredentialExpires ==
    \/ \E c \in DOMAIN sessions :
        Done(None, users, Restrict(sessions, DOMAIN sessions \ {c}), tokens)
    \/ \E c \in DOMAIN tokens :
        Done(None, users, sessions, Restrict(tokens, DOMAIN tokens \ {c}))

(* ---------------------------- specification ------------------------------ *)

Init ==
    /\ users = Empty /\ sessions = Empty /\ tokens = Empty
    /\ localRow = None /\ localFile = None /\ setupFile = None /\ lapses = {}
    /\ phase = "down"
    /\ reqs = [r \in Requests |-> Idle]

Handles(r) ==
    \/ Gate(r) \/ Authenticate(r) \/ WrongPassword(r)
    \/ SetupReadsToken(r) \/ SetupCommits(r) \/ SetupUnlinks(r) \/ SetupLooksUp(r)
    \/ LoginReadsUser(r) \/ LoginWritesSession(r) \/ LogsOut(r)
    \/ CreateReadsEmail(r) \/ CreateWritesUser(r)
    \/ ReadsTarget(r) \/ CountsAdmins(r) \/ RoleWrites(r) \/ DeletesUser(r)
    \/ PasswordReadsHash(r) \/ PasswordWrites(r) \/ ConfigWrites(r)
    \/ MintWrites(r) \/ RevokeReadsToken(r) \/ RevokeWrites(r)

Panel ==
    \/ Dies \/ Starts \/ BootSetupToken \/ WriteSetupToken
    \/ BootLocalToken \/ CreateLocalFile \/ WriteLocalFile

Operator == ResetPassword \/ DeletesLocalFile \/ TokenExpires \/ CredentialExpires

Next == Panel \/ Operator \/ \E r \in Requests : Arrives(r) \/ Handles(r) \/ Dropped(r)

Spec == Init /\ [][Next]_vars

(* ------------------------------ properties ------------------------------- *)

Steps == {None, "gate", "auth", "read", "count", "write", "unlink", "lookup"}
Request == [kind: Kinds \cup {None}, step: Steps, cred: Creds, me: Nat, id: Nat,
            email: Emails \cup {None}, role: Roles \cup {None},
            token: SetupTokens \cup {None, Torn}, admin: BOOLEAN, stale: BOOLEAN]

\* Every table maps row ids to rows, and a request is either idle or has a step.
TypeOK ==
    /\ DOMAIN users \subseteq UserIds
    /\ \A i \in DOMAIN users : users[i] \in [email: Emails, role: Roles]
    /\ DOMAIN sessions \subseteq CredIds /\ DOMAIN tokens \subseteq CredIds
    /\ localRow \in Secrets \cup {None} /\ localFile \in Secrets \cup {None, Torn}
    /\ setupFile \in SetupTokens \cup {None, Torn, Expired}
    /\ lapses \subseteq {Torn, Expired}
    /\ reqs \in [Requests -> Request]
    /\ \A r \in Requests : reqs[r] # Idle => phase = "serving"

\* "never delete or demote the last admin (would lock everyone out)" (users.rs:6):
\* no step of any handler takes the last administrator away.
AdminRemains == [][Admins(users) # {} => Admins(users') # {}]_vars

\* "make sure a setup path exists when there is no admin" (auth.rs:171): whoever finds
\* a panel that serves without accounts finds a file with a token to create one with -
\* unless that token expired and no start without accounts has come since, or a start
\* died before it wrote the file, which every later one takes for a token.
SetupPathExists ==
    phase = "serving" /\ DOMAIN users = {} => setupFile \in SetupTokens \cup lapses

\* "Ensure the machine-local apctl token exists and matches the DB" (auth.rs:197):
\* whatever died while it was issued, apctl can talk to a panel that serves.
LocalTokenMatches == phase = "serving" => localFile = localRow /\ localRow # None

\* A session or a token ends with its account: no handler that was on its way leaves
\* one behind that belongs to nobody, and none writes one for the account it read once
\* that account went.  If accounts may come while such a handler is on its way, one does:
\* create_session and the mint insert by id, which the next account may have by then.
Rooted == \A table \in {sessions, tokens} : \A c \in DOMAIN table : table[c] \in DOMAIN users
Forgone == DOMAIN sessions' \subseteq DOMAIN sessions /\ DOMAIN tokens' \subseteq DOMAIN tokens
NoOrphans ==
    [][/\ Rooted'
       /\ \A r \in Requests : reqs[r].stale /\ reqs'[r] = Idle => Forgone]_vars

\* "a viewer can never mutate config even if a handler forgets to check"
\* (security.rs:119): a request behind the gate that got to its handler was, at
\* some moment since it arrived, an administrator's.
OnlyAdminsMutate ==
    \A r \in Requests :
        reqs[r].kind \in Kinds \ SelfService /\ reqs[r].step \notin {"gate", "auth"} => reqs[r].admin
=============================================================================
