--------------------------- MODULE Accounts_proofs ----------------------------
(***************************************************************************)
(* Accounts, for any number of requests, users and credentials.  Types     *)
(* hold whatever overlaps.  If set-up, changes of roles and deletions of   *)
(* users are handled one at a time, an administrator remains; if no        *)
(* account comes, by set-up or otherwise, while a session or a token is on *)
(* its way, none outlives the account it is for.                           *)
(***************************************************************************)
EXTENDS Accounts, FiniteSetTheorems, TLAPS

UsersOK(u) ==
    /\ DOMAIN u \subseteq UserIds
    /\ \A i \in DOMAIN u : u[i] \in [email: Emails, role: Roles]

\* A table of credentials: ids of its own, mapped to accounts that are there.
TableOK(c, u) == DOMAIN c \subseteq CredIds /\ \A i \in DOMAIN c : c[i] \in DOMAIN u

\* What the kind of a request says it holds.
Filled(q) ==
    /\ q.kind \in {"setup", "create"} => q.email \in Emails
    /\ q.kind \in {"create", "role"} => q.role \in Roles

Typed == TypeOK /\ Rooted /\ \A r \in Requests : Filled(reqs[r])

LEMMA TypedParts ==
  Typed <=> /\ UsersOK(users) /\ TableOK(sessions, users) /\ TableOK(tokens, users)
            /\ localRow \in Secrets \cup {None} /\ localFile \in Secrets \cup {None, Torn}
            /\ setupFile \in SetupTokens \cup {None, Torn, Expired}
            /\ lapses \subseteq {Torn, Expired}
            /\ reqs \in [Requests -> Request] /\ \A r \in Requests : Filled(reqs[r])
            /\ \A r \in Requests : reqs[r] # Idle => phase = "serving"
BY DEF Typed, TypeOK, Rooted, UsersOK, TableOK, Filled

LEMMA TypedPartsNext ==
  Typed' <=> /\ UsersOK(users') /\ TableOK(sessions', users') /\ TableOK(tokens', users')
             /\ localRow' \in Secrets \cup {None} /\ localFile' \in Secrets \cup {None, Torn}
             /\ setupFile' \in SetupTokens \cup {None, Torn, Expired}
             /\ lapses' \subseteq {Torn, Expired}
             /\ reqs' \in [Requests -> Request] /\ \A r \in Requests : Filled(reqs'[r])
             /\ \A r \in Requests : reqs'[r] # Idle => phase' = "serving"
BY DEF Typed, TypeOK, Rooted, UsersOK, TableOK, Filled

LEMMA NoCred == <<None, 0>> \in Creds
BY DEF Creds

LEMMA IdleIsRequest ==
  Idle \in Request /\ Idle.kind = None /\ Idle.step = None /\ ~Idle.stale /\ Filled(Idle)
<1>1. None \in Steps /\ Local \in Nat
  BY DEF Steps, Local
<1>2. Idle.kind = None /\ Idle.step = None /\ ~Idle.stale
  BY Zenon DEF Idle
<1>3. ASSUME NEW c \in Creds, NEW n,
             n = [kind |-> None, step |-> None, cred |-> c, me |-> Local,
                  id |-> Local, email |-> None, role |-> None, token |-> None,
                  admin |-> FALSE, stale |-> FALSE]
      PROVE  n \in Request
  BY <1>1, <1>3 DEF Request
<1>4. Filled(Idle)
  BY <1>2 DEF Filled, None
<1> QED BY <1>2, <1>3, <1>4, NoCred DEF Idle

\* Seen changes the credential and the history only.
LEMMA SeenKeeps ==
  ASSUME NEW q \in Request, NEW u, NEW s, NEW t
  PROVE  /\ Seen(q, u, s, t) \in Request
         /\ Seen(q, u, s, t).kind = q.kind /\ Seen(q, u, s, t).step = q.step
         /\ Seen(q, u, s, t).id = q.id /\ Seen(q, u, s, t).role = q.role
         /\ Seen(q, u, s, t).email = q.email /\ Seen(q, u, s, t).me = q.me
         /\ Seen(q, u, s, t).stale = q.stale
         /\ q = Idle => Seen(q, u, s, t) = Idle
         /\ Filled(q) => Filled(Seen(q, u, s, t))
<1>1. ASSUME NEW c \in Creds, NEW a \in BOOLEAN, NEW n,
             n = [q EXCEPT !.cred = c, !.admin = a]
      PROVE  /\ n \in Request /\ n.kind = q.kind /\ n.step = q.step
             /\ n.id = q.id /\ n.role = q.role /\ n.email = q.email /\ n.me = q.me
             /\ n.stale = q.stale
  BY <1>1 DEF Request
<1>2. CASE q = Idle
  BY <1>2, IdleIsRequest, Zenon DEF Seen
<1>3. CASE q # Idle
  <2> DEFINE c == IF Live(q.cred, s, t) THEN q.cred ELSE <<None, 0>>
             a == q.admin \/ (Gated(q) /\ Live(q.cred, s, t)
                              /\ RoleIn(Account(q.cred, s, t), u) = "admin")
  <2>1. Seen(q, u, s, t) = [q EXCEPT !.cred = c, !.admin = a]
    BY <1>3, Zenon DEF Seen
  <2>2. c \in Creds
    BY NoCred DEF Request
  <2>3. a \in BOOLEAN
    <3>1. q.admin \in BOOLEAN
      BY DEF Request
    <3> QED BY <3>1, Zenon
  <2> HIDE DEF c, a
  <2>4. /\ Seen(q, u, s, t) \in Request
        /\ Seen(q, u, s, t).kind = q.kind /\ Seen(q, u, s, t).step = q.step
        /\ Seen(q, u, s, t).id = q.id /\ Seen(q, u, s, t).role = q.role
        /\ Seen(q, u, s, t).email = q.email /\ Seen(q, u, s, t).me = q.me
        /\ Seen(q, u, s, t).stale = q.stale
    BY <1>1, <2>1, <2>2, <2>3, ZenonT(60)
  <2>5. Filled(q) => Filled(Seen(q, u, s, t))
    BY <2>4 DEF Filled
  <2> QED BY <1>3, <2>4, <2>5
<1> QED BY <1>2, <1>3

\* Bereft changes the other history only.
LEMMA BereftKeeps ==
  ASSUME NEW q \in Request, NEW gone
  PROVE  /\ Bereft(q, gone) \in Request
         /\ Bereft(q, gone).kind = q.kind /\ Bereft(q, gone).step = q.step
         /\ Bereft(q, gone).id = q.id /\ Bereft(q, gone).role = q.role
         /\ Bereft(q, gone).email = q.email /\ Bereft(q, gone).me = q.me
         /\ Bereft(q, gone).cred = q.cred /\ Bereft(q, gone).admin = q.admin
         /\ q = Idle => Bereft(q, gone) = Idle
         /\ Filled(q) => Filled(Bereft(q, gone))
         /\ Bereft(q, gone).stale => q.stale \/ (q.kind \in Granting /\ Holder(q) \in gone)
<1> DEFINE lost == q.kind \in Granting /\ Holder(q) \in gone
<1>1. ASSUME NEW b \in BOOLEAN, NEW n, n = [q EXCEPT !.stale = b]
      PROVE  /\ n \in Request /\ n.kind = q.kind /\ n.step = q.step
             /\ n.id = q.id /\ n.role = q.role /\ n.email = q.email /\ n.me = q.me
             /\ n.cred = q.cred /\ n.admin = q.admin /\ n.stale = b
  BY <1>1 DEF Request
<1>2. (q.stale \/ lost) \in BOOLEAN /\ q.stale \in BOOLEAN
  <2>1. q.stale \in BOOLEAN
    BY DEF Request
  <2> QED BY <2>1, Zenon
<1>3. Bereft(q, gone) = [q EXCEPT !.stale = (q.stale \/ lost)]
  BY Zenon DEF Bereft
<1> DEFINE b == q.stale \/ lost
<1>4. b => q.stale \/ lost
  OBVIOUS
<1>5. ~lost => b = q.stale
  BY <1>2
<1>6. q = Idle => Bereft(q, gone) = Idle
  <2> SUFFICES ASSUME q = Idle PROVE Bereft(q, gone) = Idle
    OBVIOUS
  <2>1. ~lost
    BY IdleIsRequest DEF Granting, None
  <2>2. [q EXCEPT !.stale = q.stale] = q
    BY DEF Request
  <2> HIDE DEF lost
  <2> QED BY <1>3, <1>5, <2>1, <2>2, Zenon
<1> HIDE DEF lost
<1>7. /\ Bereft(q, gone) \in Request
      /\ Bereft(q, gone).kind = q.kind /\ Bereft(q, gone).step = q.step
      /\ Bereft(q, gone).id = q.id /\ Bereft(q, gone).role = q.role
      /\ Bereft(q, gone).email = q.email /\ Bereft(q, gone).me = q.me
      /\ Bereft(q, gone).cred = q.cred /\ Bereft(q, gone).admin = q.admin
      /\ Bereft(q, gone).stale = b
  BY <1>1, <1>2, <1>3, ZenonT(60)
<1>8. Filled(q) => Filled(Bereft(q, gone))
  BY <1>7 DEF Filled
<1> HIDE DEF b
<1> QED BY <1>4, <1>6, <1>7, <1>8 DEF b, lost

(* ------------------------------- framing --------------------------------- *)

\* A step that reads.
LEMMA ReadKeeps ==
  ASSUME Typed, NEW r \in Requests, NEW q \in Request, Filled(q), Becomes(r, q),
         phase = "serving" \/ q = Idle
  PROVE  Typed'
BY TypedParts, TypedPartsNext DEF Becomes, db, files

LEMMA RefusedKeeps ==
  ASSUME Typed, NEW r \in Requests, Refused(r)
  PROVE  Typed'
BY ReadKeeps, IdleIsRequest DEF Refused

LEMMA GoesKeeps ==
  ASSUME Typed, NEW r \in Requests, NEW step \in Steps, GoesTo(r, step), phase = "serving"
  PROVE  Typed'
<1>1. /\ [reqs[r] EXCEPT !.step = step] \in Request
      /\ Filled([reqs[r] EXCEPT !.step = step])
  BY TypedParts DEF Request, Filled
<1> QED BY <1>1, ReadKeeps DEF GoesTo

\* A step that writes.
LEMMA WritesKeep ==
  ASSUME Typed, NEW r, NEW q \in Request, Filled(q), q = Idle \/ phase = "serving",
         NEW gone, NEW u, NEW s, NEW t, UsersOK(u), TableOK(s, u), TableOK(t, u),
         Writes(r, q, gone, u, s, t), UNCHANGED <<localRow, files, phase>>
  PROVE  Typed'
<1>1. ASSUME NEW x \in Requests
      PROVE  /\ reqs'[x] \in Request /\ Filled(reqs'[x])
             /\ (reqs'[x] # Idle => phase' = "serving")
  <2> DEFINE n == IF x = r THEN q ELSE reqs[x]
  <2>1. n \in Request /\ Filled(n) /\ (n # Idle => phase = "serving")
    BY TypedParts
  <2>2. reqs'[x] = Seen(Bereft(n, gone), u, s, t) /\ phase' = phase
    BY DEF Writes
  <2> HIDE DEF n
  <2>3. /\ Bereft(n, gone) \in Request /\ Filled(Bereft(n, gone))
        /\ Bereft(n, gone) # Idle => phase = "serving"
    BY <2>1, BereftKeeps
  <2> QED BY <2>2, <2>3, SeenKeeps
<1>2. users' = u /\ sessions' = s /\ tokens' = t
      /\ UNCHANGED <<localRow, localFile, setupFile, lapses>>
  BY DEF Writes, files
<1>3. reqs' \in [Requests -> Request]
  BY <1>1, Zenon DEF Writes
<1> QED BY <1>1, <1>2, <1>3, TypedParts, TypedPartsNext

LEMMA EndsKeeps ==
  ASSUME Typed, NEW r, NEW gone, NEW u, NEW s, NEW t,
         UsersOK(u), TableOK(s, u), TableOK(t, u), Ends(r, gone, u, s, t)
  PROVE  Typed'
BY WritesKeep, IdleIsRequest DEF Ends

LEMMA DoneKeeps ==
  ASSUME Typed, NEW r, NEW u, NEW s, NEW t,
         UsersOK(u), TableOK(s, u), TableOK(t, u), Done(r, u, s, t)
  PROVE  Typed'
BY EndsKeeps DEF Done

\* Deleting rows, and adding one, keeps a table of credentials.
LEMMA FewerCreds ==
  ASSUME NEW c, NEW u, TableOK(c, u), NEW S
  PROVE  TableOK(Restrict(c, S \cap DOMAIN c), u) /\ TableOK(Restrict(c, DOMAIN c \ S), u)
BY DEF TableOK, Restrict

LEMMA OneMoreCred ==
  ASSUME NEW c, NEW u, TableOK(c, u), NEW i \in CredIds, NEW a \in DOMAIN u
  PROVE  TableOK(Insert(c, i, a), u)
BY DEF TableOK, Insert

LEMMA OneMoreUser ==
  ASSUME NEW u, UsersOK(u), NEW i \in UserIds, NEW row \in [email: Emails, role: Roles],
         NEW c, TableOK(c, u)
  PROVE  /\ UsersOK(Insert(u, i, row)) /\ TableOK(c, Insert(u, i, row))
         /\ i \in DOMAIN (Insert(u, i, row))
         /\ \A j \in DOMAIN u \ {i} : j \in DOMAIN (Insert(u, i, row)) /\ Insert(u, i, row)[j] = u[j]
BY DEF UsersOK, TableOK, Insert

(* ----------------------- types, action by action ------------------------- *)

LEMMA CreateTyped ==
  ASSUME Typed, NEW r \in Requests, CreateWritesUser(r)
  PROVE  Typed'
<1> DEFINE q == reqs[r]
           row == [email |-> q.email, role |-> q.role]
<1>1. CASE Refused(r)
  BY <1>1, RefusedKeeps
<1>2. CASE \E new \in UserIds : Done(r, Insert(users, new, row), sessions, tokens)
  <2>1. PICK new \in UserIds : Done(r, Insert(users, new, row), sessions, tokens)
    BY <1>2
  <2>2. row \in [email: Emails, role: Roles]
    BY TypedParts DEF CreateWritesUser, At, Filled
  <2> HIDE DEF row
  <2>3. /\ UsersOK(Insert(users, new, row))
        /\ TableOK(sessions, Insert(users, new, row))
        /\ TableOK(tokens, Insert(users, new, row))
    BY <2>2, OneMoreUser, TypedParts
  <2> QED BY <2>1, <2>3, DoneKeeps
<1> QED BY <1>1, <1>2 DEF CreateWritesUser

LEMMA SetupTyped ==
  ASSUME Typed, NEW r \in Requests, SetupCommits(r)
  PROVE  Typed'
<1> DEFINE q == [reqs[r] EXCEPT !.step = "unlink"]
           u == Insert(Empty, 1, [email |-> reqs[r].email, role |-> "admin"])
           t == Cascade(tokens, DOMAIN users)
<1>1. reqs[r].email \in Emails /\ reqs[r] \in Request /\ Filled(reqs[r]) /\ phase = "serving"
  BY TypedParts DEF SetupCommits, At, Filled
<1>2. q \in Request /\ Filled(q)
  BY <1>1 DEF Request, Filled, Steps
<1>3. UsersOK(u)
  <2>1. [email |-> reqs[r].email, role |-> "admin"] \in [email: Emails, role: Roles]
    BY <1>1 DEF Roles
  <2>2. 1 \in UserIds
    BY AccountsAssumption DEF UserIds
  <2>3. UsersOK(Empty)
    BY DEF UsersOK, Empty
  <2> QED BY <2>1, <2>2, <2>3 DEF UsersOK, Insert
<1>4. TableOK(Empty, u)
  BY DEF TableOK, Empty
<1>5. TableOK(t, u)
  BY TypedParts DEF TableOK, Cascade, Restrict
<1>6. Writes(r, q, DOMAIN users, u, Empty, t) /\ UNCHANGED <<localRow, files, phase>>
  BY DEF SetupCommits
<1> HIDE DEF q, u, t
<1> QED BY <1>1, <1>2, <1>3, <1>4, <1>5, <1>6, WritesKeep

LEMMA DeleteTyped ==
  ASSUME Typed, NEW r \in Requests, DeletesUser(r)
  PROVE  Typed'
<1> DEFINE gone == {reqs[r].id}
           u == Restrict(users, DOMAIN users \ gone)
<1>1. UsersOK(u)
  BY TypedParts DEF UsersOK, Restrict
<1>2. TableOK(Cascade(sessions, gone), u) /\ TableOK(Cascade(tokens, gone), u)
  BY TypedParts DEF TableOK, Cascade, Restrict
<1>3. Ends(r, gone, u, Cascade(sessions, gone), Cascade(tokens, gone))
  BY DEF DeletesUser
<1> HIDE DEF u, gone
<1> QED BY <1>1, <1>2, <1>3, EndsKeeps

LEMMA RoleTyped ==
  ASSUME Typed, NEW r \in Requests, RoleWrites(r)
  PROVE  Typed'
<1> DEFINE q == reqs[r]
           u == [users EXCEPT ![q.id].role = q.role]
<1>1. CASE Refused(r)
  BY <1>1, RefusedKeeps
<1>2. CASE Done(r, u, sessions, tokens)
  <2>1. q.role \in Roles
    BY TypedParts DEF RoleWrites, At, Filled
  <2>2. UsersOK(u) /\ TableOK(sessions, u) /\ TableOK(tokens, u)
    BY <2>1, TypedParts DEF UsersOK, TableOK
  <2> QED BY <1>2, <2>2, DoneKeeps
<1> QED BY <1>1, <1>2 DEF RoleWrites

LEMMA TokensTyped ==
  ASSUME Typed, NEW r \in Requests, MintWrites(r) \/ RevokeWrites(r)
  PROVE  Typed'
<1>1. CASE Refused(r)
  BY <1>1, RefusedKeeps
<1>2. ASSUME NEW new \in CredIds, reqs[r].me \in DOMAIN users,
             Done(r, users, sessions, Insert(tokens, new, reqs[r].me))
      PROVE  Typed'
  BY <1>2, OneMoreCred, DoneKeeps, TypedParts
<1>3. CASE Done(r, users, sessions, Restrict(tokens, DOMAIN tokens \ {reqs[r].id}))
  BY <1>3, FewerCreds, DoneKeeps, TypedParts
<1> QED BY <1>1, <1>2, <1>3 DEF MintWrites, RevokeWrites

LEMMA SessionsTyped ==
  ASSUME Typed, NEW r \in Requests, LoginWritesSession(r) \/ LogsOut(r)
  PROVE  Typed'
<1>1. CASE Refused(r)
  BY <1>1, RefusedKeeps
<1>2. ASSUME NEW c \in CredIds, reqs[r].id \in DOMAIN users,
             Done(r, users, Insert(sessions, c, reqs[r].id), tokens)
      PROVE  Typed'
  BY <1>2, OneMoreCred, DoneKeeps, TypedParts
<1>3. CASE Done(r, users, Restrict(sessions, DOMAIN sessions \ {reqs[r].cred[2]}), tokens)
  BY <1>3, FewerCreds, DoneKeeps, TypedParts
<1> QED BY <1>1, <1>2, <1>3 DEF LoginWritesSession, LogsOut

\* An account is a user, the operator's, or none, and its role goes with it.
LEMMA AccountKnown ==
  ASSUME Typed, NEW c \in Creds
  PROVE  /\ Account(c, sessions, tokens) \in DOMAIN users \cup {Local, -1}
         /\ \A a : RoleIn(a, users) \in Roles \cup {None}
<1>1. Account(c, sessions, tokens) \in DOMAIN users \cup {Local, -1}
  BY TypedParts DEF Account, TableOK
<1>2. ASSUME NEW a PROVE RoleIn(a, users) \in Roles \cup {None}
  BY TypedParts DEF RoleIn, UsersOK, Roles
<1> QED BY <1>1, <1>2

LEMMA UserIdsNat == ASSUME Typed PROVE DOMAIN users \subseteq Nat /\ Local \in Nat
BY TypedParts, AccountsAssumption DEF UsersOK, UserIds, Local

LEMMA ArrivesTyped ==
  ASSUME Typed, NEW r \in Requests, Arrives(r)
  PROVE  Typed'
<1>1. ASSUME NEW kind \in Kinds, NEW cred \in Creds, NEW id \in Nat,
             NEW email \in Emails \cup {None}, NEW role \in Roles \cup {None},
             kind \in {"setup", "create"} => email \in Emails,
             kind \in {"create", "role"} => role \in Roles,
             Arrive(r, kind, cred, id, email, role)
      PROVE  Typed'
  <2> DEFINE a == kind \notin SelfService /\ CallerRole(cred) = "admin"
             q == [Idle EXCEPT !.kind = kind, !.step = FirstStep(kind), !.cred = cred,
                               !.id = id, !.email = email, !.role = role, !.admin = a]
  <2>1. FirstStep(kind) \in Steps
    BY DEF FirstStep, Steps
  <2>2. a \in BOOLEAN
    BY Zenon
  <2>3. Becomes(r, q) /\ phase = "serving"
    BY <1>1, Zenon DEF Arrive
  <2> HIDE DEF a
  <2>4. q \in Request
    BY <2>1, <2>2, IdleIsRequest DEF Request
  <2>5. q.kind = kind /\ q.email = email /\ q.role = role
    BY IdleIsRequest DEF Request
  <2>6. Filled(q)
    BY <1>1, <2>5 DEF Filled
  <2> HIDE DEF q
  <2> QED BY <2>3, <2>4, <2>6, ReadKeeps
<1>2. <<None, 0>> \in Creds /\ Local \in Nat
  BY NoCred, UserIdsNat
<1>3. UserIds \subseteq Nat /\ CredIds \subseteq Nat
  BY AccountsAssumption DEF UserIds, CredIds
<1>4. ASSUME NEW e \in Emails, NEW k \in {"setup", "login"},
             Arrive(r, k, <<None, 0>>, Local, e, None)
      PROVE  Typed'
  BY <1>1, <1>2, <1>4 DEF Kinds
<1>5. ASSUME NEW c \in Creds, NEW k \in {"logout", "password", "mint", "config"},
             Arrive(r, k, c, Local, None, None)
      PROVE  Typed'
  BY <1>1, <1>2, <1>5 DEF Kinds
<1>6. ASSUME NEW c \in Creds, NEW i \in UserIds \cup CredIds, NEW k \in {"delete", "revoke"},
             Arrive(r, k, c, i, None, None)
      PROVE  Typed'
  BY <1>1, <1>3, <1>6 DEF Kinds
<1>7. ASSUME NEW c \in Creds, NEW i \in UserIds, NEW v \in Roles,
             Arrive(r, "role", c, i, None, v)
      PROVE  Typed'
  BY <1>1, <1>3, <1>7 DEF Kinds
<1>8. ASSUME NEW c \in Creds, NEW e \in Emails, NEW v \in Roles,
             Arrive(r, "create", c, Local, e, v)
      PROVE  Typed'
  BY <1>1, <1>2, <1>8 DEF Kinds
<1> QED BY <1>4, <1>5, <1>6, <1>7, <1>8 DEF Arrives

LEMMA AuthTyped ==
  ASSUME Typed, NEW r \in Requests, Gate(r) \/ Authenticate(r)
  PROVE  Typed'
<1>1. CASE Refused(r)
  BY <1>1, RefusedKeeps
<1>2. CASE phase = "serving" /\ GoesTo(r, "auth")
  BY <1>2, GoesKeeps DEF Steps
<1> DEFINE acct == Account(reqs[r].cred, sessions, tokens)
<1>3. ASSUME phase = "serving", acct # -1, Becomes(r, AfterAuth(reqs[r], acct))
      PROVE  Typed'
  <2>1. reqs[r] \in Request /\ Filled(reqs[r])
    BY TypedParts
  <2>2. acct \in Nat
    <3>1. reqs[r].cred \in Creds
      BY <2>1 DEF Request
    <3> QED BY <1>3, <3>1, AccountKnown, UserIdsNat
  <2>3. RoleIn(acct, users) \in Roles \cup {None}
    <3>1. reqs[r].cred \in Creds
      BY <2>1 DEF Request
    <3> QED BY <3>1, AccountKnown
  <2> HIDE DEF acct
  <2>4. AfterAuth(reqs[r], acct) \in Request
    BY <2>1, <2>2, <2>3, NoCred, UserIdsNat, ZenonT(60) DEF AfterAuth, Request, Steps
  <2>5. Filled(AfterAuth(reqs[r], acct))
    BY <2>1 DEF AfterAuth, Request, Filled
  <2> QED BY <1>3, <2>4, <2>5, ReadKeeps
<1> QED BY <1>1, <1>2, <1>3 DEF Gate, GateSees, Authenticate, Unauthorized, At

LEMMA ReadsTyped ==
  ASSUME Typed, NEW r \in Requests,
         \/ WrongPassword(r) \/ SetupReadsToken(r) \/ SetupLooksUp(r) \/ LoginReadsUser(r)
         \/ CreateReadsEmail(r) \/ ReadsTarget(r) \/ CountsAdmins(r)
         \/ PasswordReadsHash(r) \/ RevokeReadsToken(r) \/ Dropped(r)
  PROVE  Typed'
<1>1. CASE Refused(r)
  BY <1>1, RefusedKeeps
<1>2. ASSUME NEW step \in {"write", "count"}, phase = "serving", GoesTo(r, step)
      PROVE  Typed'
  BY <1>2, GoesKeeps DEF Steps
<1> DEFINE q == reqs[r]
<1>3. q \in Request /\ Filled(q)
  BY TypedParts
<1>4. CASE SetupReadsToken(r)
  <2>1. setupFile \in SetupTokens \cup {None, Torn}
    BY <1>4, TypedParts DEF SetupReadsToken
  <2>2. /\ [q EXCEPT !.step = "write", !.token = setupFile] \in Request
        /\ Filled([q EXCEPT !.step = "write", !.token = setupFile])
    BY <1>3, <2>1 DEF Request, Filled, Steps
  <2> QED BY <1>4, <2>2, ReadKeeps DEF SetupReadsToken, At
<1>5. ASSUME NEW i \in Nat, phase = "serving",
             Becomes(r, [q EXCEPT !.kind = "login", !.step = "write", !.id = i])
      PROVE  Typed'
  <2>1. /\ [q EXCEPT !.kind = "login", !.step = "write", !.id = i] \in Request
        /\ Filled([q EXCEPT !.kind = "login", !.step = "write", !.id = i])
    BY <1>3 DEF Request, Filled, Steps, Kinds
  <2> QED BY <1>5, <2>1, ReadKeeps
<1>6. ASSUME NEW i \in Nat, phase = "serving", Becomes(r, [q EXCEPT !.step = "write", !.id = i])
      PROVE  Typed'
  <2>1. /\ [q EXCEPT !.step = "write", !.id = i] \in Request
        /\ Filled([q EXCEPT !.step = "write", !.id = i])
    BY <1>3 DEF Request, Filled, Steps
  <2> QED BY <1>6, <2>1, ReadKeeps
<1>7. CASE SetupLooksUp(r) \/ LoginReadsUser(r)
  BY <1>1, <1>5, <1>6, <1>7, UserIdsNat DEF SetupLooksUp, LoginReadsUser, At
<1>8. CASE CreateReadsEmail(r) \/ ReadsTarget(r) \/ CountsAdmins(r)
  BY <1>1, <1>2, <1>8 DEF CreateReadsEmail, ReadsTarget, CountsAdmins, At
<1>9. CASE WrongPassword(r) \/ PasswordReadsHash(r) \/ RevokeReadsToken(r) \/ Dropped(r)
  BY <1>1, <1>2, <1>9 DEF WrongPassword, PasswordReadsHash, RevokeReadsToken, Dropped, At
<1> QED BY <1>4, <1>7, <1>8, <1>9

LEMMA UnlinkTyped ==
  ASSUME Typed, NEW r \in Requests, SetupUnlinks(r)
  PROVE  Typed'
<1> DEFINE q == [reqs[r] EXCEPT !.step = "lookup", !.token = None]
<1>1. q \in Request /\ Filled(q) /\ phase = "serving"
  BY TypedParts DEF Request, Filled, Steps, SetupUnlinks, At
<1>2. reqs' = [reqs EXCEPT ![r] = q]
  BY TypedParts DEF SetupUnlinks
<1> HIDE DEF q
<1> QED BY <1>1, <1>2, TypedParts, TypedPartsNext DEF SetupUnlinks, db

LEMMA OtherWritesTyped ==
  ASSUME Typed, NEW r \in Requests, PasswordWrites(r) \/ ConfigWrites(r)
  PROVE  Typed'
BY TypedParts, DoneKeeps DEF PasswordWrites, ConfigWrites

LEMMA ExpiryTyped == ASSUME Typed, CredentialExpires PROVE Typed'
<1>1. ASSUME NEW c, Done(None, users, Restrict(sessions, DOMAIN sessions \ {c}), tokens)
      PROVE  Typed'
  BY <1>1, FewerCreds, DoneKeeps, TypedParts
<1>2. ASSUME NEW c, Done(None, users, sessions, Restrict(tokens, DOMAIN tokens \ {c}))
      PROVE  Typed'
  BY <1>2, FewerCreds, DoneKeeps, TypedParts
<1> QED BY <1>1, <1>2 DEF CredentialExpires

LEMMA PanelTyped == ASSUME Typed, Panel PROVE Typed'
<1>1. NewSetupToken \subseteq SetupTokens
  BY DEF NewSetupToken
<1>2. CASE Dies
  BY <1>2, TypedParts, TypedPartsNext, IdleIsRequest DEF Dies, db, files
<1>3. CASE Starts \/ BootSetupToken \/ WriteSetupToken
  BY <1>1, <1>3, TypedParts, TypedPartsNext
  DEF Starts, BootSetupToken, WriteSetupToken, db, files
<1>4. CASE BootLocalToken \/ CreateLocalFile \/ WriteLocalFile
  <2>1. ASSUME NEW x \in Requests PROVE phase # "serving" /\ reqs[x] = Idle
    BY <1>4, TypedParts DEF BootLocalToken, CreateLocalFile, WriteLocalFile
  <2>2. localFile' \in Secrets \cup {None, Torn} /\ localRow' \in Secrets \cup {None}
    BY <1>4, TypedParts DEF BootLocalToken, CreateLocalFile, WriteLocalFile, db, files
  <2>3. UNCHANGED <<users, sessions, tokens, setupFile, lapses, reqs>>
    BY <1>4 DEF BootLocalToken, CreateLocalFile, WriteLocalFile, db, files
  <2> QED BY <2>1, <2>2, <2>3, TypedParts, TypedPartsNext
<1> QED BY <1>2, <1>3, <1>4 DEF Panel

LEMMA OperatorTyped == ASSUME Typed, Operator PROVE Typed'
<1>1. NewSetupToken \subseteq SetupTokens
  BY DEF NewSetupToken
<1>2. CASE ResetPassword \/ DeletesLocalFile \/ TokenExpires
  BY <1>1, <1>2, TypedParts, TypedPartsNext DEF ResetPassword, DeletesLocalFile, TokenExpires, db
<1> QED BY <1>2, ExpiryTyped DEF Operator

LEMMA HandlesTyped ==
  ASSUME Typed, NEW r \in Requests, Handles(r)
  PROVE  Typed'
BY AuthTyped, ReadsTyped, SetupTyped, UnlinkTyped, SessionsTyped, CreateTyped, RoleTyped,
   DeleteTyped, OtherWritesTyped, TokensTyped DEF Handles

LEMMA TypedInit == Init => Typed
<1> SUFFICES ASSUME Init PROVE Typed
  OBVIOUS
<1>1. UsersOK(Empty) /\ TableOK(Empty, Empty)
  BY DEF UsersOK, TableOK, Empty
<1>2. reqs \in [Requests -> Request] /\ \A r \in Requests : reqs[r] = Idle
  BY IdleIsRequest DEF Init
<1> QED BY <1>1, <1>2, TypedParts, IdleIsRequest DEF Init

LEMMA TypedStep == Typed /\ [Next]_vars => Typed'
<1> SUFFICES ASSUME Typed, [Next]_vars PROVE Typed'
  OBVIOUS
<1>1. CASE UNCHANGED vars
  BY <1>1, TypedParts, TypedPartsNext DEF vars
<1>2. ASSUME NEW r \in Requests, Arrives(r) \/ Handles(r) \/ Dropped(r) PROVE Typed'
  BY <1>2, ArrivesTyped, HandlesTyped, ReadsTyped
<1> QED BY <1>1, <1>2, PanelTyped, OperatorTyped DEF Next

\* Every table maps ids to rows and every request holds what its kind needs, whatever
\* overlaps and whatever dies.
THEOREM AccountsTyped == Spec => []TypeOK
<1>1. Typed => TypeOK
  BY DEF Typed
<1> QED BY <1>1, TypedInit, TypedStep, PTL DEF Spec

(* ----------------------- the token of the machine ------------------------ *)

LocalInv ==
    /\ Typed
    /\ LocalTokenMatches
    /\ phase \in {"cli row", "cli file"} => localRow # None

\* Only the start of the panel and the operator touch the token and the phase.
LEMMA RequestsFrame ==
  ASSUME NEW r \in Requests, Arrives(r) \/ Handles(r) \/ Dropped(r)
  PROVE  UNCHANGED <<localRow, localFile, phase>>
<1>1. ASSUME NEW q, Becomes(r, q) PROVE UNCHANGED <<localRow, localFile, phase>>
  BY <1>1 DEF Becomes, db, files
<1>2. ASSUME NEW step, GoesTo(r, step) PROVE UNCHANGED <<localRow, localFile, phase>>
  BY <1>1, <1>2 DEF GoesTo
<1>3. ASSUME Refused(r) PROVE UNCHANGED <<localRow, localFile, phase>>
  BY <1>1, <1>3 DEF Refused
<1>4. ASSUME NEW gone, NEW u, NEW s, NEW t, Ends(r, gone, u, s, t) \/ Done(r, u, s, t)
      PROVE  UNCHANGED <<localRow, localFile, phase>>
  BY <1>4 DEF Done, Ends, files
<1>5. CASE Arrives(r)
  BY <1>1, <1>5 DEF Arrives, Arrive
<1>6. CASE Dropped(r) \/ WrongPassword(r) \/ SetupReadsToken(r) \/ SetupLooksUp(r)
           \/ LoginReadsUser(r) \/ CreateReadsEmail(r)
  BY <1>1, <1>2, <1>3, <1>6
  DEF Dropped, WrongPassword, SetupReadsToken, SetupLooksUp, LoginReadsUser, CreateReadsEmail
<1>7. CASE Gate(r) \/ Authenticate(r) \/ ReadsTarget(r) \/ CountsAdmins(r)
           \/ PasswordReadsHash(r) \/ RevokeReadsToken(r)
  BY <1>1, <1>2, <1>3, <1>7
  DEF Gate, GateSees, Authenticate, ReadsTarget, CountsAdmins, PasswordReadsHash, RevokeReadsToken
<1>8. CASE SetupCommits(r) \/ SetupUnlinks(r)
  BY <1>8 DEF SetupCommits, SetupUnlinks, files, db
<1>9. CASE LoginWritesSession(r) \/ LogsOut(r) \/ CreateWritesUser(r) \/ RoleWrites(r)
  BY <1>3, <1>4, <1>9 DEF LoginWritesSession, LogsOut, CreateWritesUser, RoleWrites
<1>10. CASE DeletesUser(r) \/ PasswordWrites(r) \/ ConfigWrites(r) \/ MintWrites(r)
            \/ RevokeWrites(r)
  BY <1>3, <1>4, <1>10 DEF DeletesUser, PasswordWrites, ConfigWrites, MintWrites, RevokeWrites
<1> QED BY <1>5, <1>6, <1>7, <1>8, <1>9, <1>10 DEF Handles

LEMMA LocalStep == LocalInv /\ [Next]_vars => LocalInv'
<1> SUFFICES ASSUME LocalInv, [Next]_vars PROVE LocalInv'
  OBVIOUS
<1>1. Typed'
  BY TypedStep DEF LocalInv
<1> DEFINE Rest == LocalTokenMatches /\ (phase \in {"cli row", "cli file"} => localRow # None)
<1>2. Rest'
  <2>1. CASE UNCHANGED <<localRow, localFile, phase>>
    BY <2>1 DEF LocalInv, LocalTokenMatches
  <2>2. CASE Dies \/ Starts \/ BootSetupToken \/ WriteSetupToken
    BY <2>2
    DEF LocalInv, LocalTokenMatches, Dies, Starts, BootSetupToken, WriteSetupToken, db, files
  <2>3. CASE BootLocalToken
    <3>1. None \notin Secrets
      BY AccountsAssumption
    <3> QED BY <2>3, <3>1 DEF BootLocalToken, LocalKnown, LocalTokenMatches, files
  <2>4. CASE CreateLocalFile \/ WriteLocalFile
    BY <2>4 DEF CreateLocalFile, WriteLocalFile, LocalInv, LocalTokenMatches, db
  <2>5. CASE Operator
    BY <2>5 DEF Operator, ResetPassword, DeletesLocalFile, TokenExpires, CredentialExpires,
                Done, Ends, LocalInv, LocalTokenMatches, db, files
  <2> QED BY <2>1, <2>2, <2>3, <2>4, <2>5, RequestsFrame DEF Next, Panel, vars
<1> HIDE DEF Rest
<1> QED BY <1>1, <1>2 DEF Rest, LocalInv

\* Whatever died while the machine's token was issued, a panel that serves knows the
\* secret its file holds.
THEOREM LocalTokenSafe == Spec => []LocalTokenMatches
<1>1. Init => LocalInv
  BY TypedInit DEF Init, LocalInv, LocalTokenMatches
<1>2. LocalInv => LocalTokenMatches
  BY DEF LocalInv
<1> QED BY <1>1, <1>2, LocalStep, PTL DEF Spec

(* ----------------------- an administrator remains ------------------------ *)

Removing(q) == q.kind \in {"setup", "role", "delete"}
Removes(q, u) == u[q.id].role = "admin" /\ (q.kind = "delete" \/ q.role # "admin")

\* What a handler that takes users or roles away has made sure of holds until it writes.
Counted(q, u) ==
    q.kind \in {"role", "delete"} =>
        /\ q.step \in {"count", "write"} => q.id \in DOMAIN u
        /\ q.step = "write" /\ Removes(q, u) => Admins(u) \ {q.id} # {}

Exclusive == \A x, y \in Requests : Removing(reqs[x]) /\ Removing(reqs[y]) => x = y

Unlinking(q) == q.kind = "setup" /\ q.step = "unlink"

\* The set-up file is given up only for an administrator.
GivenUp ==
    /\ setupFile = None /\ phase \notin {"down", "setup token"} => Admins(users) # {}
    /\ setupFile = None /\ DOMAIN users # {} => Admins(users) # {}
    /\ \A r \in Requests : Unlinking(reqs[r]) => Admins(users) # {}

Locked ==
    /\ Typed /\ Exclusive /\ GivenUp
    /\ \A r \in Requests : Counted(reqs[r], users)

Same(p, q) == p.kind = q.kind /\ p.step = q.step /\ p.id = q.id /\ p.role = q.role
Grows(u, v) == \A i \in DOMAIN u : i \in DOMAIN v /\ v[i] = u[i]

LEMMA GrowsKeeps ==
  ASSUME NEW u, NEW v, Grows(u, v)
  PROVE  /\ Admins(u) \subseteq Admins(v)
         /\ \A q : Counted(q, u) => Counted(q, v)
<1>1. Admins(u) \subseteq Admins(v)
  BY DEF Admins, Grows
<1>2. ASSUME NEW q, Counted(q, u) PROVE Counted(q, v)
  BY <1>1, <1>2 DEF Counted, Removes, Grows
<1> QED BY <1>1, <1>2

LEMMA SameCounts ==
  ASSUME NEW p, NEW q, Same(p, q), NEW u, Counted(q, u)
  PROVE  Counted(p, u)
BY DEF Same, Counted, Removes

\* A step of request r, of a panel that serves.
LEMMA StepKeepsLocked ==
  ASSUME Locked, Typed', NEW r \in Requests, phase = "serving", UNCHANGED phase,
         \A x \in Requests \ {r} : Same(reqs'[x], reqs[x]),
         Removing(reqs'[r]) => Removing(reqs[r]),
         Counted(reqs'[r], users'),
         Grows(users, users') \/ Removing(reqs[r]),
         Admins(users) # {} => Admins(users') # {},
         Unlinking(reqs'[r]) => Admins(users') # {},
         setupFile' = None => setupFile = None \/ Admins(users') # {}
  PROVE  Locked'
<1>1. Exclusive'
  BY DEF Locked, Exclusive, Same, Removing
<1>2. ASSUME NEW x \in Requests PROVE Counted(reqs'[x], users')
  <2>1. CASE x = r
    BY <2>1
  <2>2. CASE x # r /\ Grows(users, users')
    <3>1. Counted(reqs'[x], users)
      BY <2>2, SameCounts DEF Locked
    <3> QED BY <2>2, <3>1, GrowsKeeps
  <2>3. CASE x # r /\ Removing(reqs[r])
    BY <2>3 DEF Locked, Exclusive, Removing, Counted, Same
  <2> QED BY <2>1, <2>2, <2>3
<1>3. GivenUp'
  BY DEF Locked, GivenUp, Same, Unlinking
<1> QED BY <1>1, <1>2, <1>3 DEF Locked

\* A step that reads, and goes on with q.
LEMMA ReadLocked ==
  ASSUME Locked, Typed', NEW r \in Requests, phase = "serving", NEW q, Becomes(r, q),
         Removing(q) => Removing(reqs[r]), Counted(q, users), ~Unlinking(q)
  PROVE  Locked' /\ UNCHANGED users
<1>1. reqs'[r] = q /\ \A x \in Requests \ {r} : reqs'[x] = reqs[x]
  BY TypedParts DEF Becomes, Locked
<1>2. UNCHANGED <<users, setupFile, phase>>
  BY DEF Becomes, db, files
<1>3. Grows(users, users') /\ (Admins(users) # {} => Admins(users') # {})
  BY <1>2 DEF Grows
<1>4. \A x \in Requests \ {r} : Same(reqs'[x], reqs[x])
  BY <1>1 DEF Same
<1> QED BY <1>1, <1>2, <1>3, <1>4, StepKeepsLocked

LEMMA RefusedLocked ==
  ASSUME Locked, NEW r \in Requests, phase = "serving", Refused(r)
  PROVE  Locked' /\ UNCHANGED users
<1>1. Typed'
  BY RefusedKeeps DEF Locked
<1>2. ~Removing(Idle) /\ Counted(Idle, users) /\ ~Unlinking(Idle)
  BY IdleIsRequest DEF Removing, Counted, Unlinking, None
<1> QED BY <1>1, <1>2, ReadLocked DEF Refused

\* A step that only goes on.
LEMMA GoesLocked ==
  ASSUME Locked, NEW r \in Requests, phase = "serving",
         NEW step \in Steps \ {"count", "unlink"}, GoesTo(r, step),
         step = "write" => reqs[r].kind \notin {"role", "delete"}
  PROVE  Locked' /\ UNCHANGED users
<1> DEFINE q == [reqs[r] EXCEPT !.step = step]
<1>1. Typed'
  BY GoesKeeps DEF Locked
<1>2. q.kind = reqs[r].kind /\ q.step = step
  BY TypedParts DEF Locked, Request
<1>3. Becomes(r, q)
  BY DEF GoesTo
<1> HIDE DEF q
<1>4. (Removing(q) => Removing(reqs[r])) /\ Counted(q, users) /\ ~Unlinking(q)
  BY <1>2 DEF Removing, Counted, Unlinking
<1> QED BY <1>1, <1>3, <1>4, ReadLocked

\* A step that writes, and is the last one.
LEMMA EndsLocked ==
  ASSUME Locked, Typed', NEW r \in Requests, phase = "serving",
         NEW gone, NEW u, NEW s, NEW t, Ends(r, gone, u, s, t),
         Grows(users, u) \/ Removing(reqs[r]),
         Admins(users) # {} => Admins(u) # {}
  PROVE  Locked'
<1>1. \A x \in Requests :
         reqs'[x] = Seen(Bereft(IF x = r THEN Idle ELSE reqs[x], gone), u, s, t)
  BY DEF Ends, Writes
<1>2. ASSUME NEW x \in Requests \ {r} PROVE Same(reqs'[x], reqs[x])
  BY <1>1, SeenKeeps, BereftKeeps, TypedParts DEF Locked, Same
<1>3. reqs'[r] = Idle
  BY <1>1, SeenKeeps, BereftKeeps, IdleIsRequest
<1>4. ~Removing(Idle) /\ Counted(Idle, u) /\ ~Unlinking(Idle)
  BY IdleIsRequest DEF Removing, Counted, Unlinking, None
<1>5. users' = u /\ UNCHANGED <<setupFile, phase>>
  BY DEF Ends, Writes, files
<1> QED BY <1>2, <1>3, <1>4, <1>5, StepKeepsLocked

LEMMA DoneLocked ==
  ASSUME Locked, Typed', NEW r \in Requests, phase = "serving",
         NEW u, NEW s, NEW t, Done(r, u, s, t),
         Grows(users, u) \/ Removing(reqs[r]),
         Admins(users) # {} => Admins(u) # {}
  PROVE  Locked'
BY EndsLocked DEF Done

\* The kinds in one set are kept apart from those in the other.
KeptApart(K, J) == \A k \in K, j \in J : {k, j} \in Apart

RemovalsAlone == KeptApart({"setup", "role", "delete"}, {"setup", "role", "delete"})

LEMMA ArriveLocked ==
  ASSUME RemovalsAlone, Locked, Typed', NEW r \in Requests,
         NEW kind, NEW cred, NEW id, NEW email, NEW role,
         Arrive(r, kind, cred, id, email, role)
  PROVE  Locked' /\ UNCHANGED users
<1> DEFINE a == kind \notin SelfService /\ CallerRole(cred) = "admin"
           q == [Idle EXCEPT !.kind = kind, !.step = FirstStep(kind), !.cred = cred,
                             !.id = id, !.email = email, !.role = role, !.admin = a]
<1>1. Becomes(r, q) /\ phase = "serving" /\ MayStart(kind) /\ reqs[r] = Idle
  BY Zenon DEF Arrive
<1> HIDE DEF a
<1>2. q.kind = kind /\ q.step = FirstStep(kind)
  BY IdleIsRequest DEF Request
<1> HIDE DEF q
<1>3. ~Unlinking(q) /\ Counted(q, users)
  BY <1>2 DEF Unlinking, Counted, FirstStep
<1>4. reqs'[r] = q /\ \A x \in Requests \ {r} : reqs'[x] = reqs[x]
  BY <1>1, TypedParts DEF Becomes, Locked
<1>5. UNCHANGED <<users, setupFile, phase>>
  BY <1>1 DEF Becomes, db, files
<1>6. Exclusive'
  <2>1. ASSUME Removing(q), NEW x \in Requests PROVE ~Removing(reqs[x])
    BY <1>1, <1>2, <2>1 DEF Removing, MayStart, RemovalsAlone, KeptApart
  <2> QED BY <1>4, <2>1 DEF Locked, Exclusive
<1>7. GivenUp'
  BY <1>3, <1>4, <1>5 DEF Locked, GivenUp
<1>8. \A x \in Requests : Counted(reqs'[x], users')
  BY <1>3, <1>4, <1>5 DEF Locked
<1> QED BY <1>5, <1>6, <1>7, <1>8 DEF Locked

LEMMA AuthLocked ==
  ASSUME Locked, NEW r \in Requests, Gate(r) \/ Authenticate(r)
  PROVE  Locked' /\ UNCHANGED users
<1>1. phase = "serving" /\ Typed'
  BY AuthTyped DEF Gate, GateSees, Authenticate, At, Locked
<1>2. CASE Refused(r)
  BY <1>1, <1>2, RefusedLocked
<1>3. CASE GoesTo(r, "auth")
  BY <1>1, <1>3, GoesLocked DEF Steps
<1>4. ASSUME NEW acct, Becomes(r, AfterAuth(reqs[r], acct))
      PROVE  Locked' /\ UNCHANGED users
  <2> DEFINE q == AfterAuth(reqs[r], acct)
  <2>1. /\ q.kind = reqs[r].kind /\ q.step \in {"read", "write"}
        /\ q.step = "write" => q.kind \in {"mint", "config"}
    BY TypedParts DEF AfterAuth, Request, Locked
  <2>2. Becomes(r, q)
    BY <1>4
  <2> HIDE DEF q
  <2>3. (Removing(q) => Removing(reqs[r])) /\ Counted(q, users) /\ ~Unlinking(q)
    BY <2>1 DEF Removing, Counted, Unlinking
  <2> QED BY <1>1, <2>2, <2>3, ReadLocked
<1> QED BY <1>2, <1>3, <1>4 DEF Gate, GateSees, Authenticate

\* The reads of the handlers that take an administrator away.
LEMMA TargetLocked ==
  ASSUME Locked, NEW r \in Requests, ReadsTarget(r) \/ CountsAdmins(r)
  PROVE  Locked' /\ UNCHANGED users
<1>1. phase = "serving" /\ Typed'
  BY ReadsTyped DEF ReadsTarget, CountsAdmins, At, Locked
<1>2. CASE Refused(r)
  BY <1>1, <1>2, RefusedLocked
<1>3. ASSUME NEW step \in {"count", "write"}, GoesTo(r, step), reqs[r].id \in DOMAIN users,
             reqs[r].kind \in {"role", "delete"},
             step = "write" => ~RemovesAdmin(reqs[r]) \/ Admins(users) \ {reqs[r].id} # {}
      PROVE  Locked' /\ UNCHANGED users
  <2> DEFINE q == [reqs[r] EXCEPT !.step = step]
  <2>1. q.kind = reqs[r].kind /\ q.step = step /\ q.id = reqs[r].id /\ q.role = reqs[r].role
    BY TypedParts DEF Locked, Request
  <2>2. Becomes(r, q)
    BY <1>3 DEF GoesTo
  <2> HIDE DEF q
  <2>3. Removes(q, users) => RemovesAdmin(reqs[r])
    BY <1>3, <2>1 DEF Removes, RemovesAdmin
  <2>4. (Removing(q) => Removing(reqs[r])) /\ Counted(q, users) /\ ~Unlinking(q)
    BY <1>3, <2>1, <2>3 DEF Removing, Counted, Unlinking
  <2> QED BY <1>1, <2>2, <2>4, ReadLocked
<1>4. CASE ReadsTarget(r)
  BY <1>2, <1>3, <1>4 DEF ReadsTarget, At
<1>5. CASE CountsAdmins(r)
  <2>1. IsFiniteSet(Admins(users))
    <3>1. Admins(users) \subseteq 1..MaxUsers
      BY TypedParts DEF Admins, Locked, UsersOK, UserIds
    <3>2. 1 \in Int /\ MaxUsers \in Int
      BY AccountsAssumption
    <3>3. IsFiniteSet(1..MaxUsers)
      BY <3>2, FS_Interval
    <3> QED BY <3>1, <3>3, FS_Subset
  <2>2. ~LastAdmin => Admins(users) \ {reqs[r].id} # {}
    <3>1. SUFFICES ASSUME Admins(users) \subseteq {reqs[r].id} PROVE LastAdmin
      OBVIOUS
    <3>2. Cardinality({reqs[r].id}) = 1 /\ IsFiniteSet({reqs[r].id})
      BY FS_Singleton
    <3>3. Cardinality(Admins(users)) <= 1
      BY <3>1, <3>2, FS_Subset
    <3> QED BY <3>3 DEF LastAdmin
  <2>3. reqs[r].id \in DOMAIN users /\ reqs[r].kind \in {"role", "delete"}
    BY <1>5 DEF CountsAdmins, At, Locked, Counted
  <2> QED BY <1>2, <1>3, <1>5, <2>2, <2>3 DEF CountsAdmins
<1> QED BY <1>4, <1>5

LEMMA ReadsLocked ==
  ASSUME Locked, NEW r \in Requests,
         \/ WrongPassword(r) \/ SetupReadsToken(r) \/ SetupLooksUp(r) \/ LoginReadsUser(r)
         \/ CreateReadsEmail(r) \/ PasswordReadsHash(r) \/ RevokeReadsToken(r) \/ Dropped(r)
  PROVE  Locked' /\ UNCHANGED users
<1>1. phase = "serving" /\ Typed'
  BY ReadsTyped DEF WrongPassword, SetupReadsToken, SetupLooksUp, LoginReadsUser,
     CreateReadsEmail, PasswordReadsHash, RevokeReadsToken, Dropped, At, Locked
<1>2. CASE Refused(r)
  BY <1>1, <1>2, RefusedLocked
<1>3. CASE GoesTo(r, "write") /\ reqs[r].kind \notin {"role", "delete"}
  BY <1>1, <1>3, GoesLocked DEF Steps
<1>4. ASSUME NEW q, Becomes(r, q), q.step = "write", q.kind \in {"setup", "login"},
             q.kind = "setup" => reqs[r].kind = "setup"
      PROVE  Locked' /\ UNCHANGED users
  BY <1>1, <1>4, ReadLocked DEF Removing, Counted, Unlinking
<1>5. reqs[r] \in Request
  BY TypedParts DEF Locked
<1>6. CASE SetupReadsToken(r)
  <2> DEFINE q == [reqs[r] EXCEPT !.step = "write", !.token = setupFile]
  <2>1. q.step = "write" /\ q.kind = "setup"
    BY <1>5, <1>6 DEF SetupReadsToken, At, Request
  <2>2. Becomes(r, q) /\ reqs[r].kind = "setup"
    BY <1>6 DEF SetupReadsToken, At
  <2> HIDE DEF q
  <2> QED BY <1>4, <2>1, <2>2
<1>7. ASSUME NEW i, Becomes(r, [reqs[r] EXCEPT !.kind = "login", !.step = "write", !.id = i])
      PROVE  Locked' /\ UNCHANGED users
  <2> DEFINE q == [reqs[r] EXCEPT !.kind = "login", !.step = "write", !.id = i]
  <2>1. q.step = "write" /\ q.kind = "login"
    BY <1>5 DEF Request
  <2>2. Becomes(r, q)
    BY <1>7
  <2> HIDE DEF q
  <2> QED BY <1>4, <2>1, <2>2
<1>8. ASSUME NEW i, Becomes(r, [reqs[r] EXCEPT !.step = "write", !.id = i]),
             reqs[r].kind = "login"
      PROVE  Locked' /\ UNCHANGED users
  <2> DEFINE q == [reqs[r] EXCEPT !.step = "write", !.id = i]
  <2>1. q.step = "write" /\ q.kind = "login"
    BY <1>5, <1>8 DEF Request
  <2>2. Becomes(r, q)
    BY <1>8
  <2> HIDE DEF q
  <2> QED BY <1>4, <2>1, <2>2
<1>9. CASE SetupLooksUp(r) \/ LoginReadsUser(r)
  BY <1>2, <1>7, <1>8, <1>9 DEF SetupLooksUp, LoginReadsUser, At
<1>10. CASE CreateReadsEmail(r) \/ PasswordReadsHash(r) \/ RevokeReadsToken(r)
  BY <1>2, <1>3, <1>10 DEF CreateReadsEmail, PasswordReadsHash, RevokeReadsToken, At
<1>11. CASE WrongPassword(r) \/ Dropped(r)
  BY <1>2, <1>11 DEF WrongPassword, Dropped
<1> QED BY <1>6, <1>9, <1>10, <1>11

(* Writes. *)
LEMMA SetupLocked ==
  ASSUME Locked, NEW r \in Requests, SetupCommits(r)
  PROVE  Locked' /\ Admins(users') # {}
<1> DEFINE q == [reqs[r] EXCEPT !.step = "unlink"]
           u == Insert(Empty, 1, [email |-> reqs[r].email, role |-> "admin"])
           t == Cascade(tokens, DOMAIN users)
<1>1. Typed' /\ phase = "serving" /\ reqs[r].kind = "setup"
  BY SetupTyped DEF Locked, SetupCommits, At
<1>2. q \in Request /\ q.kind = "setup"
  BY <1>1, TypedParts DEF Locked, Request, Steps
<1>3. Admins(u) # {}
  <2>1. 1 \in DOMAIN u /\ u[1].role = "admin"
    BY DEF Insert
  <2> QED BY <2>1 DEF Admins
<1>4. Writes(r, q, DOMAIN users, u, Empty, t) /\ UNCHANGED <<localRow, files, phase>>
  BY DEF SetupCommits
<1> HIDE DEF q, u, t
<1>5. \A x \in Requests :
         reqs'[x] = Seen(Bereft(IF x = r THEN q ELSE reqs[x], DOMAIN users), u, Empty, t)
  BY <1>4 DEF Writes
<1>6. ASSUME NEW x \in Requests \ {r} PROVE Same(reqs'[x], reqs[x])
  BY <1>5, SeenKeeps, BereftKeeps, TypedParts DEF Locked, Same
<1>7. reqs'[r].kind = "setup"
  BY <1>2, <1>5, SeenKeeps, BereftKeeps
<1>8. Admins(users') # {}
  BY <1>3, <1>4 DEF Writes
<1>9. Removing(reqs[r]) /\ Counted(reqs'[r], users') /\ UNCHANGED phase
  BY <1>1, <1>4, <1>7 DEF Removing, Counted
<1> QED BY <1>1, <1>6, <1>8, <1>9, StepKeepsLocked

LEMMA UnlinkLocked ==
  ASSUME Locked, NEW r \in Requests, SetupUnlinks(r)
  PROVE  Locked' /\ UNCHANGED users
<1>1. Typed' /\ phase = "serving" /\ reqs[r].kind = "setup" /\ reqs[r].step = "unlink"
  BY UnlinkTyped DEF Locked, SetupUnlinks, At
<1>2. UNCHANGED <<users, phase>>
  BY DEF SetupUnlinks, db
<1>3. Admins(users') # {}
  BY <1>1, <1>2 DEF Locked, GivenUp, Unlinking
<1>4. /\ reqs'[r].kind = "setup"
      /\ \A x \in Requests \ {r} : reqs'[x] = reqs[x]
  BY <1>1, TypedParts DEF Locked, SetupUnlinks, Request
<1>5. \A x \in Requests \ {r} : Same(reqs'[x], reqs[x])
  BY <1>4 DEF Same
<1>6. Removing(reqs[r]) /\ Counted(reqs'[r], users')
  BY <1>1, <1>4 DEF Removing, Counted
<1> QED BY <1>1, <1>2, <1>3, <1>5, <1>6, StepKeepsLocked

LEMMA RoleLocked ==
  ASSUME Locked, NEW r \in Requests, RoleWrites(r)
  PROVE  Locked' /\ (Admins(users) # {} => Admins(users') # {})
<1> DEFINE q == reqs[r]
           u == [users EXCEPT ![q.id].role = q.role]
<1>1. Typed' /\ phase = "serving" /\ q.kind = "role" /\ q.step = "write"
  BY RoleTyped DEF Locked, RoleWrites, At
<1>2. CASE Refused(r)
  BY <1>1, <1>2, RefusedLocked
<1>3. CASE q.id \in DOMAIN users /\ Done(r, u, sessions, tokens)
  <2>1. /\ DOMAIN u = DOMAIN users
        /\ \A i \in DOMAIN users \ {q.id} : u[i] = users[i]
        /\ u[q.id].role = q.role
    BY <1>3, TypedParts DEF Locked, UsersOK
  <2>2. Removes(q, users) => Admins(users) \ {q.id} # {}
    BY <1>1 DEF Locked, Counted
  <2> HIDE DEF u
  <2>3. Admins(users) # {} => Admins(u) # {}
    <3>1. SUFFICES ASSUME NEW i \in Admins(users) PROVE Admins(u) # {}
      OBVIOUS
    <3>2. CASE i # q.id
      BY <2>1, <3>2 DEF Admins
    <3>3. CASE i = q.id /\ q.role = "admin"
      BY <2>1, <3>3 DEF Admins
    <3>4. CASE i = q.id /\ q.role # "admin"
      <4>1. PICK j \in Admins(users) : j # q.id
        BY <2>2, <3>4 DEF Removes, Admins
      <4> QED BY <2>1, <4>1 DEF Admins
    <3> QED BY <3>2, <3>3, <3>4
  <2>4. Removing(reqs[r]) /\ users' = u
    BY <1>1, <1>3 DEF Removing, Done, Ends, Writes
  <2> QED BY <1>1, <1>3, <2>3, <2>4, DoneLocked
<1> QED BY <1>2, <1>3 DEF RoleWrites

LEMMA DeleteLocked ==
  ASSUME Locked, NEW r \in Requests, DeletesUser(r)
  PROVE  Locked' /\ (Admins(users) # {} => Admins(users') # {})
<1> DEFINE q == reqs[r]
           u == Restrict(users, DOMAIN users \ {q.id})
<1>1. Typed' /\ phase = "serving" /\ q.kind = "delete" /\ q.step = "write"
  BY DeleteTyped DEF Locked, DeletesUser, At
<1>2. /\ DOMAIN u = DOMAIN users \ {q.id}
      /\ \A i \in DOMAIN u : u[i] = users[i]
  BY DEF Restrict
<1>3. Removes(q, users) => Admins(users) \ {q.id} # {}
  BY <1>1 DEF Locked, Counted
<1>4. Ends(r, {q.id}, u, Cascade(sessions, {q.id}), Cascade(tokens, {q.id}))
  BY DEF DeletesUser
<1> HIDE DEF u
<1>5. Admins(users) # {} => Admins(u) # {}
  <2>1. SUFFICES ASSUME NEW i \in Admins(users) PROVE Admins(u) # {}
    OBVIOUS
  <2>2. PICK j \in Admins(users) : j # q.id
    BY <1>1, <1>3 DEF Removes, Admins
  <2> QED BY <1>2, <2>2 DEF Admins
<1>6. Removing(reqs[r]) /\ users' = u
  BY <1>1, <1>4 DEF Removing, Ends, Writes
<1> QED BY <1>1, <1>4, <1>5, <1>6, EndsLocked

LEMMA CreateLocked ==
  ASSUME Locked, NEW r \in Requests, CreateWritesUser(r)
  PROVE  Locked' /\ (Admins(users) # {} => Admins(users') # {})
<1>1. Typed' /\ phase = "serving"
  BY CreateTyped DEF Locked, CreateWritesUser, At
<1>2. CASE Refused(r)
  BY <1>1, <1>2, RefusedLocked
<1>3. ASSUME NEW new \in UserIds, NEW row, IsNextId(new, DOMAIN users),
             Done(r, Insert(users, new, row), sessions, tokens)
      PROVE  Locked' /\ (Admins(users) # {} => Admins(users') # {})
  <2>1. new \notin DOMAIN users
    BY <1>3, AccountsAssumption DEF IsNextId, UserIds
  <2>2. Grows(users, Insert(users, new, row))
    BY <2>1 DEF Grows, Insert
  <2>3. users' = Insert(users, new, row)
    BY <1>3 DEF Done, Ends, Writes
  <2>4. Admins(users) # {} => Admins(Insert(users, new, row)) # {}
    BY <2>2, GrowsKeeps
  <2> QED BY <1>1, <1>3, <2>2, <2>3, <2>4, DoneLocked
<1> QED BY <1>2, <1>3 DEF CreateWritesUser

\* The writes that leave the accounts alone.
LEMMA OtherWritesLocked ==
  ASSUME Locked, NEW r \in Requests,
         \/ LoginWritesSession(r) \/ LogsOut(r) \/ PasswordWrites(r) \/ ConfigWrites(r)
         \/ MintWrites(r) \/ RevokeWrites(r)
  PROVE  Locked' /\ UNCHANGED users
<1>1. Typed' /\ phase = "serving"
  BY SessionsTyped, OtherWritesTyped, TokensTyped DEF LoginWritesSession, LogsOut,
     PasswordWrites, ConfigWrites, MintWrites, RevokeWrites, At, Locked
<1>2. CASE Refused(r)
  BY <1>1, <1>2, RefusedLocked
<1>3. ASSUME NEW s, NEW t, Done(r, users, s, t)
      PROVE  Locked' /\ UNCHANGED users
  <2>1. Grows(users, users)
    BY DEF Grows
  <2>2. UNCHANGED users
    BY <1>3 DEF Done, Ends, Writes
  <2> QED BY <1>1, <1>3, <2>1, <2>2, DoneLocked
<1> QED BY <1>2, <1>3 DEF LoginWritesSession, LogsOut, PasswordWrites, ConfigWrites,
           MintWrites, RevokeWrites

\* Steps of no request: every request stays as it is, or is dropped.
LEMMA OtherStepKeepsLocked ==
  ASSUME Locked, Typed', UNCHANGED users,
         \A r \in Requests : Same(reqs'[r], reqs[r]) \/ reqs'[r] = Idle,
         (GivenUp /\ UNCHANGED users) => GivenUp'
  PROVE  Locked'
<1>1. ~Removing(Idle) /\ Counted(Idle, users)
  BY IdleIsRequest DEF Removing, Counted, None
<1>2. Exclusive'
  BY <1>1 DEF Locked, Exclusive, Same, Removing
<1>3. \A r \in Requests : Counted(reqs'[r], users')
  BY <1>1, SameCounts DEF Locked
<1> QED BY <1>2, <1>3 DEF Locked

LEMMA PanelLocked ==
  ASSUME Locked, Panel
  PROVE  Locked' /\ UNCHANGED users
<1>1. Typed' /\ UNCHANGED users
  BY PanelTyped DEF Locked, Panel, Dies, Starts, BootSetupToken, WriteSetupToken,
     BootLocalToken, CreateLocalFile, WriteLocalFile, db
<1>2. \A r \in Requests : Same(reqs'[r], reqs[r]) \/ reqs'[r] = Idle
  BY DEF Same, Panel, Dies, Starts, BootSetupToken, WriteSetupToken,
     BootLocalToken, CreateLocalFile, WriteLocalFile
<1>3. ASSUME GivenUp PROVE GivenUp'
  <2>1. NewSetupToken \subseteq SetupTokens /\ None \notin SetupTokens /\ Torn # None
    BY AccountsAssumption DEF NewSetupToken, Torn, None
  <2>2. CASE Dies
    BY <1>3, <2>2, IdleIsRequest DEF Dies, GivenUp, Unlinking, None, db, files
  <2>3. CASE Starts
    BY <1>3, <2>3 DEF Starts, GivenUp, db, files
  <2>4. CASE BootSetupToken
    <3>1. CASE ~NoSetupPath /\ UNCHANGED setupFile
      BY <1>3, <2>4, <3>1 DEF BootSetupToken, NoSetupPath, GivenUp, db
    <3>2. CASE setupFile' = Torn
      BY <1>3, <2>1, <2>4, <3>2 DEF BootSetupToken, GivenUp, db
    <3> QED BY <2>4, <3>1, <3>2 DEF BootSetupToken
  <2>5. CASE WriteSetupToken
    BY <1>3, <2>1, <2>5 DEF WriteSetupToken, GivenUp, db
  <2>6. CASE BootLocalToken \/ CreateLocalFile \/ WriteLocalFile
    BY <1>3, <2>6 DEF BootLocalToken, CreateLocalFile, WriteLocalFile, GivenUp, db, files
  <2> QED BY <2>2, <2>3, <2>4, <2>5, <2>6 DEF Panel
<1> QED BY <1>1, <1>2, <1>3, OtherStepKeepsLocked

LEMMA OperatorLocked ==
  ASSUME Locked, Operator
  PROVE  Locked' /\ UNCHANGED users
<1>1. Typed'
  BY OperatorTyped DEF Locked
<1>2. /\ UNCHANGED <<users, phase>>
      /\ setupFile' = None => setupFile = None
  <2>1. NewSetupToken \subseteq SetupTokens /\ None \notin SetupTokens /\ Expired # None
    BY AccountsAssumption DEF NewSetupToken, Expired, None
  <2> QED BY <2>1 DEF Operator, ResetPassword, DeletesLocalFile, TokenExpires,
             CredentialExpires, Done, Ends, Writes, db, files
<1>3. ASSUME NEW r \in Requests PROVE Same(reqs'[r], reqs[r]) \/ reqs'[r] = Idle
  <2>1. CASE UNCHANGED reqs
    BY <2>1 DEF Same
  <2>2. ASSUME NEW s, NEW t, Done(None, users, s, t)
        PROVE  Same(reqs'[r], reqs[r]) \/ reqs'[r] = Idle
    <3>1. reqs'[r] = Seen(Bereft(IF r = None THEN Idle ELSE reqs[r], {}), users, s, t)
      BY <2>2 DEF Done, Ends, Writes
    <3> QED BY <3>1, SeenKeeps, BereftKeeps, TypedParts, IdleIsRequest DEF Locked, Same
  <2> QED BY <2>1, <2>2 DEF Operator, ResetPassword, DeletesLocalFile, TokenExpires,
             CredentialExpires
<1>4. GivenUp => GivenUp'
  BY <1>2, <1>3, IdleIsRequest DEF GivenUp, Same, Unlinking, None
<1> QED BY <1>1, <1>2, <1>3, <1>4, OtherStepKeepsLocked

LEMMA LockedInit == Init => Locked
<1> SUFFICES ASSUME Init PROVE Locked
  OBVIOUS
<1>1. \A r \in Requests : reqs[r] = Idle
  BY DEF Init
<1>2. ~Removing(Idle) /\ Counted(Idle, users) /\ ~Unlinking(Idle)
  BY IdleIsRequest DEF Removing, Counted, Unlinking, None
<1>3. DOMAIN users = {} /\ phase = "down"
  BY DEF Init, Empty
<1> QED BY <1>1, <1>2, <1>3, TypedInit DEF Locked, Exclusive, GivenUp

LEMMA LockedStep ==
  ASSUME RemovalsAlone, Locked, [Next]_vars
  PROVE  Locked' /\ (Admins(users) # {} => Admins(users') # {})
<1>1. CASE UNCHANGED vars
  BY <1>1, TypedStep DEF vars, Locked, Exclusive, GivenUp, Admins
<1>2. ASSUME NEW r \in Requests, Arrives(r)
      PROVE  Locked' /\ UNCHANGED users
  BY <1>2, ArrivesTyped, ArriveLocked DEF Arrives, Locked
<1>3. ASSUME NEW r \in Requests, Handles(r)
      PROVE  Locked' /\ (Admins(users) # {} => Admins(users') # {})
  BY <1>3, AuthLocked, ReadsLocked, TargetLocked, SetupLocked, UnlinkLocked, RoleLocked,
     DeleteLocked, CreateLocked, OtherWritesLocked DEF Handles
<1>4. ASSUME NEW r \in Requests, Dropped(r)
      PROVE  Locked' /\ UNCHANGED users
  BY <1>4, ReadsLocked
<1> QED BY <1>1, <1>2, <1>3, <1>4, PanelLocked, OperatorLocked DEF Next

\* If set-up, changes of roles and deletions of users are handled one at a time, no step
\* takes the last administrator away, whatever else overlaps and whatever dies.
THEOREM AdministratorStays ==
  ASSUME RemovalsAlone
  PROVE  Spec => AdminRemains
<1>1. Locked /\ [Next]_vars => [Admins(users) # {} => Admins(users') # {}]_vars
  BY LockedStep
<1>2. Locked /\ [Next]_vars => Locked'
  BY LockedStep
<1> QED BY <1>1, <1>2, LockedInit, PTL DEF Spec, AdminRemains

\* A file that lost its token is known to have: it expired, or its writing was cut short.
LapsesKnown ==
    /\ setupFile = Expired => Expired \in lapses
    /\ setupFile = Torn => Torn \in lapses \/ phase = "writing setup token"
    /\ phase = "writing setup token" => setupFile = Torn

\* Requests leave the file or remove it.
LEMMA RequestsLapse ==
  ASSUME NEW r \in Requests, Arrives(r) \/ Handles(r) \/ Dropped(r)
  PROVE  /\ UNCHANGED lapses
         /\ UNCHANGED setupFile \/ (setupFile' = None /\ phase = "serving")
<1>1. ASSUME NEW q, Becomes(r, q) PROVE UNCHANGED files
  BY <1>1 DEF Becomes
<1>2. ASSUME NEW step, GoesTo(r, step) PROVE UNCHANGED files
  BY <1>1, <1>2 DEF GoesTo
<1>3. ASSUME Refused(r) PROVE UNCHANGED files
  BY <1>1, <1>3 DEF Refused
<1>4. ASSUME NEW gone, NEW u, NEW s, NEW t, Ends(r, gone, u, s, t) \/ Done(r, u, s, t)
      PROVE  UNCHANGED files
  BY <1>4 DEF Done, Ends
<1>5. CASE Arrives(r)
  BY <1>1, <1>5 DEF Arrives, Arrive, files
<1>6. CASE Dropped(r) \/ WrongPassword(r) \/ SetupReadsToken(r) \/ SetupLooksUp(r)
           \/ LoginReadsUser(r) \/ CreateReadsEmail(r)
  BY <1>1, <1>2, <1>3, <1>6
  DEF Dropped, WrongPassword, SetupReadsToken, SetupLooksUp, LoginReadsUser, CreateReadsEmail,
      files
<1>7. CASE Gate(r) \/ Authenticate(r) \/ ReadsTarget(r) \/ CountsAdmins(r)
           \/ PasswordReadsHash(r) \/ RevokeReadsToken(r)
  BY <1>1, <1>2, <1>3, <1>7
  DEF Gate, GateSees, Authenticate, ReadsTarget, CountsAdmins, PasswordReadsHash,
      RevokeReadsToken, files
<1>8. CASE SetupCommits(r) \/ SetupUnlinks(r)
  BY <1>8 DEF SetupCommits, SetupUnlinks, files, db, At
<1>9. CASE LoginWritesSession(r) \/ LogsOut(r) \/ CreateWritesUser(r) \/ RoleWrites(r)
  BY <1>3, <1>4, <1>9
  DEF LoginWritesSession, LogsOut, CreateWritesUser, RoleWrites, files
<1>10. CASE DeletesUser(r) \/ PasswordWrites(r) \/ ConfigWrites(r) \/ MintWrites(r)
            \/ RevokeWrites(r)
  BY <1>3, <1>4, <1>10
  DEF DeletesUser, PasswordWrites, ConfigWrites, MintWrites, RevokeWrites, files
<1> QED BY <1>5, <1>6, <1>7, <1>8, <1>9, <1>10 DEF Handles

LEMMA LapseStep ==
  ASSUME LapsesKnown, Typed, [Next]_vars
  PROVE  LapsesKnown'
<1>1. Torn # None /\ Expired # None /\ Torn # Expired
  BY DEF Torn, Expired, None
<1>2. NewSetupToken \cap {None, Torn, Expired} = {}
  BY AccountsAssumption DEF NewSetupToken
<1>3. CASE UNCHANGED vars
  BY <1>3 DEF LapsesKnown, vars
<1>4. ASSUME NEW r \in Requests, Arrives(r) \/ Handles(r) \/ Dropped(r)
      PROVE  LapsesKnown'
  BY <1>1, <1>4, RequestsLapse, RequestsFrame DEF LapsesKnown
<1>5. CASE Dies \/ Starts \/ WriteSetupToken
  BY <1>1, <1>2, <1>5 DEF Dies, Starts, WriteSetupToken, LapsesKnown, files
<1>6. CASE BootSetupToken
  <2>1. CASE ~NoSetupPath /\ phase' = "cli token" /\ UNCHANGED setupFile
    BY <1>1, <1>6, <2>1 DEF BootSetupToken, NoSetupPath, LapsesKnown
  <2>2. CASE setupFile' = Torn /\ phase' = "writing setup token"
    BY <1>1, <2>2 DEF LapsesKnown
  <2> QED BY <1>6, <2>1, <2>2 DEF BootSetupToken
<1>7. CASE BootLocalToken \/ CreateLocalFile \/ WriteLocalFile
  BY <1>7 DEF BootLocalToken, CreateLocalFile, WriteLocalFile, LapsesKnown, files
<1>8. CASE Operator
  BY <1>1, <1>2, <1>8
  DEF Operator, ResetPassword, DeletesLocalFile, TokenExpires, CredentialExpires, Done, Ends,
      LapsesKnown, files
<1> QED BY <1>3, <1>4, <1>5, <1>6, <1>7, <1>8 DEF Next, Panel

\* Under the same condition a panel that serves without accounts has a set-up token in
\* its file, unless that token expired since a start looked for it, or a start died
\* while it wrote the file.
THEOREM SetupPathStays ==
  ASSUME RemovalsAlone
  PROVE  Spec => []SetupPathExists
<1>1. Locked /\ LapsesKnown => SetupPathExists
  BY TypedParts DEF Locked, GivenUp, LapsesKnown, SetupPathExists, Admins
<1>2. Init => Locked /\ LapsesKnown
  BY LockedInit DEF Init, LapsesKnown, None, Expired, Torn
<1>3. Locked /\ LapsesKnown /\ [Next]_vars => (Locked /\ LapsesKnown)'
  BY LockedStep, LapseStep DEF Locked
<1> QED BY <1>1, <1>2, <1>3, PTL DEF Spec

(* -------------- credentials that outlive their accounts ------------------ *)

\* Requests of kinds that are kept apart are not handled at the same time.
Together(two) == \A x, y \in Requests : x # y => {reqs[x].kind, reqs[y].kind} # two
AllApart == \A two \in Apart : Together(two)

\* Only set-up changes its kind: what is left of it is a login.
Turns(p, q) == q.kind \in {p.kind, None} \/ (p.kind = "setup" /\ q.kind = "login")

LEMMA RowsTurn ==
  ASSUME Typed, NEW r, NEW q \in Request, NEW gone, NEW u, NEW s, NEW t,
         Writes(r, q, gone, u, s, t), NEW x \in Requests, x = r => Turns(reqs[r], q)
  PROVE  Turns(reqs[x], reqs'[x])
<1> DEFINE n == IF x = r THEN q ELSE reqs[x]
<1>1. n \in Request
  BY TypedParts
<1>2. reqs'[x] = Seen(Bereft(n, gone), u, s, t)
  BY DEF Writes
<1>3. Turns(reqs[x], n)
  BY DEF Turns
<1> HIDE DEF n
<1>4. reqs'[x].kind = n.kind
  BY <1>1, <1>2, SeenKeeps, BereftKeeps
<1> QED BY <1>3, <1>4 DEF Turns

LEMMA EndsTurn ==
  ASSUME Typed, NEW r, NEW gone, NEW u, NEW s, NEW t,
         Ends(r, gone, u, s, t) \/ Done(r, u, s, t), NEW x \in Requests
  PROVE  Turns(reqs[x], reqs'[x])
BY RowsTurn, IdleIsRequest DEF Ends, Done, Turns

LEMMA BecomesTurn ==
  ASSUME Typed, NEW r \in Requests, NEW q, Becomes(r, q), Turns(reqs[r], q),
         NEW x \in Requests
  PROVE  Turns(reqs[x], reqs'[x])
BY TypedParts DEF Becomes, Turns

LEMMA RefusedTurn ==
  ASSUME Typed, NEW r \in Requests, Refused(r), NEW x \in Requests
  PROVE  Turns(reqs[x], reqs'[x])
BY BecomesTurn, IdleIsRequest DEF Refused, Turns

LEMMA GoesTurn ==
  ASSUME Typed, NEW r \in Requests, NEW step, GoesTo(r, step), NEW x \in Requests
  PROVE  Turns(reqs[x], reqs'[x])
<1>1. [reqs[r] EXCEPT !.step = step].kind = reqs[r].kind
  BY TypedParts DEF Request
<1> QED BY <1>1, BecomesTurn DEF GoesTo, Turns

LEMMA HandlesTurn ==
  ASSUME Typed, NEW r \in Requests, Handles(r) \/ Dropped(r), NEW x \in Requests
  PROVE  Turns(reqs[x], reqs'[x])
<1>1. reqs[r] \in Request
  BY TypedParts
<1>2. CASE Dropped(r) \/ WrongPassword(r) \/ CreateReadsEmail(r) \/ Gate(r)
           \/ ReadsTarget(r) \/ CountsAdmins(r) \/ PasswordReadsHash(r) \/ RevokeReadsToken(r)
  BY <1>2, RefusedTurn, GoesTurn
  DEF Dropped, WrongPassword, CreateReadsEmail, Gate, GateSees, ReadsTarget, CountsAdmins,
      PasswordReadsHash, RevokeReadsToken
<1>3. CASE Authenticate(r)
  <2>1. ASSUME NEW acct PROVE Turns(reqs[r], AfterAuth(reqs[r], acct))
    BY <1>1 DEF AfterAuth, Request, Turns
  <2> QED BY <1>3, <2>1, RefusedTurn, BecomesTurn DEF Authenticate
<1>4. CASE SetupReadsToken(r) \/ LoginReadsUser(r)
  <2>1. ASSUME NEW i
        PROVE  /\ Turns(reqs[r], [reqs[r] EXCEPT !.step = "write", !.token = i])
               /\ Turns(reqs[r], [reqs[r] EXCEPT !.step = "write", !.id = i])
    BY <1>1 DEF Request, Turns
  <2> QED BY <1>4, <2>1, BecomesTurn DEF SetupReadsToken, LoginReadsUser
<1>5. CASE SetupLooksUp(r)
  <2>1. ASSUME NEW i
        PROVE  Turns(reqs[r], [reqs[r] EXCEPT !.kind = "login", !.step = "write", !.id = i])
    BY <1>1, <1>5 DEF Request, Turns, SetupLooksUp, At
  <2> QED BY <1>5, <2>1, RefusedTurn, BecomesTurn DEF SetupLooksUp
<1>6. CASE SetupCommits(r)
  <2>1. /\ [reqs[r] EXCEPT !.step = "unlink"] \in Request
        /\ Turns(reqs[r], [reqs[r] EXCEPT !.step = "unlink"])
    BY <1>1 DEF Request, Steps, Turns
  <2> QED BY <1>6, <2>1, RowsTurn DEF SetupCommits
<1>7. CASE SetupUnlinks(r)
  BY <1>1, <1>7, TypedParts DEF SetupUnlinks, Turns, Request
<1>8. CASE LoginWritesSession(r) \/ LogsOut(r) \/ CreateWritesUser(r) \/ RoleWrites(r)
           \/ DeletesUser(r) \/ PasswordWrites(r) \/ ConfigWrites(r) \/ MintWrites(r)
           \/ RevokeWrites(r)
  BY <1>8, RefusedTurn, EndsTurn
  DEF LoginWritesSession, LogsOut, CreateWritesUser, RoleWrites, DeletesUser, PasswordWrites,
      ConfigWrites, MintWrites, RevokeWrites
<1> QED BY <1>2, <1>3, <1>4, <1>5, <1>6, <1>7, <1>8 DEF Handles

LEMMA OutsideTurns ==
  ASSUME Typed, Panel \/ Operator \/ UNCHANGED vars, NEW x \in Requests
  PROVE  Turns(reqs[x], reqs'[x])
<1>1. CASE UNCHANGED reqs
  BY <1>1 DEF Turns
<1>2. CASE reqs' = [r \in Requests |-> Idle]
  BY <1>2, IdleIsRequest DEF Turns
<1>3. CASE CredentialExpires
  BY <1>3, EndsTurn DEF CredentialExpires
<1> QED BY <1>1, <1>2, <1>3 DEF Panel, Dies, Starts, BootSetupToken, WriteSetupToken,
       BootLocalToken, CreateLocalFile, WriteLocalFile, Operator, ResetPassword,
       DeletesLocalFile, TokenExpires, vars

LEMMA ApartInit ==
  ASSUME Init
  PROVE  AllApart
<1>1. \A r \in Requests : reqs[r].kind = None
  BY IdleIsRequest DEF Init
<1>2. \A two \in Apart : two \subseteq Kinds
  BY AccountsAssumption
<1>3. None \notin Kinds
  BY DEF None, Kinds
<1> QED BY <1>1, <1>2, <1>3 DEF AllApart, Together

LEMMA ArriveKind ==
  ASSUME Typed, NEW r \in Requests, Arrives(r)
  PROVE  \E kind \in Kinds :
           /\ MayStart(kind) /\ reqs'[r].kind = kind
           /\ \A x \in Requests \ {r} : reqs'[x] = reqs[x]
<1>1. ASSUME NEW kind \in Kinds, NEW cred, NEW id, NEW email, NEW role,
             Arrive(r, kind, cred, id, email, role)
      PROVE  /\ MayStart(kind) /\ reqs'[r].kind = kind
             /\ \A x \in Requests \ {r} : reqs'[x] = reqs[x]
  <2> DEFINE a == kind \notin SelfService /\ CallerRole(cred) = "admin"
             q == [Idle EXCEPT !.kind = kind, !.step = FirstStep(kind), !.cred = cred,
                               !.id = id, !.email = email, !.role = role, !.admin = a]
  <2>1. Becomes(r, q) /\ MayStart(kind)
    BY <1>1, Zenon DEF Arrive
  <2> HIDE DEF a
  <2>2. q.kind = kind
    BY IdleIsRequest DEF Request
  <2> HIDE DEF q
  <2> QED BY <2>1, <2>2, TypedParts DEF Becomes
<1> QED BY <1>1 DEF Arrives, Kinds

LEMMA ApartNext ==
  ASSUME Typed, AllApart, [Next]_vars
  PROVE  AllApart'
<1>1. /\ \A two \in Apart : two \subseteq Kinds
      /\ \A k \in Kinds : {"login", k} \in Apart => {"setup", k} \in Apart
  BY AccountsAssumption
<1>2. None \notin Kinds /\ "login" \in Kinds
  BY DEF None, Kinds
<1> SUFFICES ASSUME NEW two \in Apart, NEW x \in Requests, NEW y \in Requests, x # y,
                    {reqs'[x].kind, reqs'[y].kind} = two
    PROVE  FALSE
  BY Zenon DEF AllApart, Together
<1>3. ASSUME NEW k, NEW j, {k, j} \in Apart, k = reqs[x].kind, j = reqs[y].kind PROVE FALSE
  BY <1>3, Zenon DEF AllApart, Together
<1>4. reqs'[x].kind \in Kinds /\ reqs'[y].kind \in Kinds
  BY <1>1
<1>5. CASE Turns(reqs[x], reqs'[x]) /\ Turns(reqs[y], reqs'[y])
  <2> DEFINE k == reqs'[x].kind
             j == reqs'[y].kind
  <2>1. {k, j} \in Apart
    OBVIOUS
  <2>2. /\ k = reqs[x].kind \/ (reqs[x].kind = "setup" /\ k = "login")
        /\ j = reqs[y].kind \/ (reqs[y].kind = "setup" /\ j = "login")
    BY <1>2, <1>4, <1>5 DEF Turns
  <2>3. k = "login" => {"setup", j} \in Apart
    BY <1>1, <1>4, <2>1
  <2>4. j = "login" => {k, "setup"} \in Apart
    <3>1. {k, j} = {j, k} /\ {k, "setup"} = {"setup", k}
      OBVIOUS
    <3> QED BY <1>1, <1>4, <2>1, <3>1
  <2>5. k = "login" /\ j = "login" => {"setup", "setup"} \in Apart
    <3> SUFFICES ASSUME k = "login", j = "login" PROVE {"setup", "setup"} \in Apart
      OBVIOUS
    <3>1. {"setup", "login"} \in Apart
      BY <2>3
    <3>2. {"setup", "login"} = {"login", "setup"} /\ "setup" \in Kinds
      BY DEF Kinds
    <3> QED BY <1>1, <3>1, <3>2
  <2> HIDE DEF k, j
  <2> QED BY <1>3, <2>1, <2>2, <2>3, <2>4, <2>5
<1>6. ASSUME NEW r \in Requests, Arrives(r)
      PROVE  FALSE
  <2>1. PICK kind \in Kinds :
           /\ MayStart(kind) /\ reqs'[r].kind = kind
           /\ \A z \in Requests \ {r} : reqs'[z] = reqs[z]
    BY <1>6, ArriveKind
  <2>2. \A z \in Requests : {kind, reqs[z].kind} \notin Apart
    BY <2>1 DEF MayStart
  <2>3. CASE x = r
    BY <2>1, <2>2, <2>3
  <2>4. CASE y = r
    <3>1. {reqs'[x].kind, reqs'[y].kind} = {kind, reqs[x].kind}
      BY <2>1, <2>4
    <3> QED BY <2>2, <3>1
  <2>5. CASE x # r /\ y # r
    BY <1>3, <2>1, <2>5
  <2> QED BY <2>3, <2>4, <2>5
<1> QED BY <1>5, <1>6, HandlesTurn, OutsideTurns DEF Next

GrantsAlone == KeptApart(Granting, {"setup", "create"})

LEMMA Separate ==
  ASSUME AllApart, NEW K, NEW J, KeptApart(K, J),
         NEW x \in Requests, NEW y \in Requests, x # y
  PROVE  ~(reqs[x].kind \in K /\ reqs[y].kind \in J)
BY DEF AllApart, Together, KeptApart

\* A request that lost the account it read finds no account of that id.
StaleOK(q, u) ==
    /\ q.kind = "delete" => q.id # Local
    /\ q.kind \in Granting /\ q.step # "write" => Holder(q) = Local
    /\ q.stale => q.kind \in Granting /\ q.step = "write" /\ Holder(q) \notin DOMAIN u
StaleInv == \A r \in Requests : StaleOK(reqs[r], users)

LEMMA IdleNotStale == \A u : StaleOK(Idle, u)
BY IdleIsRequest DEF StaleOK, Granting, None

\* Rows change under a request; accounts come only if it is not one that grants.
LEMMA RowsStale ==
  ASSUME NEW q \in Request, StaleOK(q, users), NEW gone, Local \notin gone,
         NEW u, NEW s, NEW t,
         q.kind \in Granting => DOMAIN u \subseteq DOMAIN users /\ DOMAIN u \cap gone = {}
  PROVE  StaleOK(Seen(Bereft(q, gone), u, s, t), u)
<1> DEFINE b == Bereft(q, gone)
           n == Seen(b, u, s, t)
<1>1. /\ b \in Request /\ b.kind = q.kind /\ b.step = q.step /\ b.id = q.id /\ b.me = q.me
      /\ b.stale => q.stale \/ (q.kind \in Granting /\ Holder(q) \in gone)
  BY BereftKeeps
<1> HIDE DEF b
<1>2. n.kind = q.kind /\ n.step = q.step /\ n.id = q.id /\ n.me = q.me /\ n.stale = b.stale
  BY <1>1, SeenKeeps
<1> HIDE DEF n
<1>3. Holder(n) = Holder(q)
  BY <1>2 DEF Holder
<1>4. n.stale => n.kind \in Granting /\ n.step = "write" /\ Holder(n) \notin DOMAIN u
  <2> SUFFICES ASSUME b.stale
      PROVE  q.kind \in Granting /\ q.step = "write" /\ Holder(q) \notin DOMAIN u
    BY <1>2, <1>3, Zenon
  <2>1. CASE q.stale
    BY <2>1 DEF StaleOK
  <2>2. CASE q.kind \in Granting /\ Holder(q) \in gone
    BY <2>2 DEF StaleOK
  <2> QED BY <1>1, <2>1, <2>2, Zenon
<1>5. StaleOK(n, u)
  BY <1>2, <1>3, <1>4 DEF StaleOK
<1> QED BY <1>5 DEF n, b

LEMMA WritesStale ==
  ASSUME Typed, StaleInv, NEW r, NEW q \in Request, StaleOK(q, users),
         NEW gone, Local \notin gone, NEW u, NEW s, NEW t, Writes(r, q, gone, u, s, t),
         q.kind \notin Granting,
         \A x \in Requests \ {r} : reqs[x].kind \in Granting =>
             DOMAIN u \subseteq DOMAIN users /\ DOMAIN u \cap gone = {}
  PROVE  StaleInv'
<1>1. ASSUME NEW x \in Requests PROVE StaleOK(reqs'[x], u)
  <2> DEFINE n == IF x = r THEN q ELSE reqs[x]
  <2>1. /\ n \in Request /\ StaleOK(n, users)
        /\ n.kind \in Granting => DOMAIN u \subseteq DOMAIN users /\ DOMAIN u \cap gone = {}
    BY TypedParts DEF StaleInv
  <2>2. reqs'[x] = Seen(Bereft(n, gone), u, s, t)
    BY DEF Writes
  <2> HIDE DEF n
  <2> QED BY <2>1, <2>2, RowsStale
<1> QED BY <1>1 DEF StaleInv, Writes

LEMMA EndsStale ==
  ASSUME Typed, StaleInv, NEW r, NEW gone, Local \notin gone, NEW u, NEW s, NEW t,
         Ends(r, gone, u, s, t),
         \A x \in Requests \ {r} : reqs[x].kind \in Granting =>
             DOMAIN u \subseteq DOMAIN users /\ DOMAIN u \cap gone = {}
  PROVE  StaleInv'
<1>1. Idle \in Request /\ Idle.kind \notin Granting /\ StaleOK(Idle, users)
  BY IdleIsRequest, IdleNotStale DEF Granting, None
<1> QED BY <1>1, WritesStale DEF Ends

\* The accounts stay, or go.
LEMMA DoneStale ==
  ASSUME Typed, StaleInv, NEW r, NEW u, NEW s, NEW t, Done(r, u, s, t),
         DOMAIN u \subseteq DOMAIN users
  PROVE  StaleInv'
BY EndsStale DEF Done

LEMMA BecomesStale ==
  ASSUME Typed, StaleInv, NEW r \in Requests, NEW q, Becomes(r, q), StaleOK(q, users)
  PROVE  StaleInv'
BY TypedParts DEF Becomes, db, StaleInv

LEMMA RefusedStale ==
  ASSUME Typed, StaleInv, NEW r \in Requests, Refused(r)
  PROVE  StaleInv'
BY BecomesStale, IdleNotStale DEF Refused

\* No request is stale before its last step, and a step before that leaves it so.
LEMMA ReadsStale ==
  ASSUME Typed, StaleInv, NEW r \in Requests, NEW q, Becomes(r, q),
         reqs[r].step # "write", q.stale = reqs[r].stale,
         q.kind = "delete" => reqs[r].kind = "delete" /\ q.id = reqs[r].id,
         q.kind \in Granting => q.step = "write" \/ Holder(q) = Local
  PROVE  StaleInv'
<1>1. ~reqs[r].stale
  BY DEF StaleInv, StaleOK
<1>2. StaleOK(q, users)
  BY <1>1 DEF StaleInv, StaleOK
<1> QED BY <1>2, BecomesStale

LEMMA GoesStale ==
  ASSUME Typed, StaleInv, NEW r \in Requests, NEW step, GoesTo(r, step), reqs[r].step # "write"
  PROVE  StaleInv'
<1> DEFINE q == [reqs[r] EXCEPT !.step = step]
<1>1. /\ q.stale = reqs[r].stale /\ q.kind = reqs[r].kind /\ q.id = reqs[r].id
      /\ q.me = reqs[r].me /\ q.step = step
  BY TypedParts DEF Request
<1>2. Becomes(r, q)
  BY DEF GoesTo
<1> HIDE DEF q
<1>3. q.kind \in Granting => Holder(q) = Local
  BY <1>1 DEF Holder, StaleInv, StaleOK
<1> QED BY <1>1, <1>2, <1>3, ReadsStale

LEMMA ArriveStale ==
  ASSUME Typed, StaleInv, NEW r \in Requests, Arrives(r)
  PROVE  StaleInv'
<1>1. ASSUME NEW kind \in Kinds, NEW cred, NEW id, NEW email, NEW role,
             Arrive(r, kind, cred, id, email, role),
             kind = "delete" => id # Local, kind \in Granting => id = Local
      PROVE  StaleInv'
  <2> DEFINE a == kind \notin SelfService /\ CallerRole(cred) = "admin"
             q == [Idle EXCEPT !.kind = kind, !.step = FirstStep(kind), !.cred = cred,
                               !.id = id, !.email = email, !.role = role, !.admin = a]
  <2>1. Becomes(r, q)
    BY <1>1, Zenon DEF Arrive
  <2> HIDE DEF a
  <2>2. q.kind = kind /\ q.id = id /\ q.me = Local /\ q.stale = Idle.stale
    BY DEF Idle
  <2> HIDE DEF q
  <2>3. StaleOK(q, users)
    BY <1>1, <2>2, IdleIsRequest DEF StaleOK, Holder
  <2> QED BY <2>1, <2>3, BecomesStale
<1>2. Local \notin UserIds
  BY AccountsAssumption DEF UserIds, Local
<1>3. ASSUME NEW e \in Emails, NEW k \in {"setup", "login"},
             Arrive(r, k, <<None, 0>>, Local, e, None)
      PROVE  StaleInv'
  BY <1>1, <1>3 DEF Kinds
<1>4. ASSUME NEW c \in Creds, NEW k \in {"logout", "password", "mint", "config"},
             Arrive(r, k, c, Local, None, None)
      PROVE  StaleInv'
  BY <1>1, <1>4 DEF Kinds
<1>5. ASSUME NEW c \in Creds, NEW i \in UserIds, Arrive(r, "delete", c, i, None, None)
      PROVE  StaleInv'
  BY <1>1, <1>2, <1>5 DEF Kinds, Granting
<1>6. ASSUME NEW c \in Creds, NEW i \in CredIds, Arrive(r, "revoke", c, i, None, None)
      PROVE  StaleInv'
  BY <1>1, <1>6 DEF Kinds, Granting
<1>7. ASSUME NEW c \in Creds, NEW i \in UserIds, NEW v \in Roles,
             Arrive(r, "role", c, i, None, v)
      PROVE  StaleInv'
  BY <1>1, <1>7 DEF Kinds, Granting
<1>8. ASSUME NEW c \in Creds, NEW e \in Emails, NEW v \in Roles,
             Arrive(r, "create", c, Local, e, v)
      PROVE  StaleInv'
  BY <1>1, <1>8 DEF Kinds, Granting
<1> QED BY <1>3, <1>4, <1>5, <1>6, <1>7, <1>8 DEF Arrives

LEMMA HandlerReadsStale ==
  ASSUME Typed, StaleInv, NEW r \in Requests,
         \/ Dropped(r) \/ WrongPassword(r) \/ CreateReadsEmail(r) \/ Gate(r) \/ ReadsTarget(r)
         \/ CountsAdmins(r) \/ PasswordReadsHash(r) \/ RevokeReadsToken(r) \/ Authenticate(r)
         \/ SetupReadsToken(r) \/ LoginReadsUser(r) \/ SetupLooksUp(r)
  PROVE  StaleInv'
<1>1. reqs[r] \in Request
  BY TypedParts
<1>2. CASE Dropped(r) \/ WrongPassword(r) \/ CreateReadsEmail(r) \/ Gate(r)
           \/ ReadsTarget(r) \/ CountsAdmins(r) \/ PasswordReadsHash(r) \/ RevokeReadsToken(r)
  BY <1>2, RefusedStale, GoesStale
  DEF Dropped, WrongPassword, CreateReadsEmail, Gate, GateSees, ReadsTarget, CountsAdmins,
      PasswordReadsHash, RevokeReadsToken, At
<1>3. CASE Authenticate(r)
  <2>1. ASSUME NEW acct, Becomes(r, AfterAuth(reqs[r], acct)) PROVE StaleInv'
    <3> DEFINE q == AfterAuth(reqs[r], acct)
    <3>1. /\ q.kind = reqs[r].kind /\ q.id = reqs[r].id /\ q.stale = reqs[r].stale
          /\ q.kind = "mint" => q.step = "write"
      BY <1>1 DEF AfterAuth, Request
    <3>2. Becomes(r, q)
      BY <2>1
    <3> HIDE DEF q
    <3>3. reqs[r].step # "write"
      BY <1>3 DEF Authenticate, At
    <3>4. q.kind \in Granting => q.step = "write" \/ Holder(q) = Local
      BY <3>1, <3>3 DEF Granting, StaleInv, StaleOK, Holder
    <3> QED BY <3>1, <3>2, <3>3, <3>4, ReadsStale
  <2> QED BY <1>3, <2>1, RefusedStale DEF Authenticate
<1>4. CASE SetupReadsToken(r)
  <2> DEFINE q == [reqs[r] EXCEPT !.step = "write", !.token = setupFile]
  <2>1. q.kind = "setup" /\ q.stale = reqs[r].stale
    BY <1>1, <1>4 DEF Request, SetupReadsToken, At
  <2>2. Becomes(r, q) /\ reqs[r].step # "write"
    BY <1>4 DEF SetupReadsToken, At
  <2> HIDE DEF q
  <2> QED BY <2>1, <2>2, ReadsStale DEF Granting
<1>5. CASE LoginReadsUser(r)
  <2>1. PICK i : Becomes(r, [reqs[r] EXCEPT !.step = "write", !.id = i])
    BY <1>5 DEF LoginReadsUser
  <2> DEFINE q == [reqs[r] EXCEPT !.step = "write", !.id = i]
  <2>2. q.kind = "login" /\ q.stale = reqs[r].stale /\ q.step = "write"
    BY <1>1, <1>5 DEF Request, LoginReadsUser, At
  <2>3. Becomes(r, q) /\ reqs[r].step # "write"
    BY <1>5, <2>1 DEF LoginReadsUser, At
  <2> HIDE DEF q
  <2> QED BY <2>2, <2>3, ReadsStale
<1>6. CASE SetupLooksUp(r)
  <2>1. ASSUME NEW i, Becomes(r, [reqs[r] EXCEPT !.kind = "login", !.step = "write", !.id = i])
        PROVE  StaleInv'
    <3> DEFINE q == [reqs[r] EXCEPT !.kind = "login", !.step = "write", !.id = i]
    <3>1. q.kind = "login" /\ q.stale = reqs[r].stale /\ q.step = "write"
      BY <1>1 DEF Request
    <3>2. Becomes(r, q) /\ reqs[r].step # "write"
      BY <1>6, <2>1 DEF SetupLooksUp, At
    <3> HIDE DEF q
    <3> QED BY <3>1, <3>2, ReadsStale
  <2> QED BY <1>6, <2>1, RefusedStale DEF SetupLooksUp
<1> QED BY <1>2, <1>3, <1>4, <1>5, <1>6

LEMMA NobodyLocal == ASSUME Typed PROVE Local \notin DOMAIN users
BY TypedParts, AccountsAssumption DEF UsersOK, UserIds, Local

LEMMA HandlerWritesStale ==
  ASSUME Typed, AllApart, GrantsAlone, StaleInv, NEW r \in Requests,
         \/ SetupCommits(r) \/ SetupUnlinks(r) \/ LoginWritesSession(r) \/ LogsOut(r)
         \/ CreateWritesUser(r) \/ RoleWrites(r) \/ DeletesUser(r) \/ PasswordWrites(r)
         \/ ConfigWrites(r) \/ MintWrites(r) \/ RevokeWrites(r)
  PROVE  StaleInv'
<1>1. reqs[r] \in Request
  BY TypedParts
<1>2. reqs[r].kind \in {"setup", "create"} =>
        \A x \in Requests \ {r} : reqs[x].kind \notin Granting
  BY Separate DEF GrantsAlone
<1>3. CASE SetupCommits(r)
  <2> DEFINE q == [reqs[r] EXCEPT !.step = "unlink"]
  <2>1. q \in Request /\ q.kind = "setup" /\ q.stale = reqs[r].stale
    BY <1>1, <1>3 DEF Request, Steps, SetupCommits, At
  <2>2. reqs[r].kind = "setup"
    BY <1>3 DEF SetupCommits, At
  <2>3. PICK u, t : Writes(r, q, DOMAIN users, u, Empty, t)
    BY <1>3 DEF SetupCommits
  <2> HIDE DEF q
  <2>4. StaleOK(q, users)
    BY <2>1, <2>2 DEF StaleInv, StaleOK, Granting
  <2> QED BY <1>2, <2>1, <2>2, <2>3, <2>4, NobodyLocal, WritesStale DEF Granting
<1>4. CASE SetupUnlinks(r)
  <2> DEFINE q == [reqs[r] EXCEPT !.step = "lookup", !.token = None]
  <2>1. q.kind = "setup" /\ q.stale = reqs[r].stale /\ reqs[r].kind = "setup"
    BY <1>1, <1>4 DEF Request, SetupUnlinks, At
  <2>2. reqs' = [reqs EXCEPT ![r] = q]
    BY <1>1, <1>4, TypedParts DEF SetupUnlinks
  <2> HIDE DEF q
  <2>3. StaleOK(q, users)
    BY <2>1 DEF StaleInv, StaleOK, Granting
  <2>4. UNCHANGED users
    BY <1>4 DEF SetupUnlinks, db
  <2> QED BY <2>2, <2>3, <2>4, TypedParts DEF StaleInv
<1>5. CASE LoginWritesSession(r) \/ LogsOut(r) \/ PasswordWrites(r) \/ ConfigWrites(r)
           \/ MintWrites(r) \/ RevokeWrites(r)
  BY <1>5, RefusedStale, DoneStale
  DEF LoginWritesSession, LogsOut, PasswordWrites, ConfigWrites, MintWrites, RevokeWrites
<1>6. CASE RoleWrites(r)
  <2>1. DOMAIN [users EXCEPT ![reqs[r].id].role = reqs[r].role] = DOMAIN users
    OBVIOUS
  <2> QED BY <1>6, <2>1, RefusedStale, DoneStale DEF RoleWrites
<1>7. CASE CreateWritesUser(r)
  <2>1. reqs[r].kind = "create"
    BY <1>7 DEF CreateWritesUser, At
  <2> QED BY <1>2, <1>7, <2>1, RefusedStale, EndsStale DEF CreateWritesUser, Done
<1>8. CASE DeletesUser(r)
  <2> DEFINE u == Restrict(users, DOMAIN users \ {reqs[r].id})
  <2>1. DOMAIN u \subseteq DOMAIN users /\ DOMAIN u \cap {reqs[r].id} = {}
    BY DEF Restrict
  <2>2. Local \notin {reqs[r].id}
    BY <1>8 DEF DeletesUser, At, StaleInv, StaleOK
  <2>3. Ends(r, {reqs[r].id}, u, Cascade(sessions, {reqs[r].id}), Cascade(tokens, {reqs[r].id}))
    BY <1>8 DEF DeletesUser
  <2> HIDE DEF u
  <2> QED BY <2>1, <2>2, <2>3, EndsStale
<1> QED BY <1>3, <1>4, <1>5, <1>6, <1>7, <1>8

LEMMA StaleStep ==
  ASSUME GrantsAlone, Typed, AllApart, StaleInv, [Next]_vars
  PROVE  StaleInv'
<1>1. CASE UNCHANGED vars
  BY <1>1 DEF vars, StaleInv
<1>2. ASSUME NEW r \in Requests, Arrives(r) \/ Handles(r) \/ Dropped(r) PROVE StaleInv'
  BY <1>2, ArriveStale, HandlerReadsStale, HandlerWritesStale DEF Handles
<1>3. CASE UNCHANGED <<users, reqs>>
  BY <1>3 DEF StaleInv
<1>4. CASE Dies
  BY <1>4, IdleNotStale DEF Dies, StaleInv
<1>5. CASE CredentialExpires
  BY <1>5, DoneStale DEF CredentialExpires
<1> QED BY <1>1, <1>2, <1>3, <1>4, <1>5 DEF Next, Panel, Starts, BootSetupToken,
       WriteSetupToken, BootLocalToken, CreateLocalFile, WriteLocalFile, Operator,
       ResetPassword, DeletesLocalFile, TokenExpires, db

\* Nothing is added to a table.
LEMMA Fewer ==
  /\ \A c : DOMAIN c \subseteq DOMAIN c
  /\ \A c, S : DOMAIN (Restrict(c, DOMAIN c \ S)) \subseteq DOMAIN c
  /\ \A c, S : DOMAIN (Cascade(c, S)) \subseteq DOMAIN c
  /\ \A c : DOMAIN Empty \subseteq DOMAIN c
BY DEF Restrict, Cascade, Empty

LEMMA TablesForgone ==
  ASSUME NEW r, NEW gone, NEW u, NEW s, NEW t, Ends(r, gone, u, s, t) \/ Done(r, u, s, t),
         DOMAIN s \subseteq DOMAIN sessions, DOMAIN t \subseteq DOMAIN tokens
  PROVE  Forgone
BY DEF Ends, Done, Writes, Forgone

LEMMA ReadForgone ==
  ASSUME NEW r \in Requests,
         Refused(r) \/ (\E q : Becomes(r, q)) \/ (\E step : GoesTo(r, step))
  PROVE  Forgone
BY Fewer DEF Refused, GoesTo, Becomes, db, Forgone

\* Every handler but two leaves the credentials there are, or fewer.
LEMMA MostForgo ==
  ASSUME NEW r \in Requests, Arrives(r) \/ Handles(r) \/ Dropped(r),
         ~LoginWritesSession(r), ~MintWrites(r)
  PROVE  Forgone
<1>1. CASE Arrives(r)
  BY <1>1, ReadForgone DEF Arrives, Arrive
<1>2. CASE Dropped(r) \/ WrongPassword(r) \/ SetupReadsToken(r) \/ SetupLooksUp(r)
           \/ LoginReadsUser(r) \/ CreateReadsEmail(r)
  BY <1>2, ReadForgone
  DEF Dropped, WrongPassword, SetupReadsToken, SetupLooksUp, LoginReadsUser, CreateReadsEmail
<1>3. CASE Gate(r) \/ Authenticate(r) \/ ReadsTarget(r) \/ CountsAdmins(r)
           \/ PasswordReadsHash(r) \/ RevokeReadsToken(r)
  BY <1>3, ReadForgone
  DEF Gate, GateSees, Authenticate, ReadsTarget, CountsAdmins, PasswordReadsHash, RevokeReadsToken
<1>4. CASE SetupCommits(r)
  BY <1>4, Fewer DEF SetupCommits, Writes, Forgone
<1>5. CASE SetupUnlinks(r)
  BY <1>5 DEF SetupUnlinks, db, Forgone
<1>6. CASE LogsOut(r) \/ RevokeWrites(r) \/ DeletesUser(r)
  BY <1>6, Fewer, TablesForgone, ReadForgone DEF LogsOut, RevokeWrites, DeletesUser
<1>7. CASE CreateWritesUser(r) \/ RoleWrites(r) \/ PasswordWrites(r) \/ ConfigWrites(r)
  BY <1>7, Fewer, TablesForgone, ReadForgone
  DEF CreateWritesUser, RoleWrites, PasswordWrites, ConfigWrites
<1> QED BY <1>1, <1>2, <1>3, <1>4, <1>5, <1>6, <1>7 DEF Handles

\* The two that do add one only for an account that is there, and end no other request.
LEMMA GrantsForgo ==
  ASSUME Typed, StaleInv, NEW r \in Requests, LoginWritesSession(r) \/ MintWrites(r),
         NEW x \in Requests, reqs[x].stale, reqs'[x] = Idle
  PROVE  Forgone
<1>1. reqs[x].kind \in Granting /\ Holder(reqs[x]) \notin DOMAIN users
  BY DEF StaleInv, StaleOK
<1>2. CASE Refused(r)
  BY <1>2, ReadForgone
<1>3. CASE x # r
  <2>1. ASSUME NEW u, NEW s, NEW t, Done(r, u, s, t) PROVE FALSE
    <3>1. reqs'[x] = Seen(Bereft(reqs[x], {}), u, s, t)
      BY <1>3, <2>1 DEF Done, Ends, Writes
    <3>2. reqs'[x].kind = reqs[x].kind
      BY <3>1, SeenKeeps, BereftKeeps, TypedParts
    <3> QED BY <1>1, <3>2, IdleIsRequest DEF Granting, None
  <2> QED BY <1>2, <2>1 DEF LoginWritesSession, MintWrites
<1>4. CASE x = r
  BY <1>1, <1>2, <1>4 DEF LoginWritesSession, MintWrites, At, Holder
<1> QED BY <1>3, <1>4

LEMMA NextForgoes ==
  ASSUME Typed, StaleInv, [Next]_vars, NEW x \in Requests, reqs[x].stale, reqs'[x] = Idle
  PROVE  Forgone
<1>1. CASE UNCHANGED db
  BY <1>1 DEF db, Forgone
<1>2. ASSUME NEW r \in Requests, Arrives(r) \/ Handles(r) \/ Dropped(r) PROVE Forgone
  BY <1>2, MostForgo, GrantsForgo
<1>3. CASE CredentialExpires
  BY <1>3, Fewer, TablesForgone DEF CredentialExpires
<1>4. CASE BootLocalToken
  BY <1>4 DEF BootLocalToken, Forgone
<1> QED BY <1>1, <1>2, <1>3, <1>4 DEF Next, Panel, Dies, Starts, BootSetupToken,
       WriteSetupToken, CreateLocalFile, WriteLocalFile, Operator, ResetPassword,
       DeletesLocalFile, TokenExpires, vars, db

\* If no account comes, by set-up or otherwise, while a login or the minting of a token
\* is handled, a session or a token ends with its account, whatever else overlaps and
\* whatever dies: a handler that lost its account meets the foreign key.
THEOREM NothingOrphaned ==
  ASSUME GrantsAlone
  PROVE  Spec => NoOrphans
<1> DEFINE Inv == Typed /\ AllApart /\ StaleInv
<1>1. Init => Inv
  BY TypedInit, ApartInit, IdleNotStale DEF Init, StaleInv
<1>2. Inv /\ [Next]_vars => Inv'
  BY TypedStep, ApartNext, StaleStep
<1>3. Inv /\ [Next]_vars =>
        [/\ Rooted'
         /\ \A r \in Requests : reqs[r].stale /\ reqs'[r] = Idle => Forgone]_vars
  <2> SUFFICES ASSUME Inv, [Next]_vars
      PROVE  /\ Rooted'
             /\ \A r \in Requests : reqs[r].stale /\ reqs'[r] = Idle => Forgone
    OBVIOUS
  <2>1. Rooted'
    BY TypedStep DEF Typed
  <2> QED BY <2>1, NextForgoes
<1> HIDE DEF Inv
<1> QED BY <1>1, <1>2, <1>3, PTL DEF Spec, NoOrphans

(* ------------------------- the gate of the panel ------------------------- *)

\* A request behind the gate: while it is on its way its credential is live or known
\* to be none, an administrator's has been noted as one, and nobody else gets past.
GateOK(q, u, s, t) ==
    q.kind \in Kinds \ SelfService =>
        /\ q.step \in {"gate", "auth"} =>
             /\ Live(q.cred, s, t) \/ q.cred = <<None, 0>>
             /\ RoleIn(Account(q.cred, s, t), u) = "admin" => q.admin
        /\ q.step = "auth" => q.admin \/ Account(q.cred, s, t) = -1
        /\ q.step \notin {"gate", "auth"} => q.admin

GateInv == Typed /\ \A r \in Requests : GateOK(reqs[r], users, sessions, tokens)

LEMMA IdleGate == \A u, s, t : GateOK(Idle, u, s, t)
BY IdleIsRequest DEF GateOK, Kinds, None

LEMMA NobodysAccount ==
  ASSUME NEW u, UsersOK(u), NEW s, NEW t
  PROVE  /\ Account(<<None, 0>>, s, t) = -1
         /\ RoleIn(-1, u) = None
<1>1. Account(<<None, 0>>, s, t) = -1
  BY DEF Account, None
<1>2. -1 \notin DOMAIN u
  BY AccountsAssumption DEF UsersOK, UserIds
<1>3. RoleIn(-1, u) = None
  BY <1>2 DEF RoleIn, Local
<1> QED BY <1>1, <1>3

\* Rows change under a request on its way.
LEMMA SeenGate ==
  ASSUME Typed, NEW q \in Request, GateOK(q, users, sessions, tokens),
         NEW u, NEW s, NEW t, UsersOK(u)
  PROVE  GateOK(Seen(q, u, s, t), u, s, t)
<1> DEFINE n == Seen(q, u, s, t)
           saw == Gated(q) /\ Live(q.cred, s, t)
                  /\ RoleIn(Account(q.cred, s, t), u) = "admin"
<1>1. CASE q = Idle
  BY <1>1, SeenKeeps, IdleGate
<1>2. CASE q # Idle
  <2>1. /\ n.cred = IF Live(q.cred, s, t) THEN q.cred ELSE <<None, 0>>
        /\ n.admin = (q.admin \/ saw)
    <3>1. n = [q EXCEPT !.cred = IF Live(@, s, t) THEN @ ELSE <<None, 0>>,
                        !.admin = @ \/ saw]
      BY <1>2, Zenon DEF Seen
    <3>2. "cred" \in DOMAIN q /\ "admin" \in DOMAIN q
      BY DEF Request
    <3> HIDE DEF saw, n
    <3> QED BY <3>1, <3>2, Zenon
  <2>2. n.kind = q.kind /\ n.step = q.step
    BY SeenKeeps
  <2> SUFFICES ASSUME q.kind \in Kinds \ SelfService PROVE GateOK(n, u, s, t)
    BY <2>2 DEF GateOK
  <2> HIDE DEF n
  <2>3. Gated(q)
    BY DEF Gated
  <2>4. q.admin => n.admin
    BY <2>1, Zenon
  <2>5. q.step \notin {"gate", "auth"} => n.admin
    BY <2>4 DEF GateOK
  <2>6. Live(n.cred, s, t) \/ n.cred = <<None, 0>>
    BY <2>1
  <2>7. RoleIn(Account(n.cred, s, t), u) = "admin" => n.admin
    <3>1. CASE Live(q.cred, s, t)
      <4>1. n.cred = q.cred
        BY <2>1, <3>1
      <4> QED BY <2>1, <2>3, <3>1, <4>1, Zenon
    <3>2. CASE ~Live(q.cred, s, t)
      <4>1. RoleIn(Account(n.cred, s, t), u) = None
        BY <2>1, <3>2, NobodysAccount
      <4> QED BY <4>1 DEF None
    <3> QED BY <3>1, <3>2
  <2>8. q.step = "auth" /\ ~q.admin => Account(n.cred, s, t) = -1
    <3> SUFFICES ASSUME q.step = "auth", ~q.admin PROVE Account(n.cred, s, t) = -1
      OBVIOUS
    <3>1. Account(q.cred, sessions, tokens) = -1
      BY DEF GateOK
    <3>2. CASE ~Live(q.cred, s, t)
      BY <2>1, <3>2, NobodysAccount
    <3>3. CASE q.cred = <<None, 0>>
      BY <2>1, <3>3, NobodysAccount
    <3>4. CASE Live(q.cred, sessions, tokens) /\ Live(q.cred, s, t)
      <4>1. n.cred = q.cred
        BY <2>1, <3>4
      <4>2. q.cred[1] = "local"
        <5>1. ASSUME NEW a \in DOMAIN users PROVE a # -1
          BY TypedParts, AccountsAssumption DEF UsersOK, UserIds
        <5> QED BY <3>1, <3>4, <5>1, TypedParts DEF Live, Account, TableOK
      <4> QED BY <3>1, <4>1, <4>2 DEF Account
    <3> QED BY <3>2, <3>3, <3>4 DEF GateOK
  <2> QED BY <2>2, <2>4, <2>5, <2>6, <2>7, <2>8 DEF GateOK
<1> QED BY <1>1, <1>2

LEMMA WritesGate ==
  ASSUME GateInv, Typed', NEW r, NEW q \in Request, GateOK(q, users, sessions, tokens),
         NEW gone, NEW u, NEW s, NEW t, Writes(r, q, gone, u, s, t), UNCHANGED localRow
  PROVE  GateInv'
<1>1. users' = u /\ sessions' = s /\ tokens' = t /\ UsersOK(u)
  BY TypedPartsNext DEF Writes
<1>2. ASSUME NEW x \in Requests PROVE GateOK(reqs'[x], u, s, t)
  <2> DEFINE n == IF x = r THEN q ELSE reqs[x]
  <2>1. n \in Request /\ GateOK(n, users, sessions, tokens)
    BY TypedParts DEF GateInv
  <2>2. reqs'[x] = Seen(Bereft(n, gone), u, s, t)
    BY DEF Writes
  <2> HIDE DEF n
  <2>3. Bereft(n, gone) \in Request /\ GateOK(Bereft(n, gone), users, sessions, tokens)
    BY <2>1, BereftKeeps DEF GateOK
  <2> QED BY <1>1, <2>2, <2>3, SeenGate DEF GateInv
<1>3. ASSUME NEW x \in Requests PROVE GateOK(reqs[x], users, sessions, tokens)'
  BY <1>1, <1>2 DEF GateOK, Account, Live, RoleIn
<1> QED BY <1>3 DEF GateInv

LEMMA ReadsGate ==
  ASSUME GateInv, Typed', NEW r \in Requests, NEW q, Becomes(r, q),
         GateOK(q, users, sessions, tokens)
  PROVE  GateInv'
<1>1. UNCHANGED <<users, sessions, tokens, localRow>>
  BY DEF Becomes, db
<1>2. ASSUME NEW x \in Requests PROVE GateOK(reqs'[x], users, sessions, tokens)
  BY TypedParts DEF Becomes, GateInv
<1>3. ASSUME NEW x \in Requests PROVE GateOK(reqs[x], users, sessions, tokens)'
  BY <1>1, <1>2 DEF GateOK, Account, Live, RoleIn
<1> QED BY <1>3 DEF GateInv

LEMMA RefusedGate ==
  ASSUME GateInv, NEW r \in Requests, Refused(r)
  PROVE  GateInv'
BY RefusedKeeps, IdleGate, ReadsGate DEF Refused, GateInv

LEMMA DoneGate ==
  ASSUME GateInv, Typed', NEW r, NEW gone, NEW u, NEW s, NEW t,
         Ends(r, gone, u, s, t) \/ Done(r, u, s, t)
  PROVE  GateInv'
BY IdleIsRequest, IdleGate, WritesGate DEF Done, Ends

\* Once behind the gate a request goes on as the administrator's it is.
LEMMA GoesGate ==
  ASSUME GateInv, Typed', NEW r \in Requests, NEW step \in Steps \ {"gate", "auth"},
         GoesTo(r, step), reqs[r].step \notin {"gate", "auth"}
  PROVE  GateInv'
<1> DEFINE q == [reqs[r] EXCEPT !.step = step]
<1>1. q.kind = reqs[r].kind /\ q.step = step /\ q.admin = reqs[r].admin
  BY TypedParts DEF GateInv, Request
<1>2. Becomes(r, q)
  BY DEF GoesTo
<1> HIDE DEF q
<1>3. GateOK(q, users, sessions, tokens)
  <2>1. reqs[r].kind \in Kinds \ SelfService => reqs[r].admin
    BY DEF GateInv, GateOK
  <2> QED BY <1>1, <2>1 DEF GateOK
<1> QED BY <1>2, <1>3, ReadsGate

LEMMA GateGate ==
  ASSUME ~ReadsFail, GateInv, NEW r \in Requests, Gate(r)
  PROVE  GateInv'
<1> DEFINE c == reqs[r].cred
           q == [reqs[r] EXCEPT !.step = "auth"]
<1>1. Typed' /\ reqs[r].step = "gate" /\ reqs[r] \in Request
  BY AuthTyped, TypedParts DEF GateInv, Gate, GateSees, At
<1>2. CASE Refused(r)
  BY <1>2, RefusedGate
<1>3. CASE GoesTo(r, "auth") /\ CallerRole(c) # "viewer"
  <2>1. q.kind = reqs[r].kind /\ q.step = "auth" /\ q.admin = reqs[r].admin /\ q.cred = c
    BY <1>1 DEF Request
  <2>2. Becomes(r, q)
    BY <1>3 DEF GoesTo
  <2> HIDE DEF q
  <2>3. GateOK(q, users, sessions, tokens)
    <3>1. GateOK(reqs[r], users, sessions, tokens)
      BY DEF GateInv
    <3>2. reqs[r].kind \in Kinds \ SelfService =>
            reqs[r].admin \/ Account(c, sessions, tokens) = -1
      <4>1. CASE Account(c, sessions, tokens) = -1
        BY <4>1
      <4>2. CASE RoleIn(Account(c, sessions, tokens), users) = "admin"
        BY <1>1, <3>1, <4>2 DEF GateOK
      <4>3. CASE Account(c, sessions, tokens) # -1
        <5>1. c \in Creds
          BY <1>1 DEF Request
        <5>2. CallerRole(c) \in Roles
          BY <4>3, <5>1, AccountKnown, TypedParts
          DEF GateInv, CallerRole, RoleIn, UsersOK, Roles
        <5> QED BY <1>3, <4>2, <5>2 DEF CallerRole, Roles
      <4> QED BY <4>1, <4>3
    <3> QED BY <1>1, <2>1, <3>1, <3>2 DEF GateOK
  <2> QED BY <1>1, <2>2, <2>3, ReadsGate
<1> QED BY <1>2, <1>3 DEF Gate, GateSees

LEMMA AuthGate ==
  ASSUME GateInv, NEW r \in Requests, Authenticate(r)
  PROVE  GateInv'
<1> DEFINE acct == Account(reqs[r].cred, sessions, tokens)
           q == AfterAuth(reqs[r], acct)
<1>1. Typed' /\ reqs[r].step = "auth" /\ reqs[r] \in Request
  BY AuthTyped, TypedParts DEF GateInv, Authenticate, At
<1>2. CASE Refused(r)
  BY <1>2, RefusedGate
<1>3. CASE acct # -1 /\ Becomes(r, q)
  <2>1. q.kind = reqs[r].kind /\ q.step \notin {"gate", "auth"} /\ q.admin = reqs[r].admin
    BY <1>1 DEF AfterAuth, Request
  <2>2. reqs[r].kind \in Kinds \ SelfService => reqs[r].admin
    BY <1>1, <1>3 DEF GateInv, GateOK
  <2>3. Becomes(r, q)
    BY <1>3
  <2> HIDE DEF q
  <2>4. GateOK(q, users, sessions, tokens)
    BY <2>1, <2>2 DEF GateOK
  <2> QED BY <1>1, <2>3, <2>4, ReadsGate
<1> QED BY <1>2, <1>3 DEF Authenticate, Unauthorized

LEMMA ArriveGate ==
  ASSUME GateInv, Typed', NEW r \in Requests, Arrives(r)
  PROVE  GateInv'
<1>1. ASSUME NEW kind, NEW cred, NEW id, NEW email, NEW role,
             Arrive(r, kind, cred, id, email, role),
             kind \in Kinds \ SelfService => Live(cred, sessions, tokens)
      PROVE  GateInv'
  <2> DEFINE a == kind \notin SelfService /\ CallerRole(cred) = "admin"
             q == [Idle EXCEPT !.kind = kind, !.step = FirstStep(kind), !.cred = cred,
                               !.id = id, !.email = email, !.role = role, !.admin = a]
  <2>1. Becomes(r, q)
    BY <1>1, Zenon DEF Arrive
  <2>2. q.kind = kind /\ q.step = FirstStep(kind) /\ q.cred = cred
    BY IdleIsRequest DEF Request
  <2>3. q.admin = a
    <3>1. "admin" \in DOMAIN Idle
      BY DEF Idle
    <3> HIDE DEF a
    <3> QED BY <3>1, Zenon
  <2>4. kind \in Kinds \ SelfService => FirstStep(kind) = "gate"
    BY DEF FirstStep, SelfService, Anonymous
  <2>5. kind \in Kinds \ SelfService /\ CallerRole(cred) = "admin" => a
    BY Zenon
  <2> HIDE DEF q
  <2>6. kind \in Kinds \ SelfService /\ CallerRole(cred) = "admin" => q.admin
    BY <2>3, <2>5, Zenon
  <2> HIDE DEF a
  <2>7. GateOK(q, users, sessions, tokens)
    BY <1>1, <2>2, <2>4, <2>6 DEF GateOK, CallerRole
  <2> QED BY <2>1, <2>7, ReadsGate
<1>2. ASSUME NEW c \in Creds, CallerRole(c) # None PROVE Live(c, sessions, tokens)
  <2>1. Account(c, sessions, tokens) # -1
    BY <1>2, NobodysAccount, TypedParts DEF GateInv, CallerRole
  <2> QED BY <2>1 DEF Account, Live
<1> QED BY <1>1, <1>2 DEF Arrives, SelfService

\* The handlers whose requests no gate stops.
LEMMA SelfServiceGate ==
  ASSUME GateInv, Typed', NEW r \in Requests,
         \/ SetupReadsToken(r) \/ SetupLooksUp(r) \/ LoginReadsUser(r)
         \/ SetupCommits(r) \/ SetupUnlinks(r)
  PROVE  GateInv'
<1>1. reqs[r] \in Request /\ reqs[r].kind \in SelfService
  BY TypedParts DEF GateInv, SetupReadsToken, SetupLooksUp, LoginReadsUser, SetupCommits,
     SetupUnlinks, At, SelfService
<1>2. ASSUME NEW q, Becomes(r, q), q.kind \in SelfService
      PROVE  GateInv'
  BY <1>2, ReadsGate DEF GateOK
<1>3. CASE SetupReadsToken(r)
  <2> DEFINE q == [reqs[r] EXCEPT !.step = "write", !.token = setupFile]
  <2>1. q.kind \in SelfService
    BY <1>1 DEF Request
  <2>2. Becomes(r, q)
    BY <1>3 DEF SetupReadsToken
  <2> HIDE DEF q
  <2> QED BY <1>2, <2>1, <2>2
<1>4. CASE SetupLooksUp(r)
  <2>1. CASE Refused(r)
    BY <2>1, RefusedGate
  <2>2. ASSUME NEW i, Becomes(r, [reqs[r] EXCEPT !.kind = "login", !.step = "write", !.id = i])
        PROVE  GateInv'
    <3> DEFINE q == [reqs[r] EXCEPT !.kind = "login", !.step = "write", !.id = i]
    <3>1. q.kind \in SelfService
      BY <1>1 DEF Request, SelfService
    <3>2. Becomes(r, q)
      BY <2>2
    <3> HIDE DEF q
    <3> QED BY <1>2, <3>1, <3>2
  <2> QED BY <1>4, <2>1, <2>2 DEF SetupLooksUp
<1>5. CASE LoginReadsUser(r)
  <2>1. PICK i : Becomes(r, [reqs[r] EXCEPT !.step = "write", !.id = i])
    BY <1>5 DEF LoginReadsUser
  <2> DEFINE q == [reqs[r] EXCEPT !.step = "write", !.id = i]
  <2>2. q.kind \in SelfService
    BY <1>1 DEF Request
  <2>3. Becomes(r, q)
    BY <2>1
  <2> HIDE DEF q
  <2> QED BY <1>2, <2>2, <2>3
<1>6. CASE SetupCommits(r)
  <2> DEFINE q == [reqs[r] EXCEPT !.step = "unlink"]
             u == Insert(Empty, 1, [email |-> reqs[r].email, role |-> "admin"])
             t == Cascade(tokens, DOMAIN users)
  <2>1. q \in Request /\ q.kind \in SelfService
    BY <1>1 DEF Request, Steps
  <2>2. Writes(r, q, DOMAIN users, u, Empty, t) /\ UNCHANGED localRow
    BY <1>6 DEF SetupCommits
  <2> HIDE DEF q, u, t
  <2>3. GateOK(q, users, sessions, tokens)
    BY <2>1 DEF GateOK
  <2> QED BY <2>1, <2>2, <2>3, WritesGate
<1>7. CASE SetupUnlinks(r)
  <2> DEFINE q == [reqs[r] EXCEPT !.step = "lookup", !.token = None]
  <2>1. q.kind \in SelfService
    BY <1>1 DEF Request
  <2>2. reqs' = [reqs EXCEPT ![r] = q]
    BY <1>1, <1>7, TypedParts DEF GateInv, SetupUnlinks
  <2> HIDE DEF q
  <2>3. UNCHANGED <<users, sessions, tokens, localRow>>
    BY <1>7 DEF SetupUnlinks, db
  <2>4. GateOK(q, users, sessions, tokens)
    BY <2>1 DEF GateOK
  <2>5. ASSUME NEW x \in Requests PROVE GateOK(reqs'[x], users, sessions, tokens)
    BY <2>2, <2>4, TypedParts DEF GateInv
  <2>6. ASSUME NEW x \in Requests PROVE GateOK(reqs[x], users, sessions, tokens)'
    BY <2>3, <2>5 DEF GateOK, Account, Live, RoleIn
  <2> QED BY <2>6 DEF GateInv
<1> QED BY <1>3, <1>4, <1>5, <1>6, <1>7

LEMMA HandlersGate ==
  ASSUME GateInv, Typed', NEW r \in Requests,
         \/ WrongPassword(r) \/ CreateReadsEmail(r) \/ ReadsTarget(r) \/ CountsAdmins(r)
         \/ PasswordReadsHash(r) \/ RevokeReadsToken(r) \/ Dropped(r)
         \/ LoginWritesSession(r) \/ LogsOut(r) \/ CreateWritesUser(r) \/ RoleWrites(r)
         \/ DeletesUser(r) \/ PasswordWrites(r) \/ ConfigWrites(r) \/ MintWrites(r)
         \/ RevokeWrites(r)
  PROVE  GateInv'
<1>1. CASE Refused(r)
  BY <1>1, RefusedGate
<1>2. ASSUME NEW step \in {"write", "count"}, GoesTo(r, step), reqs[r].step \in {"read", "count"}
      PROVE  GateInv'
  BY <1>2, GoesGate DEF Steps
<1>3. ASSUME NEW gone, NEW u, NEW s, NEW t, Ends(r, gone, u, s, t) \/ Done(r, u, s, t)
      PROVE  GateInv'
  BY <1>3, DoneGate
<1>4. CASE WrongPassword(r) \/ CreateReadsEmail(r) \/ ReadsTarget(r) \/ CountsAdmins(r)
           \/ PasswordReadsHash(r) \/ RevokeReadsToken(r) \/ Dropped(r)
  BY <1>1, <1>2, <1>4 DEF WrongPassword, CreateReadsEmail, ReadsTarget, CountsAdmins,
     PasswordReadsHash, RevokeReadsToken, Dropped, At
<1>5. CASE LoginWritesSession(r) \/ LogsOut(r) \/ CreateWritesUser(r) \/ RoleWrites(r)
  BY <1>1, <1>3, <1>5 DEF LoginWritesSession, LogsOut, CreateWritesUser, RoleWrites
<1>6. CASE DeletesUser(r) \/ PasswordWrites(r) \/ ConfigWrites(r) \/ MintWrites(r)
           \/ RevokeWrites(r)
  BY <1>1, <1>3, <1>6 DEF DeletesUser, PasswordWrites, ConfigWrites, MintWrites, RevokeWrites
<1> QED BY <1>4, <1>5, <1>6

LEMMA OutsideGate ==
  ASSUME GateInv, Typed', Panel \/ Operator
  PROVE  GateInv'
<1>1. CASE Panel
  <2>1. \A r \in Requests : reqs'[r] = Idle
    BY <1>1, TypedParts DEF GateInv, Panel, Dies, Starts, BootSetupToken, WriteSetupToken,
       BootLocalToken, CreateLocalFile, WriteLocalFile
  <2>2. ASSUME NEW r \in Requests PROVE GateOK(reqs[r], users, sessions, tokens)'
    BY <2>1, IdleIsRequest DEF GateOK, Kinds, None
  <2> QED BY <2>2 DEF GateInv
<1>2. CASE UNCHANGED <<users, sessions, tokens, localRow, reqs>>
  BY <1>2 DEF GateInv, GateOK, Account, Live, RoleIn
<1>3. CASE CredentialExpires
  BY <1>3, DoneGate DEF CredentialExpires
<1> QED BY <1>1, <1>2, <1>3 DEF Operator, ResetPassword, DeletesLocalFile, TokenExpires, db

LEMMA GateStep == ASSUME ~ReadsFail, GateInv, [Next]_vars PROVE GateInv'
<1>1. Typed'
  BY TypedStep DEF GateInv
<1>2. CASE UNCHANGED vars
  BY <1>2 DEF vars, GateInv, GateOK, Account, Live, RoleIn, Typed, TypeOK, Rooted
<1>3. ASSUME NEW r \in Requests, Arrives(r) \/ Handles(r) \/ Dropped(r) PROVE GateInv'
  BY <1>1, <1>3, ArriveGate, GateGate, AuthGate, SelfServiceGate, HandlersGate DEF Handles
<1> QED BY <1>1, <1>2, <1>3, OutsideGate DEF Next

\* If the look-up of a caller's credentials never fails, only who was an administrator
\* at some moment of a request gets to a handler behind the gate: whatever is demoted,
\* deleted, logged out or revoked while the request is on its way.
THEOREM GateHolds ==
  ASSUME ~ReadsFail
  PROVE  Spec => []OnlyAdminsMutate
<1>1. Init => GateInv
  BY TypedInit, IdleGate DEF Init, GateInv
<1>2. GateInv => OnlyAdminsMutate
  BY DEF GateInv, GateOK, OnlyAdminsMutate
<1>3. GateInv /\ [Next]_vars => GateInv'
  BY GateStep
<1> QED BY <1>1, <1>2, <1>3, PTL DEF Spec
=============================================================================
