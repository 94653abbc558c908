---------------------------- MODULE Credentials -----------------------------
(***************************************************************************)
(* What certificates are issued with: the credential profiles of DNS       *)
(* providers and their secrets, the EAB pair and the custom directory of   *)
(* the certificate authorities, the token of the ACME hook, and the key    *)
(* file the secrets are sealed with (acme_hook.rs, certs.rs, settings.rs,  *)
(* apply_api.rs, secretbox.rs, acme_cas.rs).                               *)
(*                                                                         *)
(* All but the profile and certificate rows are keys of one settings       *)
(* table, each written by a statement of its own.  A certificate refers to *)
(* a profile by a text column no foreign key guards.                       *)
(***************************************************************************)
EXTENDS Integers, Sequences

CONSTANTS
    Requests,     \* requests handled at a time
    Fields,       \* credential fields of the DNS provider
    Pairs,        \* EAB pairs an operator may enter
    Tokens,       \* random values of the hook token
    Imports,      \* documents that may be imported
    MaxProfiles, MaxCerts,  \* bounds on row ids
    Apart         \* pairs of kinds of requests not handled at the same time

None == "none"
Kinds == {"newprofile", "reprofile", "unprofile", "cert", "recert", "uncert",
          "setdir", "cleardir", "puteab", "uneab", "build", "import"}
ProfileIds == 1..MaxProfiles
CertIds == 1..MaxCerts
\* Authorities: one that needs nothing, one that requires EAB, the custom one.
Cas == {"plain", "eab", "custom"}
\* Whose a stored value is: nobody stored one, the profile it is stored under, or
\* another; and whether it is sealed.
Secrets == {None, "own", "plaintext", "stranger"}

CertRows == [dns: ProfileIds \cup {0}, ca: Cas]

\* What an import can be given, before it looks at what the document's rows refer to.
Document(doc) ==
    /\ doc.profiles \subseteq ProfileIds
    /\ DOMAIN doc.certs \subseteq CertIds /\ \A i \in DOMAIN doc.certs : doc.certs[i] \in CertRows
    /\ doc.directory \in {None, "empty", "url"}

ASSUME CredentialsAssumption ==
    /\ MaxProfiles \in Nat \ {0} /\ MaxCerts \in Nat \ {0}
    /\ None \notin Pairs \cup Tokens
    /\ \A doc \in Imports : Document(doc)
    /\ \A two \in Apart : two \subseteq Kinds

VARIABLES
    profiles,   \* dns_credentials: the set of ids
    secrets,    \* settings dns_cred:<id>:<field>
    certs,      \* certificates: a partial function to provider and authority
    kid, hmac,  \* the two halves of the EAB pair in the settings
    directory,  \* whether acme_custom_directory is set
    hookToken,  \* acme_hook_token
    built,      \* tokens in the file sets built so far: a history
    key,        \* secret.key: None, "torn" or "whole"
    phase,      \* the panel: "down", "sealing", "writing-key" or "serving"
    failed,     \* whether the migration of this start ended in an error: a history
    reqs        \* requests in flight
vars == <<profiles, secrets, certs, kid, hmac, directory, hookToken, built, key, phase, failed, reqs>>
pair == <<kid, hmac>>
panel == <<phase, failed>>
rest == <<certs, pair, directory, hookToken, built, panel>>

Idle == [kind |-> None, id |-> 0, dns |-> 0, ca |-> "plain", pair |-> None, stale |-> FALSE,
         todo |-> <<>>]

Steps == {"insert", "profile", "key", "write-key", "store", "unused", "certificate", "provider",
          "directory", "kid", "hmac", "write", "write-kid", "write-hmac", "token", "write-token"}
Request == [kind: Kinds \cup {None}, id: Nat, dns: ProfileIds \cup {0}, ca: Cas,
            pair: Pairs \cup Tokens \cup {None}, stale: BOOLEAN, todo: Seq(Steps)]

(* ------------------------- the order of the calls ------------------------ *)

When(cond, steps) == IF cond THEN steps ELSE <<>>

CaPlan(ca) ==
    CASE ca = "custom" -> <<"directory">>
      [] ca = "eab" -> <<"key", "kid", "hmac">>
      [] OTHER -> <<>>

CertPlan(kind, dns, ca) ==
    When(kind = "recert", <<"certificate">>) \o When(dns # 0, <<"provider">>)
    \o CaPlan(ca) \o <<"write">>

Plan(kind, dns, ca) ==
    CASE kind = "newprofile" -> <<"insert", "key", "store">>
      [] kind = "reprofile" -> <<"profile", "key", "store">>
      [] kind = "unprofile" -> <<"unused", "write">>
      [] kind \in {"cert", "recert"} -> CertPlan(kind, dns, ca)
      [] kind = "cleardir" -> <<"unused", "write">>
      [] kind = "puteab" -> <<"key", "write-kid", "write-hmac">>
      [] kind = "uneab" -> <<"unused", "write-kid", "write-hmac">>
      [] kind = "build" -> <<"token">>
      [] OTHER -> <<"write">>

Ask(kind, id, dns, ca, p) ==
    [Idle EXCEPT !.kind = kind, !.id = id, !.dns = dns, !.ca = ca, !.pair = p,
                 !.todo = Plan(kind, dns, ca)]

\* What may be asked for: a kind, with the profile or certificate it is about, the
\* provider and the authority of a certificate, or an EAB pair.
Simple == {"newprofile", "setdir", "cleardir", "uneab", "build", "import"}
OfProfile == {"reprofile", "unprofile"}
CertAsks(kind, id) ==
    UNION {{Ask(kind, id, dns, ca, None) : ca \in Cas} : dns \in ProfileIds \cup {0}}
ProfileAsks(id) == {Ask(kind, id, 0, "plain", None) : kind \in OfProfile}
Asks ==
    {Ask(kind, 0, 0, "plain", None) : kind \in Simple}
    \cup (UNION {ProfileAsks(id) : id \in ProfileIds})
    \cup CertAsks("cert", 0) \cup (UNION {CertAsks("recert", id) : id \in CertIds})
    \cup {Ask("uncert", id, 0, "plain", None) : id \in CertIds}
    \cup {Ask("puteab", 0, 0, "plain", p) : p \in Pairs}

MayStart(kind) == \A x \in Requests : {kind, reqs[x].kind} \notin Apart

Arrive(r, q) ==
    /\ phase = "serving" /\ reqs[r] = Idle /\ MayStart(q.kind)
    /\ reqs' = [reqs EXCEPT ![r] = q]
    /\ UNCHANGED <<profiles, secrets, key, rest>>

At(r, step) == phase = "serving" /\ reqs[r].todo # <<>> /\ Head(reqs[r].todo) = step

Onward(q) == [q EXCEPT !.todo = Tail(q.todo)]
Outdated(q) == [q EXCEPT !.stale = TRUE]

\* Whether q is about to store secrets under the id of a profile it has read or made.
Stores(q) == /\ q.kind \in {"newprofile", "reprofile"} /\ q.todo # <<>>
             /\ Head(q.todo) \in {"key", "write-key", "store"}

\* reqs after request r ended, and the profiles in gone were deleted or replaced: whoever
\* has read one of them goes on with what it read.
After(r, gone) ==
    [x \in Requests |->
        IF x = r THEN Idle
        ELSE IF Stores(reqs[x]) /\ reqs[x].id \in gone THEN Outdated(reqs[x]) ELSE reqs[x]]

Goes(r) == reqs' = [reqs EXCEPT ![r] = Onward(reqs[r])]
Ends(r) == reqs' = [reqs EXCEPT ![r] = Idle]
Passes(r, cond) ==
    /\ IF cond THEN Goes(r) ELSE Ends(r)
    /\ UNCHANGED <<profiles, secrets, key, rest>>

(* ------------------------------ the key file ----------------------------- *)

\* load_or_create_key: the file is made with create_new and then written.  A torn file
\* is refused, not overwritten.
Making(q) == [q EXCEPT !.todo = <<"write-key">> \o Tail(q.todo)]
LoadsKey(r) ==
    /\ At(r, "key")
    /\ \/ key = "whole" /\ Passes(r, TRUE)
       \/ key = "torn" /\ Passes(r, FALSE)
       \/ /\ key = None /\ key' = "torn"
          /\ reqs' = [reqs EXCEPT ![r] = Making(reqs[r])]
          /\ UNCHANGED <<profiles, secrets, rest>>

WritesKey(r) ==
    /\ At(r, "write-key")
    /\ key' = "whole" /\ Goes(r)
    /\ UNCHANGED <<profiles, secrets, rest>>

(* ---------------------------- profiles, secrets -------------------------- *)

\* SQLite's next row id of a table whose rows have the ids in S: one above the highest.
IsNextId(new, S) == (\A i \in S : i < new) /\ (new = 1 \/ new - 1 \in S)

Inserted(q, id) == [q EXCEPT !.id = id, !.todo = Tail(q.todo)]
InsertsProfile(r) ==
    /\ At(r, "insert")
    /\ \E id \in ProfileIds :
        /\ IsNextId(id, profiles)
        /\ profiles' = profiles \cup {id}
        /\ reqs' = [reqs EXCEPT ![r] = Inserted(reqs[r], id)]
    /\ UNCHANGED <<secrets, key, rest>>

ReadsProfile(r) == At(r, "profile") /\ Passes(r, reqs[r].id \in profiles)

WithSecret(id, field, secret) ==
    [i \in ProfileIds |-> [f \in Fields |-> IF i = id /\ f = field THEN secret ELSE secrets[i][f]]]

\* store_creds: one field, sealed; the request's fields come in any order (a HashMap).
StoresField(r) ==
    /\ At(r, "store")
    /\ \E f \in Fields :
        secrets' = WithSecret(reqs[r].id, f, IF reqs[r].stale THEN "stranger" ELSE "own")
    /\ Ends(r) \/ UNCHANGED reqs
    /\ UNCHANGED <<profiles, key, rest>>

RowOnly(ids) == [i \in ProfileIds |->
    IF i \in ids THEN [f \in Fields |-> IF secrets[i][f] = None THEN None ELSE "stranger"] ELSE secrets[i]]
Purged(ids) == [i \in ProfileIds |-> IF i \in ids THEN [f \in Fields |-> None] ELSE secrets[i]]

\* delete_dns_credential: the row and its settings in one transaction.
DeletesProfile(r) ==
    /\ At(r, "write") /\ reqs[r].kind = "unprofile"
    /\ profiles' = profiles \ {reqs[r].id}
    /\ secrets' = Purged({reqs[r].id})
    /\ reqs' = After(r, {reqs[r].id})
    /\ UNCHANGED <<key, rest>>

(* ------------------- checks before a write or a removal ------------------ *)

Unasked(q) == TRUE
\* dns_credential_in_use; the check of put_settings; the check of delete_eab.
Unused(q) ==
    CASE q.kind = "unprofile" -> \A i \in DOMAIN certs : certs[i].dns # q.id
      [] q.kind = "cleardir" -> \A i \in DOMAIN certs : certs[i].ca # "custom"
      [] q.kind = "uneab" -> \A i \in DOMAIN certs : certs[i].ca # "eab"

ChecksUnused(r) == At(r, "unused") /\ Passes(r, Unused(reqs[r]))
ChecksCertificate(r) == At(r, "certificate") /\ Passes(r, reqs[r].id \in DOMAIN certs)

\* ensure_dns_provider_exists and ensure_ca_ready; eab_credentials opens each half with the
\* key, which it makes if there is none.
Unchecked(id) == TRUE
ProviderThere(id) == id \in profiles
ChecksProvider(r) == At(r, "provider") /\ Passes(r, ProviderThere(reqs[r].dns))
ChecksDirectory(r) == At(r, "directory") /\ Passes(r, directory)
ChecksKid(r) == At(r, "kid") /\ Passes(r, kid # None)
ChecksHmac(r) == At(r, "hmac") /\ Passes(r, hmac # None)

(* -------------------------------- writes --------------------------------- *)

\* The certificates with the row at id written, or without it; an UPDATE of no row writes
\* nothing.
With(id, row) == [i \in DOMAIN certs \cup {id} |-> IF i = id THEN row ELSE certs[i]]
Without(id) == [i \in DOMAIN certs \ {id} |-> certs[i]]

WritesCert(r) ==
    /\ At(r, "write") /\ reqs[r].kind \in {"cert", "recert", "uncert"}
    /\ LET q == reqs[r] IN
       \E id \in CertIds :
          /\ IF q.kind = "cert" THEN IsNextId(id, DOMAIN certs) ELSE id = q.id
          /\ certs' = IF q.kind = "uncert" THEN Without(id)
                      ELSE IF q.kind = "recert" /\ id \notin DOMAIN certs THEN certs
                      ELSE With(id, [dns |-> q.dns, ca |-> q.ca])
    /\ Ends(r)
    /\ UNCHANGED <<profiles, secrets, key, pair, directory, hookToken, built, panel>>

WritesDirectory(r) ==
    /\ At(r, "write") /\ reqs[r].kind \in {"setdir", "cleardir"}
    /\ directory' = (reqs[r].kind = "setdir")
    /\ Ends(r)
    /\ UNCHANGED <<profiles, secrets, key, certs, pair, hookToken, built, panel>>

\* put_eab and delete_eab (which stores the empty string) write the halves one by one.
WritesKid(r) ==
    /\ At(r, "write-kid") /\ kid' = reqs[r].pair /\ Goes(r)
    /\ UNCHANGED <<profiles, secrets, key, certs, hmac, directory, hookToken, built, panel>>

WritesHmac(r) ==
    /\ At(r, "write-hmac") /\ hmac' = reqs[r].pair /\ Ends(r)
    /\ UNCHANGED <<profiles, secrets, key, certs, kid, directory, hookToken, built, panel>>

\* ensure_acme_hook_token: get, or make one and store it; the file set carries the one
\* this call got or made.
Made(q, t) == [q EXCEPT !.pair = t, !.todo = <<"write-token">>]
GetsToken(r) ==
    /\ At(r, "token")
    /\ IF hookToken # None
       THEN built' = built \cup {hookToken} /\ Ends(r)
       ELSE /\ \E t \in Tokens \ built :
                /\ \A x \in Requests : reqs[x].pair # t
                /\ reqs' = [reqs EXCEPT ![r] = Made(reqs[r], t)]
            /\ UNCHANGED built
    /\ UNCHANGED <<profiles, secrets, key, certs, pair, directory, hookToken, panel>>

Unstored(t) == hookToken
Stored(t) == t

WritesToken(r) ==
    /\ At(r, "write-token")
    /\ hookToken' = Stored(reqs[r].pair) /\ built' = built \cup {reqs[r].pair}
    /\ Ends(r)
    /\ UNCHANGED <<profiles, secrets, key, certs, pair, directory, panel>>

\* Documents: providers within the document; the directory with the custom authority.
Accepted(doc) ==
    /\ \A i \in DOMAIN doc.certs : doc.certs[i].dns \in doc.profiles \cup {0}
    /\ (\E i \in DOMAIN doc.certs : doc.certs[i].ca = "custom") => doc.directory = "url"

\* import_replace: profiles come without secrets; a setting the document does not hold
\* stays as it was.
ImportsDoc(r) ==
    /\ At(r, "write") /\ reqs[r].kind = "import"
    /\ \E doc \in Imports :
        IF ~Accepted(doc) THEN Passes(r, FALSE)
        ELSE /\ profiles' = doc.profiles /\ certs' = doc.certs
             /\ secrets' = Purged(ProfileIds)
             /\ directory' = (doc.directory = "url" \/ (doc.directory = None /\ directory))
             /\ reqs' = After(r, ProfileIds)
             /\ UNCHANGED <<key, pair, hookToken, built, panel>>

(* ------------------------- crashes and the start ------------------------- *)

\* The client goes away at an await, or a statement or the key file fails and the request is
\* refused: what it has done stays.
Dropped(r) ==
    /\ phase = "serving" /\ reqs[r] # Idle
    /\ Ends(r)
    /\ UNCHANGED <<profiles, secrets, key, rest>>

Dies ==
    /\ phase # "down" /\ phase' = "down"
    /\ reqs' = [r \in Requests |-> Idle]
    /\ UNCHANGED <<profiles, secrets, key, certs, pair, directory, hookToken, built, failed>>

Starts ==
    /\ phase = "down" /\ phase' = "sealing" /\ failed' = FALSE
    /\ UNCHANGED <<profiles, secrets, key, certs, pair, directory, hookToken, built, reqs>>

Plaintext == {x \in ProfileIds \X Fields : secrets[x[1]][x[2]] = "plaintext"}

\* seal_legacy_credentials, before the panel serves: one value after the other, with a key
\* it makes if there is none.
SealsOne ==
    /\ phase = "sealing" /\ Plaintext # {} /\ key = "whole"
    /\ \E x \in Plaintext : secrets' = WithSecret(x[1], x[2], "own")
    /\ UNCHANGED <<profiles, key, rest, reqs>>

MakesKey ==
    /\ phase = "sealing" /\ Plaintext # {} /\ key = None
    /\ key' = "torn" /\ phase' = "writing-key"
    /\ UNCHANGED <<profiles, secrets, certs, pair, directory, hookToken, built, failed, reqs>>

FillsKey ==
    /\ phase = "writing-key"
    /\ key' = "whole" /\ phase' = "sealing"
    /\ UNCHANGED <<profiles, secrets, certs, pair, directory, hookToken, built, failed, reqs>>

\* An error ends the migration with the rest in the clear: of the database, before any of
\* the values, or of the key file, which is torn, cannot be read, made or written.  It is
\* logged, and the panel serves all the same (main.rs:202).
SealingFails ==
    /\ phase \in {"sealing", "writing-key"}
    /\ phase' = "serving" /\ failed' = TRUE
    /\ UNCHANGED <<profiles, secrets, key, certs, pair, directory, hookToken, built, reqs>>

Early == TRUE
AllSealed == Plaintext = {}

Serves ==
    /\ phase = "sealing" /\ AllSealed
    /\ phase' = "serving"
    /\ UNCHANGED <<profiles, secrets, key, certs, pair, directory, hookToken, built, failed, reqs>>

(* ---------------------------- specification ------------------------------ *)

\* A new panel, or one upgraded from a version that stored secrets in the clear.
Init ==
    /\ \/ profiles = {} /\ secrets = [i \in ProfileIds |-> [f \in Fields |-> None]]
       \/ profiles = {1} /\ secrets = [i \in ProfileIds |->
                                [f \in Fields |-> IF i = 1 THEN "plaintext" ELSE None]]
    /\ certs = [x \in {} |-> 0] /\ kid = None /\ hmac = None /\ directory = FALSE
    /\ hookToken = None /\ built = {} /\ key = None /\ phase = "down" /\ failed = FALSE
    /\ reqs = [r \in Requests |-> Idle]

Handles(r) ==
    \/ LoadsKey(r) \/ WritesKey(r)
    \/ InsertsProfile(r) \/ ReadsProfile(r) \/ StoresField(r) \/ DeletesProfile(r)
    \/ ChecksUnused(r) \/ ChecksCertificate(r) \/ ChecksProvider(r)
    \/ ChecksDirectory(r) \/ ChecksKid(r) \/ ChecksHmac(r)
    \/ WritesCert(r) \/ WritesDirectory(r) \/ WritesKid(r) \/ WritesHmac(r)
    \/ GetsToken(r) \/ WritesToken(r) \/ ImportsDoc(r)

NextOf(asks) ==
    \/ Dies \/ Starts \/ SealsOne \/ MakesKey \/ FillsKey \/ SealingFails \/ Serves
    \/ \E r \in Requests : (\E q \in asks : Arrive(r, q)) \/ Handles(r) \/ Dropped(r)
Next == NextOf(Asks)

Spec == Init /\ [][Next]_vars

(* ------------------------------ properties ------------------------------- *)

\* Every stored value has its type, and a request in flight has a step to take.
TypeOK ==
    /\ profiles \subseteq ProfileIds
    /\ secrets \in [ProfileIds -> [Fields -> Secrets]]
    /\ DOMAIN certs \subseteq CertIds /\ \A i \in DOMAIN certs : certs[i] \in CertRows
    /\ kid \in Pairs \cup {None} /\ hmac \in Pairs \cup {None}
    /\ hookToken \in Tokens \cup {None} /\ built \subseteq Tokens
    /\ key \in {None, "torn", "whole"}
    /\ directory \in BOOLEAN /\ failed \in BOOLEAN
    /\ phase \in {"down", "sealing", "writing-key", "serving"}
    /\ reqs \in [Requests -> Request]
    /\ \A r \in Requests : reqs[r].kind = None <=> reqs[r].todo = <<>>

\* "a restored profile can't silently inherit the previous install's credentials for the
\* same id" (repo.rs:1233): no profile has a secret that was entered for another.
SecretsAreTheirs == \A i \in profiles : \A f \in Fields : secrets[i][f] # "stranger"

\* "A DNS-01 provider reference must point at an existing credential profile"
\* (certs.rs:120), which no foreign key sees to; and clearing the directory "is refused
\* while a certificate still issues from it, or the next apply would fail"
\* (apply_api.rs:294): what a certificate is issued with is there as long as it is.
CertsCanIssue ==
    \A i \in DOMAIN certs :
        /\ certs[i].dns \in profiles \cup {0}
        /\ certs[i].ca = "custom" => directory

\* "Refused while a certificate needs them" (certs.rs:389): no step takes away half an
\* EAB pair a certificate's authority requires.
EabKept ==
    [][(\E i \in DOMAIN certs : certs[i].ca = "eab") /\ kid # None /\ hmac # None
       => kid' # None /\ hmac' # None]_vars

\* "Generated once ... and stored; stable across restarts" (settings.rs:148): the hook
\* token in every file set that was built is the one the panel accepts.
TokenStable == built \subseteq {hookToken}

\* "after it, no plaintext token remains in the settings table" (acme_hook.rs:563): whatever
\* crash or error interrupted an earlier migration, a panel whose migration ended without an
\* error starts serving with every secret sealed; and no step, of a migration or of a
\* request, ever puts one in the clear.  A panel whose migration failed serves with what is
\* left in the clear, until a start seals it.
SealedAtRest ==
    [][/\ Plaintext' \subseteq Plaintext
       /\ phase # "serving" /\ phase' = "serving" /\ ~failed' => Plaintext' = {}]_vars
=============================================================================
