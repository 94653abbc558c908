------------------------------ MODULE Registry ------------------------------
(***************************************************************************)
(* The host registry: proxy, redirect and 404 hosts, streams and SNI       *)
(* routers, the certificates and access lists they refer to, and the       *)
(* import that replaces all of them (hosts.rs, other_hosts.rs, streams.rs, *)
(* sni_routers.rs, certs.rs, access_lists.rs, export_import.rs, repo.rs).  *)
(*                                                                         *)
(* A host claims names: a site its domains, a listener its port with each  *)
(* protocol it listens on.  A handler makes its checks and its write in    *)
(* database calls of their own, in the order of the code (Plan), with no   *)
(* transaction around them; other requests come in between.                *)
(***************************************************************************)
EXTENDS Integers, FiniteSets, Sequences

CONSTANTS
    Requests,  \* requests the panel handles at a time
    Shapes,    \* Shapes[t]: the sets of names a row of table t may claim
    Passwords, \* what the basic-auth password of an access list may be
    Docs,      \* documents that may be imported
    MaxRows, MaxCerts, MaxLists,  \* bounds on row ids
    Serial     \* sets of kinds of requests, of each of which one is handled at a time

Sites == {"proxy", "redirect", "dead"}
Listeners == {"stream", "sni"}
Tables == Sites \cup Listeners
Kinds == {"create", "update", "delete", "enable", "disable", "import", "issue",
          "uncert", "newlist", "relist", "unlist"}
Keys == Tables \X (1..MaxRows)
None == 0
Keep == "keep"       \* an access-list user whose password the request leaves out

\* What a row of a host table holds.  asked is a history: the access list the request
\* that wrote the row named.
Row == [claims: UNION {Shapes[t] : t \in Tables}, enabled: BOOLEAN,
        cert: 0..MaxCerts, list: 0..MaxLists, asked: 0..MaxLists]

\* Only proxy hosts have an access list.
RowOK(t, row) == row \in Row /\ row.claims \in Shapes[t] /\ (t # "proxy" => row.list = None)

\* What an import can be given: the types of the document say this much, and what its rows
\* refer to is still to be checked.
Document(doc) ==
    /\ DOMAIN doc.rows \subseteq Keys /\ doc.rows \in [DOMAIN doc.rows -> Row]
    /\ \A k \in DOMAIN doc.rows :
          RowOK(k[1], doc.rows[k]) /\ doc.rows[k].asked = doc.rows[k].list
    /\ doc.certs \subseteq 1..MaxCerts /\ DOMAIN doc.lists \subseteq 1..MaxLists
    /\ \A i \in DOMAIN doc.lists : doc.lists[i] \in Passwords

\* A domain is no port.
ASSUME RegistryAssumption ==
    /\ DOMAIN Shapes = Tables
    /\ \A t \in Sites, u \in Listeners : \A c \in Shapes[t], d \in Shapes[u] : c \cap d = {}
    /\ MaxRows \in Nat \ {0} /\ MaxCerts \in Nat \ {0} /\ MaxLists \in Nat \ {0}
    /\ None \notin Requests
    /\ Keep \notin Passwords
    /\ \A doc \in Docs : Document(doc)
    /\ \A group \in Serial : group \subseteq Kinds

VARIABLES
    rows,    \* the five host tables: a partial function on Keys
    certs,   \* certificates: which request had the row issued for its host, or None
    lists,   \* access lists: the stored hash
    reqs     \* requests in flight
vars == <<rows, certs, lists, reqs>>

Empty == [x \in {} |-> 0]

\* The table with the row at key added or replaced, and without it.
Insert(table, key, row) ==
    [k \in DOMAIN table \cup {key} |-> IF k = key THEN row ELSE table[k]]
Without(table, key) == [k \in DOMAIN table \ {key} |-> table[k]]

NoRow == [claims |-> {}, enabled |-> FALSE, cert |-> None, list |-> None, asked |-> None]

Idle == [kind |-> "none", key |-> <<"none", None>>, row |-> NoRow, new |-> FALSE,
         password |-> Keep, created |-> None, todo |-> <<>>]

Steps == Tables \cup {"exists", "cert", "list", "read", "hash", "issue", "discard", "write"}
Request == [kind: Kinds \cup {"none"},
            key: (Tables \cup {"none", "cert", "list", "import"}) \X Nat,
            row: Row \cup {NoRow}, new: BOOLEAN, password: Passwords \cup {Keep},
            created: 0..MaxCerts, todo: Seq(Steps)]

(* ------------------------- the order of the calls ------------------------ *)

When(cond, steps) == IF cond THEN steps ELSE <<>>

\* all_enabled_domains reads three tables, the check_port_free of streams and the one of
\* SNI routers two, in opposite orders.  A disabled row need not check.
FreeDomains == <<"proxy", "redirect", "dead">>
FreePort == <<"stream", "sni">>
FreeSniPort == <<"sni", "stream">>
FreeIn(t) == CASE t \in Sites -> FreeDomains
               [] t = "stream" -> FreePort
               [] t = "sni" -> FreeSniPort

\* prepare, create and update of proxy hosts; a certificate may be issued on the way.
ProxyPlan(kind, row, new) ==
    When(kind = "update", <<"exists">>) \o When(row.enabled, FreeDomains)
    \o <<"cert", "list">> \o When(new, <<"issue">>) \o <<"write">>

RedirectPlan(row) == When(row.enabled, FreeDomains) \o <<"cert", "write">>
DeadPlan(row) == When(row.enabled, FreeDomains) \o <<"cert", "write">>
StreamPlan(row) == <<"cert">> \o When(row.enabled, FreePort) \o <<"write">>
SniPlan(row) == When(row.enabled, FreeSniPort) \o <<"write">>

WritePlan(kind, t, row, new) ==
    CASE t = "proxy" -> ProxyPlan(kind, row, new)
      [] t = "redirect" -> RedirectPlan(row)
      [] t = "dead" -> DeadPlan(row)
      [] t = "stream" -> StreamPlan(row)
      [] t = "sni" -> SniPlan(row)

\* A disabled host may hold a name somebody claimed since: enabling checks again.
EnablePlan(t) == <<"read">> \o FreeIn(t) \o <<"write">>
UncertPlan == <<"proxy", "redirect", "dead", "stream", "write">>
RelistPlan == <<"exists", "hash", "write">>
UnlistPlan == <<"proxy", "write">>

Plan(kind, t, row, new) ==
    CASE kind \in {"create", "update"} -> WritePlan(kind, t, row, new)
      [] kind = "enable" -> EnablePlan(t)
      [] kind = "uncert" -> UncertPlan
      [] kind = "relist" -> RelistPlan
      [] kind = "unlist" -> UnlistPlan
      [] OTHER -> <<"write">>

(* ------------------------------- arrival --------------------------------- *)

MayStart(kind) ==
    \A group \in Serial : kind \in group => \A x \in Requests : reqs[x].kind \notin group

\* The rows a request may ask for; an SNI router has no certificate.
RowsOf(t) == {row \in Row : RowOK(t, row) /\ row.asked = row.list /\ (t = "sni" => row.cert = None)}

Ask(kind, key, row, new, password) ==
    [Idle EXCEPT !.kind = kind, !.key = key, !.row = row, !.new = new, !.password = password,
                 !.todo = Plan(kind, key[1], row, new)]

\* Only for a proxy host is a certificate issued on the way.
Edits ==
    UNION {UNION {{Ask(IF key[2] = None THEN "create" ELSE "update", key, row, new, Keep) :
                      new \in {FALSE, key[1] = "proxy"}} : row \in RowsOf(key[1])} :
           key \in Tables \X (0..MaxRows)}

Switches ==
    UNION {{Ask(kind, key, NoRow, FALSE, Keep) : key \in Keys} :
           kind \in {"delete", "enable", "disable"}}
CertAsks ==
    {Ask("uncert", <<"cert", id>>, NoRow, FALSE, Keep) : id \in 1..MaxCerts}
    \cup {Ask("issue", <<"cert", None>>, NoRow, FALSE, Keep)}
Relists ==
    UNION {{Ask("relist", <<"list", id>>, NoRow, FALSE, p) : id \in 1..MaxLists} :
           p \in Passwords \cup {Keep}}
ListAsks ==
    {Ask("newlist", <<"list", None>>, NoRow, FALSE, p) : p \in Passwords}
    \cup {Ask("unlist", <<"list", id>>, NoRow, FALSE, Keep) : id \in 1..MaxLists}

\* The requests the panel may be sent.
Asks == {q \in Edits : q.new => q.row.cert = None} \cup Switches \cup CertAsks
        \cup ListAsks \cup Relists \cup {Ask("import", <<"import", None>>, NoRow, FALSE, Keep)}

Arrive(r, q) ==
    /\ reqs[r] = Idle /\ MayStart(q.kind)
    /\ reqs' = [reqs EXCEPT ![r] = q]
    /\ UNCHANGED <<rows, certs, lists>>

(* -------------------------- answers and reads ---------------------------- *)

At(r, step) == reqs[r].todo # <<>> /\ Head(reqs[r].todo) = step

\* certs is a history besides a table: a certificate is a request's while that request
\* has neither been answered with success nor been cut off.
Forgets(r, c) == [i \in DOMAIN c |-> IF c[i] = r THEN None ELSE c[i]]

Answer(r) == reqs' = [reqs EXCEPT ![r] = Idle]

\* A step that reads: only the request itself changes.
Becomes(r, q) == reqs' = [reqs EXCEPT ![r] = q] /\ UNCHANGED <<rows, certs, lists>>

\* discard_cert comes before the error is returned.
Refused(r) ==
    Becomes(r, IF reqs[r].created = None THEN Idle ELSE [reqs[r] EXCEPT !.todo = <<"discard">>])

Goes(r, q) == Becomes(r, [q EXCEPT !.todo = Tail(@)])

Passes(r, cond) == IF cond THEN Goes(r, reqs[r]) ELSE Refused(r)

\* Whether an enabled row of table t other than the one at key claims one of the names.
SkipsId(t, key, claims) ==
    \E k \in DOMAIN rows : /\ k[1] = t /\ k[2] # key[2]
                           /\ rows[k].enabled /\ rows[k].claims \cap claims # {}
Clash(t, key, claims) ==
    \E k \in DOMAIN rows : /\ k[1] = t /\ k # key
                           /\ rows[k].enabled /\ rows[k].claims \cap claims # {}

\* hosts_using_cert and hosts_using_access_list read table t; a disabled row counts.
UsesEnabled(t, id) == \E k \in DOMAIN rows : k[1] = t /\ rows[k].enabled /\ rows[k].list = id
UsesCert(t, id) == \E k \in DOMAIN rows : k[1] = t /\ rows[k].cert = id
UsesList(t, id) == \E k \in DOMAIN rows : k[1] = t /\ rows[k].list = id

ReadsTable(r) ==
    \E t \in Tables :
        /\ At(r, t)
        /\ LET q == reqs[r] IN
           Passes(r, CASE q.kind = "uncert" -> ~UsesCert(t, q.key[2])
                       [] q.kind = "unlist" -> ~UsesList(t, q.key[2])
                       [] OTHER -> ~Clash(t, q.key, q.row.claims))

Exists(r) ==
    /\ At(r, "exists")
    /\ Passes(r, IF reqs[r].kind = "relist" THEN reqs[r].key[2] \in DOMAIN lists
                 ELSE reqs[r].key \in DOMAIN rows)

ChecksCert(r) ==
    /\ At(r, "cert")
    /\ Passes(r, reqs[r].row.cert \in DOMAIN certs \cup {None})

ChecksList(r) ==
    /\ At(r, "list")
    /\ Passes(r, reqs[r].row.list \in DOMAIN lists \cup {None})

\* set_enabled(true): a row that is not there is answered by the write.
ReadsRow(r) ==
    /\ At(r, "read")
    /\ LET q == reqs[r] IN
       IF q.key \in DOMAIN rows
       THEN Goes(r, [q EXCEPT !.row = [@ EXCEPT !.claims = rows[q.key].claims]])
       ELSE Goes(r, q)

\* acl_user_hashes and resolve_user_hashes: the hash that will be written.
AnyHash(id) == lists[CHOOSE i \in DOMAIN lists : TRUE]
StoredHash(id) == lists[id]
ReadsHash(r) ==
    /\ At(r, "hash")
    /\ LET q == reqs[r] IN
       IF q.password # Keep THEN Goes(r, q)
       ELSE IF q.key[2] \in DOMAIN lists
            THEN Goes(r, [q EXCEPT !.password = StoredHash(q.key[2]), !.new = TRUE])
            ELSE Refused(r)

(* -------------------------------- writes --------------------------------- *)

\* SQLite's next row id of a table whose rows have the ids in S: one above the highest.
IsNextId(new, S) == (\A i \in S : i < new) /\ (new = 1 \/ new - 1 \in S)
IdsOf(t) == {k[2] : k \in {x \in DOMAIN rows : x[1] = t}}

\* Foreign keys: SQLite refuses a row whose certificate or access list is not there.
Unenforced(row) == TRUE
RefsExist(row) == row.cert \in DOMAIN certs \cup {None} /\ row.list \in DOMAIN lists \cup {None}

Done(r, newRows, newCerts, newLists) ==
    /\ rows' = newRows /\ certs' = Forgets(r, newCerts) /\ lists' = newLists
    /\ Answer(r)

\* The INSERT or UPDATE of a row of table t; an UPDATE of no row is answered 404.
WritesRow(r, t) ==
    /\ At(r, "write") /\ reqs[r].kind \in {"create", "update"} /\ reqs[r].key[1] = t
    /\ LET q == reqs[r]
           there == q.kind = "update" => q.key \in DOMAIN rows
       IN IF RefsExist(q.row) /\ there
          THEN \E id \in 1..MaxRows :
                  /\ IF q.kind = "create" THEN IsNextId(id, IdsOf(t)) ELSE id = q.key[2]
                  /\ Done(r, Insert(rows, <<t, id>>, q.row), certs, lists)
          ELSE Refused(r)

WritesProxy(r) == WritesRow(r, "proxy")
WritesRedirect(r) == WritesRow(r, "redirect")
WritesDead(r) == WritesRow(r, "dead")
WritesStream(r) == WritesRow(r, "stream")
WritesSni(r) == WritesRow(r, "sni")

\* create_cert for a host; it is refused too for reasons that are not modelled here
\* (a taken name, an authority that is not set up).
Issues(r) ==
    /\ At(r, "issue")
    /\ \/ Refused(r)
       \/ \E id \in 1..MaxCerts :
          /\ IsNextId(id, DOMAIN certs)
          /\ certs' = Insert(certs, id, r)
          /\ LET q == reqs[r] IN
             reqs' = [reqs EXCEPT ![r] = [q EXCEPT !.row = [q.row EXCEPT !.cert = id],
                                                   !.created = id, !.todo = Tail(q.todo)]]
          /\ UNCHANGED <<rows, lists>>

\* delete_cert; ON DELETE RESTRICT keeps a certificate a row refers to.
InUse(id) == \E k \in DOMAIN rows : rows[k].cert = id
Unissued(id) == IF InUse(id) THEN certs ELSE Without(certs, id)

Leaves(id) == certs
Discarded(id) == IF InUse(id) THEN [certs EXCEPT ![id] = None] ELSE Without(certs, id)

DiscardsCert(r) ==
    /\ At(r, "discard")
    /\ certs' = Discarded(reqs[r].created)
    /\ Answer(r)
    /\ UNCHANGED <<rows, lists>>

WritesCert(r) ==
    /\ At(r, "write")
    /\ \/ /\ reqs[r].kind = "issue"
          /\ \E id \in 1..MaxCerts :
                IsNextId(id, DOMAIN certs) /\ Done(r, rows, Insert(certs, id, None), lists)
       \/ /\ reqs[r].kind = "uncert"
          /\ Done(r, rows, Unissued(reqs[r].key[2]), lists)

SetsEnabled(r) ==
    /\ At(r, "write") /\ reqs[r].kind \in {"enable", "disable"}
    /\ LET q == reqs[r] IN
       IF q.key \in DOMAIN rows
       THEN Done(r, [rows EXCEPT ![q.key] = [@ EXCEPT !.enabled = (q.kind = "enable")]],
                 certs, lists)
       ELSE Refused(r)

DeletesRow(r) ==
    /\ At(r, "write") /\ reqs[r].kind = "delete"
    /\ Done(r, Without(rows, reqs[r].key), certs, lists)

\* upsert_access_list in one transaction; the users' foreign key refuses a list that went.
WritesList(r) ==
    /\ At(r, "write") /\ reqs[r].kind \in {"newlist", "relist"}
    /\ LET q == reqs[r]
       IN IF q.kind = "relist" /\ q.key[2] \notin DOMAIN lists THEN Refused(r)
          ELSE \E id \in 1..MaxLists :
                  /\ IF q.kind = "newlist" THEN IsNextId(id, DOMAIN lists) ELSE id = q.key[2]
                  /\ Done(r, rows, certs, Insert(lists, id, q.password))

\* delete_access_list; ON DELETE SET NULL detaches the hosts that refer to it.
DeletesList(r) ==
    /\ At(r, "write") /\ reqs[r].kind = "unlist"
    /\ LET id == reqs[r].key[2] IN
       Done(r, [k \in DOMAIN rows |-> IF rows[k].list = id THEN [rows[k] EXCEPT !.list = None]
                                      ELSE rows[k]],
            certs, Without(lists, id))

(* -------------------------------- import --------------------------------- *)

\* claim_domains, across the types of sites, and port_use, across streams and routers:
\* enabled entries of the document claim disjoint names.
PerType(doc, tables) ==
    \A j, k \in {x \in DOMAIN doc.rows : x[1] \in tables} :
        /\ j # k /\ j[1] = k[1]
        /\ doc.rows[j].enabled /\ doc.rows[k].enabled
        => doc.rows[j].claims \cap doc.rows[k].claims = {}
ClaimsOnce(doc, tables) ==
    \A j, k \in {x \in DOMAIN doc.rows : x[1] \in tables} :
        /\ j # k
        /\ doc.rows[j].enabled /\ doc.rows[k].enabled
        => doc.rows[j].claims \cap doc.rows[k].claims = {}
DomainsOnce(doc) == ClaimsOnce(doc, Sites)
PortsOnce(doc) == ClaimsOnce(doc, Listeners)

\* References stay within the document.
CertRefs(doc) == \A k \in DOMAIN doc.rows : doc.rows[k].cert \in doc.certs \cup {None}
ListRefs(doc) == \A k \in DOMAIN doc.rows : doc.rows[k].list \in DOMAIN doc.lists \cup {None}

\* Hosts keep their ids, and with them what they refer to.
ImportedRows(doc) == doc.rows

\* import_replace, one transaction: the tables become the document's.
Imports(r) ==
    /\ At(r, "write") /\ reqs[r].kind = "import"
    /\ \E doc \in Docs :
        IF DomainsOnce(doc) /\ PortsOnce(doc) /\ CertRefs(doc) /\ ListRefs(doc)
        THEN Done(r, ImportedRows(doc), [c \in doc.certs |-> None], doc.lists)
        ELSE Refused(r)

\* The client goes away, or the panel dies: no handler runs on.
Dropped(r) ==
    /\ reqs[r] # Idle
    /\ Done(r, rows, certs, lists)

(* ---------------------------- specification ------------------------------ *)

Init == rows = Empty /\ certs = Empty /\ lists = Empty /\ reqs = [r \in Requests |-> Idle]

Handles(r) ==
    \/ ReadsTable(r) \/ Exists(r) \/ ChecksCert(r) \/ ChecksList(r)
    \/ ReadsRow(r) \/ ReadsHash(r)
    \/ WritesProxy(r) \/ WritesRedirect(r) \/ WritesDead(r) \/ WritesStream(r) \/ WritesSni(r)
    \/ Issues(r) \/ DiscardsCert(r) \/ WritesCert(r)
    \/ SetsEnabled(r) \/ DeletesRow(r) \/ WritesList(r) \/ DeletesList(r) \/ Imports(r)

NextOf(asks) ==
    \E r \in Requests : (\E q \in asks : Arrive(r, q)) \/ Handles(r) \/ Dropped(r)
Next == NextOf(Asks)

Spec == Init /\ [][Next]_vars

(* ------------------------------ properties ------------------------------- *)

\* Rows have the shape their table allows, and refer to certificates and access lists
\* that exist.
TypeOK ==
    /\ DOMAIN rows \subseteq Keys
    /\ \A k \in DOMAIN rows : /\ RowOK(k[1], rows[k])
                              /\ rows[k].cert \in DOMAIN certs \cup {None}
                              /\ rows[k].list \in DOMAIN lists \cup {None}
    /\ DOMAIN certs \subseteq 1..MaxCerts /\ DOMAIN lists \subseteq 1..MaxLists
    /\ \A i \in DOMAIN certs : certs[i] \in Requests \cup {None}
    /\ \A i \in DOMAIN lists : lists[i] \in Passwords
    /\ reqs \in [Requests -> Request]

\* "a domain ... may belong to at most one ENABLED host of ANY type" (hosts.rs:29), and
\* "two enabled streams cannot listen on the same port for the same protocol"
\* (streams.rs:8): whatever is created, edited, enabled and imported, no name has two owners.
UniqueClaims ==
    \A j, k \in DOMAIN rows :
        j # k /\ rows[j].enabled /\ rows[k].enabled => rows[j].claims \cap rows[k].claims = {}

\* "a host the panel would reject never leaves an orphan certificate behind"
\* (hosts.rs:119): a certificate issued for a host is bound to a host or to a request
\* still in flight, if that request was not cut off.
NoOrphanCert ==
    \A i \in DOMAIN certs :
        certs[i] # None => InUse(i) \/ reqs[certs[i]].created = i

\* "silently drop the host's access control" (access_lists.rs:110): a host has the
\* access list its last edit asked for.
AccessKept == \A k \in DOMAIN rows : rows[k].list = rows[k].asked

\* "a user whose password is omitted keeps its existing hash" (access_lists.rs:3): a hash
\* changes only when a request that brings a password, or an import, is handled.
PasswordKept ==
    [][\A i \in DOMAIN lists \cap DOMAIN lists' :
        lists'[i] # lists[i] =>
            \E r \in Requests : /\ At(r, "write")
                                /\ reqs[r].kind \in {"relist", "import"} /\ ~reqs[r].new]_vars
=============================================================================
