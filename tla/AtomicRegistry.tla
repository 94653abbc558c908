--------------------------- MODULE AtomicRegistry ---------------------------
(***************************************************************************)
(* What the registry promises to those who ask it, however many calls to   *)
(* the database a handler makes: a request takes effect in one step        *)
(* between its arrival and its answer, or is refused, for a reason that    *)
(* holds at some moment in between, and changes nothing.                   *)
(***************************************************************************)
CONSTANTS
    Clients,    \* who asks; one request each at a time
    Asks,       \* what may be asked
    NoAsk,      \* asks for nothing
    None,       \* no certificate, no access list, no id
    Keep,       \* the password that is not to be changed
    RowIds, CertIds, ListIds,
    Docs,       \* documents that may be imported
    Reissued    \* whether ids of certificates may be taken away from a request and reissued

VARIABLES
    rows,   \* host tables: what the rows at their keys, <<table, id>>, hold
    certs,  \* ids of certificates
    lists,  \* access lists: the stored hashes
    asked   \* asked[c]: the request of client c that is not answered yet
vars == <<rows, certs, lists, asked>>

With(table, key, value) ==
    [k \in DOMAIN table \cup {key} |-> IF k = key THEN value ELSE table[k]]
Less(table, key) == [k \in DOMAIN table \ {key} |-> table[k]]

(* No enabled row but the one at key owns one of the names.                *)
Free(key, names) ==
    \A k \in DOMAIN rows : k # key /\ rows[k].enabled => rows[k].claims \cap names = {}
CertUsed(id) == \E k \in DOMAIN rows : rows[k].cert = id
ListUsed(id) == \E k \in DOMAIN rows : rows[k].list = id

Is(c, kinds) == asked[c].kind \in kinds
Answers(c) == asked' = [asked EXCEPT ![c] = NoAsk]

Init ==
    /\ rows = [k \in {} |-> None] /\ certs = {} /\ lists = [i \in {} |-> None]
    /\ asked = [c \in Clients |-> NoAsk]

Arrive(c) ==
    /\ asked[c] = NoAsk
    /\ asked'[c] \in Asks
    /\ asked' = [asked EXCEPT ![c] = asked'[c]]
    /\ UNCHANGED <<rows, certs, lists>>

(* A host is created or changed only if its names are free and what it     *)
(* refers to is there.                                                     *)
Fits(q) ==
    /\ q.row.enabled => Free(q.key, q.row.claims)
    /\ q.row.list \in DOMAIN lists \cup {None}
    /\ q.row.cert \in certs \cup {None}
    /\ q.kind = "update" => q.key \in DOMAIN rows

(* A certificate that is issued for a host is no other host's.             *)
Fresh(id) == id \in CertIds /\ ~CertUsed(id) /\ (id \in certs => Reissued)

Write(c) ==
    LET q == asked[c] IN
    /\ Is(c, {"create", "update"}) /\ Fits(q)
    /\ \E id \in RowIds, cert \in CertIds \cup {None} :
        /\ IF q.kind = "create" THEN <<q.key[1], id>> \notin DOMAIN rows ELSE id = q.key[2]
        /\ IF q.new THEN Fresh(cert) ELSE cert = q.row.cert
        /\ rows' = With(rows, <<q.key[1], id>>, [q.row EXCEPT !.cert = cert])
        /\ certs' = certs \cup ({cert} \ {None})
    /\ lists' = lists /\ Answers(c)

Enable(c) ==
    LET key == asked[c].key IN
    /\ Is(c, {"enable"}) /\ key \in DOMAIN rows /\ Free(key, rows[key].claims)
    /\ rows' = [rows EXCEPT ![key] = [@ EXCEPT !.enabled = TRUE]]
    /\ certs' = certs /\ lists' = lists /\ Answers(c)

Disable(c) ==
    LET key == asked[c].key IN
    /\ Is(c, {"disable"}) /\ key \in DOMAIN rows
    /\ rows' = [rows EXCEPT ![key] = [@ EXCEPT !.enabled = FALSE]]
    /\ certs' = certs /\ lists' = lists /\ Answers(c)

Delete(c) ==
    /\ Is(c, {"delete"})
    /\ rows' = Less(rows, asked[c].key)
    /\ certs' = certs /\ lists' = lists /\ Answers(c)

IssueCert(c) ==
    /\ Is(c, {"issue"})
    /\ \E id \in CertIds \ certs : certs' = certs \cup {id}
    /\ rows' = rows /\ lists' = lists /\ Answers(c)

DeleteCert(c) ==
    LET id == asked[c].key[2] IN
    /\ Is(c, {"uncert"}) /\ ~CertUsed(id)
    /\ certs' = certs \ {id}
    /\ rows' = rows /\ lists' = lists /\ Answers(c)

CreateList(c) ==
    /\ Is(c, {"newlist"})
    /\ \E id \in ListIds \ DOMAIN lists : lists' = With(lists, id, asked[c].password)
    /\ rows' = rows /\ certs' = certs /\ Answers(c)

(* A password that is left out is kept.                                    *)
ChangeList(c) ==
    LET id == asked[c].key[2]  password == asked[c].password IN
    /\ Is(c, {"relist"}) /\ id \in DOMAIN lists
    /\ lists' = With(lists, id, IF password = Keep THEN lists[id] ELSE password)
    /\ rows' = rows /\ certs' = certs /\ Answers(c)

(* A list that a host is protected by stays.                               *)
DeleteList(c) ==
    LET id == asked[c].key[2] IN
    /\ Is(c, {"unlist"}) /\ ~ListUsed(id)
    /\ lists' = Less(lists, id)
    /\ rows' = rows /\ certs' = certs /\ Answers(c)

(* No two enabled rows own a name, and what a row refers to is there.      *)
Consistent(doc) ==
    /\ \A j, k \in DOMAIN doc.rows :
          j # k /\ doc.rows[j].enabled /\ doc.rows[k].enabled
          => doc.rows[j].claims \cap doc.rows[k].claims = {}
    /\ \A k \in DOMAIN doc.rows : /\ doc.rows[k].cert \in doc.certs \cup {None}
                                   /\ doc.rows[k].list \in DOMAIN doc.lists \cup {None}

Import(c) ==
    /\ Is(c, {"import"})
    /\ \E doc \in Docs :
        /\ Consistent(doc)
        /\ rows' = doc.rows /\ certs' = doc.certs /\ lists' = doc.lists
    /\ Answers(c)

(* Why a request may be refused.  One that has a certificate issued may    *)
(* always be: by the authority.                                            *)
Refusable(q) ==
    \/ q.kind \in {"create", "update"} /\ (q.new \/ ~Fits(q))
    \/ q.kind = "enable" /\ (q.key \in DOMAIN rows => ~Free(q.key, rows[q.key].claims))
    \/ q.kind = "disable" /\ q.key \notin DOMAIN rows
    \/ q.kind = "uncert" /\ CertUsed(q.key[2])
    \/ q.kind = "relist" /\ q.key[2] \notin DOMAIN lists
    \/ q.kind = "unlist" /\ ListUsed(q.key[2])
    \/ q.kind = "import" /\ \E doc \in Docs : ~Consistent(doc)

Refuse(c) ==
    /\ asked[c] # NoAsk /\ Refusable(asked[c])
    /\ rows' = rows /\ certs' = certs /\ lists' = lists /\ Answers(c)

(* A request that takes its certificate back takes another's of that id.   *)
TakeBack(c) ==
    /\ Is(c, {"create", "update"}) /\ asked[c].new /\ Reissued
    /\ \E id \in certs : ~CertUsed(id) /\ certs' = certs \ {id}
    /\ rows' = rows /\ lists' = lists /\ Answers(c)

(* The client goes away, or the panel dies: nothing is done, but that a    *)
(* certificate may have been issued already.                               *)
Drop(c) ==
    /\ asked[c] # NoAsk
    /\ \/ certs' = certs
       \/ asked[c].new /\ \E id \in CertIds \ certs : certs' = certs \cup {id}
    /\ rows' = rows /\ lists' = lists /\ Answers(c)

Next ==
    \E c \in Clients :
        \/ Arrive(c) \/ Write(c) \/ Enable(c) \/ Disable(c) \/ Delete(c)
        \/ IssueCert(c) \/ DeleteCert(c)
        \/ CreateList(c) \/ ChangeList(c) \/ DeleteList(c) \/ Import(c)
        \/ Refuse(c) \/ TakeBack(c) \/ Drop(c)

Spec == Init /\ [][Next]_vars
=============================================================================
