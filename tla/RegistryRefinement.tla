------------------------- MODULE RegistryRefinement -------------------------
(***************************************************************************)
(* The registry implements AtomicRegistry.  A certificate issued on the    *)
(* way to a host is not there until the host is, or its request is cut     *)
(* off; what a request has read and has had issued is not what it asked.   *)
(***************************************************************************)
EXTENDS Registry

AskOf(q) ==
    LET edit == q.kind \in {"create", "update"} IN
    [kind |-> q.kind, key |-> q.key,
     row |-> IF edit THEN [q.row EXCEPT !.cert = IF q.created = None THEN @ ELSE None]
             ELSE NoRow,
     new |-> edit /\ q.new,
     password |-> IF q.kind = "relist" /\ q.new THEN Keep ELSE q.password]

AskType == [kind: Kinds, key: (Tables \cup {"cert", "list", "import"}) \X Nat,
            row: Row \cup {NoRow}, new: BOOLEAN, password: Passwords \cup {Keep}]

Pending == [r \in Requests |-> AskOf(reqs[r])]
Visible == {i \in DOMAIN certs : certs[i] = None}

\* Nothing keeps the deletion of certificates out while a host is created or changed.
IdsReissued == \A group \in Serial : ~({"create", "update", "uncert"} \subseteq group)

Atomic == INSTANCE AtomicRegistry WITH
    Clients <- Requests, Asks <- AskType, NoAsk <- AskOf(Idle),
    RowIds <- 1..MaxRows, CertIds <- 1..MaxCerts, ListIds <- 1..MaxLists,
    Reissued <- IdsReissued,
    certs <- Visible, asked <- Pending

(* Every answer of the registry, and every refusal, is one that the atomic *)
(* registry could give between the arrival of the request and the answer.  *)
AtomicSpec == Atomic!Spec
=============================================================================
