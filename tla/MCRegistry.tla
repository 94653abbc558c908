----------------------------- MODULE MCRegistry -----------------------------
(***************************************************************************)
(* Instances of Registry for TLC.  The parts of the registry that do not   *)
(* touch each other are explored side by side instead of in their product: *)
(* focus, chosen at the start, says which requests arrive.                 *)
(***************************************************************************)
EXTENDS RegistryRefinement, TLC

CONSTANTS d1, d2, p1, p2, tcp, udp

VARIABLE focus

MCShapes == [t \in Tables |->
    CASE t = "proxy" -> {{d1}, {d1, d2}}
      [] t = "redirect" -> {{d2}, {d1, d2}}
      [] t = "dead" -> {{d1}}
      [] t = "stream" -> {{tcp}, {udp}, {tcp, udp}}
      [] t = "sni" -> {{tcp}}]

\* Creates, edits, enables and imports come one at a time, and so do the other requests
\* that are not safe beside them; deletes, disables and certificates come at any time.
OneEditor ==
    {{"create", "update", "enable", "import", "unlist"}, {"relist", "import", "unlist"}}

On(claims, cert, list) ==
    [claims |-> claims, enabled |-> TRUE, cert |-> cert, list |-> list, asked |-> list]

\* Two documents that are accepted and four that are not: one name claimed twice across
\* types, one port claimed twice, and a reference to what the document does not hold.
MCDocs ==
    {[rows |-> (<<"proxy", 1>> :> On({d1}, 1, 1)) @@ (<<"redirect", 1>> :> On({d2}, 0, 0)),
      certs |-> {1}, lists |-> 1 :> p2],
     [rows |-> (<<"stream", 1>> :> On({udp}, 0, 0)) @@ (<<"sni", 1>> :> On({tcp}, 0, 0)),
      certs |-> {}, lists |-> Empty],
     [rows |-> (<<"proxy", 1>> :> On({d1}, 0, 0)) @@ (<<"dead", 1>> :> On({d1}, 0, 0)),
      certs |-> {}, lists |-> Empty],
     [rows |-> (<<"stream", 1>> :> On({tcp, udp}, 0, 0)) @@ (<<"sni", 1>> :> On({tcp}, 0, 0)),
      certs |-> {}, lists |-> Empty],
     [rows |-> <<"proxy", 1>> :> On({d1}, 1, 0), certs |-> {}, lists |-> Empty],
     [rows |-> <<"proxy", 1>> :> On({d1}, 0, 1), certs |-> {}, lists |-> Empty]}

Foci == {"sites", "ports", "certs", "lists"}

\* The requests of a focus; in "certs" and "lists" there is one name, so that what is
\* explored is who refers to what.
InFocus(f, q) ==
    LET plain == q.row.cert = None /\ q.row.list = None /\ ~q.new
        sites == q.key[1] \in Sites
        edits == q.kind \in {"create", "update"}
    IN \/ q.kind = "import"
       \/ f = "sites" /\ sites /\ (edits => plain)
       \/ f = "ports" /\ q.key[1] \in Listeners /\ (edits => plain)
       \/ /\ f = "certs"
          /\ \/ q.key[1] = "cert"
             \/ q.key[1] \in {"proxy", "stream"} /\ q.kind \notin {"enable", "disable"}
                /\ (edits => q.row.list = None /\ ~q.row.enabled /\ q.row.claims \in {{d1}, {udp}})
       \/ /\ f = "lists"
          /\ \/ q.key[1] = "list"
             \/ q.key[1] = "proxy" /\ q.kind \notin {"enable", "disable"}
                /\ (edits => q.row.cert = None /\ ~q.new /\ ~q.row.enabled /\ q.row.claims = {d1})

FocusAsks == [f \in Foci |-> {q \in Asks : InFocus(f, q)}]

MCInit == Init /\ focus \in Foci
MCNext == NextOf(FocusAsks[focus]) /\ UNCHANGED focus
MCSpec == MCInit /\ [][MCNext]_<<vars, focus>>

Symmetry == Permutations(Requests)
=============================================================================
