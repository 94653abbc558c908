----------------------------- MODULE MCGenerator -----------------------------
(***************************************************************************)
(* Instances of Generator for TLC.  focus, chosen at the start, says what  *)
(* is explored: "shapes", every way to configure one host, one redirect,   *)
(* one 404 host or the listeners, in tables nobody edits; "hosts", a host, *)
(* its certificate and its access list that are created, changed and       *)
(* deleted while a build reads them; or "sites", the same of a redirect, a *)
(* stream and the certificate they share.                                  *)
(***************************************************************************)
EXTENDS Generator, TLC

VARIABLE focus

Host == [id |-> 1, enabled |-> TRUE, names |-> {"a", "b"}, on |-> {}, cert |-> None,
         list |-> None, paths |-> {"/app"}, target |-> "lan", locTarget |-> "lan",
         verify |-> "lan"]
Site == [id |-> 1, enabled |-> TRUE, names |-> {"a"}, on |-> {}, cert |-> None]
Stream == [id |-> 1, enabled |-> TRUE, port |-> 5000, protocols |-> {"tcp"},
           terminate |-> FALSE, cert |-> None, target |-> "lan"]
Router == [id |-> 1, enabled |-> TRUE, port |-> 5001, routes |-> 1, default |-> FALSE]
Cert == [id |-> 1, challenge |-> "dns", provider |-> TRUE]
List == [id |-> 1, satisfy |-> "all", rules |-> TRUE, pass |-> FALSE]

\* The switches that touch each other, three at a time, and the others one at a time.
Switches == {"force-ssl", "http3", "mtls", "maintenance", "hsts", "response-header", "cache",
             "rps", "404", "forward-auth", "sign-in"}
Others == {"mtls-optional", "exploits", "conn", "gzip", "tuning", "5xx", "websockets", "request-header"}
SwitchSets == {S \in SUBSET Switches : Cardinality(S) <= 3} \cup {{x} : x \in Others}
              \cup {{"mtls", "mtls-optional"}}

\* No certificate, one that is not issued yet, and one that is.
WithCert(d, table, row) ==
    {[d EXCEPT ![table] = {row}],
     [d EXCEPT ![table] = {[row EXCEPT !.cert = 1]}, !.certs = {Cert}],
     [d EXCEPT ![table] = {[row EXCEPT !.cert = 1]}, !.certs = {Cert}, !.ready = {1}]}

\* No access list, rules, users whose credentials stay here, or both, one or all of which
\* a request has to pass.
WithList(d) ==
    LET attached == {[h EXCEPT !.list = 1] : h \in d.hosts} IN
    {d, [d EXCEPT !.hosts = attached, !.lists = {List}]}
    \cup {[d EXCEPT !.hosts = attached, !.users = {1},
                    !.lists = {[List EXCEPT !.rules = r, !.pass = r, !.satisfy = p]}] :
              r \in BOOLEAN, p \in {"all", "any"}}

Deny == [mode |-> "deny", ranges |-> TRUE]
AllowNoData == [mode |-> "allow", ranges |-> FALSE]

HostShapes ==
    UNION {UNION {WithList(d) : d \in WithCert([NoTables EXCEPT !.geo = g], "hosts", [Host EXCEPT !.on = S])} :
              S \in SwitchSets, g \in {NoSite, Deny}}
NearShapes ==
    {[NoTables EXCEPT !.geo = AllowNoData,
                       !.hosts = {[Host EXCEPT !.on = {"forward-auth"}, !.target = t, !.locTarget = l,
                                              !.verify = v, !.paths = p, !.enabled = e]}] :
        t, l, v \in {"lan", "loopback"}, p \in {{}, {"/app"}, {"=/_forward_auth"}}, e \in BOOLEAN}
SiteShapes ==
    UNION {WithCert([NoTables EXCEPT !.shared = b, !.bans = b], t, [Site EXCEPT !.on = S, !.enabled = e]) :
        S \in SUBSET {"force-ssl", "hsts", "exploits"}, t \in {"redirects", "deads"}, b, e \in BOOLEAN}
StreamShapes ==
    {[d EXCEPT !.routers = {[Router EXCEPT !.routes = n, !.default = b]}, !.settings = s] :
        d \in WithCert(NoTables, "streams", [Stream EXCEPT !.terminate = TRUE])
              \cup {[NoTables EXCEPT !.streams = {[Stream EXCEPT !.protocols = P]}] : P \in SUBSET {"tcp", "udp"}},
        n \in 0..2, b \in BOOLEAN,
        s \in {"notfound", "drop444", "redirect", "redirect-without-url", "html"}}
Shapes == HostShapes \cup NearShapes \cup SiteShapes \cup StreamShapes

\* The rows an edit may leave in a table; references are kept valid.
HostEdits ==
    {"hosts" :> {[Host EXCEPT !.on = {"force-ssl", "mtls", "rps", "cache", "forward-auth"},
                              !.cert = c, !.list = l]} : c, l \in {None, 1}}
    \cup {"hosts" :> {}}
SiteEdits ==
    {"redirects" :> S : S \in {{}, {[Site EXCEPT !.on = {"force-ssl"}]},
                               {[Site EXCEPT !.on = {"force-ssl"}, !.cert = 1]}}}
    \cup {"streams" :> S : S \in {{}, {Stream}, {[Stream EXCEPT !.terminate = TRUE, !.cert = 1]}}}
CertEdits == {"certs" :> {}, "certs" :> {Cert}, "ready" :> {1}}
ListChange(rows, users) == ("lists" :> rows) @@ ("users" :> users)
ListEdits == {ListChange({}, {}), ListChange({List}, {}), ListChange({List}, {1}),
              ListChange({[List EXCEPT !.rules = FALSE]}, {1}),
              ListChange({[List EXCEPT !.satisfy = "any"]}, {1})}
MCEdits == HostEdits \cup SiteEdits \cup CertEdits \cup ListEdits

Foci == {"shapes", "hosts", "sites"}
FocusEdits == [f \in Foci |-> CASE f = "shapes" -> {}
                                [] f = "hosts" -> HostEdits \cup CertEdits \cup ListEdits
                                [] f = "sites" -> SiteEdits \cup CertEdits]

\* Every database that edits lead to is reached from the empty one.
MCDatabases == Shapes \cup {NoTables}

MCInit == Init /\ focus \in Foci /\ (focus = "shapes" <=> db \in Shapes)
MCNext == NextOf(FocusEdits[focus]) /\ UNCHANGED focus
MCSpec == MCInit /\ [][MCNext]_<<vars, focus>>
=============================================================================
