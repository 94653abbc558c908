------------------------------ MODULE Generator ------------------------------
(***************************************************************************)
(* The configuration the panel builds from its tables (settings.rs:        *)
(* build_generator_input, build_fileset; generator/mod.rs; generator/      *)
(* lint.rs).                                                               *)
(*                                                                         *)
(* A build reads one table after the other with no transaction around      *)
(* them, and rows are edited in between: what it renders is a mixture of   *)
(* several states of the database.  The rendered set is abstracted to what *)
(* Angie makes of it: what each file defines, and its servers with their   *)
(* directives, in the order of the text, and locations.  A directive       *)
(* carries its name, what of its argument matters, and the things of the   *)
(* configuration it refers to.                                             *)
(***************************************************************************)
EXTENDS Integers, FiniteSets, Sequences, Functions

CONSTANTS
    Databases,      \* states of the tables a build may start from
    Edits,          \* what a write may make of the tables it changes
    AllowLoopback   \* allow_loopback_upstreams of the root-owned configuration

VARIABLES
    db,     \* the tables
    at,     \* how many of them the build has read
    seen,   \* what it read
    built   \* "none", "ok", "lint_failed" or "failed"
vars == <<db, at, seen, built>>

\* The order of the reads.  The rules of an access list are read with its row, its users
\* after all the lists; a row of a list is its id, satisfy, pass_auth and whether it has
\* rules.
Order == <<"hosts", "settings", "certs", "ready", "geo", "shared", "lists", "users",
           "redirects", "deads", "streams", "routers", "bans">>
Tables == Range(Order)

ASSUME GeneratorAssumption ==
    /\ \A d \in Databases : DOMAIN d = Tables
    /\ \A e \in Edits : DOMAIN e \subseteq Tables
    /\ AllowLoopback \in BOOLEAN

None == 0
When(cond, s) == IF cond THEN s ELSE <<>>
If(cond, S) == IF cond THEN S ELSE {}

\* A row's switches are a set: `on' holds the names of those that are set.
Has(row, switch) == switch \in row.on

(* ----------------------------- validation -------------------------------- *)

\* What the validators of model.rs let through.  A host with a rate limit limits the
\* requests, the connections or both; only the sign-in page needs forward authentication.
validate_forward_host(target) == target = "lan" \/ AllowLoopback
\* A path starts with a slash, and of the locations the generator makes itself only "/" does:
\* one is an exact match, the others are named.
validate_location_path(path) ==
    path \notin {"=/_forward_auth", "@forward_auth_signin", "@ap_err_404", "@ap_err_5xx"}
validate_host_input(h) ==
    /\ h.names # {}
    /\ \A target \in {h.target, h.verify, h.locTarget} : validate_forward_host(target)
    /\ \A path \in h.paths : validate_location_path(path)
    /\ Has(h, "sign-in") => Has(h, "forward-auth")
validate_redirect_input(r) == r.names # {}
validate_dead_input(d) == d.names # {}
validate_stream_input(s) ==
    /\ s.protocols # {} /\ s.protocols \subseteq {"tcp", "udp"}
    /\ s.terminate => s.protocols = {"tcp"} /\ s.cert # None
    /\ ~s.terminate => s.cert = None
    /\ validate_forward_host(s.target)
validate_sni_router_input(r) == r.routes > 0 \/ r.default
validate_cert_input(c) == c.provider => c.challenge = "dns"
validate_acl_input(d, l) == l.rules \/ l.id \in d.users

\* The id of a row is its table's primary key.
Keyed(d) ==
    \A t \in {"hosts", "certs", "lists", "redirects", "deads", "streams", "routers"} :
        \A x, y \in d[t] : x.id = y.id => x = y

\* Rows are valid and refer to rows that exist: the handlers check, the foreign keys hold.
Valid(d) ==
    /\ Keyed(d)
    /\ \A h \in d.hosts : validate_host_input(h)
    /\ \A r \in d.redirects : validate_redirect_input(r)
    /\ \A x \in d.deads : validate_dead_input(x)
    /\ \A s \in d.streams : validate_stream_input(s)
    /\ \A r \in d.routers : validate_sni_router_input(r)
    /\ \A c \in d.certs : validate_cert_input(c)
    /\ \A l \in d.lists : validate_acl_input(d, l)
    /\ \A x \in d.hosts \cup d.redirects \cup d.deads \cup d.streams :
          x.cert \in {c.id : c \in d.certs} \cup {None}
    /\ \A h \in d.hosts : h.list \in {l.id : l \in d.lists} \cup {None}

(* ------------------------------ vocabulary ------------------------------- *)

Dir(name, arg) == [name |-> name, arg |-> arg, refs |-> {}]
DirTo(name, kind, x) == [name |-> name, arg |-> kind, refs |-> {<<kind, x>>}]
Location(path, own) == [path |-> path, own |-> own]
Server(listen, names, own, locations) ==
    [listen |-> listen, names |-> names, own |-> own, locations |-> locations]
File(name, defs, servers) == [name |-> name, defs |-> defs, servers |-> servers]
IsA(directives, name) == \E i \in DOMAIN directives : directives[i].name = name

\* The certificate of a row, if the build has read it, and whether it has been issued.
CertOf(in, x) == {c \in in.certs : c.id = x.cert}
IsReady(in, x) == \E c \in CertOf(in, x) : c.id \in in.ready
Https(in, x) == IsReady(in, x)

ListOf(in, h) == {l \in in.lists : l.id = h.list}
HasAuth(in, h) == \E l \in ListOf(in, h) : l.id \in in.users
HasIp(in, h) == \E l \in ListOf(in, h) : l.rules
Satisfy(in, h) == IF \E l \in ListOf(in, h) : l.satisfy = "any" THEN "any" ELSE "all"

(* ------------------------------ whole files ------------------------------ *)

gen_panel(in) ==
    {File(<<"00-panel", 0>>,
          {<<"map", "connection_upgrade">>, <<"cache-zone", "assets">>},
          {Server({<<8100, "plain">>}, {}, <<>>,
                  {Location("/status/", <<Dir("api", "/status/")>>)})})}

gen_bans(in) == If(in.bans, {File(<<"03-bans", 0>>, {}, {})})

\* sanitize_redirect_url refuses the empty URL, which the settings accept.
Renders(in) == in.settings # "redirect-without-url"

default_site_body(in) ==
    CASE in.settings = "html" -> <<Dir("root", "public_dir"), Dir("try_files", "index")>>
      [] in.settings = "redirect" -> <<Dir("return", "301-url")>>
      [] in.settings = "drop444" -> <<Dir("return", "444")>>
      [] OTHER -> <<Dir("return", "404")>>

gen_default(in) ==
    {File(<<"05-default", 0>>, {},
          {Server({<<80, "plain">>}, {"_"}, default_site_body(in), {}),
           Server({<<443, "ssl">>}, {"_"}, <<Dir("ssl_reject_handshake", "on")>>, {})})}

late_hook_location(c) ==
    Location("@acme_hook_location",
             <<DirTo("acme_hook", "acme-client", c.id), Dir("proxy_read_timeout", "560s"),
               Dir("proxy_pass", "panel"), Dir("proxy_set_header", "X-Acme-*")>>)

\* The linter lets the hook reach the panel because acme_hook comes right before.
hook_location(c) ==
    Location("@acme_hook_location",
             <<DirTo("acme_hook", "acme-client", c.id), Dir("proxy_pass", "panel"),
               Dir("proxy_read_timeout", "560s"), Dir("proxy_set_header", "X-Acme-*")>>)

\* One client and one collector for every certificate, whoever refers to it.
gen_acme(in) ==
    {File(<<"10-acme", 0>>,
          {<<"acme-client", c.id>> : c \in in.certs},
          {Server({<<0, "unix">>}, {"collector"},
                  <<Dir("acme_client", IF in.shared THEN "account_key" ELSE "own-key"),
                    DirTo("acme", "acme-client", c.id)>>,
                  If(c.provider, {hook_location(c)})) : c \in in.certs})}

\* A policy without ranges (no data set) denies nobody.
geo_active(in) == in.geo.mode # "off" /\ in.geo.ranges
gen_geo(in) == If(geo_active(in), {File(<<"12-geo", 0>>, {<<"map", "ap_geo_deny">>}, {})})

rate_limit_active(h) == Has(h, "rps") \/ Has(h, "conn")
gen_rate_limits(in) ==
    LET limited == {h \in in.hosts : h.enabled /\ rate_limit_active(h)} IN
    If(limited # {},
       {File(<<"15-rate-limits", 0>>,
             {<<"req-zone", h.id>> : h \in {x \in limited : Has(x, "rps")}}
             \cup {<<"conn-zone", h.id>> : h \in {x \in limited : Has(x, "conn")}}, {})})

\* Files of one access list, and of one host's client certificates.
htpasswd_name(id) == <<"htpasswd", id>>
every_htpasswd(in) ==
    {File(htpasswd_name(id), {<<"file", htpasswd_name(id)>>}, {}) :
        id \in {l.id : l \in in.lists} \cap in.users}

htpasswd(in) ==
    {File(htpasswd_name(id), {<<"file", htpasswd_name(id)>>}, {}) :
        id \in {l.id : l \in in.lists} \cap {h.list : h \in in.hosts} \cap in.users}
client_ca_name(id) == <<"client-ca", id>>
client_ca(in) ==
    {File(client_ca_name(h.id), {<<"file", client_ca_name(h.id)>>}, {}) :
        h \in {x \in in.hosts : x.enabled /\ Https(in, x) /\ Has(x, "mtls")}}

(* --------------------------- server directives --------------------------- *)

emit_geo_guard(in) == When(geo_active(in), <<DirTo("if-return-403", "map", "ap_geo_deny")>>)
emit_hsts(x) == When(Has(x, "hsts"), <<Dir("add_header", "Strict-Transport-Security")>>)
emit_response_headers(h) == When(Has(h, "response-header"), <<Dir("add_header", "custom")>>)
cache_status(h) == When(Has(h, "cache"), <<Dir("add_header", "X-Cache-Status")>>)
block_exploits(x) == When(Has(x, "exploits"), <<Dir("include", "block-exploits.conf")>>)

access(in, h) ==
    When(HasAuth(in, h) /\ HasIp(in, h), <<Dir("satisfy", Satisfy(in, h))>>)
    \o When(HasAuth(in, h), <<DirTo("auth_basic", "file", htpasswd_name(h.list))>>)
    \o When(HasIp(in, h), <<Dir("allow", ""), Dir("deny", "all")>>)

emit_rate_limit(h) ==
    When(Has(h, "rps"), <<DirTo("limit_req", "req-zone", h.id)>>)
    \o When(Has(h, "conn"), <<DirTo("limit_conn", "conn-zone", h.id)>>)

emit_tuning(h) == When(Has(h, "gzip"), <<Dir("gzip", "on")>>)
                  \o When(Has(h, "tuning"), <<Dir("proxy_buffering", "off")>>)

\* Interception is what lets error_page see the answers of the upstream.
emit_error_pages(h) ==
    When(Has(h, "404") \/ Has(h, "5xx"), <<Dir("proxy_intercept_errors", "on")>>)
    \o When(Has(h, "404"), <<DirTo("error_page", "location", "@ap_err_404")>>)
    \o When(Has(h, "5xx"), <<DirTo("error_page", "location", "@ap_err_5xx")>>)
error_locations(h) ==
    If(Has(h, "404"), {Location("@ap_err_404", <<Dir("return", "404")>>)})
    \cup If(Has(h, "5xx"), {Location("@ap_err_5xx", <<Dir("return", "503")>>)})

emit_forward_auth_server(h) ==
    When(Has(h, "sign-in"), <<DirTo("error_page", "location", "@forward_auth_signin")>>)
forward_auth_locations(h) ==
    If(Has(h, "forward-auth"),
       {Location("=/_forward_auth", <<Dir("internal", ""), Dir("proxy_pass", h.verify)>>)})
    \cup If(Has(h, "sign-in"), {Location("@forward_auth_signin", <<Dir("return", "302")>>)})

(* ------------------------------- locations ------------------------------- *)

emit_auth_request(h) ==
    When(Has(h, "forward-auth"), <<DirTo("auth_request", "location", "=/_forward_auth")>>)

\* The credentials of the gate stay out of the upstream unless the list passes them on.
proxy_body(in, h, target) ==
    <<target, Dir("proxy_set_header", "Host")>>
    \o When(Has(h, "websockets"), <<DirTo("proxy_set_header", "map", "connection_upgrade")>>)
    \o When(HasAuth(in, h) /\ \E l \in ListOf(in, h) : ~l.pass,
            <<Dir("proxy_set_header", "no-Authorization")>>)

emit_request_headers(h) == When(Has(h, "request-header"), <<Dir("proxy_set_header", "custom")>>)

host_upstream_ref(h) == DirTo("proxy_pass", "upstream", <<"host", h.id>>)
location_upstream_ref(h) == Dir("proxy_pass", h.locTarget)

old_main_location(in, h) ==
    Location("/", emit_auth_request(h) \o proxy_body(in, h, host_upstream_ref(h))
                  \o When(Has(h, "cache"), <<Dir("add_header", "X-Cache-Status")>>))

main_location(in, h) ==
    Location("/", emit_auth_request(h) \o proxy_body(in, h, host_upstream_ref(h))
                  \o emit_request_headers(h)
                  \o When(Has(h, "cache"), <<Dir("include", "cache-assets.conf")>>))

open_locations(in, h) ==
    {Location(p, proxy_body(in, h, location_upstream_ref(h)) \o emit_request_headers(h)) :
        p \in h.paths}

custom_locations(in, h) ==
    {Location(p, emit_auth_request(h) \o proxy_body(in, h, location_upstream_ref(h))
                 \o emit_request_headers(h)) : p \in h.paths}

\* Instead of all of it: a page that says so.
emit_maintenance(h) ==
    {Location("/", <<Dir("add_header", "Retry-After"), Dir("return", "503")>>)}

host_own(in, h, tls) ==
    emit_geo_guard(in)
    \o When(~Has(h, "maintenance"),
            When(tls, emit_hsts(h)) \o emit_response_headers(h) \o cache_status(h)
            \o block_exploits(h) \o access(in, h) \o emit_rate_limit(h) \o emit_tuning(h)
            \o emit_error_pages(h) \o emit_forward_auth_server(h))

host_features(in, h) ==
    IF Has(h, "maintenance") THEN emit_maintenance(h)
    ELSE error_locations(h) \cup forward_auth_locations(h)
         \cup {main_location(in, h)} \cup custom_locations(in, h)

(* --------------------------------- sites --------------------------------- *)

\* A redirect to https refers to a server on 443 for each of the names.
to_https(names) ==
    [name |-> "return", arg |-> "301-https", refs |-> {<<"https", n>> : n \in names}]
tls_defs(names) == {<<"https", n>> : n \in names}
certificate(x) == <<DirTo("ssl_certificate", "acme-client", x.cert)>>
emit_mtls(h) ==
    When(Has(h, "mtls"),
         <<DirTo("ssl_client_certificate", "file", client_ca_name(h.id)),
           Dir("ssl_verify_client", IF Has(h, "mtls-optional") THEN "optional" ELSE "on")>>)

gen_http_server(in, h) ==
    Server({<<80, "plain">>}, h.names, host_own(in, h, FALSE), host_features(in, h))

force_ssl_server(h) == Server({<<80, "plain">>}, h.names, <<to_https(h.names)>>, {})

gen_https_server(in, h) ==
    Server({<<443, "ssl">>} \cup If(Has(h, "http3"), {<<443, "quic">>}), h.names,
           certificate(h)
           \o emit_mtls(h)
           \o When(Has(h, "http3"), <<Dir("add_header", "Alt-Svc")>>)
           \o host_own(in, h, TRUE),
           host_features(in, h))

eager_servers(in, h) ==
    IF CertOf(in, h) = {} THEN {gen_http_server(in, h)}
    ELSE {IF Has(h, "force-ssl") THEN force_ssl_server(h) ELSE gen_http_server(in, h)}
         \cup If(IsReady(in, h), {gen_https_server(in, h)})

\* HTTP only, whatever force_ssl says, until the certificate has been issued.
host_servers(in, h) ==
    IF ~Https(in, h) THEN {gen_http_server(in, h)}
    ELSE {IF Has(h, "force-ssl") THEN force_ssl_server(h) ELSE gen_http_server(in, h),
          gen_https_server(in, h)}

gen_host(in, h) ==
    File(<<"20-host", h.id>>,
         {<<"upstream", <<"host", h.id>>>>} \cup If(Https(in, h), tls_defs(h.names)),
         host_servers(in, h))

\* Redirect and 404 hosts: the answer, on both ports if there is a certificate, behind the
\* guard of a redirect host; a 404 host has none.
gen_site(in, x, name, guard, answer) ==
    LET own == guard \o <<answer>> IN
    File(<<name, x.id>>, If(Https(in, x), tls_defs(x.names)),
         IF ~Https(in, x) THEN {Server({<<80, "plain">>}, x.names, own, {})}
         ELSE {Server({<<80, "plain">>}, x.names,
                      IF Has(x, "force-ssl") THEN guard \o <<to_https(x.names)>>
                      ELSE own, {}),
               Server({<<443, "ssl">>}, x.names, certificate(x) \o emit_hsts(x) \o own, {})})

gen_redirect(in, x) ==
    gen_site(in, x, "30-redirect", block_exploits(x), Dir("return", "to-the-other-domain"))
gen_dead(in, x) == gen_site(in, x, "40-dead", <<>>, Dir("return", "404"))

(* -------------------------------- streams -------------------------------- *)

served_anyway(in, s) == TRUE

\* A stream that should terminate TLS and has no certificate is left out.
Served(in, s) == s.terminate => CertOf(in, s) # {}
gen_stream(s) ==
    File(<<"stream", s.id>>, {},
         {Server(IF s.terminate THEN {<<s.port, "ssl">>}
                 ELSE {<<s.port, p>> : p \in s.protocols}, {},
                 When(s.terminate, certificate(s)) \o <<Dir("proxy_pass", s.target)>>, {})})

\* One upstream for each route; the map picks one by the name the client asks for.
sni_upstreams(r) == {<<"sni", r.id, i>> : i \in 1..r.routes} \cup If(r.default, {<<"sni", r.id, 0>>})
gen_sni_router(r) ==
    File(<<"sni", r.id>>,
         {<<"sni-map", r.id>>} \cup {<<"upstream", u>> : u \in sni_upstreams(r)},
         {Server({<<r.port, "tcp">>}, {},
                 <<[name |-> "map", arg |-> "sni", refs |-> {<<"upstream", u>> : u \in sni_upstreams(r)}],
                   DirTo("proxy_pass", "sni-map", r.id)>>, {})})

(* ------------------------------ the file set ----------------------------- *)

On(rows) == {x \in rows : x.enabled}

generate(in) ==
    gen_panel(in) \cup gen_bans(in) \cup gen_default(in) \cup gen_acme(in) \cup gen_geo(in)
    \cup gen_rate_limits(in) \cup htpasswd(in) \cup client_ca(in)
    \cup {gen_host(in, h) : h \in On(in.hosts)}
    \cup {gen_redirect(in, x) : x \in On(in.redirects)}
    \cup {gen_dead(in, x) : x \in On(in.deads)}
    \cup {gen_stream(s) : s \in {x \in On(in.streams) : Served(in, x)}}
    \cup {gen_sni_router(r) : r \in On(in.routers)}

(* --------------------------------- linter -------------------------------- *)

check_include(d) == d.arg \in {"block-exploits.conf", "cache-assets.conf"}
check_root(d) == d.arg = "public_dir"
check_acme_client(d) == d.arg \in {"account_key", "own-key"}
check_ssl_cert(d) == d.arg = "acme-client"
\* A named upstream is not looked into; the panel is for the hook alone.
check_proxy_pass(d, after_acme_hook) ==
    d.arg \in {"panel", "loopback"} => after_acme_hook

check_directive(d, after_acme_hook) ==
    CASE d.name = "include" -> check_include(d)
      [] d.name = "root" -> check_root(d)
      [] d.name = "acme_client" -> check_acme_client(d)
      [] d.name = "ssl_certificate" -> check_ssl_cert(d)
      [] d.name = "proxy_pass" -> check_proxy_pass(d, after_acme_hook)
      [] OTHER -> TRUE

check_directives(s) ==
    \A i \in DOMAIN s : check_directive(s[i], i > 1 /\ s[i - 1].name = "acme_hook")

\* Streams are not linted.
check_file(f) ==
    f.name[1] \in {"stream", "sni"}
    \/ \A s \in f.servers : /\ check_directives(s.own)
                            /\ \A l \in s.locations : check_directives(l.own)
check_fileset(files) == \A f \in files : check_file(f)

(* --------------------------------- builds -------------------------------- *)

NoSite == [mode |-> "off", ranges |-> FALSE]
NoTables == [t \in Tables |-> CASE t = "settings" -> "notfound"
                                [] t = "geo" -> NoSite
                                [] t \in {"shared", "bans"} -> FALSE
                                [] OTHER -> {}]

Init == /\ db \in {d \in Databases : Valid(d)}
        /\ at = 0 /\ seen = NoTables /\ built = "none"

Reads ==
    /\ at < Len(Order)
    /\ seen' = [seen EXCEPT ![Order[at + 1]] = db[Order[at + 1]]]
    /\ at' = at + 1
    /\ UNCHANGED <<db, built>>

\* build_fileset: render, lint, answer.
Builds ==
    /\ at = Len(Order) /\ built = "none"
    /\ built' = IF ~Renders(seen) THEN "failed"
                ELSE IF check_fileset(generate(seen)) THEN "ok"
                ELSE "lint_failed"
    /\ UNCHANGED <<db, at, seen>>

\* The next preview or apply starts over.
Answers ==
    /\ built # "none"
    /\ at' = 0 /\ seen' = NoTables /\ built' = "none"
    /\ UNCHANGED db

\* A handler writes, in one transaction, or Angie issues a certificate, at any moment.
Edit(change) ==
    /\ db' = [t \in Tables |-> IF t \in DOMAIN change THEN change[t] ELSE db[t]]
    /\ Valid(db')
    /\ UNCHANGED <<at, seen, built>>

NextOf(edits) ==
    Reads \/ Builds \/ Answers \/ \E change \in edits : Edit(change)
Next == NextOf(Edits)

Spec == Init /\ [][Next]_vars

(* ------------------------------- properties ------------------------------ *)

Files == generate(seen)
Built == built = "ok"

\* The build ends in one of its outcomes, and the set holds one file for each enabled row
\* and none that no enabled row, list in use or policy asks for.
TypeOK ==
    /\ Valid(db) /\ at \in 0..Len(Order)
    /\ built \in {"none", "ok", "lint_failed", "failed"} /\ (built # "none" => at = Len(Order))
    /\ Built =>
        LET names == {f.name : f \in Files} IN
        /\ \A f, g \in Files : f.name = g.name => f = g
        /\ {h.id : h \in On(seen.hosts)} = {n[2] : n \in {x \in names : x[1] = "20-host"}}
        /\ \A n \in names : n[1] = "htpasswd" => \E h \in seen.hosts : h.list = n[2]
        /\ \A n \in names : n[1] = "client-ca" => \E h \in On(seen.hosts) : h.id = n[2]

Directives(s) ==
    Range(s.own) \cup UNION {Range(l.own) : l \in s.locations}
Definers(ref) == {f \in Files : ref \in f.defs}

\* Angie refuses a set in which something is not there: every zone, upstream, variable,
\* ACME client and file a directive refers to is defined by one file of the set, a named
\* location by the server itself, and a redirect to https finds a server on 443 for each of
\* its names ("redirecting to a :443 we don't render would send visitors into a TLS error",
\* mod.rs:1255) - whichever states of the tables the build has mixed.
Resolves ==
    Built =>
        \A f \in Files : \A s \in f.servers : \A d \in Directives(s) : \A ref \in d.refs :
            CASE ref[1] = "location" -> \E l \in s.locations : l.path = ref[2]
              [] ref[1] = "https" -> Definers(ref) # {}
              [] OTHER -> Cardinality(Definers(ref)) = 1

\* In Angie a location inherits the directives of a kind if it has none of its own.
Inherits(s, l, name) == IsA(l.own, name) \/ IsA(s.own, name)
Proxied(l) == l.path # "=/_forward_auth" /\ IsA(l.own, "proxy_pass")
HostServers(h) == UNION {f.servers : f \in {x \in Files : x.name = <<"20-host", h.id>>}}

\* What Angie may ask of a request before it answers it: a user's password, an address that
\* is allowed, a visitor that forward authentication knows.  By default it asks for all that
\* are configured; with satisfy any, one of them is enough, whichever it is.
AccessChecks == {"auth_basic", "deny", "auth_request"}
Asked(s, l) == {c \in AccessChecks : Inherits(s, l, c)}
LetsIn(s, l, passed) ==
    IF Dir("satisfy", "any") \in Range(s.own) \cup Range(l.own) /\ Asked(s, l) # {}
    THEN Asked(s, l) \cap passed # {}
    ELSE Asked(s, l) \subseteq passed

\* What the rows of a host ask for, and whether its list takes users and rules as alternatives.
Wanted(in, h) ==
    If(HasAuth(in, h), {"auth_basic"}) \cup If(HasIp(in, h), {"deny"})
    \cup If(Has(h, "forward-auth"), {"auth_request"})
Alternatives(in, h) == HasAuth(in, h) /\ HasIp(in, h) /\ Satisfy(in, h) = "any"

\* A request that reaches an upstream has passed what the rows want: all of it, unless the
\* list of the host says that a user or an allowed address will do, and then one of them.
\* Angie counts forward authentication among those alternatives: an address the list allows
\* is not asked to sign on, and a visitor who has need not be on the list.
PassesGates(in, h, s, l) ==
    \A passed \in SUBSET AccessChecks :
        LetsIn(s, l, passed) =>
            IF Alternatives(in, h) THEN passed \cap Wanted(in, h) # {}
            ELSE Wanted(in, h) \subseteq passed

\* "server scope so it covers every location" (mod.rs:1348), "emitted inside each proxy
\* location so the whole host is gated" (mod.rs:797): whatever states of the tables a build
\* has mixed and whatever else is switched on, a request gets from a location to an upstream
\* only if it passes the access list and the forward authentication the build has read - one
\* of them, where the list says "any" (PassesGates) - and under the country policy and the
\* limits of its host; over TLS it has shown the client certificate the host insists on; the
\* gate's credentials are not handed on; and the location that verifies does not ask for
\* itself.  A host without force-ssl also answers on port 80, where nobody has a certificate.
GatesHold ==
    Built =>
        \A h \in On(seen.hosts) : \A s \in HostServers(h) :
            /\ \A l \in {x \in s.locations : Proxied(x)} :
                /\ PassesGates(seen, h, s, l)
                /\ geo_active(seen) => IsA(s.own, "if-return-403")
                /\ Has(h, "rps") => Inherits(s, l, "limit_req")
                /\ Has(h, "conn") => Inherits(s, l, "limit_conn")
                /\ HasAuth(seen, h) /\ (\E x \in ListOf(seen, h) : ~x.pass)
                     => Dir("proxy_set_header", "no-Authorization") \in Range(l.own)
            /\ <<443, "ssl">> \in s.listen /\ Has(h, "mtls") =>
                 /\ IsA(s.own, "ssl_client_certificate")
                 /\ ~Has(h, "mtls-optional") => Dir("ssl_verify_client", "on") \in Range(s.own)
            /\ \A l \in s.locations :
                l.path = "=/_forward_auth" => ~Inherits(s, l, "auth_request")

\* "Keeping every add_header at this one scope is what makes them coexist" (mod.rs:1333):
\* a location with a header of its own would lose those of its server.  The page of a host
\* in maintenance is such a location, and loses Alt-Svc.
HeadersCoexist ==
    Built =>
        \A f \in Files : \A s \in f.servers : \A l \in s.locations :
            IsA(l.own, "add_header") /\ IsA(s.own, "add_header")
                => l.own[1] = Dir("add_header", "Retry-After")

\* "the panel should never produce a config its own linter rejects" (settings.rs:390).
LintClean == built # "lint_failed"
=============================================================================
