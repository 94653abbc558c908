--------------------------- MODULE Generator_proofs ---------------------------
(***************************************************************************)
(* Proofs about the generator, for any databases, any edits that come in   *)
(* between the reads of a build, and any number of rows.                   *)
(*                                                                         *)
(* What makes them go through every mixture of states is GenInv: whatever  *)
(* a build has read was valid when it was read, and the ids of a table are *)
(* a key.  Nothing is assumed of how two tables fit together.  The order   *)
(* of the directives of a server says nothing (only that of the hook's     *)
(* location does): most lemmas speak of their set, Range(s.own).           *)
(***************************************************************************)
EXTENDS Generator, FiniteSetTheorems, TLAPS

(* ------------------------------- sequences ------------------------------- *)

IsSeq(s) == s \in Seq(Range(s))

\* One sequence after the other holds what the two hold.
LEMMA ConcatRange ==
  ASSUME NEW a, NEW b, IsSeq(a), IsSeq(b)
  PROVE  IsSeq(a \o b) /\ Range(a \o b) = Range(a) \cup Range(b)
<1> DEFINE S == Range(a) \cup Range(b)
<1>1. a \in Seq(S) /\ b \in Seq(S)
  BY DEF IsSeq
<1>2. a \o b \in Seq(S) /\ Len(a \o b) = Len(a) + Len(b)
  BY <1>1
<1>3. /\ \A i \in 1..Len(a) : i \in DOMAIN a /\ (a \o b)[i] = a[i]
      /\ \A i \in 1..Len(b) : i \in DOMAIN b /\ (a \o b)[Len(a) + i] = b[i]
  BY <1>1
<1>4. /\ DOMAIN a = 1..Len(a) /\ DOMAIN b = 1..Len(b) /\ DOMAIN (a \o b) = 1..(Len(a) + Len(b))
      /\ Len(a) \in Nat /\ Len(b) \in Nat
  BY <1>1, <1>2
<1> DEFINE c == a \o b
<1> HIDE DEF c, S
<1>5. ASSUME NEW d \in Range(c) PROVE d \in Range(a) \cup Range(b)
  <2>1. PICK i \in 1..(Len(a) + Len(b)) : c[i] = d
    BY <1>4, <1>5 DEF Range, c
  <2>2. CASE i <= Len(a)
    <3>1. i \in DOMAIN a /\ a[i] = d
      BY <1>3, <1>4, <2>1, <2>2 DEF c
    <3> QED BY <3>1 DEF Range
  <2>3. CASE ~(i <= Len(a))
    <3>1. i - Len(a) \in 1..Len(b) /\ i = Len(a) + (i - Len(a))
      BY <1>4, <2>1, <2>3
    <3>2. i - Len(a) \in DOMAIN b /\ b[i - Len(a)] = d
      BY <1>3, <2>1, <3>1 DEF c
    <3> QED BY <3>2 DEF Range
  <2> QED BY <2>2, <2>3
<1>6. ASSUME NEW d \in Range(a) PROVE d \in Range(c)
  <2>1. PICK i \in 1..Len(a) : a[i] = d
    BY <1>4, <1>6 DEF Range
  <2>2. i \in DOMAIN c /\ c[i] = d
    BY <1>3, <1>4, <2>1 DEF c
  <2> QED BY <2>2 DEF Range
<1>7. ASSUME NEW d \in Range(b) PROVE d \in Range(c)
  <2>1. PICK i \in 1..Len(b) : b[i] = d
    BY <1>4, <1>7 DEF Range
  <2>2. Len(a) + i \in DOMAIN c /\ c[Len(a) + i] = d
    BY <1>3, <1>4, <2>1 DEF c
  <2> QED BY <2>2 DEF Range
<1>8. Range(c) = S
  BY <1>5, <1>6, <1>7 DEF S
<1> QED BY <1>2, <1>8 DEF IsSeq, c, S

LEMMA EmptyRange == IsSeq(<<>>) /\ Range(<<>>) = {}
BY DEF IsSeq, Range

LEMMA OneRange == ASSUME NEW d PROVE IsSeq(<<d>>) /\ Range(<<d>>) = {d}
<1>1. <<d>> \in Seq({d}) /\ DOMAIN <<d>> = {1} /\ <<d>>[1] = d
  OBVIOUS
<1> QED BY <1>1 DEF IsSeq, Range

LEMMA TwoRange == ASSUME NEW d, NEW e PROVE IsSeq(<<d, e>>) /\ Range(<<d, e>>) = {d, e}
<1>1. <<d, e>> \in Seq({d, e}) /\ DOMAIN <<d, e>> = {1, 2} /\ <<d, e>>[1] = d /\ <<d, e>>[2] = e
  OBVIOUS
<1>2. Range(<<d, e>>) = {d, e}
  BY <1>1 DEF Range
<1> QED BY <1>1, <1>2 DEF IsSeq

\* A directive that is there on a condition.
LEMMA WhenRange ==
  ASSUME NEW c, NEW s, IsSeq(s)
  PROVE  IsSeq(When(c, s)) /\ Range(When(c, s)) = If(c, Range(s))
BY EmptyRange DEF When, If

LEMMA WhenOne ==
  ASSUME NEW c, NEW d
  PROVE  IsSeq(When(c, <<d>>)) /\ Range(When(c, <<d>>)) = If(c, {d})
BY OneRange, WhenRange

LEMMA WhenTwo ==
  ASSUME NEW c, NEW d, NEW e
  PROVE  IsSeq(When(c, <<d, e>>)) /\ Range(When(c, <<d, e>>)) = If(c, {d, e})
<1>1. IsSeq(<<d, e>>) /\ Range(<<d, e>>) = {d, e}
  BY TwoRange
<1> QED BY <1>1, WhenRange

\* What the records of a rendering are made of.
LEMMA Parts ==
  /\ \A n, a : Dir(n, a).name = n /\ Dir(n, a).arg = a /\ Dir(n, a).refs = {}
  /\ \A n, k, x : DirTo(n, k, x).name = n /\ DirTo(n, k, x).arg = k /\ DirTo(n, k, x).refs = {<<k, x>>}
  /\ \A p, o : Location(p, o).path = p /\ Location(p, o).own = o
  /\ \A p, n, o, l : /\ Server(p, n, o, l).listen = p /\ Server(p, n, o, l).names = n
                     /\ Server(p, n, o, l).own = o /\ Server(p, n, o, l).locations = l
  /\ \A n, d, s : File(n, d, s).name = n /\ File(n, d, s).defs = d /\ File(n, d, s).servers = s
BY DEF Dir, DirTo, Location, Server, File

\* What is there on a condition is at most what it would be.
LEMMA IfSubset == ASSUME NEW c, NEW S PROVE If(c, S) \subseteq S
BY DEF If

(* ------------------------------- directives ------------------------------ *)

\* What each part of the generator writes, as a set.
LEMMA HeaderRange ==
  ASSUME NEW h
  PROVE  /\ IsSeq(emit_hsts(h))
         /\ Range(emit_hsts(h)) = If(Has(h, "hsts"), {Dir("add_header", "Strict-Transport-Security")})
         /\ IsSeq(emit_response_headers(h))
         /\ Range(emit_response_headers(h)) = If(Has(h, "response-header"), {Dir("add_header", "custom")})
         /\ IsSeq(cache_status(h))
         /\ Range(cache_status(h)) = If(Has(h, "cache"), {Dir("add_header", "X-Cache-Status")})
         /\ IsSeq(block_exploits(h))
         /\ Range(block_exploits(h)) = If(Has(h, "exploits"), {Dir("include", "block-exploits.conf")})
         /\ IsSeq(emit_request_headers(h))
         /\ Range(emit_request_headers(h)) =
               If(Has(h, "request-header"), {Dir("proxy_set_header", "custom")})
BY WhenOne DEF emit_hsts, emit_response_headers, cache_status, block_exploits, emit_request_headers

LEMMA GuardRange ==
  ASSUME NEW in, NEW h
  PROVE  /\ IsSeq(emit_geo_guard(in))
         /\ Range(emit_geo_guard(in)) =
               If(geo_active(in), {DirTo("if-return-403", "map", "ap_geo_deny")})
         /\ IsSeq(emit_forward_auth_server(h))
         /\ Range(emit_forward_auth_server(h)) =
               If(Has(h, "sign-in"), {DirTo("error_page", "location", "@forward_auth_signin")})
         /\ IsSeq(emit_auth_request(h))
         /\ Range(emit_auth_request(h)) =
               If(Has(h, "forward-auth"), {DirTo("auth_request", "location", "=/_forward_auth")})
BY WhenOne DEF emit_geo_guard, emit_forward_auth_server, emit_auth_request

LEMMA AccessRange ==
  ASSUME NEW in, NEW h
  PROVE  /\ IsSeq(access(in, h))
         /\ Range(access(in, h)) =
               If(HasAuth(in, h) /\ HasIp(in, h), {Dir("satisfy", Satisfy(in, h))})
               \cup If(HasAuth(in, h), {DirTo("auth_basic", "file", htpasswd_name(h.list))})
               \cup If(HasIp(in, h), {Dir("allow", ""), Dir("deny", "all")})
<1> DEFINE a == When(HasAuth(in, h) /\ HasIp(in, h), <<Dir("satisfy", Satisfy(in, h))>>)
           b == When(HasAuth(in, h), <<DirTo("auth_basic", "file", htpasswd_name(h.list))>>)
           c == When(HasIp(in, h), <<Dir("allow", ""), Dir("deny", "all")>>)
<1>1. IsSeq(a) /\ Range(a) = If(HasAuth(in, h) /\ HasIp(in, h), {Dir("satisfy", Satisfy(in, h))})
  BY WhenOne
<1>2. IsSeq(b) /\ Range(b) = If(HasAuth(in, h), {DirTo("auth_basic", "file", htpasswd_name(h.list))})
  BY WhenOne
<1>3. IsSeq(c) /\ Range(c) = If(HasIp(in, h), {Dir("allow", ""), Dir("deny", "all")})
  BY WhenTwo
<1>4. access(in, h) = (a \o b) \o c
  BY DEF access
<1> HIDE DEF a, b, c
<1>5. IsSeq(a \o b) /\ Range(a \o b) = Range(a) \cup Range(b)
  BY <1>1, <1>2, ConcatRange
<1>6. IsSeq((a \o b) \o c) /\ Range((a \o b) \o c) = (Range(a) \cup Range(b)) \cup Range(c)
  BY <1>3, <1>5, ConcatRange
<1> QED BY <1>1, <1>2, <1>3, <1>4, <1>6

LEMMA LimitRange ==
  ASSUME NEW h
  PROVE  /\ IsSeq(emit_rate_limit(h))
         /\ Range(emit_rate_limit(h)) =
               If(Has(h, "rps"), {DirTo("limit_req", "req-zone", h.id)})
               \cup If(Has(h, "conn"), {DirTo("limit_conn", "conn-zone", h.id)})
         /\ IsSeq(emit_tuning(h))
         /\ Range(emit_tuning(h)) =
               If(Has(h, "gzip"), {Dir("gzip", "on")})
               \cup If(Has(h, "tuning"), {Dir("proxy_buffering", "off")})
BY WhenOne, ConcatRange DEF emit_rate_limit, emit_tuning

LEMMA ErrorRange ==
  ASSUME NEW h
  PROVE  /\ IsSeq(emit_error_pages(h))
         /\ Range(emit_error_pages(h)) =
               If(Has(h, "404") \/ Has(h, "5xx"), {Dir("proxy_intercept_errors", "on")})
               \cup If(Has(h, "404"), {DirTo("error_page", "location", "@ap_err_404")})
               \cup If(Has(h, "5xx"), {DirTo("error_page", "location", "@ap_err_5xx")})
<1> DEFINE a == When(Has(h, "404") \/ Has(h, "5xx"), <<Dir("proxy_intercept_errors", "on")>>)
           b == When(Has(h, "404"), <<DirTo("error_page", "location", "@ap_err_404")>>)
           c == When(Has(h, "5xx"), <<DirTo("error_page", "location", "@ap_err_5xx")>>)
<1>1. /\ IsSeq(a) /\ Range(a) = If(Has(h, "404") \/ Has(h, "5xx"), {Dir("proxy_intercept_errors", "on")})
      /\ IsSeq(b) /\ Range(b) = If(Has(h, "404"), {DirTo("error_page", "location", "@ap_err_404")})
      /\ IsSeq(c) /\ Range(c) = If(Has(h, "5xx"), {DirTo("error_page", "location", "@ap_err_5xx")})
  BY WhenOne
<1>2. emit_error_pages(h) = (a \o b) \o c
  BY DEF emit_error_pages
<1> HIDE DEF a, b, c
<1>3. IsSeq(a \o b) /\ Range(a \o b) = Range(a) \cup Range(b)
  BY <1>1, ConcatRange
<1>4. IsSeq((a \o b) \o c) /\ Range((a \o b) \o c) = (Range(a) \cup Range(b)) \cup Range(c)
  BY <1>1, <1>3, ConcatRange
<1> QED BY <1>1, <1>2, <1>4

\* What the server of a host says, on either port.
LEMMA HostRange ==
  ASSUME NEW in, NEW h, NEW tls
  PROVE  /\ IsSeq(host_own(in, h, tls))
         /\ Range(host_own(in, h, tls)) =
               Range(emit_geo_guard(in))
               \cup If(~Has(h, "maintenance"),
                       If(tls, Range(emit_hsts(h))) \cup Range(emit_response_headers(h))
                       \cup Range(cache_status(h)) \cup Range(block_exploits(h))
                       \cup Range(access(in, h)) \cup Range(emit_rate_limit(h))
                       \cup Range(emit_tuning(h)) \cup Range(emit_error_pages(h))
                       \cup Range(emit_forward_auth_server(h)))
<1> DEFINE a1 == When(tls, emit_hsts(h))
           a2 == a1 \o emit_response_headers(h)
           a3 == a2 \o cache_status(h)
           a4 == a3 \o block_exploits(h)
           a5 == a4 \o access(in, h)
           a6 == a5 \o emit_rate_limit(h)
           a7 == a6 \o emit_tuning(h)
           a8 == a7 \o emit_error_pages(h)
           a9 == a8 \o emit_forward_auth_server(h)
<1>0. host_own(in, h, tls) = emit_geo_guard(in) \o When(~Has(h, "maintenance"), a9)
  BY DEF host_own
<1>1. IsSeq(a1) /\ Range(a1) = If(tls, Range(emit_hsts(h)))
  BY HeaderRange, WhenRange
<1> HIDE DEF a1
<1>2. IsSeq(a2) /\ Range(a2) = Range(a1) \cup Range(emit_response_headers(h))
  BY <1>1, HeaderRange, ConcatRange
<1> HIDE DEF a2
<1>3. IsSeq(a3) /\ Range(a3) = Range(a2) \cup Range(cache_status(h))
  BY <1>2, HeaderRange, ConcatRange
<1> HIDE DEF a3
<1>4. IsSeq(a4) /\ Range(a4) = Range(a3) \cup Range(block_exploits(h))
  BY <1>3, HeaderRange, ConcatRange
<1> HIDE DEF a4
<1>5. IsSeq(a5) /\ Range(a5) = Range(a4) \cup Range(access(in, h))
  BY <1>4, AccessRange, ConcatRange
<1> HIDE DEF a5
<1>6. IsSeq(a6) /\ Range(a6) = Range(a5) \cup Range(emit_rate_limit(h))
  BY <1>5, LimitRange, ConcatRange
<1> HIDE DEF a6
<1>7. IsSeq(a7) /\ Range(a7) = Range(a6) \cup Range(emit_tuning(h))
  BY <1>6, LimitRange, ConcatRange
<1> HIDE DEF a7
<1>8. IsSeq(a8) /\ Range(a8) = Range(a7) \cup Range(emit_error_pages(h))
  BY <1>7, ErrorRange, ConcatRange
<1> HIDE DEF a8
<1>9. IsSeq(a9) /\ Range(a9) = Range(a8) \cup Range(emit_forward_auth_server(h))
  BY <1>8, GuardRange, ConcatRange
<1> HIDE DEF a9
<1>10. /\ IsSeq(host_own(in, h, tls))
       /\ Range(host_own(in, h, tls)) = Range(emit_geo_guard(in)) \cup If(~Has(h, "maintenance"), Range(a9))
  <2> DEFINE w == When(~Has(h, "maintenance"), a9)
  <2>1. IsSeq(w) /\ Range(w) = If(~Has(h, "maintenance"), Range(a9))
    BY <1>9, WhenRange
  <2> HIDE DEF w
  <2>2. /\ IsSeq(emit_geo_guard(in) \o w)
        /\ Range(emit_geo_guard(in) \o w) = Range(emit_geo_guard(in)) \cup Range(w)
    BY <2>1, GuardRange, ConcatRange
  <2> QED BY <1>0, <2>1, <2>2 DEF w
<1> QED BY <1>1, <1>2, <1>3, <1>4, <1>5, <1>6, <1>7, <1>8, <1>9, <1>10

LEMMA ProxyRange ==
  ASSUME NEW in, NEW h, NEW target
  PROVE  /\ IsSeq(proxy_body(in, h, target))
         /\ Range(proxy_body(in, h, target)) =
               {target, Dir("proxy_set_header", "Host")}
               \cup If(Has(h, "websockets"), {DirTo("proxy_set_header", "map", "connection_upgrade")})
               \cup If(HasAuth(in, h) /\ \E l \in ListOf(in, h) : ~l.pass,
                       {Dir("proxy_set_header", "no-Authorization")})
<1> DEFINE a == <<target, Dir("proxy_set_header", "Host")>>
           b == When(Has(h, "websockets"), <<DirTo("proxy_set_header", "map", "connection_upgrade")>>)
           c == When(HasAuth(in, h) /\ \E l \in ListOf(in, h) : ~l.pass,
                     <<Dir("proxy_set_header", "no-Authorization")>>)
<1>1. IsSeq(a) /\ Range(a) = {target, Dir("proxy_set_header", "Host")}
  BY TwoRange
<1>2. /\ IsSeq(b)
      /\ Range(b) = If(Has(h, "websockets"), {DirTo("proxy_set_header", "map", "connection_upgrade")})
  BY WhenOne
<1>3. /\ IsSeq(c)
      /\ Range(c) = If(HasAuth(in, h) /\ \E l \in ListOf(in, h) : ~l.pass,
                       {Dir("proxy_set_header", "no-Authorization")})
  BY WhenOne
<1>4. proxy_body(in, h, target) = (a \o b) \o c
  BY DEF proxy_body
<1> HIDE DEF a, b, c
<1>5. IsSeq(a \o b) /\ Range(a \o b) = Range(a) \cup Range(b)
  BY <1>1, <1>2, ConcatRange
<1>6. IsSeq((a \o b) \o c) /\ Range((a \o b) \o c) = (Range(a) \cup Range(b)) \cup Range(c)
  BY <1>3, <1>5, ConcatRange
<1> QED BY <1>1, <1>2, <1>3, <1>4, <1>6

LEMMA MainRange ==
  ASSUME NEW in, NEW h
  PROVE  Range(main_location(in, h).own) =
            Range(emit_auth_request(h)) \cup Range(proxy_body(in, h, host_upstream_ref(h)))
            \cup Range(emit_request_headers(h))
            \cup If(Has(h, "cache"), {Dir("include", "cache-assets.conf")})
<1> DEFINE a == emit_auth_request(h)
           b == proxy_body(in, h, host_upstream_ref(h))
           c == emit_request_headers(h)
           d == When(Has(h, "cache"), <<Dir("include", "cache-assets.conf")>>)
<1>1. IsSeq(a) /\ IsSeq(b) /\ IsSeq(c)
  BY GuardRange, ProxyRange, HeaderRange
<1>2. IsSeq(d) /\ Range(d) = If(Has(h, "cache"), {Dir("include", "cache-assets.conf")})
  BY WhenOne
<1>3. main_location(in, h).own = ((a \o b) \o c) \o d
  BY DEF main_location, Location
<1> HIDE DEF a, b, c, d
<1>4. IsSeq(a \o b) /\ Range(a \o b) = Range(a) \cup Range(b)
  BY <1>1, ConcatRange
<1>5. IsSeq((a \o b) \o c) /\ Range((a \o b) \o c) = (Range(a) \cup Range(b)) \cup Range(c)
  BY <1>1, <1>4, ConcatRange
<1>6. Range(((a \o b) \o c) \o d) = ((Range(a) \cup Range(b)) \cup Range(c)) \cup Range(d)
  BY <1>2, <1>5, ConcatRange
<1> QED BY <1>2, <1>3, <1>6 DEF a, b, c

LEMMA CustomRange ==
  ASSUME NEW in, NEW h, NEW l \in custom_locations(in, h)
  PROVE  /\ l.path \in h.paths
         /\ Range(l.own) = Range(emit_auth_request(h))
                           \cup Range(proxy_body(in, h, location_upstream_ref(h)))
                           \cup Range(emit_request_headers(h))
<1> DEFINE a == emit_auth_request(h)
           b == proxy_body(in, h, location_upstream_ref(h))
           c == emit_request_headers(h)
<1>1. IsSeq(a) /\ IsSeq(b) /\ IsSeq(c)
  BY GuardRange, ProxyRange, HeaderRange
<1>2. l.path \in h.paths /\ l.own = (a \o b) \o c
  BY DEF custom_locations, Location
<1> HIDE DEF a, b, c
<1>3. IsSeq(a \o b) /\ Range(a \o b) = Range(a) \cup Range(b)
  BY <1>1, ConcatRange
<1>4. Range((a \o b) \o c) = (Range(a) \cup Range(b)) \cup Range(c)
  BY <1>1, <1>3, ConcatRange
<1> QED BY <1>2, <1>4 DEF a, b, c

\* What a host that wants client certificates says on 443.
MtlsSet(h) ==
  {DirTo("ssl_client_certificate", "file", client_ca_name(h.id)),
   Dir("ssl_verify_client", IF Has(h, "mtls-optional") THEN "optional" ELSE "on")}

LEMMA HttpsRange ==
  ASSUME NEW in, NEW h
  PROVE  Range(gen_https_server(in, h).own) =
            {DirTo("ssl_certificate", "acme-client", h.cert)}
            \cup If(Has(h, "mtls"), MtlsSet(h))
            \cup If(Has(h, "http3"), {Dir("add_header", "Alt-Svc")})
            \cup Range(host_own(in, h, TRUE))
<1> DEFINE a == certificate(h)
           b == emit_mtls(h)
           c == When(Has(h, "http3"), <<Dir("add_header", "Alt-Svc")>>)
           d == host_own(in, h, TRUE)
<1>1. IsSeq(a) /\ Range(a) = {DirTo("ssl_certificate", "acme-client", h.cert)}
  BY OneRange DEF certificate
<1>2. IsSeq(b) /\ Range(b) = If(Has(h, "mtls"), MtlsSet(h))
  BY WhenTwo DEF emit_mtls, MtlsSet
<1>3. IsSeq(c) /\ Range(c) = If(Has(h, "http3"), {Dir("add_header", "Alt-Svc")})
  BY WhenOne
<1>4. IsSeq(d)
  BY HostRange
<1>5. gen_https_server(in, h).own = ((a \o b) \o c) \o d
  BY DEF gen_https_server, Server
<1> HIDE DEF a, b, c, d
<1>6. IsSeq(a \o b) /\ Range(a \o b) = Range(a) \cup Range(b)
  BY <1>1, <1>2, ConcatRange
<1>7. IsSeq((a \o b) \o c) /\ Range((a \o b) \o c) = (Range(a) \cup Range(b)) \cup Range(c)
  BY <1>3, <1>6, ConcatRange
<1>8. Range(((a \o b) \o c) \o d) = ((Range(a) \cup Range(b)) \cup Range(c)) \cup Range(d)
  BY <1>4, <1>7, ConcatRange
<1> QED BY <1>1, <1>2, <1>3, <1>5, <1>8 DEF d

\* What may stand before the answer of a site: nothing, or the snippet of a redirect host.
SiteGuard(b) == IsSeq(b) /\ Range(b) \subseteq {Dir("include", "block-exploits.conf")}

LEMMA SiteGuards == SiteGuard(<<>>) /\ \A x : SiteGuard(block_exploits(x))
BY EmptyRange, HeaderRange DEF SiteGuard, If

\* What a directive is on the three kinds of server of a site.
LEMMA SiteRange ==
  ASSUME NEW in, NEW x, NEW name, NEW b, SiteGuard(b), NEW answer,
         NEW s \in gen_site(in, x, name, b, answer).servers
  PROVE  /\ s.locations = {}
         /\ Range(s.own) \subseteq
               If(Https(in, x), {DirTo("ssl_certificate", "acme-client", x.cert), to_https(x.names)})
               \cup {Dir("add_header", "Strict-Transport-Security"),
                     Dir("include", "block-exploits.conf"), answer}
<1> DEFINE p == b \o <<answer>>
           r == b \o <<to_https(x.names)>>
           c == certificate(x)
           t == emit_hsts(x)
           q == (c \o t) \o p
<1>1. IsSeq(b) /\ Range(b) \subseteq {Dir("include", "block-exploits.conf")}
  BY DEF SiteGuard
<1>2. IsSeq(c) /\ Range(c) = {DirTo("ssl_certificate", "acme-client", x.cert)}
  BY OneRange DEF certificate
<1>3. IsSeq(t) /\ Range(t) \subseteq {Dir("add_header", "Strict-Transport-Security")}
  BY HeaderRange DEF If
<1>4. /\ s.locations = {}
      /\ \/ s.own = p
         \/ Https(in, x) /\ s.own \in {r, q}
  <2> DEFINE n == <<name, x.id>>
             d == If(Https(in, x), tls_defs(x.names))
             http(o) == Server({<<80, "plain">>}, x.names, o, {})
             https == Server({<<443, "ssl">>}, x.names, q, {})
             S == IF ~Https(in, x) THEN {http(p)}
                  ELSE {http(IF Has(x, "force-ssl") THEN r ELSE p), https}
  <2>1. gen_site(in, x, name, b, answer) = File(n, d, S)
    BY DEF gen_site
  <2> HIDE DEF n, d, S
  <2>2. s \in S
    BY <2>1, Parts
  <2> HIDE DEF p, q, r
  <2>3. \A o : http(o).own = o /\ http(o).locations = {}
    BY Parts
  <2>4. https.own = q /\ https.locations = {}
    BY Parts
  <2> HIDE DEF http, https
  <2> QED BY <2>2, <2>3, <2>4 DEF S
<1> HIDE DEF c, t
<1>5. IsSeq(p) /\ Range(p) = Range(b) \cup {answer}
  BY <1>1, OneRange, ConcatRange
<1>6. Range(r) = Range(b) \cup {to_https(x.names)}
  BY <1>1, OneRange, ConcatRange
<1>7. IsSeq(c \o t) /\ Range(c \o t) = Range(c) \cup Range(t)
  BY <1>2, <1>3, ConcatRange
<1> HIDE DEF p, r
<1>8. Range(q) = (Range(c) \cup Range(t)) \cup Range(p)
  BY <1>5, <1>7, ConcatRange
<1> HIDE DEF q
<1> DEFINE D == {DirTo("ssl_certificate", "acme-client", x.cert), to_https(x.names)}
<1>9. Https(in, x) => D = If(Https(in, x), D)
  BY DEF If
<1> QED BY <1>1, <1>2, <1>3, <1>4, <1>5, <1>6, <1>8, <1>9

(* ------------------------------- invariant ------------------------------- *)

\* What a build may have read: rows that were valid when it read them, whose ids are keys.
Sound(in) == Keyed(in) /\ \A h \in in.hosts : validate_host_input(h)

\* The tables as a build finds them, and what it has made of them.
GenInv ==
  /\ Valid(db) /\ DOMAIN db = Tables
  /\ Sound(seen) /\ DOMAIN seen = Tables
  /\ at \in 0..Len(Order)
  /\ built \in {"none", "ok", "lint_failed", "failed"}
  /\ built # "none" => at = Len(Order)
  /\ built = "lint_failed" => ~check_fileset(generate(seen))

LEMMA TablesAre ==
  /\ Tables = {"hosts", "settings", "certs", "ready", "geo", "shared", "lists", "users",
               "redirects", "deads", "streams", "routers", "bans"}
  /\ Len(Order) = 13
<1>1. Len(Order) = 13 /\ DOMAIN Order = 1..13
  BY DEF Order
<1>2. /\ Order[1] = "hosts" /\ Order[2] = "settings" /\ Order[3] = "certs" /\ Order[4] = "ready"
      /\ Order[5] = "geo" /\ Order[6] = "shared" /\ Order[7] = "lists" /\ Order[8] = "users"
      /\ Order[9] = "redirects" /\ Order[10] = "deads" /\ Order[11] = "streams"
      /\ Order[12] = "routers" /\ Order[13] = "bans"
  BY DEF Order
<1>3. DOMAIN Order = {1, 2, 3, 4, 5, 6, 7, 8, 9, 10, 11, 12, 13}
  BY <1>1
<1> QED BY <1>1, <1>2, <1>3 DEF Tables, Range

LEMMA NothingIsSound == Sound(NoTables) /\ DOMAIN NoTables = Tables
<1>1. \A t \in {"hosts", "certs", "lists", "redirects", "deads", "streams", "routers"} :
         NoTables[t] = {}
  BY TablesAre DEF NoTables
<1>2. NoTables.hosts = {}
  BY <1>1
<1>3. DOMAIN NoTables = Tables
  BY DEF NoTables
<1> QED BY <1>1, <1>2, <1>3 DEF Sound, Keyed

LEMMA GenInvInit == Init => GenInv
BY NothingIsSound, TablesAre, GeneratorAssumption DEF Init, GenInv

LEMMA ReadsKeeps == GenInv /\ Reads => GenInv'
<1> SUFFICES ASSUME GenInv, Reads PROVE GenInv'
  OBVIOUS
<1>1. /\ DOMAIN seen' = Tables
      /\ \A t \in Tables : seen'[t] \in {seen[t], db[t]}
  BY DEF Reads, GenInv
<1>2. /\ seen'.hosts \in {seen.hosts, db.hosts}
      /\ \A t \in {"hosts", "certs", "lists", "redirects", "deads", "streams", "routers"} :
            seen'[t] \in {seen[t], db[t]}
  BY <1>1, TablesAre
<1>3. Keyed(seen) /\ Keyed(db)
  BY DEF GenInv, Sound, Valid
<1>4. Keyed(seen')
  BY <1>2, <1>3 DEF Keyed
<1>5. \A h \in seen'.hosts : validate_host_input(h)
  BY <1>2 DEF GenInv, Sound, Valid
<1>6. at \in 0..12 /\ at' = at + 1 /\ at' \in 0..Len(Order) /\ built = "none" /\ built' = "none"
  BY TablesAre DEF Reads, GenInv
<1>7. db' = db
  BY DEF Reads
<1> QED BY <1>1, <1>4, <1>5, <1>6, <1>7 DEF GenInv, Sound

LEMMA BuildsKeeps == GenInv /\ Builds => GenInv'
BY DEF GenInv, Builds, Sound, Keyed

LEMMA AnswersKeeps == GenInv /\ Answers => GenInv'
BY NothingIsSound, TablesAre DEF GenInv, Answers

LEMMA EditKeeps == ASSUME NEW change PROVE GenInv /\ Edit(change) => GenInv'
BY DEF GenInv, Edit

LEMMA GenInvStep == GenInv /\ [Next]_vars => GenInv'
<1> SUFFICES ASSUME GenInv, [Next]_vars PROVE GenInv'
  OBVIOUS
<1>1. CASE Reads
  BY <1>1, ReadsKeeps
<1>2. CASE Builds
  BY <1>2, BuildsKeeps
<1>3. CASE Answers
  BY <1>3, AnswersKeeps
<1>4. CASE \E change \in Edits : Edit(change)
  BY <1>4, EditKeeps
<1>5. CASE UNCHANGED vars
  BY <1>5 DEF vars, GenInv
<1> QED BY <1>1, <1>2, <1>3, <1>4, <1>5 DEF Next, NextOf

\* What the tables hold, and what a build has read of them, is always valid on its own,
\* whichever edits come in between two reads.
THEOREM GenInvHolds == Spec => []GenInv
BY GenInvInit, GenInvStep, PTL DEF Spec

(* --------------------------------- files --------------------------------- *)

LEMMA FileCases ==
  ASSUME NEW in, NEW f \in generate(in)
  PROVE  \/ f \in gen_panel(in)
         \/ f \in gen_bans(in)
         \/ f \in gen_default(in)
         \/ f \in gen_acme(in)
         \/ f \in gen_geo(in)
         \/ f \in gen_rate_limits(in)
         \/ f \in htpasswd(in)
         \/ f \in client_ca(in)
         \/ \E h \in On(in.hosts) : f = gen_host(in, h)
         \/ \E x \in On(in.redirects) : f = gen_redirect(in, x)
         \/ \E x \in On(in.deads) : f = gen_dead(in, x)
         \/ \E s \in On(in.streams) : Served(in, s) /\ f = gen_stream(s)
         \/ \E r \in On(in.routers) : f = gen_sni_router(r)
BY DEF generate

\* A directive of a name is there if one of the set has it.
LEMMA IsAIsIn == ASSUME NEW s, NEW name PROVE IsA(s, name) <=> \E d \in Range(s) : d.name = name
BY DEF IsA, Range

LEMMA HostServer ==
  ASSUME NEW in, NEW h, NEW s \in gen_host(in, h).servers
  PROVE  \/ Https(in, h) /\ s = force_ssl_server(h)
         \/ s = gen_http_server(in, h)
         \/ Https(in, h) /\ s = gen_https_server(in, h)
BY DEF gen_host, File, host_servers

LEMMA HostServerParts ==
  ASSUME NEW in, NEW h
  PROVE  /\ gen_http_server(in, h).locations = host_features(in, h)
         /\ gen_https_server(in, h).locations = host_features(in, h)
         /\ force_ssl_server(h).locations = {}
         /\ gen_http_server(in, h).own = host_own(in, h, FALSE)
         /\ Range(force_ssl_server(h).own) = {to_https(h.names)}
BY OneRange DEF gen_http_server, gen_https_server, force_ssl_server, Server

\* The locations of a host that show a page, ask who it is, or send to the sign-in page.
LEMMA PlainLocations ==
  ASSUME NEW h, NEW l \in error_locations(h) \cup forward_auth_locations(h)
  PROVE  \/ Has(h, "404") /\ l.path = "@ap_err_404" /\ Range(l.own) = {Dir("return", "404")}
         \/ Has(h, "5xx") /\ l.path = "@ap_err_5xx" /\ Range(l.own) = {Dir("return", "503")}
         \/ Has(h, "sign-in") /\ l.path = "@forward_auth_signin" /\ Range(l.own) = {Dir("return", "302")}
         \/ /\ Has(h, "forward-auth") /\ l.path = "=/_forward_auth"
            /\ Range(l.own) = {Dir("internal", ""), Dir("proxy_pass", h.verify)}
<1>1. \/ Has(h, "404") /\ l = Location("@ap_err_404", <<Dir("return", "404")>>)
      \/ Has(h, "5xx") /\ l = Location("@ap_err_5xx", <<Dir("return", "503")>>)
      \/ Has(h, "sign-in") /\ l = Location("@forward_auth_signin", <<Dir("return", "302")>>)
      \/ /\ Has(h, "forward-auth")
         /\ l = Location("=/_forward_auth", <<Dir("internal", ""), Dir("proxy_pass", h.verify)>>)
  BY DEF error_locations, forward_auth_locations, If
<1>2. /\ Range(<<Dir("return", "404")>>) = {Dir("return", "404")}
      /\ Range(<<Dir("return", "503")>>) = {Dir("return", "503")}
      /\ Range(<<Dir("return", "302")>>) = {Dir("return", "302")}
      /\ Range(<<Dir("internal", ""), Dir("proxy_pass", h.verify)>>)
           = {Dir("internal", ""), Dir("proxy_pass", h.verify)}
  BY OneRange, TwoRange
<1>3. CASE Has(h, "404") /\ l = Location("@ap_err_404", <<Dir("return", "404")>>)
  BY <1>2, <1>3 DEF Location
<1>4. CASE Has(h, "5xx") /\ l = Location("@ap_err_5xx", <<Dir("return", "503")>>)
  BY <1>2, <1>4 DEF Location
<1>5. CASE Has(h, "sign-in") /\ l = Location("@forward_auth_signin", <<Dir("return", "302")>>)
  BY <1>2, <1>5 DEF Location
<1>6. CASE /\ Has(h, "forward-auth")
           /\ l = Location("=/_forward_auth", <<Dir("internal", ""), Dir("proxy_pass", h.verify)>>)
  BY <1>2, <1>6 DEF Location
<1> QED BY <1>1, <1>3, <1>4, <1>5, <1>6

\* What a host's locations say when it is not in maintenance.
LEMMA FeatureCases ==
  ASSUME NEW in, NEW h, ~Has(h, "maintenance"), NEW l \in host_features(in, h)
  PROVE  \/ l \in error_locations(h) \cup forward_auth_locations(h)
         \/ l = main_location(in, h)
         \/ l \in custom_locations(in, h)
BY DEF host_features

LEMMA Maintenance ==
  ASSUME NEW in, NEW h, Has(h, "maintenance"), NEW l \in host_features(in, h)
  PROVE  /\ l.path = "/" /\ l.own[1] = Dir("add_header", "Retry-After")
         /\ Range(l.own) = {Dir("add_header", "Retry-After"), Dir("return", "503")}
<1>1. l = Location("/", <<Dir("add_header", "Retry-After"), Dir("return", "503")>>)
  BY DEF host_features, emit_maintenance
<1> QED BY <1>1, TwoRange DEF Location

(* --------------------------------- headers ------------------------------- *)

LEMMA NoHeaderInHost ==
  ASSUME NEW in, NEW h, ~Has(h, "maintenance"), NEW l \in host_features(in, h)
  PROVE  ~IsA(l.own, "add_header")
<1>1. \A d \in Range(emit_auth_request(h)) \cup Range(emit_request_headers(h)) : d.name # "add_header"
  BY GuardRange, HeaderRange DEF If, Dir, DirTo
<1>2. ASSUME NEW t, t.name # "add_header", NEW d \in Range(proxy_body(in, h, t)) PROVE d.name # "add_header"
  BY <1>2, ProxyRange DEF If, Dir, DirTo
<1>3. host_upstream_ref(h).name # "add_header" /\ location_upstream_ref(h).name # "add_header"
  BY DEF host_upstream_ref, location_upstream_ref, Dir, DirTo
<1>4. CASE l \in error_locations(h) \cup forward_auth_locations(h)
  <2>1. \/ Range(l.own) = {Dir("return", "404")}
        \/ Range(l.own) = {Dir("return", "503")}
        \/ Range(l.own) = {Dir("return", "302")}
        \/ Range(l.own) = {Dir("internal", ""), Dir("proxy_pass", h.verify)}
    BY <1>4, PlainLocations
  <2>2. /\ \A a : Dir("return", a).name # "add_header" /\ Dir("internal", a).name # "add_header"
        /\ \A a : Dir("proxy_pass", a).name # "add_header"
    BY DEF Dir
  <2>3. \A d \in Range(l.own) : d.name # "add_header"
    BY <2>1, <2>2
  <2> QED BY <2>3, IsAIsIn
<1>5. CASE l = main_location(in, h)
  <2>1. \A d \in {Dir("include", "cache-assets.conf")} : d.name # "add_header"
    BY DEF Dir
  <2>2. \A d \in Range(l.own) : d.name # "add_header"
    BY <1>1, <1>2, <1>3, <1>5, <2>1, MainRange DEF If
  <2> QED BY <2>2, IsAIsIn
<1>6. CASE l \in custom_locations(in, h)
  <2>1. \A d \in Range(l.own) : d.name # "add_header"
    BY <1>1, <1>2, <1>3, <1>6, CustomRange
  <2> QED BY <2>1, IsAIsIn
<1> QED BY <1>4, <1>5, <1>6, FeatureCases

LEMMA HookNoHeader ==
  ASSUME NEW in, NEW f \in gen_acme(in), NEW s \in f.servers, NEW l \in s.locations
  PROVE  ~IsA(l.own, "add_header")
<1>1. PICK c : l = hook_location(c)
  BY DEF gen_acme, File, Server, If
<1>2. l.own = <<DirTo("acme_hook", "acme-client", c.id), Dir("proxy_pass", "panel"),
                Dir("proxy_read_timeout", "560s"), Dir("proxy_set_header", "X-Acme-*")>>
  BY <1>1 DEF hook_location, Location
<1>3. \A i \in DOMAIN l.own : l.own[i].name # "add_header"
  BY <1>2 DEF Dir, DirTo
<1> QED BY <1>3 DEF IsA

LEMMA HeadersInFiles ==
  ASSUME NEW in, NEW f \in generate(in), NEW s \in f.servers, NEW l \in s.locations
  PROVE  IsA(l.own, "add_header") /\ IsA(s.own, "add_header") => l.own[1] = Dir("add_header", "Retry-After")
<1>1. CASE f \in gen_panel(in)
  <2>1. l.own = <<Dir("api", "/status/")>>
    BY <1>1 DEF gen_panel, File, Server, Location
  <2>2. \A i \in DOMAIN l.own : l.own[i].name # "add_header"
    BY <2>1 DEF Dir
  <2> QED BY <2>2 DEF IsA
<1>2. CASE f \in gen_acme(in)
  BY <1>2, HookNoHeader
<1>3. CASE \E h \in On(in.hosts) : f = gen_host(in, h)
  <2>1. PICK h \in On(in.hosts) : f = gen_host(in, h)
    BY <1>3
  <2>2. l \in host_features(in, h)
    <3>1. s.locations = {} \/ s.locations = host_features(in, h)
      BY <2>1, HostServer, HostServerParts
    <3> QED BY <3>1
  <2>3. CASE Has(h, "maintenance")
    BY <2>2, <2>3, Maintenance
  <2>4. CASE ~Has(h, "maintenance")
    BY <2>2, <2>4, NoHeaderInHost
  <2> QED BY <2>3, <2>4
<1>4. CASE \E x \in On(in.redirects) : f = gen_redirect(in, x)
  <2>1. PICK x \in On(in.redirects) : f = gen_redirect(in, x)
    BY <1>4
  <2>2. s.locations = {}
    BY <2>1, SiteRange, SiteGuards DEF gen_redirect
  <2> QED BY <2>2
<1>5. CASE \E x \in On(in.deads) : f = gen_dead(in, x)
  <2>1. PICK x \in On(in.deads) : f = gen_dead(in, x)
    BY <1>5
  <2>2. s.locations = {}
    BY <2>1, SiteRange, SiteGuards DEF gen_dead
  <2> QED BY <2>2
<1>6. CASE \/ f \in gen_bans(in) \/ f \in gen_geo(in) \/ f \in gen_rate_limits(in)
           \/ f \in htpasswd(in) \/ f \in client_ca(in)
  BY <1>6 DEF gen_bans, gen_geo, gen_rate_limits, htpasswd, client_ca, File, If
<1>7. CASE f \in gen_default(in)
  <2> DEFINE n == <<"05-default", 0>>
             http == {<<80, "plain">>}
             https == {<<443, "ssl">>}
             s1 == Server(http, {"_"}, default_site_body(in), {})
             s2 == Server(https, {"_"}, <<Dir("ssl_reject_handshake", "on")>>, {})
  <2>1. gen_default(in) = {File(n, {}, {s1, s2})}
    BY DEF gen_default
  <2> HIDE DEF n, http, https
  <2>2. s1.locations = {} /\ s2.locations = {}
    BY DEF Server
  <2> HIDE DEF s1, s2
  <2>3. s.locations = {}
    BY <1>7, <2>1, <2>2, Parts
  <2> QED BY <2>3
<1>8. CASE \E x \in On(in.streams) : Served(in, x) /\ f = gen_stream(x)
  BY <1>8 DEF gen_stream, File, Server
<1>9. CASE \E r \in On(in.routers) : f = gen_sni_router(r)
  BY <1>9 DEF gen_sni_router, File, Server
<1> QED BY <1>1, <1>2, <1>3, <1>4, <1>5, <1>6, <1>7, <1>8, <1>9, FileCases

\* No location of a server with headers has a header of its own, the page of a host in
\* maintenance apart: visitors get every header the settings of a host ask for.
THEOREM HeadersStay == Spec => []HeadersCoexist
<1>1. HeadersCoexist
  BY HeadersInFiles DEF HeadersCoexist, Files
<1> QED BY <1>1, PTL

(* ------------------------------ names of files --------------------------- *)

LEMMA RowName ==
  ASSUME NEW in, NEW x
  PROVE  /\ gen_host(in, x).name = <<"20-host", x.id>>
         /\ gen_redirect(in, x).name = <<"30-redirect", x.id>>
         /\ gen_dead(in, x).name = <<"40-dead", x.id>>
BY Parts DEF gen_host, gen_redirect, gen_dead, gen_site

LEMMA PortName ==
  /\ \A s : gen_stream(s).name[1] = "stream" /\ gen_stream(s).name[2] = s.id
  /\ \A r : gen_sni_router(r).name[1] = "sni" /\ gen_sni_router(r).name[2] = r.id
BY Parts DEF gen_stream, gen_sni_router

LEMMA NameOf ==
  ASSUME NEW in, NEW f
  PROVE  /\ f \in gen_panel(in) => f.name[1] = "00-panel"
         /\ f \in gen_bans(in) => f.name[1] = "03-bans"
         /\ f \in gen_default(in) => f.name[1] = "05-default"
         /\ f \in gen_acme(in) => f.name[1] = "10-acme"
         /\ f \in gen_geo(in) => f.name[1] = "12-geo"
         /\ f \in gen_rate_limits(in) => f.name[1] = "15-rate-limits"
         /\ f \in htpasswd(in) => f.name[1] = "htpasswd"
         /\ f \in client_ca(in) => f.name[1] = "client-ca"
         /\ \A h : f = gen_host(in, h) => f.name[1] = "20-host"
         /\ \A x : f = gen_redirect(in, x) => f.name[1] = "30-redirect"
         /\ \A x : f = gen_dead(in, x) => f.name[1] = "40-dead"
         /\ \A s : f = gen_stream(s) => f.name[1] = "stream"
         /\ \A r : f = gen_sni_router(r) => f.name[1] = "sni"
<1>0. \A k, i, D, S : File(<<k, i>>, D, S).name[1] = k /\ File(<<k, i>>, D, S).name[2] = i
  BY DEF File
<1>1. f \in gen_panel(in) => f.name[1] = "00-panel"
  BY <1>0 DEF gen_panel
<1>2. f \in gen_bans(in) => f.name[1] = "03-bans"
  BY <1>0 DEF gen_bans, If
<1>3. f \in gen_default(in) => f.name[1] = "05-default"
  <2> DEFINE S == {Server({<<80, "plain">>}, {"_"}, default_site_body(in), {}),
                   Server({<<443, "ssl">>}, {"_"}, <<Dir("ssl_reject_handshake", "on")>>, {})}
  <2>1. gen_default(in) = {File(<<"05-default", 0>>, {}, S)}
    BY DEF gen_default
  <2> HIDE DEF S
  <2> QED BY <1>0, <2>1
<1>4. f \in gen_acme(in) => f.name[1] = "10-acme"
  BY <1>0 DEF gen_acme
<1>5. f \in gen_geo(in) => f.name[1] = "12-geo"
  BY <1>0 DEF gen_geo, If
<1>6. f \in gen_rate_limits(in) => f.name[1] = "15-rate-limits"
  BY <1>0 DEF gen_rate_limits, If
<1>7. f \in htpasswd(in) => f.name[1] = "htpasswd"
  <2> SUFFICES ASSUME f \in htpasswd(in) PROVE f.name[1] = "htpasswd"
    OBVIOUS
  <2>1. PICK id : f = File(htpasswd_name(id), {<<"file", htpasswd_name(id)>>}, {})
    BY DEF htpasswd
  <2> QED BY <2>1, Parts DEF htpasswd_name
<1>8. f \in client_ca(in) => f.name[1] = "client-ca"
  <2> SUFFICES ASSUME f \in client_ca(in) PROVE f.name[1] = "client-ca"
    OBVIOUS
  <2>1. PICK id : f = File(client_ca_name(id), {<<"file", client_ca_name(id)>>}, {})
    BY DEF client_ca
  <2> QED BY <2>1, Parts DEF client_ca_name
<1>9. \A h : f = gen_host(in, h) => f.name[1] = "20-host"
  BY RowName
<1>10. \A x : f = gen_redirect(in, x) => f.name[1] = "30-redirect"
  BY RowName
<1>11. \A x : f = gen_dead(in, x) => f.name[1] = "40-dead"
  BY RowName
<1>12. \A s : f = gen_stream(s) => f.name[1] = "stream"
  BY PortName
<1>13. \A r : f = gen_sni_router(r) => f.name[1] = "sni"
  BY PortName
<1> QED BY <1>1, <1>2, <1>3, <1>4, <1>5, <1>6, <1>7, <1>8, <1>9, <1>10, <1>11, <1>12, <1>13

\* The kind in a file's name says which part of the generator wrote it.
LEMMA ByKind ==
  ASSUME NEW in, NEW f \in generate(in)
  PROVE  /\ f.name[1] = "00-panel" => f \in gen_panel(in)
         /\ f.name[1] = "03-bans" => f \in gen_bans(in)
         /\ f.name[1] = "05-default" => f \in gen_default(in)
         /\ f.name[1] = "10-acme" => f \in gen_acme(in)
         /\ f.name[1] = "12-geo" => f \in gen_geo(in)
         /\ f.name[1] = "15-rate-limits" => f \in gen_rate_limits(in)
         /\ f.name[1] = "htpasswd" => f \in htpasswd(in)
         /\ f.name[1] = "client-ca" => f \in client_ca(in)
         /\ f.name[1] = "20-host" => \E h \in On(in.hosts) : f = gen_host(in, h)
         /\ f.name[1] = "30-redirect" => \E x \in On(in.redirects) : f = gen_redirect(in, x)
         /\ f.name[1] = "40-dead" => \E x \in On(in.deads) : f = gen_dead(in, x)
         /\ f.name[1] = "stream" => \E s \in On(in.streams) : Served(in, s) /\ f = gen_stream(s)
         /\ f.name[1] = "sni" => \E r \in On(in.routers) : f = gen_sni_router(r)
<1>1. \/ f \in gen_panel(in)
      \/ f \in gen_bans(in)
      \/ f \in gen_default(in)
      \/ f \in gen_acme(in)
      \/ f \in gen_geo(in)
      \/ f \in gen_rate_limits(in)
      \/ f \in htpasswd(in)
      \/ f \in client_ca(in)
      \/ \E h \in On(in.hosts) : f = gen_host(in, h)
      \/ \E x \in On(in.redirects) : f = gen_redirect(in, x)
      \/ \E x \in On(in.deads) : f = gen_dead(in, x)
      \/ \E s \in On(in.streams) : Served(in, s) /\ f = gen_stream(s)
      \/ \E r \in On(in.routers) : f = gen_sni_router(r)
  BY FileCases
<1>2. /\ f \in gen_panel(in) => f.name[1] = "00-panel"
      /\ f \in gen_bans(in) => f.name[1] = "03-bans"
      /\ f \in gen_default(in) => f.name[1] = "05-default"
      /\ f \in gen_acme(in) => f.name[1] = "10-acme"
      /\ f \in gen_geo(in) => f.name[1] = "12-geo"
      /\ f \in gen_rate_limits(in) => f.name[1] = "15-rate-limits"
      /\ f \in htpasswd(in) => f.name[1] = "htpasswd"
      /\ f \in client_ca(in) => f.name[1] = "client-ca"
      /\ \A h : f = gen_host(in, h) => f.name[1] = "20-host"
      /\ \A x : f = gen_redirect(in, x) => f.name[1] = "30-redirect"
      /\ \A x : f = gen_dead(in, x) => f.name[1] = "40-dead"
      /\ \A s : f = gen_stream(s) => f.name[1] = "stream"
      /\ \A r : f = gen_sni_router(r) => f.name[1] = "sni"
  BY NameOf
<1> QED BY <1>1, <1>2

LEMMA OnIn == ASSUME NEW rows PROVE On(rows) \subseteq rows
BY DEF On

\* The files of one kind that hold what their name says.
LEMMA OwnFile ==
  ASSUME NEW in, NEW f \in htpasswd(in) \cup client_ca(in)
  PROVE  f.defs = {<<"file", f.name>>} /\ f.servers = {} /\ f = File(f.name, f.defs, f.servers)
<1>1. \E n : f = File(n, {<<"file", n>>}, {})
  <2>1. CASE f \in htpasswd(in)
    BY <2>1 DEF htpasswd
  <2>2. CASE f \in client_ca(in)
    BY <2>2 DEF client_ca
  <2> QED BY <2>1, <2>2
<1> QED BY <1>1 DEF File

\* No two files of a build have one name: what each holds is not overwritten.
LEMMA NameKey ==
  ASSUME NEW in, Keyed(in), NEW f \in generate(in), NEW g \in generate(in), f.name = g.name
  PROVE  f = g
<1>0. f.name[1] = g.name[1] /\ f.name[2] = g.name[2]
  OBVIOUS
<1> DEFINE k == f.name[1]
<1>1. CASE k \in {"00-panel", "03-bans", "05-default", "10-acme", "12-geo", "15-rate-limits"}
  <2>1. /\ k = "00-panel" => f \in gen_panel(in) /\ g \in gen_panel(in)
        /\ k = "03-bans" => f \in gen_bans(in) /\ g \in gen_bans(in)
        /\ k = "05-default" => f \in gen_default(in) /\ g \in gen_default(in)
        /\ k = "10-acme" => f \in gen_acme(in) /\ g \in gen_acme(in)
        /\ k = "12-geo" => f \in gen_geo(in) /\ g \in gen_geo(in)
        /\ k = "15-rate-limits" => f \in gen_rate_limits(in) /\ g \in gen_rate_limits(in)
    BY <1>0, ByKind
  <2>2. f \in gen_panel(in) /\ g \in gen_panel(in) => f = g
    BY DEF gen_panel
  <2>3. f \in gen_bans(in) /\ g \in gen_bans(in) => f = g
    BY DEF gen_bans, If
  <2>4. f \in gen_default(in) /\ g \in gen_default(in) => f = g
    BY DEF gen_default
  <2>5. f \in gen_acme(in) /\ g \in gen_acme(in) => f = g
    BY DEF gen_acme
  <2>6. f \in gen_geo(in) /\ g \in gen_geo(in) => f = g
    BY DEF gen_geo, If
  <2>7. f \in gen_rate_limits(in) /\ g \in gen_rate_limits(in) => f = g
    BY DEF gen_rate_limits, If
  <2> QED BY <1>1, <2>1, <2>2, <2>3, <2>4, <2>5, <2>6, <2>7
<1>2. CASE k \in {"htpasswd", "client-ca"}
  <2>1. /\ k = "htpasswd" => f \in htpasswd(in) /\ g \in htpasswd(in)
        /\ k = "client-ca" => f \in client_ca(in) /\ g \in client_ca(in)
    BY <1>0, ByKind
  <2>2. f \in htpasswd(in) \cup client_ca(in) /\ g \in htpasswd(in) \cup client_ca(in)
    BY <1>2, <2>1
  <2>3. /\ f.defs = {<<"file", f.name>>} /\ f.servers = {} /\ f = File(f.name, f.defs, f.servers)
        /\ g.defs = {<<"file", g.name>>} /\ g.servers = {} /\ g = File(g.name, g.defs, g.servers)
    BY <2>2, OwnFile
  <2> QED BY <2>3
<1>3. CASE k = "20-host"
  <2>1. PICK h \in On(in.hosts) : f = gen_host(in, h)
    BY <1>3, ByKind
  <2>2. PICK x \in On(in.hosts) : g = gen_host(in, x)
    BY <1>0, <1>3, ByKind
  <2>3. h \in in.hosts /\ x \in in.hosts /\ h.id = x.id
    <3>1. f.name[2] = h.id /\ g.name[2] = x.id
      BY <2>1, <2>2, RowName
    <3> QED BY <1>0, <3>1, OnIn
  <2> QED BY <2>1, <2>2, <2>3 DEF Keyed
<1>4. CASE k = "30-redirect"
  <2>1. PICK h \in On(in.redirects) : f = gen_redirect(in, h)
    BY <1>4, ByKind
  <2>2. PICK x \in On(in.redirects) : g = gen_redirect(in, x)
    BY <1>0, <1>4, ByKind
  <2>3. h \in in.redirects /\ x \in in.redirects /\ h.id = x.id
    <3>1. f.name[2] = h.id /\ g.name[2] = x.id
      BY <2>1, <2>2, RowName
    <3> QED BY <1>0, <3>1, OnIn
  <2> QED BY <2>1, <2>2, <2>3 DEF Keyed
<1>5. CASE k = "40-dead"
  <2>1. PICK h \in On(in.deads) : f = gen_dead(in, h)
    BY <1>5, ByKind
  <2>2. PICK x \in On(in.deads) : g = gen_dead(in, x)
    BY <1>0, <1>5, ByKind
  <2>3. h \in in.deads /\ x \in in.deads /\ h.id = x.id
    <3>1. f.name[2] = h.id /\ g.name[2] = x.id
      BY <2>1, <2>2, RowName
    <3> QED BY <1>0, <3>1, OnIn
  <2> QED BY <2>1, <2>2, <2>3 DEF Keyed
<1>6. CASE k = "stream"
  <2>1. PICK h \in On(in.streams) : f = gen_stream(h)
    BY <1>6, ByKind
  <2>2. PICK x \in On(in.streams) : g = gen_stream(x)
    BY <1>0, <1>6, ByKind
  <2>3. h \in in.streams /\ x \in in.streams /\ h.id = x.id
    <3>1. f.name[2] = h.id /\ g.name[2] = x.id
      BY <2>1, <2>2, PortName
    <3> QED BY <1>0, <3>1, OnIn
  <2> QED BY <2>1, <2>2, <2>3 DEF Keyed
<1>7. CASE k = "sni"
  <2>1. PICK h \in On(in.routers) : f = gen_sni_router(h)
    BY <1>7, ByKind
  <2>2. PICK x \in On(in.routers) : g = gen_sni_router(x)
    BY <1>0, <1>7, ByKind
  <2>3. h \in in.routers /\ x \in in.routers /\ h.id = x.id
    <3>1. f.name[2] = h.id /\ g.name[2] = x.id
      BY <2>1, <2>2, PortName
    <3> QED BY <1>0, <3>1, OnIn
  <2> QED BY <2>1, <2>2, <2>3 DEF Keyed
<1> HIDE DEF k
<1>8. k \in {"00-panel", "03-bans", "05-default", "10-acme", "12-geo", "15-rate-limits", "htpasswd",
            "client-ca", "20-host", "30-redirect", "40-dead", "stream", "sni"}
  <2>1. /\ f \in gen_panel(in) => k = "00-panel"
        /\ f \in gen_bans(in) => k = "03-bans"
        /\ f \in gen_default(in) => k = "05-default"
        /\ f \in gen_acme(in) => k = "10-acme"
        /\ f \in gen_geo(in) => k = "12-geo"
        /\ f \in gen_rate_limits(in) => k = "15-rate-limits"
        /\ f \in htpasswd(in) => k = "htpasswd"
        /\ f \in client_ca(in) => k = "client-ca"
        /\ \A h : f = gen_host(in, h) => k = "20-host"
        /\ \A x : f = gen_redirect(in, x) => k = "30-redirect"
        /\ \A x : f = gen_dead(in, x) => k = "40-dead"
        /\ \A s : f = gen_stream(s) => k = "stream"
        /\ \A r : f = gen_sni_router(r) => k = "sni"
    BY NameOf DEF k
  <2> QED BY <2>1, FileCases
<1> QED BY <1>1, <1>2, <1>3, <1>4, <1>5, <1>6, <1>7, <1>8

LEMMA HostIds ==
  ASSUME NEW in
  PROVE  {h.id : h \in On(in.hosts)}
            = {n[2] : n \in {x \in {f.name : f \in generate(in)} : x[1] = "20-host"}}
<1>1. ASSUME NEW h \in On(in.hosts)
      PROVE  \E f \in generate(in) : f.name[1] = "20-host" /\ f.name[2] = h.id
  <2>1. gen_host(in, h) \in generate(in)
    BY DEF generate
  <2>2. gen_host(in, h).name[1] = "20-host" /\ gen_host(in, h).name[2] = h.id
    BY RowName
  <2> QED BY <2>1, <2>2
<1>2. ASSUME NEW f \in generate(in), f.name[1] = "20-host"
      PROVE  \E h \in On(in.hosts) : f.name[2] = h.id
  <2>1. PICK h \in On(in.hosts) : f = gen_host(in, h)
    BY <1>2, ByKind
  <2>2. f.name[2] = h.id
    BY <2>1, RowName
  <2> QED BY <2>2
<1> QED BY <1>1, <1>2

LEMMA AskedFor ==
  ASSUME NEW in, NEW f \in generate(in)
  PROVE  /\ f.name[1] = "htpasswd" => \E h \in in.hosts : h.list = f.name[2]
         /\ f.name[1] = "client-ca" => \E h \in On(in.hosts) : h.id = f.name[2]
<1>1. ASSUME f.name[1] = "htpasswd" PROVE \E h \in in.hosts : h.list = f.name[2]
  <2>1. f \in htpasswd(in)
    BY <1>1, ByKind
  <2>2. PICK id \in {h.list : h \in in.hosts} : f = File(htpasswd_name(id), {<<"file", htpasswd_name(id)>>}, {})
    BY <2>1 DEF htpasswd
  <2>3. f.name[2] = id
    BY <2>2, Parts DEF htpasswd_name
  <2> QED BY <2>3
<1>2. ASSUME f.name[1] = "client-ca" PROVE \E h \in On(in.hosts) : h.id = f.name[2]
  <2>1. f \in client_ca(in)
    BY <1>2, ByKind
  <2>2. PICK h \in {x \in in.hosts : x.enabled /\ Https(in, x) /\ Has(x, "mtls")} :
           f = File(client_ca_name(h.id), {<<"file", client_ca_name(h.id)>>}, {})
    BY <2>1 DEF client_ca
  <2>3. f.name[2] = h.id
    BY <2>2, Parts DEF client_ca_name
  <2>4. h \in On(in.hosts)
    BY DEF On
  <2> QED BY <2>3, <2>4
<1> QED BY <1>1, <1>2

\* The file set has a file for each enabled host, none that nothing asks for, and no two
\* under one name.
THEOREM GeneratorTypeOK == Spec => []TypeOK
<1>1. GenInv => TypeOK
  <2> SUFFICES ASSUME GenInv PROVE TypeOK
    OBVIOUS
  <2>1. \A f, g \in Files : f.name = g.name => f = g
    BY NameKey DEF GenInv, Sound, Files
  <2>2. {h.id : h \in On(seen.hosts)} = {n[2] : n \in {x \in {f.name : f \in Files} : x[1] = "20-host"}}
    BY HostIds DEF Files
  <2>3. \A n \in {f.name : f \in Files} : n[1] = "htpasswd" => \E h \in seen.hosts : h.list = n[2]
    BY AskedFor DEF Files
  <2>4. \A n \in {f.name : f \in Files} : n[1] = "client-ca" => \E h \in On(seen.hosts) : h.id = n[2]
    BY AskedFor DEF Files
  <2>5. /\ Valid(db) /\ at \in 0..Len(Order)
        /\ built \in {"none", "ok", "lint_failed", "failed"} /\ (built # "none" => at = Len(Order))
    BY DEF GenInv
  <2> QED BY <2>1, <2>2, <2>3, <2>4, <2>5 DEF TypeOK
<1> QED BY <1>1, GenInvHolds, PTL

(* ---------------------------------- gates -------------------------------- *)

\* The directives of a host's server, by name, but for the one file it includes.
HostNames == {"if-return-403", "add_header", "satisfy", "auth_basic", "allow", "deny", "limit_req",
              "limit_conn", "gzip", "proxy_buffering", "proxy_intercept_errors", "error_page"}

LEMMA HostOwnNames ==
  ASSUME NEW in, NEW h, NEW tls, NEW d \in Range(host_own(in, h, tls))
  PROVE  d.name \in HostNames \/ d = Dir("include", "block-exploits.conf")
<1>1. \/ d \in Range(emit_geo_guard(in)) \/ d \in Range(emit_hsts(h))
      \/ d \in Range(emit_response_headers(h)) \/ d \in Range(cache_status(h))
      \/ d \in Range(block_exploits(h)) \/ d \in Range(access(in, h))
      \/ d \in Range(emit_rate_limit(h)) \/ d \in Range(emit_tuning(h))
      \/ d \in Range(emit_error_pages(h)) \/ d \in Range(emit_forward_auth_server(h))
  BY HostRange DEF If
<1>2. d \in Range(emit_geo_guard(in)) \cup Range(emit_forward_auth_server(h)) => d.name \in HostNames
  BY GuardRange DEF If, DirTo, HostNames
<1>3. d \in Range(emit_hsts(h)) \cup Range(emit_response_headers(h)) \cup Range(cache_status(h))
        => d.name \in HostNames
  BY HeaderRange DEF If, Dir, HostNames
<1>4. d \in Range(block_exploits(h)) => d = Dir("include", "block-exploits.conf")
  BY HeaderRange DEF If
<1>5. d \in Range(access(in, h)) => d.name \in HostNames
  <2> DEFINE a == {Dir("satisfy", Satisfy(in, h))}
             b == {DirTo("auth_basic", "file", htpasswd_name(h.list))}
             c == {Dir("allow", ""), Dir("deny", "all")}
  <2>1. Range(access(in, h)) = (If(HasAuth(in, h) /\ HasIp(in, h), a) \cup If(HasAuth(in, h), b))
                               \cup If(HasIp(in, h), c)
    BY AccessRange
  <2>2. \A k, x : /\ Dir("satisfy", k).name \in HostNames /\ Dir("allow", k).name \in HostNames
                 /\ Dir("deny", k).name \in HostNames
                 /\ DirTo("auth_basic", k, x).name \in HostNames
    BY DEF Dir, DirTo, HostNames
  <2>3. \A x \in a \cup b \cup c : x.name \in HostNames
    BY <2>2
  <2> HIDE DEF a, b, c
  <2> QED BY <2>1, <2>3, IfSubset
<1>6. d \in Range(emit_rate_limit(h)) \cup Range(emit_tuning(h)) => d.name \in HostNames
  BY LimitRange DEF If, Dir, DirTo, HostNames
<1>7. d \in Range(emit_error_pages(h)) => d.name \in HostNames
  BY ErrorRange DEF If, Dir, DirTo, HostNames
<1> QED BY <1>1, <1>2, <1>3, <1>4, <1>5, <1>6, <1>7

\* The directives by which Angie decides whom it lets in come from the access list alone.
AccessNames == AccessChecks \cup {"satisfy"}

LEMMA AccessIsList ==
  ASSUME NEW in, NEW h, NEW tls, NEW d \in Range(host_own(in, h, tls)), d.name \in AccessNames
  PROVE  d \in Range(access(in, h))
<1>1. \/ d \in Range(emit_geo_guard(in)) \/ d \in Range(emit_hsts(h))
      \/ d \in Range(emit_response_headers(h)) \/ d \in Range(cache_status(h))
      \/ d \in Range(block_exploits(h)) \/ d \in Range(access(in, h))
      \/ d \in Range(emit_rate_limit(h)) \/ d \in Range(emit_tuning(h))
      \/ d \in Range(emit_error_pages(h)) \/ d \in Range(emit_forward_auth_server(h))
  BY HostRange DEF If
<1>2. d \notin Range(emit_geo_guard(in)) \cup Range(emit_forward_auth_server(h))
  BY GuardRange DEF If, DirTo, AccessNames, AccessChecks
<1>3. d \notin Range(emit_hsts(h)) \cup Range(emit_response_headers(h)) \cup Range(cache_status(h))
               \cup Range(block_exploits(h))
  BY HeaderRange DEF If, Dir, AccessNames, AccessChecks
<1>4. d \notin Range(emit_rate_limit(h)) \cup Range(emit_tuning(h))
  BY LimitRange DEF If, Dir, DirTo, AccessNames, AccessChecks
<1>5. d \notin Range(emit_error_pages(h))
  BY ErrorRange DEF If, Dir, DirTo, AccessNames, AccessChecks
<1> QED BY <1>1, <1>2, <1>3, <1>4, <1>5

\* What the access list asks for, and nothing else.
LEMMA ListDirectives ==
  ASSUME NEW in, NEW h, NEW d \in Range(access(in, h))
  PROVE  /\ d.name # "auth_request"
         /\ d.name = "auth_basic" => HasAuth(in, h)
         /\ d.name = "deny" => HasIp(in, h)
         /\ d.name = "satisfy" => HasAuth(in, h) /\ HasIp(in, h) /\ d.arg = Satisfy(in, h)
<1> DEFINE a == Dir("satisfy", Satisfy(in, h))
           b == DirTo("auth_basic", "file", htpasswd_name(h.list))
           c == Dir("allow", "")
           e == Dir("deny", "all")
<1>1. /\ a.name = "satisfy" /\ a.arg = Satisfy(in, h)
      /\ b.name = "auth_basic" /\ c.name = "allow" /\ e.name = "deny"
  BY DEF Dir, DirTo
<1>2. Range(access(in, h)) = If(HasAuth(in, h) /\ HasIp(in, h), {a}) \cup If(HasAuth(in, h), {b})
                             \cup If(HasIp(in, h), {c, e})
  BY AccessRange
<1> HIDE DEF a, b, c, e
<1>3. \/ HasAuth(in, h) /\ HasIp(in, h) /\ d = a
      \/ HasAuth(in, h) /\ d = b
      \/ HasIp(in, h) /\ d \in {c, e}
  BY <1>2 DEF If
<1> QED BY <1>1, <1>3

\* What the server of a host always says, whatever else is switched on.
LEMMA ServerGates ==
  ASSUME NEW in, NEW h, NEW s, NEW tls, Range(host_own(in, h, tls)) \subseteq Range(s.own)
  PROVE  /\ geo_active(in) => IsA(s.own, "if-return-403")
         /\ ~Has(h, "maintenance") =>
              /\ HasAuth(in, h) => IsA(s.own, "auth_basic")
              /\ HasIp(in, h) => IsA(s.own, "deny")
              /\ HasAuth(in, h) /\ HasIp(in, h) => Dir("satisfy", Satisfy(in, h)) \in Range(s.own)
              /\ Has(h, "rps") => IsA(s.own, "limit_req")
              /\ Has(h, "conn") => IsA(s.own, "limit_conn")
<1>1. ASSUME geo_active(in) PROVE IsA(s.own, "if-return-403")
  <2>1. DirTo("if-return-403", "map", "ap_geo_deny") \in Range(s.own)
    BY <1>1, HostRange, GuardRange DEF If
  <2> QED BY <2>1, IsAIsIn DEF DirTo
<1>2. ASSUME ~Has(h, "maintenance")
      PROVE  Range(access(in, h)) \cup Range(emit_rate_limit(h)) \subseteq Range(s.own)
  BY <1>2, HostRange DEF If
<1>3. ASSUME ~Has(h, "maintenance"), HasAuth(in, h) PROVE IsA(s.own, "auth_basic")
  <2>1. DirTo("auth_basic", "file", htpasswd_name(h.list)) \in Range(s.own)
    BY <1>2, <1>3, AccessRange DEF If
  <2> QED BY <2>1, IsAIsIn DEF DirTo
<1>4. ASSUME ~Has(h, "maintenance"), HasIp(in, h) PROVE IsA(s.own, "deny")
  <2>1. Dir("deny", "all") \in Range(s.own)
    BY <1>2, <1>4, AccessRange DEF If
  <2> QED BY <2>1, IsAIsIn DEF Dir
<1>5. ASSUME ~Has(h, "maintenance"), Has(h, "rps") PROVE IsA(s.own, "limit_req")
  <2>1. DirTo("limit_req", "req-zone", h.id) \in Range(s.own)
    BY <1>2, <1>5, LimitRange DEF If
  <2> QED BY <2>1, IsAIsIn DEF DirTo
<1>6. ASSUME ~Has(h, "maintenance"), Has(h, "conn") PROVE IsA(s.own, "limit_conn")
  <2>1. DirTo("limit_conn", "conn-zone", h.id) \in Range(s.own)
    BY <1>2, <1>6, LimitRange DEF If
  <2> QED BY <2>1, IsAIsIn DEF DirTo
<1>7. ASSUME ~Has(h, "maintenance"), HasAuth(in, h), HasIp(in, h)
      PROVE  Dir("satisfy", Satisfy(in, h)) \in Range(s.own)
  BY <1>2, <1>7, AccessRange DEF If
<1> QED BY <1>1, <1>3, <1>4, <1>5, <1>6, <1>7

\* What every location says that hands a request to an upstream.
LEMMA LocationGates ==
  ASSUME NEW in, NEW h, ~Has(h, "maintenance"), NEW l,
         l = main_location(in, h) \/ l \in custom_locations(in, h)
  PROVE  /\ Has(h, "forward-auth") => IsA(l.own, "auth_request")
         /\ HasAuth(in, h) /\ (\E x \in ListOf(in, h) : ~x.pass)
              => Dir("proxy_set_header", "no-Authorization") \in Range(l.own)
         /\ \A d \in Range(l.own) :
              d.name \in AccessNames => d.name = "auth_request" /\ Has(h, "forward-auth")
<1> DEFINE Own(t) == Range(emit_auth_request(h)) \cup Range(proxy_body(in, h, t))
           Rest == Range(emit_request_headers(h))
                   \cup If(Has(h, "cache"), {Dir("include", "cache-assets.conf")})
<1>1. PICK t \in {host_upstream_ref(h), location_upstream_ref(h)} :
        Own(t) \subseteq Range(l.own) /\ Range(l.own) \subseteq Own(t) \cup Rest
  <2>1. CASE l = main_location(in, h)
    <3>1. Range(l.own) = Own(host_upstream_ref(h)) \cup Rest
      BY <2>1, MainRange
    <3> HIDE DEF Own, Rest
    <3> QED BY <3>1
  <2>2. CASE l \in custom_locations(in, h)
    <3>1. Range(l.own) = Own(location_upstream_ref(h)) \cup Range(emit_request_headers(h))
      BY <2>2, CustomRange
    <3>2. Range(emit_request_headers(h)) \subseteq Rest
      OBVIOUS
    <3> HIDE DEF Own, Rest
    <3> QED BY <3>1, <3>2
  <2> QED BY <2>1, <2>2
<1>2. ASSUME Has(h, "forward-auth") PROVE IsA(l.own, "auth_request")
  <2>1. DirTo("auth_request", "location", "=/_forward_auth") \in Range(l.own)
    BY <1>1, <1>2, GuardRange DEF If
  <2> QED BY <2>1, IsAIsIn DEF DirTo
<1>3. ASSUME HasAuth(in, h), \E x \in ListOf(in, h) : ~x.pass
      PROVE  Dir("proxy_set_header", "no-Authorization") \in Range(l.own)
  BY <1>1, <1>3, ProxyRange DEF If
<1>4. ASSUME NEW d \in Range(l.own), d.name \in AccessNames
      PROVE  d.name = "auth_request" /\ Has(h, "forward-auth")
  <2>1. t.name = "proxy_pass"
    BY <1>1, Parts DEF host_upstream_ref, location_upstream_ref
  <2>2. d \notin Range(proxy_body(in, h, t))
    BY <1>4, <2>1, ProxyRange DEF If, Dir, DirTo, AccessNames, AccessChecks
  <2>3. d \notin Range(emit_request_headers(h))
    BY <1>4, HeaderRange DEF If, Dir, AccessNames, AccessChecks
  <2>4. d # Dir("include", "cache-assets.conf")
    BY <1>4 DEF Dir, AccessNames, AccessChecks
  <2>5. d \in Range(emit_auth_request(h))
    BY <1>1, <2>2, <2>3, <2>4 DEF If
  <2> QED BY <2>5, GuardRange DEF If, DirTo
<1> QED BY <1>2, <1>3, <1>4

\* Angie asks for what the rows want, and takes alternatives when the list says so.
LEMMA AsksWhatIsWanted ==
  ASSUME NEW in, NEW h, NEW s, NEW tls, NEW l, ~Has(h, "maintenance"),
         l = main_location(in, h) \/ l \in custom_locations(in, h),
         Range(host_own(in, h, tls)) \subseteq Range(s.own),
         \A d \in Range(s.own) : d.name \in AccessNames => d \in Range(host_own(in, h, tls))
  PROVE  PassesGates(in, h, s, l)
<1>1. \A d \in Range(s.own) : d.name \in AccessNames => d \in Range(access(in, h))
  BY AccessIsList
<1>2. /\ IsA(s.own, "auth_basic") <=> HasAuth(in, h)
      /\ IsA(s.own, "deny") <=> HasIp(in, h)
      /\ ~IsA(s.own, "auth_request")
  BY <1>1, IsAIsIn, ListDirectives, ServerGates DEF AccessNames, AccessChecks
<1>3. /\ ~IsA(l.own, "auth_basic") /\ ~IsA(l.own, "deny")
      /\ IsA(l.own, "auth_request") <=> Has(h, "forward-auth")
  BY IsAIsIn, LocationGates DEF AccessNames, AccessChecks
<1>4. Asked(s, l) = Wanted(in, h)
  BY <1>2, <1>3 DEF Asked, Wanted, AccessChecks, Inherits, If
<1>5. Dir("satisfy", "any") \in Range(s.own) \cup Range(l.own) => Alternatives(in, h)
  <2>1. Dir("satisfy", "any").name = "satisfy" /\ Dir("satisfy", "any").arg = "any"
    BY Parts
  <2>2. Dir("satisfy", "any") \notin Range(l.own)
    BY <2>1, LocationGates DEF AccessNames, AccessChecks
  <2>3. ASSUME Dir("satisfy", "any") \in Range(s.own) PROVE Alternatives(in, h)
    <3>1. Dir("satisfy", "any") \in Range(access(in, h))
      BY <1>1, <2>1, <2>3 DEF AccessNames
    <3> QED BY <2>1, <3>1, ListDirectives DEF Alternatives
  <2> QED BY <2>2, <2>3
<1>6. Alternatives(in, h) => Wanted(in, h) # {}
  BY DEF Alternatives, Wanted, If
<1>7. Alternatives(in, h) => Dir("satisfy", "any") \in Range(s.own)
  BY ServerGates DEF Alternatives
<1> QED BY <1>4, <1>5, <1>6, <1>7 DEF PassesGates, LetsIn

\* What GatesHold says of one server.
Gated(in, h, s) ==
  /\ \A l \in {x \in s.locations : Proxied(x)} :
      /\ PassesGates(in, h, s, l)
      /\ geo_active(in) => IsA(s.own, "if-return-403")
      /\ Has(h, "rps") => Inherits(s, l, "limit_req")
      /\ Has(h, "conn") => Inherits(s, l, "limit_conn")
      /\ HasAuth(in, h) /\ (\E x \in ListOf(in, h) : ~x.pass)
           => Dir("proxy_set_header", "no-Authorization") \in Range(l.own)
  /\ \A l \in s.locations : l.path = "=/_forward_auth" => ~Inherits(s, l, "auth_request")

LEMMA GatesOfServer ==
  ASSUME NEW in, NEW h, validate_host_input(h), NEW s, NEW tls,
         s.locations = host_features(in, h),
         Range(host_own(in, h, tls)) \subseteq Range(s.own),
         \A d \in Range(s.own) : d.name \in AccessNames => d \in Range(host_own(in, h, tls))
  PROVE  Gated(in, h, s)
<1>1. ASSUME NEW l \in s.locations, Proxied(l)
      PROVE  ~Has(h, "maintenance") /\ (l = main_location(in, h) \/ l \in custom_locations(in, h))
  <2>1. l.path # "=/_forward_auth" /\ \E d \in Range(l.own) : d.name = "proxy_pass"
    BY <1>1, IsAIsIn DEF Proxied
  <2>2. ~Has(h, "maintenance")
    <3> SUFFICES ASSUME Has(h, "maintenance") PROVE FALSE
      OBVIOUS
    <3>1. Range(l.own) = {Dir("add_header", "Retry-After"), Dir("return", "503")}
      BY Maintenance
    <3> QED BY <2>1, <3>1 DEF Dir
  <2>3. l \notin error_locations(h) \cup forward_auth_locations(h)
    <3> SUFFICES ASSUME l \in error_locations(h) \cup forward_auth_locations(h) PROVE FALSE
      OBVIOUS
    <3>1. \E a : Range(l.own) = {Dir("return", a)}
      BY <2>1, PlainLocations
    <3> QED BY <2>1, <3>1 DEF Dir
  <2> QED BY <2>2, <2>3, FeatureCases
<1>2. ASSUME NEW l \in s.locations, l.path = "=/_forward_auth" PROVE ~IsA(l.own, "auth_request")
  <2>1. ~Has(h, "maintenance")
    BY <1>2, Maintenance
  <2>2. l \notin custom_locations(in, h)
    BY <1>2, CustomRange DEF validate_host_input, validate_location_path
  <2>3. l # main_location(in, h)
    BY <1>2, Parts DEF main_location
  <2>4. l \in error_locations(h) \cup forward_auth_locations(h)
    BY <2>1, <2>2, <2>3, FeatureCases
  <2>5. Range(l.own) = {Dir("internal", ""), Dir("proxy_pass", h.verify)}
    BY <1>2, <2>4, PlainLocations
  <2>6. \A a : Dir("internal", a).name # "auth_request" /\ Dir("proxy_pass", a).name # "auth_request"
    BY DEF Dir
  <2>7. \A d \in Range(l.own) : d.name # "auth_request"
    BY <2>5, <2>6
  <2> QED BY <2>7, IsAIsIn
<1>3. ~IsA(s.own, "auth_request")
  <2>1. \A d \in Range(s.own) : d.name # "auth_request"
    BY AccessIsList, ListDirectives DEF AccessNames, AccessChecks
  <2> QED BY <2>1, IsAIsIn
<1>4. \A l \in s.locations : l.path = "=/_forward_auth" => ~Inherits(s, l, "auth_request")
  BY <1>2, <1>3 DEF Inherits
<1>5. ASSUME NEW l \in s.locations, Proxied(l)
      PROVE  /\ geo_active(in) => IsA(s.own, "if-return-403")
             /\ Has(h, "rps") => Inherits(s, l, "limit_req")
             /\ Has(h, "conn") => Inherits(s, l, "limit_conn")
             /\ HasAuth(in, h) /\ (\E x \in ListOf(in, h) : ~x.pass)
                  => Dir("proxy_set_header", "no-Authorization") \in Range(l.own)
  BY <1>1, <1>5, ServerGates, LocationGates DEF Inherits
<1>6. ASSUME NEW l \in s.locations, Proxied(l) PROVE PassesGates(in, h, s, l)
  BY <1>1, <1>6, AsksWhatIsWanted
<1> QED BY <1>4, <1>5, <1>6 DEF Gated

\* The certificates a host wants from its clients are asked for on 443.
Verified(h, s) ==
  <<443, "ssl">> \in s.listen /\ Has(h, "mtls") =>
    /\ IsA(s.own, "ssl_client_certificate")
    /\ ~Has(h, "mtls-optional") => Dir("ssl_verify_client", "on") \in Range(s.own)

LEMMA ClientsVerified ==
  ASSUME NEW in, NEW h, NEW s \in gen_host(in, h).servers PROVE Verified(h, s)
<1>1. CASE s = force_ssl_server(h) \/ s = gen_http_server(in, h)
  <2> DEFINE port == {<<80, "plain">>}
  <2>1. \E n, o, l : s = Server(port, n, o, l)
    <3> HIDE DEF port
    <3> QED BY <1>1 DEF force_ssl_server, gen_http_server, port
  <2> HIDE DEF port
  <2>2. s.listen = port
    BY <2>1, Parts
  <2>3. <<443, "ssl">> \notin port
    BY DEF port
  <2> QED BY <2>2, <2>3 DEF Verified
<1>2. CASE s = gen_https_server(in, h)
  <2> SUFFICES ASSUME Has(h, "mtls")
               PROVE  /\ IsA(s.own, "ssl_client_certificate")
                      /\ ~Has(h, "mtls-optional") => Dir("ssl_verify_client", "on") \in Range(s.own)
    BY DEF Verified
  <2>1. MtlsSet(h) \subseteq Range(s.own)
    BY <1>2, HttpsRange DEF If
  <2>2. DirTo("ssl_client_certificate", "file", client_ca_name(h.id)) \in Range(s.own)
    BY <2>1 DEF MtlsSet
  <2>3. IsA(s.own, "ssl_client_certificate")
    BY <2>2, IsAIsIn, Parts
  <2>4. ~Has(h, "mtls-optional") => Dir("ssl_verify_client", "on") \in Range(s.own)
    BY <2>1 DEF MtlsSet
  <2> QED BY <2>3, <2>4
<1> QED BY <1>1, <1>2, HostServer

LEMMA HostGates ==
  ASSUME NEW in, NEW h, validate_host_input(h), NEW s \in gen_host(in, h).servers
  PROVE  Gated(in, h, s)
<1>1. CASE s = force_ssl_server(h)
  <2>1. s.locations = {}
    BY <1>1, HostServerParts
  <2> QED BY <2>1 DEF Gated
<1>2. CASE s = gen_http_server(in, h)
  <2>1. s.locations = host_features(in, h) /\ s.own = host_own(in, h, FALSE)
    BY <1>2, HostServerParts
  <2>2. /\ Range(host_own(in, h, FALSE)) \subseteq Range(s.own)
        /\ \A d \in Range(s.own) : d.name \in AccessNames => d \in Range(host_own(in, h, FALSE))
    BY <2>1
  <2> QED BY <2>1, <2>2, GatesOfServer
<1>3. CASE s = gen_https_server(in, h)
  <2> DEFINE a == {DirTo("ssl_certificate", "acme-client", h.cert)}
             b == MtlsSet(h)
             c == {Dir("add_header", "Alt-Svc")}
  <2>1. s.locations = host_features(in, h)
    BY <1>3, HostServerParts
  <2>2. Range(s.own) = a \cup If(Has(h, "mtls"), b) \cup If(Has(h, "http3"), c)
                       \cup Range(host_own(in, h, TRUE))
    BY <1>3, HttpsRange
  <2>3. \A d \in a \cup b \cup c : d.name \notin AccessNames
    BY DEF Dir, DirTo, MtlsSet, AccessNames, AccessChecks
  <2> HIDE DEF a, b, c
  <2>4. /\ Range(host_own(in, h, TRUE)) \subseteq Range(s.own)
        /\ \A d \in Range(s.own) : d.name \in AccessNames => d \in Range(host_own(in, h, TRUE))
    BY <2>2, <2>3, IfSubset
  <2> QED BY <2>1, <2>4, GatesOfServer
<1> QED BY <1>1, <1>2, <1>3, HostServer

\* A request reaches an upstream only if it passes what the rows a build has read ask of it,
\* or one of the alternatives an access list names, under every limit, and over TLS with the
\* certificate the host insists on; the location that verifies does not ask for itself.
THEOREM GatesAlwaysHold == Spec => []GatesHold
<1>1. GenInv => GatesHold
  <2> SUFFICES ASSUME GenInv, NEW h \in On(seen.hosts), NEW s \in HostServers(h)
               PROVE  Gated(seen, h, s) /\ Verified(h, s)
    BY DEF GatesHold, Gated, Verified
  <2>1. h \in seen.hosts
    BY OnIn
  <2>2. validate_host_input(h)
    BY <2>1 DEF GenInv, Sound
  <2>3. PICK f \in generate(seen) : f.name = <<"20-host", h.id>> /\ s \in f.servers
    BY DEF HostServers, Files
  <2>4. f.name[1] = "20-host" /\ f.name[2] = h.id
    BY <2>3
  <2>5. PICK x \in On(seen.hosts) : f = gen_host(seen, x)
    BY <2>4, ByKind
  <2>6. x.id = h.id /\ x \in seen.hosts
    BY <2>4, <2>5, RowName, OnIn
  <2>7. x = h
    BY <2>1, <2>6 DEF GenInv, Sound, Keyed
  <2> QED BY <2>2, <2>3, <2>5, <2>7, HostGates, ClientsVerified
<1> QED BY <1>1, GenInvHolds, PTL

(* --------------------------------- linter -------------------------------- *)

Judged == {"include", "root", "acme_client", "ssl_certificate", "proxy_pass"}

\* What the linter lets through, wherever it stands.
Passes(d) == check_directive(d, FALSE)

LEMMA Unjudged == ASSUME NEW d, d.name \notin Judged PROVE Passes(d)
BY DEF check_directive, Judged, Passes

LEMMA PassesAnywhere ==
  ASSUME NEW d, NEW b, Passes(d)
  PROVE  check_directive(d, b)
<1>1. CASE d.name = "proxy_pass"
  <2>1. Passes(d) <=> check_proxy_pass(d, FALSE)
    BY <1>1 DEF check_directive, Passes
  <2>2. check_directive(d, b) <=> check_proxy_pass(d, b)
    BY <1>1 DEF check_directive
  <2> QED BY <2>1, <2>2 DEF check_proxy_pass
<1>2. CASE d.name # "proxy_pass"
  BY <1>2 DEF check_directive, Passes
<1> QED BY <1>1, <1>2

LEMMA LintByDirective ==
  ASSUME NEW s, \A d \in Range(s) : Passes(d)
  PROVE  check_directives(s)
<1>1. \A i \in DOMAIN s : s[i] \in Range(s)
  BY DEF Range
<1>2. ASSUME NEW i \in DOMAIN s PROVE check_directive(s[i], i > 1 /\ s[i - 1].name = "acme_hook")
  BY <1>1, PassesAnywhere
<1> QED BY <1>2 DEF check_directives

\* The directives of the generator that the linter does look into.
LEMMA Judgements ==
  /\ Passes(Dir("include", "block-exploits.conf"))
  /\ Passes(Dir("include", "cache-assets.conf"))
  /\ Passes(Dir("root", "public_dir"))
  /\ Passes(Dir("acme_client", "account_key"))
  /\ Passes(Dir("acme_client", "own-key"))
  /\ Passes(Dir("proxy_pass", "lan"))
  /\ check_directive(Dir("proxy_pass", "panel"), TRUE)
  /\ \A x : Passes(DirTo("ssl_certificate", "acme-client", x))
  /\ \A x : Passes(DirTo("proxy_pass", "upstream", x))
BY DEF check_directive, check_include, check_root, check_acme_client, check_ssl_cert,
       check_proxy_pass, Dir, DirTo, Passes

LEMMA Harmless ==
  /\ \A n, a : n \notin Judged => Passes(Dir(n, a))
  /\ \A n, k, x : n \notin Judged => Passes(DirTo(n, k, x))
BY Unjudged, Parts

LEMMA HostOwnPasses ==
  ASSUME NEW in, NEW h, NEW tls, NEW d \in Range(host_own(in, h, tls))
  PROVE  Passes(d)
<1>1. \A n \in HostNames : n \notin Judged
  BY DEF HostNames, Judged
<1> QED BY <1>1, HostOwnNames, Unjudged, Judgements

LEMMA HostLocationPasses ==
  ASSUME ~AllowLoopback, NEW in, NEW h, validate_host_input(h), NEW l \in host_features(in, h),
         NEW d \in Range(l.own)
  PROVE  Passes(d)
<1>1. h.verify = "lan" /\ h.locTarget = "lan"
  BY DEF validate_host_input, validate_forward_host
<1>2. /\ "add_header" \notin Judged /\ "return" \notin Judged /\ "internal" \notin Judged
      /\ "auth_request" \notin Judged /\ "proxy_set_header" \notin Judged
  BY DEF Judged
<1>3. /\ \A a : /\ Passes(Dir("add_header", a)) /\ Passes(Dir("return", a))
                /\ Passes(Dir("internal", a))
                /\ Passes(Dir("proxy_set_header", a))
      /\ \A a, b : /\ Passes(DirTo("auth_request", a, b))
                   /\ Passes(DirTo("proxy_set_header", a, b))
  BY <1>2, Harmless
<1>4. CASE Has(h, "maintenance")
  BY <1>3, <1>4, Maintenance
<1>5. CASE l \in error_locations(h) \cup forward_auth_locations(h)
  <2>1. \/ Range(l.own) = {Dir("return", "404")}
        \/ Range(l.own) = {Dir("return", "503")}
        \/ Range(l.own) = {Dir("return", "302")}
        \/ Range(l.own) = {Dir("internal", ""), Dir("proxy_pass", h.verify)}
    BY <1>5, PlainLocations
  <2>2. Passes(Dir("proxy_pass", h.verify))
    BY <1>1, Judgements
  <2>3. /\ Passes(Dir("return", "404")) /\ Passes(Dir("return", "503"))
        /\ Passes(Dir("return", "302")) /\ Passes(Dir("internal", ""))
    BY <1>3
  <2> QED BY <2>1, <2>2, <2>3
<1>6. \A x \in Range(emit_auth_request(h)) \cup Range(emit_request_headers(h)) : Passes(x)
  BY <1>3, GuardRange, HeaderRange, IfSubset
<1>7. ASSUME NEW t, Passes(t), NEW x \in Range(proxy_body(in, h, t))
      PROVE  Passes(x)
  BY <1>3, <1>7, ProxyRange, IfSubset
<1>8. /\ Passes(host_upstream_ref(h))
      /\ Passes(location_upstream_ref(h))
  BY <1>1, Judgements DEF host_upstream_ref, location_upstream_ref
<1>9. CASE l = main_location(in, h)
  <2>1. Passes(Dir("include", "cache-assets.conf"))
    BY Judgements
  <2> QED BY <1>6, <1>7, <1>8, <1>9, <2>1, MainRange, IfSubset
<1>10. CASE l \in custom_locations(in, h)
  BY <1>6, <1>7, <1>8, <1>10, CustomRange
<1> QED BY <1>4, <1>5, <1>9, <1>10, FeatureCases

LEMMA HostPasses ==
  ASSUME ~AllowLoopback, NEW in, NEW h, validate_host_input(h), NEW s \in gen_host(in, h).servers
  PROVE  check_directives(s.own) /\ \A l \in s.locations : check_directives(l.own)
<1>1. \A l \in host_features(in, h) : check_directives(l.own)
  BY HostLocationPasses, LintByDirective
<1>2. CASE s = force_ssl_server(h)
  <2>1. to_https(h.names).name \notin Judged
    BY DEF to_https, Judged
  <2>2. \A d \in Range(s.own) : Passes(d)
    BY <1>2, <2>1, HostServerParts, Unjudged
  <2> QED BY <1>2, <2>2, HostServerParts, LintByDirective
<1>3. CASE s = gen_http_server(in, h)
  <2>1. s.locations = host_features(in, h) /\ s.own = host_own(in, h, FALSE)
    BY <1>3, HostServerParts
  <2> QED BY <1>1, <2>1, HostOwnPasses, LintByDirective
<1>4. CASE s = gen_https_server(in, h)
  <2>1. s.locations = host_features(in, h)
    BY <1>4, HostServerParts
  <2>2. /\ "ssl_client_certificate" \notin Judged /\ "ssl_verify_client" \notin Judged
        /\ "add_header" \notin Judged
    BY DEF Judged
  <2>3. /\ Passes(DirTo("ssl_certificate", "acme-client", h.cert))
        /\ \A d \in MtlsSet(h) : Passes(d)
        /\ Passes(Dir("add_header", "Alt-Svc"))
    BY <2>2, Judgements, Harmless DEF MtlsSet
  <2> DEFINE a == {DirTo("ssl_certificate", "acme-client", h.cert)}
             b == MtlsSet(h)
             c == {Dir("add_header", "Alt-Svc")}
  <2>4. \A d \in a \cup b \cup c : Passes(d)
    BY <2>3
  <2>5. Range(s.own) = a \cup If(Has(h, "mtls"), b) \cup If(Has(h, "http3"), c)
                       \cup Range(host_own(in, h, TRUE))
    BY <1>4, HttpsRange
  <2> HIDE DEF a, b, c
  <2>6. \A d \in Range(s.own) : Passes(d)
    BY <2>4, <2>5, HostOwnPasses, IfSubset
  <2> QED BY <1>1, <2>1, <2>6, LintByDirective
<1> QED BY <1>2, <1>3, <1>4, HostServer

LEMMA SitePasses ==
  ASSUME NEW in, NEW x, NEW name, NEW g, SiteGuard(g), NEW answer, Passes(answer),
         NEW s \in gen_site(in, x, name, g, answer).servers
  PROVE  check_directives(s.own) /\ s.locations = {}
<1>1. to_https(x.names).name \notin Judged /\ "add_header" \notin Judged
  BY DEF to_https, Judged
<1>2. /\ Passes(to_https(x.names))
      /\ Passes(Dir("add_header", "Strict-Transport-Security"))
      /\ Passes(DirTo("ssl_certificate", "acme-client", x.cert))
      /\ Passes(Dir("include", "block-exploits.conf"))
  BY <1>1, Unjudged, Harmless, Judgements
<1> DEFINE a == {DirTo("ssl_certificate", "acme-client", x.cert), to_https(x.names)}
           b == {Dir("add_header", "Strict-Transport-Security"), Dir("include", "block-exploits.conf"),
                 answer}
<1>3. \A d \in a \cup b : Passes(d)
  BY <1>2
<1>4. Range(s.own) \subseteq If(Https(in, x), a) \cup b
  BY SiteRange
<1> HIDE DEF a, b
<1>5. \A d \in Range(s.own) : Passes(d)
  BY <1>3, <1>4, IfSubset
<1> QED BY <1>5, SiteRange, LintByDirective

LEMMA HookPasses == ASSUME NEW c PROVE check_directives(hook_location(c).own)
<1> DEFINE o == <<DirTo("acme_hook", "acme-client", c.id), Dir("proxy_pass", "panel"),
                  Dir("proxy_read_timeout", "560s"), Dir("proxy_set_header", "X-Acme-*")>>
<1>1. hook_location(c).own = o
  BY Parts DEF hook_location
<1>2. "acme_hook" \notin Judged /\ "proxy_read_timeout" \notin Judged /\ "proxy_set_header" \notin Judged
  BY DEF Judged
<1>3. DOMAIN o = {1, 2, 3, 4}
  OBVIOUS
<1>4. /\ o[1] = DirTo("acme_hook", "acme-client", c.id) /\ o[2] = Dir("proxy_pass", "panel")
      /\ o[3] = Dir("proxy_read_timeout", "560s") /\ o[4] = Dir("proxy_set_header", "X-Acme-*")
  OBVIOUS
<1>5. \A b : check_directive(o[1], b) /\ check_directive(o[3], b) /\ check_directive(o[4], b)
  BY <1>2, <1>4, Harmless, PassesAnywhere
<1>6. o[1].name = "acme_hook" /\ check_directive(o[2], TRUE)
  <2>1. DirTo("acme_hook", "acme-client", c.id).name = "acme_hook"
    BY DEF DirTo
  <2>2. check_directive(Dir("proxy_pass", "panel"), TRUE)
    BY Judgements
  <2> HIDE DEF o
  <2> QED BY <1>4, <2>1, <2>2
<1> HIDE DEF o
<1>7. (2 > 1 /\ o[2 - 1].name = "acme_hook") = TRUE
  BY <1>6
<1>8. check_directive(o[2], 2 > 1 /\ o[2 - 1].name = "acme_hook")
  BY <1>6, <1>7
<1>9. \A i \in DOMAIN o : check_directive(o[i], i > 1 /\ o[i - 1].name = "acme_hook")
  BY <1>3, <1>5, <1>8
<1> QED BY <1>1, <1>9 DEF check_directives

LEMMA DefaultPasses == ASSUME NEW in PROVE check_directives(default_site_body(in))
<1>1. \/ default_site_body(in) = <<Dir("root", "public_dir"), Dir("try_files", "index")>>
      \/ \E a : default_site_body(in) = <<Dir("return", a)>>
  BY DEF default_site_body
<1>2. "try_files" \notin Judged /\ "return" \notin Judged
  BY DEF Judged
<1>3. CASE default_site_body(in) = <<Dir("root", "public_dir"), Dir("try_files", "index")>>
  <2>1. Range(default_site_body(in)) = {Dir("root", "public_dir"), Dir("try_files", "index")}
    BY <1>3, TwoRange
  <2>2. Passes(Dir("try_files", "index")) /\ Passes(Dir("root", "public_dir"))
    BY <1>2, Harmless, Judgements
  <2> QED BY <2>1, <2>2, LintByDirective
<1>4. CASE \E a : default_site_body(in) = <<Dir("return", a)>>
  <2>1. PICK a : default_site_body(in) = <<Dir("return", a)>>
    BY <1>4
  <2>2. Range(default_site_body(in)) = {Dir("return", a)}
    BY <2>1, OneRange
  <2> QED BY <1>2, <2>2, Harmless, LintByDirective
<1> QED BY <1>1, <1>3, <1>4

LEMMA AcmePasses ==
  ASSUME NEW in, NEW f \in gen_acme(in), NEW s \in f.servers
  PROVE  check_directives(s.own) /\ \A l \in s.locations : check_directives(l.own)
<1> DEFINE key == IF in.shared THEN "account_key" ELSE "own-key"
           n == <<"10-acme", 0>>
           defs == {<<"acme-client", c.id>> : c \in in.certs}
           collector(c) ==
             Server({<<0, "unix">>}, {"collector"},
                    <<Dir("acme_client", key), DirTo("acme", "acme-client", c.id)>>,
                    If(c.provider, {hook_location(c)}))
<1>0. gen_acme(in) = {File(n, defs, {collector(c) : c \in in.certs})}
  BY DEF gen_acme
<1> HIDE DEF n, defs, collector
<1>1. PICK c \in in.certs : s = collector(c)
  BY <1>0, Parts
<1>2. key = "account_key" \/ key = "own-key"
  OBVIOUS
<1>3. s.own = <<Dir("acme_client", key), DirTo("acme", "acme-client", c.id)>>
  BY <1>1 DEF collector, Server
<1>4. s.locations = If(c.provider, {hook_location(c)})
  BY <1>1 DEF collector, Server
<1> HIDE DEF key
<1>5. Passes(Dir("acme_client", key))
  BY <1>2, Judgements
<1>6. "acme" \notin Judged
  BY DEF Judged
<1>7. Passes(DirTo("acme", "acme-client", c.id))
  BY <1>6, Harmless
<1>8. Range(s.own) = {Dir("acme_client", key), DirTo("acme", "acme-client", c.id)}
  BY <1>3, TwoRange
<1>9. check_directives(s.own)
  BY <1>5, <1>7, <1>8, LintByDirective
<1>10. \A l \in s.locations : l = hook_location(c)
  BY <1>4, IfSubset
<1> QED BY <1>9, <1>10, HookPasses

\* Every server of the rendering passes, if the hosts were valid when they were read.
LEMMA FilePasses ==
  ASSUME ~AllowLoopback, NEW in, Sound(in), NEW f \in generate(in)
  PROVE  check_file(f)
<1>1. CASE f \in gen_panel(in)
  <2> DEFINE l0 == Location("/status/", <<Dir("api", "/status/")>>)
             listen == {<<8100, "plain">>}
             defs == {<<"map", "connection_upgrade">>, <<"cache-zone", "assets">>}
             s0 == Server(listen, {}, <<>>, {l0})
  <2>1. gen_panel(in) = {File(<<"00-panel", 0>>, defs, {s0})}
    BY DEF gen_panel
  <2>2. "api" \notin Judged
    BY DEF Judged
  <2>3. Range(l0.own) = {Dir("api", "/status/")}
    BY OneRange, Parts
  <2>4. check_directives(l0.own)
    BY <2>2, <2>3, Harmless, LintByDirective
  <2> HIDE DEF listen, defs, l0
  <2>5. s0.own = <<>> /\ s0.locations = {l0}
    BY DEF Server
  <2>6. check_directives(s0.own)
    BY <2>5, EmptyRange, LintByDirective
  <2> HIDE DEF s0
  <2>7. f.servers = {s0}
    BY <1>1, <2>1, Parts
  <2> QED BY <2>4, <2>5, <2>6, <2>7 DEF check_file
<1>2. CASE f \in gen_acme(in)
  BY <1>2, AcmePasses DEF check_file
<1>3. CASE \E h \in On(in.hosts) : f = gen_host(in, h)
  <2>1. PICK h \in On(in.hosts) : f = gen_host(in, h)
    BY <1>3
  <2>2. validate_host_input(h)
    BY OnIn DEF Sound
  <2> QED BY <2>1, <2>2, HostPasses DEF check_file
<1>4. "return" \notin Judged
  BY DEF Judged
<1>5. CASE \E x \in On(in.redirects) : f = gen_redirect(in, x)
  <2>1. PICK x \in On(in.redirects) : f = gen_redirect(in, x)
    BY <1>5
  <2>2. Passes(Dir("return", "to-the-other-domain"))
    BY <1>4, Harmless
  <2>3. \A s \in f.servers : check_directives(s.own) /\ s.locations = {}
    BY <2>1, <2>2, SitePasses, SiteGuards DEF gen_redirect
  <2> QED BY <2>3 DEF check_file
<1>6. CASE \E x \in On(in.deads) : f = gen_dead(in, x)
  <2>1. PICK x \in On(in.deads) : f = gen_dead(in, x)
    BY <1>6
  <2>2. Passes(Dir("return", "404"))
    BY <1>4, Harmless
  <2>3. \A s \in f.servers : check_directives(s.own) /\ s.locations = {}
    BY <2>1, <2>2, SitePasses, SiteGuards DEF gen_dead
  <2> QED BY <2>3 DEF check_file
<1>7. CASE \/ f \in gen_bans(in) \/ f \in gen_geo(in) \/ f \in gen_rate_limits(in)
           \/ f \in htpasswd(in) \/ f \in client_ca(in)
  <2>1. f.servers = {}
    BY <1>7 DEF gen_bans, gen_geo, gen_rate_limits, htpasswd, client_ca, File, If
  <2> QED BY <2>1 DEF check_file
<1>8. CASE f \in gen_default(in)
  <2> DEFINE n == <<"05-default", 0>>
             http == {<<80, "plain">>}
             https == {<<443, "ssl">>}
             s1 == Server(http, {"_"}, default_site_body(in), {})
             s2 == Server(https, {"_"}, <<Dir("ssl_reject_handshake", "on")>>, {})
  <2>1. gen_default(in) = {File(n, {}, {s1, s2})}
    BY DEF gen_default
  <2> HIDE DEF n, http, https
  <2>2. /\ s1.own = default_site_body(in) /\ s1.locations = {}
        /\ s2.own = <<Dir("ssl_reject_handshake", "on")>> /\ s2.locations = {}
    BY DEF Server
  <2> HIDE DEF s1, s2
  <2>3. check_directives(s1.own)
    BY <2>2, DefaultPasses
  <2>4. "ssl_reject_handshake" \notin Judged
    BY DEF Judged
  <2>5. Range(s2.own) = {Dir("ssl_reject_handshake", "on")}
    BY <2>2, OneRange
  <2>6. check_directives(s2.own)
    BY <2>4, <2>5, Harmless, LintByDirective
  <2>7. f.servers = {s1, s2}
    BY <1>8, <2>1, Parts
  <2> QED BY <2>2, <2>3, <2>6, <2>7 DEF check_file
<1>9. CASE \E x \in On(in.streams) : Served(in, x) /\ f = gen_stream(x)
  BY <1>9, PortName DEF check_file
<1>10. CASE \E r \in On(in.routers) : f = gen_sni_router(r)
  BY <1>10, PortName DEF check_file
<1> QED BY <1>1, <1>2, <1>3, <1>5, <1>6, <1>7, <1>8, <1>9, <1>10, FileCases

\* Unless the operator allows upstreams on the loopback, the linter passes everything the
\* generator writes.
THEOREM LintStaysClean == ASSUME ~AllowLoopback PROVE Spec => []LintClean
<1>1. GenInv => LintClean
  <2> SUFFICES ASSUME GenInv, built = "lint_failed" PROVE FALSE
    BY DEF LintClean
  <2>1. \A f \in generate(seen) : check_file(f)
    BY FilePasses DEF GenInv
  <2> QED BY <2>1 DEF GenInv, check_fileset
<1> QED BY <1>1, GenInvHolds, PTL

(* ------------------------------- references ------------------------------ *)

\* What a file defines, by kind.
LEMMA DefsOf ==
  ASSUME NEW in, NEW g \in generate(in), NEW ref \in g.defs
  PROVE  \/ ref[1] = "map" /\ ref[2] = "connection_upgrade" /\ g \in gen_panel(in)
         \/ ref[1] = "cache-zone" /\ g \in gen_panel(in)
         \/ ref[1] = "acme-client" /\ g \in gen_acme(in)
         \/ ref[1] = "map" /\ ref[2] = "ap_geo_deny" /\ g \in gen_geo(in)
         \/ ref[1] \in {"req-zone", "conn-zone"} /\ g \in gen_rate_limits(in)
         \/ ref[1] = "file" /\ ref[2] = g.name
         \/ ref[1] = "https"
         \/ /\ ref[1] = "upstream" /\ ref[2][1] = "host"
            /\ \E h \in On(in.hosts) : ref[2][2] = h.id /\ g = gen_host(in, h)
         \/ /\ ref[1] = "upstream" /\ ref[2][1] = "sni"
            /\ \E r \in On(in.routers) : ref[2][2] = r.id /\ g = gen_sni_router(r)
         \/ ref[1] = "sni-map" /\ \E r \in On(in.routers) : ref[2] = r.id /\ g = gen_sni_router(r)
<1>1. CASE g \in gen_panel(in)
  <2>1. g.defs = {<<"map", "connection_upgrade">>, <<"cache-zone", "assets">>}
    BY <1>1, Parts DEF gen_panel
  <2> QED BY <1>1, <2>1
<1>2. CASE g \in gen_acme(in)
  <2>1. \E S : g = File(<<"10-acme", 0>>, {<<"acme-client", c.id>> : c \in in.certs}, S)
    BY <1>2 DEF gen_acme
  <2>2. g.defs = {<<"acme-client", c.id>> : c \in in.certs}
    BY <2>1, Parts
  <2> QED BY <1>2, <2>2
<1>3. CASE g \in gen_geo(in)
  <2>1. g.defs = {<<"map", "ap_geo_deny">>}
    BY <1>3, Parts DEF gen_geo, If
  <2> QED BY <1>3, <2>1
<1>4. CASE g \in gen_rate_limits(in)
  <2> DEFINE limited == {h \in in.hosts : h.enabled /\ rate_limit_active(h)}
             zones == {<<"req-zone", h.id>> : h \in {x \in limited : Has(x, "rps")}}
                      \cup {<<"conn-zone", h.id>> : h \in {x \in limited : Has(x, "conn")}}
  <2>1. gen_rate_limits(in) = If(limited # {}, {File(<<"15-rate-limits", 0>>, zones, {})})
    BY DEF gen_rate_limits
  <2>2. \A z \in zones : z[1] \in {"req-zone", "conn-zone"}
    OBVIOUS
  <2> HIDE DEF zones, limited
  <2>3. g.defs = zones
    BY <1>4, <2>1, IfSubset, Parts
  <2> QED BY <1>4, <2>2, <2>3
<1>5. CASE g \in htpasswd(in) \/ g \in client_ca(in)
  <2>1. g.defs = {<<"file", g.name>>}
    BY <1>5, OwnFile
  <2> QED BY <2>1
<1>6. CASE \E h \in On(in.hosts) : g = gen_host(in, h)
  <2>1. PICK h \in On(in.hosts) : g = gen_host(in, h)
    BY <1>6
  <2>2. g.defs = {<<"upstream", <<"host", h.id>>>>} \cup If(Https(in, h), tls_defs(h.names))
    BY <2>1, Parts DEF gen_host
  <2>3. ref = <<"upstream", <<"host", h.id>>>> \/ ref \in tls_defs(h.names)
    BY <2>2, IfSubset
  <2> QED BY <2>1, <2>3 DEF tls_defs
<1>7. CASE \E x \in On(in.redirects) \cup On(in.deads) : g = gen_redirect(in, x) \/ g = gen_dead(in, x)
  <2>1. PICK x : g = gen_redirect(in, x) \/ g = gen_dead(in, x)
    BY <1>7
  <2>2. g.defs = If(Https(in, x), tls_defs(x.names))
    BY <2>1, Parts DEF gen_redirect, gen_dead, gen_site
  <2>3. ref \in tls_defs(x.names)
    BY <2>2, IfSubset
  <2> QED BY <2>3 DEF tls_defs
<1>8. CASE \E s \in On(in.streams) : Served(in, s) /\ g = gen_stream(s)
  <2>1. g.defs = {}
    BY <1>8, Parts DEF gen_stream
  <2> QED BY <2>1
<1>9. CASE \E r \in On(in.routers) : g = gen_sni_router(r)
  <2>1. PICK r \in On(in.routers) : g = gen_sni_router(r)
    BY <1>9
  <2>2. g.defs = {<<"sni-map", r.id>>} \cup {<<"upstream", u>> : u \in sni_upstreams(r)}
    BY <2>1, Parts DEF gen_sni_router
  <2>3. \A u \in sni_upstreams(r) : u[1] = "sni" /\ u[2] = r.id
    BY DEF sni_upstreams, If
  <2>4. ref = <<"sni-map", r.id>> \/ \E u \in sni_upstreams(r) : ref = <<"upstream", u>>
    BY <2>2
  <2> QED BY <2>1, <2>3, <2>4
<1>10. CASE g \in gen_bans(in) \/ g \in gen_default(in)
  <2>1. g.defs = {}
    <3>1. \E n, S : g = File(n, {}, S)
      BY <1>10 DEF gen_bans, gen_default, If
    <3> QED BY <3>1, Parts
  <2> QED BY <2>1
<1> QED BY <1>1, <1>2, <1>3, <1>4, <1>5, <1>6, <1>7, <1>8, <1>9, <1>10, FileCases

\* No two files define one thing, the servers on 443 of a name apart.
LEMMA OneDefiner ==
  ASSUME NEW in, Keyed(in), NEW g \in generate(in), NEW k \in generate(in),
         NEW ref \in g.defs \cap k.defs, ref[1] # "https"
  PROVE  g = k
<1>1. /\ g \in gen_panel(in) /\ k \in gen_panel(in) => g = k
      /\ g \in gen_acme(in) /\ k \in gen_acme(in) => g = k
      /\ g \in gen_geo(in) /\ k \in gen_geo(in) => g = k
      /\ g \in gen_rate_limits(in) /\ k \in gen_rate_limits(in) => g = k
  <2>1. g \in gen_panel(in) /\ k \in gen_panel(in) => g = k
    BY DEF gen_panel
  <2>2. g \in gen_acme(in) /\ k \in gen_acme(in) => g = k
    BY DEF gen_acme
  <2>3. g \in gen_geo(in) /\ k \in gen_geo(in) => g = k
    BY DEF gen_geo, If
  <2>4. g \in gen_rate_limits(in) /\ k \in gen_rate_limits(in) => g = k
    BY DEF gen_rate_limits, If
  <2> QED BY <2>1, <2>2, <2>3, <2>4
<1>2. CASE ref[1] \in {"map", "cache-zone", "acme-client", "req-zone", "conn-zone"}
  <2>1. \/ g \in gen_panel(in) /\ k \in gen_panel(in)
        \/ g \in gen_acme(in) /\ k \in gen_acme(in)
        \/ g \in gen_geo(in) /\ k \in gen_geo(in)
        \/ g \in gen_rate_limits(in) /\ k \in gen_rate_limits(in)
    BY <1>2, DefsOf
  <2> QED BY <1>1, <2>1
<1>3. CASE ref[1] = "file"
  <2>1. ref[2] = g.name /\ ref[2] = k.name
    BY <1>3, DefsOf
  <2> QED BY <2>1, NameKey
<1>4. CASE ref[1] = "upstream"
  <2>1. CASE ref[2][1] = "host"
    <3>1. PICK h \in On(in.hosts) : ref[2][2] = h.id /\ g = gen_host(in, h)
      BY <1>4, <2>1, DefsOf
    <3>2. PICK x \in On(in.hosts) : ref[2][2] = x.id /\ k = gen_host(in, x)
      BY <1>4, <2>1, DefsOf
    <3>3. h = x
      BY <3>1, <3>2, OnIn DEF Keyed
    <3> QED BY <3>1, <3>2, <3>3
  <2>2. CASE ref[2][1] # "host"
    <3>1. PICK h \in On(in.routers) : ref[2][2] = h.id /\ g = gen_sni_router(h)
      BY <1>4, <2>2, DefsOf
    <3>2. PICK x \in On(in.routers) : ref[2][2] = x.id /\ k = gen_sni_router(x)
      BY <1>4, <2>2, DefsOf
    <3>3. h = x
      BY <3>1, <3>2, OnIn DEF Keyed
    <3> QED BY <3>1, <3>2, <3>3
  <2> QED BY <2>1, <2>2
<1>5. CASE ref[1] = "sni-map"
  <2>1. PICK h \in On(in.routers) : ref[2] = h.id /\ g = gen_sni_router(h)
    BY <1>5, DefsOf
  <2>2. PICK x \in On(in.routers) : ref[2] = x.id /\ k = gen_sni_router(x)
    BY <1>5, DefsOf
  <2>3. h = x
    BY <2>1, <2>2, OnIn DEF Keyed
  <2> QED BY <2>1, <2>2, <2>3
<1>6. ref[1] \in {"map", "cache-zone", "acme-client", "req-zone", "conn-zone", "file", "upstream", "sni-map"}
  BY DefsOf
<1> QED BY <1>2, <1>3, <1>4, <1>5, <1>6

\* There is what a directive of the server s refers to.
Found(in, s, ref) ==
  IF ref[1] = "location" THEN \E l \in s.locations : l.path = ref[2]
  ELSE \E g \in generate(in) : ref \in g.defs
RefsFound(in, s, d) == \A ref \in d.refs : Found(in, s, ref)

LEMMA FoundDir == ASSUME NEW in, NEW s, NEW n, NEW a PROVE RefsFound(in, s, Dir(n, a))
BY DEF RefsFound, Dir

LEMMA FoundDirTo ==
  ASSUME NEW in, NEW s, NEW n, NEW k, NEW x, Found(in, s, <<k, x>>)
  PROVE  RefsFound(in, s, DirTo(n, k, x))
BY DEF RefsFound, DirTo

LEMMA FoundIn ==
  ASSUME NEW in, NEW s, NEW k, NEW x, k # "location", NEW g \in generate(in), <<k, x>> \in g.defs
  PROVE  Found(in, s, <<k, x>>)
BY DEF Found

LEMMA FoundMap ==
  ASSUME NEW in, NEW s
  PROVE  /\ Found(in, s, <<"map", "connection_upgrade">>)
         /\ geo_active(in) => Found(in, s, <<"map", "ap_geo_deny">>)
<1>1. Found(in, s, <<"map", "connection_upgrade">>)
  <2> DEFINE defs == {<<"map", "connection_upgrade">>, <<"cache-zone", "assets">>}
  <2>1. PICK S : gen_panel(in) = {File(<<"00-panel", 0>>, defs, S)}
    BY DEF gen_panel
  <2>2. <<"map", "connection_upgrade">> \in defs
    OBVIOUS
  <2> HIDE DEF defs
  <2> DEFINE g == File(<<"00-panel", 0>>, defs, S)
  <2>3. g \in generate(in)
    BY <2>1 DEF generate
  <2>4. g.defs = defs
    BY Parts
  <2> HIDE DEF g
  <2> QED BY <2>2, <2>3, <2>4, FoundIn
<1>2. ASSUME geo_active(in) PROVE Found(in, s, <<"map", "ap_geo_deny">>)
  <2> DEFINE g == File(<<"12-geo", 0>>, {<<"map", "ap_geo_deny">>}, {})
  <2>1. g \in generate(in)
    BY <1>2 DEF generate, gen_geo, If
  <2>2. <<"map", "ap_geo_deny">> \in g.defs
    BY Parts
  <2> HIDE DEF g
  <2> QED BY <2>1, <2>2, FoundIn
<1> QED BY <1>1, <1>2

LEMMA FoundClient ==
  ASSUME NEW in, NEW s, NEW c \in in.certs
  PROVE  Found(in, s, <<"acme-client", c.id>>)
<1>1. PICK S : gen_acme(in) = {File(<<"10-acme", 0>>, {<<"acme-client", x.id>> : x \in in.certs}, S)}
  BY DEF gen_acme
<1> DEFINE g == File(<<"10-acme", 0>>, {<<"acme-client", x.id>> : x \in in.certs}, S)
<1>2. g \in generate(in)
  BY <1>1 DEF generate
<1>3. g.defs = {<<"acme-client", x.id>> : x \in in.certs}
  BY Parts
<1> HIDE DEF g
<1> QED BY <1>2, <1>3, FoundIn

LEMMA FoundCert ==
  ASSUME NEW in, NEW s, NEW x, CertOf(in, x) # {}
  PROVE  Found(in, s, <<"acme-client", x.cert>>)
<1>1. PICK c \in in.certs : c.id = x.cert
  BY DEF CertOf
<1> QED BY <1>1, FoundClient

LEMMA HttpsHasCert == ASSUME NEW in, NEW x, Https(in, x) PROVE CertOf(in, x) # {}
BY DEF Https, IsReady

LEMMA FoundPasswd ==
  ASSUME NEW in, NEW s, NEW h \in in.hosts, HasAuth(in, h)
  PROVE  Found(in, s, <<"file", htpasswd_name(h.list)>>)
<1>1. h.list \in {l.id : l \in in.lists} \cap {x.list : x \in in.hosts} \cap in.users
  BY DEF HasAuth, ListOf
<1> DEFINE g == File(htpasswd_name(h.list), {<<"file", htpasswd_name(h.list)>>}, {})
<1>2. g \in htpasswd(in)
  BY <1>1 DEF htpasswd
<1>3. g \in generate(in)
  BY <1>2 DEF generate
<1>4. <<"file", htpasswd_name(h.list)>> \in g.defs
  BY Parts
<1> HIDE DEF g
<1> QED BY <1>3, <1>4, FoundIn

LEMMA FoundCa ==
  ASSUME NEW in, NEW s, NEW h \in On(in.hosts), Https(in, h), Has(h, "mtls")
  PROVE  Found(in, s, <<"file", client_ca_name(h.id)>>)
<1> DEFINE g == File(client_ca_name(h.id), {<<"file", client_ca_name(h.id)>>}, {})
<1>1. g \in client_ca(in)
  BY DEF client_ca, On
<1>2. g \in generate(in)
  BY <1>1 DEF generate
<1>3. <<"file", client_ca_name(h.id)>> \in g.defs
  BY Parts
<1> HIDE DEF g
<1> QED BY <1>2, <1>3, FoundIn

LEMMA FoundZone ==
  ASSUME NEW in, NEW s, NEW h \in On(in.hosts)
  PROVE  /\ Has(h, "rps") => Found(in, s, <<"req-zone", h.id>>)
         /\ Has(h, "conn") => Found(in, s, <<"conn-zone", h.id>>)
<1> DEFINE limited == {x \in in.hosts : x.enabled /\ rate_limit_active(x)}
           zones == {<<"req-zone", x.id>> : x \in {y \in limited : Has(y, "rps")}}
                    \cup {<<"conn-zone", x.id>> : x \in {y \in limited : Has(y, "conn")}}
           g == File(<<"15-rate-limits", 0>>, zones, {})
<1>1. gen_rate_limits(in) = If(limited # {}, {g})
  BY DEF gen_rate_limits
<1>2. Has(h, "rps") \/ Has(h, "conn") => h \in limited
  BY DEF On, rate_limit_active
<1>3. /\ Has(h, "rps") => <<"req-zone", h.id>> \in zones
      /\ Has(h, "conn") => <<"conn-zone", h.id>> \in zones
  BY <1>2
<1> HIDE DEF limited, zones
<1>4. g.defs = zones
  BY Parts
<1> HIDE DEF g
<1>5. Has(h, "rps") \/ Has(h, "conn") => g \in generate(in)
  BY <1>1, <1>2 DEF generate, If
<1> QED BY <1>3, <1>4, <1>5, FoundIn

LEMMA FoundHost ==
  ASSUME NEW in, NEW s, NEW h \in On(in.hosts)
  PROVE  /\ Found(in, s, <<"upstream", <<"host", h.id>>>>)
         /\ Https(in, h) => \A n \in h.names : Found(in, s, <<"https", n>>)
<1>1. gen_host(in, h) \in generate(in)
  BY DEF generate
<1>2. gen_host(in, h).defs = {<<"upstream", <<"host", h.id>>>>} \cup If(Https(in, h), tls_defs(h.names))
  BY Parts DEF gen_host
<1>3. <<"upstream", <<"host", h.id>>>> \in gen_host(in, h).defs
  BY <1>2
<1>4. Https(in, h) => \A n \in h.names : <<"https", n>> \in gen_host(in, h).defs
  BY <1>2 DEF If, tls_defs
<1> QED BY <1>1, <1>3, <1>4, FoundIn

LEMMA FoundTls ==
  ASSUME NEW in, NEW s, NEW names, NEW n \in names,
         NEW g \in generate(in), tls_defs(names) \subseteq g.defs
  PROVE  Found(in, s, <<"https", n>>)
BY FoundIn DEF tls_defs

LEMMA FoundToHttps ==
  ASSUME NEW in, NEW s, NEW names, \A n \in names : Found(in, s, <<"https", n>>)
  PROVE  RefsFound(in, s, to_https(names))
BY DEF RefsFound, to_https

LEMMA HostOwnFound ==
  ASSUME NEW in, NEW h \in On(in.hosts), NEW tls, NEW s, s.locations = host_features(in, h),
         NEW d \in Range(host_own(in, h, tls))
  PROVE  RefsFound(in, s, d)
<1>0. h \in in.hosts
  BY OnIn
<1>1. CASE d \in Range(emit_geo_guard(in))
  <2>1. geo_active(in) /\ d = DirTo("if-return-403", "map", "ap_geo_deny")
    BY <1>1, GuardRange DEF If
  <2> QED BY <2>1, FoundMap, FoundDirTo
<1>2. CASE d \in Range(emit_hsts(h)) \cup Range(emit_response_headers(h)) \cup Range(cache_status(h))
                 \cup Range(block_exploits(h))
  <2>1. \E n, a : d = Dir(n, a)
    BY <1>2, HeaderRange, IfSubset
  <2> QED BY <2>1, FoundDir
<1>3. CASE d \in Range(access(in, h))
  <2> DEFINE a == {Dir("satisfy", Satisfy(in, h))}
             b == {DirTo("auth_basic", "file", htpasswd_name(h.list))}
             c == {Dir("allow", ""), Dir("deny", "all")}
  <2>1. Range(access(in, h)) = (If(HasAuth(in, h) /\ HasIp(in, h), a) \cup If(HasAuth(in, h), b))
                               \cup If(HasIp(in, h), c)
    BY AccessRange
  <2>2. \A x \in a \cup c : RefsFound(in, s, x)
    BY FoundDir
  <2>3. HasAuth(in, h) => \A x \in b : RefsFound(in, s, x)
    BY <1>0, FoundPasswd, FoundDirTo
  <2> HIDE DEF a, b, c
  <2> QED BY <1>3, <2>1, <2>2, <2>3 DEF If
<1>4. CASE d \in Range(emit_rate_limit(h))
  <2>1. \/ Has(h, "rps") /\ d = DirTo("limit_req", "req-zone", h.id)
        \/ Has(h, "conn") /\ d = DirTo("limit_conn", "conn-zone", h.id)
    BY <1>4, LimitRange DEF If
  <2>2. CASE Has(h, "rps") /\ d = DirTo("limit_req", "req-zone", h.id)
    BY <2>2, FoundZone, FoundDirTo
  <2>3. CASE Has(h, "conn") /\ d = DirTo("limit_conn", "conn-zone", h.id)
    BY <2>3, FoundZone, FoundDirTo
  <2> QED BY <2>1, <2>2, <2>3
<1>5. CASE d \in Range(emit_tuning(h))
  <2>1. d = Dir("gzip", "on") \/ d = Dir("proxy_buffering", "off")
    BY <1>5, LimitRange DEF If
  <2> QED BY <2>1, FoundDir
<1>6. CASE ~Has(h, "maintenance") /\ d \in Range(emit_error_pages(h)) \cup Range(emit_forward_auth_server(h))
  <2>1. error_locations(h) \cup forward_auth_locations(h) \subseteq s.locations
    BY <1>6 DEF host_features
  <2>2. /\ Has(h, "404") => Found(in, s, <<"location", "@ap_err_404">>)
        /\ Has(h, "5xx") => Found(in, s, <<"location", "@ap_err_5xx">>)
        /\ Has(h, "sign-in") => Found(in, s, <<"location", "@forward_auth_signin">>)
    <3>1. /\ Has(h, "404") => Location("@ap_err_404", <<Dir("return", "404")>>) \in s.locations
          /\ Has(h, "5xx") => Location("@ap_err_5xx", <<Dir("return", "503")>>) \in s.locations
          /\ Has(h, "sign-in") => Location("@forward_auth_signin", <<Dir("return", "302")>>) \in s.locations
      BY <2>1 DEF error_locations, forward_auth_locations, If
    <3> QED BY <3>1, Parts DEF Found
  <2>3. \/ d = Dir("proxy_intercept_errors", "on")
        \/ Has(h, "404") /\ d = DirTo("error_page", "location", "@ap_err_404")
        \/ Has(h, "5xx") /\ d = DirTo("error_page", "location", "@ap_err_5xx")
        \/ Has(h, "sign-in") /\ d = DirTo("error_page", "location", "@forward_auth_signin")
    BY <1>6, ErrorRange, GuardRange DEF If
  <2> QED BY <2>2, <2>3, FoundDir, FoundDirTo
<1> QED BY <1>1, <1>2, <1>3, <1>4, <1>5, <1>6, HostRange DEF If

LEMMA LocationFound ==
  ASSUME NEW in, NEW h \in On(in.hosts), NEW s, s.locations = host_features(in, h),
         NEW l \in host_features(in, h), NEW d \in Range(l.own)
  PROVE  RefsFound(in, s, d)
<1>1. CASE Has(h, "maintenance")
  <2>1. \E n, a : d = Dir(n, a)
    BY <1>1, Maintenance
  <2> QED BY <2>1, FoundDir
<1>2. CASE l \in error_locations(h) \cup forward_auth_locations(h)
  <2>1. \/ Range(l.own) = {Dir("return", "404")}
        \/ Range(l.own) = {Dir("return", "503")}
        \/ Range(l.own) = {Dir("return", "302")}
        \/ Range(l.own) = {Dir("internal", ""), Dir("proxy_pass", h.verify)}
    BY <1>2, PlainLocations
  <2>2. \E n, a : d = Dir(n, a)
    BY <2>1
  <2> QED BY <2>2, FoundDir
<1>3. ASSUME ~Has(h, "maintenance"), NEW x \in Range(emit_auth_request(h)) PROVE RefsFound(in, s, x)
  <2>1. Has(h, "forward-auth") /\ x = DirTo("auth_request", "location", "=/_forward_auth")
    BY <1>3, GuardRange DEF If
  <2> DEFINE y == Location("=/_forward_auth", <<Dir("internal", ""), Dir("proxy_pass", h.verify)>>)
  <2>2. y \in s.locations
    BY <1>3, <2>1 DEF host_features, forward_auth_locations, If
  <2>3. y.path = "=/_forward_auth"
    BY Parts
  <2> HIDE DEF y
  <2>4. Found(in, s, <<"location", "=/_forward_auth">>)
    BY <2>2, <2>3 DEF Found
  <2> QED BY <2>1, <2>4, FoundDirTo
<1>4. ASSUME NEW x \in Range(emit_request_headers(h)) PROVE RefsFound(in, s, x)
  <2>1. x = Dir("proxy_set_header", "custom")
    BY <1>4, HeaderRange, IfSubset
  <2> QED BY <2>1, FoundDir
<1>5. ASSUME NEW t, RefsFound(in, s, t), NEW x \in Range(proxy_body(in, h, t)) PROVE RefsFound(in, s, x)
  <2> DEFINE a == {Dir("proxy_set_header", "Host")}
             b == {DirTo("proxy_set_header", "map", "connection_upgrade")}
             c == {Dir("proxy_set_header", "no-Authorization")}
  <2>1. Range(proxy_body(in, h, t)) \subseteq {t} \cup a \cup b \cup c
    BY ProxyRange, IfSubset
  <2>2. \A y \in a \cup c : RefsFound(in, s, y)
    BY FoundDir
  <2>3. \A y \in b : RefsFound(in, s, y)
    BY FoundMap, FoundDirTo
  <2> HIDE DEF a, b, c
  <2> QED BY <1>5, <2>1, <2>2, <2>3
<1>6. RefsFound(in, s, host_upstream_ref(h)) /\ RefsFound(in, s, location_upstream_ref(h))
  BY FoundHost, FoundDir, FoundDirTo DEF host_upstream_ref, location_upstream_ref
<1>7. CASE ~Has(h, "maintenance") /\ l = main_location(in, h)
  <2>1. RefsFound(in, s, Dir("include", "cache-assets.conf"))
    BY FoundDir
  <2> QED BY <1>3, <1>4, <1>5, <1>6, <1>7, <2>1, MainRange, IfSubset
<1>8. CASE ~Has(h, "maintenance") /\ l \in custom_locations(in, h)
  BY <1>3, <1>4, <1>5, <1>6, <1>8, CustomRange
<1> QED BY <1>1, <1>2, <1>7, <1>8, FeatureCases

LEMMA HostFound ==
  ASSUME NEW in, NEW h \in On(in.hosts), NEW s \in gen_host(in, h).servers, NEW d \in Directives(s)
  PROVE  RefsFound(in, s, d)
<1>1. d \in Range(s.own) \/ \E l \in s.locations : d \in Range(l.own)
  BY DEF Directives
<1>2. CASE Https(in, h) /\ s = force_ssl_server(h)
  <2>1. d = to_https(h.names)
    BY <1>1, <1>2, HostServerParts
  <2>2. \A n \in h.names : Found(in, s, <<"https", n>>)
    BY <1>2, FoundHost
  <2> QED BY <2>1, <2>2, FoundToHttps
<1>3. CASE s = gen_http_server(in, h)
  <2>1. s.locations = host_features(in, h) /\ s.own = host_own(in, h, FALSE)
    BY <1>3, HostServerParts
  <2>2. d \in Range(host_own(in, h, FALSE)) \/ \E l \in host_features(in, h) : d \in Range(l.own)
    BY <1>1, <2>1
  <2> QED BY <2>1, <2>2, HostOwnFound, LocationFound
<1>4. CASE Https(in, h) /\ s = gen_https_server(in, h)
  <2>0. Range(s.own) = {DirTo("ssl_certificate", "acme-client", h.cert)}
                       \cup If(Has(h, "mtls"), MtlsSet(h))
                       \cup If(Has(h, "http3"), {Dir("add_header", "Alt-Svc")})
                       \cup Range(host_own(in, h, TRUE))
    BY <1>4, HttpsRange
  <2>1. s.locations = host_features(in, h)
    BY <1>4, HostServerParts
  <2>2. CASE \E l \in s.locations : d \in Range(l.own)
    BY <2>1, <2>2, LocationFound
  <2>3. CASE d \in Range(host_own(in, h, TRUE))
    BY <2>1, <2>3, HostOwnFound
  <2>4. CASE d = DirTo("ssl_certificate", "acme-client", h.cert)
    BY <1>4, <2>4, HttpsHasCert, FoundCert, FoundDirTo
  <2>5. CASE Has(h, "mtls") /\ d \in MtlsSet(h)
    BY <1>4, <2>5, FoundCa, FoundDirTo, FoundDir DEF MtlsSet
  <2>6. CASE d = Dir("add_header", "Alt-Svc")
    BY <2>6, FoundDir
  <2> QED BY <1>1, <2>0, <2>2, <2>3, <2>4, <2>5, <2>6 DEF If
<1> QED BY <1>2, <1>3, <1>4, HostServer

LEMMA SiteFound ==
  ASSUME NEW in, NEW x, NEW name, NEW b, SiteGuard(b), NEW n, NEW a,
         gen_site(in, x, name, b, Dir(n, a)) \in generate(in),
         NEW s \in gen_site(in, x, name, b, Dir(n, a)).servers, NEW d \in Directives(s)
  PROVE  RefsFound(in, s, d)
<1> DEFINE g == gen_site(in, x, name, b, Dir(n, a))
<1>1. s.locations = {}
  BY SiteRange
<1>2. d \in Range(s.own)
  BY <1>1 DEF Directives
<1>3. g.defs = If(Https(in, x), tls_defs(x.names))
  BY Parts DEF gen_site
<1>4. CASE Https(in, x) /\ d = to_https(x.names)
  <2>1. tls_defs(x.names) \subseteq g.defs
    BY <1>3, <1>4 DEF If
  <2>2. \A y \in x.names : Found(in, s, <<"https", y>>)
    BY <2>1, FoundTls
  <2> QED BY <1>4, <2>2, FoundToHttps
<1>5. CASE Https(in, x) /\ d = DirTo("ssl_certificate", "acme-client", x.cert)
  BY <1>5, HttpsHasCert, FoundCert, FoundDirTo
<1>6. CASE \E y, z : d = Dir(y, z)
  BY <1>6, FoundDir
<1> HIDE DEF g
<1> DEFINE A == {DirTo("ssl_certificate", "acme-client", x.cert), to_https(x.names)}
           B == {Dir("add_header", "Strict-Transport-Security"), Dir("include", "block-exploits.conf"),
                 Dir(n, a)}
<1>7. d \in If(Https(in, x), A) \cup B
  BY <1>2, SiteRange
<1>8. \A y \in B : \E u, z : y = Dir(u, z)
  OBVIOUS
<1> HIDE DEF B
<1>9. \/ d \in B
      \/ Https(in, x) /\ d = to_https(x.names)
      \/ Https(in, x) /\ d = DirTo("ssl_certificate", "acme-client", x.cert)
  BY <1>7 DEF If
<1> QED BY <1>4, <1>5, <1>6, <1>8, <1>9

LEMMA AcmeFound ==
  ASSUME NEW in, NEW f \in gen_acme(in), NEW s \in f.servers, NEW d \in Directives(s)
  PROVE  RefsFound(in, s, d)
<1> DEFINE key == IF in.shared THEN "account_key" ELSE "own-key"
           n == <<"10-acme", 0>>
           defs == {<<"acme-client", c.id>> : c \in in.certs}
           collector(c) ==
             Server({<<0, "unix">>}, {"collector"},
                    <<Dir("acme_client", key), DirTo("acme", "acme-client", c.id)>>,
                    If(c.provider, {hook_location(c)}))
<1>0. gen_acme(in) = {File(n, defs, {collector(c) : c \in in.certs})}
  BY DEF gen_acme
<1> HIDE DEF n, defs, collector, key
<1>1. PICK c \in in.certs : s = collector(c)
  BY <1>0, Parts
<1>2. s.own = <<Dir("acme_client", key), DirTo("acme", "acme-client", c.id)>>
  BY <1>1 DEF collector, Server
<1>3. s.locations = If(c.provider, {hook_location(c)})
  BY <1>1 DEF collector, Server
<1>4. Found(in, s, <<"acme-client", c.id>>)
  BY FoundClient
<1>5. CASE d \in Range(s.own)
  <2>1. d = Dir("acme_client", key) \/ d = DirTo("acme", "acme-client", c.id)
    BY <1>2, <1>5, TwoRange
  <2> QED BY <1>4, <2>1, FoundDir, FoundDirTo
<1>6. CASE \E l \in s.locations : d \in Range(l.own)
  <2> DEFINE o == hook_location(c).own
  <2>1. d \in Range(o)
    BY <1>3, <1>6, IfSubset
  <2>2. o = <<DirTo("acme_hook", "acme-client", c.id), Dir("proxy_pass", "panel"),
              Dir("proxy_read_timeout", "560s"), Dir("proxy_set_header", "X-Acme-*")>>
    BY Parts DEF hook_location
  <2>3. /\ DOMAIN o = {1, 2, 3, 4}
        /\ o[1] = DirTo("acme_hook", "acme-client", c.id) /\ o[2] = Dir("proxy_pass", "panel")
        /\ o[3] = Dir("proxy_read_timeout", "560s") /\ o[4] = Dir("proxy_set_header", "X-Acme-*")
    BY <2>2
  <2> HIDE DEF o
  <2>4. d = DirTo("acme_hook", "acme-client", c.id) \/ \E x, a : d = Dir(x, a)
    BY <2>1, <2>3 DEF Range
  <2> QED BY <1>4, <2>4, FoundDir, FoundDirTo
<1> QED BY <1>5, <1>6 DEF Directives

LEMMA PortFound ==
  ASSUME NEW in, NEW x, NEW s, NEW d \in Directives(s)
  PROVE  /\ Served(in, x) /\ s \in gen_stream(x).servers => RefsFound(in, s, d)
         /\ gen_sni_router(x) \in generate(in) /\ s \in gen_sni_router(x).servers
              => RefsFound(in, s, d)
<1>1. ASSUME Served(in, x), s \in gen_stream(x).servers PROVE RefsFound(in, s, d)
  <2> DEFINE a == When(x.terminate, certificate(x))
             b == <<Dir("proxy_pass", x.target)>>
             own == a \o b
  <2>1. PICK listen : gen_stream(x) = File(<<"stream", x.id>>, {}, {Server(listen, {}, own, {})})
    BY DEF gen_stream
  <2> HIDE DEF own
  <2>2. s.own = own /\ s.locations = {}
    BY <1>1, <2>1, Parts
  <2>3. IsSeq(a) /\ Range(a) = If(x.terminate, {DirTo("ssl_certificate", "acme-client", x.cert)})
    BY WhenOne DEF certificate
  <2>4. IsSeq(b) /\ Range(b) = {Dir("proxy_pass", x.target)}
    BY OneRange
  <2> HIDE DEF a, b
  <2>5. Range(s.own) = Range(a) \cup Range(b)
    BY <2>2, <2>3, <2>4, ConcatRange DEF own
  <2>6. \/ x.terminate /\ d = DirTo("ssl_certificate", "acme-client", x.cert)
        \/ d = Dir("proxy_pass", x.target)
    BY <2>2, <2>3, <2>4, <2>5 DEF Directives, If
  <2>7. x.terminate => Found(in, s, <<"acme-client", x.cert>>)
    BY <1>1, FoundCert DEF Served
  <2> QED BY <2>6, <2>7, FoundDir, FoundDirTo
<1>2. ASSUME gen_sni_router(x) \in generate(in), s \in gen_sni_router(x).servers PROVE RefsFound(in, s, d)
  <2> DEFINE g == gen_sni_router(x)
             m == [name |-> "map", arg |-> "sni", refs |-> {<<"upstream", u>> : u \in sni_upstreams(x)}]
             p == DirTo("proxy_pass", "sni-map", x.id)
             listen == {<<x.port, "tcp">>}
  <2>1. g = File(<<"sni", x.id>>, {<<"sni-map", x.id>>} \cup {<<"upstream", u>> : u \in sni_upstreams(x)},
                 {Server(listen, {}, <<m, p>>, {})})
    BY DEF gen_sni_router
  <2>2. m.refs = {<<"upstream", u>> : u \in sni_upstreams(x)}
    OBVIOUS
  <2> HIDE DEF listen, m
  <2>3. /\ g.defs = {<<"sni-map", x.id>>} \cup {<<"upstream", u>> : u \in sni_upstreams(x)}
        /\ s = Server(listen, {}, <<m, p>>, {})
    BY <1>2, <2>1, Parts
  <2>4. s.own = <<m, p>> /\ s.locations = {}
    BY <2>3, Parts
  <2>5. g \in generate(in)
    BY <1>2
  <2> HIDE DEF g
  <2>6. RefsFound(in, s, p)
    BY <2>3, <2>5, FoundIn, FoundDirTo
  <2>7. RefsFound(in, s, m)
    BY <2>2, <2>3, <2>5, FoundIn DEF RefsFound
  <2> HIDE DEF p
  <2>8. Range(s.own) = {m, p}
    BY <2>4, TwoRange
  <2> QED BY <2>4, <2>6, <2>7, <2>8 DEF Directives
<1> QED BY <1>1, <1>2

LEMMA FileFound ==
  ASSUME NEW in, NEW f \in generate(in), NEW s \in f.servers, NEW d \in Directives(s)
  PROVE  RefsFound(in, s, d)
<1>0. d \in Range(s.own) \/ \E l \in s.locations : d \in Range(l.own)
  BY DEF Directives
<1>1. CASE f \in gen_panel(in)
  <2> DEFINE l0 == Location("/status/", <<Dir("api", "/status/")>>)
             listen == {<<8100, "plain">>}
             defs == {<<"map", "connection_upgrade">>, <<"cache-zone", "assets">>}
             s0 == Server(listen, {}, <<>>, {l0})
  <2>1. gen_panel(in) = {File(<<"00-panel", 0>>, defs, {s0})}
    BY DEF gen_panel
  <2>2. Range(l0.own) = {Dir("api", "/status/")}
    BY OneRange, Parts
  <2> HIDE DEF listen, defs, l0
  <2>3. s0.own = <<>> /\ s0.locations = {l0}
    BY DEF Server
  <2> HIDE DEF s0
  <2>4. f.servers = {s0}
    BY <1>1, <2>1, Parts
  <2>5. d = Dir("api", "/status/")
    BY <1>0, <2>2, <2>3, <2>4, EmptyRange
  <2> QED BY <2>5, FoundDir
<1>2. CASE f \in gen_acme(in)
  BY <1>2, AcmeFound
<1>3. CASE \E h \in On(in.hosts) : f = gen_host(in, h)
  BY <1>3, HostFound
<1>4. CASE \E x \in On(in.redirects) : f = gen_redirect(in, x)
  BY <1>4, SiteFound, SiteGuards DEF gen_redirect
<1>5. CASE \E x \in On(in.deads) : f = gen_dead(in, x)
  BY <1>5, SiteFound, SiteGuards DEF gen_dead
<1>6. CASE \/ f \in gen_bans(in) \/ f \in gen_geo(in) \/ f \in gen_rate_limits(in)
           \/ f \in htpasswd(in) \/ f \in client_ca(in)
  BY <1>6 DEF gen_bans, gen_geo, gen_rate_limits, htpasswd, client_ca, File, If
<1>7. CASE f \in gen_default(in)
  <2> DEFINE n == <<"05-default", 0>>
             http == {<<80, "plain">>}
             https == {<<443, "ssl">>}
             s1 == Server(http, {"_"}, default_site_body(in), {})
             s2 == Server(https, {"_"}, <<Dir("ssl_reject_handshake", "on")>>, {})
  <2>1. gen_default(in) = {File(n, {}, {s1, s2})}
    BY DEF gen_default
  <2> HIDE DEF n, http, https
  <2>2. /\ s1.own = default_site_body(in) /\ s1.locations = {}
        /\ s2.own = <<Dir("ssl_reject_handshake", "on")>> /\ s2.locations = {}
    BY DEF Server
  <2> HIDE DEF s1, s2
  <2>3. f.servers = {s1, s2}
    BY <1>7, <2>1, Parts
  <2>4. \A x \in Range(default_site_body(in)) : \E k, a : x = Dir(k, a)
    <3>1. \/ default_site_body(in) = <<Dir("root", "public_dir"), Dir("try_files", "index")>>
          \/ \E a : default_site_body(in) = <<Dir("return", a)>>
      BY DEF default_site_body
    <3>2. \/ Range(default_site_body(in)) = {Dir("root", "public_dir"), Dir("try_files", "index")}
          \/ \E a : Range(default_site_body(in)) = {Dir("return", a)}
      BY <3>1, OneRange, TwoRange
    <3> QED BY <3>2
  <2>5. Range(s2.own) = {Dir("ssl_reject_handshake", "on")}
    BY <2>2, OneRange
  <2>6. \E k, a : d = Dir(k, a)
    BY <1>0, <2>2, <2>3, <2>4, <2>5
  <2> QED BY <2>6, FoundDir
<1>8. CASE \E x \in On(in.streams) : Served(in, x) /\ f = gen_stream(x)
  BY <1>8, PortFound
<1>9. CASE \E r \in On(in.routers) : f = gen_sni_router(r)
  BY <1>9, PortFound
<1> QED BY <1>1, <1>2, <1>3, <1>4, <1>5, <1>6, <1>7, <1>8, <1>9, FileCases

\* Whatever a directive refers to is defined, and by one file, whichever states of the
\* tables the build has mixed.
THEOREM EverythingResolves == Spec => []Resolves
<1>1. GenInv => Resolves
  <2> SUFFICES ASSUME GenInv, NEW f \in Files, NEW s \in f.servers, NEW d \in Directives(s), NEW ref \in d.refs
               PROVE  CASE ref[1] = "location" -> \E l \in s.locations : l.path = ref[2]
                        [] ref[1] = "https" -> Definers(ref) # {}
                        [] OTHER -> Cardinality(Definers(ref)) = 1
    BY DEF Resolves
  <2>1. Found(seen, s, ref)
    BY FileFound DEF Files, RefsFound
  <2>2. ref[1] = "location" => \E l \in s.locations : l.path = ref[2]
    BY <2>1 DEF Found
  <2>3. ref[1] # "location" => Definers(ref) # {}
    BY <2>1 DEF Found, Definers, Files
  <2>4. ASSUME ref[1] # "location", ref[1] # "https" PROVE Cardinality(Definers(ref)) = 1
    <3>1. PICK g \in Definers(ref) : TRUE
      BY <2>3, <2>4
    <3>2. Keyed(seen)
      BY DEF GenInv, Sound
    <3>3. \A k \in Definers(ref) : k = g
      BY <2>4, <3>2, OneDefiner DEF Definers, Files
    <3>4. Definers(ref) = {g}
      BY <3>1, <3>3
    <3> QED BY <3>4, FS_Singleton
  <2> QED BY <2>2, <2>3, <2>4
<1> QED BY <1>1, GenInvHolds, PTL
=============================================================================
