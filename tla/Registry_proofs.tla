--------------------------- MODULE Registry_proofs ---------------------------
(***************************************************************************)
(* Proofs about the host registry, for any number of requests, rows,       *)
(* certificates and access lists, and any documents.                       *)
(*                                                                         *)
(* TypeCorrect needs no assumption on Serial: every row refers to what is  *)
(* there, however handlers come in between each other.  The other          *)
(* theorems hold when the kinds of requests that they name are handled one *)
(* at a time, and each names no more of them than it needs.  Of what a     *)
(* request has checked (the tables without a clash, the list no host has)  *)
(* its invariant says that it is so until the request writes: ClaimInv,    *)
(* CertInv, ListInv and HashInv.                                           *)
(*                                                                         *)
(* RegistryAtomic puts them together: with these invariants, and what a    *)
(* request has had issued (Sound, HeldInv), each call is a step of         *)
(* AtomicRegistry or none.                                                 *)
(***************************************************************************)
EXTENDS RegistryRefinement, TLAPS

(* --------------------------- the order of calls --------------------------- *)

Has(p, s) == \E i \in 1..Len(p) : p[i] = s

\* The write is the last call of a plan, and a certificate is issued right before it.
Ordered(p) ==
    \A i \in 1..Len(p) : /\ p[i] = "write" => i = Len(p)
                         /\ p[i] = "issue" => i = Len(p) - 1

LEMMA HasConcat ==
  ASSUME NEW a \in Seq(Steps), NEW b \in Seq(Steps)
  PROVE  a \o b \in Seq(Steps) /\ \A s : Has(a \o b, s) <=> Has(a, s) \/ Has(b, s)
<1>1. a \o b \in Seq(Steps) /\ Len(a \o b) = Len(a) + Len(b)
  OBVIOUS
<1>2. ASSUME NEW s, Has(a \o b, s) PROVE Has(a, s) \/ Has(b, s)
  <2>1. PICK i \in 1..(Len(a) + Len(b)) : (a \o b)[i] = s
    BY <1>1, <1>2 DEF Has
  <2>2. CASE i <= Len(a)
    BY <2>1, <2>2 DEF Has
  <2>3. CASE i > Len(a)
    <3>1. i - Len(a) \in 1..Len(b) /\ b[i - Len(a)] = s
      BY <2>1, <2>3
    <3> QED BY <3>1 DEF Has
  <2> QED BY <2>1, <2>2, <2>3
<1>3. ASSUME NEW s, Has(a, s) PROVE Has(a \o b, s)
  <2>1. PICK i \in 1..Len(a) : a[i] = s
    BY <1>3 DEF Has
  <2>2. i \in 1..Len(a \o b) /\ (a \o b)[i] = s
    BY <2>1, <1>1
  <2> QED BY <2>2 DEF Has
<1>4. ASSUME NEW s, Has(b, s) PROVE Has(a \o b, s)
  <2>1. PICK i \in 1..Len(b) : b[i] = s
    BY <1>4 DEF Has
  <2>2. Len(a) + i \in 1..Len(a \o b) /\ (a \o b)[Len(a) + i] = s
    BY <2>1, <1>1
  <2> QED BY <2>2 DEF Has
<1> QED BY <1>1, <1>2, <1>3, <1>4

\* What comes first is no write and issues nothing.
LEMMA OrderedConcat ==
  ASSUME NEW a \in Seq(Steps), NEW b \in Seq(Steps), Ordered(b),
         ~Has(a, "write"), ~Has(a, "issue")
  PROVE  Ordered(a \o b)
<1>1. a \o b \in Seq(Steps) /\ Len(a \o b) = Len(a) + Len(b)
  OBVIOUS
<1> SUFFICES ASSUME NEW i \in 1..(Len(a) + Len(b))
    PROVE  /\ (a \o b)[i] = "write" => i = Len(a) + Len(b)
           /\ (a \o b)[i] = "issue" => i = Len(a) + Len(b) - 1
  BY <1>1 DEF Ordered
<1>2. CASE i <= Len(a)
  BY <1>2 DEF Has
<1>3. CASE i > Len(a)
  <2>1. i - Len(a) \in 1..Len(b) /\ (a \o b)[i] = b[i - Len(a)]
    BY <1>3
  <2>2. /\ b[i - Len(a)] = "write" => i - Len(a) = Len(b)
        /\ b[i - Len(a)] = "issue" => i - Len(a) = Len(b) - 1
    BY <2>1 DEF Ordered
  <2> QED BY <2>1, <2>2
<1> QED BY <1>2, <1>3

LEMMA OneLess ==
  ASSUME NEW n \in Nat, NEW m, m = n - 1
  PROVE  /\ 1 = n => m = 0
         /\ 1 = n - 1 => m = 1
         /\ \A i \in 1..m : (i + 1 = n => i = m) /\ (i + 1 = n - 1 => i = m - 1)
OBVIOUS

LEMMA NoneBelow ==
  ASSUME NEW m, m = 1, NEW i \in 1..m
  PROVE  i # m - 1
OBVIOUS

LEMMA HasTail ==
  ASSUME NEW p \in Seq(Steps), p # <<>>
  PROVE  /\ Tail(p) \in Seq(Steps)
         /\ \A s : Has(p, s) <=> Head(p) = s \/ Has(Tail(p), s)
         /\ Ordered(p) => Ordered(Tail(p))
<1>1. /\ Tail(p) \in Seq(Steps) /\ Len(Tail(p)) = Len(p) - 1 /\ Len(p) \in Nat \ {0}
      /\ \A i \in 1..Len(Tail(p)) : Tail(p)[i] = p[i + 1]
      /\ Head(p) = p[1]
  OBVIOUS
<1>2. ASSUME NEW s, Has(p, s) PROVE Head(p) = s \/ Has(Tail(p), s)
  <2>1. PICK i \in 1..Len(p) : p[i] = s
    BY <1>2 DEF Has
  <2>2. CASE i = 1
    BY <1>1, <2>1, <2>2
  <2>3. CASE i # 1
    <3>1. i - 1 \in 1..Len(Tail(p)) /\ Tail(p)[i - 1] = s
      BY <1>1, <2>1, <2>3
    <3> QED BY <3>1 DEF Has
  <2> QED BY <2>2, <2>3
<1>3. ASSUME NEW s, Head(p) = s PROVE Has(p, s)
  BY <1>1, <1>3 DEF Has
<1>4. ASSUME NEW s, Has(Tail(p), s) PROVE Has(p, s)
  <2>1. PICK i \in 1..Len(Tail(p)) : Tail(p)[i] = s
    BY <1>4 DEF Has
  <2>2. i + 1 \in 1..Len(p) /\ p[i + 1] = s
    BY <1>1, <2>1
  <2> QED BY <2>2 DEF Has
<1>6. Len(p) \in Nat
  OBVIOUS
<1>5. Ordered(p) => Ordered(Tail(p))
  <2> SUFFICES ASSUME Ordered(p), NEW i \in 1..Len(Tail(p))
      PROVE  /\ Tail(p)[i] = "write" => i = Len(Tail(p))
             /\ Tail(p)[i] = "issue" => i = Len(Tail(p)) - 1
    BY DEF Ordered
  <2>1. i + 1 \in 1..Len(p) /\ Tail(p)[i] = p[i + 1]
    BY <1>1
  <2>2. ASSUME Tail(p)[i] = "write" PROVE i = Len(Tail(p))
    <3>1. p[i + 1] = "write"
      BY <2>1, <2>2, Zenon
    <3>2. i + 1 = Len(p)
      BY <2>1, <3>1, Zenon DEF Ordered
    <3> QED BY <1>1, <1>6, <3>2, OneLess, Zenon
  <2>3. ASSUME Tail(p)[i] = "issue" PROVE i = Len(Tail(p)) - 1
    <3>1. p[i + 1] = "issue"
      BY <2>1, <2>3, Zenon
    <3>2. i + 1 = Len(p) - 1
      BY <2>1, <3>1, Zenon DEF Ordered
    <3> QED BY <1>1, <1>6, <3>2, OneLess, Zenon
  <2> QED BY <2>2, <2>3
<1> QED BY <1>1, <1>2, <1>3, <1>4, <1>5

LEMMA LastCalls ==
  ASSUME NEW p \in Seq(Steps), p # <<>>, Ordered(p)
  PROVE  /\ Head(p) = "write" => \A s : ~Has(Tail(p), s)
         /\ Head(p) = "issue" => ~Has(Tail(p), "issue")
<1>0. Len(p) \in Nat
  OBVIOUS
<1>1. /\ Len(Tail(p)) = Len(p) - 1 /\ Len(p) \in Nat \ {0} /\ Head(p) = p[1]
      /\ \A i \in 1..Len(Tail(p)) : Tail(p)[i] = p[i + 1]
  OBVIOUS
<1>2. 1 \in 1..Len(p)
  BY <1>1
<1>3. ASSUME Head(p) = "write" PROVE Len(Tail(p)) = 0
  <2>1. 1 = Len(p)
    BY <1>1, <1>2, <1>3, Zenon DEF Ordered
  <2> QED BY <1>1, <1>0, <2>1, OneLess, Zenon
<1>4. ASSUME Head(p) = "issue" PROVE Len(Tail(p)) = 1
  <2>1. 1 = Len(p) - 1
    BY <1>1, <1>2, <1>4, Zenon DEF Ordered
  <2> QED BY <1>1, <1>0, <2>1, OneLess, Zenon
<1>5. Head(p) = "issue" => ~Has(Tail(p), "issue")
  <2> SUFFICES ASSUME Head(p) = "issue", NEW i \in 1..Len(Tail(p)), Tail(p)[i] = "issue"
      PROVE FALSE
    BY DEF Has
  <2>1. i + 1 \in 1..Len(p) /\ p[i + 1] = "issue"
    BY <1>1
  <2>2. i + 1 = Len(p) - 1
    BY <2>1, Zenon DEF Ordered
  <2>3. i = Len(Tail(p)) - 1
    BY <1>0, <1>1, <2>2, OneLess, Zenon
  <2>4. Len(Tail(p)) = 1
    BY <1>4
  <2> QED BY <2>3, <2>4, NoneBelow, Zenon
<1> QED BY <1>3, <1>5 DEF Has

\* The pieces plans are put together from.
LEMMA Pieces ==
  /\ <<>> \in Seq(Steps) /\ <<"discard">> \in Seq(Steps)
  /\ Ordered(<<>>) /\ Ordered(<<"discard">>)
  /\ \A s : ~Has(<<>>, s) /\ (Has(<<"discard">>, s) => s = "discard")
BY DEF Has, Ordered, Steps

\* A list of calls with neither an issue nor a write, hash or read.
Checks(p) == \A s : Has(p, s) => s \notin {"write", "issue", "hash", "read", "discard"}

LEMMA FreePieces ==
  /\ FreeDomains \in Seq(Steps) /\ FreePort \in Seq(Steps) /\ FreeSniPort \in Seq(Steps)
  /\ Checks(FreeDomains) /\ Checks(FreePort) /\ Checks(FreeSniPort)
  /\ \A u \in Sites : Has(FreeDomains, u)
  /\ \A u \in Listeners : Has(FreePort, u) /\ Has(FreeSniPort, u)
<1>1. /\ FreeDomains \in Seq(Steps) /\ FreePort \in Seq(Steps) /\ FreeSniPort \in Seq(Steps)
  BY DEF FreeDomains, FreePort, FreeSniPort, Steps, Tables, Sites, Listeners
<1>2. /\ Checks(FreeDomains) /\ Checks(FreePort) /\ Checks(FreeSniPort)
  BY DEF FreeDomains, FreePort, FreeSniPort, Checks, Has
<1>3. /\ \A u \in Sites : Has(FreeDomains, u)
      /\ \A u \in Listeners : Has(FreePort, u) /\ Has(FreeSniPort, u)
  BY DEF FreeDomains, FreePort, FreeSniPort, Has, Sites, Listeners
<1> QED BY <1>1, <1>2, <1>3

LEMMA CheckPieces ==
  /\ <<"exists">> \in Seq(Steps) /\ <<"cert", "list">> \in Seq(Steps) /\ <<"cert">> \in Seq(Steps)
  /\ Checks(<<>>) /\ Checks(<<"exists">>) /\ Checks(<<"cert", "list">>) /\ Checks(<<"cert">>)
BY DEF Checks, Has, Steps

LEMMA WritePieces ==
  /\ <<"write">> \in Seq(Steps) /\ <<"issue">> \in Seq(Steps)
  /\ <<"cert", "write">> \in Seq(Steps) /\ <<"hash", "write">> \in Seq(Steps)
  /\ Ordered(<<"write">>) /\ Ordered(<<"cert", "write">>) /\ Ordered(<<"issue", "write">>)
  /\ \A s : Has(<<"write">>, s) => s = "write"
  /\ \A s : Has(<<"issue">>, s) => s = "issue"
  /\ \A s : Has(<<"cert", "write">>, s) => s \in {"cert", "write"}
BY DEF Ordered, Has, Steps

\* The tables a row of table t is checked against.
Rivals(t) == IF t \in Sites THEN Sites ELSE Listeners

LEMMA FreeOf ==
  ASSUME NEW t \in Tables
  PROVE  /\ FreeIn(t) \in Seq(Steps) /\ Checks(FreeIn(t))
         /\ \A u \in Rivals(t) : Has(FreeIn(t), u)
<1>1. CASE t \in Sites
  <2>1. FreeIn(t) = FreeDomains /\ Rivals(t) = Sites
    BY <1>1 DEF FreeIn, Rivals, Sites
  <2> QED BY <2>1, FreePieces, Zenon
<1>2. CASE t = "stream"
  <2>1. FreeIn(t) = FreePort /\ Rivals(t) = Listeners
    BY <1>2 DEF FreeIn, Rivals, Sites
  <2> QED BY <2>1, FreePieces, Zenon
<1>3. CASE t = "sni"
  <2>1. FreeIn(t) = FreeSniPort /\ Rivals(t) = Listeners
    BY <1>3 DEF FreeIn, Rivals, Sites
  <2> QED BY <2>1, FreePieces, Zenon
<1> QED BY <1>1, <1>2, <1>3 DEF Tables, Listeners

\* A prefix of checks, the tables if need be, more checks, and the end of the plan.
LEMMA Assembled ==
  ASSUME NEW a \in Seq(Steps), NEW b \in Seq(Steps), NEW c \in Seq(Steps),
         Checks(a), Checks(b), Ordered(c), NEW p, p = a \o b \o c
  PROVE  /\ p \in Seq(Steps) /\ Ordered(p)
         /\ \A s : Has(p, s) <=> Has(a, s) \/ Has(b, s) \/ Has(c, s)
<1>1. a \o b \in Seq(Steps) /\ \A s : Has(a \o b, s) <=> Has(a, s) \/ Has(b, s)
  BY HasConcat
<1>2. ~Has(a \o b, "write") /\ ~Has(a \o b, "issue")
  BY <1>1 DEF Checks
<1>3. (a \o b) \o c \in Seq(Steps) /\ Ordered((a \o b) \o c)
  BY <1>1, <1>2, HasConcat, OrderedConcat
<1>4. \A s : Has((a \o b) \o c, s) <=> Has(a \o b, s) \/ Has(c, s)
  BY <1>1, HasConcat
<1> QED BY <1>1, <1>3, <1>4

\* What the handlers need of their plans.
PlanOK(p, kind, t, enabled) ==
    /\ p \in Seq(Steps) /\ Ordered(p)
    /\ Has(p, "issue") => kind \in {"create", "update"}
    /\ Has(p, "hash") <=> kind = "relist"
    /\ Has(p, "read") <=> kind = "enable"
    /\ ~Has(p, "discard")
    /\ (kind \in {"create", "update"} /\ enabled) \/ kind = "enable" =>
          \A u \in Rivals(t) : Has(p, u)
    /\ kind = "unlist" => Has(p, "proxy")

LEMMA WhenChecks ==
  ASSUME NEW a \in Seq(Steps), Checks(a), NEW cond
  PROVE  /\ When(cond, a) \in Seq(Steps) /\ Checks(When(cond, a))
         /\ cond => \A s : Has(a, s) => Has(When(cond, a), s)
BY Pieces, CheckPieces DEF When

\* A plan to write a row: the tables it is checked against, with other calls around them.
LEMMA Around ==
  ASSUME NEW kind \in {"create", "update"}, NEW t, NEW enabled,
         NEW p \in Seq(Steps), Ordered(p), NEW f, Checks(f),
         enabled => \A u \in Rivals(t) : Has(f, u),
         \A s : Has(f, s) => Has(p, s),
         \A s : Has(p, s) => Has(f, s) \/ s \in {"exists", "cert", "list", "issue", "write"}
  PROVE  PlanOK(p, kind, t, enabled)
<1>1. ~Has(p, "hash") /\ ~Has(p, "read") /\ ~Has(p, "discard")
  BY DEF Checks
<1>2. enabled => \A u \in Rivals(t) : Has(p, u)
  BY Zenon
<1> QED BY <1>1, <1>2 DEF PlanOK

LEMMA Joined ==
  <<"issue">> \o <<"write">> = <<"issue", "write">> /\ <<>> \o <<"write">> = <<"write">>
<1>1. \A b \in Seq(Steps) : <<>> \o b = b
  OBVIOUS
<1>2. ASSUME NEW x \in Steps, NEW y \in Steps
      PROVE  <<x>> \o <<y>> = <<x, y>>
  <2> DEFINE p == <<x>> \o <<y>>
  <2>1. p \in Seq(Steps) /\ Len(p) = 2 /\ p[1] = x /\ p[2] = y
    OBVIOUS
  <2> HIDE DEF p
  <2>2. p = <<x, y>>
    BY <2>1
  <2> QED BY <2>2 DEF p
<1>3. "issue" \in Steps /\ "write" \in Steps
  BY Zenon DEF Steps
<1> QED BY <1>1, <1>2, <1>3, WritePieces

LEMMA WritePlanOK ==
  ASSUME NEW kind \in {"create", "update"}, NEW t \in Tables, NEW row, NEW new
  PROVE  PlanOK(WritePlan(kind, t, row, new), kind, t, row.enabled)
<1> DEFINE free == When(row.enabled, FreeIn(t))
<1>1. /\ free \in Seq(Steps) /\ Checks(free)
      /\ row.enabled => \A u \in Rivals(t) : Has(free, u)
  BY WhenChecks, FreeOf
<1>2. CASE t = "proxy"
  <2> DEFINE a == When(kind = "update", <<"exists">>)
             b == free \o <<"cert", "list">>
             issue == When(new, <<"issue">>)
             c == issue \o <<"write">>
  <2>1. a \in Seq(Steps) /\ Checks(a) /\ \A s : Has(a, s) => s = "exists"
    <3>1. a = <<"exists">> \/ a = <<>>
      BY DEF When
    <3>2. \A s : Has(<<"exists">>, s) => s = "exists"
      BY DEF Has
    <3> HIDE DEF a
    <3> QED BY <3>1, <3>2, CheckPieces, Pieces
  <2>2. /\ b \in Seq(Steps) /\ Checks(b)
        /\ row.enabled => \A u \in Rivals(t) : Has(b, u)
    BY <1>1, CheckPieces, HasConcat DEF Checks
  <2>3. /\ issue \in Seq(Steps) /\ c \in Seq(Steps) /\ Ordered(c)
        /\ \A s : Has(c, s) => s \in {"issue", "write"}
    <3>1. issue = <<"issue">> \/ issue = <<>>
      BY DEF When
    <3>2. <<"issue">> \o <<"write">> = <<"issue", "write">> /\ <<>> \o <<"write">> = <<"write">>
      BY Joined
    <3>3. /\ <<"issue", "write">> \in Seq(Steps)
          /\ \A s : Has(<<"issue", "write">>, s) => s \in {"issue", "write"}
      BY DEF Has, Steps
    <3> HIDE DEF issue
    <3>4. c = <<"issue", "write">> \/ c = <<"write">>
      BY <3>1, <3>2, Zenon
    <3>5. issue \in Seq(Steps)
      BY <3>1, WritePieces, Pieces
    <3> HIDE DEF c
    <3>6. CASE c = <<"issue", "write">>
      BY <3>3, <3>5, <3>6, WritePieces
    <3>7. CASE c = <<"write">>
      BY <3>5, <3>7, WritePieces
    <3> QED BY <3>4, <3>6, <3>7
  <2>4. WritePlan(kind, t, row, new) = a \o b \o c
    <3>1. FreeIn(t) = FreeDomains
      BY <1>2 DEF FreeIn, Sites
    <3>2. WritePlan(kind, t, row, new) = ProxyPlan(kind, row, new)
      BY <1>2 DEF WritePlan
    <3>3. ASSUME NEW w \in Seq(Steps), NEW x \in Seq(Steps), NEW y \in Seq(Steps),
                 NEW u \in Seq(Steps), NEW v \in Seq(Steps)
          PROVE  (((w \o x) \o y) \o u) \o v = (w \o (x \o y)) \o (u \o v)
      BY SMTT(30)
    <3> HIDE DEF free
    <3>4. ProxyPlan(kind, row, new) = (((a \o free) \o <<"cert", "list">>) \o issue) \o <<"write">>
      BY <3>1, Zenon DEF ProxyPlan, free
    <3> HIDE DEF a, issue
    <3>5. (((a \o free) \o <<"cert", "list">>) \o issue) \o <<"write">>
            = (a \o (free \o <<"cert", "list">>)) \o (issue \o <<"write">>)
      BY <3>3, <1>1, <2>1, <2>3, CheckPieces, WritePieces, SMTT(30)
    <3> QED BY <3>2, <3>4, <3>5, Zenon
  <2> HIDE DEF a, b, c
  <2> DEFINE p == a \o b \o c
  <2>7. p = a \o b \o c
    OBVIOUS
  <2> HIDE DEF p
  <2>5. p \in Seq(Steps) /\ Ordered(p) /\ \A s : Has(p, s) <=> Has(a, s) \/ Has(b, s) \/ Has(c, s)
    <3>1. a \in Seq(Steps) /\ b \in Seq(Steps) /\ c \in Seq(Steps)
      BY <2>1, <2>2, <2>3, Zenon
    <3>2. Checks(a) /\ Checks(b) /\ Ordered(c)
      BY <2>1, <2>2, <2>3, Zenon
    <3> QED BY <3>1, <3>2, <2>7, Assembled
  <2>6. PlanOK(p, kind, t, row.enabled)
    BY <2>1, <2>2, <2>3, <2>5, Around
  <2> QED BY <2>4, <2>6 DEF p
<1>3. CASE t \in {"redirect", "dead"}
  <2>1. FreeIn(t) = FreeDomains
    BY <1>3 DEF FreeIn, Sites
  <2>2. WritePlan(kind, t, row, new) = free \o <<"cert", "write">>
    BY <1>3, <2>1 DEF WritePlan, RedirectPlan, DeadPlan
  <2> HIDE DEF free
  <2> DEFINE p == free \o <<"cert", "write">>
  <2>3. /\ p \in Seq(Steps) /\ Ordered(p)
        /\ \A s : Has(p, s) <=> Has(free, s) \/ Has(<<"cert", "write">>, s)
    BY <1>1, HasConcat, OrderedConcat, WritePieces DEF Checks
  <2> HIDE DEF p
  <2>4. PlanOK(p, kind, t, row.enabled)
    BY <1>1, <2>3, WritePieces, Around
  <2> QED BY <2>2, <2>4 DEF p
<1>4. CASE t = "stream"
  <2>1. FreeIn(t) = FreePort
    BY <1>4 DEF FreeIn, Sites
  <2>2. WritePlan(kind, t, row, new) = <<"cert">> \o free \o <<"write">>
    BY <1>4, <2>1 DEF WritePlan, StreamPlan
  <2> HIDE DEF free
  <2> DEFINE p == <<"cert">> \o free \o <<"write">>
  <2>3. /\ p \in Seq(Steps) /\ Ordered(p)
        /\ \A s : Has(p, s) <=> Has(<<"cert">>, s) \/ Has(free, s) \/ Has(<<"write">>, s)
    <3> DEFINE a == <<"cert">>
               c == <<"write">>
    <3>1. a \in Seq(Steps) /\ Checks(a) /\ c \in Seq(Steps) /\ Ordered(c)
      BY CheckPieces, WritePieces
    <3>2. p = a \o free \o c
      OBVIOUS
    <3> HIDE DEF a, c, p
    <3>3. /\ p \in Seq(Steps) /\ Ordered(p)
          /\ \A s : Has(p, s) <=> Has(a, s) \/ Has(free, s) \/ Has(c, s)
      BY <1>1, <3>1, <3>2, Assembled
    <3> QED BY <3>3 DEF a, c
  <2>4. \A s : Has(<<"cert">>, s) => s = "cert"
    BY DEF Has
  <2> HIDE DEF p
  <2>5. PlanOK(p, kind, t, row.enabled)
    BY <1>1, <2>3, <2>4, WritePieces, Around
  <2> QED BY <2>2, <2>5 DEF p
<1>5. CASE t = "sni"
  <2>1. FreeIn(t) = FreeSniPort
    BY <1>5 DEF FreeIn, Sites
  <2>2. WritePlan(kind, t, row, new) = free \o <<"write">>
    BY <1>5, <2>1 DEF WritePlan, SniPlan
  <2> HIDE DEF free
  <2> DEFINE p == free \o <<"write">>
  <2>3. /\ p \in Seq(Steps) /\ Ordered(p)
        /\ \A s : Has(p, s) <=> Has(free, s) \/ Has(<<"write">>, s)
    BY <1>1, HasConcat, OrderedConcat, WritePieces DEF Checks
  <2> HIDE DEF p
  <2>4. PlanOK(p, kind, t, row.enabled)
    BY <1>1, <2>3, WritePieces, Around
  <2> QED BY <2>2, <2>4 DEF p
<1> QED BY <1>2, <1>3, <1>4, <1>5 DEF Tables, Sites, Listeners

LEMMA PlanIsOK ==
  ASSUME NEW kind \in Kinds, NEW t, kind \in {"create", "update", "enable"} => t \in Tables,
         NEW row, NEW new
  PROVE  PlanOK(Plan(kind, t, row, new), kind, t, row.enabled)
<1>1. CASE kind \in {"create", "update"}
  BY <1>1, WritePlanOK DEF Plan
<1>2. CASE kind = "enable"
  <2>1. Plan(kind, t, row, new) = <<"read">> \o FreeIn(t) \o <<"write">>
    BY <1>2 DEF Plan, EnablePlan
  <2>2. <<"read">> \in Seq(Steps) /\ \A s : Has(<<"read">>, s) <=> s = "read"
    BY DEF Has, Steps
  <2>3. FreeIn(t) \o <<"write">> \in Seq(Steps) /\ Ordered(FreeIn(t) \o <<"write">>)
    BY <1>2, FreeOf, HasConcat, OrderedConcat, WritePieces DEF Checks
  <2>4. <<"read">> \o FreeIn(t) \o <<"write">> = <<"read">> \o (FreeIn(t) \o <<"write">>)
    BY <1>2, <2>2, FreeOf, WritePieces
  <2>5. \A s : Has(FreeIn(t) \o <<"write">>, s) <=> Has(FreeIn(t), s) \/ Has(<<"write">>, s)
    BY <1>2, FreeOf, HasConcat, WritePieces
  <2> DEFINE rest == FreeIn(t) \o <<"write">>
  <2>8. \A s : Has(<<"read">> \o rest, s) <=> Has(<<"read">>, s) \/ Has(rest, s)
    BY <2>2, <2>3, HasConcat
  <2>6. \A s : Has(Plan(kind, t, row, new), s)
               <=> Has(<<"read">>, s) \/ Has(FreeIn(t), s) \/ Has(<<"write">>, s)
    BY <2>1, <2>4, <2>5, <2>8, Zenon
  <2>7. Plan(kind, t, row, new) \in Seq(Steps) /\ Ordered(Plan(kind, t, row, new))
    BY <2>1, <2>2, <2>3, <2>4, HasConcat, OrderedConcat
  <2> QED BY <1>2, <2>2, <2>6, <2>7, FreeOf, WritePieces DEF PlanOK, Checks
<1>3. CASE kind \in {"uncert", "relist", "unlist"}
  <2>1. Plan(kind, t, row, new) =
          CASE kind = "uncert" -> <<"proxy", "redirect", "dead", "stream", "write">>
            [] kind = "relist" -> <<"exists", "hash", "write">>
            [] kind = "unlist" -> <<"proxy", "write">>
    BY <1>3 DEF Plan, UncertPlan, RelistPlan, UnlistPlan
  <2> DEFINE p == Plan(kind, t, row, new)
  <2>2. CASE kind = "uncert"
    <3>1. p = <<"proxy", "redirect", "dead", "stream", "write">>
      BY <2>1, <2>2
    <3> HIDE DEF p
    <3>2. p \in Seq(Steps) /\ Ordered(p)
      BY <3>1 DEF Ordered, Steps, Tables, Sites, Listeners
    <3>3. \A s : Has(p, s) => s \notin {"issue", "hash", "read", "discard"}
      BY <3>1 DEF Has
    <3>4. PlanOK(p, kind, t, row.enabled)
      BY <2>2, <3>2, <3>3 DEF PlanOK
    <3> QED BY <3>4 DEF p
  <2>3. CASE kind = "relist"
    <3>1. p = <<"exists", "hash", "write">>
      BY <2>1, <2>3
    <3> HIDE DEF p
    <3>2. p \in Seq(Steps) /\ Ordered(p)
      BY <3>1 DEF Ordered, Steps
    <3>3. Has(p, "hash") /\ \A s : Has(p, s) => s \notin {"issue", "read", "discard"}
      BY <3>1 DEF Has
    <3>4. PlanOK(p, kind, t, row.enabled)
      BY <2>3, <3>2, <3>3 DEF PlanOK
    <3> QED BY <3>4 DEF p
  <2>4. CASE kind = "unlist"
    <3>1. p = <<"proxy", "write">>
      BY <2>1, <2>4
    <3> HIDE DEF p
    <3>2. p \in Seq(Steps) /\ Ordered(p)
      BY <3>1 DEF Ordered, Steps, Tables, Sites
    <3>3. Has(p, "proxy") /\ \A s : Has(p, s) => s \notin {"issue", "hash", "read", "discard"}
      BY <3>1 DEF Has
    <3>4. PlanOK(p, kind, t, row.enabled)
      BY <2>4, <3>2, <3>3 DEF PlanOK
    <3> QED BY <3>4 DEF p
  <2> QED BY <1>3, <2>2, <2>3, <2>4
<1>4. CASE kind \notin {"create", "update", "enable", "uncert", "relist", "unlist"}
  <2>1. Plan(kind, t, row, new) = <<"write">>
    BY <1>4 DEF Plan
  <2> DEFINE p == Plan(kind, t, row, new)
  <2>2. p \in Seq(Steps) /\ Ordered(p) /\ \A s : Has(p, s) => s = "write"
    BY <2>1, WritePieces
  <2> HIDE DEF p
  <2>3. PlanOK(p, kind, t, row.enabled)
    BY <1>4, <2>2 DEF PlanOK
  <2> QED BY <2>3 DEF p
<1> QED BY <1>1, <1>2, <1>3, <1>4

(* ------------------------------ invariants ------------------------------- *)

\* What the kind of a request and the calls it has still to make say it holds.
Filled(q) ==
    /\ Ordered(q.todo)
    /\ q.kind \in {"create", "update", "enable"} => q.key[1] \in Tables
    /\ q.kind \in {"create", "update"} => RowOK(q.key[1], q.row) /\ q.row.asked = q.row.list
    /\ q.kind = "create" => q.key[2] = None
    /\ q.kind = "newlist" => q.password \in Passwords
    /\ q.kind = "relist" => Has(q.todo, "hash") \/ q.password \in Passwords
    /\ Has(q.todo, "hash") => q.kind = "relist"
    /\ Has(q.todo, "read") => q.kind = "enable"
    /\ Has(q.todo, "issue") => q.kind \in {"create", "update"} /\ q.created = None
    /\ q.created # None => q.kind \in {"create", "update"}
    /\ q.kind = "import" => ~q.new

Typed == TypeOK /\ \A r \in Requests : Filled(reqs[r])

\* Of the requests of these kinds there is one at a time.
Alone(kinds) == \A x, y \in Requests : reqs[x].kind \in kinds /\ reqs[y].kind \in kinds => x = y

\* No two rows of rs have a name in common; a row of table t of rs has one of the names.
Unique(rs) ==
    \A j, k \in DOMAIN rs :
        j # k /\ rs[j].enabled /\ rs[k].enabled => rs[j].claims \cap rs[k].claims = {}
Clashes(rs, t, key, claims) ==
    \E k \in DOMAIN rs : /\ k[1] = t /\ k # key
                         /\ rs[k].enabled /\ rs[k].claims \cap claims # {}

\* The tables that q is not to read any more have no row that clashes with the row it is to
\* enable, and the names of that row are still those it read.
Cleared(rs, q) == \A t \in Rivals(q.key[1]) : Has(q.todo, t) \/ ~Clashes(rs, t, q.key, q.row.claims)
Claimed(rs, q) ==
    /\ q.kind \in {"create", "update"} /\ q.row.enabled /\ Has(q.todo, "write") => Cleared(rs, q)
    /\ q.kind = "enable" /\ Has(q.todo, "read") => q.todo = EnablePlan(q.key[1])
    /\ q.kind = "enable" /\ ~Has(q.todo, "read") =>
          Cleared(rs, q) /\ (q.key \in DOMAIN rs => rs[q.key].claims = q.row.claims)

Claimers == {"create", "update", "enable", "import"}
ClaimInv == UniqueClaims /\ \A r \in Requests : Claimed(rows, reqs[r])

\* A certificate that was issued for a host is its request's, and in no row yet.
Issuers == {"create", "update"}
CertInv ==
    \A i \in DOMAIN certs : certs[i] # None => reqs[certs[i]].created = i /\ ~InUse(i)

\* No host has the list that is going.
Listers == {"create", "update", "import", "unlist"}
Unlisted(rs, q) ==
    q.kind = "unlist" =>
        Has(q.todo, "proxy") \/ \A k \in DOMAIN rs : k[1] = "proxy" => rs[k].list # q.key[2]
ListInv == AccessKept /\ \A r \in Requests : Unlisted(rows, reqs[r])

\* A hash that was read is still the one that is stored.
Hashers == {"relist", "import", "unlist"}
Current(ls, q) == q.kind = "relist" /\ q.new => q.key[2] \in DOMAIN ls /\ ls[q.key[2]] = q.password
HashInv == \A r \in Requests : Current(lists, reqs[r])

(* -------------------------------- types ---------------------------------- *)

RowsOK(rs, cs, ls) ==
    /\ DOMAIN rs \subseteq Keys
    /\ \A k \in DOMAIN rs : /\ RowOK(k[1], rs[k])
                            /\ rs[k].cert \in cs \cup {None} /\ rs[k].list \in ls \cup {None}
CertsOK(cs) == DOMAIN cs \subseteq 1..MaxCerts /\ \A i \in DOMAIN cs : cs[i] \in Requests \cup {None}
ListsOK(ls) == DOMAIN ls \subseteq 1..MaxLists /\ \A i \in DOMAIN ls : ls[i] \in Passwords

LEMMA TypedParts ==
  Typed <=> /\ RowsOK(rows, DOMAIN certs, DOMAIN lists) /\ CertsOK(certs) /\ ListsOK(lists)
            /\ reqs \in [Requests -> Request] /\ \A r \in Requests : Filled(reqs[r])
BY DEF Typed, TypeOK, RowsOK, CertsOK, ListsOK

LEMMA TypedPartsNext ==
  Typed' <=> /\ RowsOK(rows', DOMAIN certs', DOMAIN lists') /\ CertsOK(certs') /\ ListsOK(lists')
             /\ reqs' \in [Requests -> Request] /\ \A r \in Requests : Filled(reqs'[r])
BY DEF Typed, TypeOK, RowsOK, CertsOK, ListsOK

LEMMA Stored ==
  ASSUME NEW table, NEW key, NEW row
  PROVE  /\ DOMAIN Insert(table, key, row) = DOMAIN table \cup {key}
         /\ Insert(table, key, row)[key] = row
         /\ \A x \in DOMAIN table : x # key => Insert(table, key, row)[x] = table[x]
         /\ DOMAIN Without(table, key) = DOMAIN table \ {key}
         /\ \A x \in DOMAIN table \ {key} : Without(table, key)[x] = table[x]
BY DEF Insert, Without

LEMMA IdleIsRequest ==
  /\ Idle \in Request /\ Filled(Idle) /\ Idle.kind = "none" /\ Idle.todo = <<>>
  /\ Idle.created = None /\ ~Idle.new
<1>1. /\ Idle.kind = "none" /\ Idle.todo = <<>> /\ Idle.created = None /\ Idle.new = FALSE
      /\ Idle.key = <<"none", None>>
  BY Zenon DEF Idle
<1>2. Filled(Idle)
  BY <1>1, Pieces DEF Filled
<1>3. None \in 0..MaxCerts /\ None \in Nat
  BY RegistryAssumption DEF None
<1>4. ASSUME NEW kinds, NEW keys, NEW theRows, NEW words, NEW todos,
             NEW kind \in kinds, NEW key \in keys, NEW row \in theRows, NEW new \in BOOLEAN,
             NEW word \in words, NEW c \in 0..MaxCerts, NEW todo \in todos
      PROVE  [kind |-> kind, key |-> key, row |-> row, new |-> new, password |-> word,
              created |-> c, todo |-> todo]
             \in [kind: kinds, key: keys, row: theRows, new: BOOLEAN, password: words,
                  created: 0..MaxCerts, todo: todos]
  OBVIOUS
<1>5. /\ "none" \in Kinds \cup {"none"}
      /\ <<"none", None>> \in (Tables \cup {"none", "cert", "list", "import"}) \X Nat
      /\ NoRow \in Row \cup {NoRow} /\ Keep \in Passwords \cup {Keep} /\ <<>> \in Seq(Steps)
  BY <1>3, Pieces
<1>6. Idle \in Request
  BY <1>3, <1>4, <1>5, Zenon DEF Idle, Request
<1> QED BY <1>1, <1>2, <1>6

LEMMA RequestFields ==
  ASSUME NEW q \in Request
  PROVE  /\ q.kind \in Kinds \cup {"none"} /\ q.row \in Row \cup {NoRow} /\ q.new \in BOOLEAN
         /\ q.password \in Passwords \cup {Keep} /\ q.created \in 0..MaxCerts
         /\ q.todo \in Seq(Steps)
         /\ q.key \in (Tables \cup {"none", "cert", "list", "import"}) \X Nat
BY DEF Request

\* A request that has made its first call and goes on.
LEMMA TailKeeps ==
  ASSUME NEW q \in Request, Filled(q), q.todo # <<>>,
         Head(q.todo) = "hash" => q.password \in Passwords,
         NEW n, n = [q EXCEPT !.todo = Tail(@)]
  PROVE  /\ n \in Request /\ Filled(n)
         /\ n.kind = q.kind /\ n.key = q.key /\ n.row = q.row /\ n.new = q.new
         /\ n.password = q.password /\ n.created = q.created /\ n.todo = Tail(q.todo)
<1>1. q.todo \in Seq(Steps)
  BY RequestFields
<1>2. /\ Tail(q.todo) \in Seq(Steps)
      /\ \A s : Has(q.todo, s) <=> Head(q.todo) = s \/ Has(Tail(q.todo), s)
      /\ Ordered(q.todo) => Ordered(Tail(q.todo))
  BY <1>1, HasTail
<1>3. n \in Request
  BY <1>2 DEF Request
<1>4. /\ n.kind = q.kind /\ n.key = q.key /\ n.row = q.row /\ n.new = q.new
      /\ n.password = q.password /\ n.created = q.created /\ n.todo = Tail(q.todo)
  BY DEF Request
<1>5. Filled(n)
  BY <1>2, <1>4, Zenon DEF Filled
<1> QED BY <1>3, <1>4, <1>5

\* A request that has a certificate to take back.
LEMMA DiscardKeeps ==
  ASSUME NEW q \in Request, Filled(q), q.created # None,
         NEW n, n = [q EXCEPT !.todo = <<"discard">>]
  PROVE  n \in Request /\ Filled(n) /\ n.kind = q.kind /\ n.created = q.created
         /\ n.todo = <<"discard">> /\ n.key = q.key /\ n.row = q.row
<1>1. n \in Request
  BY Pieces DEF Request
<1>2. /\ n.kind = q.kind /\ n.key = q.key /\ n.row = q.row /\ n.new = q.new
      /\ n.password = q.password /\ n.created = q.created /\ n.todo = <<"discard">>
  BY DEF Request
<1>3. q.kind \in {"create", "update"}
  BY Zenon DEF Filled
<1>4. Ordered(n.todo) /\ ~Has(n.todo, "hash") /\ ~Has(n.todo, "issue") /\ ~Has(n.todo, "read")
  BY <1>2, Pieces
<1>5. Filled(n)
  BY <1>2, <1>3, <1>4 DEF Filled
<1> QED BY <1>1, <1>2, <1>5

(* ------------------------------- framing --------------------------------- *)

LEMMA ReadKeeps ==
  ASSUME Typed, NEW r \in Requests, NEW q \in Request, Filled(q), Becomes(r, q)
  PROVE  Typed'
BY TypedParts, TypedPartsNext DEF Becomes

\* What a refused request becomes.
Ending(q) == IF q.created = None THEN Idle ELSE [q EXCEPT !.todo = <<"discard">>]

LEMMA EndingKeeps ==
  ASSUME NEW q \in Request, Filled(q)
  PROVE  /\ Ending(q) \in Request /\ Filled(Ending(q)) /\ Ending(q).created = q.created
         /\ Ending(q) = Idle
            \/ /\ Ending(q).kind = q.kind /\ Ending(q).key = q.key /\ Ending(q).row = q.row
               /\ Ending(q).todo = <<"discard">> /\ q.kind \in {"create", "update"}
<1>1. CASE q.created = None
  BY <1>1, IdleIsRequest DEF Ending
<1>2. CASE q.created # None
  <2>1. Ending(q) = [q EXCEPT !.todo = <<"discard">>]
    BY <1>2 DEF Ending
  <2>2. q.kind \in {"create", "update"}
    BY <1>2, Zenon DEF Filled
  <2> QED BY <1>2, <2>1, <2>2, DiscardKeeps
<1> QED BY <1>1, <1>2

LEMMA RefusedKeeps ==
  ASSUME Typed, NEW r \in Requests, Refused(r)
  PROVE  Typed'
<1>1. reqs[r] \in Request /\ Filled(reqs[r])
  BY TypedParts
<1>2. Becomes(r, Ending(reqs[r]))
  BY DEF Refused, Ending
<1> QED BY <1>1, <1>2, EndingKeeps, ReadKeeps

LEMMA GoesKeeps ==
  ASSUME Typed, NEW r \in Requests, NEW q \in Request, Filled(q), q.todo # <<>>,
         Head(q.todo) = "hash" => q.password \in Passwords, Goes(r, q)
  PROVE  Typed'
<1> DEFINE n == [q EXCEPT !.todo = Tail(@)]
<1>1. n \in Request /\ Filled(n)
  BY TailKeeps
<1>2. Becomes(r, n)
  BY DEF Goes
<1> QED BY <1>1, <1>2, ReadKeeps

LEMMA PassesKeeps ==
  ASSUME Typed, NEW r \in Requests, NEW cond, Passes(r, cond), reqs[r].todo # <<>>,
         Head(reqs[r].todo) # "hash"
  PROVE  Typed'
<1>1. reqs[r] \in Request /\ Filled(reqs[r])
  BY TypedParts
<1>2. Goes(r, reqs[r]) \/ Refused(r)
  BY DEF Passes
<1> QED BY <1>1, <1>2, GoesKeeps, RefusedKeeps

LEMMA DoneKeeps ==
  ASSUME Typed, NEW r \in Requests, NEW rs, NEW cs, NEW ls,
         RowsOK(rs, DOMAIN cs, DOMAIN ls), CertsOK(cs), ListsOK(ls), Done(r, rs, cs, ls)
  PROVE  Typed'
<1>1. reqs' = [reqs EXCEPT ![r] = Idle] /\ rows' = rs /\ certs' = Forgets(r, cs) /\ lists' = ls
  BY DEF Done, Answer
<1>2. DOMAIN certs' = DOMAIN cs /\ CertsOK(certs')
  BY <1>1 DEF Forgets, CertsOK
<1>3. reqs' \in [Requests -> Request] /\ \A x \in Requests : Filled(reqs'[x])
  BY <1>1, IdleIsRequest, TypedParts
<1> QED BY <1>1, <1>2, <1>3, TypedPartsNext

(* ------------------------------- the steps ------------------------------- *)

LEMMA TypedInit == Init => Typed
<1> SUFFICES ASSUME Init PROVE Typed
  OBVIOUS
<1>1. DOMAIN rows = {} /\ DOMAIN certs = {} /\ DOMAIN lists = {}
  BY DEF Init, Empty
<1>2. reqs \in [Requests -> Request] /\ \A r \in Requests : Filled(reqs[r])
  BY IdleIsRequest DEF Init
<1> QED BY <1>1, <1>2, TypedParts DEF RowsOK, CertsOK, ListsOK

LEMMA AskFields ==
  ASSUME NEW kind \in Kinds, NEW key \in (Tables \cup {"none", "cert", "list", "import"}) \X Nat,
         NEW row \in Row \cup {NoRow}, NEW new \in BOOLEAN,
         NEW password \in Passwords \cup {Keep},
         kind \in {"create", "update", "enable"} => key[1] \in Tables,
         NEW q, q = Ask(kind, key, row, new, password)
  PROVE  /\ q \in Request /\ q.kind = kind /\ q.key = key /\ q.row = row /\ q.new = new
         /\ q.password = password /\ q.created = None
         /\ q.todo = Plan(kind, key[1], row, new)
         /\ PlanOK(q.todo, kind, key[1], row.enabled)
<1> DEFINE todo == Plan(kind, key[1], row, new)
<1>1. PlanOK(todo, kind, key[1], row.enabled)
  BY PlanIsOK
<1>2. todo \in Seq(Steps)
  BY <1>1 DEF PlanOK
<1>3. q = [Idle EXCEPT !.kind = kind, !.key = key, !.row = row, !.new = new,
                       !.password = password, !.todo = todo]
  BY Zenon DEF Ask
<1> HIDE DEF todo
<1>4. Idle \in Request /\ Idle.created = None
  BY IdleIsRequest
<1>5. q \in Request /\ q.kind = kind /\ q.key = key /\ q.row = row
      /\ q.password = password /\ q.created = None /\ q.todo = todo
  <2>1. ASSUME NEW idle \in Request, idle.created = None,
               q = [idle EXCEPT !.kind = kind, !.key = key, !.row = row, !.new = new,
                                !.password = password, !.todo = todo]
        PROVE  q \in Request /\ q.kind = kind /\ q.key = key /\ q.row = row
               /\ q.password = password /\ q.created = None /\ q.todo = todo
    BY <1>2, <2>1, ZenonT(60) DEF Request
  <2> QED BY <1>3, <1>4, <2>1, Zenon
<1>6. q.new = new
  <2>1. ASSUME NEW idle \in Request,
               q = [idle EXCEPT !.kind = kind, !.key = key, !.row = row, !.new = new,
                                !.password = password, !.todo = todo]
        PROVE  q.new = new
    BY <2>1, Zenon DEF Request
  <2> QED BY <1>3, <1>4, <2>1
<1> QED BY <1>1, <1>5, <1>6 DEF todo

\* What a request that arrives is like.
Asked(q) ==
    /\ q \in Request /\ Filled(q) /\ q.created = None /\ q.kind \in Kinds
    /\ q.kind \in {"create", "update"} /\ q.row.enabled =>
          \A t \in Rivals(q.key[1]) : Has(q.todo, t)
    /\ q.kind = "enable" => Has(q.todo, "read") /\ q.todo = EnablePlan(q.key[1])
    /\ q.kind = "unlist" => Has(q.todo, "proxy")
    /\ q.kind = "relist" => ~q.new

LEMMA AskIsAsked ==
  ASSUME NEW kind \in Kinds, NEW key \in (Tables \cup {"none", "cert", "list", "import"}) \X Nat,
         NEW row \in Row \cup {NoRow}, NEW new \in BOOLEAN,
         NEW password \in Passwords \cup {Keep},
         kind \in {"create", "update", "enable"} => key[1] \in Tables,
         kind \in {"create", "update"} => RowOK(key[1], row) /\ row.asked = row.list,
         new => kind \in {"create", "update"}, kind = "create" => key[2] = None,
         kind = "newlist" => password \in Passwords
  PROVE  Asked(Ask(kind, key, row, new, password))
<1> DEFINE q == Ask(kind, key, row, new, password)
<1>1. /\ q \in Request /\ q.kind = kind /\ q.key = key /\ q.row = row /\ q.new = new
      /\ q.password = password /\ q.created = None
      /\ q.todo = Plan(kind, key[1], row, new)
      /\ PlanOK(q.todo, kind, key[1], row.enabled)
  BY AskFields
<1> HIDE DEF q
<1>2. kind \in {"import", "relist"} => ~q.new
  BY <1>1, Zenon
<1>3. /\ Ordered(q.todo) /\ (Has(q.todo, "issue") => kind \in {"create", "update"})
      /\ (Has(q.todo, "hash") <=> kind = "relist") /\ (Has(q.todo, "read") => kind = "enable")
  BY <1>1, Zenon DEF PlanOK
<1>4. Filled(q)
  <2>1. kind = "import" => ~q.new
    BY <1>2
  <2>2. /\ kind \in {"create", "update", "enable"} => q.key[1] \in Tables
        /\ kind \in {"create", "update"} => RowOK(q.key[1], q.row) /\ q.row.asked = q.row.list
    BY <1>1, Zenon
  <2>3. /\ kind = "newlist" => q.password \in Passwords
        /\ kind = "create" => q.key[2] = None
    BY <1>1, Zenon
  <2> QED BY <1>1, <1>3, <2>1, <2>2, <2>3, Zenon DEF Filled
<1>5. /\ kind \in {"create", "update"} /\ row.enabled => \A t \in Rivals(key[1]) : Has(q.todo, t)
      /\ kind = "unlist" => Has(q.todo, "proxy")
      /\ kind = "enable" => Has(q.todo, "read")
  BY <1>1, Zenon DEF PlanOK
<1>8. kind = "enable" => q.todo = EnablePlan(key[1])
  BY <1>1, Zenon DEF Plan
<1>6. kind = "relist" => ~q.new
  BY <1>2
<1>7. Asked(q)
  BY <1>1, <1>4, <1>5, <1>6, <1>8, Zenon DEF Asked
<1> QED BY <1>7 DEF q

\* What a request that may be sent is put together from.
AskOK(kind, key, row, new, password) ==
    /\ kind \in Kinds /\ key \in (Tables \cup {"cert", "list", "import"}) \X Nat
    /\ row \in Row \cup {NoRow} /\ new \in BOOLEAN /\ password \in Passwords \cup {Keep}
    /\ kind \in {"create", "update", "enable"} => key[1] \in Tables
    /\ kind \in {"create", "update"} => RowOK(key[1], row) /\ row.asked = row.list
    /\ new => kind \in {"create", "update"} /\ key[1] = "proxy" /\ row.cert = None
    /\ kind = "create" => key[2] = None
    /\ kind = "newlist" => password \in Passwords
    /\ kind = "unlist" => key[2] # None

LEMMA AskForm ==
  ASSUME NEW q \in Asks
  PROVE  \E kind, key, row, new, password :
            AskOK(kind, key, row, new, password) /\ q = Ask(kind, key, row, new, password)
<1> DEFINE Formed == \E kind, key, row, new, password :
                        AskOK(kind, key, row, new, password) /\ q = Ask(kind, key, row, new, password)
           K == (Tables \cup {"cert", "list", "import"}) \X Nat
<1>0. SUFFICES Formed
  OBVIOUS
<1>1. /\ Keep \in Passwords \cup {Keep} /\ FALSE \in BOOLEAN /\ NoRow \in Row \cup {NoRow}
      /\ \A p \in Passwords : p \in Passwords \cup {Keep}
  BY Zenon
<1>2. /\ \A key \in Tables \X (0..MaxRows) : key \in K
      /\ \A key \in Keys : key \in K /\ key[1] \in Tables
      /\ \A i \in 1..MaxCerts : <<"cert", i>> \in K
      /\ \A i \in 1..MaxLists : <<"list", i>> \in K /\ <<"list", i>>[2] # None
      /\ \A t \in {"cert", "list", "import"} : <<t, None>> \in K
  BY RegistryAssumption DEF Keys, None
<1>3. CASE q \in Edits /\ (q.new => q.row.cert = None)
  <2>0. PICK key \in Tables \X (0..MaxRows) :
          q \in UNION {{Ask(IF key[2] = None THEN "create" ELSE "update", key, row, new, Keep) :
                           new \in {FALSE, key[1] = "proxy"}} : row \in RowsOf(key[1])}
    BY <1>3 DEF Edits
  <2>1. PICK row \in RowsOf(key[1]) :
          q \in {Ask(IF key[2] = None THEN "create" ELSE "update", key, row, new, Keep) :
                    new \in {FALSE, key[1] = "proxy"}}
    BY <2>0
  <2>2. PICK new \in {FALSE, key[1] = "proxy"} :
          q = Ask(IF key[2] = None THEN "create" ELSE "update", key, row, new, Keep)
    BY <2>1
  <2> DEFINE kind == IF key[2] = None THEN "create" ELSE "update"
  <2>3. kind \in {"create", "update"} /\ kind \in Kinds /\ (kind = "create" => key[2] = None)
    BY DEF Kinds
  <2>4. key[1] \in Tables /\ key \in K
    BY <1>2
  <2>5. RowOK(key[1], row) /\ row.asked = row.list /\ row \in Row \cup {NoRow}
    BY Zenon DEF RowsOf
  <2>8. q = Ask(kind, key, row, new, Keep)
    BY <2>2
  <2> HIDE DEF kind
  <2>6. kind \notin {"newlist", "unlist"} /\ new \in BOOLEAN
    BY <2>3
  <2>7. q.row = row /\ q.new = new
    BY <1>1, <2>3, <2>4, <2>5, <2>6, <2>8, AskFields
  <2>9. new => key[1] = "proxy" /\ row.cert = None
    <3>1. new => key[1] = "proxy"
      BY Zenon
    <3>2. new => row.cert = None
      BY <1>3, <2>7, Zenon
    <3> QED BY <3>1, <3>2, Zenon
  <2>10. AskOK(kind, key, row, new, Keep)
    BY <1>1, <2>3, <2>4, <2>5, <2>6, <2>9, Zenon DEF AskOK
  <2> QED BY <2>8, <2>10, Zenon
<1>4. ASSUME NEW key \in K, NEW kind \in {"delete", "enable", "disable", "issue", "uncert", "relist",
                                          "unlist", "import"},
             kind = "enable" => key[1] \in Tables, kind = "unlist" => key[2] # None,
             NEW p \in Passwords \cup {Keep}, q = Ask(kind, key, NoRow, FALSE, p)
      PROVE  Formed
  <2>1. kind \in Kinds /\ kind \notin {"create", "update", "newlist"}
    BY <1>4 DEF Kinds
  <2>2. kind \in {"create", "update", "enable"} => key[1] \in Tables
    BY <1>4, <2>1
  <2>3. AskOK(kind, key, NoRow, FALSE, p)
    BY <1>1, <1>4, <2>1, <2>2, Zenon DEF AskOK
  <2> QED BY <1>4, <2>3, Zenon
<1>6. ASSUME NEW key \in K, NEW p \in Passwords, q = Ask("newlist", key, NoRow, FALSE, p)
      PROVE  Formed
  <2>1. "newlist" \in Kinds /\ "newlist" \notin {"create", "update", "enable", "unlist"}
    BY DEF Kinds
  <2>2. AskOK("newlist", key, NoRow, FALSE, p)
    BY <1>1, <2>1, Zenon DEF AskOK
  <2> QED BY <1>6, <2>2, Zenon
<1>8. \/ q \in Edits /\ (q.new => q.row.cert = None)
      \/ q \in Switches \/ q \in CertAsks \/ q \in ListAsks \/ q \in Relists
      \/ q = Ask("import", <<"import", None>>, NoRow, FALSE, Keep)
  BY Zenon DEF Asks
<1>9. CASE q \in Switches
  <2>1. PICK kind \in {"delete", "enable", "disable"} :
          q \in {Ask(kind, key, NoRow, FALSE, Keep) : key \in Keys}
    BY <1>9, Zenon DEF Switches
  <2>2. PICK key \in Keys : q = Ask(kind, key, NoRow, FALSE, Keep)
    BY <2>1, Zenon
  <2>3. key \in K /\ key[1] \in Tables /\ kind # "unlist"
    BY <1>2
  <2> QED BY <1>1, <1>4, <2>2, <2>3
<1>10. CASE q \in CertAsks
  <2>1. \/ q \in {Ask("uncert", <<"cert", id>>, NoRow, FALSE, Keep) : id \in 1..MaxCerts}
        \/ q = Ask("issue", <<"cert", None>>, NoRow, FALSE, Keep)
    BY <1>10, Zenon DEF CertAsks
  <2>2. /\ \A id \in 1..MaxCerts : <<"cert", id>> \in K
        /\ <<"cert", None>> \in K
    BY <1>2
  <2>3. ASSUME NEW kind \in {"uncert", "issue"}, NEW key \in K, q = Ask(kind, key, NoRow, FALSE, Keep)
        PROVE  Formed
    BY <1>1, <1>4, <2>3
  <2>4. ASSUME NEW id \in 1..MaxCerts, q = Ask("uncert", <<"cert", id>>, NoRow, FALSE, Keep)
        PROVE  Formed
    BY <2>2, <2>3, <2>4
  <2>5. ASSUME q = Ask("issue", <<"cert", None>>, NoRow, FALSE, Keep)
        PROVE  Formed
    BY <2>2, <2>3, <2>5
  <2> HIDE DEF Formed
  <2> QED BY <2>1, <2>4, <2>5, Zenon
<1>11. CASE q \in ListAsks
  <2>1. \/ q \in {Ask("newlist", <<"list", None>>, NoRow, FALSE, p) : p \in Passwords}
        \/ q \in {Ask("unlist", <<"list", id>>, NoRow, FALSE, Keep) : id \in 1..MaxLists}
    BY <1>11, Zenon DEF ListAsks
  <2>3. ASSUME NEW p \in Passwords, q = Ask("newlist", <<"list", None>>, NoRow, FALSE, p)
        PROVE  Formed
    <3>1. <<"list", None>> \in K
      BY <1>2
    <3> QED BY <1>6, <2>3, <3>1
  <2>4. ASSUME NEW id \in 1..MaxLists, q = Ask("unlist", <<"list", id>>, NoRow, FALSE, Keep)
        PROVE  Formed
    <3>1. <<"list", id>> \in K /\ <<"list", id>>[2] # None
      BY <1>2
    <3> DEFINE key == <<"list", id>>
    <3>2. key \in K /\ key[2] # None /\ q = Ask("unlist", key, NoRow, FALSE, Keep)
      BY <2>4, <3>1, Zenon
    <3> HIDE DEF key
    <3> QED BY <1>1, <1>4, <3>2
  <2> HIDE DEF Formed
  <2> QED BY <2>1, <2>3, <2>4, Zenon
<1>13. CASE q \in Relists
  <2>1. PICK p \in Passwords \cup {Keep} :
          q \in {Ask("relist", <<"list", id>>, NoRow, FALSE, p) : id \in 1..MaxLists}
    BY <1>13, Zenon DEF Relists
  <2>2. PICK id \in 1..MaxLists : q = Ask("relist", <<"list", id>>, NoRow, FALSE, p)
    BY <2>1, Zenon
  <2>3. <<"list", id>> \in K
    BY <1>2
  <2> QED BY <1>4, <2>2, <2>3
<1>12. CASE q = Ask("import", <<"import", None>>, NoRow, FALSE, Keep)
  <2>1. <<"import", None>> \in K
    BY <1>2
  <2> QED BY <1>1, <1>4, <1>12, <2>1
<1> QED BY <1>8, <1>3, <1>9, <1>10, <1>11, <1>12, <1>13

LEMMA AsksAreAsked == \A q \in Asks : Asked(q)
<1> SUFFICES ASSUME NEW q \in Asks PROVE Asked(q)
  OBVIOUS
<1>1. PICK kind, key, row, new, password :
        AskOK(kind, key, row, new, password) /\ q = Ask(kind, key, row, new, password)
  BY AskForm
<1> QED BY <1>1, AskIsAsked DEF AskOK

LEMMA ArriveStep ==
  ASSUME Typed, NEW r \in Requests, NEW q \in Asks, Arrive(r, q)
  PROVE  Typed'
<1>1. q \in Request /\ Filled(q)
  BY AsksAreAsked DEF Asked
<1>2. Becomes(r, q)
  BY DEF Arrive, Becomes
<1> QED BY <1>1, <1>2, ReadKeeps

LEMMA EnableStarts ==
  ASSUME NEW t \in Tables
  PROVE  /\ EnablePlan(t) \in Seq(Steps) /\ EnablePlan(t) # <<>>
         /\ Head(EnablePlan(t)) = "read"
         /\ ~Has(Tail(EnablePlan(t)), "read")
         /\ \A u \in Rivals(t) : Has(Tail(EnablePlan(t)), u)
<1> DEFINE free == FreeIn(t)
           rest == free \o <<"write">>
<1>1. free \in Seq(Steps) /\ Checks(free) /\ \A u \in Rivals(t) : Has(free, u)
  BY FreeOf
<1>2. EnablePlan(t) = (<<"read">> \o free) \o <<"write">>
  BY DEF EnablePlan
<1> HIDE DEF free
<1>3. rest \in Seq(Steps) /\ \A s : Has(rest, s) <=> Has(free, s) \/ Has(<<"write">>, s)
  BY <1>1, WritePieces, HasConcat
<1>4. <<"read">> \in Seq(Steps)
  BY DEF Steps
<1>5. (<<"read">> \o free) \o <<"write">> = <<"read">> \o rest
  BY <1>1, <1>4, WritePieces
<1>6. ~Has(rest, "read") /\ \A u \in Rivals(t) : Has(rest, u)
  BY <1>1, <1>3, WritePieces DEF Checks
<1> HIDE DEF rest
<1>7. /\ <<"read">> \o rest \in Seq(Steps) /\ <<"read">> \o rest # <<>>
      /\ Head(<<"read">> \o rest) = "read" /\ Tail(<<"read">> \o rest) = rest
  BY <1>3, <1>4
<1> QED BY <1>2, <1>5, <1>6, <1>7, Zenon

LEMMA ReadSteps ==
  ASSUME Typed, NEW r \in Requests,
         ReadsTable(r) \/ Exists(r) \/ ChecksCert(r) \/ ChecksList(r)
  PROVE  Typed'
<1>1. CASE ReadsTable(r)
  <2>1. PICK t \in Tables : /\ At(r, t)
                            /\ \E cond : Passes(r, cond)
    BY <1>1 DEF ReadsTable
  <2>2. t # "hash"
    BY DEF Tables, Sites, Listeners
  <2> QED BY <2>1, <2>2, PassesKeeps DEF At
<1>2. CASE Exists(r)
  BY <1>2, PassesKeeps DEF Exists, At
<1>3. CASE ChecksCert(r)
  BY <1>3, PassesKeeps DEF ChecksCert, At
<1>4. CASE ChecksList(r)
  BY <1>4, PassesKeeps DEF ChecksList, At
<1> QED BY <1>1, <1>2, <1>3, <1>4


LEMMA NamedRow ==
  ASSUME NEW claims \in UNION {Shapes[t] : t \in Tables}
  PROVE  [NoRow EXCEPT !.claims = claims] \in Row /\ [NoRow EXCEPT !.claims = claims].claims = claims
<1>1. None \in 0..MaxCerts /\ None \in 0..MaxLists
  BY RegistryAssumption DEF None
<1>2. NoRow \in [claims: {{}}, enabled: BOOLEAN, cert: 0..MaxCerts, list: 0..MaxLists,
                asked: 0..MaxLists]
  BY <1>1 DEF NoRow
<1>3. ASSUME NEW row \in [claims: {{}}, enabled: BOOLEAN, cert: 0..MaxCerts, list: 0..MaxLists,
                         asked: 0..MaxLists]
      PROVE  [row EXCEPT !.claims = claims] \in Row /\ [row EXCEPT !.claims = claims].claims = claims
  BY DEF Row
<1> QED BY <1>2, <1>3

\* The row of an enabling request gets the names of the row it found.
WithClaims(q, claims) == [q EXCEPT !.row = [@ EXCEPT !.claims = claims]]

LEMMA ReadRowKeeps ==
  ASSUME NEW q \in Request, Filled(q), q.kind = "enable",
         NEW claims \in UNION {Shapes[t] : t \in Tables}, NEW n, n = WithClaims(q, claims)
  PROVE  /\ n \in Request /\ Filled(n) /\ n.kind = q.kind /\ n.key = q.key /\ n.todo = q.todo
         /\ n.row.claims = claims /\ n.created = q.created /\ n.password = q.password
<1> DEFINE row == [q.row EXCEPT !.claims = claims]
<1>1. row \in Row /\ row.claims = claims
  <2>1. q.row \in Row \cup {NoRow}
    BY RequestFields
  <2>2. CASE q.row \in Row
    BY <2>2 DEF Row
  <2>3. CASE q.row = NoRow
    BY <2>3, NamedRow
  <2> QED BY <2>1, <2>2, <2>3
<1>2. n = [q EXCEPT !.row = row]
  BY Zenon DEF WithClaims
<1> HIDE DEF row
<1>3. n \in Request /\ n.kind = q.kind /\ n.key = q.key /\ n.todo = q.todo /\ n.row = row
      /\ n.created = q.created /\ n.password = q.password
  BY <1>1, <1>2 DEF Request
<1>4. Filled(n)
  BY <1>3 DEF Filled
<1> QED BY <1>1, <1>3, <1>4

LEMMA RowClaims ==
  ASSUME Typed, NEW k \in DOMAIN rows
  PROVE  /\ rows[k] \in Row /\ rows[k].claims \in Shapes[k[1]] /\ k[1] \in Tables
         /\ rows[k].claims \in UNION {Shapes[t] : t \in Tables}
BY TypedParts DEF RowsOK, RowOK, Keys

LEMMA ReadsRowStep ==
  ASSUME Typed, NEW r \in Requests, ReadsRow(r)
  PROVE  Typed'
<1> DEFINE q == reqs[r]
<1>1. q \in Request /\ Filled(q)
  BY TypedParts
<1>2. q.todo # <<>> /\ Head(q.todo) = "read"
  BY DEF ReadsRow, At
<1>3. q.kind = "enable"
  BY <1>1, <1>2, RequestFields, HasTail, Zenon DEF Filled
<1>4. CASE q.key \in DOMAIN rows
  <2> DEFINE n == WithClaims(q, rows[q.key].claims)
  <2>1. rows[q.key].claims \in UNION {Shapes[t] : t \in Tables}
    BY <1>4, RowClaims
  <2>2. n \in Request /\ Filled(n) /\ n.todo = q.todo
    BY <1>1, <1>3, <2>1, ReadRowKeeps
  <2>3. Goes(r, n)
    BY <1>4 DEF ReadsRow, WithClaims
  <2> HIDE DEF n
  <2> QED BY <1>2, <2>2, <2>3, GoesKeeps
<1>5. CASE q.key \notin DOMAIN rows
  <2>1. Goes(r, q)
    BY <1>5 DEF ReadsRow
  <2> QED BY <1>1, <1>2, <2>1, GoesKeeps
<1> QED BY <1>4, <1>5

\* A hash that was read.
WithHash(q, hash) == [q EXCEPT !.password = hash, !.new = TRUE]

LEMMA ReadHashKeeps ==
  ASSUME NEW q \in Request, Filled(q), q.kind = "relist", NEW hash \in Passwords
  PROVE  /\ WithHash(q, hash) \in Request /\ Filled(WithHash(q, hash))
         /\ WithHash(q, hash).kind = q.kind /\ WithHash(q, hash).key = q.key
         /\ WithHash(q, hash).todo = q.todo /\ WithHash(q, hash).row = q.row
         /\ WithHash(q, hash).created = q.created /\ WithHash(q, hash).password = hash
<1> DEFINE n == WithHash(q, hash)
<1>1. n \in Request /\ n.kind = q.kind /\ n.key = q.key /\ n.todo = q.todo /\ n.row = q.row
      /\ n.created = q.created /\ n.password = hash
  BY DEF Request, WithHash
<1> HIDE DEF n
<1>2. Filled(n)
  BY <1>1 DEF Filled
<1> QED BY <1>1, <1>2 DEF n

LEMMA ReadsHashStep ==
  ASSUME Typed, NEW r \in Requests, ReadsHash(r)
  PROVE  Typed'
<1> DEFINE q == reqs[r]
<1>1. q \in Request /\ Filled(q)
  BY TypedParts
<1>2. q.todo # <<>> /\ Head(q.todo) = "hash"
  BY DEF ReadsHash, At
<1>3. q.kind = "relist"
  BY <1>1, <1>2, RequestFields, HasTail, Zenon DEF Filled
<1>4. CASE q.password # Keep
  <2>1. Goes(r, q) /\ q.password \in Passwords
    BY <1>1, <1>4, RequestFields DEF ReadsHash
  <2> QED BY <1>1, <1>2, <2>1, GoesKeeps
<1>5. CASE q.password = Keep /\ q.key[2] \in DOMAIN lists
  <2> DEFINE h == StoredHash(q.key[2])
             m == WithHash(q, h)
  <2>1. h \in Passwords
    BY <1>5, TypedParts DEF ListsOK, StoredHash
  <2>2. Goes(r, m)
    BY <1>5 DEF ReadsHash, WithHash
  <2> HIDE DEF h
  <2>4. m \in Request /\ Filled(m) /\ m.todo = q.todo /\ m.password = h
    BY <1>1, <1>3, <2>1, ReadHashKeeps
  <2> HIDE DEF m
  <2> QED BY <1>2, <2>1, <2>2, <2>4, GoesKeeps
<1>6. CASE q.password = Keep /\ q.key[2] \notin DOMAIN lists
  BY <1>6, RefusedKeeps DEF ReadsHash
<1> QED BY <1>4, <1>5, <1>6

\* The new row of a table.
LEMMA InsertedRow ==
  ASSUME NEW rs, NEW cs, NEW ls, RowsOK(rs, cs, ls), NEW k \in Keys, NEW row, RowOK(k[1], row),
         row.cert \in cs \cup {None}, row.list \in ls \cup {None}
  PROVE  RowsOK(Insert(rs, k, row), cs, ls)
<1> DEFINE new == Insert(rs, k, row)
<1>1. /\ DOMAIN new = DOMAIN rs \cup {k} /\ new[k] = row
      /\ \A j \in DOMAIN rs : j # k => new[j] = rs[j]
  BY DEF Insert
<1> HIDE DEF new
<1>2. ASSUME NEW j \in DOMAIN new
      PROVE  RowOK(j[1], new[j]) /\ new[j].cert \in cs \cup {None} /\ new[j].list \in ls \cup {None}
  <2>1. CASE j = k
    BY <1>1, <2>1
  <2>2. CASE j # k
    BY <1>1, <1>2, <2>2 DEF RowsOK
  <2> QED BY <2>1, <2>2
<1>3. DOMAIN new \subseteq Keys
  BY <1>1 DEF RowsOK
<1>4. RowsOK(new, cs, ls)
  BY <1>2, <1>3 DEF RowsOK
<1> QED BY <1>4 DEF new

LEMMA WritesRowStep ==
  ASSUME Typed, NEW r \in Requests, NEW t \in Tables, WritesRow(r, t)
  PROVE  Typed'
<1> DEFINE q == reqs[r]
<1>1. q \in Request /\ Filled(q) /\ q.kind \in {"create", "update"} /\ q.key[1] = t
  BY TypedParts DEF WritesRow
<1>2. RowOK(t, q.row)
  BY <1>1 DEF Filled
<1>3. CASE Refused(r)
  BY <1>3, RefusedKeeps
<1>4. CASE ~Refused(r)
  <2>1. PICK id \in 1..MaxRows : Done(r, Insert(rows, <<t, id>>, q.row), certs, lists)
    BY <1>4 DEF WritesRow
  <2>2. RefsExist(q.row)
    BY <1>4 DEF WritesRow
  <2>3. <<t, id>> \in Keys /\ <<t, id>>[1] = t
    BY DEF Keys
  <2>4. RowsOK(Insert(rows, <<t, id>>, q.row), DOMAIN certs, DOMAIN lists)
    BY <1>2, <2>2, <2>3, InsertedRow, TypedParts DEF RefsExist
  <2> QED BY <2>1, <2>4, DoneKeeps, TypedParts
<1> QED BY <1>3, <1>4

LEMMA IssuesStep ==
  ASSUME Typed, NEW r \in Requests, Issues(r)
  PROVE  Typed'
<1> DEFINE q == reqs[r]
<1>1. q \in Request /\ Filled(q) /\ q.todo # <<>> /\ Head(q.todo) = "issue"
  BY TypedParts DEF Issues, At
<1>2. CASE Refused(r)
  BY <1>2, RefusedKeeps
<1>3. CASE ~Refused(r)
  <2>1. PICK id \in 1..MaxCerts :
          /\ certs' = Insert(certs, id, r)
          /\ reqs' = [reqs EXCEPT ![r] = [q EXCEPT !.row = [q.row EXCEPT !.cert = id],
                                                   !.created = id, !.todo = Tail(q.todo)]]
          /\ UNCHANGED <<rows, lists>>
    BY <1>3 DEF Issues
  <2>2. /\ q.todo \in Seq(Steps) /\ Tail(q.todo) \in Seq(Steps) /\ Ordered(Tail(q.todo))
        /\ ~Has(Tail(q.todo), "issue") /\ Has(q.todo, "issue")
        /\ \A s : Has(Tail(q.todo), s) => Has(q.todo, s)
    BY <1>1, RequestFields, HasTail, LastCalls, Zenon DEF Filled
  <2>3. q.kind \in {"create", "update"} /\ q.row \in Row /\ RowOK(q.key[1], q.row) /\ q.key[1] \in Tables
        /\ q.row.asked = q.row.list /\ (q.kind = "create" => q.key[2] = None)
    BY <1>1, <2>2, Zenon DEF Filled, RowOK
  <2> DEFINE row == [q.row EXCEPT !.cert = id]
             todo == Tail(q.todo)
             n == [q EXCEPT !.row = row, !.created = id, !.todo = todo]
  <2>4. reqs' = [reqs EXCEPT ![r] = n]
    BY <2>1, Zenon
  <2>5. row \in Row /\ row.claims = q.row.claims /\ row.list = q.row.list /\ row.asked = q.row.asked
    <3>1. id \in 0..MaxCerts
      OBVIOUS
    <3> QED BY <2>3, <3>1 DEF Row
  <2> HIDE DEF row
  <2>6. RowOK(q.key[1], row)
    BY <2>3, <2>5 DEF RowOK
  <2>7. id \in 0..MaxCerts /\ todo \in Seq(Steps)
    BY <2>2
  <2> HIDE DEF todo
  <2>8. n \in Request /\ n.kind = q.kind /\ n.key = q.key /\ n.row = row /\ n.todo = todo
        /\ n.created = id /\ n.password = q.password
    BY <1>1, <2>5, <2>7 DEF Request
  <2> HIDE DEF n
  <2>9. Filled(n)
    <3>1. Ordered(n.todo) /\ ~Has(n.todo, "issue")
      BY <2>2, <2>8 DEF todo
    <3>2. Has(n.todo, "hash") => Has(q.todo, "hash")
      BY <2>2, <2>8 DEF todo
    <3>3. Has(n.todo, "read") => Has(q.todo, "read")
      BY <2>2, <2>8 DEF todo
    <3>4. ~Has(q.todo, "hash") /\ ~Has(q.todo, "read")
      BY <1>1, <2>3 DEF Filled
    <3> QED BY <2>3, <2>5, <2>6, <2>8, <3>1, <3>2, <3>3, <3>4 DEF Filled
  <2>10. CertsOK(certs') /\ DOMAIN certs' = DOMAIN certs \cup {id}
    <3>1. /\ DOMAIN certs' = DOMAIN certs \cup {id}
          /\ \A i \in DOMAIN certs' : certs'[i] = IF i = id THEN r ELSE certs[i]
      BY <2>1 DEF Insert
    <3> QED BY <3>1, TypedParts DEF CertsOK
  <2>11. RowsOK(rows', DOMAIN certs', DOMAIN lists')
    BY <2>1, <2>10, TypedParts DEF RowsOK
  <2> QED BY <2>1, <2>4, <2>8, <2>9, <2>10, <2>11, TypedParts, TypedPartsNext
<1> QED BY <1>2, <1>3

\* A certificate that no row refers to may go.
LEMMA CertGoes ==
  ASSUME NEW rs, NEW cs, NEW ls, NEW id, RowsOK(rs, DOMAIN cs, ls), CertsOK(cs),
         \A k \in DOMAIN rs : rs[k].cert # id
  PROVE  RowsOK(rs, DOMAIN Without(cs, id), ls) /\ CertsOK(Without(cs, id))
<1>1. /\ DOMAIN Without(cs, id) = DOMAIN cs \ {id}
      /\ \A i \in DOMAIN cs \ {id} : Without(cs, id)[i] = cs[i]
  BY DEF Without
<1> QED BY <1>1 DEF RowsOK, CertsOK

LEMMA DiscardsCertStep ==
  ASSUME Typed, NEW r \in Requests, DiscardsCert(r)
  PROVE  Typed'
<1> DEFINE id == reqs[r].created
<1>1. CertsOK(certs') /\ RowsOK(rows, DOMAIN certs', DOMAIN lists)
  <2>1. CASE InUse(id)
    <3>1. /\ DOMAIN certs' = DOMAIN certs
          /\ \A i \in DOMAIN certs' : certs'[i] \in {certs[i], None}
      BY <2>1 DEF DiscardsCert, Discarded
    <3> QED BY <3>1, TypedParts DEF CertsOK, RowsOK
  <2>2. CASE ~InUse(id)
    <3>1. certs' = Without(certs, id)
      BY <2>2 DEF DiscardsCert, Discarded
    <3>2. \A k \in DOMAIN rows : rows[k].cert # id
      BY <2>2 DEF InUse
    <3> HIDE DEF id
    <3>3. RowsOK(rows, DOMAIN Without(certs, id), DOMAIN lists) /\ CertsOK(Without(certs, id))
      BY <3>2, CertGoes, TypedParts
    <3> QED BY <3>1, <3>3
  <2> QED BY <2>1, <2>2
<1>2. reqs' = [reqs EXCEPT ![r] = Idle] /\ UNCHANGED <<rows, lists>>
  BY DEF DiscardsCert, Answer
<1> QED BY <1>1, <1>2, IdleIsRequest, TypedParts, TypedPartsNext

LEMMA WritesCertStep ==
  ASSUME Typed, NEW r \in Requests, WritesCert(r)
  PROVE  Typed'
<1>1. CASE reqs[r].kind = "issue"
  <2>1. PICK id \in 1..MaxCerts : Done(r, rows, Insert(certs, id, None), lists)
    BY <1>1 DEF WritesCert
  <2> DEFINE cs == Insert(certs, id, None)
  <2>2. /\ DOMAIN cs = DOMAIN certs \cup {id}
        /\ \A i \in DOMAIN cs : cs[i] = IF i = id THEN None ELSE certs[i]
    BY DEF Insert
  <2> HIDE DEF cs
  <2>3. CertsOK(cs) /\ RowsOK(rows, DOMAIN cs, DOMAIN lists)
    BY <2>2, TypedParts DEF CertsOK, RowsOK
  <2>4. Done(r, rows, cs, lists)
    BY <2>1 DEF cs
  <2> QED BY <2>3, <2>4, DoneKeeps, TypedParts
<1>2. CASE reqs[r].kind = "uncert"
  <2> DEFINE id == reqs[r].key[2]
             cs == Unissued(id)
  <2>1. Done(r, rows, cs, lists)
    BY <1>2 DEF WritesCert
  <2>2. CertsOK(cs) /\ RowsOK(rows, DOMAIN cs, DOMAIN lists)
    <3> HIDE DEF id
    <3>1. CASE InUse(id)
      BY <3>1, TypedParts DEF Unissued
    <3>2. CASE ~InUse(id)
      BY <3>2, CertGoes, TypedParts DEF Unissued, InUse
    <3> QED BY <3>1, <3>2
  <2> HIDE DEF cs
  <2> QED BY <2>1, <2>2, DoneKeeps, TypedParts
<1> QED BY <1>1, <1>2 DEF WritesCert

LEMMA SetsEnabledStep ==
  ASSUME Typed, NEW r \in Requests, SetsEnabled(r)
  PROVE  Typed'
<1> DEFINE key == reqs[r].key
           on == (reqs[r].kind = "enable")
           rs == [rows EXCEPT ![key] = [@ EXCEPT !.enabled = on]]
<1>1. CASE key \in DOMAIN rows
  <2>1. Done(r, rs, certs, lists)
    BY <1>1 DEF SetsEnabled
  <2>2. on \in BOOLEAN
    BY Zenon
  <2>3. DOMAIN rs = DOMAIN rows
    OBVIOUS
  <2>4. ASSUME NEW k \in DOMAIN rows
        PROVE  RowOK(k[1], rs[k]) /\ rs[k].cert = rows[k].cert /\ rs[k].list = rows[k].list
    <3>1. RowOK(k[1], rows[k]) /\ rows[k] \in Row
      BY TypedParts DEF RowsOK, RowOK
    <3>2. ASSUME NEW row \in Row, NEW e \in BOOLEAN
          PROVE  /\ [row EXCEPT !.enabled = e] \in Row
                 /\ [row EXCEPT !.enabled = e].claims = row.claims
                 /\ [row EXCEPT !.enabled = e].cert = row.cert
                 /\ [row EXCEPT !.enabled = e].list = row.list
      BY DEF Row
    <3>3. rs[k] = rows[k] \/ rs[k] = [rows[k] EXCEPT !.enabled = on]
      <4> HIDE DEF on
      <4> QED OBVIOUS
    <3> HIDE DEF on
    <3>4. [rows[k] EXCEPT !.enabled = on] \in Row
          /\ [rows[k] EXCEPT !.enabled = on].claims = rows[k].claims
          /\ [rows[k] EXCEPT !.enabled = on].cert = rows[k].cert
          /\ [rows[k] EXCEPT !.enabled = on].list = rows[k].list
      BY <2>2, <3>1, <3>2, Zenon
    <3> HIDE DEF rs
    <3> DEFINE new == [rows[k] EXCEPT !.enabled = on]
    <3>5. CASE rs[k] = rows[k]
      BY <3>1, <3>5
    <3>6. CASE rs[k] = new
      <4> HIDE DEF new
      <4>1. new \in Row /\ new.claims = rows[k].claims /\ new.cert = rows[k].cert
            /\ new.list = rows[k].list
        BY <3>4 DEF new
      <4> QED BY <3>1, <3>6, <4>1 DEF RowOK
    <3> QED BY <3>3, <3>5, <3>6
  <2> HIDE DEF rs
  <2>5. RowsOK(rs, DOMAIN certs, DOMAIN lists)
    BY <2>3, <2>4, TypedParts DEF RowsOK
  <2> QED BY <2>1, <2>5, DoneKeeps, TypedParts
<1>2. CASE key \notin DOMAIN rows
  BY <1>2, RefusedKeeps DEF SetsEnabled
<1> QED BY <1>1, <1>2

LEMMA DeletesRowStep ==
  ASSUME Typed, NEW r \in Requests, DeletesRow(r)
  PROVE  Typed'
<1> DEFINE key == reqs[r].key
           rs == Without(rows, key)
<1>1. Done(r, rs, certs, lists)
  BY DEF DeletesRow
<1>2. DOMAIN rs = DOMAIN rows \ {key} /\ \A k \in DOMAIN rs : rs[k] = rows[k]
  BY DEF Without
<1> HIDE DEF rs
<1>3. RowsOK(rs, DOMAIN certs, DOMAIN lists)
  BY <1>2, TypedParts DEF RowsOK
<1> QED BY <1>1, <1>3, DoneKeeps, TypedParts

LEMMA WritesListStep ==
  ASSUME Typed, NEW r \in Requests, WritesList(r)
  PROVE  Typed'
<1> DEFINE q == reqs[r]
<1>1. q \in Request /\ Filled(q) /\ q.kind \in {"newlist", "relist"} /\ q.todo # <<>>
      /\ Head(q.todo) = "write" /\ q.todo \in Seq(Steps)
  BY TypedParts, RequestFields DEF WritesList, At
<1>2. CASE Refused(r)
  BY <1>2, RefusedKeeps
<1>3. CASE ~Refused(r)
  <2>1. PICK id \in 1..MaxLists : Done(r, rows, certs, Insert(lists, id, q.password))
    BY <1>3 DEF WritesList
  <2>2. ~Has(q.todo, "hash")
    <3>1. ~Has(Tail(q.todo), "hash")
      BY <1>1, LastCalls DEF Filled
    <3> QED BY <1>1, <3>1, HasTail
  <2>3. q.password \in Passwords
    BY <1>1, <2>2 DEF Filled
  <2> DEFINE ls == Insert(lists, id, q.password)
  <2>4. /\ DOMAIN ls = DOMAIN lists \cup {id}
        /\ \A i \in DOMAIN ls : ls[i] = IF i = id THEN q.password ELSE lists[i]
    BY DEF Insert
  <2> HIDE DEF ls
  <2>5. ListsOK(ls) /\ RowsOK(rows, DOMAIN certs, DOMAIN ls)
    BY <2>3, <2>4, TypedParts DEF ListsOK, RowsOK
  <2>6. Done(r, rows, certs, ls)
    BY <2>1 DEF ls
  <2> QED BY <2>5, <2>6, DoneKeeps, TypedParts
<1> QED BY <1>2, <1>3

\* The rows when list id is gone.
Detached(id) == [k \in DOMAIN rows |-> IF rows[k].list = id THEN [rows[k] EXCEPT !.list = None]
                                       ELSE rows[k]]

LEMMA DetachedRows ==
  ASSUME Typed, NEW id
  PROVE  /\ DOMAIN Detached(id) = DOMAIN rows
         /\ \A k \in DOMAIN rows :
               /\ RowOK(k[1], Detached(id)[k])
               /\ Detached(id)[k].claims = rows[k].claims
               /\ Detached(id)[k].enabled = rows[k].enabled
               /\ Detached(id)[k].cert = rows[k].cert /\ Detached(id)[k].asked = rows[k].asked
               /\ Detached(id)[k].list = (IF rows[k].list = id THEN None ELSE rows[k].list)
<1>1. DOMAIN Detached(id) = DOMAIN rows
  BY DEF Detached
<1>2. None \in 0..MaxLists
  BY RegistryAssumption DEF None
<1>3. ASSUME NEW row \in Row
      PROVE  /\ [row EXCEPT !.list = None] \in Row
             /\ [row EXCEPT !.list = None].claims = row.claims
             /\ [row EXCEPT !.list = None].cert = row.cert
             /\ [row EXCEPT !.list = None].asked = row.asked
             /\ [row EXCEPT !.list = None].list = None
  BY <1>2 DEF Row
<1>4. ASSUME NEW row \in Row
      PROVE  [row EXCEPT !.list = None].enabled = row.enabled
  BY Zenon DEF Row
<1>5. ASSUME NEW k \in DOMAIN rows
      PROVE  /\ RowOK(k[1], Detached(id)[k])
             /\ Detached(id)[k].claims = rows[k].claims
             /\ Detached(id)[k].cert = rows[k].cert /\ Detached(id)[k].asked = rows[k].asked
             /\ Detached(id)[k].list = (IF rows[k].list = id THEN None ELSE rows[k].list)
  <2>1. rows[k] \in Row /\ RowOK(k[1], rows[k])
    BY TypedParts DEF RowsOK, RowOK
  <2>2. Detached(id)[k] = IF rows[k].list = id THEN [rows[k] EXCEPT !.list = None] ELSE rows[k]
    BY DEF Detached
  <2>3. CASE rows[k].list = id
    <3>1. Detached(id)[k] = [rows[k] EXCEPT !.list = None]
      BY <2>2, <2>3
    <3> QED BY <1>3, <2>1, <2>3, <3>1 DEF RowOK
  <2>4. CASE rows[k].list # id
    BY <2>1, <2>2, <2>4
  <2> QED BY <2>3, <2>4
<1>6. ASSUME NEW k \in DOMAIN rows
      PROVE  Detached(id)[k].enabled = rows[k].enabled
  <2>1. rows[k] \in Row
    BY TypedParts DEF RowsOK, RowOK
  <2>2. Detached(id)[k] = [rows[k] EXCEPT !.list = None] \/ Detached(id)[k] = rows[k]
    BY DEF Detached
  <2>3. [rows[k] EXCEPT !.list = None].enabled = rows[k].enabled
    BY <1>4, <2>1
  <2>4. ASSUME NEW a, NEW b, NEW c, b.enabled = c.enabled, a = b \/ a = c PROVE a.enabled = c.enabled
    BY <2>4, Zenon
  <2> QED BY <2>2, <2>3, <2>4, Zenon
<1> QED BY <1>1, <1>5, <1>6, Zenon

LEMMA DeletesListStep ==
  ASSUME Typed, NEW r \in Requests, DeletesList(r)
  PROVE  Typed'
<1> DEFINE id == reqs[r].key[2]
<1>1. Done(r, Detached(id), certs, Without(lists, id))
  BY DEF DeletesList, Detached
<1> HIDE DEF id
<1> DEFINE ls == Without(lists, id)
           rs == Detached(id)
<1>2. DOMAIN ls = DOMAIN lists \ {id} /\ \A i \in DOMAIN ls : ls[i] = lists[i]
  BY DEF Without
<1>3. /\ DOMAIN rs = DOMAIN rows
      /\ \A k \in DOMAIN rows :
            /\ RowOK(k[1], rs[k]) /\ rs[k].cert = rows[k].cert
            /\ rs[k].list = (IF rows[k].list = id THEN None ELSE rows[k].list)
  BY DetachedRows
<1> HIDE DEF ls, rs
<1>4. ListsOK(ls) /\ RowsOK(rs, DOMAIN certs, DOMAIN ls)
  BY <1>2, <1>3, TypedParts DEF ListsOK, RowsOK
<1>5. Done(r, rs, certs, ls)
  BY <1>1 DEF rs, ls
<1> QED BY <1>4, <1>5, DoneKeeps, TypedParts

LEMMA ImportsStep ==
  ASSUME Typed, NEW r \in Requests, Imports(r)
  PROVE  Typed'
<1>1. CASE Refused(r)
  BY <1>1, RefusedKeeps
<1>2. CASE ~Refused(r)
  <2>1. PICK doc \in Docs : /\ CertRefs(doc) /\ ListRefs(doc)
                            /\ Done(r, ImportedRows(doc), [c \in doc.certs |-> None], doc.lists)
    BY <1>2 DEF Imports
  <2>2. Document(doc)
    BY RegistryAssumption
  <2> DEFINE cs == [c \in doc.certs |-> None]
  <2>3. DOMAIN cs = doc.certs /\ CertsOK(cs)
    BY <2>2 DEF Document, CertsOK
  <2> HIDE DEF cs
  <2>4. RowsOK(doc.rows, DOMAIN cs, DOMAIN doc.lists) /\ ListsOK(doc.lists)
    BY <2>1, <2>2, <2>3 DEF Document, RowsOK, ListsOK, CertRefs, ListRefs
  <2>5. Done(r, doc.rows, cs, doc.lists)
    BY <2>1 DEF ImportedRows, cs
  <2> QED BY <2>3, <2>4, <2>5, DoneKeeps
<1> QED BY <1>1, <1>2

LEMMA TypedNext ==
  ASSUME Typed, [Next]_vars
  PROVE  Typed'
<1>1. ASSUME NEW r \in Requests, NEW q \in Asks, Arrive(r, q) PROVE Typed'
  BY <1>1, ArriveStep
<1>2. ASSUME NEW r \in Requests, Handles(r) PROVE Typed'
  <2>1. WritesProxy(r) \/ WritesRedirect(r) \/ WritesDead(r) \/ WritesStream(r) \/ WritesSni(r)
        => \E t \in Tables : WritesRow(r, t)
    BY DEF WritesProxy, WritesRedirect, WritesDead, WritesStream, WritesSni, Tables, Sites, Listeners
  <2> QED BY <1>2, <2>1, ReadSteps, ReadsRowStep, ReadsHashStep, WritesRowStep, IssuesStep,
             DiscardsCertStep, WritesCertStep, SetsEnabledStep, DeletesRowStep, WritesListStep,
             DeletesListStep, ImportsStep, Zenon DEF Handles
<1>3. ASSUME NEW r \in Requests, Dropped(r) PROVE Typed'
  BY <1>3, DoneKeeps, TypedParts DEF Dropped
<1>4. CASE UNCHANGED vars
  BY <1>4, TypedParts, TypedPartsNext DEF vars
<1> QED BY <1>1, <1>2, <1>3, <1>4 DEF Next, NextOf

LEMMA TypedHolds == Spec => []Typed
<1> QED BY TypedInit, TypedNext, PTL DEF Spec

\* Rows have the shape of their table, refer to certificates and lists that exist, and
\* requests hold what their kind needs, however they come in between each other.
THEOREM TypeCorrect == Spec => []TypeOK
<1>1. Typed => TypeOK
  BY DEF Typed
<1> QED BY <1>1, TypedHolds, PTL

(* ---------------------------- who changes what --------------------------- *)

\* A step of a request is a step of no other; it keeps its kind or ends.
LEMMA RequestStep ==
  ASSUME Typed, NEW r \in Requests, Handles(r) \/ Dropped(r)
  PROVE  /\ \A x \in Requests : x # r => reqs'[x] = reqs[x]
         /\ reqs'[r].kind \in {"none", reqs[r].kind}
<1>0. reqs \in [Requests -> Request] /\ reqs[r] \in Request /\ Filled(reqs[r])
  BY TypedParts
<1>1. ASSUME NEW q, Becomes(r, q), q.kind \in {"none", reqs[r].kind}
      PROVE  (\A x \in Requests : x # r => reqs'[x] = reqs[x]) /\ reqs'[r].kind \in {"none", reqs[r].kind}
  BY <1>0, <1>1 DEF Becomes
<1>2. ASSUME Refused(r)
      PROVE  (\A x \in Requests : x # r => reqs'[x] = reqs[x]) /\ reqs'[r].kind \in {"none", reqs[r].kind}
  <2>1. Becomes(r, Ending(reqs[r]))
    BY <1>2 DEF Refused, Ending
  <2>2. Ending(reqs[r]).kind \in {"none", reqs[r].kind}
    BY <1>0, EndingKeeps, IdleIsRequest
  <2> QED BY <1>1, <2>1, <2>2
<1>3. ASSUME NEW q \in Request, q.kind = reqs[r].kind, Goes(r, q)
      PROVE  (\A x \in Requests : x # r => reqs'[x] = reqs[x]) /\ reqs'[r].kind \in {"none", reqs[r].kind}
  <2> DEFINE n == [q EXCEPT !.todo = Tail(@)]
  <2>1. Becomes(r, n)
    BY <1>3 DEF Goes
  <2>2. n.kind = q.kind
    BY DEF Request
  <2> HIDE DEF n
  <2> QED BY <1>1, <1>3, <2>1, <2>2
<1>4. ASSUME NEW cond, Passes(r, cond)
      PROVE  (\A x \in Requests : x # r => reqs'[x] = reqs[x]) /\ reqs'[r].kind \in {"none", reqs[r].kind}
  BY <1>0, <1>2, <1>3, <1>4, Zenon DEF Passes
<1>5. ASSUME Answer(r)
      PROVE  (\A x \in Requests : x # r => reqs'[x] = reqs[x]) /\ reqs'[r].kind \in {"none", reqs[r].kind}
  BY <1>0, <1>5, IdleIsRequest DEF Answer
<1>6. CASE ReadsTable(r) \/ Exists(r) \/ ChecksCert(r) \/ ChecksList(r)
  <2>1. \E cond : Passes(r, cond)
    BY <1>6, Zenon DEF ReadsTable, Exists, ChecksCert, ChecksList
  <2> QED BY <1>4, <2>1
<1>7. CASE ReadsRow(r)
  <2> DEFINE q == reqs[r]
             n == WithClaims(q, rows[q.key].claims)
  <2>1. Goes(r, q) \/ (Goes(r, n) /\ q.key \in DOMAIN rows)
    BY <1>7 DEF ReadsRow, WithClaims
  <2>2. CASE Goes(r, q)
    BY <1>0, <1>3, <2>2
  <2>3. CASE Goes(r, n) /\ q.key \in DOMAIN rows
    <3>1. q.kind = "enable"
      BY <1>0, <1>7, RequestFields, HasTail, Zenon DEF Filled, ReadsRow, At
    <3>2. n \in Request /\ n.kind = q.kind
      BY <1>0, <2>3, <3>1, ReadRowKeeps, RowClaims
    <3> HIDE DEF n
    <3> QED BY <1>3, <2>3, <3>2
  <2> QED BY <2>1, <2>2, <2>3
<1>8. CASE ReadsHash(r)
  <2> DEFINE q == reqs[r]
             n == WithHash(q, StoredHash(q.key[2]))
  <2>1. Goes(r, q) \/ (Goes(r, n) /\ q.key[2] \in DOMAIN lists) \/ Refused(r)
    BY <1>8, Zenon DEF ReadsHash, WithHash
  <2>2. CASE Goes(r, q)
    BY <1>0, <1>3, <2>2
  <2>3. CASE Goes(r, n) /\ q.key[2] \in DOMAIN lists
    <3>1. q.kind = "relist"
      BY <1>0, <1>8, RequestFields, HasTail, Zenon DEF Filled, ReadsHash, At
    <3>2. StoredHash(q.key[2]) \in Passwords
      BY <2>3, TypedParts DEF ListsOK, StoredHash
    <3>3. n \in Request /\ n.kind = q.kind
      BY <1>0, <3>1, <3>2, ReadHashKeeps
    <3> HIDE DEF n
    <3> QED BY <1>3, <2>3, <3>3
  <2> QED BY <1>2, <2>1, <2>2, <2>3
<1>9. CASE Issues(r)
  <2>1. CASE Refused(r)
    BY <1>2, <2>1
  <2>2. CASE ~Refused(r)
    <3>1. PICK id \in 1..MaxCerts :
            reqs' = [reqs EXCEPT ![r] = [reqs[r] EXCEPT !.row = [reqs[r].row EXCEPT !.cert = id],
                                                     !.created = id, !.todo = Tail(reqs[r].todo)]]
      BY <1>9, <2>2 DEF Issues
    <3> QED BY <1>0, <3>1 DEF Request
  <2> QED BY <2>1, <2>2
<1>10. CASE Answer(r) \/ Refused(r)
  BY <1>2, <1>5, <1>10
<1>11. CASE \E rs, cs, ls : Done(r, rs, cs, ls)
  BY <1>5, <1>11 DEF Done
<1>12. WritesProxy(r) \/ WritesRedirect(r) \/ WritesDead(r) \/ WritesStream(r) \/ WritesSni(r)
       => Refused(r) \/ \E rs, cs, ls : Done(r, rs, cs, ls)
  BY Zenon DEF WritesProxy, WritesRedirect, WritesDead, WritesStream, WritesSni, WritesRow
<1>13. /\ DiscardsCert(r) => Answer(r)
       /\ WritesCert(r) => \E rs, cs, ls : Done(r, rs, cs, ls)
       /\ SetsEnabled(r) => Refused(r) \/ \E rs, cs, ls : Done(r, rs, cs, ls)
       /\ DeletesRow(r) => \E rs, cs, ls : Done(r, rs, cs, ls)
       /\ WritesList(r) => Refused(r) \/ \E rs, cs, ls : Done(r, rs, cs, ls)
       /\ DeletesList(r) => \E rs, cs, ls : Done(r, rs, cs, ls)
       /\ Imports(r) => Refused(r) \/ \E rs, cs, ls : Done(r, rs, cs, ls)
       /\ Dropped(r) => \E rs, cs, ls : Done(r, rs, cs, ls)
  BY Zenon DEF DiscardsCert, WritesCert, SetsEnabled, DeletesRow, WritesList, DeletesList, Imports,
               Dropped
<1> QED BY <1>6, <1>7, <1>8, <1>9, <1>10, <1>11, <1>12, <1>13, Zenon DEF Handles

LEMMA AloneNext ==
  ASSUME Typed, NEW kinds \in Serial, Alone(kinds), [Next]_vars
  PROVE  Alone(kinds)'
<1>0. kinds \subseteq Kinds /\ "none" \notin Kinds
  BY RegistryAssumption DEF Kinds
<1>1. ASSUME NEW r \in Requests, NEW q \in Asks, Arrive(r, q) PROVE Alone(kinds)'
  <2>1. reqs' = [reqs EXCEPT ![r] = q] /\ reqs \in [Requests -> Request]
    BY <1>1, TypedParts DEF Arrive
  <2>2. q.kind \in kinds => \A x \in Requests : reqs[x].kind \notin kinds
    BY <1>1 DEF Arrive, MayStart
  <2> QED BY <2>1, <2>2 DEF Alone
<1>2. ASSUME NEW r \in Requests, Handles(r) \/ Dropped(r) PROVE Alone(kinds)'
  <2>1. /\ \A x \in Requests : x # r => reqs'[x] = reqs[x]
        /\ reqs'[r].kind \in {"none", reqs[r].kind}
    BY <1>2, RequestStep
  <2> QED BY <1>0, <2>1 DEF Alone
<1>3. CASE UNCHANGED vars
  BY <1>3 DEF vars, Alone
<1> QED BY <1>1, <1>2, <1>3 DEF Next, NextOf

LEMMA AloneInit ==
  ASSUME NEW kinds \in Serial, Init
  PROVE  Alone(kinds)
<1>1. kinds \subseteq Kinds /\ "none" \notin Kinds
  BY RegistryAssumption DEF Kinds
<1> QED BY <1>1, IdleIsRequest DEF Init, Alone

\* The calls that write the rows.
LEMMA RowsWritten ==
  ASSUME NEW r \in Requests, Handles(r) \/ Dropped(r)
  PROVE  \/ rows' = rows \/ (\E t \in Tables : WritesRow(r, t)) \/ Imports(r)
         \/ SetsEnabled(r) \/ DeletesRow(r) \/ DeletesList(r)
<1>1. /\ \A q : Becomes(r, q) => rows' = rows
      /\ \A cs, ls : Done(r, rows, cs, ls) => rows' = rows
  BY DEF Becomes, Done
<1>2. /\ \A q : Goes(r, q) => rows' = rows
      /\ Refused(r) => rows' = rows
  BY <1>1, Zenon DEF Goes, Refused
<1>3. \A cond : Passes(r, cond) => rows' = rows
  BY <1>2, Zenon DEF Passes
<1>4. ReadsTable(r) \/ Exists(r) \/ ChecksCert(r) \/ ChecksList(r) \/ ReadsRow(r) \/ ReadsHash(r)
      => rows' = rows
  BY <1>2, <1>3, Zenon DEF ReadsTable, Exists, ChecksCert, ChecksList, ReadsRow, ReadsHash
<1>5. WritesProxy(r) \/ WritesRedirect(r) \/ WritesDead(r) \/ WritesStream(r) \/ WritesSni(r)
      => \E t \in Tables : WritesRow(r, t)
  BY DEF WritesProxy, WritesRedirect, WritesDead, WritesStream, WritesSni, Tables, Sites, Listeners
<1>6. /\ Issues(r) => rows' = rows /\ TRUE
      /\ DiscardsCert(r) => rows' = rows
      /\ WritesCert(r) => rows' = rows
      /\ WritesList(r) => rows' = rows
      /\ Dropped(r) => rows' = rows
  BY <1>1, <1>2, Zenon DEF Issues, DiscardsCert, WritesCert, WritesList, Dropped
<1> QED BY <1>4, <1>5, <1>6, Zenon DEF Handles

\* What each kind of request does to the rows of the others.
LEMMA RowsStep ==
  ASSUME Typed, NEW r \in Requests, Handles(r) \/ Dropped(r)
  PROVE  /\ reqs[r].kind \notin Claimers =>
               \A k \in DOMAIN rows' : /\ k \in DOMAIN rows /\ rows'[k].claims = rows[k].claims
                                       /\ rows'[k].enabled => rows[k].enabled
         /\ reqs[r].kind \notin {"create", "update", "import"} =>
               \A k \in DOMAIN rows' : k \in DOMAIN rows /\ rows'[k].cert = rows[k].cert
         /\ reqs[r].kind \notin Listers =>
               \A k \in DOMAIN rows' : /\ k \in DOMAIN rows /\ rows'[k].list = rows[k].list
                                       /\ rows'[k].asked = rows[k].asked
<1>1. CASE rows' = rows
  BY <1>1
<1>2. CASE reqs[r].kind \in {"create", "update", "import"}
  BY <1>2 DEF Claimers, Listers
<1>3. CASE SetsEnabled(r) /\ rows' # rows
  <2> DEFINE q == reqs[r]
             on == (q.kind = "enable")
  <2>1. q.kind \in {"enable", "disable"}
    BY <1>3 DEF SetsEnabled
  <2>2. q.key \in DOMAIN rows
        /\ rows' = [rows EXCEPT ![q.key] = [@ EXCEPT !.enabled = on]]
    BY <1>3 DEF SetsEnabled, Done, Refused, Becomes
  <2>3. DOMAIN rows' = DOMAIN rows
    BY <2>2
  <2>4. on \in BOOLEAN /\ (q.kind = "disable" => ~on)
    BY Zenon
  <2>5. ASSUME NEW k \in DOMAIN rows
        PROVE  rows'[k] = rows[k] \/ rows'[k] = [rows[k] EXCEPT !.enabled = on]
    <3> HIDE DEF on
    <3> QED BY <2>2
  <2> HIDE DEF on
  <2>6. ASSUME NEW k \in DOMAIN rows
        PROVE  /\ [rows[k] EXCEPT !.enabled = on].claims = rows[k].claims
               /\ [rows[k] EXCEPT !.enabled = on].cert = rows[k].cert
               /\ [rows[k] EXCEPT !.enabled = on].list = rows[k].list
               /\ [rows[k] EXCEPT !.enabled = on].asked = rows[k].asked
    BY RowClaims DEF Row
  <2>7. ASSUME NEW k \in DOMAIN rows
        PROVE  [rows[k] EXCEPT !.enabled = on].enabled = on
    <3>1. rows[k] \in Row
      BY RowClaims
    <3> QED BY <3>1, Zenon DEF Row
  <2>8. ASSUME NEW k \in DOMAIN rows
        PROVE  /\ rows'[k].claims = rows[k].claims /\ rows'[k].cert = rows[k].cert
               /\ rows'[k].list = rows[k].list /\ rows'[k].asked = rows[k].asked
    BY <2>5, <2>6
  <2>9. ASSUME NEW k \in DOMAIN rows, q.kind = "disable", rows'[k].enabled
        PROVE  rows[k].enabled
    <3>1. CASE rows'[k] = rows[k]
      BY <2>9, <3>1, Zenon
    <3>2. CASE rows'[k] = [rows[k] EXCEPT !.enabled = on]
      BY <2>4, <2>7, <2>9, <3>2, Zenon
    <3> QED BY <2>5, <3>1, <3>2
  <2>10. q.kind \notin Claimers => q.kind = "disable"
    BY <2>1 DEF Claimers
  <2> QED BY <2>3, <2>8, <2>9, <2>10, Zenon
<1>4. CASE DeletesRow(r)
  <2>1. /\ DOMAIN rows' = DOMAIN rows \ {reqs[r].key}
        /\ \A k \in DOMAIN rows' : rows'[k] = rows[k]
    BY <1>4 DEF DeletesRow, Done, Without
  <2> QED BY <2>1, Zenon
<1>5. CASE DeletesList(r)
  <2>1. rows' = Detached(reqs[r].key[2]) /\ reqs[r].kind = "unlist"
    BY <1>5 DEF DeletesList, Done, Detached
  <2>2. /\ DOMAIN rows' = DOMAIN rows
        /\ \A k \in DOMAIN rows : /\ rows'[k].claims = rows[k].claims
                                  /\ rows'[k].enabled = rows[k].enabled
                                  /\ rows'[k].cert = rows[k].cert
    BY <2>1, DetachedRows, Zenon
  <2>3. reqs[r].kind \in Listers
    BY <2>1 DEF Listers
  <2> QED BY <2>2, <2>3, Zenon
<1>6. \/ rows' = rows \/ reqs[r].kind \in {"create", "update", "import"}
      \/ SetsEnabled(r) \/ DeletesRow(r) \/ DeletesList(r)
  <2>1. (\E t \in Tables : WritesRow(r, t)) \/ Imports(r)
        => reqs[r].kind \in {"create", "update", "import"}
    BY DEF WritesRow, Imports
  <2> QED BY <2>1, RowsWritten, Zenon
<1> QED BY <1>1, <1>2, <1>3, <1>4, <1>5, <1>6

(* ------------------------------ one owner -------------------------------- *)

LEMMA ClaimParts ==
  /\ ClaimInv <=> Unique(rows) /\ \A r \in Requests : Claimed(rows, reqs[r])
  /\ ClaimInv' <=> Unique(rows') /\ \A r \in Requests : Claimed(rows', reqs'[r])
BY DEF ClaimInv, UniqueClaims, Unique

\* Nothing is claimed that was not.
LEMMA Fewer ==
  ASSUME NEW rs, NEW ss,
         \A k \in DOMAIN ss : /\ k \in DOMAIN rs /\ ss[k].claims = rs[k].claims
                              /\ ss[k].enabled => rs[k].enabled
  PROVE  /\ Unique(rs) => Unique(ss)
         /\ \A q : Claimed(rs, q) => Claimed(ss, q)
<1>1. Unique(rs) => Unique(ss)
  BY Zenon DEF Unique
<1>2. ASSUME NEW t, NEW key, NEW claims, Clashes(ss, t, key, claims)
      PROVE  Clashes(rs, t, key, claims)
  BY <1>2, Zenon DEF Clashes
<1>3. ASSUME NEW q, Cleared(rs, q) PROVE Cleared(ss, q)
  BY <1>2, <1>3, Zenon DEF Cleared
<1>4. ASSUME NEW q, Claimed(rs, q) PROVE Claimed(ss, q)
  BY <1>3, <1>4, Zenon DEF Claimed
<1> QED BY <1>1, <1>4

LEMMA Unclaiming ==
  ASSUME NEW rs
  PROVE  /\ Claimed(rs, Idle)
         /\ \A q : ~Has(q.todo, "write") /\ q.kind # "enable" => Claimed(rs, q)
<1>1. Idle.kind = "none"
  BY IdleIsRequest
<1> QED BY <1>1 DEF Claimed

LEMMA EndingClaims ==
  ASSUME NEW rs, NEW q \in Request, Filled(q)
  PROVE  Claimed(rs, Ending(q))
<1>1. Ending(q) = Idle \/ (Ending(q).todo = <<"discard">> /\ Ending(q).kind \in {"create", "update"})
  BY EndingKeeps
<1>2. ~Has(<<"discard">>, "write")
  BY Pieces
<1>3. CASE Ending(q) = Idle
  BY <1>3, Unclaiming
<1>4. CASE Ending(q).todo = <<"discard">> /\ Ending(q).kind \in {"create", "update"}
  BY <1>2, <1>4, Unclaiming
<1> QED BY <1>1, <1>3, <1>4

\* A request that goes on without a clash in the table it read.
LEMMA GoesOnClaims ==
  ASSUME NEW rs, NEW q \in Request, Filled(q), q.todo # <<>>, Claimed(rs, q),
         Head(q.todo) \in Tables /\ q.kind \in {"create", "update", "enable"}
            => ~Clashes(rs, Head(q.todo), q.key, q.row.claims),
         Head(q.todo) # "read",
         NEW n, n.kind = q.kind, n.key = q.key, n.row.claims = q.row.claims,
         n.row.enabled = q.row.enabled, n.todo = Tail(q.todo)
  PROVE  Claimed(rs, n)
<1>1. \A s : Has(q.todo, s) <=> Head(q.todo) = s \/ Has(n.todo, s)
  BY RequestFields, HasTail
<1>2. Has(n.todo, "read") <=> Has(q.todo, "read")
  BY <1>1
<1>3. \A t \in Tables : t # "read"
  BY DEF Tables, Sites, Listeners
<1>4. \A t \in Rivals(q.key[1]) : t \in Tables
  BY DEF Rivals, Tables
<1>5. ASSUME q.kind \in {"create", "update", "enable"}, Cleared(rs, q)
      PROVE  Cleared(rs, n)
  BY <1>1, <1>4, <1>5, Zenon DEF Cleared
<1>6. ~(q.kind = "enable" /\ Has(q.todo, "read"))
  BY EnableStarts, Zenon DEF Claimed, Filled
<1> QED BY <1>1, <1>2, <1>5, <1>6, Zenon DEF Claimed

LEMMA GoesClaims ==
  ASSUME Typed, NEW r \in Requests, NEW q \in Request, Filled(q), q.todo # <<>>,
         Claimed(rows, q), Head(q.todo) # "read",
         Head(q.todo) \in Tables /\ q.kind \in {"create", "update", "enable"}
            => ~Clashes(rows, Head(q.todo), q.key, q.row.claims),
         Goes(r, q)
  PROVE  Claimed(rows', reqs'[r])
<1> DEFINE n == [q EXCEPT !.todo = Tail(@)]
<1>1. /\ n.kind = q.kind /\ n.key = q.key /\ n.row.claims = q.row.claims
      /\ n.row.enabled = q.row.enabled /\ n.todo = Tail(q.todo)
  <2>1. n.kind = q.kind /\ n.key = q.key /\ n.row = q.row /\ n.todo = Tail(q.todo)
    BY DEF Request
  <2> HIDE DEF n
  <2> QED BY <2>1, Zenon
<1>2. reqs' = [reqs EXCEPT ![r] = n] /\ rows' = rows
  BY DEF Goes, Becomes
<1> HIDE DEF n
<1>3. reqs'[r] = n
  BY <1>2, TypedParts
<1>4. Claimed(rows, n)
  BY <1>1, GoesOnClaims
<1> QED BY <1>2, <1>3, <1>4

LEMMA RefusedClaims ==
  ASSUME Typed, NEW r \in Requests, Refused(r)
  PROVE  Claimed(rows', reqs'[r])
<1>1. reqs[r] \in Request /\ Filled(reqs[r]) /\ reqs'[r] = Ending(reqs[r])
  BY TypedParts DEF Refused, Becomes, Ending
<1> QED BY <1>1, EndingClaims

LEMMA AnsweredClaims ==
  ASSUME Typed, NEW r \in Requests, Answer(r)
  PROVE  Claimed(rows', reqs'[r])
<1>1. reqs'[r] = Idle
  BY TypedParts DEF Answer
<1> QED BY <1>1, Unclaiming

LEMMA ReadsTableClaims ==
  ASSUME Typed, NEW r \in Requests, Claimed(rows, reqs[r]), ReadsTable(r)
  PROVE  Claimed(rows', reqs'[r])
<1> DEFINE q == reqs[r]
<1>1. q \in Request /\ Filled(q)
  BY TypedParts
<1>2. PICK t \in Tables :
        /\ q.todo # <<>> /\ Head(q.todo) = t
        /\ Passes(r, CASE q.kind = "uncert" -> ~UsesCert(t, q.key[2])
                       [] q.kind = "unlist" -> ~UsesList(t, q.key[2])
                       [] OTHER -> ~Clash(t, q.key, q.row.claims))
  BY DEF ReadsTable, At
<1>3. t # "read"
  BY DEF Tables, Sites, Listeners
<1>4. CASE Refused(r)
  BY <1>4, RefusedClaims
<1>5. CASE ~Refused(r)
  <2>1. Goes(r, q) /\ (q.kind \in {"create", "update", "enable"} => ~Clash(t, q.key, q.row.claims))
    BY <1>2, <1>5 DEF Passes
  <2>2. q.kind \in {"create", "update", "enable"} => ~Clashes(rows, t, q.key, q.row.claims)
    BY <2>1, Zenon DEF Clash, Clashes
  <2> QED BY <1>1, <1>2, <1>3, <2>1, <2>2, GoesClaims
<1> QED BY <1>4, <1>5

LEMMA ChecksClaims ==
  ASSUME Typed, NEW r \in Requests, Claimed(rows, reqs[r]),
         Exists(r) \/ ChecksCert(r) \/ ChecksList(r)
  PROVE  Claimed(rows', reqs'[r])
<1> DEFINE q == reqs[r]
<1>1. q \in Request /\ Filled(q)
  BY TypedParts
<1>2. q.todo # <<>> /\ Head(q.todo) \in {"exists", "cert", "list"} /\ (Goes(r, q) \/ Refused(r))
  BY DEF Exists, ChecksCert, ChecksList, At, Passes
<1>3. Head(q.todo) \notin Tables /\ Head(q.todo) # "read"
  BY <1>2 DEF Tables, Sites, Listeners
<1> QED BY <1>1, <1>2, <1>3, GoesClaims, RefusedClaims

LEMMA ReadsRowClaims ==
  ASSUME Typed, NEW r \in Requests, Claimed(rows, reqs[r]), ReadsRow(r)
  PROVE  Claimed(rows', reqs'[r])
<1> DEFINE q == reqs[r]
<1>1. q \in Request /\ Filled(q) /\ q.todo # <<>> /\ Head(q.todo) = "read"
  BY TypedParts DEF ReadsRow, At
<1>2. q.kind = "enable" /\ Has(q.todo, "read") /\ q.key[1] \in Tables
  BY <1>1, RequestFields, HasTail, Zenon DEF Filled
<1>3. q.todo = EnablePlan(q.key[1])
  BY <1>2, Zenon DEF Claimed
<1>4. ~Has(Tail(q.todo), "read") /\ \A u \in Rivals(q.key[1]) : Has(Tail(q.todo), u)
  BY <1>2, <1>3, EnableStarts
<1>5. ASSUME NEW n \in Request, Goes(r, n), n.kind = q.kind, n.key = q.key, n.todo = q.todo,
             n.key \in DOMAIN rows => rows[n.key].claims = n.row.claims
      PROVE  Claimed(rows', reqs'[r])
  <2> DEFINE m == [n EXCEPT !.todo = Tail(@)]
  <2>1. m.kind = n.kind /\ m.key = n.key /\ m.row = n.row /\ m.todo = Tail(n.todo)
    BY DEF Request
  <2>2. rows' = rows /\ reqs' = [reqs EXCEPT ![r] = m]
    BY <1>5 DEF Goes, Becomes
  <2> HIDE DEF m
  <2>3. reqs'[r] = m
    BY <2>2, TypedParts
  <2>4. Cleared(rows, m) /\ ~Has(m.todo, "read") /\ m.kind = "enable"
    BY <1>2, <1>4, <1>5, <2>1 DEF Cleared
  <2>5. m.key \in DOMAIN rows => rows[m.key].claims = m.row.claims
    BY <1>5, <2>1
  <2>6. Claimed(rows, m)
    BY <2>4, <2>5, Zenon DEF Claimed
  <2> QED BY <2>2, <2>3, <2>6
<1>6. CASE q.key \in DOMAIN rows
  <2> DEFINE n == WithClaims(q, rows[q.key].claims)
  <2>1. n \in Request /\ n.kind = q.kind /\ n.key = q.key /\ n.todo = q.todo
        /\ n.row.claims = rows[q.key].claims
    <3>1. rows[q.key].claims \in UNION {Shapes[t] : t \in Tables}
      BY <1>6, RowClaims
    <3> QED BY <1>1, <1>2, <3>1, ReadRowKeeps
  <2>2. Goes(r, n)
    BY <1>6 DEF ReadsRow, WithClaims
  <2> HIDE DEF n
  <2> QED BY <1>5, <2>1, <2>2
<1>7. CASE q.key \notin DOMAIN rows
  <2>1. Goes(r, q)
    BY <1>7 DEF ReadsRow
  <2> QED BY <1>1, <1>5, <1>7, <2>1
<1> QED BY <1>6, <1>7

LEMMA ReadsHashClaims ==
  ASSUME Typed, NEW r \in Requests, ReadsHash(r)
  PROVE  Claimed(rows', reqs'[r])
<1> DEFINE q == reqs[r]
           n == WithHash(q, StoredHash(q.key[2]))
<1>1. q \in Request /\ Filled(q) /\ q.kind = "relist"
  BY TypedParts, RequestFields, HasTail, Zenon DEF Filled, ReadsHash, At
<1>2. Goes(r, q) \/ (Goes(r, n) /\ q.key[2] \in DOMAIN lists) \/ Refused(r)
  BY Zenon DEF ReadsHash, WithHash
<1>3. ASSUME NEW m \in Request, Goes(r, m), m.kind = "relist"
      PROVE  Claimed(rows', reqs'[r])
  <2>1. reqs'[r] = [m EXCEPT !.todo = Tail(@)]
    BY <1>3, TypedParts DEF Goes, Becomes
  <2>2. reqs'[r].kind = "relist"
    BY <1>3, <2>1 DEF Request
  <2> QED BY <2>2 DEF Claimed
<1>4. CASE Goes(r, n) /\ q.key[2] \in DOMAIN lists
  <2>1. StoredHash(q.key[2]) \in Passwords
    BY <1>4, TypedParts DEF ListsOK, StoredHash
  <2>2. n \in Request /\ n.kind = q.kind
    BY <1>1, <2>1, ReadHashKeeps
  <2> HIDE DEF n
  <2> QED BY <1>1, <1>3, <1>4, <2>2
<1> QED BY <1>1, <1>2, <1>3, <1>4, RefusedClaims

LEMMA IssuesClaims ==
  ASSUME Typed, NEW r \in Requests, Claimed(rows, reqs[r]), Issues(r)
  PROVE  Claimed(rows', reqs'[r])
<1> DEFINE q == reqs[r]
<1>1. q \in Request /\ Filled(q) /\ q.todo # <<>> /\ Head(q.todo) = "issue"
  BY TypedParts DEF Issues, At
<1>2. CASE Refused(r)
  BY <1>2, RefusedClaims
<1>3. CASE ~Refused(r)
  <2>1. PICK id \in 1..MaxCerts :
          /\ reqs' = [reqs EXCEPT ![r] = [q EXCEPT !.row = [q.row EXCEPT !.cert = id],
                                                   !.created = id, !.todo = Tail(q.todo)]]
          /\ rows' = rows
    BY <1>3 DEF Issues
  <2> DEFINE row == [q.row EXCEPT !.cert = id]
             n == [q EXCEPT !.row = row, !.created = id, !.todo = Tail(q.todo)]
  <2>2. reqs'[r] = n
    BY <2>1, TypedParts
  <2>3. q.row \in Row
    <3>1. q.kind \in {"create", "update"}
      BY <1>1, RequestFields, HasTail, Zenon DEF Filled
    <3> QED BY <1>1, <3>1 DEF Filled, RowOK
  <2>4. row.claims = q.row.claims
    BY <2>3 DEF Row
  <2>5. row.enabled = q.row.enabled
    BY <2>3, Zenon DEF Row
  <2> HIDE DEF row
  <2>6. n.kind = q.kind /\ n.key = q.key /\ n.row = row /\ n.todo = Tail(q.todo)
    BY <1>1 DEF Request
  <2>7. Head(q.todo) \notin Tables /\ Head(q.todo) # "read"
    BY <1>1 DEF Tables, Sites, Listeners
  <2> HIDE DEF n
  <2>8. n.row.claims = q.row.claims /\ n.row.enabled = q.row.enabled
    BY <2>4, <2>5, <2>6, Zenon
  <2>9. Claimed(rows, n)
    BY <1>1, <2>6, <2>7, <2>8, GoesOnClaims
  <2> QED BY <2>1, <2>2, <2>9
<1> QED BY <1>2, <1>3

LEMMA OwnClaims ==
  ASSUME Typed, NEW r \in Requests, Claimed(rows, reqs[r]), Handles(r) \/ Dropped(r)
  PROVE  Claimed(rows', reqs'[r])
<1>1. CASE \E rs, cs, ls : Done(r, rs, cs, ls)
  BY <1>1, AnsweredClaims DEF Done
<1>2. WritesProxy(r) \/ WritesRedirect(r) \/ WritesDead(r) \/ WritesStream(r) \/ WritesSni(r)
      => Refused(r) \/ \E rs, cs, ls : Done(r, rs, cs, ls)
  BY Zenon DEF WritesProxy, WritesRedirect, WritesDead, WritesStream, WritesSni, WritesRow
<1>3. /\ DiscardsCert(r) => Answer(r)
      /\ WritesCert(r) => \E rs, cs, ls : Done(r, rs, cs, ls)
      /\ SetsEnabled(r) => Refused(r) \/ \E rs, cs, ls : Done(r, rs, cs, ls)
      /\ DeletesRow(r) => \E rs, cs, ls : Done(r, rs, cs, ls)
      /\ WritesList(r) => Refused(r) \/ \E rs, cs, ls : Done(r, rs, cs, ls)
      /\ DeletesList(r) => \E rs, cs, ls : Done(r, rs, cs, ls)
      /\ Imports(r) => Refused(r) \/ \E rs, cs, ls : Done(r, rs, cs, ls)
      /\ Dropped(r) => \E rs, cs, ls : Done(r, rs, cs, ls)
  BY Zenon DEF DiscardsCert, WritesCert, SetsEnabled, DeletesRow, WritesList, DeletesList, Imports,
               Dropped
<1>4. CASE ReadsTable(r) \/ Exists(r) \/ ChecksCert(r) \/ ChecksList(r)
  BY <1>4, ReadsTableClaims, ChecksClaims
<1>5. CASE ReadsRow(r) \/ ReadsHash(r) \/ Issues(r)
  BY <1>5, ReadsRowClaims, ReadsHashClaims, IssuesClaims
<1> QED BY <1>1, <1>2, <1>3, <1>4, <1>5, RefusedClaims, AnsweredClaims, Zenon DEF Handles

LEMMA OneMore ==
  ASSUME Typed, Unique(rows), NEW key \in Keys, NEW ss, DOMAIN ss = DOMAIN rows \cup {key},
         \A k \in DOMAIN rows : k # key => ss[k] = rows[k],
         ss[key].claims \in Shapes[key[1]],
         ss[key].enabled => \A t \in Rivals(key[1]) : ~Clashes(rows, t, key, ss[key].claims)
  PROVE  Unique(ss)
<1>1. ASSUME NEW k \in DOMAIN rows, k # key, rows[k].enabled, ss[key].enabled
      PROVE  rows[k].claims \cap ss[key].claims = {}
  <2>1. /\ k[1] \in Tables /\ rows[k].claims \in Shapes[k[1]] /\ key[1] \in Tables
    BY RowClaims DEF Keys
  <2>2. CASE k[1] \in Rivals(key[1])
    <3>1. ~Clashes(rows, k[1], key, ss[key].claims)
      BY <1>1, <2>2
    <3> QED BY <1>1, <3>1, Zenon DEF Clashes
  <2>3. CASE k[1] \notin Rivals(key[1])
    <3>1. (k[1] \in Sites /\ key[1] \in Listeners) \/ (k[1] \in Listeners /\ key[1] \in Sites)
      BY <2>1, <2>3 DEF Rivals, Tables
    <3>2. CASE k[1] \in Sites /\ key[1] \in Listeners
      BY <2>1, <3>2, RegistryAssumption
    <3>3. CASE k[1] \in Listeners /\ key[1] \in Sites
      <4>1. ss[key].claims \cap rows[k].claims = {}
        BY <2>1, <3>3, RegistryAssumption
      <4> QED BY <4>1
    <3> QED BY <3>1, <3>2, <3>3
  <2> QED BY <2>2, <2>3
<1> SUFFICES ASSUME NEW j \in DOMAIN ss, NEW k \in DOMAIN ss, j # k, ss[j].enabled, ss[k].enabled
    PROVE  ss[j].claims \cap ss[k].claims = {}
  BY Zenon DEF Unique
<1>2. CASE j # key /\ k # key
  <2>1. j \in DOMAIN rows /\ k \in DOMAIN rows /\ ss[j] = rows[j] /\ ss[k] = rows[k]
    BY <1>2
  <2> QED BY <2>1, Zenon DEF Unique
<1>3. CASE j = key /\ k # key
  <2>1. k \in DOMAIN rows /\ ss[k] = rows[k]
    BY <1>3
  <2>2. rows[k].enabled /\ ss[key].enabled
    BY <1>3, <2>1, Zenon
  <2>3. rows[k].claims \cap ss[key].claims = {}
    BY <1>1, <1>3, <2>1, <2>2
  <2> QED BY <1>3, <2>1, <2>3
<1>4. CASE j # key /\ k = key
  <2>1. j \in DOMAIN rows /\ ss[j] = rows[j]
    BY <1>4
  <2>2. rows[j].enabled /\ ss[key].enabled
    BY <1>4, <2>1, Zenon
  <2>3. rows[j].claims \cap ss[key].claims = {}
    BY <1>1, <1>4, <2>1, <2>2
  <2> QED BY <1>4, <2>1, <2>3
<1> QED BY <1>2, <1>3, <1>4

\* At the write nothing is left to check.
LEMMA WriteCleared ==
  ASSUME NEW rs, NEW q \in Request, Filled(q), q.todo # <<>>, Head(q.todo) = "write",
         Claimed(rs, q), (q.kind \in {"create", "update"} /\ q.row.enabled) \/ q.kind = "enable"
  PROVE  /\ \A t \in Rivals(q.key[1]) : ~Clashes(rs, t, q.key, q.row.claims)
         /\ q.kind = "enable" /\ q.key \in DOMAIN rs => rs[q.key].claims = q.row.claims
<1>1. Has(q.todo, "write") /\ \A s : Has(q.todo, s) => s = "write"
  <2>1. \A s : ~Has(Tail(q.todo), s)
    BY RequestFields, LastCalls DEF Filled
  <2> QED BY <2>1, RequestFields, HasTail
<1>2. \A t \in Rivals(q.key[1]) : t # "write"
  BY DEF Rivals, Sites, Listeners
<1>3. ~Has(q.todo, "read")
  BY <1>1
<1>4. Cleared(rs, q) /\ (q.kind = "enable" /\ q.key \in DOMAIN rs => rs[q.key].claims = q.row.claims)
  BY <1>1, <1>3, Zenon DEF Claimed
<1> QED BY <1>1, <1>2, <1>4 DEF Cleared

LEMMA WritesRowUnique ==
  ASSUME Typed, Unique(rows), NEW r \in Requests, Claimed(rows, reqs[r]), NEW t \in Tables,
         WritesRow(r, t)
  PROVE  Unique(rows')
<1> DEFINE q == reqs[r]
<1>1. /\ q \in Request /\ Filled(q) /\ q.kind \in {"create", "update"} /\ q.key[1] = t
      /\ q.todo # <<>> /\ Head(q.todo) = "write"
  BY TypedParts DEF WritesRow, At
<1>2. CASE Refused(r)
  BY <1>2 DEF Refused, Becomes
<1>3. CASE ~Refused(r)
  <2>1. PICK id \in 1..MaxRows : /\ q.kind = "create" \/ id = q.key[2]
                                 /\ Done(r, Insert(rows, <<t, id>>, q.row), certs, lists)
    BY <1>1, <1>3 DEF WritesRow
  <2> DEFINE key == <<t, id>>
  <2>2. key \in Keys /\ key[1] = t /\ key[2] = id
    BY DEF Keys
  <2>3. rows' = Insert(rows, key, q.row)
    BY <2>1 DEF Done
  <2>4. key = q.key \/ q.key \notin DOMAIN rows
    <3>1. CASE q.kind = "create"
      <4>1. q.key[2] = None
        BY <1>1, <3>1 DEF Filled
      <4>2. \A k \in DOMAIN rows : k[2] # None
        BY TypedParts DEF RowsOK, Keys, None
      <4> QED BY <4>1, <4>2
    <3>2. CASE id = q.key[2]
      <4>1. q.key = <<q.key[1], q.key[2]>>
        BY <1>1, RequestFields
      <4> QED BY <1>1, <3>2, <4>1
    <3> QED BY <2>1, <3>1, <3>2
  <2> HIDE DEF key
  <2>5. /\ DOMAIN rows' = DOMAIN rows \cup {key} /\ rows'[key] = q.row
        /\ \A k \in DOMAIN rows : k # key => rows'[k] = rows[k]
    BY <2>3 DEF Insert
  <2>6. q.row.claims \in Shapes[t]
    BY <1>1 DEF Filled, RowOK
  <2>7. ASSUME q.row.enabled, NEW u \in Rivals(t)
        PROVE  ~Clashes(rows, u, key, q.row.claims)
    <3>1. ~Clashes(rows, u, q.key, q.row.claims)
      BY <1>1, <2>7, WriteCleared
    <3>2. ASSUME NEW k \in DOMAIN rows, k # key PROVE k # q.key
      BY <2>4, <3>2
    <3> QED BY <3>1, <3>2, Zenon DEF Clashes
  <2>8. rows'[key].claims \in Shapes[key[1]]
    BY <2>2, <2>5, <2>6
  <2>9. rows'[key].enabled => \A u \in Rivals(key[1]) : ~Clashes(rows, u, key, rows'[key].claims)
    BY <2>2, <2>5, <2>7, Zenon
  <2> QED BY <2>2, <2>5, <2>8, <2>9, OneMore
<1> QED BY <1>2, <1>3

LEMMA SetsEnabledUnique ==
  ASSUME Typed, Unique(rows), NEW r \in Requests, Claimed(rows, reqs[r]),
         SetsEnabled(r), reqs[r].kind = "enable"
  PROVE  Unique(rows')
<1> DEFINE q == reqs[r]
           key == q.key
<1>1. /\ q \in Request /\ Filled(q) /\ q.todo # <<>> /\ Head(q.todo) = "write"
  BY TypedParts DEF SetsEnabled, At
<1>2. CASE key \notin DOMAIN rows
  BY <1>2 DEF SetsEnabled, Refused, Becomes
<1>3. CASE key \in DOMAIN rows
  <2>1. rows' = [rows EXCEPT ![key] = [@ EXCEPT !.enabled = (q.kind = "enable")]]
    BY <1>3 DEF SetsEnabled, Done
  <2>2. rows[key] \in Row /\ rows[key].claims \in Shapes[key[1]] /\ key \in Keys
    BY <1>3, RowClaims, TypedParts DEF RowsOK
  <2>3. /\ DOMAIN rows' = DOMAIN rows \cup {key} /\ rows'[key].claims = rows[key].claims
        /\ \A k \in DOMAIN rows : k # key => rows'[k] = rows[k]
    BY <1>3, <2>1, <2>2 DEF Row
  <2>4. /\ \A t \in Rivals(key[1]) : ~Clashes(rows, t, key, q.row.claims)
        /\ rows[key].claims = q.row.claims
    BY <1>1, <1>3, WriteCleared
  <2> QED BY <2>2, <2>3, <2>4, OneMore
<1> QED BY <1>2, <1>3

LEMMA ImportsUnique ==
  ASSUME Typed, Unique(rows), NEW r \in Requests, Imports(r)
  PROVE  Unique(rows')
<1>1. CASE Refused(r)
  BY <1>1 DEF Refused, Becomes
<1>2. CASE ~Refused(r)
  <2>1. PICK doc \in Docs : DomainsOnce(doc) /\ PortsOnce(doc) /\ rows' = doc.rows
    BY <1>2 DEF Imports, Done, ImportedRows
  <2>2. ASSUME NEW k \in DOMAIN doc.rows
        PROVE  doc.rows[k].claims \in Shapes[k[1]] /\ k[1] \in Sites \cup Listeners
    BY RegistryAssumption DEF Document, RowOK, Keys, Tables
  <2>3. ASSUME NEW j \in DOMAIN doc.rows, NEW k \in DOMAIN doc.rows, j # k,
               doc.rows[j].enabled, doc.rows[k].enabled
        PROVE  doc.rows[j].claims \cap doc.rows[k].claims = {}
    <3>1. CASE j[1] \in Sites /\ k[1] \in Sites
      BY <2>1, <2>3, <3>1, Zenon DEF DomainsOnce, ClaimsOnce
    <3>2. CASE j[1] \in Listeners /\ k[1] \in Listeners
      BY <2>1, <2>3, <3>2, Zenon DEF PortsOnce, ClaimsOnce
    <3>3. CASE j[1] \in Sites /\ k[1] \in Listeners
      BY <2>2, <3>3, RegistryAssumption
    <3>4. CASE j[1] \in Listeners /\ k[1] \in Sites
      <4>1. doc.rows[k].claims \cap doc.rows[j].claims = {}
        BY <2>2, <3>4, RegistryAssumption
      <4> QED BY <4>1
    <3> QED BY <2>2, <3>1, <3>2, <3>3, <3>4
  <2> QED BY <2>1, <2>3, Zenon DEF Unique
<1> QED BY <1>1, <1>2

\* The rows stay apart, whoever changes them.
LEMMA UniqueStep ==
  ASSUME Typed, Unique(rows), NEW r \in Requests, Claimed(rows, reqs[r]), Handles(r) \/ Dropped(r)
  PROVE  Unique(rows')
<1>1. CASE reqs[r].kind \notin Claimers
  BY <1>1, RowsStep, Fewer
<1>2. CASE SetsEnabled(r) /\ reqs[r].kind = "enable"
  BY <1>2, SetsEnabledUnique
<1>3. CASE Imports(r)
  BY <1>3, ImportsUnique
<1>4. CASE \E t \in Tables : WritesRow(r, t)
  BY <1>4, WritesRowUnique
<1>5. CASE rows' = rows
  BY <1>5
<1>6. CASE reqs[r].kind \in Claimers
  <2>1. /\ ~DeletesRow(r) /\ ~DeletesList(r)
        /\ SetsEnabled(r) => reqs[r].kind = "enable"
    BY <1>6 DEF DeletesRow, DeletesList, SetsEnabled, Claimers
  <2> QED BY <1>2, <1>3, <1>4, <1>5, <2>1, RowsWritten, Zenon
<1> QED BY <1>1, <1>6

LEMMA ClaimsInit == Init => ClaimInv
<1> SUFFICES ASSUME Init PROVE ClaimInv
  OBVIOUS
<1>1. DOMAIN rows = {} /\ \A r \in Requests : reqs[r] = Idle
  BY DEF Init, Empty
<1> QED BY <1>1, Unclaiming, ClaimParts DEF Unique

LEMMA ClaimsNext ==
  ASSUME Typed, Alone(Claimers), ClaimInv, [Next]_vars
  PROVE  ClaimInv'
<1>0. Unique(rows) /\ \A r \in Requests : Claimed(rows, reqs[r])
  BY ClaimParts
<1>1. ASSUME NEW r \in Requests, NEW q \in Asks, Arrive(r, q) PROVE ClaimInv'
  <2>1. rows' = rows /\ reqs' = [reqs EXCEPT ![r] = q] /\ reqs \in [Requests -> Request]
    BY <1>1, TypedParts DEF Arrive
  <2>2. Claimed(rows, q)
    BY AsksAreAsked, Zenon DEF Asked, Claimed, Cleared
  <2> QED BY <1>0, <2>1, <2>2, ClaimParts
<1>2. ASSUME NEW r \in Requests, Handles(r) \/ Dropped(r) PROVE ClaimInv'
  <2>1. Unique(rows') /\ Claimed(rows', reqs'[r])
    BY <1>0, <1>2, UniqueStep, OwnClaims
  <2>2. ASSUME NEW x \in Requests, x # r PROVE Claimed(rows', reqs'[x])
    <3>1. reqs'[x] = reqs[x] /\ Claimed(rows, reqs[x])
      BY <1>0, <1>2, <2>2, RequestStep
    <3>2. CASE reqs[r].kind \notin Claimers
      BY <1>2, <3>1, <3>2, RowsStep, Fewer
    <3>3. CASE reqs[x].kind \notin Claimers
      BY <3>1, <3>3 DEF Claimed, Claimers
    <3> QED BY <2>2, <3>2, <3>3 DEF Alone
  <2> QED BY <2>1, <2>2, ClaimParts
<1>3. CASE UNCHANGED vars
  BY <1>0, <1>3, ClaimParts DEF vars
<1> QED BY <1>1, <1>2, <1>3 DEF Next, NextOf

\* If creates, edits, enables and imports are handled one at a time, no name has two owners:
\* the tables a handler has checked stay free of the names it claims until it writes.
THEOREM OneOwner ==
  ASSUME \E group \in Serial : Claimers \subseteq group
  PROVE  Spec => []UniqueClaims
<1>1. PICK group \in Serial : Claimers \subseteq group
  OBVIOUS
<1>2. Init => Alone(group)
  BY AloneInit
<1>3. Typed /\ Alone(group) /\ [Next]_vars => Alone(group)'
  BY AloneNext
<1>4. Typed /\ Alone(group) /\ ClaimInv /\ [Next]_vars => ClaimInv'
  BY <1>1, ClaimsNext DEF Alone
<1>5. ClaimInv => UniqueClaims
  BY DEF ClaimInv
<1> QED BY <1>2, <1>3, <1>4, <1>5, ClaimsInit, TypedHolds, PTL DEF Spec

(* ---------------------------- certificates ------------------------------- *)

\* What the rows, the certificates and the requests say of who holds a certificate.
Owned(rs, cs, rq) ==
    \A i \in DOMAIN cs :
        cs[i] # None => rq[cs[i]].created = i /\ \A k \in DOMAIN rs : rs[k].cert # i

LEMMA CertParts ==
  (CertInv <=> Owned(rows, certs, reqs)) /\ (CertInv' <=> Owned(rows', certs', reqs'))
BY DEF CertInv, Owned, InUse

\* A request that is not answered yet keeps its certificate.
LEMMA BecomesOwned ==
  ASSUME Typed, CertInv, NEW r \in Requests, NEW q, Becomes(r, q), q.created = reqs[r].created
  PROVE  CertInv'
<1>1. /\ rows' = rows /\ certs' = certs
      /\ \A x \in Requests : reqs'[x].created = reqs[x].created
  BY TypedParts DEF Becomes
<1>2. \A i \in DOMAIN certs : certs[i] \in Requests \cup {None}
  BY TypedParts DEF CertsOK
<1> QED BY <1>1, <1>2, CertParts DEF Owned

LEMMA RefusedOwned ==
  ASSUME Typed, CertInv, NEW r \in Requests, Refused(r)
  PROVE  CertInv'
<1>1. Becomes(r, Ending(reqs[r])) /\ Ending(reqs[r]).created = reqs[r].created
  BY EndingKeeps, TypedParts DEF Refused, Ending
<1> QED BY <1>1, BecomesOwned

LEMMA GoesOwned ==
  ASSUME Typed, CertInv, NEW r \in Requests, NEW q \in Request, Goes(r, q),
         q.created = reqs[r].created
  PROVE  CertInv'
<1> DEFINE n == [q EXCEPT !.todo = Tail(@)]
<1>1. Becomes(r, n)
  BY DEF Goes
<1>2. n.created = q.created
  BY DEF Request
<1> HIDE DEF n
<1> QED BY <1>1, <1>2, BecomesOwned

\* An answer gives up the certificate of the request, and leaves those of the others.
LEMMA DoneOwned ==
  ASSUME Typed, CertInv, NEW r \in Requests, NEW rs, NEW cs, NEW ls, Done(r, rs, cs, ls),
         \A i \in DOMAIN cs : cs[i] \notin {None, r} =>
             /\ i \in DOMAIN certs /\ cs[i] = certs[i]
             /\ \A k \in DOMAIN rs : rs[k].cert # i
  PROVE  CertInv'
<1>1. /\ rows' = rs /\ certs' = Forgets(r, cs)
      /\ \A x \in Requests : x # r => reqs'[x] = reqs[x]
  BY TypedParts DEF Done, Answer
<1>2. /\ DOMAIN certs' = DOMAIN cs
      /\ \A i \in DOMAIN cs : certs'[i] = IF cs[i] = r THEN None ELSE cs[i]
  BY <1>1 DEF Forgets
<1>3. ASSUME NEW i \in DOMAIN certs', certs'[i] # None
      PROVE  reqs'[certs'[i]].created = i /\ \A k \in DOMAIN rows' : rows'[k].cert # i
  <2>1. /\ cs[i] \notin {None, r} /\ certs'[i] = cs[i] /\ i \in DOMAIN certs /\ cs[i] = certs[i]
        /\ \A k \in DOMAIN rs : rs[k].cert # i
    BY <1>2, <1>3
  <2>2. certs[i] \in Requests /\ reqs[certs[i]].created = i
    BY <2>1, TypedParts, CertParts DEF Owned, CertsOK
  <2>3. reqs'[certs[i]] = reqs[certs[i]]
    BY <1>1, <2>1, <2>2
  <2> QED BY <1>1, <2>1, <2>2, <2>3
<1> QED BY <1>3, CertParts DEF Owned

LEMMA ReadsOwned ==
  ASSUME Typed, CertInv, NEW r \in Requests,
         \/ ReadsTable(r) \/ Exists(r) \/ ChecksCert(r) \/ ChecksList(r)
         \/ ReadsRow(r) \/ ReadsHash(r)
  PROVE  CertInv'
<1> DEFINE q == reqs[r]
<1>1. q \in Request /\ Filled(q)
  BY TypedParts
<1>2. CASE Goes(r, q)
  BY <1>1, <1>2, GoesOwned
<1>3. CASE Refused(r)
  BY <1>3, RefusedOwned
<1>4. CASE ReadsTable(r) \/ Exists(r) \/ ChecksCert(r) \/ ChecksList(r)
  <2>1. Goes(r, q) \/ Refused(r)
    BY <1>4, Zenon DEF ReadsTable, Exists, ChecksCert, ChecksList, Passes
  <2> QED BY <1>2, <1>3, <2>1
<1>5. CASE ReadsRow(r)
  <2> DEFINE n == WithClaims(q, rows[q.key].claims)
  <2>1. Goes(r, q) \/ (Goes(r, n) /\ q.key \in DOMAIN rows)
    BY <1>5 DEF ReadsRow, WithClaims
  <2>2. CASE Goes(r, n) /\ q.key \in DOMAIN rows
    <3>1. q.kind = "enable"
      BY <1>1, <1>5, RequestFields, HasTail, Zenon DEF Filled, ReadsRow, At
    <3>2. n \in Request /\ n.created = q.created
      BY <1>1, <2>2, <3>1, ReadRowKeeps, RowClaims
    <3> HIDE DEF n
    <3> QED BY <2>2, <3>2, GoesOwned
  <2> QED BY <1>2, <2>1, <2>2
<1>6. CASE ReadsHash(r)
  <2> DEFINE n == WithHash(q, StoredHash(q.key[2]))
  <2>1. Goes(r, q) \/ (Goes(r, n) /\ q.key[2] \in DOMAIN lists) \/ Refused(r)
    BY <1>6, Zenon DEF ReadsHash, WithHash
  <2>2. CASE Goes(r, n) /\ q.key[2] \in DOMAIN lists
    <3>1. q.kind = "relist"
      BY <1>1, <1>6, RequestFields, HasTail, Zenon DEF Filled, ReadsHash, At
    <3>2. StoredHash(q.key[2]) \in Passwords
      BY <2>2, TypedParts DEF ListsOK, StoredHash
    <3>3. n \in Request /\ n.created = q.created
      BY <1>1, <3>1, <3>2, ReadHashKeeps
    <3> HIDE DEF n
    <3> QED BY <2>2, <3>3, GoesOwned
  <2> QED BY <1>2, <1>3, <2>1, <2>2
<1> QED BY <1>4, <1>5, <1>6

\* The id of a new certificate is nobody's yet.
LEMMA IssuesOwned ==
  ASSUME Typed, CertInv, NEW r \in Requests, Issues(r)
  PROVE  CertInv'
<1> DEFINE q == reqs[r]
<1>1. q \in Request /\ Filled(q) /\ q.todo # <<>> /\ Head(q.todo) = "issue"
  BY TypedParts DEF Issues, At
<1>2. CASE Refused(r)
  BY <1>2, RefusedOwned
<1>3. CASE ~Refused(r)
  <2>1. PICK id \in 1..MaxCerts :
          /\ IsNextId(id, DOMAIN certs) /\ certs' = Insert(certs, id, r)
          /\ reqs' = [reqs EXCEPT ![r] = [q EXCEPT !.row = [q.row EXCEPT !.cert = id],
                                                   !.created = id, !.todo = Tail(q.todo)]]
          /\ UNCHANGED <<rows, lists>>
    BY <1>3 DEF Issues
  <2>2. reqs'[r].created = id /\ \A x \in Requests : x # r => reqs'[x] = reqs[x]
    BY <1>1, <2>1, TypedParts DEF Request
  <2>3. /\ DOMAIN certs' = DOMAIN certs \cup {id}
        /\ \A i \in DOMAIN certs' : certs'[i] = IF i = id THEN r ELSE certs[i]
    BY <2>1 DEF Insert
  <2>4. q.created = None
    BY <1>1, RequestFields, HasTail, Zenon DEF Filled
  <2>5. DOMAIN certs \subseteq 1..MaxCerts /\ id \notin DOMAIN certs /\ None \notin 1..MaxCerts
    BY <2>1, TypedParts, RegistryAssumption DEF CertsOK, IsNextId, None
  <2>6. \A k \in DOMAIN rows : rows[k].cert # id
    BY <2>5, TypedParts DEF RowsOK
  <2>7. ASSUME NEW i \in DOMAIN certs', certs'[i] # None
        PROVE  reqs'[certs'[i]].created = i /\ \A k \in DOMAIN rows' : rows'[k].cert # i
    <3>1. CASE i = id
      BY <2>1, <2>2, <2>3, <2>6, <3>1
    <3>2. CASE i # id
      <4>1. i \in DOMAIN certs /\ certs'[i] = certs[i] /\ certs[i] \in Requests
        BY <2>3, <2>7, <3>2, TypedParts DEF CertsOK
      <4>2. reqs[certs[i]].created = i /\ \A k \in DOMAIN rows : rows[k].cert # i
        BY <2>7, <4>1, CertParts DEF Owned
      <4>3. certs[i] # r
        BY <2>4, <2>5, <4>1, <4>2
      <4> QED BY <2>1, <2>2, <4>1, <4>2, <4>3
    <3> QED BY <3>1, <3>2
  <2> QED BY <2>7, CertParts DEF Owned
<1> QED BY <1>2, <1>3

LEMMA DiscardsOwned ==
  ASSUME Typed, CertInv, NEW r \in Requests, DiscardsCert(r)
  PROVE  CertInv'
<1> DEFINE id == reqs[r].created
<1>1. /\ rows' = rows /\ \A x \in Requests : x # r => reqs'[x] = reqs[x]
  BY TypedParts DEF DiscardsCert, Answer
<1>2. \A i \in DOMAIN certs' : i \in DOMAIN certs /\ certs'[i] \in {certs[i], None}
  BY DEF DiscardsCert, Discarded, Without
<1>3. id \in DOMAIN certs' => certs'[id] = None
  <2> HIDE DEF id
  <2>1. certs' = Discarded(id)
    BY DEF DiscardsCert, id
  <2> QED BY <2>1 DEF Discarded, Without
<1>4. ASSUME NEW i \in DOMAIN certs', certs'[i] # None
      PROVE  reqs'[certs'[i]].created = i /\ \A k \in DOMAIN rows' : rows'[k].cert # i
  <2>1. i \in DOMAIN certs /\ certs'[i] = certs[i] /\ certs[i] \in Requests /\ i # id
    BY <1>2, <1>3, <1>4, TypedParts DEF CertsOK
  <2>2. reqs[certs[i]].created = i /\ \A k \in DOMAIN rows : rows[k].cert # i
    BY <1>4, <2>1, CertParts DEF Owned
  <2>3. certs[i] # r
    BY <2>1, <2>2
  <2> QED BY <1>1, <2>1, <2>2, <2>3
<1> QED BY <1>4, CertParts DEF Owned

\* While one request creates or edits a host, no certificate is another's.
LEMMA WritesOwned ==
  ASSUME Typed, Alone(Issuers), CertInv, NEW r \in Requests, NEW rs, NEW ls,
         reqs[r].kind \in Issuers, Done(r, rs, certs, ls)
  PROVE  CertInv'
<1>1. ASSUME NEW i \in DOMAIN certs, certs[i] \notin {None, r}
      PROVE  FALSE
  <2>1. certs[i] \in Requests /\ i # None /\ reqs[certs[i]].created = i
    BY <1>1, TypedParts, CertParts, RegistryAssumption DEF CertsOK, Owned, None
  <2>2. reqs[certs[i]].kind \in Issuers
    BY <2>1, TypedParts DEF Filled, Issuers
  <2> QED BY <1>1, <2>1, <2>2 DEF Alone
<1> QED BY <1>1, DoneOwned

LEMMA OwnedStep ==
  ASSUME Typed, Alone(Issuers), CertInv, NEW r \in Requests, Handles(r) \/ Dropped(r)
  PROVE  CertInv'
<1>0. /\ \A i \in DOMAIN certs : certs[i] # None => \A k \in DOMAIN rows : rows[k].cert # i
      /\ reqs[r].kind \notin {"create", "update", "import"} =>
            \A k \in DOMAIN rows' : k \in DOMAIN rows /\ rows'[k].cert = rows[k].cert
  BY CertParts, RowsStep DEF Owned
<1>1. ASSUME NEW rs, NEW cs, NEW ls, Done(r, rs, cs, ls), rs = rows
             \/ reqs[r].kind \notin {"create", "update", "import"},
             \A i \in DOMAIN cs : cs[i] # None => i \in DOMAIN certs /\ cs[i] = certs[i]
      PROVE  CertInv'
  <2>1. rows' = rs
    BY <1>1 DEF Done
  <2>2. ASSUME NEW i \in DOMAIN cs, cs[i] \notin {None, r}
        PROVE  /\ i \in DOMAIN certs /\ cs[i] = certs[i]
               /\ \A k \in DOMAIN rs : rs[k].cert # i
    BY <1>0, <1>1, <2>1, <2>2
  <2> QED BY <1>1, <2>2, DoneOwned
<1>2. CASE Refused(r)
  BY <1>2, RefusedOwned
<1>3. CASE \E t \in Tables : WritesRow(r, t)
  <2>1. Refused(r) \/ \E rs, ls : Done(r, rs, certs, ls)
    BY <1>3, Zenon DEF WritesRow
  <2>2. reqs[r].kind \in Issuers
    BY <1>3 DEF WritesRow, Issuers
  <2> QED BY <1>2, <2>1, <2>2, WritesOwned
<1>4. CASE WritesCert(r)
  <2>1. PICK cs : /\ Done(r, rows, cs, lists)
                  /\ \A i \in DOMAIN cs : cs[i] # None => i \in DOMAIN certs /\ cs[i] = certs[i]
    <3>1. CASE reqs[r].kind = "issue"
      <4>1. PICK id \in 1..MaxCerts : Done(r, rows, Insert(certs, id, None), lists)
        BY <1>4, <3>1 DEF WritesCert
      <4>2. ASSUME NEW i \in DOMAIN Insert(certs, id, None), Insert(certs, id, None)[i] # None
            PROVE  i \in DOMAIN certs /\ Insert(certs, id, None)[i] = certs[i]
        BY <4>2 DEF Insert
      <4> QED BY <4>1, <4>2
    <3>2. CASE reqs[r].kind = "uncert"
      <4> DEFINE id == reqs[r].key[2]
      <4>1. Done(r, rows, Unissued(id), lists)
        BY <1>4, <3>2 DEF WritesCert
      <4> HIDE DEF id
      <4>2. ASSUME NEW i \in DOMAIN Unissued(id)
            PROVE  i \in DOMAIN certs /\ Unissued(id)[i] = certs[i]
        BY <4>2 DEF Unissued, Without
      <4> QED BY <4>1, <4>2
    <3> QED BY <1>4, <3>1, <3>2 DEF WritesCert
  <2> QED BY <1>1, <2>1
<1>5. CASE SetsEnabled(r) \/ DeletesRow(r) \/ WritesList(r) \/ DeletesList(r) \/ Dropped(r)
  <2>1. Refused(r) \/ \E rs, ls : /\ Done(r, rs, certs, ls)
                                  /\ rs = rows \/ ~(reqs[r].kind \in {"create", "update", "import"})
    <3>1. reqs[r].kind \in {"enable", "disable", "delete", "unlist"}
          => ~(reqs[r].kind \in {"create", "update", "import"})
      OBVIOUS
    <3> QED BY <1>5, <3>1 DEF SetsEnabled, DeletesRow, WritesList, DeletesList, Dropped
  <2> QED BY <1>1, <1>2, <2>1
<1>6. CASE Imports(r)
  <2>1. CASE ~Refused(r)
    <3>1. PICK doc \in Docs : Done(r, doc.rows, [c \in doc.certs |-> None], doc.lists)
      BY <1>6, <2>1 DEF Imports, ImportedRows
    <3> QED BY <3>1, DoneOwned
  <2> QED BY <1>2, <2>1
<1>7. WritesProxy(r) \/ WritesRedirect(r) \/ WritesDead(r) \/ WritesStream(r) \/ WritesSni(r)
      => \E t \in Tables : WritesRow(r, t)
  BY DEF WritesProxy, WritesRedirect, WritesDead, WritesStream, WritesSni, Tables, Sites, Listeners
<1> QED BY <1>3, <1>4, <1>5, <1>6, <1>7, ReadsOwned, IssuesOwned, DiscardsOwned, Zenon DEF Handles

LEMMA CertInit == Init => CertInv
BY DEF Init, CertInv, Empty

LEMMA CertNext ==
  ASSUME Typed, Alone(Issuers), CertInv, [Next]_vars
  PROVE  CertInv'
<1>1. ASSUME NEW r \in Requests, NEW q \in Asks, Arrive(r, q) PROVE CertInv'
  <2>1. Becomes(r, q) /\ q.created = reqs[r].created
    BY <1>1, AsksAreAsked, IdleIsRequest DEF Arrive, Becomes, Asked
  <2> QED BY <2>1, BecomesOwned
<1>2. ASSUME NEW r \in Requests, Handles(r) \/ Dropped(r) PROVE CertInv'
  BY <1>2, OwnedStep
<1>3. CASE UNCHANGED vars
  BY <1>3, CertParts DEF vars
<1> QED BY <1>1, <1>2, <1>3 DEF Next, NextOf

\* If creates and edits are handled one at a time, no certificate issued for a host is left
\* behind: until the host is written it is in no other row, so a refused request can take
\* it back.
THEOREM NoneLeft ==
  ASSUME \E group \in Serial : Issuers \subseteq group
  PROVE  Spec => []NoOrphanCert
<1>1. PICK group \in Serial : Issuers \subseteq group
  OBVIOUS
<1>2. Init => Alone(group)
  BY AloneInit
<1>3. Typed /\ Alone(group) /\ [Next]_vars => Alone(group)'
  BY AloneNext
<1>4. Typed /\ Alone(group) /\ CertInv /\ [Next]_vars => CertInv'
  BY <1>1, CertNext DEF Alone
<1>5. CertInv => NoOrphanCert
  BY DEF CertInv, NoOrphanCert
<1> QED BY <1>2, <1>3, <1>4, <1>5, CertInit, TypedHolds, PTL DEF Spec
(* ---------------------------- access lists ------------------------------- *)

\* The rows have the list they were given.
Kept(rs) == \A k \in DOMAIN rs : rs[k].list = rs[k].asked

LEMMA ListParts ==
  /\ ListInv <=> Kept(rows) /\ \A r \in Requests : Unlisted(rows, reqs[r])
  /\ ListInv' <=> Kept(rows') /\ \A r \in Requests : Unlisted(rows', reqs'[r])
BY DEF ListInv, AccessKept, Kept

\* A request to delete a list is answered, or has one call less to make.
LEMMA UnlistStep ==
  ASSUME Typed, NEW r \in Requests, reqs[r].kind = "unlist", Handles(r) \/ Dropped(r)
  PROVE  \/ reqs'[r] = Idle
         \/ /\ reqs'[r] = [reqs[r] EXCEPT !.todo = Tail(@)] /\ rows' = rows
            /\ reqs[r].todo # <<>>
            /\ Head(reqs[r].todo) = "proxy" => ~UsesList("proxy", reqs[r].key[2])
<1> DEFINE q == reqs[r]
<1>1. q \in Request /\ Filled(q) /\ reqs \in [Requests -> Request]
  BY TypedParts
<1>2. CASE Refused(r)
  <2>1. reqs'[r] = Ending(q)
    BY <1>1, <1>2 DEF Refused, Becomes, Ending
  <2> QED BY <1>1, <2>1, EndingKeeps
<1>3. CASE Answer(r)
  BY <1>1, <1>3 DEF Answer
<1>4. CASE Goes(r, q) /\ q.todo # <<>> /\ (Head(q.todo) = "proxy" => ~UsesList("proxy", q.key[2]))
  BY <1>1, <1>4 DEF Goes, Becomes
<1>5. CASE ReadsTable(r)
  <2>1. PICK t \in Tables : At(r, t) /\ Passes(r, ~UsesList(t, q.key[2]))
    BY <1>5 DEF ReadsTable
  <2>2. Refused(r) \/ (Goes(r, q) /\ ~UsesList(t, q.key[2]))
    BY <2>1, Zenon DEF Passes
  <2> QED BY <1>2, <1>4, <2>1, <2>2 DEF At
<1>6. CASE Exists(r) \/ ChecksCert(r) \/ ChecksList(r)
  <2>1. q.todo # <<>> /\ Head(q.todo) # "proxy"
    BY <1>6 DEF Exists, ChecksCert, ChecksList, At
  <2>2. Refused(r) \/ Goes(r, q)
    BY <1>6, Zenon DEF Exists, ChecksCert, ChecksList, Passes
  <2> QED BY <1>2, <1>4, <2>1, <2>2
<1>7. ~ReadsRow(r) /\ ~ReadsHash(r) /\ ~Issues(r)
  <2>1. ~Has(q.todo, "read") /\ ~Has(q.todo, "hash") /\ ~Has(q.todo, "issue")
    BY <1>1 DEF Filled
  <2> QED BY <1>1, <2>1, RequestFields, HasTail DEF ReadsRow, ReadsHash, Issues, At
<1>8. WritesProxy(r) \/ WritesRedirect(r) \/ WritesDead(r) \/ WritesStream(r) \/ WritesSni(r)
      => Refused(r) \/ Answer(r)
  BY Zenon DEF WritesProxy, WritesRedirect, WritesDead, WritesStream, WritesSni, WritesRow, Done
<1>9. /\ DiscardsCert(r) => Answer(r)
      /\ WritesCert(r) => Answer(r)
      /\ SetsEnabled(r) => Refused(r) \/ Answer(r)
      /\ DeletesRow(r) => Answer(r)
      /\ WritesList(r) => Refused(r) \/ Answer(r)
      /\ DeletesList(r) => Answer(r)
      /\ Imports(r) => Refused(r) \/ Answer(r)
      /\ Dropped(r) => Answer(r)
  BY Zenon DEF DiscardsCert, WritesCert, SetsEnabled, DeletesRow, WritesList, DeletesList, Imports,
               Dropped, Done
<1> QED BY <1>2, <1>3, <1>5, <1>6, <1>7, <1>8, <1>9, Zenon DEF Handles

LEMMA OwnUnlisted ==
  ASSUME Typed, NEW r \in Requests, Unlisted(rows, reqs[r]), Handles(r) \/ Dropped(r)
  PROVE  Unlisted(rows', reqs'[r])
<1> DEFINE q == reqs[r]
<1>1. q \in Request
  BY TypedParts
<1>2. CASE q.kind # "unlist"
  <2>1. reqs'[r].kind # "unlist"
    BY <1>2, RequestStep
  <2> QED BY <2>1 DEF Unlisted
<1>3. CASE q.kind = "unlist" /\ reqs'[r] = Idle
  BY <1>3, IdleIsRequest DEF Unlisted
<1>4. CASE /\ q.kind = "unlist" /\ reqs'[r] = [q EXCEPT !.todo = Tail(@)] /\ rows' = rows
           /\ q.todo # <<>>
           /\ Head(q.todo) = "proxy" => ~UsesList("proxy", q.key[2])
  <2>1. reqs'[r].kind = "unlist" /\ reqs'[r].key = q.key /\ reqs'[r].todo = Tail(q.todo)
    BY <1>1, <1>4 DEF Request
  <2>2. \/ Head(q.todo) = "proxy" \/ Has(Tail(q.todo), "proxy")
        \/ \A k \in DOMAIN rows : k[1] = "proxy" => rows[k].list # q.key[2]
    BY <1>1, <1>4, RequestFields, HasTail DEF Unlisted
  <2>3. Head(q.todo) = "proxy" => \A k \in DOMAIN rows : k[1] = "proxy" => rows[k].list # q.key[2]
    BY <1>4 DEF UsesList
  <2> QED BY <1>4, <2>1, <2>2, <2>3 DEF Unlisted
<1> QED BY <1>2, <1>3, <1>4, UnlistStep

\* Who deletes a list has seen that no host has it, and only hosts have one.
LEMMA DeletesListKept ==
  ASSUME Typed, Kept(rows), NEW r \in Requests, Unlisted(rows, reqs[r]), DeletesList(r)
  PROVE  Kept(rows')
<1> DEFINE q == reqs[r]
           id == q.key[2]
<1>1. /\ q \in Request /\ Filled(q) /\ q.kind = "unlist" /\ q.todo # <<>>
      /\ Head(q.todo) = "write" /\ rows' = Detached(id)
  BY TypedParts DEF DeletesList, At, Done, Detached
<1>2. ~Has(q.todo, "proxy")
  <2>1. ~Has(Tail(q.todo), "proxy")
    BY <1>1, RequestFields, LastCalls DEF Filled
  <2> QED BY <1>1, <2>1, RequestFields, HasTail
<1>3. \A k \in DOMAIN rows : k[1] = "proxy" => rows[k].list # id
  BY <1>1, <1>2 DEF Unlisted
<1>4. \A k \in DOMAIN rows : k[1] # "proxy" => rows[k].list = None
  BY TypedParts DEF RowsOK, RowOK
<1> HIDE DEF id
<1>5. /\ DOMAIN rows' = DOMAIN rows
      /\ \A k \in DOMAIN rows :
            /\ rows'[k].asked = rows[k].asked
            /\ rows'[k].list = (IF rows[k].list = id THEN None ELSE rows[k].list)
  BY <1>1, DetachedRows
<1> QED BY <1>3, <1>4, <1>5 DEF Kept

LEMMA KeptStep ==
  ASSUME Typed, Kept(rows), NEW r \in Requests, Unlisted(rows, reqs[r]), Handles(r) \/ Dropped(r)
  PROVE  Kept(rows')
<1>1. CASE rows' = rows
  BY <1>1
<1>2. CASE reqs[r].kind \notin Listers
  BY <1>2, RowsStep DEF Kept
<1>3. ASSUME NEW t \in Tables, WritesRow(r, t)
      PROVE  Kept(rows')
  <2>1. CASE Refused(r)
    BY <2>1 DEF Refused, Becomes
  <2>2. CASE ~Refused(r)
    <3> DEFINE q == reqs[r]
    <3>1. PICK key : rows' = Insert(rows, key, q.row)
      BY <1>3, <2>2 DEF WritesRow, Done
    <3>2. q.row.asked = q.row.list
      BY <1>3, TypedParts DEF Filled, WritesRow
    <3>3. DOMAIN rows' = DOMAIN rows \cup {key} /\ rows'[key] = q.row
          /\ \A k \in DOMAIN rows : k # key => rows'[k] = rows[k]
      BY <3>1 DEF Insert
    <3> QED BY <3>2, <3>3 DEF Kept
  <2> QED BY <2>1, <2>2
<1>4. CASE Imports(r)
  <2>1. CASE Refused(r)
    BY <2>1 DEF Refused, Becomes
  <2>2. CASE ~Refused(r)
    <3>1. PICK doc \in Docs : rows' = doc.rows
      BY <1>4, <2>2 DEF Imports, Done, ImportedRows
    <3> QED BY <3>1, RegistryAssumption DEF Kept, Document
  <2> QED BY <2>1, <2>2
<1>5. CASE DeletesList(r)
  BY <1>5, DeletesListKept
<1>6. CASE SetsEnabled(r) \/ DeletesRow(r)
  <2>1. reqs[r].kind \notin Listers
    BY <1>6 DEF SetsEnabled, DeletesRow, Listers
  <2> QED BY <1>2, <2>1
<1> QED BY <1>1, <1>3, <1>4, <1>5, <1>6, RowsWritten, Zenon

LEMMA ListInit == Init => ListInv
<1> SUFFICES ASSUME Init PROVE ListInv
  OBVIOUS
<1>1. DOMAIN rows = {} /\ \A r \in Requests : reqs[r].kind = "none"
  BY IdleIsRequest DEF Init, Empty
<1> QED BY <1>1, ListParts DEF Kept, Unlisted

LEMMA ListNext ==
  ASSUME Typed, Alone(Listers), ListInv, [Next]_vars
  PROVE  ListInv'
<1>0. Kept(rows) /\ \A r \in Requests : Unlisted(rows, reqs[r])
  BY ListParts
<1>1. ASSUME NEW r \in Requests, NEW q \in Asks, Arrive(r, q) PROVE ListInv'
  <2>1. rows' = rows /\ reqs' = [reqs EXCEPT ![r] = q] /\ reqs \in [Requests -> Request]
    BY <1>1, TypedParts DEF Arrive
  <2>2. Unlisted(rows, q)
    BY AsksAreAsked, Zenon DEF Asked, Unlisted
  <2> QED BY <1>0, <2>1, <2>2, ListParts
<1>2. ASSUME NEW r \in Requests, Handles(r) \/ Dropped(r) PROVE ListInv'
  <2>1. Kept(rows') /\ Unlisted(rows', reqs'[r])
    BY <1>0, <1>2, KeptStep, OwnUnlisted
  <2>2. ASSUME NEW x \in Requests, x # r PROVE Unlisted(rows', reqs'[x])
    <3>1. reqs'[x] = reqs[x] /\ Unlisted(rows, reqs[x])
      BY <1>0, <1>2, <2>2, RequestStep
    <3>2. CASE reqs[r].kind \notin Listers
      BY <1>2, <3>1, <3>2, RowsStep DEF Unlisted
    <3>3. CASE reqs[x].kind \notin Listers
      BY <3>1, <3>3 DEF Unlisted, Listers
    <3> QED BY <2>2, <3>2, <3>3 DEF Alone
  <2> QED BY <2>1, <2>2, ListParts
<1>3. CASE UNCHANGED vars
  BY <1>0, <1>3, ListParts DEF vars
<1> QED BY <1>1, <1>2, <1>3 DEF Next, NextOf

\* If creates, edits and imports do not come in between the check and the delete of an
\* access list, every host keeps the list its last edit asked for.
THEOREM NoneDetached ==
  ASSUME \E group \in Serial : Listers \subseteq group
  PROVE  Spec => []AccessKept
<1>1. PICK group \in Serial : Listers \subseteq group
  OBVIOUS
<1>2. Init => Alone(group)
  BY AloneInit
<1>3. Typed /\ Alone(group) /\ [Next]_vars => Alone(group)'
  BY AloneNext
<1>4. Typed /\ Alone(group) /\ ListInv /\ [Next]_vars => ListInv'
  BY <1>1, ListNext DEF Alone
<1>5. ListInv => AccessKept
  BY DEF ListInv
<1> QED BY <1>2, <1>3, <1>4, <1>5, ListInit, TypedHolds, PTL DEF Spec
(* ------------------------------ passwords -------------------------------- *)

\* The calls that write the access lists.
LEMMA ListsWritten ==
  ASSUME NEW r \in Requests, Handles(r) \/ Dropped(r)
  PROVE  lists' = lists \/ WritesList(r) \/ DeletesList(r) \/ Imports(r)
<1>1. /\ \A q : Becomes(r, q) => lists' = lists
      /\ \A rs, cs : Done(r, rs, cs, lists) => lists' = lists
  BY DEF Becomes, Done
<1>2. /\ \A q : Goes(r, q) => lists' = lists
      /\ Refused(r) => lists' = lists
  BY <1>1, Zenon DEF Goes, Refused
<1>3. \A cond : Passes(r, cond) => lists' = lists
  BY <1>2, Zenon DEF Passes
<1>4. ReadsTable(r) \/ Exists(r) \/ ChecksCert(r) \/ ChecksList(r) \/ ReadsRow(r) \/ ReadsHash(r)
      => lists' = lists
  BY <1>2, <1>3, Zenon DEF ReadsTable, Exists, ChecksCert, ChecksList, ReadsRow, ReadsHash
<1>5. WritesProxy(r) \/ WritesRedirect(r) \/ WritesDead(r) \/ WritesStream(r) \/ WritesSni(r)
      => lists' = lists
  BY <1>1, <1>2, Zenon DEF WritesProxy, WritesRedirect, WritesDead, WritesStream, WritesSni, WritesRow
<1>6. /\ Issues(r) => lists' = lists /\ TRUE
      /\ DiscardsCert(r) => lists' = lists
      /\ WritesCert(r) => lists' = lists
      /\ SetsEnabled(r) => lists' = lists
      /\ DeletesRow(r) => lists' = lists
      /\ Dropped(r) => lists' = lists
  BY <1>1, <1>2, Zenon DEF Issues, DiscardsCert, WritesCert, SetsEnabled, DeletesRow, Dropped
<1> QED BY <1>4, <1>5, <1>6, Zenon DEF Handles

\* A new list has an id no list has, and an edited one the hash the request brings.
LEMMA WrittenList ==
  ASSUME Typed, NEW r \in Requests, WritesList(r), lists' # lists
  PROVE  \E id \in 1..MaxLists :
            /\ DOMAIN lists' = DOMAIN lists \cup {id} /\ lists'[id] = reqs[r].password
            /\ \A i \in DOMAIN lists : i # id => lists'[i] = lists[i]
            /\ \/ reqs[r].kind = "newlist" /\ id \notin DOMAIN lists
               \/ reqs[r].kind = "relist" /\ id = reqs[r].key[2]
<1> DEFINE q == reqs[r]
<1>1. ~Refused(r)
  BY DEF Refused, Becomes
<1>2. PICK id \in 1..MaxLists : /\ lists' = Insert(lists, id, q.password)
                                /\ IF q.kind = "newlist" THEN IsNextId(id, DOMAIN lists)
                                   ELSE id = q.key[2]
  BY <1>1 DEF WritesList, Done
<1>3. q.kind \in {"newlist", "relist"}
  BY DEF WritesList
<1>4. IsNextId(id, DOMAIN lists) => id \notin DOMAIN lists
  BY DEF IsNextId
<1>5. /\ DOMAIN lists' = DOMAIN lists \cup {id} /\ lists'[id] = q.password
      /\ \A i \in DOMAIN lists : i # id => lists'[i] = lists[i]
  BY <1>2 DEF Insert
<1>6. \/ q.kind = "newlist" /\ id \notin DOMAIN lists
      \/ q.kind = "relist" /\ id = q.key[2]
  BY <1>2, <1>3, <1>4
<1> QED BY <1>5, <1>6

\* The hash of a list changes when a request brings one, or is an import's.
LEMMA HashStep ==
  ASSUME Typed, NEW r \in Requests, Current(lists, reqs[r]), Handles(r) \/ Dropped(r),
         NEW i \in DOMAIN lists \cap DOMAIN lists', lists'[i] # lists[i]
  PROVE  At(r, "write") /\ reqs[r].kind \in {"relist", "import"} /\ ~reqs[r].new
<1> DEFINE q == reqs[r]
<1>1. CASE WritesList(r)
  <2>1. PICK id : /\ lists'[id] = q.password
                  /\ \A j \in DOMAIN lists : j # id => lists'[j] = lists[j]
                  /\ \/ q.kind = "newlist" /\ id \notin DOMAIN lists
                     \/ q.kind = "relist" /\ id = q.key[2]
    BY <1>1, WrittenList
  <2>2. q.kind = "relist" /\ i = q.key[2] /\ lists'[i] = q.password
    BY <2>1
  <2>3. ~q.new
    BY <2>2, Zenon DEF Current
  <2> QED BY <1>1, <2>2, <2>3, Zenon DEF WritesList
<1>2. CASE DeletesList(r)
  <2>1. lists' = Without(lists, q.key[2])
    BY <1>2 DEF DeletesList, Done
  <2> QED BY <2>1 DEF Without
<1>3. CASE Imports(r)
  <2>1. Filled(q)
    BY TypedParts
  <2> QED BY <1>3, <2>1, Zenon DEF Imports, Filled
<1> QED BY <1>1, <1>2, <1>3, ListsWritten

\* A request to edit a list is answered, goes on as it was, or has read the hash.
LEMMA OwnCurrent ==
  ASSUME Typed, NEW r \in Requests, Current(lists, reqs[r]), Handles(r) \/ Dropped(r)
  PROVE  Current(lists', reqs'[r])
<1> DEFINE q == reqs[r]
<1>1. q \in Request /\ Filled(q) /\ reqs \in [Requests -> Request]
  BY TypedParts
<1>2. CASE q.kind # "relist"
  <2>1. reqs'[r].kind # "relist"
    BY <1>2, RequestStep
  <2> QED BY <2>1 DEF Current
<1>3. CASE q.kind = "relist"
  <2>1. ASSUME NEW n \in Request, Goes(r, n), n.kind = "relist",
               n.key[2] \in DOMAIN lists, lists[n.key[2]] = n.password
        PROVE  Current(lists', reqs'[r])
    <3>1. /\ lists' = lists /\ reqs'[r].kind = n.kind /\ reqs'[r].key = n.key
          /\ reqs'[r].password = n.password
      BY <1>1, <2>1 DEF Goes, Becomes, Request
    <3> QED BY <2>1, <3>1 DEF Current
  <2>2. CASE Goes(r, q)
    <3> DEFINE n == [q EXCEPT !.todo = Tail(@)]
    <3>1. lists' = lists /\ reqs'[r] = n
      BY <1>1, <2>2 DEF Goes, Becomes
    <3>2. n.kind = q.kind /\ n.key = q.key /\ n.password = q.password
      BY <1>1 DEF Request
    <3>3. n.new = q.new
      BY <1>1, Zenon DEF Request
    <3> HIDE DEF n
    <3> QED BY <3>1, <3>2, <3>3, Zenon DEF Current
  <2>3. CASE Refused(r)
    <3>1. reqs'[r] = Ending(q)
      BY <1>1, <2>3 DEF Refused, Becomes, Ending
    <3>2. reqs'[r] = Idle
      BY <1>1, <1>3, <3>1, EndingKeeps
    <3> QED BY <3>2, IdleIsRequest DEF Current
  <2>4. CASE Answer(r)
    BY <1>1, <2>4, IdleIsRequest DEF Answer, Current
  <2>5. CASE ReadsTable(r) \/ Exists(r) \/ ChecksCert(r) \/ ChecksList(r)
    BY <2>2, <2>3, <2>5, Zenon DEF ReadsTable, Exists, ChecksCert, ChecksList, Passes
  <2>6. CASE ReadsHash(r)
    <3> DEFINE h == StoredHash(q.key[2])
               n == WithHash(q, h)
    <3>1. Goes(r, q) \/ (Goes(r, n) /\ q.key[2] \in DOMAIN lists) \/ Refused(r)
      BY <2>6, Zenon DEF ReadsHash, WithHash
    <3>2. CASE Goes(r, n) /\ q.key[2] \in DOMAIN lists
      <4>1. h = lists[q.key[2]] /\ h \in Passwords
        BY <3>2, TypedParts DEF ListsOK, StoredHash
      <4> HIDE DEF h
      <4>2. n \in Request /\ n.kind = q.kind /\ n.key = q.key /\ n.password = h
        BY <1>1, <1>3, <4>1, ReadHashKeeps
      <4> HIDE DEF n
      <4> QED BY <1>3, <2>1, <3>2, <4>1, <4>2
    <3> QED BY <2>2, <2>3, <3>1, <3>2
  <2>7. ~ReadsRow(r) /\ ~Issues(r)
    <3>1. ~Has(q.todo, "read") /\ ~Has(q.todo, "issue")
      BY <1>1, <1>3 DEF Filled
    <3> QED BY <1>1, <3>1, RequestFields, HasTail DEF ReadsRow, Issues, At
  <2>8. WritesProxy(r) \/ WritesRedirect(r) \/ WritesDead(r) \/ WritesStream(r) \/ WritesSni(r)
        => Refused(r) \/ Answer(r)
    BY Zenon DEF WritesProxy, WritesRedirect, WritesDead, WritesStream, WritesSni, WritesRow, Done
  <2>9. /\ DiscardsCert(r) => Answer(r)
        /\ WritesCert(r) => Answer(r)
        /\ SetsEnabled(r) => Refused(r) \/ Answer(r)
        /\ DeletesRow(r) => Answer(r)
        /\ WritesList(r) => Refused(r) \/ Answer(r)
        /\ DeletesList(r) => Answer(r)
        /\ Imports(r) => Refused(r) \/ Answer(r)
        /\ Dropped(r) => Answer(r)
    BY Zenon DEF DiscardsCert, WritesCert, SetsEnabled, DeletesRow, WritesList, DeletesList, Imports,
                 Dropped, Done
  <2> QED BY <2>3, <2>4, <2>5, <2>6, <2>7, <2>8, <2>9, Zenon DEF Handles
<1> QED BY <1>2, <1>3

LEMMA HashInit == Init => HashInv
BY IdleIsRequest DEF Init, HashInv, Current

LEMMA HashNext ==
  ASSUME Typed, Alone(Hashers), HashInv, [Next]_vars
  PROVE  HashInv'
<1>1. ASSUME NEW r \in Requests, NEW q \in Asks, Arrive(r, q) PROVE HashInv'
  <2>1. lists' = lists /\ reqs' = [reqs EXCEPT ![r] = q] /\ reqs \in [Requests -> Request]
    BY <1>1, TypedParts DEF Arrive
  <2>2. Current(lists, q)
    BY AsksAreAsked, Zenon DEF Asked, Current
  <2> QED BY <2>1, <2>2 DEF HashInv
<1>2. ASSUME NEW r \in Requests, Handles(r) \/ Dropped(r) PROVE HashInv'
  <2>1. Current(lists', reqs'[r])
    BY <1>2, OwnCurrent DEF HashInv
  <2>2. ASSUME NEW x \in Requests, x # r PROVE Current(lists', reqs'[x])
    <3>1. reqs'[x] = reqs[x] /\ Current(lists, reqs[x])
      BY <1>2, <2>2, RequestStep DEF HashInv
    <3>2. CASE reqs[r].kind \notin Hashers
      <4>1. ~DeletesList(r) /\ ~Imports(r) /\ (WritesList(r) => reqs[r].kind # "relist")
        BY <3>2 DEF DeletesList, Imports, Hashers
      <4>2. /\ DOMAIN lists \subseteq DOMAIN lists'
            /\ \A i \in DOMAIN lists : lists'[i] = lists[i]
        <5>1. CASE lists' = lists
          BY <5>1
        <5>2. CASE lists' # lists
          <6>1. WritesList(r)
            BY <1>2, <4>1, <5>2, ListsWritten
          <6>2. PICK id : /\ DOMAIN lists' = DOMAIN lists \cup {id} /\ id \notin DOMAIN lists
                          /\ \A i \in DOMAIN lists : i # id => lists'[i] = lists[i]
            BY <4>1, <5>2, <6>1, WrittenList
          <6> QED BY <6>2
        <5> QED BY <5>1, <5>2
      <4> QED BY <3>1, <4>2 DEF Current
    <3>3. CASE reqs[x].kind \notin Hashers
      BY <3>1, <3>3 DEF Current, Hashers
    <3> QED BY <2>2, <3>2, <3>3 DEF Alone
  <2> QED BY <2>1, <2>2 DEF HashInv
<1>3. CASE UNCHANGED vars
  BY <1>3 DEF vars, HashInv
<1> QED BY <1>1, <1>2, <1>3 DEF Next, NextOf

\* If access lists are edited and deleted, and documents imported, one at a time, a user
\* whose password an edit leaves out keeps the hash that is stored.
THEOREM HashesKept ==
  ASSUME \E group \in Serial : Hashers \subseteq group
  PROVE  Spec => PasswordKept
<1>1. PICK group \in Serial : Hashers \subseteq group
  OBVIOUS
<1>2. Init => Alone(group)
  BY AloneInit
<1>3. Typed /\ Alone(group) /\ [Next]_vars => Alone(group)'
  BY AloneNext
<1>4. Typed /\ Alone(group) /\ HashInv /\ [Next]_vars => HashInv'
  BY <1>1, HashNext DEF Alone
<1> DEFINE Keeps == \A i \in DOMAIN lists \cap DOMAIN lists' :
        lists'[i] # lists[i] =>
            \E r \in Requests : /\ At(r, "write")
                                /\ reqs[r].kind \in {"relist", "import"} /\ ~reqs[r].new
<1>5. Typed /\ HashInv /\ [Next]_vars => [Keeps]_vars
  <2> SUFFICES ASSUME Typed, HashInv, [Next]_vars PROVE Keeps \/ UNCHANGED vars
    OBVIOUS
  <2>1. ASSUME NEW r \in Requests, NEW q \in Asks, Arrive(r, q) PROVE Keeps
    BY <2>1 DEF Arrive
  <2>2. ASSUME NEW r \in Requests, Handles(r) \/ Dropped(r) PROVE Keeps
    BY <2>2, HashStep DEF HashInv
  <2> QED BY <2>1, <2>2 DEF Next, NextOf
<1>6. PasswordKept <=> [][Keeps]_vars
  BY DEF PasswordKept
<1> HIDE DEF Keeps
<1> QED BY <1>2, <1>3, <1>4, <1>5, <1>6, HashInit, TypedHolds, PTL DEF Spec

(* ------------------- what a request holds and has to do ------------------- *)

LEMMA WhenHas ==
  ASSUME NEW a \in Seq(Steps), NEW cond
  PROVE  /\ When(cond, a) \in Seq(Steps)
         /\ \A s : Has(When(cond, a), s) => cond /\ Has(a, s)
         /\ cond => When(cond, a) = a
BY Pieces DEF When

LEMMA FreeTables ==
  ASSUME NEW t \in Tables
  PROVE  FreeIn(t) \in Seq(Steps) /\ \A s : Has(FreeIn(t), s) => s \in Tables
<1>1. /\ \A s : Has(FreeDomains, s) => s \in Tables
      /\ \A s : Has(FreePort, s) => s \in Tables
      /\ \A s : Has(FreeSniPort, s) => s \in Tables
  BY DEF FreeDomains, FreePort, FreeSniPort, Has, Tables, Sites, Listeners
<1>2. FreeIn(t) \in {FreeDomains, FreePort, FreeSniPort}
  BY DEF FreeIn, Tables, Listeners
<1> QED BY <1>1, <1>2, FreeOf

\* The calls of a plan to write a row.
LEMMA WriteCalls ==
  ASSUME NEW kind \in {"create", "update"}, NEW t \in Tables, NEW row, NEW new,
         NEW p, p = WritePlan(kind, t, row, new)
  PROVE  /\ \A s : Has(p, s) => \/ s \in {"cert", "list", "write"}
                                \/ s = "exists" /\ kind = "update"
                                \/ s \in Tables /\ row.enabled
                                \/ s = "issue" /\ new
         /\ t = "proxy" /\ new => Has(p, "issue")
<1> DEFINE free == When(row.enabled, FreeIn(t))
           exists == When(kind = "update", <<"exists">>)
           issue == When(new, <<"issue">>)
<1>1. free \in Seq(Steps) /\ \A s : Has(free, s) => row.enabled /\ s \in Tables
  BY FreeTables, WhenHas
<1>2. /\ <<"exists">> \in Seq(Steps) /\ <<"issue">> \in Seq(Steps) /\ <<"write">> \in Seq(Steps)
      /\ <<"cert", "list">> \in Seq(Steps) /\ <<"cert">> \in Seq(Steps)
      /\ <<"cert", "write">> \in Seq(Steps)
  BY CheckPieces, WritePieces
<1>3. /\ \A s : Has(<<"exists">>, s) => s = "exists"
      /\ \A s : Has(<<"issue">>, s) <=> s = "issue"
      /\ \A s : Has(<<"write">>, s) => s = "write"
      /\ \A s : Has(<<"cert", "list">>, s) => s \in {"cert", "list"}
      /\ \A s : Has(<<"cert">>, s) => s = "cert"
      /\ \A s : Has(<<"cert", "write">>, s) => s \in {"cert", "write"}
  BY DEF Has
<1>4. exists \in Seq(Steps) /\ \A s : Has(exists, s) => s = "exists" /\ kind = "update"
  BY <1>2, <1>3, WhenHas
<1>5. issue \in Seq(Steps) /\ (\A s : Has(issue, s) => s = "issue" /\ new) /\ (new => Has(issue, "issue"))
  <2>1. /\ issue \in Seq(Steps) /\ (\A s : Has(issue, s) => new /\ Has(<<"issue">>, s))
        /\ new => issue = <<"issue">>
    BY <1>2, WhenHas
  <2> HIDE DEF issue
  <2>2. new => Has(issue, "issue")
    BY <1>3, <2>1, Zenon
  <2> QED BY <1>3, <2>1, <2>2, Zenon
<1>6. CASE t = "proxy"
  <2>1. p = (((exists \o free) \o <<"cert", "list">>) \o issue) \o <<"write">>
    <3>1. FreeIn(t) = FreeDomains
      BY <1>6 DEF FreeIn, Sites
    <3>2. p = ProxyPlan(kind, row, new)
      BY <1>6 DEF WritePlan
    <3> QED BY <3>1, <3>2, Zenon DEF ProxyPlan
  <2> HIDE DEF exists, free, issue
  <2> DEFINE a == exists \o free
             b == a \o <<"cert", "list">>
             c == b \o issue
  <2>2. a \in Seq(Steps) /\ \A s : Has(a, s) <=> Has(exists, s) \/ Has(free, s)
    BY <1>1, <1>4, HasConcat
  <2> HIDE DEF a
  <2>3. b \in Seq(Steps) /\ \A s : Has(b, s) <=> Has(a, s) \/ Has(<<"cert", "list">>, s)
    BY <1>2, <2>2, HasConcat
  <2> HIDE DEF b
  <2>4. c \in Seq(Steps) /\ \A s : Has(c, s) <=> Has(b, s) \/ Has(issue, s)
    BY <1>5, <2>3, HasConcat
  <2>5. p = c \o <<"write">>
    BY <2>1 DEF a, b
  <2> HIDE DEF c
  <2>7. \A s : Has(c \o <<"write">>, s) <=> Has(c, s) \/ Has(<<"write">>, s)
    BY <1>2, <2>4, HasConcat
  <2>6. \A s : Has(p, s) <=> Has(c, s) \/ Has(<<"write">>, s)
    BY <2>5, <2>7, Zenon
  <2> QED BY <1>1, <1>3, <1>4, <1>5, <2>2, <2>3, <2>4, <2>6
<1>7. CASE t \in {"redirect", "dead"}
  <2>1. FreeIn(t) = FreeDomains
    BY <1>7 DEF FreeIn, Sites
  <2>2. p = free \o <<"cert", "write">>
    BY <1>7, <2>1 DEF WritePlan, RedirectPlan, DeadPlan
  <2> HIDE DEF free
  <2>4. \A s : Has(free \o <<"cert", "write">>, s) <=> Has(free, s) \/ Has(<<"cert", "write">>, s)
    BY <1>1, <1>2, HasConcat
  <2>3. \A s : Has(p, s) <=> Has(free, s) \/ Has(<<"cert", "write">>, s)
    BY <2>2, <2>4, Zenon
  <2> QED BY <1>1, <1>3, <1>7, <2>3
<1>8. CASE t = "stream"
  <2>1. FreeIn(t) = FreePort
    BY <1>8 DEF FreeIn, Sites
  <2>2. p = (<<"cert">> \o free) \o <<"write">>
    BY <1>8, <2>1 DEF WritePlan, StreamPlan
  <2> HIDE DEF free
  <2> DEFINE a == <<"cert">> \o free
  <2>3. a \in Seq(Steps) /\ \A s : Has(a, s) <=> Has(<<"cert">>, s) \/ Has(free, s)
    BY <1>1, <1>2, HasConcat
  <2>5. p = a \o <<"write">>
    BY <2>2
  <2> HIDE DEF a
  <2>6. \A s : Has(a \o <<"write">>, s) <=> Has(a, s) \/ Has(<<"write">>, s)
    BY <1>2, <2>3, HasConcat
  <2>4. \A s : Has(p, s) <=> Has(a, s) \/ Has(<<"write">>, s)
    BY <2>5, <2>6, Zenon
  <2> QED BY <1>1, <1>3, <1>8, <2>3, <2>4
<1>9. CASE t = "sni"
  <2>1. FreeIn(t) = FreeSniPort
    BY <1>9 DEF FreeIn, Sites
  <2>2. p = free \o <<"write">>
    BY <1>9, <2>1 DEF WritePlan, SniPlan
  <2> HIDE DEF free
  <2>4. \A s : Has(free \o <<"write">>, s) <=> Has(free, s) \/ Has(<<"write">>, s)
    BY <1>1, <1>2, HasConcat
  <2>3. \A s : Has(p, s) <=> Has(free, s) \/ Has(<<"write">>, s)
    BY <2>2, <2>4, Zenon
  <2> QED BY <1>1, <1>3, <1>9, <2>3
<1> QED BY <1>6, <1>7, <1>8, <1>9 DEF Tables, Sites, Listeners

\* Who makes which call.
Calls(p, kind, enabled) ==
    /\ Has(p, "exists") => kind \in {"update", "relist"}
    /\ Has(p, "cert") \/ Has(p, "list") => kind \in Issuers
    /\ \A t \in Tables : Has(p, t) => \/ kind \in {"enable", "uncert", "unlist"}
                                      \/ kind \in Issuers /\ enabled

LEMMA PlanCalls ==
  ASSUME NEW kind \in Kinds, NEW t, kind \in {"create", "update", "enable"} => t \in Tables,
         NEW row, NEW new, NEW p, p = Plan(kind, t, row, new)
  PROVE  /\ Calls(p, kind, row.enabled)
         /\ Has(p, "issue") => new
         /\ kind \in Issuers /\ t = "proxy" /\ new => Has(p, "issue")
<1>0. \A s \in {"exists", "cert", "list", "issue", "write", "read", "hash"} : s \notin Tables
  BY DEF Tables, Sites, Listeners
<1>1. CASE kind \in Issuers
  <2>1. kind \in {"create", "update"} /\ p = WritePlan(kind, t, row, new) /\ t \in Tables
    BY <1>1 DEF Issuers, Plan
  <2>2. /\ \A s : Has(p, s) => \/ s \in {"cert", "list", "write"}
                               \/ s = "exists" /\ kind = "update"
                               \/ s \in Tables /\ row.enabled
                               \/ s = "issue" /\ new
        /\ t = "proxy" /\ new => Has(p, "issue")
    BY <2>1, WriteCalls
  <2>3. Has(p, "exists") => kind = "update"
    BY <1>0, <2>2
  <2>4. Has(p, "issue") => new
    BY <1>0, <2>2
  <2>5. ASSUME NEW u \in Tables, Has(p, u) PROVE row.enabled
    BY <1>0, <2>2, <2>5
  <2> QED BY <1>1, <2>2, <2>3, <2>4, <2>5 DEF Calls
<1>2. CASE kind = "enable"
  <2>1. p = (<<"read">> \o FreeIn(t)) \o <<"write">> /\ t \in Tables
    BY <1>2 DEF Plan, EnablePlan
  <2>2. <<"read">> \in Seq(Steps) /\ \A s : Has(<<"read">>, s) => s = "read"
    BY DEF Has, Steps
  <2> DEFINE a == <<"read">> \o FreeIn(t)
  <2>3. a \in Seq(Steps) /\ \A s : Has(a, s) <=> Has(<<"read">>, s) \/ Has(FreeIn(t), s)
    BY <2>1, <2>2, FreeTables, HasConcat
  <2>6. p = a \o <<"write">>
    BY <2>1
  <2> HIDE DEF a
  <2>7. \A s : Has(a \o <<"write">>, s) <=> Has(a, s) \/ Has(<<"write">>, s)
    BY <2>3, WritePieces, HasConcat
  <2>4. \A s : Has(p, s) <=> Has(a, s) \/ Has(<<"write">>, s)
    BY <2>6, <2>7, Zenon
  <2>5. \A s : Has(p, s) => s \in {"read", "write"} \/ s \in Tables
    BY <2>1, <2>2, <2>3, <2>4, FreeTables, WritePieces
  <2> QED BY <1>0, <1>2, <2>5 DEF Calls, Issuers
<1>3. CASE kind \notin {"create", "update", "enable"}
  <2>2. kind = "uncert" => p = UncertPlan
    BY <1>3 DEF Plan
  <2>3. kind = "relist" => p = RelistPlan
    BY <1>3 DEF Plan
  <2>4. kind = "unlist" => p = UnlistPlan
    BY <1>3 DEF Plan
  <2>5. kind \notin {"uncert", "relist", "unlist"} => p = <<"write">>
    BY <1>3 DEF Plan
  <2>6. /\ \A s : Has(UncertPlan, s) => s \in {"proxy", "redirect", "dead", "stream", "write"}
        /\ \A s : Has(RelistPlan, s) => s \in {"exists", "hash", "write"}
        /\ \A s : Has(UnlistPlan, s) => s \in {"proxy", "write"}
        /\ \A s : Has(<<"write">>, s) => s = "write"
    BY DEF Has, UncertPlan, RelistPlan, UnlistPlan
  <2>7. kind \notin Issuers
    BY <1>3 DEF Issuers
  <2>8. CASE kind = "uncert"
    BY <1>0, <2>2, <2>6, <2>7, <2>8 DEF Calls
  <2>9. CASE kind = "relist"
    BY <1>0, <2>3, <2>6, <2>7, <2>9 DEF Calls
  <2>10. CASE kind = "unlist"
    BY <1>0, <2>4, <2>6, <2>7, <2>10 DEF Calls
  <2>11. CASE kind \notin {"uncert", "relist", "unlist"}
    BY <1>0, <2>5, <2>6, <2>7, <2>11 DEF Calls
  <2> QED BY <2>8, <2>9, <2>10, <2>11
<1> QED BY <1>1, <1>2, <1>3 DEF Issuers

\* What the kind of a request says of the calls it has still to make and of the certificate
\* it has, or is to have, issued.
Plain(q) ==
    /\ Calls(q.todo, q.kind, q.row.enabled)
    /\ q.kind = "none" => q = Idle
    /\ q.kind = "unlist" => q.key[2] # None
Issuing(q) ==
    /\ Has(q.todo, "issue") => q.new
    /\ q.kind \in Issuers /\ q.new /\ q.created = None => q.row.cert = None /\ Has(q.todo, "issue")
    /\ q.created # None => q.new /\ q.row.cert = q.created
    /\ Has(q.todo, "discard") => q.created # None

LEMMA AsksIssuing ==
  ASSUME NEW q \in Asks
  PROVE  Plain(q) /\ Issuing(q)
<1>1. PICK kind, key, row, new, password :
        AskOK(kind, key, row, new, password) /\ q = Ask(kind, key, row, new, password)
  BY AskForm
<1>2. /\ q \in Request /\ q.kind = kind /\ q.key = key /\ q.row = row /\ q.new = new
      /\ q.password = password /\ q.created = None
      /\ q.todo = Plan(kind, key[1], row, new)
      /\ PlanOK(q.todo, kind, key[1], row.enabled)
  BY <1>1, AskFields DEF AskOK
<1>3. /\ Calls(q.todo, kind, row.enabled)
      /\ Has(q.todo, "issue") => new
      /\ kind \in Issuers /\ key[1] = "proxy" /\ new => Has(q.todo, "issue")
  BY <1>1, <1>2, PlanCalls DEF AskOK
<1>4. ~Has(q.todo, "discard")
  BY <1>2 DEF PlanOK
<1>5. kind # "none"
  BY <1>1 DEF AskOK, Kinds
<1>6. new => key[1] = "proxy" /\ row.cert = None
  BY <1>1, Zenon DEF AskOK
<1>7. Plain(q)
  BY <1>1, <1>2, <1>3, <1>5, Zenon DEF Plain, AskOK
<1>8. Issuing(q)
  BY <1>2, <1>3, <1>4, <1>6, Zenon DEF Issuing
<1> QED BY <1>7, <1>8

\* What a request becomes by a step of its own: it is answered, is to take its certificate
\* back, or goes on.
Undoes(q, n) == q.created # None /\ n = [q EXCEPT !.todo = <<"discard">>]
Same(q, n) ==
    \/ n.row = q.row /\ n.new = q.new /\ n.password = q.password
    \/ q.kind = "enable" /\ n.password = q.password
    \/ q.kind = "relist" /\ n.row = q.row /\ n.new /\ q.password = Keep
Moves(q, n) ==
    /\ q.todo # <<>> /\ Head(q.todo) # "issue" /\ n.todo = Tail(q.todo)
    /\ n.kind = q.kind /\ n.key = q.key /\ n.created = q.created /\ Same(q, n)
Issued(q, id) ==
    [q EXCEPT !.row = [q.row EXCEPT !.cert = id], !.created = id, !.todo = Tail(q.todo)]
Gets(q, n) == q.todo # <<>> /\ Head(q.todo) = "issue" /\ \E id \in 1..MaxCerts : n = Issued(q, id)

LEMMA OwnStep ==
  ASSUME Typed, NEW r \in Requests, Handles(r) \/ Dropped(r)
  PROVE  \/ reqs'[r] = Idle
         \/ /\ Undoes(reqs[r], reqs'[r]) \/ Moves(reqs[r], reqs'[r])
            /\ rows' = rows /\ certs' = certs /\ lists' = lists
         \/ /\ Gets(reqs[r], reqs'[r]) /\ IsNextId(reqs'[r].created, DOMAIN certs)
            /\ rows' = rows /\ certs' = Insert(certs, reqs'[r].created, r) /\ lists' = lists
<1> DEFINE q == reqs[r]
           Quiet == rows' = rows /\ certs' = certs /\ lists' = lists
           Ends == reqs'[r] = Idle \/ (Undoes(q, reqs'[r]) /\ Quiet)
<1>1. q \in Request /\ Filled(q) /\ reqs \in [Requests -> Request]
  BY TypedParts
<1>2. CASE Answer(r)
  BY <1>1, <1>2 DEF Answer
<1>3. Refused(r) => Ends
  BY <1>1 DEF Refused, Becomes, Undoes
<1>4. ASSUME NEW p \in Request, Filled(p), p.todo # <<>>, Goes(r, p), p.todo = q.todo,
             Head(p.todo) = "hash" => p.password \in Passwords, Head(p.todo) # "issue",
             p.kind = q.kind, p.key = q.key, p.created = q.created, Same(q, p)
      PROVE  Moves(q, reqs'[r]) /\ Quiet
  <2> DEFINE n == [p EXCEPT !.todo = Tail(@)]
  <2>1. reqs'[r] = n /\ Quiet
    BY <1>1, <1>4 DEF Goes, Becomes
  <2>2. /\ n.kind = p.kind /\ n.key = p.key /\ n.row = p.row /\ n.new = p.new
        /\ n.password = p.password /\ n.created = p.created /\ n.todo = Tail(p.todo)
    BY <1>4, TailKeeps
  <2> HIDE DEF n
  <2>3. Same(q, n)
    BY <1>4, <2>2, Zenon DEF Same
  <2> QED BY <1>4, <2>1, <2>2, <2>3, Zenon DEF Moves
<1>5. Same(q, q)
  BY Zenon DEF Same
<1>6. CASE ReadsTable(r) \/ Exists(r) \/ ChecksCert(r) \/ ChecksList(r)
  <2>1. Goes(r, q) \/ Refused(r)
    BY <1>6, Zenon DEF ReadsTable, Exists, ChecksCert, ChecksList, Passes
  <2>2. q.todo # <<>> /\ Head(q.todo) \notin {"hash", "issue"}
    <3>1. \E s \in Tables \cup {"exists", "cert", "list"} : At(r, s)
      BY <1>6 DEF ReadsTable, Exists, ChecksCert, ChecksList
    <3> QED BY <3>1 DEF At, Tables, Sites, Listeners
  <2> QED BY <1>1, <1>3, <1>4, <1>5, <2>1, <2>2
<1>7. CASE ReadsRow(r)
  <2> DEFINE p == WithClaims(q, rows[q.key].claims)
  <2>1. Goes(r, q) \/ (Goes(r, p) /\ q.key \in DOMAIN rows)
    BY <1>7 DEF ReadsRow, WithClaims
  <2>2. q.todo # <<>> /\ Head(q.todo) = "read"
    BY <1>7 DEF ReadsRow, At
  <2>3. CASE Goes(r, p) /\ q.key \in DOMAIN rows
    <3>1. q.kind = "enable"
      BY <1>1, <2>2, RequestFields, HasTail, Zenon DEF Filled
    <3>2. /\ p \in Request /\ Filled(p) /\ p.kind = q.kind /\ p.key = q.key /\ p.todo = q.todo
          /\ p.created = q.created /\ p.password = q.password
      BY <1>1, <2>3, <3>1, ReadRowKeeps, RowClaims
    <3> HIDE DEF p
    <3>3. Same(q, p)
      BY <3>1, <3>2 DEF Same
    <3> QED BY <1>4, <2>2, <2>3, <3>2, <3>3
  <2> QED BY <1>1, <1>4, <1>5, <2>1, <2>2, <2>3
<1>8. CASE ReadsHash(r)
  <2> DEFINE p == WithHash(q, StoredHash(q.key[2]))
  <2>1. \/ Goes(r, q) /\ q.password # Keep
        \/ Goes(r, p) /\ q.key[2] \in DOMAIN lists /\ q.password = Keep
        \/ Refused(r)
    BY <1>8, Zenon DEF ReadsHash, WithHash
  <2>2. q.todo # <<>> /\ Head(q.todo) = "hash"
    BY <1>8 DEF ReadsHash, At
  <2>3. CASE Goes(r, p) /\ q.key[2] \in DOMAIN lists /\ q.password = Keep
    <3>1. q.kind = "relist"
      BY <1>1, <2>2, RequestFields, HasTail, Zenon DEF Filled
    <3> DEFINE h == StoredHash(q.key[2])
    <3>2. h \in Passwords
      BY <2>3, TypedParts DEF ListsOK, StoredHash
    <3> HIDE DEF h
    <3>3. /\ p \in Request /\ Filled(p) /\ p.kind = q.kind /\ p.key = q.key /\ p.todo = q.todo
          /\ p.row = q.row /\ p.created = q.created /\ p.password = h
      BY <1>1, <3>1, <3>2, ReadHashKeeps DEF h
    <3>4. p.new
      BY <1>1, Zenon DEF WithHash, Request
    <3> HIDE DEF p
    <3>5. Same(q, p)
      BY <2>3, <3>1, <3>3, <3>4, Zenon DEF Same
    <3> QED BY <1>4, <2>2, <2>3, <3>2, <3>3, <3>5
  <2>4. q.password # Keep => q.password \in Passwords
    BY <1>1, RequestFields
  <2> QED BY <1>1, <1>3, <1>4, <1>5, <2>1, <2>2, <2>3, <2>4
<1>9. CASE Issues(r)
  <2>1. CASE ~Refused(r)
    <3>1. PICK id \in 1..MaxCerts :
            /\ IsNextId(id, DOMAIN certs) /\ certs' = Insert(certs, id, r)
            /\ reqs' = [reqs EXCEPT ![r] = Issued(q, id)]
            /\ UNCHANGED <<rows, lists>>
      BY <1>9, <2>1 DEF Issues, Issued
    <3>2. reqs'[r] = Issued(q, id)
      BY <1>1, <3>1
    <3>3. Issued(q, id).created = id
      BY <1>1 DEF Issued, Request
    <3>4. Gets(q, reqs'[r])
      BY <1>9, <3>2 DEF Issues, At, Gets
    <3> QED BY <3>1, <3>2, <3>3, <3>4
  <2> QED BY <1>3, <2>1
<1>10. WritesProxy(r) \/ WritesRedirect(r) \/ WritesDead(r) \/ WritesStream(r) \/ WritesSni(r)
       => Refused(r) \/ Answer(r)
  BY Zenon DEF WritesProxy, WritesRedirect, WritesDead, WritesStream, WritesSni, WritesRow, Done
<1>11. /\ DiscardsCert(r) => Answer(r)
       /\ WritesCert(r) => Answer(r)
       /\ SetsEnabled(r) => Refused(r) \/ Answer(r)
       /\ DeletesRow(r) => Answer(r)
       /\ WritesList(r) => Refused(r) \/ Answer(r)
       /\ DeletesList(r) => Answer(r)
       /\ Imports(r) => Refused(r) \/ Answer(r)
       /\ Dropped(r) => Answer(r)
  BY Zenon DEF DiscardsCert, WritesCert, SetsEnabled, DeletesRow, WritesList, DeletesList, Imports,
               Dropped, Done
<1>12. CASE Answer(r) \/ Refused(r)
  BY <1>2, <1>3, <1>12
<1> QED BY <1>6, <1>7, <1>8, <1>9, <1>10, <1>11, <1>12, Zenon DEF Handles

LEMMA GotFields ==
  ASSUME NEW q \in Request, NEW n, Gets(q, n), q.row \in Row
  PROVE  /\ n.kind = q.kind /\ n.key = q.key /\ n.new = q.new /\ n.password = q.password
         /\ n.created \in 1..MaxCerts /\ n.todo = Tail(q.todo) /\ n.row.cert = n.created
         /\ n.row.enabled = q.row.enabled
         /\ [n.row EXCEPT !.cert = None] = [q.row EXCEPT !.cert = None]
<1>0. PICK id \in 1..MaxCerts : n = Issued(q, id)
  BY DEF Gets
<1> DEFINE row == [q.row EXCEPT !.cert = id]
<1>1. row.cert = id /\ [row EXCEPT !.cert = None] = [q.row EXCEPT !.cert = None]
  BY DEF Row
<1>2. row.enabled = q.row.enabled
  BY Zenon DEF Row
<1> HIDE DEF row
<1>3. n = [q EXCEPT !.row = row, !.created = id, !.todo = Tail(q.todo)]
  BY <1>0 DEF Issued, row
<1>4. /\ n.kind = q.kind /\ n.key = q.key /\ n.password = q.password
      /\ n.created = id /\ n.todo = Tail(q.todo) /\ n.row = row
  BY <1>3 DEF Request
<1>5. n.new = q.new
  BY <1>3, Zenon DEF Request
<1>6. n.created \in 1..MaxCerts /\ n.row.cert = n.created
  BY <1>1, <1>4
<1> QED BY <1>1, <1>2, <1>4, <1>5, <1>6, Zenon

LEMMA UndoneFields ==
  ASSUME NEW q \in Request, NEW n, Undoes(q, n)
  PROVE  /\ n.kind = q.kind /\ n.key = q.key /\ n.new = q.new /\ n.password = q.password
         /\ n.created = q.created /\ n.todo = <<"discard">> /\ n.row = q.row
<1>1. n = [q EXCEPT !.todo = <<"discard">>]
  BY DEF Undoes
<1>2. /\ n.kind = q.kind /\ n.key = q.key /\ n.password = q.password
      /\ n.created = q.created /\ n.todo = <<"discard">> /\ n.row = q.row
  BY <1>1 DEF Request
<1>3. n.new = q.new
  BY <1>1, Zenon DEF Request
<1> QED BY <1>2, <1>3

Sound == \A r \in Requests : Plain(reqs[r]) /\ Issuing(reqs[r])

LEMMA SoundIdle == Plain(Idle) /\ Issuing(Idle)
<1>1. \A s : ~Has(Idle.todo, s)
  BY IdleIsRequest, Pieces
<1>2. Plain(Idle)
  BY <1>1, IdleIsRequest, Zenon DEF Plain, Calls
<1>3. Issuing(Idle)
  BY <1>1, IdleIsRequest, Zenon DEF Issuing
<1> QED BY <1>2, <1>3

LEMMA SoundMoves ==
  ASSUME NEW q \in Request, Filled(q), Plain(q), Issuing(q), NEW n, Moves(q, n)
  PROVE  Plain(n) /\ Issuing(n)
<1>1. /\ q.todo # <<>> /\ Head(q.todo) # "issue" /\ n.todo = Tail(q.todo)
      /\ n.kind = q.kind /\ n.key = q.key /\ n.created = q.created /\ Same(q, n)
  BY DEF Moves
<1>2. \A s : Has(q.todo, s) <=> Head(q.todo) = s \/ Has(n.todo, s)
  BY <1>1, RequestFields, HasTail
<1>3. q.kind \in Issuers => n.row = q.row /\ n.new = q.new
  <2>1. q.kind \in Issuers => q.kind # "enable" /\ q.kind # "relist"
    BY DEF Issuers
  <2> QED BY <1>1, <2>1, Zenon DEF Same
<1>4. q.kind # "none"
  BY <1>1, IdleIsRequest DEF Plain
<1>5. Plain(n)
  <2>1. ASSUME NEW t \in Tables, Has(n.todo, t)
        PROVE  n.kind \in {"enable", "uncert", "unlist"} \/ (n.kind \in Issuers /\ n.row.enabled)
    <3>1. q.kind \in {"enable", "uncert", "unlist"} \/ (q.kind \in Issuers /\ q.row.enabled)
      BY <1>2, <2>1, Zenon DEF Plain, Calls
    <3> QED BY <1>1, <1>3, <3>1, Zenon
  <2>2. /\ Has(n.todo, "exists") => n.kind \in {"update", "relist"}
        /\ Has(n.todo, "cert") \/ Has(n.todo, "list") => n.kind \in Issuers
    BY <1>1, <1>2, Zenon DEF Plain, Calls
  <2> QED BY <1>1, <1>4, <2>1, <2>2, Zenon DEF Plain, Calls
<1>6. Issuing(n)
  <2>1. Has(q.todo, "issue") \/ q.created # None => q.kind \in Issuers
    BY Zenon DEF Filled, Issuers
  <2>2. Has(n.todo, "issue") => n.new
    BY <1>2, <1>3, <2>1, Zenon DEF Issuing
  <2>3. n.kind \in Issuers /\ n.new /\ n.created = None => n.row.cert = None /\ Has(n.todo, "issue")
    <3>1. SUFFICES ASSUME q.kind \in Issuers, q.new, q.created = None
                   PROVE  q.row.cert = None /\ Has(n.todo, "issue")
      BY <1>1, <1>3, Zenon
    <3>2. q.row.cert = None /\ Has(q.todo, "issue")
      BY <3>1, Zenon DEF Issuing
    <3> QED BY <1>1, <1>2, <3>2, Zenon
  <2>4. n.created # None => n.new /\ n.row.cert = n.created
    BY <1>1, <1>3, <2>1, Zenon DEF Issuing
  <2>5. Has(n.todo, "discard") => n.created # None
    BY <1>1, <1>2, Zenon DEF Issuing
  <2> QED BY <2>2, <2>3, <2>4, <2>5, Zenon DEF Issuing
<1> QED BY <1>5, <1>6

LEMMA SoundUndoes ==
  ASSUME NEW q \in Request, Filled(q), Issuing(q), NEW n, Undoes(q, n)
  PROVE  Plain(n) /\ Issuing(n)
<1>1. /\ n.kind = q.kind /\ n.key = q.key /\ n.new = q.new /\ n.created = q.created
      /\ n.todo = <<"discard">> /\ n.row = q.row
  BY UndoneFields
<1>2. q.created # None /\ q.kind \in Issuers
  BY Zenon DEF Undoes, Filled, Issuers
<1>3. \A s : Has(n.todo, s) => s = "discard"
  BY <1>1, Pieces
<1>4. n.kind \in {"create", "update"} /\ "discard" \notin Tables
  BY <1>1, <1>2 DEF Issuers, Tables, Sites, Listeners
<1>5. Plain(n)
  BY <1>3, <1>4 DEF Plain, Calls
<1>6. Issuing(n)
  <2>1. ~Has(n.todo, "issue")
    BY <1>3
  <2> QED BY <1>1, <1>2, <2>1, Zenon DEF Issuing
<1> QED BY <1>5, <1>6

\* A request that is to have a certificate issued creates or edits a host.
LEMMA ToIssue ==
  ASSUME NEW q \in Request, Filled(q), Issuing(q), q.todo # <<>>, Head(q.todo) = "issue"
  PROVE  /\ q.kind \in Issuers /\ q.created = None /\ q.new /\ q.row.cert = None /\ q.row \in Row
         /\ ~Has(Tail(q.todo), "issue")
         /\ \A s : Has(Tail(q.todo), s) => Has(q.todo, s)
<1>1. Has(q.todo, "issue") /\ \A s : Has(Tail(q.todo), s) => Has(q.todo, s)
  BY RequestFields, HasTail
<1>2. q.kind \in Issuers /\ q.created = None
  BY <1>1, Zenon DEF Filled, Issuers
<1>3. q.new /\ q.row.cert = None
  BY <1>1, <1>2, Zenon DEF Issuing
<1>4. ~Has(Tail(q.todo), "issue")
  BY RequestFields, LastCalls DEF Filled
<1>5. q.row \in Row
  BY <1>2 DEF Filled, RowOK, Issuers
<1> QED BY <1>1, <1>2, <1>3, <1>4, <1>5

LEMMA SoundGets ==
  ASSUME NEW q \in Request, Filled(q), Plain(q), Issuing(q), NEW n, Gets(q, n)
  PROVE  Plain(n) /\ Issuing(n)
<1>2. /\ q.kind \in Issuers /\ q.created = None /\ q.new /\ q.row.cert = None /\ q.row \in Row
      /\ ~Has(Tail(q.todo), "issue")
      /\ \A s : Has(Tail(q.todo), s) => Has(q.todo, s)
  BY ToIssue DEF Gets
<1>3. /\ n.kind = q.kind /\ n.key = q.key /\ n.new = q.new
      /\ n.created \in 1..MaxCerts /\ n.todo = Tail(q.todo) /\ n.row.cert = n.created
      /\ n.row.enabled = q.row.enabled
  BY <1>2, GotFields, Zenon
<1>4. n.created # None
  BY <1>3, RegistryAssumption DEF None
<1>5. n.kind \in {"create", "update"}
  BY <1>2, <1>3 DEF Issuers
<1>6. Plain(n)
  <2>1. Calls(n.todo, n.kind, n.row.enabled)
    BY <1>2, <1>3, Zenon DEF Plain, Calls
  <2> QED BY <1>5, <2>1 DEF Plain
<1>7. Issuing(n)
  BY <1>2, <1>3, <1>4, Zenon DEF Issuing
<1> QED BY <1>6, <1>7

LEMMA SoundInit == Init => Sound
BY SoundIdle DEF Init, Sound

LEMMA SoundNext ==
  ASSUME Typed, Sound, [Next]_vars
  PROVE  Sound'
<1>1. ASSUME NEW r \in Requests, NEW q \in Asks, Arrive(r, q) PROVE Sound'
  <2>1. reqs' = [reqs EXCEPT ![r] = q] /\ reqs \in [Requests -> Request]
    BY <1>1, TypedParts DEF Arrive
  <2> QED BY <2>1, AsksIssuing DEF Sound
<1>2. ASSUME NEW r \in Requests, Handles(r) \/ Dropped(r) PROVE Sound'
  <2>1. \A x \in Requests : x # r => reqs'[x] = reqs[x]
    BY <1>2, RequestStep
  <2>2. reqs[r] \in Request /\ Filled(reqs[r]) /\ Plain(reqs[r]) /\ Issuing(reqs[r])
    BY TypedParts DEF Sound
  <2>3. Plain(reqs'[r]) /\ Issuing(reqs'[r])
    BY <1>2, <2>2, OwnStep, SoundIdle, SoundMoves, SoundUndoes, SoundGets
  <2> QED BY <2>1, <2>3 DEF Sound
<1>3. CASE UNCHANGED vars
  BY <1>3 DEF vars, Sound
<1> QED BY <1>1, <1>2, <1>3 DEF Next, NextOf

\* Until it is answered a request asks for what it asked for when it came.
LEMMA SameAsk ==
  ASSUME NEW q \in Request, Filled(q), Issuing(q), NEW n, Undoes(q, n) \/ Moves(q, n) \/ Gets(q, n)
  PROVE  AskOf(n) = AskOf(q)
<1> DEFINE Row1(x) == IF x.kind \in {"create", "update"}
                      THEN [x.row EXCEPT !.cert = IF x.created = None THEN @ ELSE None]
                      ELSE NoRow
           New1(x) == x.kind \in {"create", "update"} /\ x.new
           Word1(x) == IF x.kind = "relist" /\ x.new THEN Keep ELSE x.password
<1>1. \A x : AskOf(x) = [kind |-> x.kind, key |-> x.key, row |-> Row1(x), new |-> New1(x),
                         password |-> Word1(x)]
  BY Zenon DEF AskOf
<1>2. CASE Undoes(q, n)
  BY <1>1, <1>2, UndoneFields, Zenon
<1>3. CASE Moves(q, n)
  <2>1. n.kind = q.kind /\ n.key = q.key /\ n.created = q.created /\ Same(q, n)
    BY <1>3, Zenon DEF Moves
  <2>2. CASE n.row = q.row /\ n.new = q.new /\ n.password = q.password
    BY <1>1, <2>1, <2>2, Zenon
  <2>3. CASE q.kind = "enable" /\ n.password = q.password
    <3>1. q.kind \notin {"create", "update"} /\ q.kind # "relist"
      BY <2>3
    <3>2. Row1(n) = Row1(q) /\ (New1(n) = New1(q)) /\ Word1(n) = Word1(q)
      BY <2>1, <2>3, <3>1, Zenon
    <3> HIDE DEF Row1, New1, Word1
    <3> QED BY <1>1, <2>1, <3>2, Zenon
  <2>4. CASE q.kind = "relist" /\ n.row = q.row /\ n.new /\ q.password = Keep
    <3>1. q.kind \notin {"create", "update"}
      BY <2>4
    <3>2. Row1(n) = Row1(q) /\ (New1(n) = New1(q)) /\ Word1(n) = Word1(q)
      BY <2>1, <2>4, <3>1, Zenon
    <3> HIDE DEF Row1, New1, Word1
    <3> QED BY <1>1, <2>1, <3>2, Zenon
  <2> QED BY <2>1, <2>2, <2>3, <2>4 DEF Same
<1>4. CASE Gets(q, n)
  <2>2. q.kind \in Issuers /\ q.created = None /\ q.new /\ q.row.cert = None /\ q.row \in Row
    BY <1>4, ToIssue DEF Gets
  <2>3. /\ n.kind = q.kind /\ n.key = q.key /\ n.new = q.new /\ n.password = q.password
        /\ n.created \in 1..MaxCerts /\ [n.row EXCEPT !.cert = None] = [q.row EXCEPT !.cert = None]
    BY <1>4, <2>2, GotFields, Zenon
  <2>4. n.created # None
    BY <2>3, RegistryAssumption DEF None
  <2>5. Row1(n) = [n.row EXCEPT !.cert = None]
    BY <2>2, <2>3, <2>4 DEF Issuers
  <2>6. Row1(q) = [q.row EXCEPT !.cert = None]
    BY <2>2 DEF Issuers, Row
  <2>7. (New1(n) = New1(q)) /\ Word1(n) = Word1(q)
    BY <2>3, Zenon
  <2> HIDE DEF Row1, New1, Word1
  <2> QED BY <1>1, <2>3, <2>5, <2>6, <2>7, Zenon
<1> QED BY <1>2, <1>3, <1>4

\* A certificate that a request has had issued is in no row, and, if nothing deletes
\* certificates in between, is there and the request's.
Holds(rs, cs, r, id) ==
    /\ \A k \in DOMAIN rs : rs[k].cert # id
    /\ ~IdsReissued => id \in DOMAIN cs /\ cs[id] = r
HeldInv == \A r \in Requests : reqs[r].created # None => Holds(rows, certs, r, reqs[r].created)

LEMMA HeldParts ==
  /\ HeldInv <=> \A r \in Requests : reqs[r].created # None => Holds(rows, certs, r, reqs[r].created)
  /\ HeldInv' <=> \A r \in Requests : reqs'[r].created # None => Holds(rows', certs', r, reqs'[r].created)
BY DEF HeldInv

\* What the requests that neither write hosts nor delete certificates do to certificates.
LEMMA CertsStep ==
  ASSUME Typed, Sound, NEW r \in Requests, Handles(r) \/ Dropped(r),
         reqs[r].kind \notin {"create", "update", "import", "uncert"},
         NEW i \in DOMAIN certs, certs[i] # r
  PROVE  i \in DOMAIN certs' /\ certs'[i] = certs[i]
<1> DEFINE q == reqs[r]
           Kept1 == i \in DOMAIN certs' /\ certs'[i] = certs[i]
<1>1. q \in Request /\ Filled(q) /\ Issuing(q)
  BY TypedParts DEF Sound
<1>2. \A s \in {"issue", "discard"} : ~Has(q.todo, s)
  BY <1>1, Zenon DEF Filled, Issuing
<1>3. ~Issues(r) /\ ~DiscardsCert(r)
  BY <1>1, <1>2, RequestFields, HasTail DEF Issues, DiscardsCert, At
<1>4. certs' = certs => Kept1
  OBVIOUS
<1>5. ASSUME NEW rs, NEW cs, NEW ls, Done(r, rs, cs, ls), i \in DOMAIN cs, cs[i] = certs[i]
      PROVE  Kept1
  BY <1>5 DEF Done, Forgets
<1>6. Refused(r) => certs' = certs
  BY DEF Refused, Becomes
<1>7. \A p : Goes(r, p) => certs' = certs
  BY DEF Goes, Becomes
<1>8. ReadsTable(r) \/ Exists(r) \/ ChecksCert(r) \/ ChecksList(r) \/ ReadsRow(r) \/ ReadsHash(r)
      => certs' = certs
  BY <1>6, <1>7, Zenon DEF ReadsTable, Exists, ChecksCert, ChecksList, ReadsRow, ReadsHash, Passes
<1>9. ASSUME WritesCert(r) PROVE Kept1
  <2>1. PICK id \in 1..MaxCerts : IsNextId(id, DOMAIN certs) /\ Done(r, rows, Insert(certs, id, None), lists)
    BY <1>9 DEF WritesCert
  <2>2. id # i
    BY <2>1, TypedParts DEF IsNextId, CertsOK
  <2>3. i \in DOMAIN Insert(certs, id, None) /\ Insert(certs, id, None)[i] = certs[i]
    BY <2>2 DEF Insert
  <2> QED BY <1>5, <2>1, <2>3
<1>10. \A rs, ls : Done(r, rs, certs, ls) => Kept1
  BY <1>5
<1> HIDE DEF Kept1
<1>11. SetsEnabled(r) \/ DeletesRow(r) \/ WritesList(r) \/ DeletesList(r) \/ Dropped(r) => Kept1
  BY <1>4, <1>6, <1>10, Zenon DEF SetsEnabled, DeletesRow, WritesList, DeletesList, Dropped
<1>12. ~Imports(r) /\ \A t : ~WritesRow(r, t)
  BY DEF Imports, WritesRow
<1>13. Kept1
  BY <1>3, <1>4, <1>8, <1>9, <1>11, <1>12, Zenon
     DEF Handles, WritesProxy, WritesRedirect, WritesDead, WritesStream, WritesSni
<1> QED BY <1>13 DEF Kept1

LEMMA HeldInit == Init => HeldInv
BY IdleIsRequest DEF Init, HeldInv

\* The certificate a request gets has an id no row refers to, and while it is handled no
\* other request gives a row another certificate.
LEMMA HeldNext ==
  ASSUME Typed, Sound, Alone(Claimers), ~IdsReissued => Alone({"create", "update", "uncert"}),
         HeldInv, [Next]_vars
  PROVE  HeldInv'
<1>0. reqs \in [Requests -> Request] /\ \A x \in Requests : Filled(reqs[x])
  BY TypedParts
<1>1. ASSUME NEW r \in Requests, NEW q \in Asks, Arrive(r, q) PROVE HeldInv'
  <2>1. /\ rows' = rows /\ certs' = certs /\ reqs' = [reqs EXCEPT ![r] = q] /\ q.created = None
    BY <1>1, AsksAreAsked DEF Arrive, Asked
  <2>2. ASSUME NEW x \in Requests, reqs'[x].created # None
        PROVE  Holds(rows', certs', x, reqs'[x].created)
    <3>1. reqs'[x] = reqs[x]
      BY <1>0, <2>1, <2>2
    <3> QED BY <2>1, <2>2, <3>1, HeldParts
  <2> QED BY <2>2, HeldParts
<1>2. ASSUME NEW r \in Requests, Handles(r) \/ Dropped(r) PROVE HeldInv'
  <2>1. ASSUME reqs'[r].created # None
        PROVE  Holds(rows', certs', r, reqs'[r].created)
    <3>1. reqs'[r] # Idle
      BY <2>1, IdleIsRequest
    <3>2. CASE /\ Undoes(reqs[r], reqs'[r]) \/ Moves(reqs[r], reqs'[r])
               /\ rows' = rows /\ certs' = certs
      <4>1. reqs'[r].created = reqs[r].created
        BY <1>0, <3>2, UndoneFields DEF Moves
      <4> QED BY <2>1, <3>2, <4>1, HeldParts
    <3>3. CASE /\ Gets(reqs[r], reqs'[r]) /\ IsNextId(reqs'[r].created, DOMAIN certs)
               /\ rows' = rows /\ certs' = Insert(certs, reqs'[r].created, r)
      <4> DEFINE id == reqs'[r].created
      <4>1. id \notin DOMAIN certs
        BY <3>3, TypedParts DEF IsNextId, CertsOK
      <4>2. \A k \in DOMAIN rows : rows[k].cert # id
        BY <2>1, <4>1, TypedParts DEF RowsOK
      <4>3. id \in DOMAIN certs' /\ certs'[id] = r
        BY <3>3 DEF Insert
      <4> HIDE DEF id
      <4>4. Holds(rows', certs', r, id)
        BY <3>3, <4>2, <4>3 DEF Holds
      <4> QED BY <4>4 DEF id
    <3> QED BY <1>2, <3>1, <3>2, <3>3, OwnStep
  <2>2. ASSUME NEW x \in Requests, x # r, reqs'[x].created # None
        PROVE  Holds(rows', certs', x, reqs'[x].created)
    <3> DEFINE id == reqs[x].created
    <3>1. reqs'[x] = reqs[x]
      BY <1>2, <2>2, RequestStep
    <3>2. id # None /\ Holds(rows, certs, x, id)
      BY <2>2, <3>1, HeldParts
    <3>3. reqs[x].kind \in {"create", "update"}
      BY <1>0, <3>2 DEF Filled
    <3>4. reqs[r].kind \notin {"create", "update", "import"}
      BY <2>2, <3>3 DEF Alone, Claimers
    <3>5. \A k \in DOMAIN rows' : k \in DOMAIN rows /\ rows'[k].cert = rows[k].cert
      BY <1>2, <3>4, RowsStep
    <3> HIDE DEF id
    <3>6. \A k \in DOMAIN rows' : rows'[k].cert # id
      BY <3>2, <3>5 DEF Holds
    <3>7. ASSUME ~IdsReissued PROVE id \in DOMAIN certs' /\ certs'[id] = x
      <4>1. id \in DOMAIN certs /\ certs[id] = x
        BY <3>2, <3>7 DEF Holds
      <4>2. reqs[r].kind # "uncert"
        BY <2>2, <3>3, <3>7 DEF Alone
      <4>3. reqs[r].kind \notin {"create", "update", "import", "uncert"} /\ certs[id] # r
        BY <2>2, <3>4, <4>1, <4>2
      <4> QED BY <1>2, <4>1, <4>3, CertsStep
    <3>8. Holds(rows', certs', x, id)
      BY <3>6, <3>7 DEF Holds
    <3> QED BY <3>1, <3>8 DEF id
  <2> QED BY <2>1, <2>2, HeldParts
<1>3. CASE UNCHANGED vars
  BY <1>3, HeldParts DEF vars
<1> QED BY <1>1, <1>2, <1>3 DEF Next, NextOf
\* The host tables are functions.
Tabular == rows = [k \in DOMAIN rows |-> rows[k]]

LEMMA TabularInit == Init => Tabular
BY DEF Init, Empty, Tabular

LEMMA TabularNext ==
  ASSUME Tabular, [Next]_vars
  PROVE  Tabular'
<1>1. rows' = rows => Tabular'
  BY DEF Tabular
<1>2. ASSUME NEW r \in Requests, Handles(r) \/ Dropped(r) PROVE Tabular'
  <2>1. CASE \E t \in Tables : WritesRow(r, t)
    <3>1. rows' = rows \/ \E key, row : rows' = Insert(rows, key, row)
      BY <2>1 DEF WritesRow, Refused, Becomes, Done
    <3> QED BY <1>1, <3>1 DEF Tabular, Insert
  <2>2. CASE Imports(r)
    <3>1. rows' = rows \/ \E doc \in Docs : rows' = doc.rows
      BY <2>2 DEF Imports, Refused, Becomes, Done, ImportedRows
    <3>2. \A doc \in Docs : doc.rows \in [DOMAIN doc.rows -> Row]
      BY RegistryAssumption DEF Document
    <3> QED BY <1>1, <3>1, <3>2 DEF Tabular
  <2>3. CASE SetsEnabled(r)
    <3>1. rows' = rows \/ \E key, row : rows' = [rows EXCEPT ![key] = row]
      BY <2>3 DEF SetsEnabled, Refused, Becomes, Done
    <3> QED BY <1>1, <3>1 DEF Tabular
  <2>4. CASE DeletesRow(r)
    BY <2>4 DEF DeletesRow, Done, Without, Tabular
  <2>5. CASE DeletesList(r)
    BY <2>5 DEF DeletesList, Done, Tabular
  <2> QED BY <1>1, <1>2, <2>1, <2>2, <2>3, <2>4, <2>5, RowsWritten
<1>3. ASSUME NEW r \in Requests, NEW q \in Asks, Arrive(r, q) PROVE Tabular'
  BY <1>1, <1>3 DEF Arrive
<1>4. CASE UNCHANGED vars
  BY <1>1, <1>4 DEF vars
<1> QED BY <1>2, <1>3, <1>4 DEF Next, NextOf

(* ------------------------- the atomic registry --------------------------- *)

RefInv ==
    /\ Typed /\ Sound /\ ClaimInv /\ CertInv /\ ListInv /\ HashInv /\ HeldInv
    /\ Tabular /\ Alone(Claimers)

LEMMA AskParts ==
  ASSUME NEW q
  PROVE  /\ AskOf(q).kind = q.kind /\ AskOf(q).key = q.key
         /\ AskOf(q).row = IF q.kind \in {"create", "update"}
                           THEN [q.row EXCEPT !.cert = IF q.created = None THEN @ ELSE None]
                           ELSE NoRow
         /\ AskOf(q).new <=> q.kind \in {"create", "update"} /\ q.new
         /\ AskOf(q).password = IF q.kind = "relist" /\ q.new THEN Keep ELSE q.password
BY Zenon DEF AskOf

LEMMA PendingParts ==
  /\ Pending = [x \in Requests |-> AskOf(reqs[x])]
  /\ Pending' = [x \in Requests |-> AskOf(reqs'[x])]
  /\ \A x \in Requests : Pending[x] = AskOf(reqs[x])
BY DEF Pending

LEMMA VisibleParts ==
  /\ Visible = {i \in DOMAIN certs : certs[i] = None}
  /\ Visible' = {i \in DOMAIN certs' : certs'[i] = None}
BY DEF Visible

\* A request that is answered asks no more.
LEMMA Answered ==
  ASSUME NEW r \in Requests, reqs'[r] = Idle, \A x \in Requests : x # r => reqs'[x] = reqs[x]
  PROVE  Atomic!Answers(r)
<1>1. ASSUME NEW x \in Requests
      PROVE  Pending'[x] = [Pending EXCEPT ![r] = AskOf(Idle)][x]
  BY PendingParts
<1>2. Pending' = [Pending EXCEPT ![r] = AskOf(Idle)]
  BY <1>1, PendingParts
<1> QED BY <1>2 DEF Atomic!Answers

LEMMA Stutters ==
  ASSUME Typed, Sound, NEW r \in Requests, Handles(r) \/ Dropped(r), reqs'[r] # Idle
  PROVE  UNCHANGED Atomic!vars
<1>1. /\ reqs[r] \in Request /\ Filled(reqs[r]) /\ Issuing(reqs[r])
  BY TypedParts DEF Sound
<1>2. \A x \in Requests : x # r => reqs'[x] = reqs[x]
  BY RequestStep
<1>3. \/ /\ Undoes(reqs[r], reqs'[r]) \/ Moves(reqs[r], reqs'[r])
         /\ rows' = rows /\ certs' = certs /\ lists' = lists
      \/ /\ Gets(reqs[r], reqs'[r]) /\ IsNextId(reqs'[r].created, DOMAIN certs)
         /\ rows' = rows /\ certs' = Insert(certs, reqs'[r].created, r) /\ lists' = lists
  BY OwnStep
<1>4. AskOf(reqs'[r]) = AskOf(reqs[r])
  BY <1>1, <1>3, SameAsk
<1>5. Pending' = Pending
  BY <1>2, <1>4, PendingParts
<1>6. Visible' = Visible
  <2>1. CASE certs' = certs
    BY <2>1, VisibleParts
  <2>2. CASE IsNextId(reqs'[r].created, DOMAIN certs) /\ certs' = Insert(certs, reqs'[r].created, r)
    <3> DEFINE id == reqs'[r].created
    <3>1. id \notin DOMAIN certs
      BY <2>2, TypedParts DEF IsNextId, CertsOK
    <3>2. /\ DOMAIN certs' = DOMAIN certs \cup {id} /\ certs'[id] = r
          /\ \A i \in DOMAIN certs : certs'[i] = certs[i]
      BY <2>2, <3>1 DEF Insert
    <3>3. r # None
      BY RegistryAssumption
    <3> HIDE DEF id
    <3> QED BY <3>1, <3>2, <3>3, VisibleParts
  <2> QED BY <1>3, <2>1, <2>2
<1> QED BY <1>3, <1>5, <1>6 DEF Atomic!vars

\* A request that is refused, with nothing to take back, for a reason that holds.
LEMMA Refuses ==
  ASSUME Typed, Sound, NEW r \in Requests, Handles(r), reqs[r].todo # <<>>, reqs'[r] = Idle,
         rows' = rows, Visible' = Visible, lists' = lists, Atomic!Refusable(AskOf(reqs[r]))
  PROVE  Atomic!Next
<1>1. \A x \in Requests : x # r => reqs'[x] = reqs[x]
  BY RequestStep
<1>2. Atomic!Answers(r)
  BY <1>1, Answered
<1>3. Pending[r] # AskOf(Idle)
  <2>1. reqs[r].kind # "none"
    BY IdleIsRequest DEF Sound, Plain
  <2>2. AskOf(reqs[r]).kind # AskOf(Idle).kind
    BY <2>1, AskParts, IdleIsRequest
  <2> QED BY <2>2, PendingParts
<1>4. Atomic!Refuse(r)
  BY <1>2, <1>3, PendingParts DEF Atomic!Refuse
<1> QED BY <1>4 DEF Atomic!Next

\* A call that only reads ends a request by refusing it.
LEMMA PassesEnds ==
  ASSUME Typed, Sound, NEW r \in Requests, NEW cond, Passes(r, cond), reqs[r].todo # <<>>,
         reqs'[r] = Idle
  PROVE  ~cond /\ rows' = rows /\ Visible' = Visible /\ lists' = lists
<1>1. reqs[r] \in Request /\ reqs[r].kind # "none" /\ reqs \in [Requests -> Request]
  BY TypedParts, IdleIsRequest DEF Sound, Plain
<1>2. ~Goes(r, reqs[r])
  <2>1. SUFFICES ASSUME Goes(r, reqs[r]) PROVE FALSE
    OBVIOUS
  <2> DEFINE n == [reqs[r] EXCEPT !.todo = Tail(@)]
  <2>2. reqs'[r] = n
    BY <1>1, <2>1 DEF Goes, Becomes
  <2>3. n.kind = reqs[r].kind
    BY <1>1 DEF Request
  <2> HIDE DEF n
  <2> QED BY <1>1, <2>2, <2>3, IdleIsRequest
<1>3. ~cond /\ Refused(r)
  BY <1>2, Zenon DEF Passes
<1>4. rows' = rows /\ certs' = certs /\ lists' = lists
  BY <1>3 DEF Refused, Becomes
<1> QED BY <1>3, <1>4, VisibleParts

\* The row a request asks for, as far as it has not had a certificate issued.
LEMMA AskedRow ==
  ASSUME NEW q \in Request, Filled(q), q.kind \in Issuers
  PROVE  /\ AskOf(q).row.enabled = q.row.enabled
         /\ AskOf(q).row.claims = q.row.claims /\ AskOf(q).row.list = q.row.list
         /\ AskOf(q).row.cert = (IF q.created = None THEN q.row.cert ELSE None)
         /\ \A c : [AskOf(q).row EXCEPT !.cert = c] = [q.row EXCEPT !.cert = c]
         /\ AskOf(q).new <=> q.new
<1> DEFINE c0 == IF q.created = None THEN q.row.cert ELSE None
           row == [q.row EXCEPT !.cert = c0]
<1>1. q.row \in Row /\ q.kind \in {"create", "update"}
  BY DEF Filled, RowOK, Issuers
<1>2. AskOf(q).row = row
  BY <1>1, AskParts
<1> HIDE DEF c0
<1>3. /\ row.claims = q.row.claims /\ row.list = q.row.list /\ row.cert = c0
      /\ \A c : [row EXCEPT !.cert = c] = [q.row EXCEPT !.cert = c]
  BY <1>1 DEF Row
<1>4. row.enabled = q.row.enabled
  BY <1>1, Zenon DEF Row
<1>5. AskOf(q).new <=> q.new
  BY <1>1, AskParts, Zenon
<1> HIDE DEF row
<1> QED BY <1>2, <1>3, <1>4, <1>5, Zenon DEF c0

LEMMA NotFree ==
  ASSUME NEW key, NEW names, NEW t, Clash(t, key, names)
  PROVE  ~Atomic!Free(key, names)
BY DEF Clash, Atomic!Free

\* Why the request to create or to change a host may be refused.
LEMMA EditRefusable ==
  ASSUME Typed, NEW q \in Request, Filled(q), Issuing(q), q.kind \in Issuers,
         \/ q.new
         \/ q.row.enabled /\ \E t : Clash(t, q.key, q.row.claims)
         \/ q.row.list \notin DOMAIN lists \cup {None}
         \/ q.row.cert \notin DOMAIN certs \cup {None}
         \/ q.kind = "update" /\ q.key \notin DOMAIN rows
  PROVE  Atomic!Refusable(AskOf(q))
<1> DEFINE a == AskOf(q)
<1>0. SUFFICES Atomic!Refusable(a)
  OBVIOUS
<1>1. a.kind = q.kind /\ a.key = q.key
  BY AskParts
<1>2. /\ a.row.enabled = q.row.enabled
      /\ a.row.claims = q.row.claims /\ a.row.list = q.row.list
      /\ a.row.cert = (IF q.created = None THEN q.row.cert ELSE None)
  BY AskedRow
<1>3. a.new <=> q.new
  BY AskedRow
<1>4. Visible \subseteq DOMAIN certs
  BY VisibleParts
<1>5. q.kind \in {"create", "update"}
  BY DEF Issuers
<1> HIDE DEF a
<1>6. CASE q.new
  BY <1>1, <1>3, <1>5, <1>6, Zenon DEF Atomic!Refusable
<1>7. CASE ~q.new
  <2>1. q.created = None
    BY <1>7, Zenon DEF Issuing
  <2>2. a.row.cert = q.row.cert
    BY <1>2, <2>1
  <2>3. CASE q.row.enabled /\ \E t : Clash(t, q.key, q.row.claims)
    <3>1. ~Atomic!Free(q.key, q.row.claims)
      BY <2>3, NotFree
    <3> QED BY <1>1, <1>2, <1>5, <2>3, <3>1, Zenon DEF Atomic!Refusable, Atomic!Fits
  <2>4. CASE q.row.list \notin DOMAIN lists \cup {None}
    BY <1>1, <1>2, <1>5, <2>4, Zenon DEF Atomic!Refusable, Atomic!Fits
  <2>5. CASE q.row.cert \notin DOMAIN certs \cup {None}
    <3>1. a.row.cert \notin Visible \cup {None}
      BY <1>4, <2>2, <2>5
    <3> QED BY <1>1, <1>5, <3>1, Zenon DEF Atomic!Refusable, Atomic!Fits
  <2>6. CASE q.kind = "update" /\ q.key \notin DOMAIN rows
    BY <1>1, <1>5, <2>6, Zenon DEF Atomic!Refusable, Atomic!Fits
  <2> QED BY <1>7, <2>3, <2>4, <2>5, <2>6
<1> QED BY <1>6, <1>7

\* An enabling request that has read its row may be refused when one of the names is taken.
LEMMA EnableRefusable ==
  ASSUME NEW q, q.kind = "enable",
         q.key \in DOMAIN rows => \E t : Clash(t, q.key, rows[q.key].claims)
  PROVE  Atomic!Refusable(AskOf(q))
<1>1. AskOf(q).kind = "enable" /\ AskOf(q).key = q.key
  BY AskParts
<1>2. q.key \in DOMAIN rows => ~Atomic!Free(q.key, rows[q.key].claims)
  BY NotFree
<1> QED BY <1>1, <1>2, Zenon DEF Atomic!Refusable

LEMMA ReadsTableAtomic ==
  ASSUME RefInv, NEW r \in Requests, ReadsTable(r)
  PROVE  [Atomic!Next]_(Atomic!vars)
<1> DEFINE q == reqs[r]
<1>0. Typed /\ Sound /\ q \in Request /\ Filled(q) /\ Plain(q) /\ Issuing(q) /\ Claimed(rows, q)
  BY TypedParts, ClaimParts DEF RefInv, Sound
<1>1. Handles(r)
  BY DEF Handles
<1>2. PICK t \in Tables : At(r, t) /\ Passes(r, CASE q.kind = "uncert" -> ~UsesCert(t, q.key[2])
                                                [] q.kind = "unlist" -> ~UsesList(t, q.key[2])
                                                [] OTHER -> ~Clash(t, q.key, q.row.claims))
  BY DEF ReadsTable
<1>3. CASE reqs'[r] # Idle
  BY <1>0, <1>1, <1>3, Stutters
<1>4. CASE reqs'[r] = Idle
  <2>1. q.todo # <<>> /\ Head(q.todo) = t
    BY <1>2 DEF At
  <2>2. /\ ~CASE q.kind = "uncert" -> ~UsesCert(t, q.key[2])
              [] q.kind = "unlist" -> ~UsesList(t, q.key[2])
              [] OTHER -> ~Clash(t, q.key, q.row.claims)
        /\ rows' = rows /\ Visible' = Visible /\ lists' = lists
    BY <1>0, <1>2, <1>4, <2>1, PassesEnds
  <2>3. Has(q.todo, t)
    BY <1>0, <2>1, RequestFields, HasTail
  <2>4. q.kind \in {"enable", "uncert", "unlist"} \/ (q.kind \in Issuers /\ q.row.enabled)
    BY <1>0, <2>3, Zenon DEF Plain, Calls
  <2>5. CASE q.kind = "uncert"
    <3>1. UsesCert(t, q.key[2])
      BY <2>2, <2>5
    <3>2. Atomic!CertUsed(q.key[2])
      BY <3>1 DEF UsesCert, Atomic!CertUsed
    <3>3. AskOf(q).kind = "uncert" /\ AskOf(q).key = q.key
      BY <2>5, AskParts
    <3>4. Atomic!Refusable(AskOf(q))
      BY <3>2, <3>3, Zenon DEF Atomic!Refusable
    <3> QED BY <1>0, <1>1, <1>4, <2>1, <2>2, <3>4, Refuses
  <2>6. CASE q.kind = "unlist"
    <3>1. UsesList(t, q.key[2])
      BY <2>2, <2>6
    <3>2. Atomic!ListUsed(q.key[2])
      BY <3>1 DEF UsesList, Atomic!ListUsed
    <3>3. AskOf(q).kind = "unlist" /\ AskOf(q).key = q.key
      BY <2>6, AskParts
    <3>4. Atomic!Refusable(AskOf(q))
      BY <3>2, <3>3, Zenon DEF Atomic!Refusable
    <3> QED BY <1>0, <1>1, <1>4, <2>1, <2>2, <3>4, Refuses
  <2>7. CASE q.kind = "enable"
    <3>1. Clash(t, q.key, q.row.claims)
      BY <2>2, <2>7
    <3>2. ~Has(q.todo, "read")
      <4>1. Has(q.todo, "read") => q.todo = EnablePlan(q.key[1])
        BY <1>0, <2>7 DEF Claimed
      <4>2. Head(EnablePlan(q.key[1])) = "read"
        BY <1>0, <2>7, EnableStarts DEF Filled
      <4>3. t # "read"
        BY DEF Tables, Sites, Listeners
      <4> QED BY <2>1, <4>1, <4>2, <4>3
    <3>3. q.key \in DOMAIN rows => rows[q.key].claims = q.row.claims
      BY <1>0, <2>7, <3>2 DEF Claimed
    <3>4. Atomic!Refusable(AskOf(q))
      BY <2>7, <3>1, <3>3, EnableRefusable
    <3> QED BY <1>0, <1>1, <1>4, <2>1, <2>2, <3>4, Refuses
  <2>8. CASE q.kind \in Issuers /\ q.row.enabled
    <3>1. q.kind # "uncert" /\ q.kind # "unlist"
      BY <2>8 DEF Issuers
    <3>2. Clash(t, q.key, q.row.claims)
      BY <2>2, <3>1
    <3>3. Atomic!Refusable(AskOf(q))
      BY <1>0, <2>8, <3>2, EditRefusable
    <3> QED BY <1>0, <1>1, <1>4, <2>1, <2>2, <3>3, Refuses
  <2> QED BY <2>4, <2>5, <2>6, <2>7, <2>8
<1> QED BY <1>3, <1>4

LEMMA ChecksAtomic ==
  ASSUME RefInv, NEW r \in Requests, Exists(r) \/ ChecksCert(r) \/ ChecksList(r)
  PROVE  [Atomic!Next]_(Atomic!vars)
<1> DEFINE q == reqs[r]
<1>0. Typed /\ Sound /\ q \in Request /\ Filled(q) /\ Plain(q) /\ Issuing(q)
  BY TypedParts DEF RefInv, Sound
<1>1. Handles(r)
  BY DEF Handles
<1>2. CASE reqs'[r] # Idle
  BY <1>0, <1>1, <1>2, Stutters
<1>3. CASE reqs'[r] = Idle /\ Exists(r)
  <2>1. q.todo # <<>> /\ Head(q.todo) = "exists"
    BY <1>3 DEF Exists, At
  <2>2. Has(q.todo, "exists")
    BY <1>0, <2>1, RequestFields, HasTail
  <2>3. q.kind \in {"update", "relist"}
    BY <1>0, <2>2, Zenon DEF Plain, Calls
  <2>4. /\ ~IF q.kind = "relist" THEN q.key[2] \in DOMAIN lists ELSE q.key \in DOMAIN rows
        /\ rows' = rows /\ Visible' = Visible /\ lists' = lists
    BY <1>0, <1>3, <2>1, PassesEnds DEF Exists
  <2>5. CASE q.kind = "relist"
    <3>1. AskOf(q).kind = "relist" /\ AskOf(q).key = q.key /\ q.key[2] \notin DOMAIN lists
      BY <2>4, <2>5, AskParts
    <3>2. Atomic!Refusable(AskOf(q))
      BY <3>1, Zenon DEF Atomic!Refusable
    <3> QED BY <1>0, <1>1, <1>3, <2>1, <2>4, <3>2, Refuses
  <2>6. CASE q.kind = "update"
    <3>1. q.key \notin DOMAIN rows /\ q.kind \in Issuers
      BY <2>4, <2>6 DEF Issuers
    <3>2. Atomic!Refusable(AskOf(q))
      BY <1>0, <2>6, <3>1, EditRefusable
    <3> QED BY <1>0, <1>1, <1>3, <2>1, <2>4, <3>2, Refuses
  <2> QED BY <2>3, <2>5, <2>6
<1>4. CASE reqs'[r] = Idle /\ (ChecksCert(r) \/ ChecksList(r))
  <2>1. q.todo # <<>> /\ Head(q.todo) \in {"cert", "list"}
    BY <1>4 DEF ChecksCert, ChecksList, At
  <2>2. Has(q.todo, "cert") \/ Has(q.todo, "list")
    BY <1>0, <2>1, RequestFields, HasTail
  <2>3. q.kind \in Issuers
    BY <1>0, <2>2, Zenon DEF Plain, Calls
  <2>4. /\ \/ q.row.list \notin DOMAIN lists \cup {None}
           \/ q.row.cert \notin DOMAIN certs \cup {None}
        /\ rows' = rows /\ Visible' = Visible /\ lists' = lists
    BY <1>0, <1>4, <2>1, PassesEnds DEF ChecksCert, ChecksList
  <2>5. Atomic!Refusable(AskOf(q))
    BY <1>0, <2>3, <2>4, EditRefusable
  <2> QED BY <1>0, <1>1, <1>4, <2>1, <2>4, <2>5, Refuses
<1> QED BY <1>2, <1>3, <1>4

\* A request that is refused takes its certificate back first, if it has one.
LEMMA RefusedAtomic ==
  ASSUME RefInv, NEW r \in Requests, Handles(r), Refused(r), reqs[r].todo # <<>>,
         reqs[r].created = None => Atomic!Refusable(AskOf(reqs[r]))
  PROVE  [Atomic!Next]_(Atomic!vars)
<1> DEFINE q == reqs[r]
<1>0. Typed /\ Sound /\ q \in Request /\ reqs \in [Requests -> Request]
  BY TypedParts DEF RefInv
<1>1. /\ rows' = rows /\ certs' = certs /\ lists' = lists
      /\ q.created = None => reqs'[r] = Idle
  BY <1>0 DEF Refused, Becomes
<1>2. CASE q.created = None
  BY <1>0, <1>1, <1>2, Refuses, VisibleParts
<1>3. CASE q.created # None
  <2> DEFINE n == [q EXCEPT !.todo = <<"discard">>]
  <2>1. reqs'[r] = n
    BY <1>0, <1>3 DEF Refused, Becomes
  <2>2. n.todo = <<"discard">>
    BY <1>0 DEF Request
  <2> HIDE DEF n
  <2>3. reqs'[r] # Idle
    BY <2>1, <2>2, IdleIsRequest
  <2> QED BY <1>0, <2>3, Stutters
<1> QED BY <1>2, <1>3

LEMMA Answers ==
  ASSUME Typed, NEW r \in Requests, Handles(r) \/ Dropped(r), reqs'[r] = Idle
  PROVE  Atomic!Answers(r)
<1>1. \A x \in Requests : x # r => reqs'[x] = reqs[x]
  BY RequestStep
<1> QED BY <1>1, Answered

\* An answer with success: the certificate the request has had issued is there from then on.
LEMMA DoneParts ==
  ASSUME Typed, NEW r \in Requests, NEW rs, NEW cs, NEW ls, Done(r, rs, cs, ls)
  PROVE  /\ rows' = rs /\ lists' = ls /\ reqs'[r] = Idle
         /\ Visible' = {i \in DOMAIN cs : cs[i] \in {None, r}}
<1>1. reqs \in [Requests -> Request]
  BY TypedParts
<1>2. /\ rows' = rs /\ lists' = ls /\ reqs'[r] = Idle
      /\ certs' = [i \in DOMAIN cs |-> IF cs[i] = r THEN None ELSE cs[i]]
  BY <1>1 DEF Done, Answer, Forgets
<1> QED BY <1>2, VisibleParts

\* Whose a certificate is.
LEMMA Whose ==
  ASSUME RefInv, NEW i \in DOMAIN certs, certs[i] # None
  PROVE  /\ certs[i] \in Requests /\ reqs[certs[i]].created = i /\ i \in 1..MaxCerts /\ i # None
         /\ reqs[certs[i]].kind \in Issuers
         /\ \A r \in Requests : reqs[r].kind \in Issuers => certs[i] = r
<1>1. /\ Typed /\ CertInv /\ Alone(Claimers) /\ CertsOK(certs)
  BY TypedParts DEF RefInv
<1>2. certs[i] \in Requests /\ reqs[certs[i]].created = i /\ i \in 1..MaxCerts
  BY <1>1 DEF CertInv, CertsOK
<1>3. i # None
  BY <1>2, RegistryAssumption DEF None
<1>4. reqs[certs[i]].kind \in Issuers
  BY <1>1, <1>2, <1>3, TypedParts, Zenon DEF Filled, Issuers
<1> QED BY <1>1, <1>2, <1>3, <1>4 DEF Alone, Claimers, Issuers

\* What is there for all after an answer, of certificates that were there before.
LEMMA DoneVisible ==
  ASSUME RefInv, NEW r \in Requests
  PROVE  {i \in DOMAIN certs : certs[i] \in {None, r}} =
           IF reqs[r].created \in DOMAIN certs /\ certs[reqs[r].created] = r
           THEN Visible \cup {reqs[r].created} ELSE Visible
<1>1. ASSUME NEW i \in DOMAIN certs, certs[i] = r PROVE i = reqs[r].created
  <2>1. certs[i] # None
    BY <1>1, RegistryAssumption
  <2> QED BY <1>1, <2>1, Whose
<1> QED BY <1>1, VisibleParts

\* No name of a row of the one sort of tables is one of the other.
LEMMA Freed ==
  ASSUME Typed, NEW key, key[1] \in Tables, NEW claims \in Shapes[key[1]],
         \A t \in Rivals(key[1]) : ~Clashes(rows, t, key, claims)
  PROVE  Atomic!Free(key, claims)
<1> SUFFICES ASSUME NEW k \in DOMAIN rows, k # key, rows[k].enabled
    PROVE  rows[k].claims \cap claims = {}
  BY Zenon DEF Atomic!Free
<1>1. k[1] \in Tables /\ rows[k].claims \in Shapes[k[1]]
  BY RowClaims, TypedParts DEF RowsOK, Keys
<1>2. CASE k[1] \in Rivals(key[1])
  <2>1. ~Clashes(rows, k[1], key, claims)
    BY <1>2
  <2> QED BY <2>1, Zenon DEF Clashes
<1>3. CASE k[1] \notin Rivals(key[1])
  <2>1. (k[1] \in Sites /\ key[1] \in Listeners) \/ (k[1] \in Listeners /\ key[1] \in Sites)
    BY <1>1, <1>3 DEF Rivals, Tables
  <2>2. CASE k[1] \in Sites /\ key[1] \in Listeners
    BY <1>1, <2>2, RegistryAssumption
  <2>3. CASE k[1] \in Listeners /\ key[1] \in Sites
    <3>1. claims \cap rows[k].claims = {}
      BY <1>1, <2>3, RegistryAssumption
    <3> QED BY <3>1
  <2> QED BY <2>1, <2>2, <2>3
<1> QED BY <1>2, <1>3

LEMMA OnlyWrites ==
  ASSUME NEW q \in Request, Filled(q), q.todo # <<>>, Head(q.todo) = "write"
  PROVE  \A s : Has(q.todo, s) <=> s = "write"
<1>1. \A s : ~Has(Tail(q.todo), s)
  BY RequestFields, LastCalls DEF Filled
<1> QED BY <1>1, RequestFields, HasTail

\* What a request holds when it is to write a row: all that it asked for is there, and the
\* certificate it is to have issued is its own.
LEMMA WriteFits ==
  ASSUME RefInv, NEW r \in Requests, At(r, "write"), reqs[r].kind \in Issuers,
         RefsExist(reqs[r].row), reqs[r].kind = "update" => reqs[r].key \in DOMAIN rows
  PROVE  Atomic!Fits(AskOf(reqs[r]))
<1> DEFINE q == reqs[r]
           a == AskOf(q)
<1>0. SUFFICES Atomic!Fits(a)
  OBVIOUS
<1>1. /\ Typed /\ q \in Request /\ Filled(q) /\ Claimed(rows, q)
      /\ q.todo # <<>> /\ Head(q.todo) = "write"
  BY TypedParts, ClaimParts DEF RefInv, At
<1>2. /\ q.kind \in {"create", "update"} /\ q.key[1] \in Tables
      /\ q.row.claims \in Shapes[q.key[1]]
  BY <1>1 DEF Filled, RowOK, Issuers
<1>3. q.row.enabled => Atomic!Free(q.key, q.row.claims)
  <2>1. q.row.enabled => \A t \in Rivals(q.key[1]) : ~Clashes(rows, t, q.key, q.row.claims)
    BY <1>1, <1>2, WriteCleared
  <2> QED BY <1>1, <1>2, <2>1, Freed
<1>4. q.row.list \in DOMAIN lists \cup {None}
  BY DEF RefsExist
<1>5. q.created = None => q.row.cert \in Visible \cup {None}
  <2> SUFFICES ASSUME q.created = None, q.row.cert # None PROVE q.row.cert \in Visible
    OBVIOUS
  <2>1. q.row.cert \in DOMAIN certs
    BY DEF RefsExist
  <2>2. certs[q.row.cert] = None
    <3> SUFFICES ASSUME certs[q.row.cert] # None PROVE FALSE
      OBVIOUS
    <3>1. certs[q.row.cert] = r /\ reqs[certs[q.row.cert]].created = q.row.cert
      BY <2>1, Whose
    <3> QED BY <3>1
  <2> QED BY <2>1, <2>2, VisibleParts
<1>6. /\ a.kind = q.kind /\ a.key = q.key
      /\ a.row.enabled = q.row.enabled
      /\ a.row.claims = q.row.claims /\ a.row.list = q.row.list
      /\ a.row.cert = (IF q.created = None THEN q.row.cert ELSE None)
  BY <1>1, AskedRow, AskParts
<1> HIDE DEF a
<1>7. a.row.enabled => Atomic!Free(a.key, a.row.claims)
  BY <1>3, <1>6, Zenon
<1>8. a.row.list \in DOMAIN lists \cup {None} /\ a.row.cert \in Visible \cup {None}
  BY <1>4, <1>5, <1>6
<1>9. a.kind = "update" => a.key \in DOMAIN rows
  BY <1>6
<1> QED BY <1>7, <1>8, <1>9, Zenon DEF Atomic!Fits

\* The certificate in the row that is written.
LEMMA WriteCert ==
  ASSUME RefInv, NEW r \in Requests, At(r, "write"), reqs[r].kind \in Issuers,
         RefsExist(reqs[r].row)
  PROVE  /\ IF AskOf(reqs[r]).new THEN Atomic!Fresh(reqs[r].row.cert)
            ELSE reqs[r].row.cert = AskOf(reqs[r]).row.cert
         /\ reqs[r].row.cert \in (1..MaxCerts) \cup {None}
         /\ {i \in DOMAIN certs : certs[i] \in {None, r}}
              = Visible \cup ({reqs[r].row.cert} \ {None})
<1> DEFINE q == reqs[r]
<1>1. /\ Typed /\ q \in Request /\ Filled(q) /\ Issuing(q) /\ CertsOK(certs) /\ HeldInv
      /\ q.todo # <<>> /\ Head(q.todo) = "write"
  BY TypedParts DEF RefInv, Sound, At
<1>2. ~Has(q.todo, "issue")
  BY <1>1, OnlyWrites
<1>3. AskOf(q).new <=> q.new
  BY <1>1, AskedRow
<1>4. AskOf(q).row.cert = (IF q.created = None THEN q.row.cert ELSE None)
  BY <1>1, AskedRow
<1>5. q.row.cert \in DOMAIN certs \cup {None} /\ q.row.cert \in (1..MaxCerts) \cup {None}
  BY <1>1 DEF RefsExist, CertsOK
<1>6. CASE q.new
  <2>1. q.created # None /\ q.row.cert = q.created
    BY <1>1, <1>2, <1>6, Zenon DEF Issuing
  <2>2. Holds(rows, certs, r, q.created)
    BY <1>1, <2>1 DEF HeldInv
  <2>3. q.created \in 1..MaxCerts /\ q.created \in DOMAIN certs
    BY <1>5, <2>1
  <2>4. r # None
    BY RegistryAssumption
  <2>5. ~Atomic!CertUsed(q.created)
    BY <2>2 DEF Holds, Atomic!CertUsed
  <2>6. q.created \in Visible => IdsReissued
    BY <2>2, <2>4, VisibleParts DEF Holds
  <2>7. Atomic!Fresh(q.row.cert)
    BY <2>1, <2>3, <2>5, <2>6 DEF Atomic!Fresh
  <2>8. certs[q.created] \in {None, r}
    BY <2>3, Whose
  <2>9. {i \in DOMAIN certs : certs[i] \in {None, r}} = Visible \cup {q.created}
    BY <2>3, <2>8, DoneVisible, VisibleParts
  <2> QED BY <1>3, <1>5, <1>6, <2>1, <2>7, <2>9
<1>7. CASE ~q.new
  <2>1. q.created = None
    BY <1>1, <1>7, Zenon DEF Issuing
  <2>2. None \notin DOMAIN certs
    BY <1>1, RegistryAssumption DEF CertsOK, None
  <2>3. {i \in DOMAIN certs : certs[i] \in {None, r}} = Visible
    BY <2>1, <2>2, DoneVisible
  <2>4. q.row.cert \in Visible \cup {None}
    <3>1. q.row.cert \in DOMAIN certs => certs[q.row.cert] = None
      <4> SUFFICES ASSUME q.row.cert \in DOMAIN certs, certs[q.row.cert] # None PROVE FALSE
        OBVIOUS
      <4>1. certs[q.row.cert] = r /\ reqs[certs[q.row.cert]].created = q.row.cert
        BY Whose
      <4> QED BY <2>1, <2>2, <4>1
    <3> QED BY <1>5, <3>1, VisibleParts
  <2> QED BY <1>3, <1>4, <1>5, <1>7, <2>1, <2>3, <2>4
<1> QED BY <1>6, <1>7

LEMMA WritesRowAtomic ==
  ASSUME RefInv, NEW r \in Requests, NEW t \in Tables, WritesRow(r, t), Handles(r)
  PROVE  [Atomic!Next]_(Atomic!vars)
<1> DEFINE q == reqs[r]
           a == AskOf(q)
<1>1. /\ Typed /\ q \in Request /\ Filled(q) /\ Issuing(q)
      /\ q.todo # <<>> /\ Head(q.todo) = "write"
      /\ q.kind \in Issuers /\ q.key[1] = t
  BY TypedParts DEF RefInv, Sound, At, WritesRow, Issuers
<1>2. CASE Refused(r) /\ ~(RefsExist(q.row) /\ (q.kind = "update" => q.key \in DOMAIN rows))
  <2>1. Atomic!Refusable(AskOf(q))
    BY <1>1, <1>2, EditRefusable DEF RefsExist
  <2> QED BY <1>1, <1>2, <2>1, RefusedAtomic
<1>3. CASE RefsExist(q.row) /\ (q.kind = "update" => q.key \in DOMAIN rows)
  <2>1. PICK id \in 1..MaxRows :
          /\ IF q.kind = "create" THEN IsNextId(id, IdsOf(t)) ELSE id = q.key[2]
          /\ Done(r, Insert(rows, <<t, id>>, q.row), certs, lists)
    BY <1>3 DEF WritesRow
  <2> DEFINE cert == q.row.cert
  <2>2. /\ rows' = Insert(rows, <<t, id>>, q.row) /\ lists' = lists /\ reqs'[r] = Idle
        /\ Visible' = {i \in DOMAIN certs : certs[i] \in {None, r}}
    BY <1>1, <2>1, DoneParts
  <2>3. /\ IF a.new THEN Atomic!Fresh(cert) ELSE cert = a.row.cert
        /\ cert \in (1..MaxCerts) \cup {None}
        /\ Visible' = Visible \cup ({cert} \ {None})
    BY <1>1, <1>3, <2>2, WriteCert DEF WritesRow
  <2>4. Atomic!Fits(a)
    BY <1>1, <1>3, WriteFits DEF WritesRow
  <2>5. [a.row EXCEPT !.cert = cert] = q.row
    <3>1. [a.row EXCEPT !.cert = cert] = [q.row EXCEPT !.cert = cert]
      BY <1>1, AskedRow
    <3>2. q.row \in Row
      BY <1>1 DEF Filled, RowOK, Issuers
    <3>3. [q.row EXCEPT !.cert = cert] = q.row
      BY <3>2 DEF Row
    <3> QED BY <3>1, <3>3
  <2>6. a.kind = q.kind /\ a.key = q.key
    BY AskParts
  <2>7. q.kind = "create" => <<t, id>> \notin DOMAIN rows
    <3> SUFFICES ASSUME q.kind = "create", <<t, id>> \in DOMAIN rows PROVE FALSE
      OBVIOUS
    <3>1. <<t, id>>[1] = t /\ <<t, id>>[2] = id
      OBVIOUS
    <3>2. id \in IdsOf(t)
      BY <3>1 DEF IdsOf
    <3>3. IsNextId(id, IdsOf(t))
      BY <2>1
    <3> QED BY <3>2, <3>3 DEF IsNextId
  <2>8. rows' = Atomic!With(rows, <<t, id>>, q.row)
    BY <2>2 DEF Insert, Atomic!With
  <2>9. Atomic!Answers(r)
    BY <1>1, <2>2, Answers
  <2>10. q.kind \in {"create", "update"}
    BY <1>1 DEF Issuers
  <2>11. Pending[r] = a
    BY PendingParts
  <2> HIDE DEF a, cert
  <2>12. a.key[1] = t /\ (IF a.kind = "create" THEN <<a.key[1], id>> \notin DOMAIN rows ELSE id = a.key[2])
    BY <1>1, <2>1, <2>6, <2>7
  <2>13. rows' = Atomic!With(rows, <<a.key[1], id>>, [a.row EXCEPT !.cert = cert])
    BY <2>5, <2>8, <2>12
  <2>14. Atomic!Is(r, {"create", "update"})
    BY <2>6, <2>10, <2>11 DEF Atomic!Is
  <2>15. Atomic!Write(r)
    BY <2>1, <2>2, <2>3, <2>4, <2>9, <2>11, <2>12, <2>13, <2>14, Zenon DEF Atomic!Write
  <2> QED BY <2>15 DEF Atomic!Next
<1> QED BY <1>2, <1>3 DEF WritesRow

LEMMA GoesOn ==
  ASSUME Typed, NEW r \in Requests, NEW p \in Request, p.kind # "none", Goes(r, p)
  PROVE  reqs'[r] # Idle
<1> DEFINE n == [p EXCEPT !.todo = Tail(@)]
<1>1. reqs \in [Requests -> Request]
  BY TypedParts
<1>2. reqs'[r] = n
  BY <1>1 DEF Goes, Becomes
<1>3. n.kind = p.kind
  BY DEF Request
<1> HIDE DEF n
<1> QED BY <1>2, <1>3, IdleIsRequest

\* A request that has calls to make is one.
LEMMA IsAsked ==
  ASSUME RefInv, NEW r \in Requests, reqs[r].todo # <<>>
  PROVE  reqs[r].kind # "none"
BY IdleIsRequest DEF RefInv, Sound, Plain

LEMMA ReadsRowAtomic ==
  ASSUME RefInv, NEW r \in Requests, ReadsRow(r)
  PROVE  [Atomic!Next]_(Atomic!vars)
<1> DEFINE q == reqs[r]
           p == WithClaims(q, rows[q.key].claims)
<1>1. Typed /\ Sound /\ q \in Request /\ Filled(q) /\ q.todo # <<>> /\ Head(q.todo) = "read"
  BY TypedParts DEF RefInv, ReadsRow, At
<1>2. q.kind = "enable"
  BY <1>1, RequestFields, HasTail, Zenon DEF Filled
<1>3. Goes(r, q) \/ (Goes(r, p) /\ q.key \in DOMAIN rows)
  BY DEF ReadsRow, WithClaims
<1>4. reqs'[r] # Idle
  <2>1. CASE Goes(r, q)
    BY <1>1, <1>2, <2>1, GoesOn
  <2>2. CASE Goes(r, p) /\ q.key \in DOMAIN rows
    <3>1. p \in Request /\ p.kind = q.kind
      BY <1>1, <1>2, <2>2, ReadRowKeeps, RowClaims
    <3> HIDE DEF p
    <3> QED BY <1>1, <1>2, <2>2, <3>1, GoesOn
  <2> QED BY <1>3, <2>1, <2>2
<1>5. Handles(r)
  BY DEF Handles
<1> QED BY <1>1, <1>4, <1>5, Stutters

LEMMA ReadsHashAtomic ==
  ASSUME RefInv, NEW r \in Requests, ReadsHash(r)
  PROVE  [Atomic!Next]_(Atomic!vars)
<1> DEFINE q == reqs[r]
           h == StoredHash(q.key[2])
           p == WithHash(q, h)
<1>1. Typed /\ Sound /\ q \in Request /\ Filled(q) /\ q.todo # <<>> /\ Head(q.todo) = "hash"
  BY TypedParts DEF RefInv, ReadsHash, At
<1>2. q.kind = "relist"
  BY <1>1, RequestFields, HasTail, Zenon DEF Filled
<1>3. Handles(r)
  BY DEF Handles
<1>4. \/ Goes(r, q)
      \/ Goes(r, p) /\ q.key[2] \in DOMAIN lists
      \/ Refused(r) /\ q.key[2] \notin DOMAIN lists
  BY Zenon DEF ReadsHash, WithHash
<1>5. CASE Goes(r, q)
  <2>1. reqs'[r] # Idle
    BY <1>1, <1>2, <1>5, GoesOn
  <2> QED BY <1>1, <1>3, <2>1, Stutters
<1>6. CASE Goes(r, p) /\ q.key[2] \in DOMAIN lists
  <2>1. h \in Passwords
    BY <1>1, <1>6, TypedParts DEF ListsOK, StoredHash
  <2> HIDE DEF h
  <2>2. p \in Request /\ p.kind = q.kind
    BY <1>1, <1>2, <2>1, ReadHashKeeps
  <2> HIDE DEF p
  <2>3. reqs'[r] # Idle
    BY <1>1, <1>2, <1>6, <2>2, GoesOn
  <2> QED BY <1>1, <1>3, <2>3, Stutters
<1>7. CASE Refused(r) /\ q.key[2] \notin DOMAIN lists
  <2>1. AskOf(q).kind = "relist" /\ AskOf(q).key = q.key
    BY <1>2, AskParts
  <2>2. Atomic!Refusable(AskOf(q))
    BY <1>7, <2>1, Zenon DEF Atomic!Refusable
  <2> QED BY <1>1, <1>3, <1>7, <2>2, RefusedAtomic
<1> QED BY <1>4, <1>5, <1>6, <1>7

LEMMA IssuesAtomic ==
  ASSUME RefInv, NEW r \in Requests, Issues(r)
  PROVE  [Atomic!Next]_(Atomic!vars)
<1> DEFINE q == reqs[r]
<1>1. /\ Typed /\ Sound /\ q \in Request /\ Filled(q) /\ Issuing(q)
      /\ reqs \in [Requests -> Request] /\ q.todo # <<>> /\ Head(q.todo) = "issue"
  BY TypedParts DEF RefInv, Sound, Issues, At
<1>2. q.kind \in Issuers /\ q.new
  BY <1>1, ToIssue
<1>3. Handles(r)
  BY DEF Handles
<1>4. CASE Refused(r)
  <2>1. Atomic!Refusable(AskOf(q))
    BY <1>1, <1>2, EditRefusable
  <2> QED BY <1>1, <1>3, <1>4, <2>1, RefusedAtomic
<1>5. CASE ~Refused(r)
  <2>1. PICK id \in 1..MaxCerts : reqs' = [reqs EXCEPT ![r] = Issued(q, id)]
    BY <1>5 DEF Issues, Issued
  <2>2. reqs'[r] = Issued(q, id)
    BY <1>1, <2>1
  <2>3. Issued(q, id).kind = q.kind
    BY <1>1 DEF Issued, Request
  <2>4. reqs'[r] # Idle
    BY <1>2, <2>2, <2>3, IdleIsRequest DEF Issuers
  <2> QED BY <1>1, <1>3, <2>4, Stutters
<1> QED BY <1>4, <1>5

LEMMA SetsEnabledAtomic ==
  ASSUME RefInv, NEW r \in Requests, SetsEnabled(r)
  PROVE  [Atomic!Next]_(Atomic!vars)
<1> DEFINE q == reqs[r]
           key == q.key
<1>1. /\ Typed /\ Sound /\ q \in Request /\ Filled(q) /\ Claimed(rows, q)
      /\ q.todo # <<>> /\ Head(q.todo) = "write" /\ q.kind \in {"enable", "disable"}
  BY TypedParts, ClaimParts DEF RefInv, SetsEnabled, At
<1>2. Handles(r)
  BY DEF Handles
<1>3. Pending[r].kind = q.kind /\ Pending[r].key = q.key
  BY PendingParts, AskParts
<1>4. CASE key \notin DOMAIN rows
  <2>1. Refused(r)
    BY <1>4 DEF SetsEnabled
  <2>2. AskOf(q).kind = q.kind /\ AskOf(q).key = q.key
    BY AskParts
  <2>3. Atomic!Refusable(AskOf(q))
    BY <1>1, <1>4, <2>2 DEF Atomic!Refusable
  <2> QED BY <1>1, <1>2, <2>1, <2>3, RefusedAtomic
<1>5. CASE key \in DOMAIN rows
  <2>1. Done(r, [rows EXCEPT ![key] = [@ EXCEPT !.enabled = (q.kind = "enable")]], certs, lists)
    BY <1>5 DEF SetsEnabled
  <2>2. /\ rows' = [rows EXCEPT ![key] = [@ EXCEPT !.enabled = (q.kind = "enable")]]
        /\ lists' = lists /\ reqs'[r] = Idle
        /\ Visible' = {i \in DOMAIN certs : certs[i] \in {None, r}}
    BY <1>1, <2>1, DoneParts
  <2>3. q.created = None
    BY <1>1, Zenon DEF Filled
  <2>4. None \notin DOMAIN certs
    BY <1>1, TypedParts, RegistryAssumption DEF CertsOK, None
  <2>5. Visible' = Visible
    BY <2>2, <2>3, <2>4, DoneVisible
  <2>6. Atomic!Answers(r)
    BY <1>1, <1>2, <2>2, Answers
  <2>7. CASE q.kind = "enable"
    <3>1. /\ \A t \in Rivals(key[1]) : ~Clashes(rows, t, key, q.row.claims)
          /\ rows[key].claims = q.row.claims
      BY <1>1, <1>5, <2>7, WriteCleared
    <3>2. key[1] \in Tables /\ rows[key].claims \in Shapes[key[1]]
      BY <1>1, <1>5, RowClaims
    <3>3. Atomic!Free(key, rows[key].claims)
      BY <1>1, <3>1, <3>2, Freed
    <3>4. rows' = [rows EXCEPT ![key] = [@ EXCEPT !.enabled = TRUE]]
      BY <2>2, <2>7
    <3>5. Atomic!Is(r, {"enable"})
      BY <1>3, <2>7 DEF Atomic!Is
    <3>6. Atomic!Enable(r)
      BY <1>3, <1>5, <2>2, <2>5, <2>6, <3>3, <3>4, <3>5, Zenon DEF Atomic!Enable
    <3> QED BY <3>6 DEF Atomic!Next
  <2>8. CASE q.kind = "disable"
    <3>1. rows' = [rows EXCEPT ![key] = [@ EXCEPT !.enabled = FALSE]]
      BY <2>2, <2>8
    <3>2. Atomic!Is(r, {"disable"})
      BY <1>3, <2>8 DEF Atomic!Is
    <3>3. Atomic!Disable(r)
      BY <1>3, <1>5, <2>2, <2>5, <2>6, <3>1, <3>2, Zenon DEF Atomic!Disable
    <3> QED BY <3>3 DEF Atomic!Next
  <2> QED BY <1>1, <2>7, <2>8
<1> QED BY <1>4, <1>5

LEMMA DeletesRowAtomic ==
  ASSUME RefInv, NEW r \in Requests, DeletesRow(r)
  PROVE  [Atomic!Next]_(Atomic!vars)
<1> DEFINE q == reqs[r]
<1>1. Typed /\ Filled(q) /\ q.kind = "delete" /\ Handles(r)
  BY TypedParts DEF RefInv, DeletesRow, Handles
<1>2. Pending[r].kind = "delete" /\ Pending[r].key = q.key
  BY <1>1, PendingParts, AskParts
<1>3. /\ rows' = Without(rows, q.key) /\ lists' = lists /\ reqs'[r] = Idle
      /\ Visible' = {i \in DOMAIN certs : certs[i] \in {None, r}}
  BY <1>1, DoneParts DEF DeletesRow
<1>4. q.created = None
  BY <1>1, Zenon DEF Filled
<1>5. None \notin DOMAIN certs
  BY <1>1, TypedParts, RegistryAssumption DEF CertsOK, None
<1>6. Visible' = Visible
  BY <1>3, <1>4, <1>5, DoneVisible
<1>7. Atomic!Answers(r)
  BY <1>1, <1>3, Answers
<1>8. rows' = Atomic!Less(rows, q.key)
  BY <1>3 DEF Without, Atomic!Less
<1>9. Atomic!Is(r, {"delete"})
  BY <1>2 DEF Atomic!Is
<1>10. Atomic!Delete(r)
  BY <1>2, <1>3, <1>6, <1>7, <1>8, <1>9, Zenon DEF Atomic!Delete
<1> QED BY <1>10 DEF Atomic!Next

LEMMA Unheld ==
  ASSUME RefInv, NEW r \in Requests, reqs[r].kind \notin Issuers
  PROVE  /\ {i \in DOMAIN certs : certs[i] \in {None, r}} = Visible
         /\ \A i \in DOMAIN certs : certs[i] # r
<1>1. ASSUME NEW i \in DOMAIN certs PROVE certs[i] # r
  <2> SUFFICES ASSUME certs[i] = r PROVE FALSE
    OBVIOUS
  <2>1. certs[i] # None
    BY RegistryAssumption
  <2> QED BY <2>1, Whose
<1> QED BY <1>1, VisibleParts

LEMMA WritesCertAtomic ==
  ASSUME RefInv, NEW r \in Requests, WritesCert(r)
  PROVE  [Atomic!Next]_(Atomic!vars)
<1> DEFINE q == reqs[r]
           a == AskOf(q)
<1>1. Typed /\ Sound /\ q.todo # <<>> /\ Handles(r)
  BY DEF RefInv, WritesCert, At, Handles
<1>2. Pending[r] = a /\ a.kind = q.kind /\ a.key = q.key
  BY PendingParts, AskParts
<1>3. q.kind \in {"issue", "uncert"} /\ q.kind \notin Issuers
  BY DEF WritesCert, Issuers
<1>4. \A i \in DOMAIN certs : certs[i] # r
  BY <1>3, Unheld
<1>5. CASE q.kind = "issue"
  <2>1. PICK id \in 1..MaxCerts :
          IsNextId(id, DOMAIN certs) /\ Done(r, rows, Insert(certs, id, None), lists)
    BY <1>5 DEF WritesCert
  <2> DEFINE cs == Insert(certs, id, None)
  <2>2. /\ rows' = rows /\ lists' = lists /\ reqs'[r] = Idle
        /\ Visible' = {i \in DOMAIN cs : cs[i] \in {None, r}}
    BY <1>1, <2>1, DoneParts
  <2>3. id \notin DOMAIN certs
    BY <1>1, <2>1, TypedParts DEF IsNextId, CertsOK
  <2>4. /\ DOMAIN cs = DOMAIN certs \cup {id} /\ cs[id] = None
        /\ \A i \in DOMAIN certs : cs[i] = certs[i]
    BY <2>3 DEF Insert
  <2> HIDE DEF cs
  <2>5. Visible' = Visible \cup {id} /\ id \notin Visible
    BY <1>4, <2>2, <2>3, <2>4, VisibleParts
  <2>6. Atomic!Answers(r)
    BY <1>1, <2>2, Answers
  <2>7. Atomic!Is(r, {"issue"})
    BY <1>2, <1>5 DEF Atomic!Is
  <2>8. Atomic!IssueCert(r)
    BY <2>2, <2>5, <2>6, <2>7 DEF Atomic!IssueCert
  <2> QED BY <2>8 DEF Atomic!Next
<1>6. CASE q.kind = "uncert"
  <2> DEFINE id == q.key[2]
  <2>1. Done(r, rows, Unissued(id), lists)
    BY <1>6 DEF WritesCert
  <2>2. /\ rows' = rows /\ lists' = lists /\ reqs'[r] = Idle
        /\ Visible' = {i \in DOMAIN Unissued(id) : Unissued(id)[i] \in {None, r}}
    BY <1>1, <2>1, DoneParts
  <2>3. Atomic!CertUsed(id) <=> InUse(id)
    BY DEF InUse, Atomic!CertUsed
  <2>4. CASE InUse(id)
    <3>1. Visible' = Visible
      BY <1>3, <2>2, <2>4, Unheld DEF Unissued
    <3>2. Atomic!Refusable(a)
      BY <1>2, <1>6, <2>3, <2>4 DEF Atomic!Refusable
    <3> QED BY <1>1, <2>2, <3>1, <3>2, Refuses
  <2>5. CASE ~InUse(id)
    <3>1. Visible' = Visible \ {id}
      BY <1>4, <2>2, <2>5, VisibleParts DEF Unissued, Without
    <3>2. Atomic!Answers(r)
      BY <1>1, <2>2, Answers
    <3>3. Atomic!Is(r, {"uncert"})
      BY <1>2, <1>6 DEF Atomic!Is
    <3> HIDE DEF a
    <3>4. Atomic!DeleteCert(r)
      BY <1>2, <2>2, <2>3, <2>5, <3>1, <3>2, <3>3, Zenon DEF Atomic!DeleteCert
    <3> QED BY <3>4 DEF Atomic!Next
  <2> QED BY <2>4, <2>5
<1> QED BY <1>3, <1>5, <1>6

LEMMA WritesListAtomic ==
  ASSUME RefInv, NEW r \in Requests, WritesList(r)
  PROVE  [Atomic!Next]_(Atomic!vars)
<1> DEFINE q == reqs[r]
           a == AskOf(q)
<1>1. /\ Typed /\ q \in Request /\ Filled(q) /\ Current(lists, q)
      /\ q.todo # <<>> /\ Head(q.todo) = "write" /\ Handles(r)
  BY TypedParts DEF RefInv, HashInv, WritesList, At, Handles
<1>2. Pending[r] = a /\ a.kind = q.kind /\ a.key = q.key
  BY PendingParts, AskParts
<1>3. q.kind \in {"newlist", "relist"} /\ q.kind \notin Issuers
  BY DEF WritesList, Issuers
<1>4. CASE q.kind = "relist" /\ q.key[2] \notin DOMAIN lists
  <2>1. Refused(r)
    BY <1>4 DEF WritesList
  <2>2. Atomic!Refusable(a)
    BY <1>2, <1>4 DEF Atomic!Refusable
  <2> QED BY <1>1, <2>1, <2>2, RefusedAtomic
<1>5. CASE ~(q.kind = "relist" /\ q.key[2] \notin DOMAIN lists)
  <2>1. PICK id \in 1..MaxLists :
          /\ IF q.kind = "newlist" THEN IsNextId(id, DOMAIN lists) ELSE id = q.key[2]
          /\ Done(r, rows, certs, Insert(lists, id, q.password))
    BY <1>5 DEF WritesList
  <2>2. {i \in DOMAIN certs : certs[i] \in {None, r}} = Visible
    BY <1>3, Unheld
  <2>3. /\ rows' = rows /\ lists' = Insert(lists, id, q.password) /\ reqs'[r] = Idle
        /\ Visible' = {i \in DOMAIN certs : certs[i] \in {None, r}}
    BY <1>1, <2>1, DoneParts
  <2>4. /\ rows' = rows /\ lists' = Insert(lists, id, q.password) /\ reqs'[r] = Idle
        /\ Visible' = Visible
    BY <2>2, <2>3
  <2>5. Atomic!Answers(r)
    BY <1>1, <2>4, Answers
  <2>6. lists' = Atomic!With(lists, id, q.password)
    BY <2>4 DEF Insert, Atomic!With
  <2>7. CASE q.kind = "newlist"
    <3>1. id \notin DOMAIN lists
      BY <1>1, <2>1, <2>7, TypedParts DEF IsNextId, ListsOK
    <3>2. a.password = q.password
      BY <2>7, AskParts
    <3>3. Atomic!Is(r, {"newlist"})
      BY <1>2, <2>7 DEF Atomic!Is
    <3> HIDE DEF a
    <3>5. Pending[r].password = q.password
      BY <1>2, <3>2
    <3>4. Atomic!CreateList(r)
      BY <3>5, <2>4, <2>5, <2>6, <3>1, <3>3 DEF Atomic!CreateList
    <3> QED BY <3>4 DEF Atomic!Next
  <2>8. CASE q.kind = "relist"
    <3>1. id = q.key[2] /\ id \in DOMAIN lists
      BY <1>5, <2>1, <2>8
    <3>2. q.password = IF a.password = Keep THEN lists[id] ELSE a.password
      <4>1. CASE q.new
        <5>1. a.password = Keep
          BY <2>8, <4>1, AskParts, Zenon
        <5>2. lists[id] = q.password
          BY <1>1, <2>8, <3>1, <4>1, Zenon DEF Current
        <5> QED BY <5>1, <5>2
      <4>2. CASE ~q.new
        <5>1. a.password = q.password
          BY <4>2, AskParts, Zenon
        <5>2. ~Has(q.todo, "hash")
          BY <1>1, OnlyWrites
        <5>3. q.password \in Passwords
          BY <1>1, <2>8, <5>2, Zenon DEF Filled
        <5> QED BY <5>1, <5>3, RegistryAssumption
      <4> QED BY <4>1, <4>2
    <3>3. Atomic!Is(r, {"relist"})
      BY <1>2, <2>8 DEF Atomic!Is
    <3> HIDE DEF a
    <3>4. lists' = Atomic!With(lists, id, IF a.password = Keep THEN lists[id] ELSE a.password)
      BY <2>6, <3>2
    <3>5. Atomic!ChangeList(r)
      BY <1>2, <2>4, <2>5, <3>1, <3>3, <3>4, Zenon DEF Atomic!ChangeList
    <3> QED BY <3>5 DEF Atomic!Next
  <2> QED BY <1>3, <2>7, <2>8
<1> QED BY <1>4, <1>5

LEMMA DeletesListAtomic ==
  ASSUME RefInv, NEW r \in Requests, DeletesList(r)
  PROVE  [Atomic!Next]_(Atomic!vars)
<1> DEFINE q == reqs[r]
           id == q.key[2]
<1>1. /\ Typed /\ q \in Request /\ Filled(q) /\ Unlisted(rows, q) /\ Plain(q)
      /\ q.todo # <<>> /\ Head(q.todo) = "write" /\ Handles(r)
  BY TypedParts, ListParts DEF RefInv, Sound, DeletesList, At, Handles
<1>2. q.kind = "unlist" /\ q.kind \notin Issuers
  BY DEF DeletesList, Issuers
<1>3. Pending[r].kind = q.kind /\ Pending[r].key = q.key
  BY PendingParts, AskParts
<1>4. /\ rows' = Detached(id) /\ lists' = Without(lists, id) /\ reqs'[r] = Idle
      /\ Visible' = Visible
  <2>1. Done(r, Detached(id), certs, Without(lists, id))
    BY DEF DeletesList, Detached
  <2>2. /\ rows' = Detached(id) /\ lists' = Without(lists, id) /\ reqs'[r] = Idle
        /\ Visible' = {i \in DOMAIN certs : certs[i] \in {None, r}}
    BY <1>1, <2>1, DoneParts
  <2>3. {i \in DOMAIN certs : certs[i] \in {None, r}} = Visible
    BY <1>2, Unheld
  <2> QED BY <2>2, <2>3
<1>5. \A k \in DOMAIN rows : rows[k].list # id
  <2>1. ~Has(q.todo, "proxy")
    BY <1>1, OnlyWrites
  <2>2. \A k \in DOMAIN rows : k[1] = "proxy" => rows[k].list # id
    BY <1>1, <1>2, <2>1 DEF Unlisted
  <2>3. id # None
    BY <1>1, <1>2 DEF Plain
  <2>4. \A k \in DOMAIN rows : k[1] # "proxy" => rows[k].list = None
    BY <1>1, TypedParts DEF RowsOK, RowOK
  <2> QED BY <2>2, <2>3, <2>4
<1>6. rows' = rows
  <2>1. Detached(id) = [k \in DOMAIN rows |-> rows[k]]
    BY <1>5, Zenon DEF Detached
  <2> QED BY <1>4, <2>1 DEF RefInv, Tabular
<1>7. ~Atomic!ListUsed(id)
  BY <1>5 DEF Atomic!ListUsed
<1>8. lists' = Atomic!Less(lists, id)
  BY <1>4 DEF Without, Atomic!Less
<1>9. Atomic!Answers(r)
  BY <1>1, <1>4, Answers
<1>10. Atomic!Is(r, {"unlist"})
  BY <1>2, <1>3 DEF Atomic!Is
<1>11. Atomic!DeleteList(r)
  BY <1>3, <1>4, <1>6, <1>7, <1>8, <1>9, <1>10, Zenon DEF Atomic!DeleteList
<1> QED BY <1>11 DEF Atomic!Next

\* The checks an import makes of its document are all it takes.
LEMMA DocConsistent ==
  ASSUME NEW doc \in Docs
  PROVE  Atomic!Consistent(doc) <=> DomainsOnce(doc) /\ PortsOnce(doc) /\ CertRefs(doc) /\ ListRefs(doc)
<1> DEFINE Apart(j, k) == j # k /\ doc.rows[j].enabled /\ doc.rows[k].enabled
                          => doc.rows[j].claims \cap doc.rows[k].claims = {}
<1>1. ASSUME NEW k \in DOMAIN doc.rows
      PROVE  doc.rows[k].claims \in Shapes[k[1]] /\ k[1] \in Sites \cup Listeners
  BY RegistryAssumption DEF Document, RowOK, Keys, Tables
<1>2. DomainsOnce(doc) <=> \A j, k \in DOMAIN doc.rows : j[1] \in Sites /\ k[1] \in Sites => Apart(j, k)
  BY Zenon DEF DomainsOnce, ClaimsOnce
<1>3. PortsOnce(doc) <=> \A j, k \in DOMAIN doc.rows : j[1] \in Listeners /\ k[1] \in Listeners => Apart(j, k)
  BY Zenon DEF PortsOnce, ClaimsOnce
<1>4. ASSUME NEW j \in DOMAIN doc.rows, NEW k \in DOMAIN doc.rows, j[1] \in Sites, k[1] \in Listeners
      PROVE  Apart(j, k) /\ Apart(k, j)
  <2>1. doc.rows[j].claims \cap doc.rows[k].claims = {}
    BY <1>1, <1>4, RegistryAssumption
  <2>2. doc.rows[k].claims \cap doc.rows[j].claims = {}
    BY <2>1
  <2> QED BY <2>1, <2>2
<1>5. Atomic!Consistent(doc)
      <=> (\A j, k \in DOMAIN doc.rows : Apart(j, k)) /\ CertRefs(doc) /\ ListRefs(doc)
  BY Zenon DEF Atomic!Consistent, CertRefs, ListRefs
<1> HIDE DEF Apart
<1> QED BY <1>1, <1>2, <1>3, <1>4, <1>5

LEMMA ImportsAtomic ==
  ASSUME RefInv, NEW r \in Requests, Imports(r)
  PROVE  [Atomic!Next]_(Atomic!vars)
<1> DEFINE q == reqs[r]
           a == AskOf(q)
<1>1. Typed /\ q.todo # <<>> /\ q.kind = "import" /\ Handles(r)
  BY DEF RefInv, Imports, At, Handles
<1>2. Pending[r] = a /\ a.kind = q.kind
  BY PendingParts, AskParts
<1>3. PICK doc \in Docs :
        IF DomainsOnce(doc) /\ PortsOnce(doc) /\ CertRefs(doc) /\ ListRefs(doc)
        THEN Done(r, ImportedRows(doc), [c \in doc.certs |-> None], doc.lists)
        ELSE Refused(r)
  BY DEF Imports
<1>4. CASE Atomic!Consistent(doc)
  <2> DEFINE cs == [c \in doc.certs |-> None]
  <2>1. Done(r, doc.rows, cs, doc.lists)
    BY <1>3, <1>4, DocConsistent DEF ImportedRows
  <2>2. /\ rows' = doc.rows /\ lists' = doc.lists /\ reqs'[r] = Idle
        /\ Visible' = {i \in DOMAIN cs : cs[i] \in {None, r}}
    BY <1>1, <2>1, DoneParts
  <2>3. Visible' = doc.certs
    BY <2>2
  <2>4. Atomic!Answers(r)
    BY <1>1, <2>2, Answers
  <2>5. Atomic!Is(r, {"import"})
    BY <1>1, <1>2 DEF Atomic!Is
  <2> HIDE DEF cs
  <2>6. Atomic!Import(r)
    BY <1>4, <2>2, <2>3, <2>4, <2>5, Zenon DEF Atomic!Import
  <2> QED BY <2>6 DEF Atomic!Next
<1>5. CASE ~Atomic!Consistent(doc)
  <2>1. Refused(r)
    BY <1>3, <1>5, DocConsistent
  <2>2. Atomic!Refusable(a)
    BY <1>1, <1>2, <1>5, Zenon DEF Atomic!Refusable
  <2> QED BY <1>1, <2>1, <2>2, RefusedAtomic
<1> QED BY <1>4, <1>5

\* A certificate that is taken back was in nobody's sight, unless its id was reissued.
LEMMA DiscardsCertAtomic ==
  ASSUME RefInv, NEW r \in Requests, DiscardsCert(r)
  PROVE  [Atomic!Next]_(Atomic!vars)
<1> DEFINE q == reqs[r]
           id == q.created
           a == AskOf(q)
<1>1. /\ Typed /\ Sound /\ q \in Request /\ Filled(q) /\ Issuing(q) /\ HeldInv
      /\ reqs \in [Requests -> Request]
      /\ q.todo # <<>> /\ Head(q.todo) = "discard" /\ Handles(r)
  BY TypedParts DEF RefInv, Sound, DiscardsCert, At, Handles
<1>2. Has(q.todo, "discard")
  BY <1>1, RequestFields, HasTail
<1>3. id # None
  BY <1>1, <1>2, Zenon DEF Issuing
<1>4. q.kind \in Issuers /\ q.new
  BY <1>1, <1>3, Zenon DEF Issuing, Filled, Issuers
<1>5. Holds(rows, certs, r, id)
  BY <1>1, <1>3 DEF HeldInv
<1>6. Pending[r] = a /\ a.kind = q.kind /\ a.new
  BY <1>1, <1>4, PendingParts, AskParts, AskedRow
<1>7. /\ rows' = rows /\ lists' = lists /\ reqs'[r] = Idle
      /\ certs' = Without(certs, id)
  BY <1>1, <1>5 DEF DiscardsCert, Discarded, InUse, Holds, Answer
<1>8. Visible' = Visible \ {id}
  BY <1>7, VisibleParts DEF Without
<1>9. CASE id \notin Visible
  <2>1. Visible' = Visible
    BY <1>8, <1>9
  <2>2. Atomic!Refusable(a)
    BY <1>1, <1>4, EditRefusable
  <2> QED BY <1>1, <1>7, <2>1, <2>2, Refuses
<1>10. CASE id \in Visible
  <2>1. IdsReissued
    BY <1>5, <1>10, VisibleParts, RegistryAssumption DEF Holds
  <2>2. ~Atomic!CertUsed(id)
    BY <1>5 DEF Holds, Atomic!CertUsed
  <2>3. Atomic!Answers(r)
    BY <1>1, <1>7, Answers
  <2>4. Atomic!Is(r, {"create", "update"})
    BY <1>4, <1>6 DEF Atomic!Is, Issuers
  <2> HIDE DEF a
  <2>5. Atomic!TakeBack(r)
    BY <1>6, <1>7, <1>8, <1>10, <2>1, <2>2, <2>3, <2>4, Zenon DEF Atomic!TakeBack
  <2> QED BY <2>5 DEF Atomic!Next
<1> QED BY <1>9, <1>10

LEMMA DroppedAtomic ==
  ASSUME RefInv, NEW r \in Requests, Dropped(r)
  PROVE  [Atomic!Next]_(Atomic!vars)
<1> DEFINE q == reqs[r]
           id == q.created
           a == AskOf(q)
<1>1. Typed /\ q \in Request /\ Filled(q) /\ Plain(q) /\ Issuing(q) /\ q # Idle
  BY TypedParts DEF RefInv, Sound, Dropped
<1>2. Pending[r] = a /\ a.kind = q.kind
  BY PendingParts, AskParts
<1>3. Pending[r] # AskOf(Idle)
  <2>1. q.kind # "none"
    BY <1>1 DEF Plain
  <2>2. AskOf(Idle).kind = "none"
    BY AskParts, IdleIsRequest
  <2> QED BY <1>2, <2>1, <2>2
<1>4. /\ rows' = rows /\ lists' = lists /\ reqs'[r] = Idle
      /\ Visible' = {i \in DOMAIN certs : certs[i] \in {None, r}}
  BY <1>1, DoneParts DEF Dropped
<1>5. Atomic!Answers(r)
  BY <1>1, <1>4, Answers
<1>6. CASE id \in DOMAIN certs /\ certs[id] = r
  <2>1. Visible' = Visible \cup {id}
    BY <1>4, <1>6, DoneVisible
  <2>2. r # None
    BY RegistryAssumption
  <2>3. id \notin Visible /\ id # None /\ id \in 1..MaxCerts
    BY <1>6, <2>2, Whose, VisibleParts
  <2>4. q.kind \in Issuers /\ q.new
    BY <1>1, <2>3, Zenon DEF Issuing, Filled, Issuers
  <2>5. Pending[r].new
    BY <1>1, <1>2, <2>4, AskedRow
  <2>6. Atomic!Drop(r)
    BY <1>3, <1>4, <1>5, <2>1, <2>3, <2>5 DEF Atomic!Drop
  <2> QED BY <2>6 DEF Atomic!Next
<1>7. CASE ~(id \in DOMAIN certs /\ certs[id] = r)
  <2>1. Visible' = Visible
    BY <1>4, <1>7, DoneVisible
  <2>2. Atomic!Drop(r)
    BY <1>3, <1>4, <1>5, <2>1 DEF Atomic!Drop
  <2> QED BY <2>2 DEF Atomic!Next
<1> QED BY <1>6, <1>7

LEMMA ArriveAtomic ==
  ASSUME RefInv, NEW r \in Requests, NEW q \in Asks, Arrive(r, q)
  PROVE  [Atomic!Next]_(Atomic!vars)
<1> DEFINE a == AskOf(q)
<1>1. /\ reqs \in [Requests -> Request] /\ reqs[r] = Idle /\ reqs' = [reqs EXCEPT ![r] = q]
      /\ rows' = rows /\ certs' = certs /\ lists' = lists
  BY TypedParts DEF RefInv, Arrive
<1>2. PICK kind, key, row, new, password :
        AskOK(kind, key, row, new, password) /\ q = Ask(kind, key, row, new, password)
  BY AskForm
<1>3. key \in (Tables \cup {"none", "cert", "list", "import"}) \X Nat
  BY <1>2 DEF AskOK
<1>4. /\ q \in Request /\ q.kind = kind /\ q.key = key /\ q.row = row /\ q.new = new
      /\ q.password = password /\ q.created = None
  BY <1>2, <1>3, AskFields DEF AskOK
<1>5. a \in AskType
  <2> DEFINE edit == q.kind \in {"create", "update"}
             R == IF edit THEN [q.row EXCEPT !.cert = IF q.created = None THEN @ ELSE None] ELSE NoRow
             N == edit /\ q.new
             P == IF q.kind = "relist" /\ q.new THEN Keep ELSE q.password
  <2>1. a = [kind |-> q.kind, key |-> q.key, row |-> R, new |-> N, password |-> P]
    BY Zenon DEF AskOf
  <2>2. q.kind \in Kinds /\ q.key \in (Tables \cup {"cert", "list", "import"}) \X Nat
    BY <1>2, <1>4 DEF AskOK
  <2>3. R \in Row \cup {NoRow}
    <3>1. CASE edit
      <4>1. q.row \in Row
        BY <1>2, <1>4, <3>1 DEF AskOK, RowOK
      <4>2. [q.row EXCEPT !.cert = IF q.created = None THEN @ ELSE None] = q.row
        BY <1>4, <4>1 DEF Row
      <4> QED BY <3>1, <4>1, <4>2
    <3> QED BY <3>1
  <2>4. N \in BOOLEAN
    OBVIOUS
  <2>5. P \in Passwords \cup {Keep}
    BY <1>2, <1>4 DEF AskOK
  <2>6. \E w \in Row \cup {NoRow}, n \in BOOLEAN, p \in Passwords \cup {Keep} :
           a = [kind |-> q.kind, key |-> q.key, row |-> w, new |-> n, password |-> p]
    BY <2>1, <2>3, <2>4, <2>5, Zenon
  <2> HIDE DEF a
  <2>7. PICK w \in Row \cup {NoRow}, n \in BOOLEAN, p \in Passwords \cup {Keep} :
           a = [kind |-> q.kind, key |-> q.key, row |-> w, new |-> n, password |-> p]
    BY <2>6
  <2>8. a \in AskType
    BY <2>2, <2>7 DEF AskType
  <2> QED BY <2>8 DEF a
<1> HIDE DEF a
<1>6. Pending[r] = AskOf(Idle) /\ Pending'[r] = a
  BY <1>1, PendingParts DEF a
<1>7. Pending' = [Pending EXCEPT ![r] = Pending'[r]]
  BY <1>1, PendingParts
<1>8. Visible' = Visible
  BY <1>1, VisibleParts
<1>9. Atomic!Arrive(r)
  BY <1>1, <1>5, <1>6, <1>7, <1>8 DEF Atomic!Arrive
<1> QED BY <1>9 DEF Atomic!Next

\* Each step of the registry is a step of the atomic one, or none.
LEMMA AtomicStep ==
  ASSUME RefInv, [Next]_vars
  PROVE  [Atomic!Next]_(Atomic!vars)
<1>1. ASSUME NEW r \in Requests, NEW q \in Asks, Arrive(r, q) PROVE [Atomic!Next]_(Atomic!vars)
  BY <1>1, ArriveAtomic
<1>2. ASSUME NEW r \in Requests, Handles(r) PROVE [Atomic!Next]_(Atomic!vars)
  <2>1. CASE ReadsTable(r) \/ Exists(r) \/ ChecksCert(r) \/ ChecksList(r)
    BY <2>1, ReadsTableAtomic, ChecksAtomic
  <2>2. CASE ReadsRow(r) \/ ReadsHash(r) \/ Issues(r)
    BY <2>2, ReadsRowAtomic, ReadsHashAtomic, IssuesAtomic
  <2>3. CASE WritesProxy(r) \/ WritesRedirect(r) \/ WritesDead(r) \/ WritesStream(r) \/ WritesSni(r)
    <3>1. PICK t \in Tables : WritesRow(r, t)
      BY <2>3 DEF WritesProxy, WritesRedirect, WritesDead, WritesStream, WritesSni,
                  Tables, Sites, Listeners
    <3> QED BY <1>2, <3>1, WritesRowAtomic
  <2>4. CASE DiscardsCert(r) \/ WritesCert(r) \/ WritesList(r) \/ DeletesList(r)
    BY <2>4, DiscardsCertAtomic, WritesCertAtomic, WritesListAtomic, DeletesListAtomic
  <2>5. CASE SetsEnabled(r) \/ DeletesRow(r) \/ Imports(r)
    BY <2>5, SetsEnabledAtomic, DeletesRowAtomic, ImportsAtomic
  <2> QED BY <1>2, <2>1, <2>2, <2>3, <2>4, <2>5, Zenon DEF Handles
<1>3. ASSUME NEW r \in Requests, Dropped(r) PROVE [Atomic!Next]_(Atomic!vars)
  BY <1>3, DroppedAtomic
<1>4. CASE UNCHANGED vars
  <2>1. rows' = rows /\ certs' = certs /\ lists' = lists /\ reqs' = reqs
    BY <1>4 DEF vars
  <2> QED BY <2>1, PendingParts, VisibleParts DEF Atomic!vars
<1> QED BY <1>1, <1>2, <1>3, <1>4, Zenon DEF Next, NextOf

LEMMA AtomicStart == Init => Atomic!Init
<1> SUFFICES ASSUME Init PROVE Atomic!Init
  OBVIOUS
<1>1. /\ rows = [k \in {} |-> None] /\ lists = [i \in {} |-> None] /\ DOMAIN certs = {}
      /\ reqs = [r \in Requests |-> Idle]
  BY DEF Init, Empty, None
<1>2. Visible = {}
  BY <1>1, VisibleParts
<1>3. Pending = [r \in Requests |-> AskOf(Idle)]
  BY <1>1, PendingParts
<1> QED BY <1>1, <1>2, <1>3 DEF Atomic!Init

\* If creates, edits, enables and imports are handled one at a time, and so are the requests
\* that lists need to be kept and hashes to be current, the calls a handler makes are to its
\* client as one: it takes effect in one step, or is refused for a reason that held in between.
THEOREM RegistryAtomic ==
  ASSUME \E group \in Serial : Claimers \subseteq group,
         \E group \in Serial : Listers \subseteq group,
         \E group \in Serial : Hashers \subseteq group
  PROVE  Spec => AtomicSpec
<1>1. PICK g1 \in Serial : Claimers \subseteq g1
  OBVIOUS
<1>2. PICK g2 \in Serial : Listers \subseteq g2
  OBVIOUS
<1>3. PICK g3 \in Serial : Hashers \subseteq g3
  OBVIOUS
<1>4. PICK g4 \in Serial : ~IdsReissued => {"create", "update", "uncert"} \subseteq g4
  BY <1>1 DEF IdsReissued
<1> DEFINE Groups == Alone(g1) /\ Alone(g2) /\ Alone(g3) /\ Alone(g4)
<1>5. Init => Groups
  BY AloneInit
<1>6. Typed /\ Groups /\ [Next]_vars => Groups'
  <2>1. ASSUME NEW g \in Serial, Typed, Alone(g), [Next]_vars PROVE Alone(g)'
    BY <2>1, AloneNext
  <2> QED BY <2>1
<1>7. Groups => /\ Alone(Claimers) /\ Alone(Listers) /\ Alone(Hashers)
                /\ ~IdsReissued => Alone({"create", "update", "uncert"})
  BY <1>1, <1>2, <1>3, <1>4 DEF Alone
<1>8. Groups' => Alone(Claimers)'
  BY <1>1 DEF Alone
<1> HIDE DEF Groups
<1>9. Init /\ Typed => RefInv
  BY <1>5, <1>7, SoundInit, ClaimsInit, CertInit, ListInit, HashInit, HeldInit, TabularInit
     DEF RefInv
<1>10. RefInv /\ Groups /\ [Next]_vars /\ Typed' => RefInv'
  <2> SUFFICES ASSUME RefInv, Groups, [Next]_vars, Typed' PROVE RefInv'
    OBVIOUS
  <2>1. /\ Typed /\ Sound /\ ClaimInv /\ CertInv /\ ListInv /\ HashInv /\ HeldInv /\ Tabular
        /\ Alone(Claimers) /\ Alone(Listers) /\ Alone(Hashers)
        /\ ~IdsReissued => Alone({"create", "update", "uncert"})
    BY <1>7 DEF RefInv
  <2>2. Groups'
    BY <1>6, <2>1
  <2>3. Alone(Issuers)
    BY <2>1 DEF Alone, Issuers, Claimers
  <2>4. Sound' /\ ClaimInv' /\ CertInv' /\ ListInv' /\ HashInv'
    BY <2>1, <2>3, SoundNext, ClaimsNext, CertNext, ListNext, HashNext
  <2>5. HeldInv' /\ Tabular'
    BY <2>1, HeldNext, TabularNext
  <2> QED BY <1>8, <2>2, <2>4, <2>5 DEF RefInv
<1> QED BY <1>5, <1>6, <1>9, <1>10, AtomicStep, AtomicStart, TypedHolds, PTL
        DEF Spec, AtomicSpec, Atomic!Spec
=============================================================================
