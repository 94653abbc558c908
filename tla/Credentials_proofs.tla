------------------------- MODULE Credentials_proofs -------------------------
(***************************************************************************)
(* Proofs about the credentials, for any number of requests, profiles,     *)
(* certificates, fields, EAB pairs and tokens, and any documents.          *)
(*                                                                         *)
(* TypeCorrect and Sealed need no assumption on Apart: whatever handlers   *)
(* come in between each other and wherever the panel dies, what is stored  *)
(* has its type, no secret is put in the clear, and a panel whose          *)
(* migration did not fail has sealed what it found there.  The other       *)
(* theorems hold when the kinds of requests that they name are handled one *)
(* at a time, and each names no more of them than it needs.  What a        *)
(* request has checked is an invariant until it writes (SecretInv,         *)
(* IssueInv, EabInv, TokenInv), and AllApart says that requests kept apart *)
(* are never in flight together.                                           *)
(***************************************************************************)
EXTENDS Credentials, TLAPS

(* --------------------------- the order of calls --------------------------- *)

Calls(p) == {p[i] : i \in 1..Len(p)}

\* No check comes after a write, and a handler answers after one of the last calls.
Writes == {"write", "write-kid", "write-hmac"}
Checks == {"unused", "provider", "directory"}
Lasts == {"write", "store", "write-hmac", "token", "write-token"}
Ordered(p) ==
    /\ \A i, j \in 1..Len(p) : p[i] \in Writes /\ i <= j => p[j] \notin Checks
    /\ p # <<>> => p[Len(p)] \in Lasts

LEMMA ConcatCalls ==
  ASSUME NEW a \in Seq(Steps), NEW b \in Seq(Steps)
  PROVE  a \o b \in Seq(Steps) /\ Calls(a \o b) = Calls(a) \cup Calls(b)
<1>1. a \o b \in Seq(Steps) /\ Len(a \o b) = Len(a) + Len(b)
  OBVIOUS
<1>2. ASSUME NEW s \in Calls(a \o b) PROVE s \in Calls(a) \cup Calls(b)
  <2>1. PICK i \in 1..(Len(a) + Len(b)) : (a \o b)[i] = s
    BY <1>1, <1>2 DEF Calls
  <2>2. CASE i <= Len(a)
    BY <2>1, <2>2 DEF Calls
  <2>3. CASE i > Len(a)
    <3>1. i - Len(a) \in 1..Len(b) /\ b[i - Len(a)] = s
      BY <2>1, <2>3
    <3> QED BY <3>1 DEF Calls
  <2> QED BY <2>1, <2>2, <2>3
<1>3. ASSUME NEW s \in Calls(a) PROVE s \in Calls(a \o b)
  <2>1. PICK i \in 1..Len(a) : a[i] = s
    BY <1>3 DEF Calls
  <2>2. i \in 1..Len(a \o b) /\ (a \o b)[i] = s
    BY <2>1, <1>1
  <2> QED BY <2>2 DEF Calls
<1>4. ASSUME NEW s \in Calls(b) PROVE s \in Calls(a \o b)
  <2>1. PICK i \in 1..Len(b) : b[i] = s
    BY <1>4 DEF Calls
  <2>2. Len(a) + i \in 1..Len(a \o b) /\ (a \o b)[Len(a) + i] = s
    BY <2>1, <1>1
  <2> QED BY <2>2 DEF Calls
<1> QED BY <1>1, <1>2, <1>3, <1>4

\* What comes first writes nothing.
LEMMA OrderedConcat ==
  ASSUME NEW a \in Seq(Steps), NEW b \in Seq(Steps), Ordered(b), b # <<>>,
         Calls(a) \cap Writes = {}
  PROVE  a \o b # <<>> /\ Ordered(a \o b)
<1>1. a \o b \in Seq(Steps) /\ Len(a \o b) = Len(a) + Len(b) /\ a \o b # <<>>
  OBVIOUS
<1>2. ASSUME NEW i \in 1..(Len(a) + Len(b)), NEW j \in 1..(Len(a) + Len(b)),
             (a \o b)[i] \in Writes, i <= j
      PROVE  (a \o b)[j] \notin Checks
  <2>1. i > Len(a)
    <3> SUFFICES ASSUME i <= Len(a) PROVE FALSE
      OBVIOUS
    <3>1. i \in 1..Len(a) /\ a[i] = (a \o b)[i]
      OBVIOUS
    <3> QED BY <3>1, <1>2 DEF Calls
  <2>2. /\ i - Len(a) \in 1..Len(b) /\ (a \o b)[i] = b[i - Len(a)]
        /\ j - Len(a) \in 1..Len(b) /\ (a \o b)[j] = b[j - Len(a)]
        /\ i - Len(a) <= j - Len(a)
    BY <1>2, <2>1
  <2> QED BY <1>2, <2>2, Zenon DEF Ordered
<1>3. (a \o b)[Len(a \o b)] \in Lasts
  <2>1. (a \o b)[Len(a) + Len(b)] = b[Len(b)]
    OBVIOUS
  <2>2. b[Len(b)] \in Lasts
    BY Zenon DEF Ordered
  <2> QED BY <1>1, <2>1, <2>2, Zenon
<1> QED BY <1>1, <1>2, <1>3 DEF Ordered

\* What the first call says of those after it.
LEMMA TailCalls ==
  ASSUME NEW p \in Seq(Steps), p # <<>>
  PROVE  /\ Tail(p) \in Seq(Steps) /\ Head(p) \in Steps
         /\ Calls(p) = {Head(p)} \cup Calls(Tail(p))
         /\ Ordered(p) => /\ Ordered(Tail(p))
                          /\ Head(p) \notin Lasts => Tail(p) # <<>>
                          /\ Head(p) \in Writes => Calls(p) \cap Checks = {}
<1>1. /\ Tail(p) \in Seq(Steps) /\ Len(Tail(p)) = Len(p) - 1 /\ Len(p) \in Nat \ {0}
      /\ \A i \in 1..Len(Tail(p)) : Tail(p)[i] = p[i + 1]
      /\ Head(p) = p[1] /\ Head(p) \in Steps
  OBVIOUS
<1>2. ASSUME NEW s \in Calls(p) PROVE Head(p) = s \/ s \in Calls(Tail(p))
  <2>1. PICK i \in 1..Len(p) : p[i] = s
    BY <1>2 DEF Calls
  <2>2. CASE i = 1
    BY <1>1, <2>1, <2>2
  <2>3. CASE i # 1
    <3>1. i - 1 \in 1..Len(Tail(p)) /\ Tail(p)[i - 1] = s
      BY <1>1, <2>1, <2>3
    <3> QED BY <3>1 DEF Calls
  <2> QED BY <2>2, <2>3
<1>3. Head(p) \in Calls(p)
  BY <1>1 DEF Calls
<1>4. ASSUME NEW s \in Calls(Tail(p)) PROVE s \in Calls(p)
  <2>1. PICK i \in 1..Len(Tail(p)) : Tail(p)[i] = s
    BY <1>4 DEF Calls
  <2>2. i + 1 \in 1..Len(p) /\ p[i + 1] = s
    BY <1>1, <2>1
  <2> QED BY <2>2 DEF Calls
<1>5. ASSUME Ordered(p) PROVE Ordered(Tail(p))
  <2>1. ASSUME NEW i \in 1..Len(Tail(p)), NEW j \in 1..Len(Tail(p)),
               Tail(p)[i] \in Writes, i <= j
        PROVE  Tail(p)[j] \notin Checks
    <3>1. /\ i + 1 \in 1..Len(p) /\ j + 1 \in 1..Len(p) /\ i + 1 <= j + 1
          /\ p[i + 1] = Tail(p)[i] /\ p[j + 1] = Tail(p)[j]
      BY <1>1, <2>1
    <3> QED BY <1>5, <2>1, <3>1, Zenon DEF Ordered
  <2>2. Tail(p) # <<>> => Tail(p)[Len(Tail(p))] \in Lasts
    <3>1. Tail(p) # <<>> => Tail(p)[Len(Tail(p))] = p[Len(p)]
      BY <1>1
    <3>2. p[Len(p)] \in Lasts
      BY <1>5, Zenon DEF Ordered
    <3> QED BY <3>1, <3>2, Zenon
  <2> QED BY <2>1, <2>2, Zenon DEF Ordered
<1>6. ASSUME Ordered(p), Tail(p) = <<>> PROVE Head(p) \in Lasts
  <2>1. p[Len(p)] = Head(p)
    BY <1>1, <1>6
  <2>2. p[Len(p)] \in Lasts
    BY <1>6, Zenon DEF Ordered
  <2> QED BY <2>1, <2>2, Zenon
<1>7. ASSUME Ordered(p), Head(p) \in Writes, NEW s \in Checks, s \in Calls(p) PROVE FALSE
  <2>1. PICK j \in 1..Len(p) : p[j] = s
    BY <1>7 DEF Calls
  <2>2. 1 \in 1..Len(p) /\ p[1] \in Writes /\ 1 <= j
    BY <1>1, <1>7
  <2> QED BY <1>7, <2>1, <2>2, Zenon DEF Ordered
<1> QED BY <1>1, <1>2, <1>3, <1>4, <1>5, <1>6, <1>7

LEMMA Ordering ==
  ASSUME NEW p \in Seq(Steps), p # <<>>, p[Len(p)] \in Lasts,
         \A i \in 2..(Len(p) - 1) : p[i] \notin Checks
  PROVE  Ordered(p)
<1>1. Len(p) \in Nat \ {0}
  OBVIOUS
<1>2. \A s \in Writes \cup Lasts : s \notin Checks
  BY DEF Writes, Lasts, Checks
<1>3. ASSUME NEW i \in 1..Len(p), NEW j \in 1..Len(p), p[i] \in Writes, i <= j
      PROVE  p[j] \notin Checks
  <2>1. j = i \/ j = Len(p) \/ j \in 2..(Len(p) - 1)
    BY <1>1, <1>3
  <2> QED BY <1>2, <1>3, <2>1, Zenon
<1> QED BY <1>3, Zenon DEF Ordered

LEMMA NoCall == <<>> \in Seq(Steps) /\ Calls(<<>>) = {}
BY DEF Calls

LEMMA OneCall ==
  ASSUME NEW a \in Steps
  PROVE  /\ <<a>> \in Seq(Steps) /\ <<a>> # <<>> /\ Calls(<<a>>) = {a}
         /\ a \in Lasts => Ordered(<<a>>)
<1> DEFINE p == <<a>>
<1>1. p \in Seq(Steps) /\ p # <<>> /\ Len(p) = 1 /\ p[1] = a
  OBVIOUS
<1> HIDE DEF p
<1>2. Calls(p) = {a}
  BY <1>1 DEF Calls
<1>3. a \in Lasts => Ordered(p)
  BY <1>1, Ordering
<1> QED BY <1>1, <1>2, <1>3 DEF p

LEMMA TwoCalls ==
  ASSUME NEW a \in Steps, NEW b \in Steps
  PROVE  /\ <<a, b>> \in Seq(Steps) /\ <<a, b>> # <<>> /\ Calls(<<a, b>>) = {a, b}
         /\ b \in Lasts => Ordered(<<a, b>>)
<1> DEFINE p == <<a, b>>
<1>1. p \in Seq(Steps) /\ p # <<>> /\ Len(p) = 2 /\ p[1] = a /\ p[2] = b
  OBVIOUS
<1> HIDE DEF p
<1>2. Calls(p) = {a, b}
  BY <1>1 DEF Calls
<1>3. b \in Lasts => Ordered(p)
  <2>1. p[Len(p)] = b /\ \A i \in 2..(Len(p) - 1) : p[i] \notin Checks
    BY <1>1
  <2> QED BY <1>1, <2>1, Ordering, Zenon
<1> QED BY <1>1, <1>2, <1>3 DEF p

LEMMA ThreeCalls ==
  ASSUME NEW a \in Steps, NEW b \in Steps, NEW c \in Steps
  PROVE  /\ <<a, b, c>> \in Seq(Steps) /\ <<a, b, c>> # <<>> /\ Calls(<<a, b, c>>) = {a, b, c}
         /\ b \notin Checks /\ c \in Lasts => Ordered(<<a, b, c>>)
<1> DEFINE p == <<a, b, c>>
<1>1. p \in Seq(Steps) /\ p # <<>> /\ Len(p) = 3 /\ p[1] = a /\ p[2] = b /\ p[3] = c
  OBVIOUS
<1> HIDE DEF p
<1>2. Calls(p) = {a, b, c}
  BY <1>1 DEF Calls
<1>3. b \notin Checks /\ c \in Lasts => Ordered(p)
  <2>1. p[Len(p)] = c /\ \A i \in 2..(Len(p) - 1) : p[i] = b
    BY <1>1
  <2> QED BY <1>1, <2>1, Ordering, Zenon
<1> QED BY <1>1, <1>2, <1>3 DEF p

(* --------------------------------- plans --------------------------------- *)

\* What is checked before a request writes.
Asking(calls, kind, dns, ca) ==
    /\ kind \in {"cert", "recert"} => /\ dns # 0 => "provider" \in calls
                                      /\ ca = "custom" => "directory" \in calls
    /\ kind \in {"unprofile", "cleardir", "uneab"} => "unused" \in calls

\* Calls that only requests of some kinds make.
Fits(calls, kind) ==
    /\ "write-kid" \in calls \/ "write-hmac" \in calls => kind \in {"puteab", "uneab"}
    /\ "token" \in calls \/ "write-token" \in calls => kind = "build"
    /\ "insert" \in calls => kind = "newprofile"

PlanOK(calls, kind) ==
    Fits(calls, kind) /\ "write-token" \notin calls /\ "write-key" \notin calls

\* Plans that are the same whatever is asked for.
LEMMA FixedPlans ==
  ASSUME NEW kind \in Kinds \ {"cert", "recert"}, NEW dns, NEW ca, NEW p, p = Plan(kind, dns, ca)
  PROVE  /\ p \in Seq(Steps) /\ p # <<>> /\ Ordered(p)
         /\ PlanOK(Calls(p), kind) /\ Asking(Calls(p), kind, dns, ca)
<1>1. CASE kind = "newprofile"
  <2>1. p = <<"insert", "key", "store">>
    BY <1>1 DEF Plan
  <2>2. /\ "insert" \in Steps /\ "key" \in Steps /\ "store" \in Steps
        /\ "store" \in Lasts /\ "key" \notin Checks
    BY DEF Steps, Lasts, Checks
  <2>3. p \in Seq(Steps) /\ p # <<>> /\ Ordered(p) /\ Calls(p) = {"insert", "key", "store"}
    BY <2>1, <2>2, ThreeCalls
  <2> QED BY <1>1, <2>3 DEF PlanOK, Fits, Asking
<1>2. CASE kind = "reprofile"
  <2>1. p = <<"profile", "key", "store">>
    BY <1>2 DEF Plan
  <2>2. /\ "profile" \in Steps /\ "key" \in Steps /\ "store" \in Steps
        /\ "store" \in Lasts /\ "key" \notin Checks
    BY DEF Steps, Lasts, Checks
  <2>3. p \in Seq(Steps) /\ p # <<>> /\ Ordered(p) /\ Calls(p) = {"profile", "key", "store"}
    BY <2>1, <2>2, ThreeCalls
  <2> QED BY <1>2, <2>3 DEF PlanOK, Fits, Asking
<1>3. CASE kind \in {"unprofile", "cleardir"}
  <2>1. p = <<"unused", "write">>
    BY <1>3 DEF Plan
  <2>2. /\ "unused" \in Steps /\ "write" \in Steps
        /\ "write" \in Lasts
    BY DEF Steps, Lasts, Checks
  <2>3. p \in Seq(Steps) /\ p # <<>> /\ Ordered(p) /\ Calls(p) = {"unused", "write"}
    BY <2>1, <2>2, TwoCalls
  <2> QED BY <1>3, <2>3 DEF PlanOK, Fits, Asking
<1>4. CASE kind = "puteab"
  <2>1. p = <<"key", "write-kid", "write-hmac">>
    BY <1>4 DEF Plan
  <2>2. /\ "key" \in Steps /\ "write-kid" \in Steps /\ "write-hmac" \in Steps
        /\ "write-hmac" \in Lasts /\ "write-kid" \notin Checks
    BY DEF Steps, Lasts, Checks
  <2>3. p \in Seq(Steps) /\ p # <<>> /\ Ordered(p) /\ Calls(p) = {"key", "write-kid", "write-hmac"}
    BY <2>1, <2>2, ThreeCalls
  <2> QED BY <1>4, <2>3 DEF PlanOK, Fits, Asking
<1>5. CASE kind = "uneab"
  <2>1. p = <<"unused", "write-kid", "write-hmac">>
    BY <1>5 DEF Plan
  <2>2. /\ "unused" \in Steps /\ "write-kid" \in Steps /\ "write-hmac" \in Steps
        /\ "write-hmac" \in Lasts /\ "write-kid" \notin Checks
    BY DEF Steps, Lasts, Checks
  <2>3. p \in Seq(Steps) /\ p # <<>> /\ Ordered(p) /\ Calls(p) = {"unused", "write-kid", "write-hmac"}
    BY <2>1, <2>2, ThreeCalls
  <2> QED BY <1>5, <2>3 DEF PlanOK, Fits, Asking
<1>6. CASE kind = "build"
  <2>1. p = <<"token">>
    BY <1>6 DEF Plan
  <2>2. /\ "token" \in Steps
        /\ "token" \in Lasts
    BY DEF Steps, Lasts, Checks
  <2>3. p \in Seq(Steps) /\ p # <<>> /\ Ordered(p) /\ Calls(p) = {"token"}
    BY <2>1, <2>2, OneCall
  <2> QED BY <1>6, <2>3 DEF PlanOK, Fits, Asking
<1>7. CASE kind \in {"uncert", "setdir", "import"}
  <2>1. p = <<"write">>
    BY <1>7 DEF Plan
  <2>2. /\ "write" \in Steps
        /\ "write" \in Lasts
    BY DEF Steps, Lasts, Checks
  <2>3. p \in Seq(Steps) /\ p # <<>> /\ Ordered(p) /\ Calls(p) = {"write"}
    BY <2>1, <2>2, OneCall
  <2> QED BY <1>7, <2>3 DEF PlanOK, Fits, Asking
<1> QED BY <1>1, <1>2, <1>3, <1>4, <1>5, <1>6, <1>7 DEF Kinds

LEMMA Optional ==
  ASSUME NEW cond, NEW s \in Steps
  PROVE  /\ When(cond, <<s>>) \in Seq(Steps)
         /\ Calls(When(cond, <<s>>)) = IF cond THEN {s} ELSE {}
<1>1. CASE cond
  BY <1>1, OneCall DEF When
<1>2. CASE ~cond
  BY <1>2, NoCall DEF When
<1> QED BY <1>1, <1>2

LEMMA CaPlanIs ==
  ASSUME NEW ca \in Cas
  PROVE  /\ CaPlan(ca) \in Seq(Steps)
         /\ Calls(CaPlan(ca)) \subseteq {"directory", "key", "kid", "hmac"}
         /\ ca = "custom" => "directory" \in Calls(CaPlan(ca))
<1>0. {"directory", "key", "kid", "hmac"} \subseteq Steps
  BY DEF Steps
<1>1. CASE ca = "custom"
  <2>1. CaPlan(ca) = <<"directory">>
    BY <1>1 DEF CaPlan
  <2>2. CaPlan(ca) \in Seq(Steps) /\ Calls(CaPlan(ca)) = {"directory"}
    BY <1>0, <2>1, OneCall
  <2> QED BY <2>2
<1>2. CASE ca = "eab"
  <2>1. CaPlan(ca) = <<"key", "kid", "hmac">>
    BY <1>2 DEF CaPlan
  <2>2. CaPlan(ca) \in Seq(Steps) /\ Calls(CaPlan(ca)) = {"key", "kid", "hmac"}
    BY <1>0, <2>1, ThreeCalls
  <2> QED BY <1>2, <2>2
<1>3. CASE ca = "plain"
  <2>1. CaPlan(ca) = <<>>
    BY <1>3 DEF CaPlan
  <2> QED BY <1>3, <2>1, NoCall
<1> QED BY <1>1, <1>2, <1>3 DEF Cas

LEMMA CertPlanIsOK ==
  ASSUME NEW kind \in {"cert", "recert"}, NEW dns, NEW ca \in Cas,
         NEW p, p = CertPlan(kind, dns, ca)
  PROVE  /\ p \in Seq(Steps) /\ p # <<>> /\ Ordered(p)
         /\ PlanOK(Calls(p), kind) /\ Asking(Calls(p), kind, dns, ca)
<1> DEFINE a == When(kind = "recert", <<"certificate">>)
           b == When(dns # 0, <<"provider">>)
           c == CaPlan(ca)
           w == <<"write">>
<1>1. {"certificate", "provider", "write"} \subseteq Steps /\ "write" \in Lasts
  BY DEF Steps, Lasts
<1>2. a \in Seq(Steps) /\ Calls(a) \subseteq {"certificate"}
  BY <1>1, Optional
<1>3. b \in Seq(Steps) /\ Calls(b) = IF dns # 0 THEN {"provider"} ELSE {}
  BY <1>1, Optional
<1>4. /\ c \in Seq(Steps)
      /\ Calls(c) \subseteq {"directory", "key", "kid", "hmac"}
      /\ ca = "custom" => "directory" \in Calls(c)
  BY CaPlanIs
<1>5. w \in Seq(Steps) /\ w # <<>> /\ Calls(w) = {"write"} /\ Ordered(w)
  BY <1>1, OneCall
<1>6. p = ((a \o b) \o c) \o w
  BY Zenon DEF CertPlan
<1> HIDE DEF a, b, c, w
<1>7. a \o b \in Seq(Steps) /\ Calls(a \o b) = Calls(a) \cup Calls(b)
  BY <1>2, <1>3, ConcatCalls, Zenon
<1>8. /\ (a \o b) \o c \in Seq(Steps)
      /\ Calls((a \o b) \o c) = (Calls(a) \cup Calls(b)) \cup Calls(c)
  BY <1>4, <1>7, ConcatCalls, Zenon
<1> DEFINE x == (a \o b) \o c
<1>9. x \in Seq(Steps) /\ Calls(x) = (Calls(a) \cup Calls(b)) \cup Calls(c)
  BY <1>8
<1>10. p = x \o w
  BY <1>6
<1> HIDE DEF x
<1>11. Calls(x) \cap Writes = {}
  BY <1>2, <1>3, <1>4, <1>9 DEF Writes
<1>12. p \in Seq(Steps) /\ p # <<>> /\ Ordered(p) /\ Calls(p) = Calls(x) \cup Calls(w)
  BY <1>5, <1>9, <1>10, <1>11, ConcatCalls, OrderedConcat
<1>13. PlanOK(Calls(p), kind)
  <2>1. Calls(p) \subseteq {"certificate", "provider", "directory", "key", "kid", "hmac", "write"}
    BY <1>2, <1>3, <1>4, <1>5, <1>9, <1>12
  <2>2. Calls(p) \cap {"write-kid", "write-hmac", "token", "insert", "write-token", "write-key"} = {}
    BY <2>1
  <2> QED BY <2>2 DEF PlanOK, Fits
<1>14. Asking(Calls(p), kind, dns, ca)
  BY <1>3, <1>4, <1>9, <1>12 DEF Asking
<1> QED BY <1>12, <1>13, <1>14

LEMMA PlanIsOK ==
  ASSUME NEW kind \in Kinds, NEW dns, NEW ca \in Cas, NEW p, p = Plan(kind, dns, ca)
  PROVE  /\ p \in Seq(Steps) /\ p # <<>> /\ Ordered(p)
         /\ PlanOK(Calls(p), kind) /\ Asking(Calls(p), kind, dns, ca)
<1>1. CASE kind \in {"cert", "recert"}
  <2>1. Plan(kind, dns, ca) = CertPlan(kind, dns, ca)
    BY <1>1 DEF Plan
  <2> QED BY <1>1, <2>1, CertPlanIsOK
<1>2. CASE kind \notin {"cert", "recert"}
  BY <1>2, FixedPlans
<1> QED BY <1>1, <1>2

(* ------------------------- the inductive invariants ----------------------- *)

\* What the calls a request has still to make say it holds.
Filled(q) ==
    /\ Ordered(q.todo) /\ (q.kind = None <=> q.todo = <<>>)
    /\ Fits(Calls(q.todo), q.kind)
    /\ q.kind = "puteab" => q.pair \in Pairs
    /\ q.kind = "uneab" => q.pair = None
    /\ "write-token" \in Calls(q.todo) => q.pair \in Tokens

Typed == TypeOK /\ \A r \in Requests : Filled(reqs[r])

(* ------------------------------- requests -------------------------------- *)

ReqsOK(rq) == rq \in [Requests -> Request] /\ \A r \in Requests : Filled(rq[r])

LEMMA TypedReqs == Typed => ReqsOK(reqs)
BY DEF Typed, TypeOK, ReqsOK

LEMMA RequestFields ==
  ASSUME NEW q \in Request
  PROVE  /\ q.kind \in Kinds \cup {None} /\ q.id \in Nat /\ q.dns \in ProfileIds \cup {0}
         /\ q.ca \in Cas /\ q.pair \in Pairs \cup Tokens \cup {None} /\ q.stale \in BOOLEAN
         /\ q.todo \in Seq(Steps)
BY DEF Request

LEMMA IdleIsRequest ==
  /\ Idle \in Request /\ Filled(Idle) /\ Idle.kind = None /\ Idle.todo = <<>>
  /\ Idle.stale = FALSE
<1>1. /\ Idle.kind = None /\ Idle.todo = <<>> /\ Idle.stale = FALSE
      /\ Idle.pair = None
  BY Zenon DEF Idle
<1>2. Ordered(<<>>)
  BY DEF Ordered
<1>3. Filled(Idle)
  BY <1>1, <1>2, NoCall DEF Filled, Fits, None
<1>4. None \in Kinds \cup {None} /\ 0 \in Nat /\ 0 \in ProfileIds \cup {0} /\ "plain" \in Cas
      /\ None \in Pairs \cup Tokens \cup {None} /\ <<>> \in Seq(Steps)
  BY NoCall DEF Cas
<1>5. Idle \in Request
  BY <1>4, Zenon DEF Idle, Request
<1> QED BY <1>1, <1>3, <1>5

\* A request that has made its first call and goes on.
LEMMA OnwardIs ==
  ASSUME NEW q \in Request, Filled(q), q.todo # <<>>, Head(q.todo) \notin Lasts,
         NEW n, n = Onward(q)
  PROVE  /\ n \in Request /\ Filled(n)
         /\ n.kind = q.kind /\ n.id = q.id /\ n.dns = q.dns /\ n.ca = q.ca /\ n.pair = q.pair
         /\ n.stale = q.stale
         /\ Calls(q.todo) = {Head(q.todo)} \cup Calls(n.todo)
<1>1. q.todo \in Seq(Steps) /\ Ordered(q.todo)
  BY RequestFields DEF Filled
<1>2. /\ Tail(q.todo) \in Seq(Steps) /\ Ordered(Tail(q.todo)) /\ Tail(q.todo) # <<>>
      /\ Calls(q.todo) = {Head(q.todo)} \cup Calls(Tail(q.todo))
  BY <1>1, TailCalls
<1>3. n = [q EXCEPT !.todo = Tail(q.todo)]
  BY DEF Onward
<1>4. n \in Request
  BY <1>2, <1>3 DEF Request
<1>5. /\ n.kind = q.kind /\ n.id = q.id /\ n.dns = q.dns /\ n.ca = q.ca /\ n.pair = q.pair
      /\ n.todo = Tail(q.todo)
  BY <1>3 DEF Request
<1>6. n.stale = q.stale
  BY <1>3, Zenon DEF Request
<1>7. Filled(n)
  BY <1>2, <1>5 DEF Filled, Fits
<1> QED BY <1>2, <1>4, <1>5, <1>6, <1>7

\* What a step makes of a request that was there before: it is answered, or it is the same
\* one, and what it has checked by then is so.
Moved(q, n) ==
    \/ n = Idle
    \/ /\ n.kind = q.kind /\ n.dns = q.dns /\ n.ca = q.ca
       /\ q.kind # "newprofile" => n.id = q.id
       /\ q.kind # "build" =>
             /\ "provider" \in Calls(q.todo) => "provider" \in Calls(n.todo) \/ q.dns \in profiles
             /\ "directory" \in Calls(q.todo) => "directory" \in Calls(n.todo) \/ directory
             /\ "unused" \in Calls(q.todo) => "unused" \in Calls(n.todo) \/ Unused(q)
       /\ "write-token" \in Calls(n.todo) => "write-token" \in Calls(q.todo) \/ hookToken = None
       /\ "write-key" \in Calls(n.todo) => "write-key" \in Calls(q.todo) \/ key = None
       /\ \/ n.stale = q.stale
          \/ /\ q.kind \in {"newprofile", "reprofile"}
             /\ \E r \in Requests : reqs[r].kind \in {"unprofile", "import"}

Moves == ReqsOK(reqs') /\ \A x \in Requests : Moved(reqs[x], reqs'[x])

LEMMA StayMoves ==
  ASSUME Typed, reqs' = reqs
  PROVE  Moves
<1>1. \A q : Moved(q, q)
  BY Zenon DEF Moved
<1> QED BY <1>1, TypedReqs DEF Moves, ReqsOK

LEMMA BecomesMoves ==
  ASSUME Typed, NEW r \in Requests, NEW n \in Request, Filled(n), Moved(reqs[r], n),
         reqs' = [reqs EXCEPT ![r] = n]
  PROVE  Moves
<1>1. \A q : Moved(q, q)
  BY Zenon DEF Moved
<1>2. /\ reqs' \in [Requests -> Request] /\ reqs'[r] = n
      /\ \A x \in Requests : x # r => reqs'[x] = reqs[x]
  BY TypedReqs DEF ReqsOK
<1> QED BY <1>1, <1>2, TypedReqs, Zenon DEF Moves, ReqsOK

LEMMA EndsMoves ==
  ASSUME Typed, NEW r \in Requests, Ends(r)
  PROVE  Moves
<1>1. Moved(reqs[r], Idle)
  BY DEF Moved
<1> QED BY <1>1, BecomesMoves, IdleIsRequest DEF Ends

LEMMA GoesMoves ==
  ASSUME Typed, NEW r \in Requests, NEW s \in Steps \ Lasts, At(r, s), Goes(r),
         s = "provider" => reqs[r].dns \in profiles,
         s = "directory" => directory,
         s = "unused" => Unused(reqs[r])
  PROVE  Moves
<1> DEFINE q == reqs[r]
           n == Onward(reqs[r])
<1>1. q \in Request /\ Filled(q)
  BY TypedReqs DEF ReqsOK
<1>2. q.todo # <<>> /\ Head(q.todo) = s
  BY DEF At
<1>3. /\ n \in Request /\ Filled(n)
      /\ n.kind = q.kind /\ n.id = q.id /\ n.dns = q.dns /\ n.ca = q.ca /\ n.pair = q.pair
      /\ n.stale = q.stale
      /\ Calls(q.todo) = {s} \cup Calls(n.todo)
  BY <1>1, <1>2, OnwardIs
<1>4. reqs' = [reqs EXCEPT ![r] = n]
  BY DEF Goes
<1> HIDE DEF n
<1>5. /\ "provider" \in Calls(q.todo) => "provider" \in Calls(n.todo) \/ s = "provider"
      /\ "directory" \in Calls(q.todo) => "directory" \in Calls(n.todo) \/ s = "directory"
      /\ "unused" \in Calls(q.todo) => "unused" \in Calls(n.todo) \/ s = "unused"
      /\ "write-token" \in Calls(n.todo) => "write-token" \in Calls(q.todo)
      /\ "write-key" \in Calls(n.todo) => "write-key" \in Calls(q.todo)
  BY <1>3
<1>6. Moved(q, n)
  BY <1>3, <1>5, Zenon DEF Moved
<1> QED BY <1>3, <1>4, <1>6, BecomesMoves

LEMMA PassesMoves ==
  ASSUME Typed, NEW r \in Requests, NEW s \in Steps \ Lasts, At(r, s), NEW cond, Passes(r, cond),
         cond /\ s = "provider" => reqs[r].dns \in profiles,
         cond /\ s = "directory" => directory,
         cond /\ s = "unused" => Unused(reqs[r])
  PROVE  Moves
<1>1. CASE cond
  <2>1. Goes(r)
    BY <1>1 DEF Passes
  <2> QED BY <1>1, <2>1, GoesMoves
<1>2. CASE ~cond
  <2>1. Ends(r)
    BY <1>2 DEF Passes
  <2> QED BY <2>1, EndsMoves
<1> QED BY <1>1, <1>2

LEMMA OutdatedIs ==
  ASSUME NEW q \in Request, Filled(q), NEW n, n = Outdated(q)
  PROVE  /\ n \in Request /\ Filled(n) /\ n.kind = q.kind /\ n.id = q.id /\ n.dns = q.dns
         /\ n.ca = q.ca /\ n.pair = q.pair /\ n.todo = q.todo
<1>1. n = [q EXCEPT !.stale = TRUE]
  BY DEF Outdated
<1>2. /\ n.kind = q.kind /\ n.id = q.id /\ n.dns = q.dns
      /\ n.ca = q.ca /\ n.pair = q.pair /\ n.todo = q.todo
  BY <1>1 DEF Request
<1>3. n \in Request
  BY <1>1, Zenon DEF Request
<1>4. Filled(n)
  BY <1>2, Zenon DEF Filled
<1> QED BY <1>2, <1>3, <1>4

LEMMA AfterMoves ==
  ASSUME Typed, NEW r \in Requests, NEW gone, reqs[r].kind \in {"unprofile", "import"},
         reqs' = After(r, gone)
  PROVE  Moves
<1>1. ASSUME NEW x \in Requests
      PROVE  reqs'[x] \in Request /\ Filled(reqs'[x]) /\ Moved(reqs[x], reqs'[x])
  <2> DEFINE q == reqs[x]
             n == Outdated(reqs[x])
  <2>1. q \in Request /\ Filled(q) /\ Moved(q, q)
    BY TypedReqs, Zenon DEF ReqsOK, Moved
  <2>2. CASE x = r
    BY <2>2, IdleIsRequest DEF After, Moved
  <2>3. CASE x # r /\ Stores(q) /\ q.id \in gone
    <3>1. reqs'[x] = n
      BY <2>3 DEF After
    <3>2. /\ n \in Request /\ Filled(n) /\ n.kind = q.kind /\ n.id = q.id /\ n.dns = q.dns
          /\ n.ca = q.ca /\ n.pair = q.pair /\ n.todo = q.todo
      BY <2>1, OutdatedIs
    <3>3. q.kind \in {"newprofile", "reprofile"}
      BY <2>3 DEF Stores
    <3> HIDE DEF n
    <3>4. Moved(q, n)
      BY <3>2, <3>3, Zenon DEF Moved
    <3> QED BY <3>1, <3>2, <3>4
  <2>4. CASE x # r /\ ~(Stores(q) /\ q.id \in gone)
    <3>1. reqs'[x] = q
      BY <2>4 DEF After
    <3> QED BY <2>1, <3>1
  <2> QED BY <2>2, <2>3, <2>4
<1>2. reqs' \in [Requests -> Request]
  BY <1>1 DEF After
<1> QED BY <1>1, <1>2 DEF Moves, ReqsOK

(* ------------------------------- arrivals -------------------------------- *)

\* What a request that arrives is like.
Asked(q) ==
    /\ q \in Request /\ Filled(q) /\ q.kind \in Kinds /\ q.stale = FALSE
    /\ Asking(Calls(q.todo), q.kind, q.dns, q.ca)
    /\ "write-token" \notin Calls(q.todo) /\ "write-key" \notin Calls(q.todo)

LEMMA AskIsAsked ==
  ASSUME NEW kind \in Kinds, NEW id \in Nat, NEW dns \in ProfileIds \cup {0}, NEW ca \in Cas,
         NEW p \in Pairs \cup {None}, kind = "puteab" => p \in Pairs, kind = "uneab" => p = None,
         NEW q, q = Ask(kind, id, dns, ca, p)
  PROVE  Asked(q)
<1> DEFINE todo == Plan(kind, dns, ca)
<1>1. /\ todo \in Seq(Steps) /\ todo # <<>> /\ Ordered(todo)
      /\ PlanOK(Calls(todo), kind) /\ Asking(Calls(todo), kind, dns, ca)
  BY PlanIsOK
<1>2. q = [Idle EXCEPT !.kind = kind, !.id = id, !.dns = dns, !.ca = ca, !.pair = p,
                       !.todo = todo]
  BY Zenon DEF Ask
<1> HIDE DEF todo
<1>3. Idle \in Request /\ Idle.stale = FALSE
  BY IdleIsRequest
<1>4. ASSUME NEW idle \in Request,
             q = [idle EXCEPT !.kind = kind, !.id = id, !.dns = dns, !.ca = ca, !.pair = p,
                              !.todo = todo]
      PROVE  /\ q \in Request /\ q.kind = kind /\ q.id = id /\ q.dns = dns /\ q.ca = ca
             /\ q.pair = p /\ q.todo = todo
  BY <1>1, <1>4 DEF Request
<1>5. ASSUME NEW idle \in Request,
             q = [idle EXCEPT !.kind = kind, !.id = id, !.dns = dns, !.ca = ca, !.pair = p,
                              !.todo = todo]
      PROVE  q.stale = idle.stale
  BY <1>5, Zenon DEF Request
<1>6. /\ q \in Request /\ q.kind = kind /\ q.id = id /\ q.dns = dns /\ q.ca = ca
      /\ q.pair = p /\ q.todo = todo
  BY <1>2, <1>3, <1>4, Zenon
<1>7. q.stale = FALSE
  BY <1>2, <1>3, <1>5, Zenon
<1>8. kind # None
  BY DEF Kinds, None
<1>9. Filled(q)
  BY <1>1, <1>6, <1>8 DEF Filled, PlanOK
<1> QED BY <1>1, <1>6, <1>7, <1>9 DEF Asked, PlanOK

LEMMA AsksAreAsked == \A q \in Asks : Asked(q)
<1>0. /\ MaxProfiles \in Nat /\ MaxCerts \in Nat /\ ProfileIds \subseteq Nat /\ CertIds \subseteq Nat
      /\ 0 \in Nat /\ 0 \in ProfileIds \cup {0} /\ "plain" \in Cas /\ None \in Pairs \cup {None}
  BY CredentialsAssumption DEF ProfileIds, CertIds, Cas
<1>1. ASSUME NEW kind \in Kinds \ {"puteab"}, NEW id \in Nat, NEW dns \in ProfileIds \cup {0},
             NEW ca \in Cas
      PROVE  Asked(Ask(kind, id, dns, ca, None))
  BY <1>0, <1>1, AskIsAsked
<1>2. ASSUME NEW kind \in {"cert", "recert"}, NEW id \in Nat
      PROVE  \A q \in CertAsks(kind, id) : Asked(q)
  <2> SUFFICES ASSUME NEW q \in CertAsks(kind, id) PROVE Asked(q)
    OBVIOUS
  <2>1. PICK dns \in ProfileIds \cup {0} : q \in {Ask(kind, id, dns, ca, None) : ca \in Cas}
    BY DEF CertAsks
  <2>2. PICK ca \in Cas : q = Ask(kind, id, dns, ca, None)
    BY <2>1
  <2>3. kind \in Kinds \ {"puteab"}
    BY DEF Kinds
  <2> QED BY <1>1, <2>2, <2>3
<1>3. ASSUME NEW id \in ProfileIds PROVE \A q \in ProfileAsks(id) : Asked(q)
  <2> SUFFICES ASSUME NEW q \in ProfileAsks(id) PROVE Asked(q)
    OBVIOUS
  <2>1. PICK kind \in OfProfile : q = Ask(kind, id, 0, "plain", None)
    BY DEF ProfileAsks
  <2>2. kind \in Kinds \ {"puteab"}
    BY DEF Kinds, OfProfile
  <2> QED BY <1>0, <1>1, <2>1, <2>2
<1>4. ASSUME NEW q \in {Ask(kind, 0, 0, "plain", None) : kind \in Simple} PROVE Asked(q)
  <2>1. PICK kind \in Simple : q = Ask(kind, 0, 0, "plain", None)
    BY <1>4
  <2>2. kind \in Kinds \ {"puteab"}
    BY DEF Kinds, Simple
  <2> QED BY <1>0, <1>1, <2>1, <2>2
<1>5. ASSUME NEW q \in UNION {ProfileAsks(id) : id \in ProfileIds} PROVE Asked(q)
  BY <1>3, <1>5
<1>6. ASSUME NEW q \in CertAsks("cert", 0) PROVE Asked(q)
  BY <1>0, <1>2, <1>6
<1>7. ASSUME NEW q \in UNION {CertAsks("recert", id) : id \in CertIds} PROVE Asked(q)
  <2>1. PICK id \in CertIds : q \in CertAsks("recert", id)
    BY <1>7
  <2> QED BY <1>0, <1>2, <2>1
<1>8. ASSUME NEW q \in {Ask("uncert", id, 0, "plain", None) : id \in CertIds} PROVE Asked(q)
  <2>1. PICK id \in CertIds : q = Ask("uncert", id, 0, "plain", None)
    BY <1>8
  <2>2. "uncert" \in Kinds \ {"puteab"}
    BY DEF Kinds
  <2> QED BY <1>0, <1>1, <2>1, <2>2
<1>9. ASSUME NEW q \in {Ask("puteab", 0, 0, "plain", p) : p \in Pairs} PROVE Asked(q)
  <2>1. PICK p \in Pairs : q = Ask("puteab", 0, 0, "plain", p)
    BY <1>9
  <2>2. "puteab" \in Kinds
    BY DEF Kinds
  <2> QED BY <1>0, <2>1, <2>2, AskIsAsked
<1> SUFFICES ASSUME NEW q \in Asks PROVE Asked(q)
  OBVIOUS
<1>10. \/ q \in {Ask(kind, 0, 0, "plain", None) : kind \in Simple}
       \/ q \in UNION {ProfileAsks(id) : id \in ProfileIds}
       \/ q \in CertAsks("cert", 0) \/ q \in UNION {CertAsks("recert", id) : id \in CertIds}
       \/ q \in {Ask("uncert", id, 0, "plain", None) : id \in CertIds}
       \/ q \in {Ask("puteab", 0, 0, "plain", p) : p \in Pairs}
  BY Zenon DEF Asks
<1> QED BY <1>4, <1>5, <1>6, <1>7, <1>8, <1>9, <1>10, Zenon

LEMMA ArriveReqs ==
  ASSUME Typed, NEW r \in Requests, NEW q \in Asks, Arrive(r, q)
  PROVE  /\ ReqsOK(reqs') /\ reqs[r] = Idle /\ reqs'[r] = q /\ Asked(q)
         /\ \A x \in Requests : x # r => reqs'[x] = reqs[x]
<1>1. Asked(q)
  BY AsksAreAsked
<1>2. reqs' = [reqs EXCEPT ![r] = q] /\ reqs[r] = Idle
  BY DEF Arrive
<1>3. reqs' \in [Requests -> Request] /\ reqs'[r] = q /\ \A x \in Requests : x # r => reqs'[x] = reqs[x]
  BY <1>1, <1>2, TypedReqs DEF ReqsOK, Asked
<1> QED BY <1>1, <1>2, <1>3, TypedReqs, Zenon DEF ReqsOK, Asked

(* --------------------------- what a step may do --------------------------- *)

Quiet == UNCHANGED <<profiles, secrets, key, rest>>

\* The steps of a request that write something.
Saves(r) ==
    \/ LoadsKey(r) \/ WritesKey(r) \/ InsertsProfile(r) \/ StoresField(r) \/ DeletesProfile(r)
    \/ WritesCert(r) \/ WritesDirectory(r) \/ WritesKid(r) \/ WritesHmac(r)
    \/ GetsToken(r) \/ WritesToken(r) \/ ImportsDoc(r)

\* Those that only check something.
Looks(r) ==
    \/ ReadsProfile(r) \/ ChecksUnused(r) \/ ChecksCertificate(r) \/ ChecksProvider(r)
    \/ ChecksDirectory(r) \/ ChecksKid(r) \/ ChecksHmac(r)

LEMMA NextCases ==
  ASSUME [Next]_vars
  PROVE  \/ UNCHANGED vars
         \/ Dies \/ Starts \/ SealsOne \/ MakesKey \/ FillsKey \/ SealingFails \/ Serves
         \/ \E r \in Requests : \E q \in Asks : Arrive(r, q)
         \/ \E r \in Requests : Looks(r) \/ Dropped(r)
         \/ \E r \in Requests : Saves(r)
<1>1. \A r \in Requests : Handles(r) => Looks(r) \/ Saves(r)
  BY Zenon DEF Handles, Looks, Saves
<1> QED BY <1>1, Zenon DEF Next, NextOf

LEMMA LooksMoves ==
  ASSUME Typed, NEW r \in Requests, Looks(r) \/ Dropped(r)
  PROVE  Moves /\ Quiet
<1>0. {"profile", "unused", "certificate", "provider", "directory", "kid", "hmac"}
         \subseteq Steps \ Lasts
  BY DEF Steps, Lasts
<1>1. CASE ReadsProfile(r)
  <2>1. PICK cond : At(r, "profile") /\ Passes(r, cond)
    BY <1>1 DEF ReadsProfile
  <2> QED BY <1>0, <2>1, PassesMoves DEF Passes, Quiet
<1>2. CASE ChecksUnused(r)
  <2>1. At(r, "unused") /\ Passes(r, Unused(reqs[r]))
    BY <1>2 DEF ChecksUnused
  <2> QED BY <1>0, <2>1, PassesMoves DEF Passes, Quiet
<1>3. CASE ChecksCertificate(r)
  <2>1. PICK cond : At(r, "certificate") /\ Passes(r, cond)
    BY <1>3 DEF ChecksCertificate
  <2> QED BY <1>0, <2>1, PassesMoves DEF Passes, Quiet
<1>4. CASE ChecksProvider(r)
  <2>1. At(r, "provider") /\ Passes(r, reqs[r].dns \in profiles)
    BY <1>4 DEF ChecksProvider, ProviderThere
  <2> QED BY <1>0, <2>1, PassesMoves DEF Passes, Quiet
<1>5. CASE ChecksDirectory(r)
  <2>1. At(r, "directory") /\ Passes(r, directory)
    BY <1>5 DEF ChecksDirectory
  <2> QED BY <1>0, <2>1, PassesMoves DEF Passes, Quiet
<1>6. CASE ChecksKid(r)
  <2>1. PICK cond : At(r, "kid") /\ Passes(r, cond)
    BY <1>6 DEF ChecksKid
  <2> QED BY <1>0, <2>1, PassesMoves DEF Passes, Quiet
<1>7. CASE ChecksHmac(r)
  <2>1. PICK cond : At(r, "hmac") /\ Passes(r, cond)
    BY <1>7 DEF ChecksHmac
  <2> QED BY <1>0, <2>1, PassesMoves DEF Passes, Quiet
<1>8. CASE Dropped(r)
  BY <1>8, EndsMoves DEF Dropped, Quiet
<1> QED BY <1>1, <1>2, <1>3, <1>4, <1>5, <1>6, <1>7, <1>8 DEF Looks

\* The key file is made between two calls of a request.
LEMMA MakingMoves ==
  ASSUME Typed, NEW r \in Requests, At(r, "key"), key = None,
         reqs' = [reqs EXCEPT ![r] = Making(reqs[r])]
  PROVE  Moves
<1> DEFINE q == reqs[r]
           n == Making(reqs[r])
<1>1. q \in Request /\ Filled(q) /\ q.todo # <<>> /\ Head(q.todo) = "key"
  BY TypedReqs DEF ReqsOK, At
<1>2. q.todo \in Seq(Steps) /\ Ordered(q.todo)
  BY <1>1, RequestFields DEF Filled
<1>3. /\ Tail(q.todo) \in Seq(Steps) /\ Tail(q.todo) # <<>> /\ Ordered(Tail(q.todo))
      /\ Calls(q.todo) = {"key"} \cup Calls(Tail(q.todo))
  BY <1>1, <1>2, TailCalls DEF Lasts
<1> DEFINE todo == <<"write-key">> \o Tail(q.todo)
<1>4. "write-key" \in Steps /\ "write-key" \notin Writes
  BY DEF Steps, Writes
<1>5. /\ <<"write-key">> \in Seq(Steps) /\ Calls(<<"write-key">>) = {"write-key"}
      /\ {"write-key"} \cap Writes = {}
  BY <1>4, OneCall
<1>6. /\ todo \in Seq(Steps) /\ todo # <<>> /\ Ordered(todo)
      /\ Calls(todo) = {"write-key"} \cup Calls(Tail(q.todo))
  BY <1>3, <1>5, ConcatCalls, OrderedConcat
<1>7. n = [q EXCEPT !.todo = todo]
  BY DEF Making
<1> HIDE DEF n, todo
<1>8. /\ n \in Request /\ n.kind = q.kind /\ n.id = q.id /\ n.dns = q.dns /\ n.ca = q.ca
      /\ n.pair = q.pair /\ n.todo = todo
  BY <1>1, <1>6, <1>7 DEF Request
<1>9. n.stale = q.stale
  BY <1>1, <1>7, Zenon DEF Request
<1>10. Filled(n)
  BY <1>1, <1>3, <1>6, <1>8 DEF Filled, Fits
<1>11. /\ "provider" \in Calls(q.todo) => "provider" \in Calls(n.todo)
       /\ "directory" \in Calls(q.todo) => "directory" \in Calls(n.todo)
       /\ "unused" \in Calls(q.todo) => "unused" \in Calls(n.todo)
       /\ "write-token" \in Calls(n.todo) => "write-token" \in Calls(q.todo)
  BY <1>3, <1>6, <1>8
<1>12. Moved(q, n)
  BY <1>8, <1>9, <1>11, Zenon DEF Moved
<1> QED BY <1>8, <1>10, <1>12, BecomesMoves DEF n

LEMMA LoadsKeyMoves ==
  ASSUME Typed, NEW r \in Requests, LoadsKey(r)
  PROVE  Moves
<1>1. "key" \in Steps \ Lasts /\ At(r, "key")
  BY DEF Steps, Lasts, LoadsKey
<1>2. CASE \E cond : Passes(r, cond)
  BY <1>1, <1>2, PassesMoves
<1>3. CASE key = None /\ reqs' = [reqs EXCEPT ![r] = Making(reqs[r])]
  BY <1>1, <1>3, MakingMoves
<1> QED BY <1>2, <1>3 DEF LoadsKey

\* The row id of a profile that was inserted; a token that was made.
LEMMA InsertedMoves ==
  ASSUME Typed, NEW r \in Requests, InsertsProfile(r)
  PROVE  Moves
<1>1. PICK id \in ProfileIds : reqs' = [reqs EXCEPT ![r] = Inserted(reqs[r], id)]
  BY DEF InsertsProfile
<1> DEFINE q == reqs[r]
           n == Inserted(reqs[r], id)
<1>2. q \in Request /\ Filled(q) /\ q.todo # <<>> /\ Head(q.todo) = "insert"
  BY TypedReqs DEF ReqsOK, At, InsertsProfile
<1>3. q.todo \in Seq(Steps) /\ Ordered(q.todo)
  BY <1>2, RequestFields DEF Filled
<1>4. /\ Tail(q.todo) \in Seq(Steps) /\ Tail(q.todo) # <<>> /\ Ordered(Tail(q.todo))
      /\ Calls(q.todo) = {"insert"} \cup Calls(Tail(q.todo))
  BY <1>2, <1>3, TailCalls DEF Lasts
<1>5. n = [q EXCEPT !.id = id, !.todo = Tail(q.todo)]
  BY DEF Inserted
<1>6. id \in Nat
  BY CredentialsAssumption DEF ProfileIds
<1> HIDE DEF n
<1>7. /\ n \in Request /\ n.kind = q.kind /\ n.dns = q.dns /\ n.ca = q.ca
      /\ n.pair = q.pair /\ n.todo = Tail(q.todo)
  BY <1>2, <1>4, <1>5, <1>6 DEF Request
<1>8. n.stale = q.stale
  BY <1>2, <1>5, Zenon DEF Request
<1>9. Filled(n)
  BY <1>2, <1>4, <1>7 DEF Filled, Fits
<1>10. q.kind = "newprofile"
  BY <1>2, <1>4 DEF Filled, Fits
<1>11. /\ "provider" \in Calls(q.todo) => "provider" \in Calls(n.todo)
       /\ "directory" \in Calls(q.todo) => "directory" \in Calls(n.todo)
       /\ "unused" \in Calls(q.todo) => "unused" \in Calls(n.todo)
       /\ "write-token" \in Calls(n.todo) => "write-token" \in Calls(q.todo)
       /\ "write-key" \in Calls(n.todo) => "write-key" \in Calls(q.todo)
  BY <1>4, <1>7
<1>12. Moved(q, n)
  BY <1>7, <1>8, <1>10, <1>11, Zenon DEF Moved
<1> QED BY <1>1, <1>7, <1>9, <1>12, BecomesMoves DEF n

LEMMA GetsTokenMoves ==
  ASSUME Typed, NEW r \in Requests, GetsToken(r)
  PROVE  Moves
<1>1. CASE hookToken # None
  BY <1>1, EndsMoves DEF GetsToken
<1>2. CASE hookToken = None
  <2>1. PICK t \in Tokens : reqs' = [reqs EXCEPT ![r] = Made(reqs[r], t)]
    BY <1>2 DEF GetsToken
  <2> DEFINE q == reqs[r]
             n == Made(reqs[r], t)
  <2>2. q \in Request /\ Filled(q) /\ q.todo # <<>> /\ Head(q.todo) = "token"
    BY TypedReqs DEF ReqsOK, At, GetsToken
  <2>3. q.todo \in Seq(Steps)
    BY <2>2, RequestFields
  <2>4. Calls(q.todo) = {"token"} \cup Calls(Tail(q.todo))
    BY <2>2, <2>3, TailCalls
  <2>5. q.kind = "build"
    BY <2>2, <2>4 DEF Filled, Fits
  <2>6. /\ <<"write-token">> \in Seq(Steps) /\ Calls(<<"write-token">>) = {"write-token"}
        /\ Ordered(<<"write-token">>) /\ <<"write-token">> # <<>>
    BY OneCall DEF Steps, Lasts
  <2>7. n = [q EXCEPT !.pair = t, !.todo = <<"write-token">>]
    BY DEF Made
  <2> HIDE DEF n
  <2>8. /\ n \in Request /\ n.kind = q.kind /\ n.id = q.id /\ n.dns = q.dns /\ n.ca = q.ca
        /\ n.pair = t /\ n.todo = <<"write-token">>
    BY <2>2, <2>6, <2>7 DEF Request
  <2>9. n.stale = q.stale
    BY <2>2, <2>7, Zenon DEF Request
  <2>10. Filled(n)
    BY <2>2, <2>5, <2>6, <2>8 DEF Filled, Fits, None
  <2>11. Moved(q, n)
    BY <1>2, <2>5, <2>6, <2>8, <2>9 DEF Moved
  <2> QED BY <2>1, <2>8, <2>10, <2>11, BecomesMoves DEF n
<1> QED BY <1>1, <1>2

LEMMA StoresFieldMoves ==
  ASSUME Typed, NEW r \in Requests, StoresField(r)
  PROVE  Moves
BY StayMoves, EndsMoves DEF StoresField

LEMMA ImportsMoves ==
  ASSUME Typed, NEW r \in Requests, ImportsDoc(r)
  PROVE  Moves
<1>1. reqs[r].kind = "import" /\ (Passes(r, FALSE) \/ reqs' = After(r, ProfileIds))
  BY DEF ImportsDoc
<1>2. CASE Passes(r, FALSE)
  BY <1>2, EndsMoves DEF Passes
<1>3. CASE reqs' = After(r, ProfileIds)
  BY <1>1, <1>3, AfterMoves
<1> QED BY <1>1, <1>2, <1>3

LEMMA SavesMoves ==
  ASSUME Typed, NEW r \in Requests, Saves(r)
  PROVE  Moves
<1>0. {"write-key", "write-kid"} \subseteq Steps \ Lasts
  BY DEF Steps, Lasts
<1>1. CASE WritesKey(r)
  <2>1. At(r, "write-key") /\ Goes(r)
    BY <1>1 DEF WritesKey
  <2> QED BY <1>0, <2>1, GoesMoves
<1>2. CASE DeletesProfile(r)
  <2>1. reqs[r].kind = "unprofile" /\ reqs' = After(r, {reqs[r].id})
    BY <1>2 DEF DeletesProfile
  <2> QED BY <2>1, AfterMoves
<1>3. CASE WritesKid(r)
  <2>1. At(r, "write-kid") /\ Goes(r)
    BY <1>3 DEF WritesKid
  <2> QED BY <1>0, <2>1, GoesMoves
<1>4. CASE WritesCert(r) \/ WritesDirectory(r) \/ WritesHmac(r) \/ WritesToken(r)
  BY <1>4, EndsMoves DEF WritesCert, WritesDirectory, WritesHmac, WritesToken
<1> QED BY <1>1, <1>2, <1>3, <1>4, LoadsKeyMoves, InsertedMoves, StoresFieldMoves,
           GetsTokenMoves, ImportsMoves DEF Saves

LEMMA OthersMove ==
  ASSUME Typed, UNCHANGED vars \/ Dies \/ Starts \/ SealsOne \/ MakesKey \/ FillsKey \/ SealingFails \/ Serves
  PROVE  Moves
<1>1. CASE Dies
  <2>1. reqs' = [r \in Requests |-> Idle]
    BY <1>1 DEF Dies
  <2> QED BY <2>1, IdleIsRequest DEF Moves, ReqsOK, Moved
<1>2. CASE ~Dies
  <2>1. reqs' = reqs
    BY <1>2 DEF vars, Starts, SealsOne, MakesKey, FillsKey, SealingFails, Serves
  <2> QED BY <2>1, StayMoves
<1> QED BY <1>1, <1>2

LEMMA NextMoves ==
  ASSUME Typed, [Next]_vars
  PROVE  \/ Moves
         \/ \E r \in Requests : \E q \in Asks : Arrive(r, q)
BY NextCases, OthersMove, LooksMoves, SavesMoves

(* -------------------------------- types ---------------------------------- *)

TablesOK ==
    /\ profiles \subseteq ProfileIds
    /\ secrets \in [ProfileIds -> [Fields -> Secrets]]
    /\ DOMAIN certs \subseteq CertIds /\ \A i \in DOMAIN certs : certs[i] \in CertRows
    /\ kid \in Pairs \cup {None} /\ hmac \in Pairs \cup {None}
    /\ hookToken \in Tokens \cup {None} /\ built \subseteq Tokens
    /\ key \in {None, "torn", "whole"}
    /\ directory \in BOOLEAN /\ failed \in BOOLEAN
    /\ phase \in {"down", "sealing", "writing-key", "serving"}

LEMMA TypedParts == Typed <=> TablesOK /\ ReqsOK(reqs)
BY Zenon DEF Typed, TypeOK, TablesOK, ReqsOK, Filled

LEMMA TypedPartsNext == Typed' <=> TablesOK' /\ ReqsOK(reqs')
BY Zenon DEF Typed, TypeOK, TablesOK, ReqsOK, Filled

\* What the request at the head of whose calls s is, is like.
LEMMA Called ==
  ASSUME Typed, NEW r \in Requests, NEW s, At(r, s)
  PROVE  /\ reqs[r] \in Request /\ Filled(reqs[r]) /\ s \in Calls(reqs[r].todo)
         /\ s \in Writes => Calls(reqs[r].todo) \cap Checks = {}
         /\ reqs[r].kind # None
<1>1. reqs[r] \in Request /\ Filled(reqs[r])
  BY TypedReqs DEF ReqsOK
<1>2. reqs[r].todo \in Seq(Steps) /\ reqs[r].todo # <<>> /\ Head(reqs[r].todo) = s
  BY <1>1, RequestFields DEF At
<1> QED BY <1>1, <1>2, TailCalls DEF Filled

LEMMA SecretTypes ==
  ASSUME secrets \in [ProfileIds -> [Fields -> Secrets]]
  PROVE  /\ \A id, field : WithSecret(id, field, "own") \in [ProfileIds -> [Fields -> Secrets]]
         /\ \A id, field : WithSecret(id, field, "stranger") \in [ProfileIds -> [Fields -> Secrets]]
         /\ \A ids : Purged(ids) \in [ProfileIds -> [Fields -> Secrets]]
BY DEF WithSecret, Purged, Secrets

LEMMA CertRowsTyped ==
  ASSUME Typed, NEW id \in CertIds, NEW row \in CertRows
  PROVE  /\ DOMAIN With(id, row) \subseteq CertIds
         /\ \A i \in DOMAIN With(id, row) : With(id, row)[i] \in CertRows
         /\ DOMAIN Without(id) \subseteq CertIds
         /\ \A i \in DOMAIN Without(id) : Without(id)[i] \in CertRows
BY TypedParts DEF TablesOK, With, Without

LEMMA WritesCertTables ==
  ASSUME Typed, NEW r \in Requests, WritesCert(r)
  PROVE  TablesOK'
<1> DEFINE q == reqs[r]
<1>1. PICK id \in CertIds :
         certs' = IF q.kind = "uncert" THEN Without(id)
                  ELSE IF q.kind = "recert" /\ id \notin DOMAIN certs THEN certs
                  ELSE With(id, [dns |-> q.dns, ca |-> q.ca])
  BY DEF WritesCert
<1>2. q \in Request
  BY TypedParts DEF ReqsOK
<1>3. [dns |-> q.dns, ca |-> q.ca] \in CertRows
  BY <1>2, RequestFields DEF CertRows
<1>4. DOMAIN certs' \subseteq CertIds /\ \A i \in DOMAIN certs' : certs'[i] \in CertRows
  BY <1>1, <1>3, CertRowsTyped, TypedParts DEF TablesOK
<1>5. UNCHANGED <<profiles, secrets, key, pair, directory, hookToken, built, panel>>
  BY Zenon DEF WritesCert
<1> QED BY <1>4, <1>5, TypedParts, Zenon DEF TablesOK, pair, panel

LEMMA ImportsTables ==
  ASSUME Typed, NEW r \in Requests, ImportsDoc(r)
  PROVE  TablesOK'
<1>1. CASE UNCHANGED <<profiles, secrets, key, rest>>
  BY <1>1, TypedParts, Zenon DEF TablesOK, rest, pair, panel
<1>2. CASE ~UNCHANGED <<profiles, secrets, key, rest>>
  <2>1. PICK doc \in Imports :
           /\ profiles' = doc.profiles /\ certs' = doc.certs
           /\ secrets' = Purged(ProfileIds)
           /\ directory' = (doc.directory = "url" \/ (doc.directory = None /\ directory))
           /\ UNCHANGED <<key, pair, hookToken, built, panel>>
    BY <1>2, Zenon DEF ImportsDoc, Passes
  <2>2. /\ doc.profiles \subseteq ProfileIds
        /\ DOMAIN doc.certs \subseteq CertIds /\ \A i \in DOMAIN doc.certs : doc.certs[i] \in CertRows
    BY CredentialsAssumption, Zenon DEF Document
  <2>3. directory' \in BOOLEAN
    BY <2>1, Zenon
  <2>4. secrets' \in [ProfileIds -> [Fields -> Secrets]]
    BY <2>1, SecretTypes, TypedParts DEF TablesOK
  <2>5. DOMAIN certs' \subseteq CertIds /\ \A i \in DOMAIN certs' : certs'[i] \in CertRows
    BY <2>1, <2>2
  <2> QED BY <2>1, <2>2, <2>3, <2>4, <2>5, TypedParts, Zenon DEF TablesOK, pair, panel
<1> QED BY <1>1, <1>2

LEMMA SavesTables ==
  ASSUME Typed, NEW r \in Requests, Saves(r)
  PROVE  TablesOK'
<1>0. reqs[r] \in Request /\ TablesOK
  BY TypedParts DEF ReqsOK
<1>1. CASE LoadsKey(r)
  <2>1. key' = key \/ key' = "torn"
    BY <1>1 DEF LoadsKey, Passes
  <2>2. UNCHANGED <<profiles, secrets, rest>>
    BY <1>1, Zenon DEF LoadsKey, Passes
  <2> QED BY <1>0, <2>1, <2>2 DEF TablesOK, rest, pair, panel
<1>2. CASE WritesKey(r)
  BY <1>0, <1>2 DEF WritesKey, TablesOK, rest, pair, panel
<1>3. CASE InsertsProfile(r)
  <2>1. profiles' \subseteq ProfileIds /\ UNCHANGED <<secrets, key, rest>>
    BY <1>0, <1>3 DEF InsertsProfile, TablesOK
  <2> QED BY <1>0, <2>1, Zenon DEF TablesOK, rest, pair, panel
<1>4. CASE StoresField(r)
  <2>1. \E f \in Fields : secrets' = WithSecret(reqs[r].id, f, "own")
                          \/ secrets' = WithSecret(reqs[r].id, f, "stranger")
    BY <1>4 DEF StoresField
  <2>2. secrets' \in [ProfileIds -> [Fields -> Secrets]]
    BY <1>0, <2>1, SecretTypes DEF TablesOK
  <2>3. UNCHANGED <<profiles, key, rest>>
    BY <1>4, Zenon DEF StoresField
  <2> QED BY <1>0, <2>2, <2>3, Zenon DEF TablesOK, rest, pair, panel
<1>5. CASE DeletesProfile(r)
  <2>1. profiles' \subseteq ProfileIds /\ secrets' \in [ProfileIds -> [Fields -> Secrets]]
    BY <1>0, <1>5, SecretTypes DEF DeletesProfile, TablesOK
  <2>2. UNCHANGED <<key, rest>>
    BY <1>5, Zenon DEF DeletesProfile
  <2> QED BY <1>0, <2>1, <2>2, Zenon DEF TablesOK, rest, pair, panel
<1>6. CASE WritesDirectory(r)
  <2>1. directory' \in BOOLEAN
    BY <1>6, Zenon DEF WritesDirectory
  <2>2. UNCHANGED <<profiles, secrets, key, certs, pair, hookToken, built, panel>>
    BY <1>6, Zenon DEF WritesDirectory
  <2> QED BY <1>0, <2>1, <2>2, Zenon DEF TablesOK, pair, panel
<1>7. CASE WritesKid(r)
  <2>1. reqs[r].pair \in Pairs \cup {None}
    BY <1>7, Called DEF WritesKid, Filled, Fits
  <2> QED BY <1>0, <1>7, <2>1, Zenon DEF WritesKid, TablesOK, panel
<1>8. CASE WritesHmac(r)
  <2>1. reqs[r].pair \in Pairs \cup {None}
    BY <1>8, Called DEF WritesHmac, Filled, Fits
  <2> QED BY <1>0, <1>8, <2>1, Zenon DEF WritesHmac, TablesOK, panel
<1>9. CASE GetsToken(r)
  <2>1. built' \subseteq Tokens
    BY <1>0, <1>9 DEF GetsToken, TablesOK
  <2>2. UNCHANGED <<profiles, secrets, key, certs, pair, directory, hookToken, panel>>
    BY <1>9, Zenon DEF GetsToken
  <2> QED BY <1>0, <2>1, <2>2, Zenon DEF TablesOK, pair, panel
<1>10. CASE WritesToken(r)
  <2>1. reqs[r].pair \in Tokens
    BY <1>10, Called DEF WritesToken, Filled
  <2>2. hookToken' \in Tokens \cup {None} /\ built' \subseteq Tokens
    BY <1>0, <1>10, <2>1 DEF WritesToken, Stored, TablesOK
  <2>3. UNCHANGED <<profiles, secrets, key, certs, pair, directory, panel>>
    BY <1>10, Zenon DEF WritesToken
  <2> QED BY <1>0, <2>2, <2>3, Zenon DEF TablesOK, pair, panel
<1> QED BY <1>1, <1>2, <1>3, <1>4, <1>5, <1>6, <1>7, <1>8, <1>9, <1>10, WritesCertTables,
           ImportsTables DEF Saves

LEMMA OthersTables ==
  ASSUME Typed, UNCHANGED vars \/ Dies \/ Starts \/ SealsOne \/ MakesKey \/ FillsKey \/ SealingFails \/ Serves
  PROVE  TablesOK'
<1>0. TablesOK
  BY TypedParts
<1>1. CASE UNCHANGED vars
  BY <1>0, <1>1, Zenon DEF vars, TablesOK
<1>2. CASE Dies
  BY <1>0, <1>2 DEF Dies, TablesOK, pair, panel
<1>3. CASE Starts
  BY <1>0, <1>3 DEF Starts, TablesOK, pair, panel
<1>4. CASE SealsOne
  <2>1. secrets' \in [ProfileIds -> [Fields -> Secrets]]
    BY <1>0, <1>4, SecretTypes DEF SealsOne, TablesOK
  <2>2. UNCHANGED <<profiles, key, rest>>
    BY <1>4, Zenon DEF SealsOne
  <2> QED BY <1>0, <2>1, <2>2, Zenon DEF TablesOK, rest, pair, panel
<1>5. CASE MakesKey
  BY <1>0, <1>5 DEF MakesKey, TablesOK, pair, panel
<1>6. CASE FillsKey
  BY <1>0, <1>6 DEF FillsKey, TablesOK, pair, panel
<1>7. CASE SealingFails \/ Serves
  BY <1>0, <1>7 DEF SealingFails, Serves, TablesOK, pair, panel
<1> QED BY <1>1, <1>2, <1>3, <1>4, <1>5, <1>6, <1>7

LEMMA QuietTables ==
  ASSUME Typed, Quiet
  PROVE  TablesOK'
BY TypedParts, Zenon DEF TablesOK, Quiet, rest, pair, panel

LEMMA TypedNext ==
  ASSUME Typed, [Next]_vars
  PROVE  Typed'
<1>1. TablesOK'
  <2>1. CASE \E r \in Requests : \E q \in Asks : Arrive(r, q)
    <3>1. Quiet
      BY <2>1, Zenon DEF Arrive, Quiet
    <3> QED BY <3>1, QuietTables
  <2> QED BY <2>1, NextCases, OthersTables, LooksMoves, QuietTables, SavesTables
<1>2. ReqsOK(reqs')
  BY NextMoves, ArriveReqs DEF Moves
<1> QED BY <1>1, <1>2, TypedPartsNext

LEMMA TypedInit ==
  ASSUME Init
  PROVE  Typed
<1>1. 1 \in ProfileIds
  BY CredentialsAssumption DEF ProfileIds
<1>2. profiles \subseteq ProfileIds /\ secrets \in [ProfileIds -> [Fields -> Secrets]]
  BY <1>1 DEF Init, Secrets
<1>3. DOMAIN certs \subseteq CertIds /\ \A i \in DOMAIN certs : certs[i] \in CertRows
  BY DEF Init
<1>4. TablesOK
  BY <1>2, <1>3, Zenon DEF Init, TablesOK
<1>5. ReqsOK(reqs)
  BY IdleIsRequest DEF Init, ReqsOK
<1> QED BY <1>4, <1>5, TypedParts

LEMMA TypedHolds == Spec => []Typed
<1>1. Init => Typed
  BY TypedInit
<1>2. Typed /\ [Next]_vars => Typed'
  BY TypedNext
<1> QED BY <1>1, <1>2, PTL DEF Spec

\* Every stored value has its type, and a request in flight has a call to make (TypeOK),
\* however requests come in between each other.
THEOREM TypeCorrect == Spec => []TypeOK
<1>1. Typed => TypeOK
  BY DEF Typed
<1> QED BY <1>1, TypedHolds, PTL

(* ------------------------ requests that are kept apart -------------------- *)

\* Requests of kinds that are kept apart are not handled at the same time.
Together(two) == \A x, y \in Requests : x # y => {reqs[x].kind, reqs[y].kind} # two
AllApart == \A two \in Apart : Together(two)

LEMMA ApartInit ==
  ASSUME Init
  PROVE  AllApart
<1>1. \A r \in Requests : reqs[r].kind = None
  BY IdleIsRequest DEF Init
<1>2. \A two \in Apart : two \subseteq Kinds
  BY CredentialsAssumption
<1>3. None \notin Kinds
  BY DEF None, Kinds
<1> QED BY <1>1, <1>2, <1>3 DEF AllApart, Together

LEMMA MovedKind ==
  ASSUME Moves, NEW x \in Requests
  PROVE  (reqs'[x] = Idle /\ reqs'[x].kind = None) \/ reqs'[x].kind = reqs[x].kind
BY IdleIsRequest, Zenon DEF Moves, Moved

LEMMA ApartNext ==
  ASSUME Typed, AllApart, [Next]_vars
  PROVE  AllApart'
<1>1. \A two \in Apart : two \subseteq Kinds
  BY CredentialsAssumption
<1>2. None \notin Kinds
  BY DEF None, Kinds
<1> SUFFICES ASSUME NEW two \in Apart, NEW x \in Requests, NEW y \in Requests, x # y
    PROVE  {reqs'[x].kind, reqs'[y].kind} # two
  BY Zenon DEF AllApart, Together
<1>3. {reqs[x].kind, reqs[y].kind} # two
  BY Zenon DEF AllApart, Together
<1>4. CASE Moves
  BY <1>1, <1>2, <1>3, <1>4, MovedKind
<1>5. ASSUME NEW r \in Requests, NEW q \in Asks, Arrive(r, q)
      PROVE  {reqs'[x].kind, reqs'[y].kind} # two
  <2>1. reqs'[r] = q /\ \A z \in Requests : z # r => reqs'[z] = reqs[z]
    BY <1>5, ArriveReqs
  <2>2. \A z \in Requests : {q.kind, reqs[z].kind} \notin Apart
    BY <1>5, Zenon DEF Arrive, MayStart
  <2>3. \A z \in Requests : {q.kind, reqs[z].kind} # two
    BY <2>2
  <2>4. CASE x = r
    <3>1. reqs'[x].kind = q.kind /\ reqs'[y].kind = reqs[y].kind
      BY <2>1, <2>4
    <3> QED BY <2>3, <3>1
  <2>5. CASE y = r
    <3>1. reqs'[y].kind = q.kind /\ reqs'[x].kind = reqs[x].kind
      BY <2>1, <2>5
    <3>2. {reqs[x].kind, q.kind} = {q.kind, reqs[x].kind}
      OBVIOUS
    <3> QED BY <2>3, <3>1, <3>2
  <2>6. CASE x # r /\ y # r
    BY <1>3, <2>1, <2>6
  <2> QED BY <2>4, <2>5, <2>6
<1> QED BY <1>4, <1>5, NextMoves

LEMMA ApartHolds == Spec => []AllApart
<1>1. Init => AllApart
  BY ApartInit
<1>2. Typed /\ AllApart /\ [Next]_vars => AllApart'
  BY ApartNext
<1> QED BY <1>1, <1>2, TypedHolds, PTL DEF Spec

\* The kinds in one set are kept apart from those in the other.
KeptApart(K, J) == \A k \in K, j \in J : {k, j} \in Apart

LEMMA Separate ==
  ASSUME AllApart, NEW K, NEW J, KeptApart(K, J),
         NEW x \in Requests, NEW y \in Requests, x # y
  PROVE  ~(reqs[x].kind \in K /\ reqs[y].kind \in J)
BY DEF AllApart, Together, KeptApart

(* -------------------------------- secrets -------------------------------- *)

Storing == {"newprofile", "reprofile"}

\* Nobody has stored, or will store, under the id of another profile.
SecretInv ==
    /\ \A i \in ProfileIds : \A f \in Fields : secrets[i][f] # "stranger"
    /\ \A r \in Requests : reqs[r].stale = FALSE

LEMMA StaleNext ==
  ASSUME Typed, AllApart, KeptApart(Storing, {"unprofile", "import"}), SecretInv, [Next]_vars
  PROVE  \A r \in Requests : reqs'[r].stale = FALSE
<1> SUFFICES ASSUME NEW x \in Requests PROVE reqs'[x].stale = FALSE
  OBVIOUS
<1>1. reqs[x].stale = FALSE
  BY Zenon DEF SecretInv
<1>2. CASE Moves
  <2>1. ~(reqs[x].kind \in Storing /\ \E r \in Requests : reqs[r].kind \in {"unprofile", "import"})
    <3> SUFFICES ASSUME NEW r \in Requests, reqs[x].kind \in Storing,
                        reqs[r].kind \in {"unprofile", "import"}
                 PROVE  FALSE
      BY Zenon
    <3>1. x # r
      BY DEF Storing
    <3> QED BY <3>1, Separate
  <2>2. reqs'[x] = Idle \/ reqs'[x].stale = reqs[x].stale
    BY <1>2, <2>1, Zenon DEF Moves, Moved, Storing
  <2> QED BY <1>1, <2>2, IdleIsRequest, Zenon
<1>3. ASSUME NEW r \in Requests, NEW q \in Asks, Arrive(r, q) PROVE reqs'[x].stale = FALSE
  BY <1>1, <1>3, ArriveReqs, Zenon DEF Asked
<1> QED BY <1>2, <1>3, NextMoves

\* What a step makes of the secrets.
SecretsStep ==
    \/ secrets' = secrets
    \/ \E id, f : secrets' = WithSecret(id, f, "own")
    \/ \E ids : secrets' = Purged(ids)
    \/ /\ \E r \in Requests : reqs[r].stale # FALSE
       /\ \E id, f : secrets' = WithSecret(id, f, "stranger")

LEMMA SecretsNext ==
  ASSUME Typed, [Next]_vars
  PROVE  SecretsStep
<1>1. ASSUME NEW r \in Requests, Saves(r) PROVE SecretsStep
  <2>1. CASE StoresField(r)
    BY <2>1, Zenon DEF StoresField, SecretsStep
  <2>2. CASE DeletesProfile(r)
    BY <2>2, Zenon DEF DeletesProfile, SecretsStep
  <2>3. CASE ImportsDoc(r)
    BY <2>3, Zenon DEF ImportsDoc, Passes, SecretsStep
  <2>4. CASE ~StoresField(r) /\ ~DeletesProfile(r) /\ ~ImportsDoc(r)
    <3>1. secrets' = secrets
      BY <1>1, <2>4, Zenon DEF Saves, LoadsKey, Passes, WritesKey, InsertsProfile, WritesCert,
         WritesDirectory, WritesKid, WritesHmac, GetsToken, WritesToken
    <3> QED BY <3>1 DEF SecretsStep
  <2> QED BY <2>1, <2>2, <2>3, <2>4
<1>2. CASE SealsOne
  BY <1>2, Zenon DEF SealsOne, SecretsStep
<1>3. CASE UNCHANGED vars \/ Dies \/ Starts \/ MakesKey \/ FillsKey \/ SealingFails \/ Serves
  <2>1. secrets' = secrets
    BY <1>3, Zenon DEF vars, Dies, Starts, MakesKey, FillsKey, SealingFails, Serves
  <2> QED BY <2>1 DEF SecretsStep
<1>4. ASSUME NEW r \in Requests, Looks(r) \/ Dropped(r) PROVE SecretsStep
  <2>1. secrets' = secrets
    BY <1>4, LooksMoves, Zenon DEF Quiet
  <2> QED BY <2>1 DEF SecretsStep
<1>5. ASSUME NEW r \in Requests, NEW q \in Asks, Arrive(r, q) PROVE SecretsStep
  <2>1. secrets' = secrets
    BY <1>5, Zenon DEF Arrive
  <2> QED BY <2>1 DEF SecretsStep
<1> QED BY <1>1, <1>2, <1>3, <1>4, <1>5, NextCases

LEMMA SecretNext ==
  ASSUME Typed, AllApart, KeptApart(Storing, {"unprofile", "import"}), SecretInv, [Next]_vars
  PROVE  SecretInv'
<1>1. \A r \in Requests : reqs'[r].stale = FALSE
  BY StaleNext
<1>2. SecretsStep /\ \A r \in Requests : reqs[r].stale = FALSE
  BY SecretsNext, Zenon DEF SecretInv
<1>3. ASSUME NEW i \in ProfileIds, NEW f \in Fields PROVE secrets'[i][f] # "stranger"
  <2>1. secrets[i][f] # "stranger"
    BY Zenon DEF SecretInv
  <2>2. CASE secrets' = secrets
    BY <2>1, <2>2
  <2>3. ASSUME NEW id, NEW g, secrets' = WithSecret(id, g, "own") PROVE secrets'[i][f] # "stranger"
    <3>1. secrets'[i][f] = "own" \/ secrets'[i][f] = secrets[i][f]
      BY <2>3 DEF WithSecret
    <3> QED BY <2>1, <3>1
  <2>4. ASSUME NEW ids, secrets' = Purged(ids) PROVE secrets'[i][f] # "stranger"
    <3>1. secrets'[i][f] = None \/ secrets'[i][f] = secrets[i][f]
      BY <2>4 DEF Purged
    <3> QED BY <2>1, <3>1 DEF None
  <2> QED BY <1>2, <2>2, <2>3, <2>4, Zenon DEF SecretsStep
<1> QED BY <1>1, <1>3, Zenon DEF SecretInv

LEMMA SecretInit ==
  ASSUME Init
  PROVE  SecretInv
<1>1. \A i \in ProfileIds : \A f \in Fields : secrets[i][f] \in {None, "plaintext"}
  BY DEF Init
<1>2. \A r \in Requests : reqs[r].stale = FALSE
  BY IdleIsRequest, Zenon DEF Init
<1> QED BY <1>1, <1>2, Zenon DEF SecretInv, None

\* A profile has no secret that was entered for another (SecretsAreTheirs), if creating and
\* editing profiles are kept apart from deleting them and from imports.
THEOREM SecretsKept ==
  ASSUME KeptApart({"newprofile", "reprofile"}, {"unprofile", "import"})
  PROVE  Spec => []SecretsAreTheirs
<1>1. Init => SecretInv
  BY SecretInit
<1>2. Typed /\ AllApart /\ SecretInv /\ [Next]_vars => SecretInv'
  BY SecretNext DEF Storing
<1>3. Typed /\ SecretInv => SecretsAreTheirs
  BY TypedParts DEF SecretInv, SecretsAreTheirs, TablesOK
<1> QED BY <1>1, <1>2, <1>3, TypedHolds, ApartHolds, PTL DEF Spec

(* ------------------------------ certificates ------------------------------ *)

\* What a request has checked is so until it writes.
Checked(q, ids, cs, dir) ==
    /\ q.kind \in {"cert", "recert"} =>
          /\ "provider" \in Calls(q.todo) \/ q.dns \in ids \cup {0}
          /\ q.ca = "custom" => "directory" \in Calls(q.todo) \/ dir
    /\ q.kind = "unprofile" =>
          "unused" \in Calls(q.todo) \/ \A i \in DOMAIN cs : cs[i].dns # q.id
    /\ q.kind = "cleardir" =>
          "unused" \in Calls(q.todo) \/ \A i \in DOMAIN cs : cs[i].ca # "custom"
CanIssue(ids, cs, dir) ==
    \A i \in DOMAIN cs : cs[i].dns \in ids \cup {0} /\ (cs[i].ca = "custom" => dir)
IssueInv == CertsCanIssue /\ \A r \in Requests : Checked(reqs[r], profiles, certs, directory)

LEMMA IssueParts ==
  /\ IssueInv <=> /\ CanIssue(profiles, certs, directory)
                  /\ \A r \in Requests : Checked(reqs[r], profiles, certs, directory)
  /\ IssueInv' <=> /\ CanIssue(profiles', certs', directory')
                   /\ \A r \in Requests : Checked(reqs'[r], profiles', certs', directory')
BY Zenon DEF IssueInv, CanIssue, CertsCanIssue

LEMMA IdleChecked == \A ids, cs, dir : Checked(Idle, ids, cs, dir)
BY IdleIsRequest DEF Checked, None

LEMMA AskedChecked ==
  ASSUME NEW q, Asked(q), NEW ids, NEW cs, NEW dir
  PROVE  Checked(q, ids, cs, dir)
<1>1. /\ q.kind \in {"cert", "recert"} => /\ "provider" \in Calls(q.todo) \/ q.dns = 0
                                          /\ q.ca = "custom" => "directory" \in Calls(q.todo)
      /\ q.kind \in {"unprofile", "cleardir"} => "unused" \in Calls(q.todo)
  BY DEF Asked, Asking
<1> QED BY <1>1 DEF Checked

LEMMA MovedChecked ==
  ASSUME NEW q, NEW n, Moved(q, n), Checked(q, profiles, certs, directory)
  PROVE  Checked(n, profiles, certs, directory)
<1>1. CASE n = Idle
  BY <1>1, IdleChecked
<1>2. CASE n # Idle
  <2>1. CASE q.kind \in {"cert", "recert"}
    <3>1. q.kind # "build"
      BY <2>1
    <3>2. /\ n.kind = q.kind /\ n.dns = q.dns /\ n.ca = q.ca
          /\ "provider" \in Calls(q.todo) => "provider" \in Calls(n.todo) \/ q.dns \in profiles
          /\ "directory" \in Calls(q.todo) => "directory" \in Calls(n.todo) \/ directory
      BY <1>2, <3>1, Zenon DEF Moved
    <3>3. /\ "provider" \in Calls(q.todo) \/ q.dns \in profiles \cup {0}
          /\ q.ca = "custom" => "directory" \in Calls(q.todo) \/ directory
      BY <2>1, Zenon DEF Checked
    <3>4. "provider" \in Calls(n.todo) \/ n.dns \in profiles \cup {0}
      BY <3>2, <3>3
    <3>5. n.ca = "custom" => "directory" \in Calls(n.todo) \/ directory
      BY <3>2, <3>3, Zenon
    <3>6. n.kind # "unprofile" /\ n.kind # "cleardir"
      BY <2>1, <3>2
    <3> QED BY <3>4, <3>5, <3>6, Zenon DEF Checked
  <2>2. CASE q.kind \in {"unprofile", "cleardir"}
    <3>1. q.kind # "build" /\ q.kind # "newprofile" /\ q.kind \notin {"cert", "recert"}
      BY <2>2
    <3>2. /\ n.kind = q.kind /\ n.id = q.id
          /\ "unused" \in Calls(q.todo) => "unused" \in Calls(n.todo) \/ Unused(q)
      BY <1>2, <3>1, Zenon DEF Moved
    <3>3. CASE q.kind = "unprofile"
      <4>1. Unused(q) <=> \A i \in DOMAIN certs : certs[i].dns # q.id
        BY <3>3 DEF Unused
      <4> QED BY <3>1, <3>2, <3>3, <4>1 DEF Checked
    <3>4. CASE q.kind = "cleardir"
      <4>1. Unused(q) <=> \A i \in DOMAIN certs : certs[i].ca # "custom"
        BY <3>4 DEF Unused
      <4> QED BY <3>1, <3>2, <3>4, <4>1 DEF Checked
    <3> QED BY <2>2, <3>3, <3>4
  <2>3. CASE q.kind \notin {"cert", "recert", "unprofile", "cleardir"}
    <3>1. n.kind = q.kind
      BY <1>2, Zenon DEF Moved
    <3> QED BY <2>3, <3>1 DEF Checked
  <2> QED BY <2>1, <2>2, <2>3
<1> QED BY <1>1, <1>2

\* Whatever a step does, what requests have checked is so in the tables it found.
LEMMA NextChecked ==
  ASSUME Typed, IssueInv, [Next]_vars, NEW x \in Requests
  PROVE  Checked(reqs'[x], profiles, certs, directory)
<1>1. Checked(reqs[x], profiles, certs, directory)
  BY IssueParts
<1>2. CASE Moves
  BY <1>1, <1>2, MovedChecked DEF Moves
<1>3. ASSUME NEW r \in Requests, NEW q \in Asks, Arrive(r, q)
      PROVE  Checked(reqs'[x], profiles, certs, directory)
  BY <1>1, <1>3, ArriveReqs, AskedChecked
<1> QED BY <1>2, <1>3, NextMoves

LEMMA TablesChange ==
  ASSUME [Next]_vars, Typed
  PROVE  \/ UNCHANGED <<profiles, certs, directory>>
         \/ \E r \in Requests : \/ InsertsProfile(r) \/ DeletesProfile(r) \/ WritesCert(r)
                                \/ WritesDirectory(r)
                                \/ ImportsDoc(r) /\ ~UNCHANGED <<profiles, certs, directory>>
<1>1. ASSUME NEW r \in Requests, Saves(r), ~InsertsProfile(r), ~DeletesProfile(r),
             ~WritesCert(r), ~WritesDirectory(r), ~ImportsDoc(r)
      PROVE  UNCHANGED <<profiles, certs, directory>>
  BY <1>1, Zenon DEF Saves, LoadsKey, Passes, WritesKey, StoresField, WritesKid, WritesHmac,
     GetsToken, WritesToken, rest
<1>2. CASE UNCHANGED vars \/ Dies \/ Starts \/ SealsOne \/ MakesKey \/ FillsKey \/ SealingFails \/ Serves
  BY <1>2, Zenon DEF vars, Dies, Starts, SealsOne, MakesKey, FillsKey, SealingFails, Serves, rest
<1>3. ASSUME NEW r \in Requests, Looks(r) \/ Dropped(r)
      PROVE  UNCHANGED <<profiles, certs, directory>>
  BY <1>3, LooksMoves, Zenon DEF Quiet, rest
<1>4. ASSUME NEW r \in Requests, NEW q \in Asks, Arrive(r, q)
      PROVE  UNCHANGED <<profiles, certs, directory>>
  BY <1>4, Zenon DEF Arrive, rest
<1> QED BY <1>1, <1>2, <1>3, <1>4, NextCases, Zenon

\* Another request that is not answered yet is of the kind it was.
LEMMA OtherKind ==
  ASSUME Typed, NEW r \in Requests, Saves(r), reqs'[r] = Idle, NEW x \in Requests,
         reqs'[x].kind # None
  PROVE  x # r /\ reqs[x].kind = reqs'[x].kind
BY SavesMoves, MovedKind, IdleIsRequest

LEMMA InsertsIssue ==
  ASSUME Typed, IssueInv, NEW r \in Requests, InsertsProfile(r), [Next]_vars
  PROVE  IssueInv'
<1>1. profiles \subseteq profiles' /\ certs' = certs /\ directory' = directory
  BY DEF InsertsProfile, rest
<1>2. CanIssue(profiles', certs', directory')
  BY <1>1, IssueParts, Zenon DEF CanIssue
<1>3. ASSUME NEW x \in Requests PROVE Checked(reqs'[x], profiles', certs', directory')
  <2>1. Checked(reqs'[x], profiles, certs, directory)
    BY NextChecked
  <2> QED BY <1>1, <2>1, Zenon DEF Checked
<1> QED BY <1>2, <1>3, IssueParts

LEMMA DeletesIssue ==
  ASSUME Typed, AllApart, KeptApart({"cert", "recert"}, {"unprofile", "cleardir", "import"}),
         IssueInv, NEW r \in Requests, DeletesProfile(r), [Next]_vars
  PROVE  IssueInv'
<1>1. /\ profiles' = profiles \ {reqs[r].id} /\ certs' = certs /\ directory' = directory
      /\ reqs[r].kind = "unprofile" /\ At(r, "write") /\ reqs'[r] = Idle
  BY DEF DeletesProfile, rest, After
<1>2. Calls(reqs[r].todo) \cap Checks = {}
  BY <1>1, Called DEF Writes
<1>3. \A i \in DOMAIN certs : certs[i].dns # reqs[r].id
  <2>1. Checked(reqs[r], profiles, certs, directory) /\ "unused" \notin Calls(reqs[r].todo)
    BY <1>2, IssueParts DEF Checks
  <2> QED BY <1>1, <2>1, Zenon DEF Checked
<1>4. CanIssue(profiles', certs', directory')
  <2>1. CanIssue(profiles, certs, directory)
    BY IssueParts
  <2>2. ASSUME NEW i \in DOMAIN certs PROVE certs[i].dns \in profiles' \cup {0}
    BY <1>1, <1>3, <2>1 DEF CanIssue
  <2> QED BY <1>1, <2>1, <2>2, Zenon DEF CanIssue
<1>5. ASSUME NEW x \in Requests PROVE Checked(reqs'[x], profiles', certs', directory')
  <2>1. Checked(reqs'[x], profiles, certs, directory)
    BY NextChecked
  <2>2. reqs'[x].kind \notin {"cert", "recert"}
    <3> SUFFICES ASSUME reqs'[x].kind \in {"cert", "recert"} PROVE FALSE
      OBVIOUS
    <3>1. x # r /\ reqs[x].kind \in {"cert", "recert"}
      BY <1>1, OtherKind DEF Saves, None
    <3> QED BY <1>1, <3>1, Separate
  <2> QED BY <1>1, <2>1, <2>2, Zenon DEF Checked
<1> QED BY <1>4, <1>5, IssueParts

LEMMA WritesIssue ==
  ASSUME Typed, AllApart, KeptApart({"cert", "recert"}, {"unprofile", "cleardir", "import"}),
         IssueInv, NEW r \in Requests, WritesCert(r), [Next]_vars
  PROVE  IssueInv'
<1> DEFINE q == reqs[r]
           row == [dns |-> q.dns, ca |-> q.ca]
<1>1. /\ profiles' = profiles /\ directory' = directory
      /\ q.kind \in {"cert", "recert", "uncert"} /\ At(r, "write") /\ reqs' = [reqs EXCEPT ![r] = Idle]
  BY DEF WritesCert, Ends
<1>2. reqs'[r] = Idle
  BY <1>1, TypedReqs DEF ReqsOK
<1>3. Calls(q.todo) \cap Checks = {}
  BY <1>1, Called DEF Writes
<1>4. CanIssue(profiles, certs, directory)
  BY IssueParts
<1>5. PICK id \in CertIds :
         certs' = IF q.kind = "uncert" THEN Without(id)
                  ELSE IF q.kind = "recert" /\ id \notin DOMAIN certs THEN certs
                  ELSE With(id, row)
  BY DEF WritesCert
<1>6. CASE q.kind = "uncert"
  <2>1. \A i \in DOMAIN certs' : i \in DOMAIN certs /\ certs'[i] = certs[i]
    BY <1>5, <1>6 DEF Without
  <2>2. CanIssue(profiles', certs', directory')
    BY <1>1, <1>4, <2>1, Zenon DEF CanIssue
  <2>3. ASSUME NEW x \in Requests PROVE Checked(reqs'[x], profiles', certs', directory')
    <3>1. Checked(reqs'[x], profiles, certs, directory)
      BY NextChecked
    <3> QED BY <1>1, <2>1, <3>1, Zenon DEF Checked
  <2> QED BY <2>2, <2>3, IssueParts
<1>7. CASE q.kind \in {"cert", "recert"}
  <2>1. /\ DOMAIN certs' \subseteq DOMAIN certs \cup {id}
        /\ \A i \in DOMAIN certs' : certs'[i] = row \/ (i \in DOMAIN certs /\ certs'[i] = certs[i])
    BY <1>5, <1>7 DEF With
  <2>2. q.dns \in profiles \cup {0} /\ (q.ca = "custom" => directory)
    <3>1. "provider" \notin Calls(q.todo) /\ "directory" \notin Calls(q.todo)
      BY <1>3 DEF Checks
    <3>2. Checked(q, profiles, certs, directory)
      BY IssueParts
    <3> QED BY <1>7, <3>1, <3>2, Zenon DEF Checked
  <2>3. row.dns = q.dns /\ row.ca = q.ca
    OBVIOUS
  <2> HIDE DEF row
  <2>4. CanIssue(profiles', certs', directory')
    BY <1>1, <1>4, <2>1, <2>2, <2>3, Zenon DEF CanIssue
  <2>5. ASSUME NEW x \in Requests PROVE Checked(reqs'[x], profiles', certs', directory')
    <3>1. Checked(reqs'[x], profiles, certs, directory)
      BY NextChecked
    <3>2. reqs'[x].kind \notin {"unprofile", "cleardir"}
      <4> SUFFICES ASSUME reqs'[x].kind \in {"unprofile", "cleardir"} PROVE FALSE
        OBVIOUS
      <4>1. x # r /\ reqs[x].kind \in {"unprofile", "cleardir"}
        BY <1>2, OtherKind DEF Saves, None
      <4>2. reqs[x].kind \in {"unprofile", "cleardir", "import"}
        BY <4>1
      <4> QED BY <1>7, <4>1, <4>2, Separate, Zenon
    <3> QED BY <1>1, <3>1, <3>2 DEF Checked
  <2> QED BY <2>4, <2>5, IssueParts
<1> QED BY <1>1, <1>6, <1>7

LEMMA DirectoryIssue ==
  ASSUME Typed, AllApart, KeptApart({"cert", "recert"}, {"unprofile", "cleardir", "import"}),
         IssueInv, NEW r \in Requests, WritesDirectory(r), [Next]_vars
  PROVE  IssueInv'
<1> DEFINE q == reqs[r]
<1>1. /\ profiles' = profiles /\ certs' = certs
      /\ q.kind \in {"setdir", "cleardir"} /\ At(r, "write") /\ reqs' = [reqs EXCEPT ![r] = Idle]
  BY DEF WritesDirectory, Ends
<1>2. reqs'[r] = Idle
  BY <1>1, TypedReqs DEF ReqsOK
<1>3. CanIssue(profiles, certs, directory)
  BY IssueParts
<1>4. CASE q.kind = "setdir"
  <2>1. directory'
    BY <1>4, Zenon DEF WritesDirectory
  <2>2. CanIssue(profiles', certs', directory')
    BY <1>1, <1>3, <2>1, Zenon DEF CanIssue
  <2>3. ASSUME NEW x \in Requests PROVE Checked(reqs'[x], profiles', certs', directory')
    <3>1. Checked(reqs'[x], profiles, certs, directory)
      BY NextChecked
    <3> QED BY <1>1, <2>1, <3>1, Zenon DEF Checked
  <2> QED BY <2>2, <2>3, IssueParts
<1>5. CASE q.kind = "cleardir"
  <2>1. \A i \in DOMAIN certs : certs[i].ca # "custom"
    <3>1. "unused" \notin Calls(q.todo)
      BY <1>1, Called DEF Writes, Checks
    <3>2. Checked(q, profiles, certs, directory)
      BY IssueParts
    <3> QED BY <1>5, <3>1, <3>2, Zenon DEF Checked
  <2>2. CanIssue(profiles', certs', directory')
    BY <1>1, <1>3, <2>1, Zenon DEF CanIssue
  <2>3. ASSUME NEW x \in Requests PROVE Checked(reqs'[x], profiles', certs', directory')
    <3>1. Checked(reqs'[x], profiles, certs, directory)
      BY NextChecked
    <3>2. reqs'[x].kind \notin {"cert", "recert"}
      <4> SUFFICES ASSUME reqs'[x].kind \in {"cert", "recert"} PROVE FALSE
        OBVIOUS
      <4>1. x # r /\ reqs[x].kind \in {"cert", "recert"}
        BY <1>2, OtherKind DEF Saves, None
      <4>2. q.kind \in {"unprofile", "cleardir", "import"}
        BY <1>5
      <4> QED BY <4>1, <4>2, Separate, Zenon
    <3> QED BY <1>1, <3>1, <3>2, Zenon DEF Checked
  <2> QED BY <2>2, <2>3, IssueParts
<1> QED BY <1>1, <1>4, <1>5

LEMMA ImportsIssue ==
  ASSUME Typed, AllApart, KeptApart({"cert", "recert"}, {"unprofile", "cleardir", "import"}),
         KeptApart({"import"}, {"unprofile", "cleardir"}), IssueInv, NEW r \in Requests,
         ImportsDoc(r), ~UNCHANGED <<profiles, certs, directory>>
  PROVE  IssueInv'
<1>1. reqs[r].kind = "import"
  BY DEF ImportsDoc
<1>2. PICK doc \in Imports :
         /\ Accepted(doc) /\ profiles' = doc.profiles /\ certs' = doc.certs
         /\ directory' = (doc.directory = "url" \/ (doc.directory = None /\ directory))
         /\ reqs' = After(r, ProfileIds)
  BY Zenon DEF ImportsDoc, Passes, rest
<1>3. directory' <=> doc.directory = "url" \/ (doc.directory = None /\ directory)
  BY <1>2, Zenon
<1>4. CanIssue(profiles', certs', directory')
  <2>1. ASSUME NEW i \in DOMAIN doc.certs
        PROVE  /\ doc.certs[i].dns \in doc.profiles \cup {0}
               /\ doc.certs[i].ca = "custom" => directory'
    BY <1>2, <1>3, Zenon DEF Accepted
  <2> QED BY <1>2, <2>1, Zenon DEF CanIssue
<1>5. ASSUME NEW x \in Requests PROVE Checked(reqs'[x], profiles', certs', directory')
  <2>1. reqs'[r] = Idle
    BY <1>2 DEF After
  <2>2. reqs'[x].kind \notin {"cert", "recert"}
    <3> SUFFICES ASSUME reqs'[x].kind \in {"cert", "recert"} PROVE FALSE
      OBVIOUS
    <3>1. x # r /\ reqs[x].kind \in {"cert", "recert"}
      BY <2>1, OtherKind DEF Saves, None
    <3> QED BY <1>1, <3>1, Separate
  <2>3. reqs'[x].kind \notin {"unprofile", "cleardir"}
    <3> SUFFICES ASSUME reqs'[x].kind \in {"unprofile", "cleardir"} PROVE FALSE
      OBVIOUS
    <3>1. x # r /\ reqs[x].kind \in {"unprofile", "cleardir"}
      BY <2>1, OtherKind DEF Saves, None
    <3> QED BY <1>1, <3>1, Separate
  <2> QED BY <2>2, <2>3 DEF Checked
<1> QED BY <1>4, <1>5, IssueParts

LEMMA IssueNext ==
  ASSUME Typed, AllApart, KeptApart({"cert", "recert"}, {"unprofile", "cleardir", "import"}),
         KeptApart({"import"}, {"unprofile", "cleardir"}), IssueInv, [Next]_vars
  PROVE  IssueInv'
<1>1. CASE UNCHANGED <<profiles, certs, directory>>
  <2>1. profiles' = profiles /\ certs' = certs /\ directory' = directory
    BY <1>1
  <2>2. \A x \in Requests : Checked(reqs'[x], profiles, certs, directory)
    BY NextChecked
  <2> QED BY <2>1, <2>2, IssueParts, Zenon
<1> QED BY <1>1, TablesChange, InsertsIssue, DeletesIssue, WritesIssue, DirectoryIssue,
           ImportsIssue

LEMMA IssueInit ==
  ASSUME Init
  PROVE  IssueInv
<1>1. DOMAIN certs = {} /\ \A r \in Requests : reqs[r] = Idle
  BY DEF Init
<1> QED BY <1>1, IdleChecked DEF IssueInv, CertsCanIssue

\* A certificate refers to a profile that is there, and the custom directory is set as long as
\* one issues from it (CertsCanIssue), if writing certificates is kept apart from what takes
\* either away, and that from imports.
THEOREM CertsServed ==
  ASSUME KeptApart({"cert", "recert"}, {"unprofile", "cleardir", "import"}),
         KeptApart({"import"}, {"unprofile", "cleardir"})
  PROVE  Spec => []CertsCanIssue
<1>1. Init => IssueInv
  BY IssueInit
<1>2. Typed /\ AllApart /\ IssueInv /\ [Next]_vars => IssueInv'
  BY IssueNext
<1>3. IssueInv => CertsCanIssue
  BY DEF IssueInv
<1> QED BY <1>1, <1>2, <1>3, TypedHolds, ApartHolds, PTL DEF Spec

(* -------------------------------- EAB pair -------------------------------- *)

\* Who is about to clear the pair has found it unused, and it is.
Unneeded(q, cs) ==
    q.kind = "uneab" => "unused" \in Calls(q.todo) \/ \A i \in DOMAIN cs : cs[i].ca # "eab"
EabInv == \A r \in Requests : Unneeded(reqs[r], certs)

LEMMA NextUnneeded ==
  ASSUME Typed, EabInv, [Next]_vars, NEW x \in Requests
  PROVE  Unneeded(reqs'[x], certs)
<1>1. Unneeded(reqs[x], certs)
  BY Zenon DEF EabInv
<1>2. CASE Moves
  <2> DEFINE q == reqs[x]
             n == reqs'[x]
  <2>1. Moved(q, n)
    BY <1>2 DEF Moves
  <2> HIDE DEF n
  <2>2. CASE n = Idle
    BY <2>2, IdleIsRequest DEF Unneeded, None, n
  <2>3. CASE n # Idle
    <3>1. n.kind = q.kind
      BY <2>1, <2>3, Zenon DEF Moved
    <3>2. CASE q.kind = "uneab"
      <4>1. "unused" \in Calls(q.todo) => "unused" \in Calls(n.todo) \/ Unused(q)
        <5>1. q.kind # "build"
          BY <3>2
        <5> QED BY <2>1, <2>3, <5>1, Zenon DEF Moved
      <4>2. Unused(q) <=> \A i \in DOMAIN certs : certs[i].ca # "eab"
        BY <3>2 DEF Unused
      <4> QED BY <1>1, <3>1, <3>2, <4>1, <4>2, Zenon DEF Unneeded, n
    <3>3. CASE q.kind # "uneab"
      BY <3>1, <3>3 DEF Unneeded, n
    <3> QED BY <3>2, <3>3
  <2> QED BY <2>2, <2>3
<1>3. ASSUME NEW r \in Requests, NEW q \in Asks, Arrive(r, q) PROVE Unneeded(reqs'[x], certs)
  <2>1. Asked(q) /\ (reqs'[x] = q \/ reqs'[x] = reqs[x])
    BY <1>3, ArriveReqs
  <2>2. Unneeded(q, certs)
    BY <2>1 DEF Asked, Asking, Unneeded
  <2> QED BY <1>1, <2>1, <2>2
<1> QED BY <1>2, <1>3, NextMoves

LEMMA EabNext ==
  ASSUME Typed, AllApart, KeptApart({"uneab"}, {"cert", "recert", "import"}), EabInv,
         [Next]_vars
  PROVE  EabInv'
<1> SUFFICES ASSUME NEW x \in Requests PROVE Unneeded(reqs'[x], certs')
  BY DEF EabInv
<1>1. Unneeded(reqs'[x], certs)
  BY NextUnneeded
<1>2. ASSUME NEW r \in Requests, reqs[r].kind \in {"cert", "recert", "import"}, Saves(r),
             reqs'[r] = Idle
      PROVE  Unneeded(reqs'[x], certs')
  <2>1. reqs'[x].kind # "uneab"
    <3> SUFFICES ASSUME reqs'[x].kind = "uneab" PROVE FALSE
      OBVIOUS
    <3>1. x # r /\ reqs[x].kind = "uneab"
      BY <1>2, OtherKind DEF None
    <3> QED BY <1>2, <3>1, Separate
  <2> QED BY <2>1 DEF Unneeded
<1>3. CASE certs' = certs
  BY <1>1, <1>3
<1>4. ASSUME NEW r \in Requests, WritesCert(r) PROVE Unneeded(reqs'[x], certs')
  <2>1. reqs'[r] = Idle
    BY <1>4, TypedReqs DEF WritesCert, Ends, ReqsOK
  <2>2. CASE reqs[r].kind = "uncert"
    <3>1. PICK id : certs' = Without(id)
      BY <1>4, <2>2 DEF WritesCert
    <3>2. \A i \in DOMAIN certs' : i \in DOMAIN certs /\ certs'[i] = certs[i]
      BY <3>1 DEF Without
    <3> QED BY <1>1, <3>2, Zenon DEF Unneeded
  <2>3. CASE reqs[r].kind # "uncert"
    BY <1>2, <1>4, <2>1, <2>3 DEF WritesCert, Saves
  <2> QED BY <2>2, <2>3
<1>5. ASSUME NEW r \in Requests, ImportsDoc(r), certs' # certs PROVE Unneeded(reqs'[x], certs')
  <2>1. reqs' = After(r, ProfileIds) /\ reqs[r].kind = "import"
    BY <1>5, Zenon DEF ImportsDoc, Passes, rest
  <2>2. reqs'[r] = Idle
    BY <2>1 DEF After
  <2> QED BY <1>2, <1>5, <2>1, <2>2 DEF Saves
<1>6. ASSUME NEW r \in Requests, InsertsProfile(r) \/ DeletesProfile(r) \/ WritesDirectory(r)
      PROVE  certs' = certs
  BY <1>6, Zenon DEF InsertsProfile, DeletesProfile, WritesDirectory, rest
<1> QED BY <1>3, <1>4, <1>5, <1>6, TablesChange, Zenon

\* Only two calls write the halves.
LEMMA EabWrites ==
  ASSUME Typed, [Next]_vars, ~UNCHANGED pair
  PROVE  \E r \in Requests : WritesKid(r) \/ WritesHmac(r)
<1>1. ASSUME NEW r \in Requests, Saves(r), ~WritesKid(r), ~WritesHmac(r)
      PROVE  UNCHANGED pair
  BY <1>1, Zenon DEF Saves, LoadsKey, Passes, WritesKey, StoresField, InsertsProfile,
     DeletesProfile, WritesCert, WritesDirectory, ImportsDoc, GetsToken, WritesToken, rest
<1>2. CASE UNCHANGED vars \/ Dies \/ Starts \/ SealsOne \/ MakesKey \/ FillsKey \/ SealingFails \/ Serves
  BY <1>2, Zenon DEF vars, pair, Dies, Starts, SealsOne, MakesKey, FillsKey, SealingFails, Serves, rest
<1>3. ASSUME NEW r \in Requests, Looks(r) \/ Dropped(r) PROVE UNCHANGED pair
  BY <1>3, LooksMoves, Zenon DEF Quiet, rest
<1>4. ASSUME NEW r \in Requests, NEW q \in Asks, Arrive(r, q) PROVE UNCHANGED pair
  BY <1>4, Zenon DEF Arrive, rest
<1> QED BY <1>1, <1>2, <1>3, <1>4, NextCases, Zenon

LEMMA EabStep ==
  ASSUME Typed, EabInv, [Next]_vars,
         \E i \in DOMAIN certs : certs[i].ca = "eab", kid # None, hmac # None
  PROVE  kid' # None /\ hmac' # None
<1>1. CASE UNCHANGED pair
  BY <1>1 DEF pair
<1>2. ASSUME NEW r \in Requests, WritesKid(r) \/ WritesHmac(r)
      PROVE  kid' # None /\ hmac' # None
  <2> DEFINE q == reqs[r]
  <2>1. PICK s \in {"write-kid", "write-hmac"} : At(r, s)
    BY <1>2 DEF WritesKid, WritesHmac
  <2>2. /\ Filled(q) /\ s \in Calls(q.todo) /\ Calls(q.todo) \cap Checks = {}
    BY <2>1, Called DEF Writes
  <2>3. q.kind \in {"puteab", "uneab"}
    BY <2>2 DEF Filled, Fits
  <2>4. q.kind # "uneab"
    <3>1. "unused" \notin Calls(q.todo)
      BY <2>2 DEF Checks
    <3>2. Unneeded(q, certs)
      BY Zenon DEF EabInv
    <3> QED BY <3>1, <3>2, Zenon DEF Unneeded
  <2>5. q.pair # None
    BY <2>2, <2>3, <2>4, CredentialsAssumption DEF Filled
  <2> QED BY <1>2, <2>5 DEF WritesKid, WritesHmac
<1> QED BY <1>1, <1>2, EabWrites

LEMMA EabInit ==
  ASSUME Init
  PROVE  EabInv
<1>1. DOMAIN certs = {}
  BY DEF Init
<1> QED BY <1>1 DEF EabInv, Unneeded

\* No step takes away half an EAB pair that a certificate needs (EabKept), if clearing the pair
\* is kept apart from writing certificates and from imports.
THEOREM PairKept ==
  ASSUME KeptApart({"uneab"}, {"cert", "recert", "import"})
  PROVE  Spec => EabKept
<1> DEFINE Keeps == (\E i \in DOMAIN certs : certs[i].ca = "eab") /\ kid # None /\ hmac # None
                    => kid' # None /\ hmac' # None
<1>1. Init => EabInv
  BY EabInit
<1>2. Typed /\ AllApart /\ EabInv /\ [Next]_vars => EabInv'
  BY EabNext
<1>3. Typed /\ EabInv /\ [Next]_vars => [Keeps]_vars
  BY EabStep
<1>4. EabKept <=> [][Keeps]_vars
  BY DEF EabKept
<1> HIDE DEF Keeps
<1> QED BY <1>1, <1>2, <1>3, <1>4, TypedHolds, ApartHolds, PTL DEF Spec

(* ------------------------------- hook token ------------------------------- *)

\* Who has made a token has found none.
TokenInv ==
    TokenStable /\ \A r \in Requests : "write-token" \in Calls(reqs[r].todo) => hookToken = None

LEMMA TokenChange ==
  ASSUME Typed, [Next]_vars, ~UNCHANGED <<hookToken, built>>
  PROVE  \E r \in Requests : GetsToken(r) \/ WritesToken(r)
<1>1. ASSUME NEW r \in Requests, Saves(r), ~GetsToken(r), ~WritesToken(r)
      PROVE  UNCHANGED <<hookToken, built>>
  BY <1>1, Zenon DEF Saves, LoadsKey, Passes, WritesKey, StoresField, InsertsProfile,
     DeletesProfile, WritesCert, WritesDirectory, ImportsDoc, WritesKid, WritesHmac, rest
<1>2. CASE UNCHANGED vars \/ Dies \/ Starts \/ SealsOne \/ MakesKey \/ FillsKey \/ SealingFails \/ Serves
  BY <1>2, Zenon DEF vars, Dies, Starts, SealsOne, MakesKey, FillsKey, SealingFails, Serves, rest
<1>3. ASSUME NEW r \in Requests, Looks(r) \/ Dropped(r) PROVE UNCHANGED <<hookToken, built>>
  BY <1>3, LooksMoves, Zenon DEF Quiet, rest
<1>4. ASSUME NEW r \in Requests, NEW q \in Asks, Arrive(r, q) PROVE UNCHANGED <<hookToken, built>>
  BY <1>4, Zenon DEF Arrive, rest
<1> QED BY <1>1, <1>2, <1>3, <1>4, NextCases, Zenon

\* While the token is not written, whoever is to write one has found none.
LEMMA StillNone ==
  ASSUME Typed, TokenInv, [Next]_vars, NEW x \in Requests,
         "write-token" \in Calls(reqs'[x].todo)
  PROVE  hookToken = None
<1>1. "write-token" \in Calls(reqs[x].todo) => hookToken = None
  BY Zenon DEF TokenInv
<1>2. "write-token" \notin Calls(Idle.todo)
  BY IdleIsRequest, NoCall
<1>3. CASE Moves
  BY <1>1, <1>2, <1>3, Zenon DEF Moves, Moved
<1>4. ASSUME NEW r \in Requests, NEW q \in Asks, Arrive(r, q) PROVE hookToken = None
  BY <1>1, <1>4, ArriveReqs, Zenon DEF Asked
<1> QED BY <1>3, <1>4, NextMoves

LEMMA WritesTokenNext ==
  ASSUME Typed, AllApart, KeptApart({"build"}, {"build"}), TokenInv, [Next]_vars,
         NEW r \in Requests, WritesToken(r)
  PROVE  TokenInv'
<1> DEFINE t == reqs[r].pair
<1>1. /\ "write-token" \in Calls(reqs[r].todo) /\ reqs[r].kind = "build" /\ t \in Tokens
  BY Called DEF WritesToken, Filled, Fits
<1>2. hookToken' = t /\ built' = built \cup {t}
  BY Zenon DEF WritesToken, Stored
<1>3. hookToken = None
  BY <1>1, Zenon DEF TokenInv
<1>4. built = {}
  <2>1. built \subseteq {None} /\ built \subseteq Tokens
    BY <1>3, TypedParts DEF TokenInv, TokenStable, TablesOK
  <2> QED BY <2>1, CredentialsAssumption
<1>5. built' \subseteq {hookToken'}
  BY <1>2, <1>4
<1>6. reqs'[r] = Idle
  BY TypedReqs DEF WritesToken, Ends, ReqsOK
<1>7. ASSUME NEW x \in Requests, "write-token" \in Calls(reqs'[x].todo) PROVE FALSE
  <2>1. Filled(reqs'[x])
    BY TypedNext, TypedPartsNext DEF ReqsOK
  <2>2. reqs'[x].kind = "build"
    BY <1>7, <2>1 DEF Filled, Fits
  <2>3. x # r /\ reqs[x].kind = "build"
    BY <1>6, <2>2, OtherKind DEF Saves, None
  <2> QED BY <1>1, <2>3, Separate
<1> QED BY <1>5, <1>7 DEF TokenInv, TokenStable

LEMMA TokenNext ==
  ASSUME Typed, AllApart, KeptApart({"build"}, {"build"}), TokenInv, [Next]_vars
  PROVE  TokenInv'
<1>1. CASE UNCHANGED <<hookToken, built>>
  BY <1>1, StillNone DEF TokenInv, TokenStable
<1>2. ASSUME NEW r \in Requests, GetsToken(r) PROVE TokenInv'
  <2>1. hookToken' = hookToken /\ (built' = built \cup {hookToken} \/ built' = built)
    BY <1>2, Zenon DEF GetsToken
  <2>2. built' \subseteq {hookToken'}
    BY <2>1 DEF TokenInv, TokenStable
  <2> QED BY <2>1, <2>2, StillNone DEF TokenInv, TokenStable
<1> QED BY <1>1, <1>2, TokenChange, WritesTokenNext

LEMMA TokenInit ==
  ASSUME Init
  PROVE  TokenInv
<1>1. \A r \in Requests : Calls(reqs[r].todo) = {}
  BY IdleIsRequest, NoCall DEF Init
<1> QED BY <1>1 DEF Init, TokenInv, TokenStable

\* Every file set that was built has the token the panel accepts (TokenStable), if builds of file
\* sets are handled one at a time.
THEOREM TokenKept ==
  ASSUME {"build"} \in Apart
  PROVE  Spec => []TokenStable
<1>1. KeptApart({"build"}, {"build"})
  <2>1. {"build", "build"} = {"build"}
    OBVIOUS
  <2> QED BY <2>1 DEF KeptApart
<1>2. Init => TokenInv
  BY TokenInit
<1>3. Typed /\ AllApart /\ TokenInv /\ [Next]_vars => TokenInv'
  BY <1>1, TokenNext
<1>4. TokenInv => TokenStable
  BY DEF TokenInv
<1> QED BY <1>2, <1>3, <1>4, TypedHolds, ApartHolds, PTL DEF Spec

(* ----------------------------- sealed secrets ----------------------------- *)

\* No step stores anything in the clear.
LEMMA NoPlaintext ==
  ASSUME Typed, [Next]_vars
  PROVE  Plaintext' \subseteq Plaintext
<1> SUFFICES ASSUME NEW i \in ProfileIds, NEW f \in Fields, secrets'[i][f] = "plaintext"
    PROVE  secrets[i][f] = "plaintext"
  BY DEF Plaintext
<1>1. CASE secrets' = secrets
  BY <1>1
<1>2. ASSUME NEW id, NEW g, NEW s \in {"own", "stranger"}, secrets' = WithSecret(id, g, s)
      PROVE  secrets[i][f] = "plaintext"
  BY <1>2 DEF WithSecret
<1>3. ASSUME NEW ids, secrets' = Purged(ids)
      PROVE  secrets[i][f] = "plaintext"
  BY <1>3 DEF Purged, None
<1> QED BY <1>1, <1>2, <1>3, SecretsNext DEF SecretsStep

\* A panel that was not serving serves because its migration is done or has failed.
LEMMA ServingStarts ==
  ASSUME [Next]_vars, phase # "serving", phase' = "serving"
  PROVE  Serves \/ SealingFails
<1>1. ~Dies /\ ~Starts /\ ~MakesKey /\ ~FillsKey
  BY DEF Dies, Starts, MakesKey, FillsKey
<1>2. ~UNCHANGED vars
  BY DEF vars
<1>3. ~SealsOne
  BY DEF SealsOne, rest, panel
<1>4. ~\E r \in Requests : \E q \in Asks : Arrive(r, q)
  BY Zenon DEF Arrive
<1>5. ~\E r \in Requests : Looks(r) \/ Dropped(r)
  BY Zenon DEF Looks, Dropped, At, ReadsProfile, ChecksUnused, ChecksCertificate, ChecksProvider,
     ChecksDirectory, ChecksKid, ChecksHmac
<1>6. ~\E r \in Requests : Saves(r)
  BY Zenon DEF Saves, At, LoadsKey, WritesKey, StoresField, InsertsProfile, DeletesProfile,
     WritesCert, WritesDirectory, ImportsDoc, WritesKid, WritesHmac, GetsToken, WritesToken
<1> QED BY <1>1, <1>2, <1>3, <1>4, <1>5, <1>6, NextCases, Zenon

\* No step puts a secret in the clear, and a panel whose migration ended without an error
\* starts serving with every secret sealed (SealedAtRest), whatever crash or error
\* interrupted an earlier one.
THEOREM Sealed == Spec => SealedAtRest
<1>1. ASSUME Typed, [Next]_vars
      PROVE  [/\ Plaintext' \subseteq Plaintext
              /\ phase # "serving" /\ phase' = "serving" /\ ~failed' => Plaintext' = {}]_vars
  <2>1. Plaintext' \subseteq Plaintext
    BY <1>1, NoPlaintext
  <2>2. ASSUME phase # "serving", phase' = "serving", ~failed' PROVE Plaintext' = {}
    <3>1. Serves
      BY <1>1, <2>2, ServingStarts DEF SealingFails
    <3> QED BY <2>1, <3>1 DEF Serves, AllSealed
  <2> QED BY <2>1, <2>2
<1> QED BY <1>1, TypedHolds, PTL DEF Spec, SealedAtRest
=============================================================================
