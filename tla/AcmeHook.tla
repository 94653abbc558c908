------------------------------ MODULE AcmeHook ------------------------------
(***************************************************************************)
(* The ACME hook (acme_hook.rs: hook, wait_for_txt_propagation,            *)
(* authoritative_ns_resolvers): Angie asks the panel to publish a          *)
(* challenge, the panel runs the DNS provider's plugin and then polls the  *)
(* zone's name servers until every one of them serves the value, and       *)
(* Angie waits for the answer as long as the generated location says       *)
(* (generator/mod.rs: proxy_read_timeout).                                 *)
(*                                                                         *)
(* Time is in seconds, or in any unit the constants share.  What the code  *)
(* waits for without a limit of its own (the plugin, the discovery of the  *)
(* servers, a round of look-ups) is given a bound as a constant.           *)
(***************************************************************************)
EXTENDS Integers, FiniteSets

CONSTANTS
    Servers,       \* the zone's authoritative name servers
    Timeout,       \* wait_for_txt_propagation: TIMEOUT
    Interval,      \* wait_for_txt_propagation: INTERVAL
    ReadTimeout,   \* proxy_read_timeout of the hook's location
    PluginTime, DiscoveryTime, RoundTime   \* the longest each takes

ASSUME HookAssumption ==
    /\ Timeout \in Nat /\ Interval \in Nat \ {0} /\ ReadTimeout \in Nat
    /\ PluginTime \in Nat /\ DiscoveryTime \in Nat /\ RoundTime \in Nat

\* The longest wait_for_txt_propagation takes: the last sleep and the last round begin
\* when the budget is nearly spent, or the discovery spends it all.
LongestWait ==
    LET polling == Timeout + Interval + RoundTime
        finding == DiscoveryTime + RoundTime
    IN IF polling >= finding THEN polling ELSE finding

\* What the location's timeout leaves for the plugin, which comes before the budget starts.
Margin == ReadTimeout - LongestWait

VARIABLES
    stage,     \* where the handler is; "waiting": Angie has not called, or was answered
    verb,      \* X-Acme-Hook: "add" or "remove"
    elapsed,   \* time since Angie called
    budget,    \* wait_for_txt_propagation's start.elapsed()
    left,      \* what is left of the time of the wait the handler is in
    record,    \* at the provider: "absent" or "present"
    live,      \* servers that serve the value
    found,     \* servers discovered
    checked,   \* servers that answered with the value in this round
    outcome    \* of the last call
hookVars == <<stage, verb, elapsed, budget, left, record, live, found, checked, outcome>>
world == <<record, live>>
clocks == <<elapsed, budget>>

Stages == {"waiting", "plugin", "discovery", "round", "sleep"}
Outcomes == {"none", "refused", "failed", "confirmed", "unconfirmed", "removed", "cut off"}

(* -------------------------------- the call ------------------------------- *)

\* A fresh challenge: no server serves it yet.
Calls(v) ==
    /\ stage = "waiting"
    /\ verb' = v /\ elapsed' = 0 /\ budget' = 0 /\ found' = {} /\ checked' = {}
    /\ IF v = "add" THEN record' = "absent" /\ live' = {} ELSE UNCHANGED world
    /\ \/ stage' = "plugin" /\ left' = PluginTime /\ outcome' = "none"
       \/ outcome' = "refused" /\ UNCHANGED <<stage, left>>

Answers(result) ==
    /\ stage' = "waiting" /\ outcome' = result
    /\ UNCHANGED <<verb, clocks, left, world, found, checked>>

Goal(v) == IF v = "add" THEN "present" ELSE "absent"

\* run_dnsapi.  A plugin that failed may have published the record all the same.
PluginFails ==
    /\ stage = "plugin"
    /\ stage' = "waiting" /\ outcome' = "failed"
    /\ record' \in {record, Goal(verb)}
    /\ UNCHANGED <<verb, clocks, left, live, found, checked>>

\* Only the addition of a record waits for it.
AlwaysWaits(v) == TRUE
Waits(v) == v = "add"

PluginDone ==
    /\ stage = "plugin"
    /\ record' = Goal(verb)
    /\ IF Waits(verb)
       THEN stage' = "discovery" /\ left' = DiscoveryTime /\ budget' = 0 /\ UNCHANGED outcome
       ELSE stage' = "waiting" /\ outcome' = "removed" /\ UNCHANGED <<left, budget>>
    /\ UNCHANGED <<verb, elapsed, live, found, checked>>

(* ------------------------ waiting for propagation ------------------------ *)

\* authoritative_ns_resolvers: a name that cannot be looked up is left out; with none, the
\* recursive resolver is asked, which is no server of the zone.
Discovers ==
    /\ stage = "discovery"
    /\ found' \in SUBSET Servers
    /\ stage' = "round" /\ left' = RoundTime /\ checked' = {}
    /\ UNCHANGED <<verb, clocks, world, outcome>>

\* txt_contains, one server after the other.
SeesTxt(s) ==
    /\ stage = "round" /\ s \in found \ checked /\ s \in live
    /\ checked' = checked \cup {s}
    /\ UNCHANGED <<stage, verb, clocks, left, world, found, outcome>>

AnyLive == checked # {}
AllLive == checked = found

\* With no server known, whether the recursive resolver has the value is anybody's guess.
Confirms == stage = "round" /\ AllLive /\ (found = {} => record = "present") /\ Answers("confirmed")

\* The round found a server without the value, or got no answer.
Misses == found = {} \/ found \ checked # {}

NeverSpent == FALSE
BudgetSpent == budget >= Timeout

GivesUp == stage = "round" /\ Misses /\ BudgetSpent /\ Answers("unconfirmed")

Sleeps ==
    /\ stage = "round" /\ Misses /\ ~BudgetSpent
    /\ stage' = "sleep" /\ left' = Interval
    /\ UNCHANGED <<verb, clocks, world, found, checked, outcome>>

Wakes ==
    /\ stage = "sleep" /\ left = 0
    /\ stage' = "round" /\ left' = RoundTime /\ checked' = {}
    /\ UNCHANGED <<verb, clocks, world, found, outcome>>

(* ------------------------- Angie, time, the servers ---------------------- *)

\* Angie closes the connection; the handler's future is dropped.
CutsOff ==
    /\ stage # "waiting" /\ elapsed > ReadTimeout
    /\ stage' = "waiting" /\ outcome' = "cut off"
    /\ UNCHANGED <<verb, clocks, left, world, found, checked>>

TimePasses ==
    /\ stage # "waiting" /\ left > 0 /\ elapsed <= ReadTimeout
    /\ elapsed' = elapsed + 1
    /\ budget' = IF stage = "plugin" THEN 0 ELSE budget + 1
    /\ left' = left - 1
    /\ UNCHANGED <<stage, verb, world, found, checked, outcome>>

\* The record reaches the servers one by one.
Propagates(s) ==
    /\ record = "present" /\ s \notin live
    /\ live' = live \cup {s}
    /\ UNCHANGED <<stage, verb, clocks, left, record, found, checked, outcome>>

(* ----------------------------- specification ----------------------------- *)

HookInit ==
    /\ stage = "waiting" /\ verb = "add" /\ elapsed = 0 /\ budget = 0 /\ left = 0
    /\ record = "absent" /\ live = {} /\ found = {} /\ checked = {} /\ outcome = "none"

HookWorks ==
    \/ PluginFails \/ PluginDone \/ Discovers
    \/ \E s \in Servers : SeesTxt(s)
    \/ Confirms \/ GivesUp \/ Sleeps \/ Wakes

HookNext ==
    \/ \E v \in {"add", "remove"} : Calls(v)
    \/ HookWorks \/ CutsOff \/ TimePasses
    \/ \E s \in Servers : Propagates(s)

HookSpec == HookInit /\ [][HookNext]_hookVars

(* ------------------------------ properties ------------------------------- *)

\* Every variable has its type, nothing is checked that was not found, and only a record
\* that was published is waited for.
HookTypeOK ==
    /\ stage \in Stages /\ verb \in {"add", "remove"} /\ outcome \in Outcomes
    /\ elapsed \in Nat /\ budget \in Nat /\ left \in Nat
    /\ record \in {"absent", "present"}
    /\ live \subseteq Servers /\ found \subseteq Servers /\ checked \subseteq found
    /\ stage \in {"discovery", "round", "sleep"} => record = "present" /\ verb = "add"

\* "sized above PROPAGATION_TIMEOUT so Angie waits for us" (acme_hook.rs:178): Angie cuts
\* the handler off only if the plugin took longer than the margin.
AnswersInTime == outcome = "cut off" => elapsed - budget > Margin

\* "we require the value on EVERY authoritative server before telling Angie to proceed"
\* (acme_hook.rs:247): when the hook confirms, every server it found serves the value.
ConfirmedIsLive ==
    [][outcome' = "confirmed" /\ stage # "waiting" /\ stage' = "waiting"
       => found \subseteq live /\ record = "present"]_hookVars
=============================================================================
