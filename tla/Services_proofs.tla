--------------------------- MODULE Services_proofs ---------------------------
(***************************************************************************)
(* Proofs about two services that share no state.                          *)
(*                                                                         *)
(* AcmeHook: types, that Angie cuts the handler off only if the plugin     *)
(* took longer than the margin, and that what the hook confirms is live,   *)
(* for every number of servers and every choice of the times.              *)
(*                                                                         *)
(* Health: types, that a host is not probed twice in an interval, and that *)
(* no beat is dropped before its time, for every number of hosts and every *)
(* choice of the intervals.                                                *)
(***************************************************************************)
EXTENDS AcmeHook, Health, FiniteSetTheorems, TLAPS

(* ------------------------------- ACME hook ------------------------------- *)

\* Where the budget stands: no stage can begin so late that it outlasts the longest wait.
Schedule ==
    /\ stage = "plugin" => budget = 0
    /\ stage = "discovery" => budget + left <= DiscoveryTime
    /\ stage = "round" => budget + left <= LongestWait
    /\ stage = "sleep" => budget + left + RoundTime <= LongestWait

HookInv ==
    /\ HookTypeOK
    /\ Schedule
    /\ AnswersInTime
    /\ outcome = "cut off" => stage = "waiting"

\* The longest wait is as long as each of the two ways to spend it.
LEMMA LongestWaitBounds ==
    /\ LongestWait \in Nat
    /\ Timeout + Interval + RoundTime <= LongestWait
    /\ DiscoveryTime + RoundTime <= LongestWait
BY HookAssumption DEF LongestWait

\* A handler that is at work has not used up more than the longest wait.
LEMMA WithinWait == HookTypeOK /\ Schedule /\ stage # "waiting" => budget <= LongestWait
<1>1. HookTypeOK /\ stage = "plugin" /\ budget = 0 => budget <= LongestWait
  BY LongestWaitBounds DEF HookTypeOK
<1>2. HookTypeOK /\ budget + left <= DiscoveryTime => budget <= LongestWait
  BY HookAssumption, LongestWaitBounds DEF HookTypeOK
<1>3. HookTypeOK /\ budget + left <= LongestWait => budget <= LongestWait
  BY LongestWaitBounds DEF HookTypeOK
<1>4. HookTypeOK /\ budget + left + RoundTime <= LongestWait => budget <= LongestWait
  BY HookAssumption, LongestWaitBounds DEF HookTypeOK
<1>5. HookTypeOK => stage \in {"waiting", "plugin", "discovery", "round", "sleep"}
  BY DEF HookTypeOK, Stages
<1> QED BY <1>1, <1>2, <1>3, <1>4, <1>5 DEF Schedule

LEMMA HookInitInv == HookInit => HookInv
BY DEF HookInit, HookInv, HookTypeOK, Stages, Outcomes, Schedule, AnswersInTime

\* Every step keeps the types.
LEMMA HookTypeStep == HookTypeOK /\ [HookNext]_hookVars => HookTypeOK'
<1> SUFFICES ASSUME HookTypeOK, [HookNext]_hookVars PROVE HookTypeOK'
  OBVIOUS
<1>1. ASSUME NEW v \in {"add", "remove"}, Calls(v) PROVE HookTypeOK'
  BY <1>1, HookAssumption DEF Calls, HookTypeOK, Stages, Outcomes, world
<1>2. CASE PluginFails
  BY <1>2 DEF PluginFails, Goal, HookTypeOK, Stages, Outcomes, clocks
<1>3. CASE PluginDone
  <2>1. verb' = verb /\ elapsed' = elapsed /\ live' = live /\ found' = found /\ checked' = checked
    BY <1>3 DEF PluginDone
  <2>2. budget' \in Nat /\ left' \in Nat
    BY <1>3, HookAssumption DEF PluginDone, HookTypeOK
  <2>3. stage' \in Stages /\ outcome' \in Outcomes /\ record' \in {"absent", "present"}
    BY <1>3 DEF PluginDone, HookTypeOK, Goal, Stages, Outcomes
  <2>4. stage' \in {"discovery", "round", "sleep"} => record' = "present" /\ verb = "add"
    BY <1>3 DEF PluginDone, Goal, Waits
  <2> QED BY <2>1, <2>2, <2>3, <2>4 DEF HookTypeOK
<1>4. CASE Discovers
  BY <1>4, HookAssumption DEF Discovers, HookTypeOK, Stages, clocks, world
<1>5. ASSUME NEW s \in Servers, SeesTxt(s) PROVE HookTypeOK'
  BY <1>5 DEF SeesTxt, HookTypeOK, clocks, world
<1>6. CASE Confirms
  BY <1>6 DEF Confirms, Answers, HookTypeOK, Stages, Outcomes, clocks, world
<1>7. CASE GivesUp
  BY <1>7 DEF GivesUp, Answers, HookTypeOK, Stages, Outcomes, clocks, world
<1>8. CASE Sleeps
  BY <1>8, HookAssumption DEF Sleeps, HookTypeOK, Stages, clocks, world
<1>9. CASE Wakes
  BY <1>9, HookAssumption DEF Wakes, HookTypeOK, Stages, clocks, world
<1>10. CASE CutsOff
  BY <1>10 DEF CutsOff, HookTypeOK, Stages, Outcomes, clocks, world
<1>11. CASE TimePasses
  <2>1. /\ stage' = stage /\ verb' = verb /\ record' = record /\ live' = live
        /\ found' = found /\ checked' = checked /\ outcome' = outcome
    BY <1>11 DEF TimePasses, world
  <2>2. elapsed' \in Nat /\ budget' \in Nat /\ left' \in Nat
    BY <1>11 DEF TimePasses, HookTypeOK
  <2> QED BY <2>1, <2>2 DEF HookTypeOK
<1>12. ASSUME NEW s \in Servers, Propagates(s) PROVE HookTypeOK'
  BY <1>12 DEF Propagates, HookTypeOK, clocks
<1>13. CASE UNCHANGED hookVars
  BY <1>13 DEF hookVars, HookTypeOK
<1> QED
  BY <1>1, <1>2, <1>3, <1>4, <1>5, <1>6, <1>7, <1>8, <1>9, <1>10, <1>11, <1>12, <1>13
  DEF HookNext, HookWorks

\* Every step but Angie's keeps to the schedule and cuts nothing off.
LEMMA HookStep == HookInv /\ [HookNext]_hookVars => HookInv'
<1> SUFFICES ASSUME HookInv, [HookNext]_hookVars PROVE HookInv'
  OBVIOUS
<1>a. HookTypeOK /\ HookTypeOK' /\ Schedule
  BY HookTypeStep DEF HookInv
<1>b. stage # "waiting" => outcome # "cut off"
  BY DEF HookInv
<1>c. elapsed \in Nat /\ budget \in Nat /\ left \in Nat
  BY <1>a DEF HookTypeOK
<1>d. ASSUME Schedule', outcome' # "cut off" PROVE HookInv'
  BY <1>a, <1>d DEF HookInv, AnswersInTime
<1>1. ASSUME NEW v \in {"add", "remove"}, Calls(v) PROVE HookInv'
  <2>1. Schedule'
    BY <1>1, <1>c DEF Calls, Schedule
  <2> QED BY <1>1, <1>d, <2>1 DEF Calls
<1>2. CASE PluginFails
  BY <1>2, <1>d DEF PluginFails, Schedule
<1>3. CASE PluginDone
  <2>1. Schedule'
    BY <1>3, HookAssumption DEF PluginDone, Schedule
  <2> QED BY <1>3, <1>b, <1>d, <2>1 DEF PluginDone
<1>4. CASE Discovers
  <2>1. stage' = "round" /\ left' = RoundTime /\ budget' = budget /\ budget + left <= DiscoveryTime
    BY <1>4, <1>a DEF Discovers, Schedule, clocks
  <2>2. budget + RoundTime <= LongestWait
    BY <2>1, <1>c, HookAssumption, LongestWaitBounds
  <2> QED BY <1>4, <1>b, <1>d, <2>1, <2>2 DEF Discovers, Schedule
<1>5. ASSUME NEW s \in Servers, SeesTxt(s) PROVE HookInv'
  <2>1. Schedule'
    BY <1>5, <1>a DEF SeesTxt, Schedule, clocks
  <2> QED BY <1>5, <1>b, <1>d, <2>1 DEF SeesTxt
<1>6. CASE Confirms
  BY <1>6, <1>d DEF Confirms, Answers, Schedule
<1>7. CASE GivesUp
  BY <1>7, <1>d DEF GivesUp, Answers, Schedule
<1>8. CASE Sleeps
  <2>1. stage' = "sleep" /\ left' = Interval /\ budget' = budget /\ budget < Timeout
    BY <1>8, <1>c, HookAssumption DEF Sleeps, BudgetSpent, clocks
  <2>2. budget + Interval + RoundTime <= LongestWait
    BY <2>1, <1>c, HookAssumption, LongestWaitBounds
  <2> QED BY <1>8, <1>b, <1>d, <2>1, <2>2 DEF Sleeps, Schedule
<1>9. CASE Wakes
  <2>1. stage' = "round" /\ left' = RoundTime /\ budget' = budget
        /\ left = 0 /\ budget + left + RoundTime <= LongestWait
    BY <1>9, <1>a DEF Wakes, Schedule, clocks
  <2>2. budget + RoundTime <= LongestWait
    BY <2>1, <1>c, HookAssumption
  <2> QED BY <1>9, <1>b, <1>d, <2>1, <2>2 DEF Wakes, Schedule
<1>10. CASE CutsOff
  <2>1. stage' = "waiting" /\ elapsed' = elapsed /\ budget' = budget /\ elapsed > ReadTimeout
    BY <1>10 DEF CutsOff, clocks
  <2>2. budget <= LongestWait
    BY <1>10, <1>a, WithinWait DEF CutsOff
  <2>3. elapsed' - budget' > ReadTimeout - LongestWait
    BY <2>1, <2>2, <1>c, HookAssumption, LongestWaitBounds
  <2> QED BY <1>a, <2>1, <2>3 DEF HookInv, AnswersInTime, Margin, Schedule
<1>11. CASE TimePasses
  <2>1. stage' = stage /\ outcome' = outcome /\ stage # "waiting" /\ left > 0 /\ left' = left - 1
    BY <1>11 DEF TimePasses
  <2>2. CASE stage = "plugin"
    BY <1>11, <1>b, <1>d, <2>1, <2>2 DEF TimePasses, Schedule
  <2>3. CASE stage # "plugin"
    <3>1. budget' + left' = budget + left
      BY <1>11, <1>c, <2>1, <2>3 DEF TimePasses
    <3>2. budget' + left' + RoundTime = budget + left + RoundTime
      BY <3>1
    <3> QED BY <1>a, <1>b, <1>d, <2>1, <2>3, <3>1, <3>2 DEF Schedule
  <2> QED BY <2>2, <2>3
<1>12. ASSUME NEW s \in Servers, Propagates(s) PROVE HookInv'
  BY <1>12, <1>a DEF Propagates, HookInv, Schedule, AnswersInTime, clocks
<1>13. CASE UNCHANGED hookVars
  BY <1>13, <1>a DEF hookVars, HookInv, Schedule, AnswersInTime
<1> QED
  BY <1>1, <1>2, <1>3, <1>4, <1>5, <1>6, <1>7, <1>8, <1>9, <1>10, <1>11, <1>12, <1>13
  DEF HookNext, HookWorks

\* Every variable of the hook has its type, and only an added record is waited for.
THEOREM HookTypeCorrect == HookSpec => []HookTypeOK
<1>1. HookInv => HookTypeOK BY DEF HookInv
<1> QED BY <1>1, HookInitInv, HookStep, PTL DEF HookSpec

\* "sized above PROPAGATION_TIMEOUT so Angie waits for us" (acme_hook.rs:178): whatever the
\* times are, Angie cuts the handler off only if the plugin took longer than the margin.
THEOREM HookAnswersInTime == HookSpec => []AnswersInTime
<1>1. HookInv => AnswersInTime BY DEF HookInv
<1> QED BY <1>1, HookInitInv, HookStep, PTL DEF HookSpec
\* A server that has answered with the value in a round goes on serving it: nothing takes
\* the record away while a handler waits for it.
SeenIsLive == stage = "round" => checked \subseteq live

LEMMA SeenStep == HookTypeOK /\ SeenIsLive /\ [HookNext]_hookVars => SeenIsLive'
<1> SUFFICES ASSUME HookTypeOK, SeenIsLive, [HookNext]_hookVars, stage' = "round"
             PROVE  checked' \subseteq live'
  BY DEF SeenIsLive
<1>1. ASSUME NEW v \in {"add", "remove"}, Calls(v) PROVE FALSE
  BY <1>1 DEF Calls
<1>2. CASE PluginFails \/ PluginDone \/ Confirms \/ GivesUp \/ Sleeps \/ CutsOff
  BY <1>2 DEF PluginFails, PluginDone, Confirms, GivesUp, Sleeps, CutsOff, Answers
<1>3. CASE Discovers \/ Wakes
  BY <1>3 DEF Discovers, Wakes
<1>4. ASSUME NEW s \in Servers, SeesTxt(s) PROVE checked' \subseteq live'
  BY <1>4 DEF SeesTxt, SeenIsLive, world
<1>5. CASE TimePasses \/ UNCHANGED hookVars
  BY <1>5 DEF TimePasses, SeenIsLive, world, hookVars
<1>6. ASSUME NEW s \in Servers, Propagates(s) PROVE checked' \subseteq live'
  BY <1>6 DEF Propagates, SeenIsLive
<1> QED BY <1>1, <1>2, <1>3, <1>4, <1>5, <1>6 DEF HookNext, HookWorks

\* Only the end of a round confirms.
LEMMA OnlyRoundsConfirm ==
  ASSUME HookTypeOK, [HookNext]_hookVars, outcome' = "confirmed", stage # "waiting",
         stage' = "waiting"
  PROVE  Confirms
<1>1. ASSUME NEW v \in {"add", "remove"}, Calls(v) PROVE FALSE
  BY <1>1 DEF Calls
<1>2. CASE PluginFails \/ PluginDone \/ GivesUp \/ CutsOff
  BY <1>2 DEF PluginFails, PluginDone, GivesUp, CutsOff, Answers
<1>3. CASE Discovers \/ Sleeps \/ Wakes
  BY <1>3 DEF Discovers, Sleeps, Wakes
<1>4. ASSUME NEW s \in Servers, SeesTxt(s) \/ Propagates(s) PROVE FALSE
  BY <1>4 DEF SeesTxt, Propagates
<1>5. CASE TimePasses \/ UNCHANGED hookVars
  BY <1>5 DEF TimePasses, hookVars
<1> QED BY <1>1, <1>2, <1>3, <1>4, <1>5 DEF HookNext, HookWorks

\* When the hook confirms, every server of the zone that it found serves the value, however
\* the record spreads and however many rounds it took (acme_hook.rs:247).
THEOREM HookConfirmsLive == HookSpec => ConfirmedIsLive
<1> DEFINE Confirmed == outcome' = "confirmed" /\ stage # "waiting" /\ stage' = "waiting"
                        => found \subseteq live /\ record = "present"
<1>1. HookInit => SeenIsLive
  BY DEF HookInit, SeenIsLive
<1>2. HookTypeOK /\ SeenIsLive /\ [HookNext]_hookVars => [Confirmed]_hookVars
  BY OnlyRoundsConfirm DEF Confirms, AllLive, SeenIsLive, HookTypeOK
<1>3. HookTypeOK /\ SeenIsLive /\ [HookNext]_hookVars => SeenIsLive'
  BY SeenStep
<1>4. ConfirmedIsLive <=> [][Confirmed]_hookVars
  BY DEF ConfirmedIsLive
<1> HIDE DEF Confirmed
<1> QED BY <1>1, <1>2, <1>3, <1>4, HookTypeCorrect, PTL DEF HookSpec

(* ----------------------------- health checks ----------------------------- *)

\* What is still to be stored in this tick.
Pending == due \cup probing \cup DOMAIN probed

\* A host is in one stage of the tick at a time.
OneStage ==
    /\ due \cap probing = {}
    /\ due \cap DOMAIN probed = {}
    /\ probing \cap DOMAIN probed = {}

HealthInv ==
    /\ HealthTypeOK
    /\ OneStage
    /\ \A h \in Pending : IsDue(h)
    /\ \A h \in DOMAIN probed : probed[h] = 0

\* The constants' sets are finite, and the oldest age is a number.
LEMMA AncientNat == Ancient \in Nat /\ Ancient > Retention
<1>1. Cardinality(Hosts) \in Nat
  BY HealthAssumption, FS_CardinalityType
<1>2. Cardinality(Hosts) * ProbeTimeout \in Nat
  BY <1>1, HealthAssumption
<1> QED BY <1>2, HealthAssumption DEF Ancient

LEMMA OlderIsOlder ==
  ASSUME NEW age \in 0..Ancient
  PROVE  Older(age) \in 0..Ancient /\ Older(age) >= age
BY AncientNat DEF Older

LEMMA HealthInitInv == HealthInit => HealthInv
<1> SUFFICES ASSUME HealthInit PROVE HealthInv
  OBVIOUS
<1>1. DOMAIN probed = {} /\ due = {} /\ probing = {}
  BY DEF HealthInit, NoBeat
<1>2. Cardinality(probing \cup DOMAIN probed) = 0
  BY <1>1, FS_EmptySet
<1>3. HealthTypeOK
  BY <1>1, <1>2, HealthAssumption DEF HealthInit, HealthTypeOK, Sweeps
<1> QED BY <1>1, <1>3 DEF HealthInv, OneStage, Pending

\* A chunk is a set of hosts no larger than allowed.
LEMMA ChunkBound ==
  ASSUME HealthTypeOK, NEW chunk \in SUBSET due,
         Cardinality(chunk) = ChunkSize(Cardinality(due))
  PROVE  Cardinality(chunk) <= MaxConcurrent
<1>1. IsFiniteSet(due)
  BY HealthAssumption, FS_Subset DEF HealthTypeOK
<1>2. Cardinality(due) \in Nat
  BY <1>1, FS_CardinalityType
<1> QED BY <1>2, HealthAssumption DEF ChunkSize

\* Probes and beats in waiting are finitely many.
LEMMA InFlight ==
  ASSUME HealthTypeOK, NEW S, S \subseteq probing \cup DOMAIN probed
  PROVE  Cardinality(S) <= MaxConcurrent
<1>1. IsFiniteSet(probing \cup DOMAIN probed)
  BY HealthAssumption, FS_Subset DEF HealthTypeOK
<1>2. /\ Cardinality(S) <= Cardinality(probing \cup DOMAIN probed)
      /\ Cardinality(S) \in Nat /\ Cardinality(probing \cup DOMAIN probed) \in Nat
  BY <1>1, FS_Subset, FS_CardinalityType
<1> QED BY <1>2, HealthAssumption DEF HealthTypeOK

LEMMA HealthStep == HealthInv /\ [HealthNext]_healthVars => HealthInv'
<1> SUFFICES ASSUME HealthInv, [HealthNext]_healthVars PROVE HealthInv'
  OBVIOUS
<1>t. HealthTypeOK
  BY DEF HealthInv
<1>b. \A h \in Hosts : \A age \in beats[h] : age \in 0..Ancient
  BY <1>t DEF HealthTypeOK
<1>e. DOMAIN NoBeat = {} /\ Cardinality({}) = 0 /\ 0 <= MaxConcurrent
  BY FS_EmptySet, HealthAssumption DEF NoBeat
<1>1. CASE TickStarts
  <2>1. due' \subseteq Hosts /\ probing' = {} /\ DOMAIN probed' = {} /\ beats' = beats
    BY <1>1, <1>e DEF TickStarts
  <2>2. \A h \in due' : IsDue(h)'
    BY <1>1 DEF TickStarts, IsDue
  <2>3. HealthTypeOK'
    BY <1>1, <1>t, <1>e, <2>1 DEF TickStarts, HealthTypeOK, Sweeps
  <2> QED BY <2>1, <2>2, <2>3 DEF HealthInv, OneStage, Pending
<1>2. CASE StartsChunk
  <2>1. PICK chunk \in SUBSET due :
          /\ Cardinality(chunk) = ChunkSize(Cardinality(due))
          /\ probing' = chunk /\ due' = due \ chunk
    BY <1>2 DEF StartsChunk
  <2>2. /\ probed' = probed /\ DOMAIN probed = {} /\ beats' = beats
        /\ hosts' = hosts /\ sweep' = sweep /\ now' = now /\ faults' = faults /\ pause' = ProbeTimeout
    BY <1>2, <1>e DEF StartsChunk
  <2>3. Cardinality(chunk) <= MaxConcurrent
    BY <1>t, <2>1, ChunkBound
  <2>4. probing' \cup DOMAIN probed' = chunk
    BY <2>1, <2>2
  <2>5. HealthTypeOK'
    BY <1>t, <2>1, <2>2, <2>3, <2>4, HealthAssumption DEF HealthTypeOK
  <2>6. Pending' \subseteq Pending
    BY <2>1, <2>2 DEF Pending
  <2>7. \A h \in Pending' : IsDue(h)'
    BY <2>2, <2>6 DEF HealthInv, IsDue
  <2> QED BY <2>1, <2>2, <2>5, <2>7 DEF HealthInv, OneStage
<1>3. ASSUME NEW h \in Hosts, Probed(h) PROVE HealthInv'
  <2>1. /\ h \in probing /\ probing' = probing \ {h} /\ DOMAIN probed' = DOMAIN probed \cup {h}
        /\ \A x \in DOMAIN probed' : probed'[x] = 0
        /\ due' = due /\ beats' = beats /\ hosts' = hosts /\ sweep' = sweep
        /\ now' = now /\ faults' = faults /\ pause' = pause
    BY <1>3 DEF Probed, HealthInv
  <2>2. probing' \cup DOMAIN probed' = probing \cup DOMAIN probed
    BY <2>1
  <2>3. HealthTypeOK'
    BY <1>t, <2>1, <2>2 DEF HealthTypeOK
  <2>4. \A x \in Pending' : IsDue(x)'
    BY <2>1 DEF HealthInv, Pending, IsDue
  <2>5. OneStage'
    BY <2>1 DEF HealthInv, OneStage
  <2> QED BY <2>1, <2>3, <2>4, <2>5 DEF HealthInv
<1>4. ASSUME NEW h \in Hosts, InsertsBeat(h) PROVE HealthInv'
  <2>1. /\ h \in DOMAIN probed /\ probed[h] = 0 /\ DOMAIN probed' = DOMAIN probed \ {h}
        /\ \A x \in DOMAIN probed' : probed'[x] = 0
        /\ due' = due /\ probing' = probing /\ hosts' = hosts /\ sweep' = sweep
        /\ now' = now /\ faults' = faults /\ pause' = pause
        /\ beats' = [beats EXCEPT ![h] = @ \cup {0}]
    BY <1>4 DEF InsertsBeat, HealthInv
  <2>2. Cardinality(probing' \cup DOMAIN probed') <= MaxConcurrent
    BY <1>t, <2>1, InFlight
  <2>3. \A x \in Hosts : beats'[x] \subseteq 0..Ancient
    BY <1>t, <2>1, AncientNat DEF HealthTypeOK
  <2>4. HealthTypeOK'
    BY <1>t, <2>1, <2>2, <2>3 DEF HealthTypeOK
  <2>5. \A x \in Pending' : x # h /\ x \in Pending /\ x \in Hosts
    BY <1>t, <2>1 DEF HealthInv, OneStage, Pending, HealthTypeOK
  <2>6. \A x \in Hosts \ {h} : beats'[x] = beats[x]
    BY <2>1
  <2>7. \A x \in Pending' : IsDue(x)'
    BY <2>5, <2>6 DEF HealthInv, IsDue
  <2>8. OneStage'
    BY <2>1 DEF HealthInv, OneStage
  <2> QED BY <2>1, <2>4, <2>7, <2>8 DEF HealthInv
<1>5. CASE Aborts
  <2>1. due' = {} /\ probing' = {} /\ DOMAIN probed' = {}
    BY <1>5, <1>e DEF Aborts
  <2>2. probing' \cup DOMAIN probed' = {}
    BY <2>1
  <2>3. HealthTypeOK'
    BY <1>5, <1>t, <1>e, <2>1, <2>2, HealthAssumption DEF Aborts, GoesOn, HealthTypeOK, Sweeps
  <2> QED BY <2>1, <2>3 DEF HealthInv, OneStage, Pending
<1>6. CASE AllProbed
  <2>1. HealthTypeOK'
    BY <1>6, <1>t DEF AllProbed, HealthTypeOK, Sweeps
  <2> QED BY <1>6, <2>1 DEF AllProbed, HealthInv, OneStage, Pending, IsDue
<1>7. CASE ReapsOld
  <2>1. /\ due' = due /\ probing' = probing /\ probed' = probed /\ hosts' = hosts
        /\ now' = now /\ faults' = faults /\ pause' = pause /\ sweep' = "orphans"
        /\ \A h \in Hosts : beats'[h] \subseteq beats[h]
    BY <1>7 DEF ReapsOld
  <2>2. HealthTypeOK'
    BY <1>t, <2>1 DEF HealthTypeOK, Sweeps
  <2>3. \A h \in Pending' : h \in Hosts /\ IsDue(h)'
    BY <1>t, <2>1 DEF HealthInv, Pending, IsDue, HealthTypeOK
  <2> QED BY <2>1, <2>2, <2>3 DEF HealthInv, OneStage
<1>8. CASE ReapsOrphans
  <2>1. /\ due' = due /\ probing' = probing /\ probed' = probed /\ hosts' = hosts
        /\ now' = 0 /\ faults' = faults /\ pause' = 1 /\ sweep' = "asleep"
        /\ \A h \in Hosts : beats'[h] \subseteq beats[h]
    BY <1>8 DEF ReapsOrphans
  <2>2. HealthTypeOK'
    BY <1>t, <2>1 DEF HealthTypeOK, Sweeps
  <2>3. \A h \in Pending' : h \in Hosts /\ IsDue(h)'
    BY <1>t, <2>1 DEF HealthInv, Pending, IsDue, HealthTypeOK
  <2> QED BY <2>1, <2>2, <2>3 DEF HealthInv, OneStage
<1>9. ASSUME NEW h \in Hosts, NEW to \in {"absent", "off", "on"}, Edits(h, to) PROVE HealthInv'
  <2>1. HealthTypeOK'
    BY <1>9, <1>t DEF Edits, HealthTypeOK
  <2> QED BY <1>9, <2>1 DEF Edits, HealthInv, OneStage, Pending, IsDue
<1>10. CASE Ticks
  <2>1. /\ due' = due /\ probing' = probing /\ probed' = probed /\ hosts' = hosts
        /\ faults' = faults /\ pause' = pause - 1 /\ pause > 0 /\ sweep' = sweep
        /\ beats' = [h \in Hosts |-> {Older(age) : age \in beats[h]}]
    BY <1>10 DEF Ticks
  <2>2. now' \in Nat /\ pause' \in Nat
    BY <1>10, <1>t DEF Ticks, HealthTypeOK
  <2>3. \A h \in Hosts : \A old \in beats'[h] : \E age \in beats[h] : old = Older(age)
    BY <2>1
  <2>4. \A h \in Hosts : beats'[h] \subseteq 0..Ancient
    BY <1>b, <2>3, OlderIsOlder
  <2>5. HealthTypeOK'
    BY <1>t, <2>1, <2>2, <2>4 DEF HealthTypeOK
  <2>6. ASSUME NEW h \in Pending' PROVE IsDue(h)'
    <3>1. h \in Hosts /\ IsDue(h)
      BY <1>t, <2>1 DEF HealthInv, Pending, HealthTypeOK
    <3> SUFFICES ASSUME NEW old \in beats'[h] PROVE old >= CheckInterval
      BY DEF IsDue
    <3>2. PICK age \in beats[h] : old = Older(age)
      BY <2>3, <3>1
    <3>3. age >= CheckInterval /\ age \in 0..Ancient
      BY <1>b, <3>1 DEF IsDue
    <3> QED BY <3>2, <3>3, OlderIsOlder, HealthAssumption, AncientNat
  <2> QED BY <2>1, <2>5, <2>6 DEF HealthInv, OneStage
<1>11. CASE UNCHANGED healthVars
  BY <1>11 DEF healthVars, HealthInv, HealthTypeOK, OneStage, Pending, IsDue
<1> QED
  BY <1>1, <1>2, <1>3, <1>4, <1>5, <1>6, <1>7, <1>8, <1>9, <1>10, <1>11
  DEF HealthNext, Scheduler

\* Every variable of the scheduler keeps its type, and no more than MaxConcurrent probes
\* are in flight (health.rs: CONCURRENCY).
THEOREM HealthTypeCorrect == HealthSpec => []HealthTypeOK
<1>1. HealthInv => HealthTypeOK
  BY DEF HealthInv
<1> QED BY <1>1, HealthInitInv, HealthStep, PTL DEF HealthSpec

\* Beats of a host are finitely many.
LEMMA FiniteBeats ==
  ASSUME HealthTypeOK, NEW h \in Hosts
  PROVE  IsFiniteSet(beats[h]) /\ Cardinality(beats[h]) \in Nat
<1>1. Ancient \in Int
  BY AncientNat
<1>2. IsFiniteSet(0..Ancient)
  BY <1>1, FS_Interval
<1>3. IsFiniteSet(beats[h])
  BY <1>2, FS_Subset DEF HealthTypeOK
<1> QED BY <1>3, FS_CardinalityType

\* Ageing merges beats at most.
LEMMA AgeingAddsNone ==
  ASSUME HealthTypeOK, NEW h \in Hosts
  PROVE  ~(Cardinality({Older(age) : age \in beats[h]}) > Cardinality(beats[h]))
<1> DEFINE S == beats[h]
           T == {Older(age) : age \in S}
           f == [age \in S |-> Older(age)]
<1>1. f \in Surjection(S, T)
  BY DEF Surjection
<1>2. IsFiniteSet(T) /\ Cardinality(T) <= Cardinality(S)
  BY <1>1, FiniteBeats, FS_Surjection
<1> QED BY <1>2, FiniteBeats, FS_CardinalityType

\* A smaller set of beats, or the same, is not more of them.
LEMMA FewerBeats ==
  ASSUME HealthTypeOK, NEW h \in Hosts, NEW S, S \subseteq beats[h]
  PROVE  ~(Cardinality(S) > Cardinality(beats[h]))
<1>1. IsFiniteSet(S) /\ Cardinality(S) <= Cardinality(beats[h])
  BY FiniteBeats, FS_Subset
<1> QED BY <1>1, FiniteBeats, FS_CardinalityType

\* "a tick asks the database when each check last ran and runs the ones that are due"
\* (health.rs:16): no beat comes within an interval of the one before it, whatever was
\* restarted, aborted, edited and reaped.
THEOREM ChecksAreSpaced == HealthSpec => BeatsSpaced
<1> DEFINE Spaced == \A h \in Hosts :
             Cardinality(beats'[h]) > Cardinality(beats[h]) => \A age \in beats[h] : age >= CheckInterval
<1>1. HealthInv /\ [HealthNext]_healthVars => [Spaced]_healthVars
  <2> SUFFICES ASSUME HealthInv, [HealthNext]_healthVars, NEW h \in Hosts,
                      Cardinality(beats'[h]) > Cardinality(beats[h])
               PROVE  \A age \in beats[h] : age >= CheckInterval
    OBVIOUS
  <2>t. HealthTypeOK
    BY DEF HealthInv
  <2>1. ~(beats'[h] \subseteq beats[h])
    BY <2>t, FewerBeats
  <2>2. CASE Ticks
    <3>1. beats'[h] = {Older(age) : age \in beats[h]}
      BY <2>2 DEF Ticks
    <3> QED BY <2>t, <3>1, AgeingAddsNone
  <2>3. ASSUME NEW g \in Hosts, InsertsBeat(g) PROVE IsDue(h)
    <3>1. g = h
      BY <2>1, <2>3, <2>t DEF InsertsBeat, HealthTypeOK
    <3> QED BY <2>3, <3>1 DEF InsertsBeat, HealthInv, Pending
  <2>4. ~(ReapsOld \/ ReapsOrphans)
    BY <2>1 DEF ReapsOld, ReapsOrphans
  <2>5. beats' # beats
    BY <2>1
  <2> QED
    BY <2>2, <2>3, <2>4, <2>5
    DEF HealthNext, Scheduler, healthVars, TickStarts, StartsChunk, AllProbed, Probed, Aborts,
        Edits, IsDue
<1> QED BY <1>1, HealthInitInv, HealthStep, PTL DEF HealthSpec, BeatsSpaced

\* "Drop beats older than cutoff" (repo.rs:2105): however long a tick takes, no beat of a
\* host that exists goes before its retention is over.
THEOREM HistoryIsKept == HealthSpec => HistoryKept
<1> DEFINE Kept == \A h \in Hosts : \A age \in beats[h] :
             hosts[h] # "absent" /\ age <= Retention => beats'[h] \cap {age, Older(age)} # {}
<1>1. HealthInv /\ [HealthNext]_healthVars => [Kept]_healthVars
  <2> SUFFICES ASSUME HealthInv, [HealthNext]_healthVars, NEW h \in Hosts, NEW age \in beats[h],
                      hosts[h] # "absent", age <= Retention
               PROVE  age \in beats'[h] \/ Older(age) \in beats'[h]
    OBVIOUS
  <2>t. HealthTypeOK
    BY DEF HealthInv
  <2>1. CASE Ticks
    BY <2>1 DEF Ticks
  <2>2. ASSUME NEW g \in Hosts, InsertsBeat(g) PROVE age \in beats'[h]
    BY <2>2, <2>t DEF InsertsBeat, HealthTypeOK
  <2>3. CASE ReapsOld
    <3>1. age \in Nat /\ now \in Nat
      BY <2>t, AncientNat DEF HealthTypeOK
    <3>2. ~TooOld(age)
      BY <3>1, HealthAssumption DEF TooOld
    <3> QED BY <2>3, <3>2 DEF ReapsOld
  <2>4. CASE ReapsOrphans
    BY <2>4 DEF ReapsOrphans
  <2> QED
    BY <2>1, <2>2, <2>3, <2>4
    DEF HealthNext, Scheduler, healthVars, TickStarts, StartsChunk, AllProbed, Probed, Aborts, Edits
<1> QED BY <1>1, HealthInitInv, HealthStep, PTL DEF HealthSpec, HistoryKept
=============================================================================
