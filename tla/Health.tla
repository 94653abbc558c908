-------------------------------- MODULE Health --------------------------------
(***************************************************************************)
(* The availability checks (health.rs, repo.rs): a tick asks the database  *)
(* which checks are due, probes them a few at a time, stores a beat for    *)
(* each and reaps the beats that are old or belong to no host.             *)
(*                                                                         *)
(* A beat is represented by its age.  Every host has one check; time is in *)
(* ticks of the scheduler, and restarts and failed writes use up a common  *)
(* number of faults.                                                       *)
(***************************************************************************)
EXTENDS Integers, FiniteSets

CONSTANTS
    Hosts,          \* ids of proxy hosts
    CheckInterval,  \* between two probes of a host
    Retention,      \* the age beats are kept to
    ProbeTimeout,   \* the longest a probe takes
    MaxConcurrent,  \* probes in flight
    MaxFaults       \* bound on restarts and failed writes

ASSUME HealthAssumption ==
    /\ IsFiniteSet(Hosts)
    /\ CheckInterval \in Nat \ {0} /\ Retention \in Nat \ {0} /\ ProbeTimeout \in Nat
    /\ MaxConcurrent \in Nat \ {0} /\ MaxFaults \in Nat

VARIABLES
    hosts,    \* each host: "absent", "off" or "on"
    beats,    \* health_beats: the ages of the beats of each host id
    sweep,    \* where the scheduler is
    due,      \* hosts still to be probed in this tick
    probing,  \* hosts whose probe is in flight
    probed,   \* hosts whose probe is over and whose beat is not stored: host to its age
    now,      \* time since this tick read the clock
    pause,    \* until the next tick, or until the probes time out
    faults
healthVars == <<hosts, beats, sweep, due, probing, probed, now, pause, faults>>

NoBeat == [h \in {} |-> 0]
Sweeps == {"asleep", "probing", "old", "orphans"}
\* A beat this old is older than any cut-off a tick in progress may use.
Ancient == Retention + (Cardinality(Hosts) * ProbeTimeout) + 1

(* --------------------------------- a tick -------------------------------- *)

AlwaysDue(h) == TRUE
IsDue(h) == \A age \in beats[h] : age >= CheckInterval

\* The hosts and the last beat of each are read before the first probe.
TickStarts ==
    /\ sweep = "asleep" /\ pause = 0
    /\ due' = {h \in Hosts : hosts[h] = "on" /\ IsDue(h)}
    /\ now' = 0 /\ sweep' = "probing" /\ probing' = {} /\ probed' = NoBeat
    /\ UNCHANGED <<hosts, beats, pause, faults>>

ChunkSize(n) == IF n < MaxConcurrent THEN n ELSE MaxConcurrent

\* The next chunk of MaxConcurrent, when the last one is done.
StartsChunk ==
    /\ sweep = "probing" /\ probing = {} /\ probed = NoBeat /\ due # {}
    /\ \E chunk \in SUBSET due :
        /\ Cardinality(chunk) = ChunkSize(Cardinality(due))
        /\ probing' = chunk /\ due' = due \ chunk
    /\ pause' = ProbeTimeout
    /\ UNCHANGED <<hosts, beats, sweep, probed, now, faults>>

\* probe: an answer or the timeout; the beat has the time it ended at.
Probed(h) ==
    /\ sweep = "probing" /\ h \in probing
    /\ probing' = probing \ {h}
    /\ probed' = [x \in DOMAIN probed \cup {h} |-> IF x = h THEN 0 ELSE probed[x]]
    /\ UNCHANGED <<hosts, beats, sweep, due, now, pause, faults>>

InsertsBeat(h) ==
    /\ sweep = "probing" /\ h \in DOMAIN probed
    /\ beats' = [beats EXCEPT ![h] = @ \cup {probed[h]}]
    /\ probed' = [x \in DOMAIN probed \ {h} |-> probed[x]]
    /\ UNCHANGED <<hosts, sweep, due, probing, now, pause, faults>>

Ended == "ended"
GoesOn == "asleep"

\* A write that fails ends the tick, which is only logged: the probes in flight are
\* aborted and nothing is reaped.  So does a restart, after which the first tick waits.
Aborts ==
    /\ faults < MaxFaults /\ faults' = faults + 1
    /\ sweep' = GoesOn /\ pause' = 1
    /\ due' = {} /\ probing' = {} /\ probed' = NoBeat /\ now' = 0
    /\ UNCHANGED <<hosts, beats>>

AllProbed ==
    /\ sweep = "probing" /\ due = {} /\ probing = {} /\ probed = NoBeat
    /\ sweep' = "old"
    /\ UNCHANGED <<hosts, beats, due, probing, probed, now, pause, faults>>

\* reap_beats: the cut-off counts from the start of the tick.
Stale(age) == age - now >= CheckInterval
TooOld(age) == age - now > Retention

ReapsOld ==
    /\ sweep = "old" /\ sweep' = "orphans"
    /\ beats' = [h \in Hosts |-> {age \in beats[h] : ~TooOld(age)}]
    /\ UNCHANGED <<hosts, due, probing, probed, now, pause, faults>>

ReapsOrphans ==
    /\ sweep = "orphans" /\ sweep' = "asleep" /\ pause' = 1 /\ now' = 0
    /\ beats' = [h \in Hosts |-> IF hosts[h] = "absent" THEN {} ELSE beats[h]]
    /\ UNCHANGED <<hosts, due, probing, probed, faults>>

(* ------------------------- the operator and the clock -------------------- *)

\* A host is made, switched on or off, or deleted; its beats stay, and a host made later
\* may get the same id.
Edits(h, to) ==
    /\ hosts[h] # to /\ (hosts[h] = "absent" => to = "on")
    /\ hosts' = [hosts EXCEPT ![h] = to]
    /\ UNCHANGED <<beats, sweep, due, probing, probed, now, pause, faults>>

Older(age) == IF age = Ancient THEN age ELSE age + 1

\* Beats are stored, and a tick goes on, within the unit the probe ended in.
Ticks ==
    /\ pause > 0 /\ probed = NoBeat
    /\ sweep = "asleep" \/ probing # {}
    /\ pause' = pause - 1
    /\ now' = IF sweep = "asleep" THEN 0 ELSE now + 1
    /\ beats' = [h \in Hosts |-> {Older(age) : age \in beats[h]}]
    /\ UNCHANGED <<hosts, sweep, due, probing, probed, faults>>

(* ----------------------------- specification ----------------------------- *)

HealthInit ==
    /\ hosts \in [Hosts -> {"absent", "on"}] /\ beats = [h \in Hosts |-> {}]
    /\ sweep = "asleep" /\ due = {} /\ probing = {} /\ probed = NoBeat
    /\ now = 0 /\ pause = 1 /\ faults = 0

Scheduler ==
    \/ TickStarts \/ StartsChunk \/ AllProbed \/ ReapsOld \/ ReapsOrphans
    \/ \E h \in Hosts : Probed(h) \/ InsertsBeat(h)

HealthNext ==
    \/ Scheduler \/ Aborts \/ Ticks
    \/ \E h \in Hosts, to \in {"absent", "off", "on"} : Edits(h, to)

HealthSpec == HealthInit /\ [][HealthNext]_healthVars
\* The clock goes on, and so does the scheduler's task.
HealthFairness == WF_healthVars(Ticks) /\ WF_healthVars(Scheduler)

(* ------------------------------ properties ------------------------------- *)

\* Every variable has its type, and no more probes than allowed are in flight.
HealthTypeOK ==
    /\ hosts \in [Hosts -> {"absent", "off", "on"}]
    /\ \A h \in Hosts : beats[h] \subseteq 0..Ancient
    /\ sweep \in Sweeps /\ due \subseteq Hosts /\ probing \subseteq Hosts
    /\ DOMAIN probed \subseteq Hosts
    /\ Cardinality(probing \cup DOMAIN probed) <= MaxConcurrent
    /\ now \in Nat /\ pause \in Nat /\ faults \in 0..MaxFaults

\* "a tick asks the database when each check last ran and runs the ones that are due.
\* Nothing to rebuild after a restart" (health.rs:16): a beat is only added when the one
\* before it is an interval old, over restarts, aborted ticks, edits and reaping.
BeatsSpaced ==
    [][\A h \in Hosts :
        Cardinality(beats'[h]) > Cardinality(beats[h]) => \A age \in beats[h] : age >= CheckInterval
      ]_healthVars

\* "Drop beats older than cutoff" (repo.rs:2105): a beat of a host that exists is not
\* dropped before its retention is over, however long the tick took.
HistoryKept ==
    [][\A h \in Hosts : \A age \in beats[h] :
        hosts[h] # "absent" /\ age <= Retention => beats'[h] \cap {age, Older(age)} # {}
      ]_healthVars

\* A host that is switched on, and stays so, is probed again and again.
ChecksRun == \A h \in Hosts : hosts[h] = "on" ~> 0 \in beats[h] \/ hosts[h] # "on"
=============================================================================
