------------------------ MODULE ApplyOutcome_proofs ------------------------
(***************************************************************************)
(* Proofs about what an apply leaves behind, for every value of the        *)
(* constants: a restore is exact, what a report says is what the files     *)
(* hold and what Angie serves, and the helper implements AtomicApply.      *)
(***************************************************************************)
EXTENDS ApplyRefinement, ApplyHelper_proofs

(* The file under a name, as capture sees it.                              *)
Kept(n) == IF live[n] \in Bodies THEN live[n] ELSE NoFile

(* The managed files of S are those of t.                                  *)
Landed(S, t) == \A n \in S : Kept(n) = t[n]

(* What a restore has dealt with is as in its manifest: the names of the   *)
(* directory it is in that it has not still to remove or to write, and     *)
(* http.d once it is in stream.d.                                          *)
RestoreProgress ==
    /\ manage /\ pc["apply"] \in Mutating => StreamNames \subseteq DOMAIN snap["apply"]
    /\ pc["recover"] = "rb_reload" => snap["recover"] = backup
    /\ \A a \in Restorers :
        /\ pc[a] = "restoring" =>
              /\ \A n \in dels[a] : snap[a][n] = NoFile
              /\ \A n \in wrts[a] : snap[a][n] \in Bodies
              /\ Landed(DirNames(dir[a]) \ (dels[a] \cup wrts[a]), snap[a])
        /\ pc[a] \in {"restore", "restoring"} /\ dir[a] = "stream" =>
              Landed(HttpNames, snap[a])
        /\ pc[a] = "rb_reload" => Landed(DOMAIN snap[a], snap[a])

(* The same for the sync and the loaded set, up to the reload.             *)
SyncProgress ==
    /\ pc["apply"] # "idle" /\ ~manage => ~HasStreams(staged)
    /\ pc["apply"] = "snap_stream" => dir["apply"] = "http"
    /\ pc["apply"] = "files" =>
          /\ \A n \in dels["apply"] : staged[n] = NoFile
          /\ \A n \in wrts["apply"] : staged[n] \in Bodies
          /\ Landed(DirNames(dir["apply"]) \ (dels["apply"] \cup wrts["apply"]), staged)
    /\ pc["apply"] \in {"scan", "files"} /\ dir["apply"] = "stream" =>
          Landed(HttpNames, staged)
    /\ pc["apply"] \in {"test_live", "baseline", "reload", "verify"} =>
          Landed(Names, staged)

(* The draft says how far the helper came, and a success or a rollback in  *)
(* it is one of the files.                                                 *)
Reporting ==
    /\ pc["apply"] \notin Unmarked => marker
    /\ pc["apply"] \in Mutating => open
    /\ pc["apply"] = "reject" => draft = "rejected"
    /\ pc["apply"] \in {"restore", "restoring", "rb_reload"} => draft = "torn"
    /\ pc["apply"] \in {"report", "clear"} =>
          /\ draft \in {"ok", "undone", "torn"}
          /\ draft = "ok" => Landed(Names, staged)
          /\ draft = "undone" => Landed(Names, pre)
    /\ pc["apply"] = "clear" => report = draft

(* From the reload on Angie runs, and a generation newer than the one the  *)
(* helper read was loaded from the files it synced.                        *)
Serving ==
    /\ pc["apply"] = "verify" => running # Down
    /\ pc["apply"] \in {"reload", "verify"} /\ gen = "newer" => Agrees
    /\ pc["apply"] \in {"report", "clear"} /\ draft = "ok" =>
          running # Down /\ (gen = "newer" => Agrees)

(* The inductive invariant behind the three theorems and the refinement.   *)
OutcomeInv ==
    /\ RecoverInv
    /\ RestoreProgress /\ SyncProgress /\ Reporting /\ Serving
(* Whether all of a tree has landed is a matter of its managed part.       *)
LEMMA LandedIsManaged ==
    ASSUME TypeOK, NEW t \in ManagedTrees
    PROVE  Landed(Names, t) <=> Managed(live) = t
  BY DEF TypeOK, Landed, Kept, Managed, Trees, ManagedTrees


(* A name of a directory is a name, and a loaded or captured file is       *)
(* managed or absent.                                                      *)
LEMMA FileKinds ==
    /\ NoFile \notin Bodies /\ Foreign \notin Bodies /\ Foreign # NoFile
    /\ \A d : DirNames(d) \subseteq Names
    /\ \A t \in ManagedTrees, n \in Names : t[n] \in Bodies \cup {NoFile}
    /\ \A m \in Manifests : \A n \in DOMAIN m : n \in Names /\ m[n] \in Bodies \cup {NoFile}
  BY ConstantsAssumption DEF DirNames, Names, ManagedTrees, Manifests


(* Every file the sync removes or writes ends as the loaded set has it,    *)
(* and no later step before the reload changes one.                        *)
LEMMA SyncNext ==
    ASSUME "recover" \notin Overlaps, OutcomeInv, RecoverInv', [Next]_vars
    PROVE  SyncProgress'
<1>0. RecoverInv /\ TypeOK /\ TypeOK' /\ LoopOK /\ Alone
  BY DEF OutcomeInv, RecoverInv
<1> USE <1>0 DEF SyncProgress, Landed, Kept, OutcomeInv, TypeOK, LoopOK, Alone,
           Actors, Restorers, etc, data, angie, loop, memory, history
<1>1. CASE Load
  BY <1>1 DEF Load, Go, Idle, Managed
<1>2. CASE StreamGate
  BY <1>2 DEF StreamGate, Reject, Go, At
<1>3. CASE Lint
  BY <1>3 DEF Lint, Reject, Go, At
<1>4. CASE TestStaged
  BY <1>4 DEF TestStaged, Reject, Go, At
<1>5. CASE WriteRejection
  BY <1>5 DEF WriteRejection, End, ForgetLoop, ForgetMemory, At
<1>6. CASE SetMarker
  BY <1>6 DEF SetMarker, Go, At
<1>7. CASE SnapshotHttp
  BY <1>7 DEF SnapshotHttp, SnapshotsStreams, Go, At
<1>8. CASE SnapshotStream
  BY <1>8 DEF SnapshotStream, Go, At
<1>9. CASE SyncScan
  <2>1. CASE pc'["apply"] = "restore"
    BY <1>9, <2>1 DEF SyncScan, Fail, Go, At
  <2>2. CASE pc'["apply"] # "restore"
    <3>1. /\ pc'["apply"] = "files" /\ live' = live /\ dir' = dir
          /\ staged' = staged /\ manage' = manage
          /\ dels'["apply"] = Stale(dir["apply"], staged)
          /\ wrts'["apply"] = {n \in DirNames(dir["apply"]) : staged[n] # NoFile}
      BY <1>9, <2>2 DEF SyncScan, Fail, Go, At, Wanted
    <3>2. \A n \in DirNames(dir["apply"]) : staged[n] \in Bodies \cup {NoFile}
      BY FileKinds
    <3>3. \A n \in wrts'["apply"] : staged[n] \in Bodies
      BY <3>1, <3>2
    <3>4. \A n \in dels'["apply"] : staged[n] = NoFile
      BY <3>1 DEF Stale
    <3>5. \A n \in DirNames(dir["apply"]) \ (dels'["apply"] \cup wrts'["apply"]) :
             Kept(n)' = staged[n]
      BY <3>1 DEF Stale
    <3>6. QED
      BY <1>9, <3>1, <3>3, <3>4, <3>5 DEF SyncScan, At
  <2>3. QED
    BY <2>1, <2>2
<1>10. CASE SyncRemove
  <2>1. PICK m \in dels["apply"] :
          live' = [live EXCEPT ![m] = NoFile] /\ dels' = [dels EXCEPT !["apply"] = @ \ {m}]
    BY <1>10 DEF SyncRemove, RemoveOne
  <2>2. /\ pc["apply"] = "files" /\ pc' = pc /\ dir' = dir /\ wrts' = wrts
        /\ staged' = staged /\ manage' = manage
    BY <1>10 DEF SyncRemove, RemoveOne, At
  <2>3. m \in Names /\ m \in DirNames(dir["apply"]) /\ staged[m] = NoFile
    BY <2>1, <2>2, FileKinds
  <2>4. Kept(m)' = staged[m]
    BY <2>1, <2>3, FileKinds DEF Trees
  <2>5. \A n \in Names \ {m} : Kept(n)' = Kept(n)
    BY <2>1 DEF Trees
  <2>6. HttpNames \subseteq Names
    BY DEF Names
  <2>7. QED
    BY <2>1, <2>2, <2>3, <2>4, <2>5, <2>6, FileKinds
<1>11. CASE SyncWrite
  <2>1. PICK m \in wrts["apply"] :
          live' = [live EXCEPT ![m] = staged[m]] /\ wrts' = [wrts EXCEPT !["apply"] = @ \ {m}]
    BY <1>11 DEF SyncWrite, Wanted
  <2>2. /\ pc["apply"] = "files" /\ pc' = pc /\ dir' = dir /\ dels' = dels
        /\ staged' = staged /\ manage' = manage
    BY <1>11 DEF SyncWrite, At
  <2>3. m \in Names /\ m \in DirNames(dir["apply"]) /\ staged[m] \in Bodies
    BY <2>1, <2>2, FileKinds
  <2>4. Kept(m)' = staged[m]
    BY <2>1, <2>3, FileKinds DEF Trees
  <2>5. \A n \in Names \ {m} : Kept(n)' = Kept(n)
    BY <2>1 DEF Trees
  <2>6. HttpNames \subseteq Names
    BY DEF Names
  <2>7. QED
    BY <2>1, <2>2, <2>3, <2>4, <2>5, <2>6, FileKinds
<1>12. CASE SyncDirDone
  <2>1. /\ pc["apply"] = "files" /\ dels["apply"] = {} /\ wrts["apply"] = {}
        /\ live' = live /\ staged' = staged /\ manage' = manage /\ dels' = dels /\ wrts' = wrts
    BY <1>12 DEF SyncDirDone, At
  <2>2. \A n \in DirNames(dir["apply"]) : Kept(n) = staged[n]
    BY <2>1
  <2>3. CASE dir["apply"] = "http" /\ manage
    BY <1>12, <2>1, <2>2, <2>3 DEF SyncDirDone, Go, At, DirNames
  <2>4. CASE dir["apply"] = "http" /\ ~manage
    <3>1. \A n \in StreamNames : live[n] = NoFile /\ staged[n] = NoFile
      BY <2>1, <2>4 DEF RecoverInv, NoStreams, HasStreams
    <3>2. \A n \in Names : Kept(n) = staged[n]
      BY <2>2, <2>4, <3>1, FileKinds DEF DirNames, Names
    <3>3. pc'["apply"] = "test_live" /\ \A a \in Restorers : dir'[a] = dir[a]
      BY <1>12, <2>4 DEF SyncDirDone, Go, At
    <3>4. QED
      BY <2>1, <3>2, <3>3
  <2>5. CASE dir["apply"] = "stream"
    <3>1. \A n \in Names : Kept(n) = staged[n]
      BY <2>1, <2>2, <2>5 DEF DirNames, Names
    <3>2. pc'["apply"] = "test_live"
      BY <1>12, <2>5 DEF SyncDirDone, Go, At
    <3>3. QED
      BY <2>1, <3>1, <3>2
  <2>6. QED
    BY <2>3, <2>4, <2>5
<1>13. CASE SyncFault
  BY <1>13 DEF SyncFault, Fail, Go
<1>14. CASE TestLive
  BY <1>14 DEF TestLive, Fail, Go, At
<1>15. CASE ReadBaseline
  BY <1>15 DEF ReadBaseline, Go, At
<1>16. CASE Reload
  BY <1>16 DEF Reload, ReloadAnswer, Fail, Go, At
<1>17. CASE VerifyOk
  BY <1>17 DEF VerifyOk, Go, At
<1>18. CASE VerifyTimeout
  BY <1>18 DEF VerifyTimeout, Fail, Go, At
<1>19. ASSUME NEW a \in Restorers, RestoreScan(a) PROVE SyncProgress'
  BY <1>19 DEF RestoreScan, Go, At, Stale
<1>20. ASSUME NEW a \in Restorers, RestoreRemove(a) PROVE SyncProgress'
  BY <1>20 DEF RestoreRemove, RemoveOne, At
<1>21. ASSUME NEW a \in Restorers, RestoreWrite(a) PROVE SyncProgress'
  BY <1>21 DEF RestoreWrite, At
<1>22. ASSUME NEW a \in Restorers, RestoreDirDone(a) PROVE SyncProgress'
  BY <1>22 DEF RestoreDirDone, StreamsNext, Go, At
<1>23. ASSUME NEW a \in Restorers, RestoreFails(a) PROVE SyncProgress'
  BY <1>23 DEF RestoreFails, Go, End, ForgetLoop, ForgetMemory
<1>24. CASE RollbackReload
  BY <1>24 DEF RollbackReload, ReloadAnswer, Go, At
<1>25. CASE WriteReport
  BY <1>25 DEF WriteReport, Go, At
<1>26. CASE ClearMarker
  BY <1>26 DEF ClearMarker, End, ForgetLoop, ForgetMemory, At
<1>27. CASE PanelStarts
  BY <1>27 DEF PanelStarts, Go, Idle
<1>28. CASE RecoverTest
  BY <1>28 DEF RecoverTest, Go, At
<1>29. CASE RecoverReload
  BY <1>29 DEF RecoverReload, ReloadAnswer, Go, At
<1>30. CASE RecoverClear
  BY <1>30 DEF RecoverClear, End, ForgetLoop, ForgetMemory, At
<1>31. CASE EnableStreams
  BY <1>31 DEF EnableStreams, Go, Idle
<1>32. CASE EnableTest
  BY <1>32 DEF EnableTest, Go, At
<1>33. CASE EnableReload
  BY <1>33 DEF EnableReload, ReloadAnswer, Go, At
<1>34. CASE AngieReloads
  BY <1>34 DEF AngieReloads
<1>35. CASE Stage
  BY <1>35 DEF Stage
<1>36. CASE OperatorEdits
  BY <1>36 DEF OperatorEdits, Idle
<1>37. ASSUME NEW a \in Actors, Dies(a) PROVE SyncProgress'
  BY <1>37 DEF Dies, End, ForgetLoop, ForgetMemory
<1>38. CASE PowerFails
  BY <1>38 DEF PowerFails, End, ForgetLoop, ForgetMemory
<1>39. CASE UNCHANGED vars
  BY <1>39 DEF vars
<1>40. QED
  BY <1>1, <1>2, <1>3, <1>4, <1>5, <1>6, <1>7, <1>8, <1>9, <1>10, <1>11, <1>12,
     <1>13, <1>14, <1>15, <1>16, <1>17, <1>18, <1>19, <1>20, <1>21, <1>22, <1>23, <1>24,
     <1>25, <1>26, <1>27, <1>28, <1>29, <1>30, <1>31, <1>32, <1>33, <1>34, <1>35, <1>36,
     <1>37, <1>38, <1>39
     DEF Next, ApplyStep, RecoverStep, EnableStep, Environment, Restore

(* Every file a restore removes or writes ends as the manifest has it: the *)
(* names it passes over are so already.                                    *)
LEMMA RestoreNext ==
    ASSUME "recover" \notin Overlaps, OutcomeInv, RecoverInv', [Next]_vars
    PROVE  RestoreProgress'
<1>0. RecoverInv /\ TypeOK /\ TypeOK' /\ LoopOK /\ Alone
  BY DEF OutcomeInv, RecoverInv
<1> USE <1>0 DEF RestoreProgress, Landed, Kept, OutcomeInv, TypeOK, LoopOK, Alone,
           Actors, Restorers, Mutating, etc, data, angie, loop, memory, history
<1>1. CASE Load
  BY <1>1 DEF Load, Go, Idle, Managed
<1>2. CASE StreamGate
  BY <1>2 DEF StreamGate, Reject, Go, At
<1>3. CASE Lint
  BY <1>3 DEF Lint, Reject, Go, At
<1>4. CASE TestStaged
  BY <1>4 DEF TestStaged, Reject, Go, At
<1>5. CASE WriteRejection
  BY <1>5 DEF WriteRejection, End, ForgetLoop, ForgetMemory, At
<1>6. CASE SetMarker
  BY <1>6 DEF SetMarker, Go, At
<1>7. CASE SnapshotHttp
  BY <1>7 DEF SnapshotHttp, SnapshotsStreams, Go, At
<1>8. CASE SnapshotStream
  <2>1. DOMAIN snap'["apply"] = Names
    BY <1>8 DEF SnapshotStream
  <2>2. StreamNames \subseteq DOMAIN snap'["apply"]
    BY <2>1 DEF Names
  <2>3. QED
    BY <1>8, <2>2 DEF SnapshotStream, Go, At
<1>9. CASE SyncScan
  BY <1>9 DEF SyncScan, Fail, Go, At, Stale
<1>10. CASE SyncRemove
  BY <1>10 DEF SyncRemove, RemoveOne, At
<1>11. CASE SyncWrite
  BY <1>11 DEF SyncWrite, At
<1>12. CASE SyncDirDone
  BY <1>12 DEF SyncDirDone, Go, At
<1>13. CASE SyncFault
  BY <1>13 DEF SyncFault, Fail, Go
<1>14. CASE TestLive
  BY <1>14 DEF TestLive, Fail, Go, At
<1>15. CASE ReadBaseline
  BY <1>15 DEF ReadBaseline, Go, At
<1>16. CASE Reload
  BY <1>16 DEF Reload, ReloadAnswer, Fail, Go, At
<1>17. CASE VerifyOk
  BY <1>17 DEF VerifyOk, Go, At
<1>18. CASE VerifyTimeout
  BY <1>18 DEF VerifyTimeout, Fail, Go, At
<1>19. ASSUME NEW a \in Restorers, RestoreScan(a) PROVE RestoreProgress'
  <2>1. /\ pc[a] = "restore" /\ pc' = [pc EXCEPT ![a] = "restoring"]
        /\ live' = live /\ dir' = dir /\ snap' = snap /\ manage' = manage /\ backup' = backup
        /\ dels'[a] = Stale(dir[a], snap[a])
        /\ wrts'[a] = {n \in DirNames(dir[a]) : snap[a][n] # NoFile /\ live[n] # snap[a][n]}
        /\ \A b \in Restorers \ {a} : dels'[b] = dels[b] /\ wrts'[b] = wrts[b]
    BY <1>19 DEF RestoreScan, Go, At
  <2>2. DirNames(dir[a]) \subseteq DOMAIN snap[a]
    BY <2>1, ManifestDomain DEF DirNames
  <2>3. \A n \in DirNames(dir[a]) : snap[a][n] \in Bodies \cup {NoFile}
    BY <2>2, FileKinds
  <2>4. (\A n \in dels'[a] : snap[a][n] = NoFile) /\ (\A n \in wrts'[a] : snap[a][n] \in Bodies)
    BY <2>1, <2>3 DEF Stale
  <2>5. \A n \in DirNames(dir[a]) \ (dels'[a] \cup wrts'[a]) : Kept(n)' = snap[a][n]
    BY <2>1, <2>3 DEF Stale
  <2>6. QED
    BY <2>1, <2>4, <2>5
<1>20. ASSUME NEW a \in Restorers, RestoreRemove(a) PROVE RestoreProgress'
  <2>1. PICK m \in dels[a] :
          live' = [live EXCEPT ![m] = NoFile] /\ dels' = [dels EXCEPT ![a] = @ \ {m}]
    BY <1>20 DEF RestoreRemove, RemoveOne
  <2>2. /\ pc[a] = "restoring" /\ pc' = pc /\ dir' = dir /\ wrts' = wrts
        /\ snap' = snap /\ manage' = manage /\ backup' = backup
    BY <1>20 DEF RestoreRemove, RemoveOne, At
  <2>3. m \in Names /\ m \in DirNames(dir[a]) /\ snap[a][m] = NoFile
    BY <2>1, <2>2, FileKinds
  <2>4. Kept(m)' = snap[a][m]
    BY <2>1, <2>3, FileKinds DEF Trees
  <2>5. \A n \in Names \ {m} : Kept(n)' = Kept(n)
    BY <2>1 DEF Trees
  <2>6. HttpNames \subseteq Names
    BY DEF Names
  <2>7. \A b \in Restorers \ {a} : pc[b] \notin {"restore", "restoring", "rb_reload"}
    BY <2>2
  <2>8. QED
    BY <2>1, <2>2, <2>3, <2>4, <2>5, <2>6, <2>7, FileKinds
<1>21. ASSUME NEW a \in Restorers, RestoreWrite(a) PROVE RestoreProgress'
  <2>1. PICK m \in wrts[a] :
          live' = [live EXCEPT ![m] = snap[a][m]] /\ wrts' = [wrts EXCEPT ![a] = @ \ {m}]
    BY <1>21 DEF RestoreWrite
  <2>2. /\ pc[a] = "restoring" /\ pc' = pc /\ dir' = dir /\ dels' = dels
        /\ snap' = snap /\ manage' = manage /\ backup' = backup
    BY <1>21 DEF RestoreWrite, At
  <2>3. m \in Names /\ m \in DirNames(dir[a]) /\ snap[a][m] \in Bodies
    BY <2>1, <2>2, FileKinds
  <2>4. Kept(m)' = snap[a][m]
    BY <2>1, <2>3, FileKinds DEF Trees
  <2>5. \A n \in Names \ {m} : Kept(n)' = Kept(n)
    BY <2>1 DEF Trees
  <2>6. HttpNames \subseteq Names
    BY DEF Names
  <2>7. \A b \in Restorers \ {a} : pc[b] \notin {"restore", "restoring", "rb_reload"}
    BY <2>2
  <2>8. QED
    BY <2>1, <2>2, <2>3, <2>4, <2>5, <2>6, <2>7, FileKinds
<1>22. ASSUME NEW a \in Restorers, RestoreDirDone(a) PROVE RestoreProgress'
  <2>1. /\ pc[a] = "restoring" /\ dels[a] = {} /\ wrts[a] = {}
        /\ live' = live /\ snap' = snap /\ manage' = manage /\ dels' = dels /\ wrts' = wrts
        /\ backup' = backup
    BY <1>22 DEF RestoreDirDone, At
  <2>2. \A n \in DirNames(dir[a]) : Kept(n) = snap[a][n]
    BY <2>1
  <2>3. CASE StreamsNext(a)
    <3>1. dir' = [dir EXCEPT ![a] = "stream"] /\ pc' = [pc EXCEPT ![a] = "restore"]
      BY <1>22, <2>3 DEF RestoreDirDone, Go
    <3>2. \A n \in HttpNames : Kept(n) = snap[a][n]
      BY <2>2, <2>3 DEF StreamsNext, DirNames
    <3>3. QED
      BY <2>1, <3>1, <3>2
  <2>4. CASE ~StreamsNext(a)
    <3>1. dir' = dir /\ pc' = [pc EXCEPT ![a] = "rb_reload"]
      BY <1>22, <2>4 DEF RestoreDirDone, Go
    <3>2. snap[a] \in Manifests /\ dir[a] \in {"http", "stream"}
      OBVIOUS
    <3>3. \A n \in DOMAIN snap[a] : Kept(n) = snap[a][n]
      <4>1. CASE dir[a] = "stream"
        BY <2>1, <2>2, <3>2, <4>1, ManifestDomain DEF DirNames, Names
      <4>2. CASE dir[a] = "http"
        BY <2>2, <2>4, <3>2, <4>2, ManifestDomain DEF StreamsNext, DirNames, Names
      <4>3. QED
        BY <3>2, <4>1, <4>2
    <3>4. a = "recover" => snap["recover"] = backup
      BY <2>1 DEF RecoverInv, Restoring
    <3>5. QED
      BY <2>1, <3>1, <3>3, <3>4
  <2>5. QED
    BY <2>3, <2>4
<1>23. ASSUME NEW a \in Restorers, RestoreFails(a) PROVE RestoreProgress'
  BY <1>23 DEF RestoreFails, Go, End, ForgetLoop, ForgetMemory
<1>24. CASE RollbackReload
  BY <1>24 DEF RollbackReload, ReloadAnswer, Go, At
<1>25. CASE WriteReport
  BY <1>25 DEF WriteReport, Go, At
<1>26. CASE ClearMarker
  BY <1>26 DEF ClearMarker, End, ForgetLoop, ForgetMemory, At
<1>27. CASE PanelStarts
  BY <1>27 DEF PanelStarts, Go, Idle
<1>28. CASE RecoverTest
  BY <1>28 DEF RecoverTest, Go, At
<1>29. CASE RecoverReload
  BY <1>29 DEF RecoverReload, ReloadAnswer, Go, At
<1>30. CASE RecoverClear
  BY <1>30 DEF RecoverClear, End, ForgetLoop, ForgetMemory, At
<1>31. CASE EnableStreams
  BY <1>31 DEF EnableStreams, Go, Idle
<1>32. CASE EnableTest
  BY <1>32 DEF EnableTest, Go, At
<1>33. CASE EnableReload
  BY <1>33 DEF EnableReload, ReloadAnswer, Go, At
<1>34. CASE AngieReloads
  BY <1>34 DEF AngieReloads
<1>35. CASE Stage
  BY <1>35 DEF Stage
<1>36. CASE OperatorEdits
  BY <1>36 DEF OperatorEdits, Idle
<1>37. ASSUME NEW a \in Actors, Dies(a) PROVE RestoreProgress'
  BY <1>37 DEF Dies, End, ForgetLoop, ForgetMemory
<1>38. CASE PowerFails
  BY <1>38 DEF PowerFails, End, ForgetLoop, ForgetMemory
<1>39. CASE UNCHANGED vars
  BY <1>39 DEF vars
<1>40. QED
  BY <1>1, <1>2, <1>3, <1>4, <1>5, <1>6, <1>7, <1>8, <1>9, <1>10, <1>11, <1>12,
     <1>13, <1>14, <1>15, <1>16, <1>17, <1>18, <1>19, <1>20, <1>21, <1>22, <1>23, <1>24,
     <1>25, <1>26, <1>27, <1>28, <1>29, <1>30, <1>31, <1>32, <1>33, <1>34, <1>35, <1>36,
     <1>37, <1>38, <1>39
     DEF Next, ApplyStep, RecoverStep, EnableStep, Environment, Restore

(* A restore that ran to its end has brought every name back: the manifest *)
(* it followed lists them all, or what it does not list was not touched.   *)
LEMMA RestoredIsPre ==
    ASSUME RecoverInv, RestoreProgress, NEW a \in Restorers, pc[a] = "rb_reload", open
    PROVE  Landed(Names, pre)
<1> USE DEF Landed, Kept
<1>1. SUFFICES ASSUME NEW n \in Names PROVE Kept(n) = pre[n]
  OBVIOUS
<1>2. CASE n \in DOMAIN snap[a]
  BY <1>2 DEF RestoreProgress, RecoverInv, Restoring, Recoverable, Mutating, Restorers
<1>3. CASE n \notin DOMAIN snap[a] /\ n \notin DOMAIN backup
  BY <1>3 DEF RecoverInv, Recoverable, TypeOK, Managed, Trees
<1>4. CASE n \notin DOMAIN snap[a] /\ n \in DOMAIN backup
  <2>1. a = "apply" /\ snap["apply"] \in Manifests /\ pc["apply"] \in Mutating
    BY <1>4 DEF RestoreProgress, Restorers, RecoverInv, TypeOK, Mutating
  <2>2. n \in StreamNames /\ backup \in ManagedTrees
    BY <1>4, <2>1, ManifestDomain DEF RecoverInv, Restoring, Names
  <2>3. ~manage /\ ~streamDir
    BY <1>4, <2>1, <2>2 DEF RestoreProgress, RecoverInv, NoStreams, Mutating
  <2>4. live[n] = NoFile /\ backup[n] = NoFile /\ backup[n] = pre[n]
    BY <1>4, <2>2, <2>3 DEF RecoverInv, NoStreams, Covered, Recoverable
  <2>5. QED
    BY <2>4, FileKinds
<1>5. QED
  BY <1>2, <1>3, <1>4


(* The draft follows the control: a success is drafted on synced files, a  *)
(* rollback on restored ones, and the files stay so until it is written.   *)
LEMMA ReportingNext ==
    ASSUME "recover" \notin Overlaps, OutcomeInv, RecoverInv', [Next]_vars
    PROVE  Reporting'
<1>0. RecoverInv /\ TypeOK /\ TypeOK' /\ LoopOK /\ Alone
  BY DEF OutcomeInv, RecoverInv
<1> USE <1>0 DEF Reporting, Landed, Kept, OutcomeInv, TypeOK, LoopOK, Alone,
           Actors, Restorers, Mutating, Unmarked, etc, data, angie, loop, memory, history
<1>1. CASE Load
  BY <1>1 DEF Load, Go, Idle, Managed
<1>2. CASE StreamGate
  BY <1>2 DEF StreamGate, Reject, Go, At
<1>3. CASE Lint
  BY <1>3 DEF Lint, Reject, Go, At
<1>4. CASE TestStaged
  BY <1>4 DEF TestStaged, Reject, Go, At
<1>5. CASE WriteRejection
  BY <1>5 DEF WriteRejection, End, ForgetLoop, ForgetMemory, At
<1>6. CASE SetMarker
  BY <1>6 DEF SetMarker, Go, At
<1>7. CASE SnapshotHttp
  BY <1>7 DEF SnapshotHttp, SnapshotsStreams, Go, At
<1>8. CASE SnapshotStream
  BY <1>8 DEF SnapshotStream, Go, At
<1>9. CASE SyncScan
  BY <1>9 DEF SyncScan, Fail, Go, At, Stale
<1>10. CASE SyncRemove
  BY <1>10 DEF SyncRemove, RemoveOne, At
<1>11. CASE SyncWrite
  BY <1>11 DEF SyncWrite, At
<1>12. CASE SyncDirDone
  BY <1>12 DEF SyncDirDone, Go, At
<1>13. CASE SyncFault
  BY <1>13 DEF SyncFault, Fail, Go
<1>14. CASE TestLive
  BY <1>14 DEF TestLive, Fail, Go, At
<1>15. CASE ReadBaseline
  BY <1>15 DEF ReadBaseline, Go, At
<1>16. CASE Reload
  BY <1>16 DEF Reload, ReloadAnswer, Fail, Go, At
<1>17. CASE VerifyOk
  <2>1. \A n \in Names : Kept(n) = staged[n]
    BY <1>17 DEF VerifyOk, At, SyncProgress
  <2>2. QED
    BY <1>17, <2>1 DEF VerifyOk, Go, At
<1>18. CASE VerifyTimeout
  BY <1>18 DEF VerifyTimeout, Fail, Go, At
<1>19. ASSUME NEW a \in Restorers, RestoreScan(a) PROVE Reporting'
  BY <1>19 DEF RestoreScan, Go, At, Stale
<1>20. ASSUME NEW a \in Restorers, RestoreRemove(a) PROVE Reporting'
  BY <1>20 DEF RestoreRemove, RemoveOne, At
<1>21. ASSUME NEW a \in Restorers, RestoreWrite(a) PROVE Reporting'
  BY <1>21 DEF RestoreWrite, At
<1>22. ASSUME NEW a \in Restorers, RestoreDirDone(a) PROVE Reporting'
  BY <1>22 DEF RestoreDirDone, StreamsNext, Go, At
<1>23. ASSUME NEW a \in Restorers, RestoreFails(a) PROVE Reporting'
  BY <1>23 DEF RestoreFails, Go, End, ForgetLoop, ForgetMemory
<1>24. CASE RollbackReload
  <2>1. pc["apply"] = "rb_reload" /\ open
    BY <1>24 DEF RollbackReload, At
  <2>2. \A n \in Names : Kept(n) = pre[n]
    BY <2>1, RestoredIsPre
  <2>3. QED
    BY <1>24, <2>1, <2>2 DEF RollbackReload, RollbackOutcome, Go, At
<1>25. CASE WriteReport
  BY <1>25 DEF WriteReport, Go, At
<1>26. CASE ClearMarker
  BY <1>26 DEF ClearMarker, End, ForgetLoop, ForgetMemory, At
<1>27. CASE PanelStarts
  BY <1>27 DEF PanelStarts, Go, Idle
<1>28. CASE RecoverTest
  BY <1>28 DEF RecoverTest, Go, At
<1>29. CASE RecoverReload
  BY <1>29 DEF RecoverReload, ReloadAnswer, Go, At
<1>30. CASE RecoverClear
  BY <1>30 DEF RecoverClear, End, ForgetLoop, ForgetMemory, At
<1>31. CASE EnableStreams
  BY <1>31 DEF EnableStreams, Go, Idle
<1>32. CASE EnableTest
  BY <1>32 DEF EnableTest, Go, At
<1>33. CASE EnableReload
  BY <1>33 DEF EnableReload, ReloadAnswer, Go, At
<1>34. CASE AngieReloads
  BY <1>34 DEF AngieReloads
<1>35. CASE Stage
  BY <1>35 DEF Stage
<1>36. CASE OperatorEdits
  BY <1>36 DEF OperatorEdits, Idle
<1>37. ASSUME NEW a \in Actors, Dies(a) PROVE Reporting'
  BY <1>37 DEF Dies, End, ForgetLoop, ForgetMemory
<1>38. CASE PowerFails
  BY <1>38 DEF PowerFails, End, ForgetLoop, ForgetMemory
<1>39. CASE UNCHANGED vars
  BY <1>39 DEF vars
<1>40. QED
  BY <1>1, <1>2, <1>3, <1>4, <1>5, <1>6, <1>7, <1>8, <1>9, <1>10, <1>11, <1>12,
     <1>13, <1>14, <1>15, <1>16, <1>17, <1>18, <1>19, <1>20, <1>21, <1>22, <1>23, <1>24,
     <1>25, <1>26, <1>27, <1>28, <1>29, <1>30, <1>31, <1>32, <1>33, <1>34, <1>35, <1>36,
     <1>37, <1>38, <1>39
     DEF Next, ApplyStep, RecoverStep, EnableStep, Environment, Restore

(* Angie is configured from the live files at every reload it acts on, and *)
(* they stay as they are from the sync to the report of a success.         *)
LEMMA ServingNext ==
    ASSUME "recover" \notin Overlaps, OutcomeInv, RecoverInv', [Next]_vars
    PROVE  Serving'
<1>0. RecoverInv /\ TypeOK /\ TypeOK' /\ LoopOK /\ Alone
  BY DEF OutcomeInv, RecoverInv
<1> USE <1>0 DEF Serving, Agrees, OutcomeInv, TypeOK, Alone, Actors, Restorers,
           etc, data, angie, loop, memory, history
<1>1. CASE Load
  BY <1>1 DEF Load, Go, Idle, Managed
<1>2. CASE StreamGate
  BY <1>2 DEF StreamGate, Reject, Go, At
<1>3. CASE Lint
  BY <1>3 DEF Lint, Reject, Go, At
<1>4. CASE TestStaged
  BY <1>4 DEF TestStaged, Reject, Go, At
<1>5. CASE WriteRejection
  BY <1>5 DEF WriteRejection, End, ForgetLoop, ForgetMemory, At
<1>6. CASE SetMarker
  BY <1>6 DEF SetMarker, Go, At
<1>7. CASE SnapshotHttp
  BY <1>7 DEF SnapshotHttp, SnapshotsStreams, Go, At
<1>8. CASE SnapshotStream
  BY <1>8 DEF SnapshotStream, Go, At
<1>9. CASE SyncScan
  BY <1>9 DEF SyncScan, Fail, Go, At, Stale
<1>10. CASE SyncRemove
  BY <1>10 DEF SyncRemove, RemoveOne, At
<1>11. CASE SyncWrite
  BY <1>11 DEF SyncWrite, At
<1>12. CASE SyncDirDone
  BY <1>12 DEF SyncDirDone, Go, At
<1>13. CASE SyncFault
  BY <1>13 DEF SyncFault, Fail, Go
<1>14. CASE TestLive
  BY <1>14 DEF TestLive, Fail, Go, At
<1>15. CASE ReadBaseline
  BY <1>15 DEF ReadBaseline, Go, At
<1>16. CASE Reload
  BY <1>16 DEF Reload, ReloadAnswer, Fail, Go, At
<1>17. CASE VerifyOk
  BY <1>17 DEF VerifyOk, Go, At
<1>18. CASE VerifyTimeout
  BY <1>18 DEF VerifyTimeout, Fail, Go, At
<1>19. ASSUME NEW a \in Restorers, RestoreScan(a) PROVE Serving'
  BY <1>19 DEF RestoreScan, Go, At, Stale
<1>20. ASSUME NEW a \in Restorers, RestoreRemove(a) PROVE Serving'
  BY <1>20 DEF RestoreRemove, RemoveOne, At
<1>21. ASSUME NEW a \in Restorers, RestoreWrite(a) PROVE Serving'
  BY <1>21 DEF RestoreWrite, At
<1>22. ASSUME NEW a \in Restorers, RestoreDirDone(a) PROVE Serving'
  BY <1>22 DEF RestoreDirDone, StreamsNext, Go, At
<1>23. ASSUME NEW a \in Restorers, RestoreFails(a) PROVE Serving'
  <2>1. CASE a = "apply"
    BY <1>23, <2>1 DEF RestoreFails, Go, Reporting
  <2>2. CASE a = "recover"
    BY <1>23, <2>2 DEF RestoreFails, End, ForgetLoop
  <2>3. QED
    BY <2>1, <2>2
<1>24. CASE RollbackReload
  BY <1>24 DEF RollbackReload, RollbackOutcome, ReloadAnswer, Go, At
<1>25. CASE WriteReport
  BY <1>25 DEF WriteReport, Go, At
<1>26. CASE ClearMarker
  BY <1>26 DEF ClearMarker, End, ForgetLoop, ForgetMemory, At
<1>27. CASE PanelStarts
  BY <1>27 DEF PanelStarts, Go, Idle
<1>28. CASE RecoverTest
  BY <1>28 DEF RecoverTest, Go, At
<1>29. CASE RecoverReload
  BY <1>29 DEF RecoverReload, ReloadAnswer, Go, At
<1>30. CASE RecoverClear
  BY <1>30 DEF RecoverClear, End, ForgetLoop, ForgetMemory, At
<1>31. CASE EnableStreams
  BY <1>31 DEF EnableStreams, Go, Idle
<1>32. CASE EnableTest
  BY <1>32 DEF EnableTest, Go, At
<1>33. CASE EnableReload
  BY <1>33 DEF EnableReload, ReloadAnswer, Go, At
<1>34. CASE AngieReloads
  <2>1. live' = live /\ pc' = pc /\ draft' = draft
    BY <1>34 DEF AngieReloads
  <2>2. CASE ValidTree(LiveConfig)
    <3>1. running' = LiveConfig /\ LiveConfig \in Trees
      BY <1>34, <2>2, LiveType DEF AngieReloads
    <3>2. running' # Down
      BY <3>1, ConstantsAssumption
    <3>3. \A n \in HttpNames : running'[n] = live[n]
      BY <3>1, ConstantsAssumption DEF LiveConfig, Loaded, Names
    <3>4. QED
      BY <2>1, <3>2, <3>3
  <2>3. CASE ~ValidTree(LiveConfig)
    BY <1>34, <2>1, <2>3 DEF AngieReloads
  <2>4. QED
    BY <2>2, <2>3
<1>35. CASE Stage
  BY <1>35 DEF Stage
<1>36. CASE OperatorEdits
  BY <1>36 DEF OperatorEdits, Idle
<1>37. ASSUME NEW a \in Actors, Dies(a) PROVE Serving'
  BY <1>37 DEF Dies, End, ForgetLoop, ForgetMemory
<1>38. CASE PowerFails
  BY <1>38 DEF PowerFails, End, ForgetLoop, ForgetMemory
<1>39. CASE UNCHANGED vars
  BY <1>39 DEF vars
<1>40. QED
  BY <1>1, <1>2, <1>3, <1>4, <1>5, <1>6, <1>7, <1>8, <1>9, <1>10, <1>11, <1>12,
     <1>13, <1>14, <1>15, <1>16, <1>17, <1>18, <1>19, <1>20, <1>21, <1>22, <1>23, <1>24,
     <1>25, <1>26, <1>27, <1>28, <1>29, <1>30, <1>31, <1>32, <1>33, <1>34, <1>35, <1>36,
     <1>37, <1>38, <1>39
     DEF Next, ApplyStep, RecoverStep, EnableStep, Environment, Restore

(* The initial states satisfy it: nothing is under way.                    *)
LEMMA OutcomeInit == Init => OutcomeInv
<1>1. Init => RestoreProgress /\ SyncProgress /\ Reporting /\ Serving
  BY DEF Init, RestoreProgress, SyncProgress, Reporting, Serving, Mutating, Unmarked,
         Actors, Restorers
<1>2. QED
  BY <1>1, RecoverInit DEF OutcomeInv

(* The inductive invariant holds throughout when recovery does not run     *)
(* beside a helper.                                                        *)
LEMMA OutcomeHolds ==
    ASSUME "recover" \notin Overlaps
    PROVE  Spec => []OutcomeInv
<1>1. OutcomeInv /\ RecoverInv' /\ [Next]_vars => OutcomeInv'
  BY SyncNext, RestoreNext, ReportingNext, ServingNext DEF OutcomeInv
<1>2. QED
  BY <1>1, OutcomeInit, RecoverHolds, PTL DEF Spec

(* A rollback, the helper's or recovery's, that got as far as the reload   *)
(* has brought back the managed files of both directories as they were     *)
(* before the apply, whatever their number and whichever of them the sync  *)
(* had reached (manifest.rs:140-147, pipeline.rs:330-332).                 *)
THEOREM RestoreExact ==
    ASSUME "recover" \notin Overlaps
    PROVE  Spec => []RestoreIsExact
<1>1. OutcomeInv => RestoreIsExact
  <2>1. SUFFICES ASSUME OutcomeInv, NEW a \in Restorers, At(a, "rb_reload"), open
                 PROVE  Managed(live) = pre
    BY DEF RestoreIsExact
  <2>2. TypeOK /\ pre \in ManagedTrees
    BY <2>1 DEF OutcomeInv, RecoverInv, TypeOK
  <2>3. Landed(Names, pre)
    BY <2>1, RestoredIsPre DEF OutcomeInv, At
  <2>4. QED
    BY <2>2, <2>3, LandedIsManaged
<1>2. QED
  BY <1>1, OutcomeHolds, PTL

(* A success in the report is one: the files of both directories are the   *)
(* loaded ones, and when the generation counter confirmed it Angie was     *)
(* configured from them after the helper had written the last of them,     *)
(* whatever signals were pending and whatever the panel staged meanwhile   *)
(* (pipeline.rs:227-261), also beside the enable-streams helper.           *)
THEOREM OkServed ==
    ASSUME "recover" \notin Overlaps
    PROVE  Spec => []OkMeansServed
<1>1. OutcomeInv => OkMeansServed
  <2>1. SUFFICES ASSUME OutcomeInv, pc["apply"] \in {"report", "clear"}, draft = "ok"
                 PROVE  /\ Managed(live) = staged
                        /\ running # Down
                        /\ gen = "newer" => Agrees
    BY DEF OkMeansServed
  <2>2. TypeOK /\ staged \in ManagedTrees
    BY <2>1 DEF OutcomeInv, RecoverInv, TypeOK
  <2>3. Landed(Names, staged)
    BY <2>1 DEF OutcomeInv, Reporting
  <2>4. QED
    BY <2>1, <2>2, <2>3, LandedIsManaged DEF OutcomeInv, Serving
<1>2. QED
  BY <1>1, OutcomeHolds, PTL


(* The helper and the enable-streams helper do not run together either.    *)
RollbackInv ==
    /\ OutcomeInv
    /\ pc["apply"] = "idle" \/ pc["enable"] = "idle"
    /\ RollbackServed

(* What Angie would load does not change while the files and the stream    *)
(* context do not.                                                         *)
LEMMA SameConfig ==
    ASSUME live' = live, streamCtx' = streamCtx
    PROVE  LiveConfig' = LiveConfig
  BY DEF LiveConfig, Loaded

(* A step that leaves the files and Angie alone leaves a report of a       *)
(* rollback as true as it was.                                             *)
LEMMA StillServed ==
    ASSUME RollbackServed, live' = live, streamCtx' = streamCtx,
           running' = running, hup => hup',
           pc'["apply"] \in {"report", "clear"} /\ draft' = "undone" =>
              pc["apply"] \in {"report", "clear"} /\ draft = "undone"
    PROVE  RollbackServed'
<1>1. LiveConfig' = LiveConfig /\ Agrees' = Agrees
  BY SameConfig DEF Agrees
<1>2. SUFFICES ASSUME pc'["apply"] \in {"report", "clear"}, draft' = "undone"
               PROVE  hup' \/ ~ValidTree(LiveConfig') \/ (running' # Down /\ Agrees')
  BY DEF RollbackServed
<1>3. hup \/ ~ValidTree(LiveConfig) \/ (running # Down /\ Agrees)
  BY <1>2 DEF RollbackServed
<1>4. CASE hup
  BY <1>4
<1>5. CASE ~ValidTree(LiveConfig)
  BY <1>1, <1>5
<1>6. CASE running # Down /\ Agrees
  BY <1>1, <1>6
<1>7. QED
  BY <1>3, <1>4, <1>5, <1>6


(* Neither oneshot starts beside the other.                                *)
LEMMA ApartNext ==
    ASSUME "recover" \notin Overlaps, "enable" \notin Overlaps, RollbackInv, [Next]_vars
    PROVE  (pc["apply"] = "idle" \/ pc["enable"] = "idle")'
<1>0. TypeOK /\ Alone
  BY DEF RollbackInv, OutcomeInv, RecoverInv
<1> USE <1>0 DEF RollbackInv, TypeOK, Actors, Restorers, etc, data, angie, loop,
           memory, history
<1>1. CASE Load
  BY <1>1 DEF Load, Go, Idle, Managed
<1>2. CASE StreamGate
  BY <1>2 DEF StreamGate, Reject, Go, At
<1>3. CASE Lint
  BY <1>3 DEF Lint, Reject, Go, At
<1>4. CASE TestStaged
  BY <1>4 DEF TestStaged, Reject, Go, At
<1>5. CASE WriteRejection
  BY <1>5 DEF WriteRejection, End, ForgetLoop, ForgetMemory, At
<1>6. CASE SetMarker
  BY <1>6 DEF SetMarker, Go, At
<1>7. CASE SnapshotHttp
  BY <1>7 DEF SnapshotHttp, SnapshotsStreams, Go, At
<1>8. CASE SnapshotStream
  BY <1>8 DEF SnapshotStream, Go, At
<1>9. CASE SyncScan
  BY <1>9 DEF SyncScan, Fail, Go, At, Stale
<1>10. CASE SyncRemove
  BY <1>10 DEF SyncRemove, RemoveOne, At
<1>11. CASE SyncWrite
  BY <1>11 DEF SyncWrite, At
<1>12. CASE SyncDirDone
  BY <1>12 DEF SyncDirDone, Go, At
<1>13. CASE SyncFault
  BY <1>13 DEF SyncFault, Fail, Go
<1>14. CASE TestLive
  BY <1>14 DEF TestLive, Fail, Go, At
<1>15. CASE ReadBaseline
  BY <1>15 DEF ReadBaseline, Go, At
<1>16. CASE Reload
  BY <1>16 DEF Reload, ReloadAnswer, Fail, Go, At
<1>17. CASE VerifyOk
  BY <1>17 DEF VerifyOk, Go, At
<1>18. CASE VerifyTimeout
  BY <1>18 DEF VerifyTimeout, Fail, Go, At
<1>19. ASSUME NEW a \in Restorers, RestoreScan(a) PROVE (pc["apply"] = "idle" \/ pc["enable"] = "idle")'
  BY <1>19 DEF RestoreScan, Go, At, Stale
<1>20. ASSUME NEW a \in Restorers, RestoreRemove(a) PROVE (pc["apply"] = "idle" \/ pc["enable"] = "idle")'
  BY <1>20 DEF RestoreRemove, RemoveOne, At
<1>21. ASSUME NEW a \in Restorers, RestoreWrite(a) PROVE (pc["apply"] = "idle" \/ pc["enable"] = "idle")'
  BY <1>21 DEF RestoreWrite, At
<1>22. ASSUME NEW a \in Restorers, RestoreDirDone(a) PROVE (pc["apply"] = "idle" \/ pc["enable"] = "idle")'
  BY <1>22 DEF RestoreDirDone, StreamsNext, Go, At
<1>23. ASSUME NEW a \in Restorers, RestoreFails(a) PROVE (pc["apply"] = "idle" \/ pc["enable"] = "idle")'
  BY <1>23 DEF RestoreFails, Go, End, ForgetLoop, ForgetMemory
<1>24. CASE RollbackReload
  BY <1>24 DEF RollbackReload, ReloadAnswer, Go, At
<1>25. CASE WriteReport
  BY <1>25 DEF WriteReport, Go, At
<1>26. CASE ClearMarker
  BY <1>26 DEF ClearMarker, End, ForgetLoop, ForgetMemory, At
<1>27. CASE PanelStarts
  BY <1>27 DEF PanelStarts, Go, Idle
<1>28. CASE RecoverTest
  BY <1>28 DEF RecoverTest, Go, At
<1>29. CASE RecoverReload
  BY <1>29 DEF RecoverReload, ReloadAnswer, Go, At
<1>30. CASE RecoverClear
  BY <1>30 DEF RecoverClear, End, ForgetLoop, ForgetMemory, At
<1>31. CASE EnableStreams
  BY <1>31 DEF EnableStreams, Go, Idle
<1>32. CASE EnableTest
  BY <1>32 DEF EnableTest, Go, At
<1>33. CASE EnableReload
  BY <1>33 DEF EnableReload, ReloadAnswer, Go, At
<1>34. CASE AngieReloads
  BY <1>34 DEF AngieReloads
<1>35. CASE Stage
  BY <1>35 DEF Stage
<1>36. CASE OperatorEdits
  BY <1>36 DEF OperatorEdits, Idle
<1>37. ASSUME NEW a \in Actors, Dies(a) PROVE (pc["apply"] = "idle" \/ pc["enable"] = "idle")'
  BY <1>37 DEF Dies, End, ForgetLoop, ForgetMemory
<1>38. CASE PowerFails
  BY <1>38 DEF PowerFails, End, ForgetLoop, ForgetMemory
<1>39. CASE UNCHANGED vars
  BY <1>39 DEF vars
<1>40. QED
  BY <1>1, <1>2, <1>3, <1>4, <1>5, <1>6, <1>7, <1>8, <1>9, <1>10, <1>11, <1>12,
     <1>13, <1>14, <1>15, <1>16, <1>17, <1>18, <1>19, <1>20, <1>21, <1>22, <1>23, <1>24,
     <1>25, <1>26, <1>27, <1>28, <1>29, <1>30, <1>31, <1>32, <1>33, <1>34, <1>35, <1>36,
     <1>37, <1>38, <1>39
     DEF Next, ApplyStep, RecoverStep, EnableStep, Environment, Restore

(* Once the rollback's signal is sent, Angie acts on it with the restored  *)
(* files or the signal stays pending.                                      *)
LEMMA ServedNext ==
    ASSUME "recover" \notin Overlaps, "enable" \notin Overlaps, RollbackInv, [Next]_vars
    PROVE  RollbackServed'
<1>0. TypeOK /\ Alone
  BY DEF RollbackInv, OutcomeInv, RecoverInv
<1> USE <1>0 DEF RollbackInv, TypeOK, Alone, Actors, Restorers, etc, data, angie,
           loop, memory, history
<1>1. CASE Load
  BY <1>1, StillServed DEF Load, Go, Idle, Managed
<1>2. CASE StreamGate
  BY <1>2, StillServed DEF StreamGate, Reject, Go, At
<1>3. CASE Lint
  BY <1>3, StillServed DEF Lint, Reject, Go, At
<1>4. CASE TestStaged
  BY <1>4, StillServed DEF TestStaged, Reject, Go, At
<1>5. CASE WriteRejection
  BY <1>5, StillServed DEF WriteRejection, End, ForgetLoop, ForgetMemory, At
<1>6. CASE SetMarker
  BY <1>6, StillServed DEF SetMarker, Go, At
<1>7. CASE SnapshotHttp
  BY <1>7, StillServed DEF SnapshotHttp, SnapshotsStreams, Go, At
<1>8. CASE SnapshotStream
  BY <1>8, StillServed DEF SnapshotStream, Go, At
<1>9. CASE SyncScan
  BY <1>9, StillServed DEF SyncScan, Fail, Go, At, Stale
<1>10. CASE SyncRemove
  <2>1. pc'["apply"] \notin {"report", "clear"}
    BY <1>10 DEF SyncRemove, RemoveOne, At
  <2>2. QED
    BY <2>1 DEF RollbackServed
<1>11. CASE SyncWrite
  <2>1. pc'["apply"] \notin {"report", "clear"}
    BY <1>11 DEF SyncWrite, At
  <2>2. QED
    BY <2>1 DEF RollbackServed
<1>12. CASE SyncDirDone
  BY <1>12, StillServed DEF SyncDirDone, Go, At
<1>13. CASE SyncFault
  BY <1>13, StillServed DEF SyncFault, Fail, Go
<1>14. CASE TestLive
  BY <1>14, StillServed DEF TestLive, Fail, Go, At
<1>15. CASE ReadBaseline
  BY <1>15, StillServed DEF ReadBaseline, Go, At
<1>16. CASE Reload
  BY <1>16, StillServed DEF Reload, ReloadAnswer, Fail, Go, At
<1>17. CASE VerifyOk
  BY <1>17, StillServed DEF VerifyOk, Go, At
<1>18. CASE VerifyTimeout
  BY <1>18, StillServed DEF VerifyTimeout, Fail, Go, At
<1>19. ASSUME NEW a \in Restorers, RestoreScan(a) PROVE RollbackServed'
  BY <1>19, StillServed DEF RestoreScan, Go, At, Stale
<1>20. ASSUME NEW a \in Restorers, RestoreRemove(a) PROVE RollbackServed'
  <2>1. pc'["apply"] \notin {"report", "clear"}
    BY <1>20 DEF RestoreRemove, RemoveOne, At
  <2>2. QED
    BY <2>1 DEF RollbackServed
<1>21. ASSUME NEW a \in Restorers, RestoreWrite(a) PROVE RollbackServed'
  <2>1. pc'["apply"] \notin {"report", "clear"}
    BY <1>21 DEF RestoreWrite, At
  <2>2. QED
    BY <2>1 DEF RollbackServed
<1>22. ASSUME NEW a \in Restorers, RestoreDirDone(a) PROVE RollbackServed'
  BY <1>22, StillServed DEF RestoreDirDone, StreamsNext, Go, At
<1>23. ASSUME NEW a \in Restorers, RestoreFails(a) PROVE RollbackServed'
  <2>1. CASE a = "apply"
    <3>1. draft' # "undone"
      BY <1>23, <2>1 DEF RestoreFails, Go, OutcomeInv, Reporting
    <3>2. QED
      BY <3>1 DEF RollbackServed
  <2>2. CASE a = "recover"
    <3>1. pc'["apply"] = pc["apply"] /\ draft' = draft
      BY <1>23, <2>2 DEF RestoreFails, End
    <3>2. QED
      BY <1>23, <2>2, <3>1, StillServed DEF RestoreFails
  <2>3. QED
    BY <2>1, <2>2
<1>24. CASE RollbackReload
  <2>1. draft' = "undone" => hup'
    BY <1>24 DEF RollbackReload, RollbackOutcome, ReloadAnswer
  <2>2. QED
    BY <2>1 DEF RollbackServed
<1>25. CASE WriteReport
  BY <1>25, StillServed DEF WriteReport, Go, At
<1>26. CASE ClearMarker
  BY <1>26, StillServed DEF ClearMarker, End, ForgetLoop, ForgetMemory, At
<1>27. CASE PanelStarts
  BY <1>27, StillServed DEF PanelStarts, Go, Idle
<1>28. CASE RecoverTest
  BY <1>28, StillServed DEF RecoverTest, Go, At
<1>29. CASE RecoverReload
  BY <1>29, StillServed DEF RecoverReload, ReloadAnswer, Go, At
<1>30. CASE RecoverClear
  BY <1>30, StillServed DEF RecoverClear, End, ForgetLoop, ForgetMemory, At
<1>31. CASE EnableStreams
  <2>1. pc'["apply"] \notin {"report", "clear"}
    BY <1>31 DEF EnableStreams, Go, Idle
  <2>2. QED
    BY <2>1 DEF RollbackServed
<1>32. CASE EnableTest
  <2>1. pc'["apply"] \notin {"report", "clear"}
    BY <1>32 DEF EnableTest, Go, At
  <2>2. QED
    BY <2>1 DEF RollbackServed
<1>33. CASE EnableReload
  BY <1>33, StillServed DEF EnableReload, ReloadAnswer, Go, At
<1>34. CASE AngieReloads
  <2>1. live' = live /\ streamCtx' = streamCtx /\ pc' = pc /\ draft' = draft
    BY <1>34 DEF AngieReloads
  <2>2. LiveConfig' = LiveConfig
    BY <2>1, SameConfig
  <2>3. CASE ValidTree(LiveConfig)
    <3>1. running' = LiveConfig /\ LiveConfig \in Trees
      BY <1>34, <2>3, LiveType DEF AngieReloads
    <3>2. running' # Down
      BY <3>1, ConstantsAssumption
    <3>3. \A n \in HttpNames : running'[n] = live'[n]
      BY <2>1, <3>1, ConstantsAssumption DEF LiveConfig, Loaded, Names
    <3>4. QED
      BY <3>2, <3>3 DEF RollbackServed, Agrees
  <2>4. CASE ~ValidTree(LiveConfig)
    BY <2>2, <2>4 DEF RollbackServed
  <2>5. QED
    BY <2>3, <2>4
<1>35. CASE Stage
  BY <1>35, StillServed DEF Stage
<1>36. CASE OperatorEdits
  <2>1. pc'["apply"] \notin {"report", "clear"}
    BY <1>36 DEF OperatorEdits, Idle
  <2>2. QED
    BY <2>1 DEF RollbackServed
<1>37. ASSUME NEW a \in Actors, Dies(a) PROVE RollbackServed'
  BY <1>37, StillServed DEF Dies, End, ForgetLoop, ForgetMemory
<1>38. CASE PowerFails
  <2>1. pc'["apply"] \notin {"report", "clear"}
    BY <1>38 DEF PowerFails, End, ForgetLoop, ForgetMemory
  <2>2. QED
    BY <2>1 DEF RollbackServed
<1>39. CASE UNCHANGED vars
  BY <1>39, StillServed DEF vars
<1>40. QED
  BY <1>1, <1>2, <1>3, <1>4, <1>5, <1>6, <1>7, <1>8, <1>9, <1>10, <1>11, <1>12,
     <1>13, <1>14, <1>15, <1>16, <1>17, <1>18, <1>19, <1>20, <1>21, <1>22, <1>23, <1>24,
     <1>25, <1>26, <1>27, <1>28, <1>29, <1>30, <1>31, <1>32, <1>33, <1>34, <1>35, <1>36,
     <1>37, <1>38, <1>39
     DEF Next, ApplyStep, RecoverStep, EnableStep, Environment, Restore

(* A rollback that the report calls a success is one for the visitors of   *)
(* the sites too: when the restored files are valid, Angie runs on them or *)
(* a signal that will make it load them is pending, provided that nobody   *)
(* turns the stream context on meanwhile (pipeline.rs:330-331).            *)
THEOREM RolledBackServed ==
    ASSUME "recover" \notin Overlaps, "enable" \notin Overlaps
    PROVE  Spec => []RollbackServed
<1>1. Init => RollbackInv
  BY OutcomeInit DEF Init, RollbackInv, RollbackServed, Actors
<1>2. RollbackInv /\ OutcomeInv' /\ [Next]_vars => RollbackInv'
  BY ApartNext, ServedNext DEF RollbackInv
<1>3. RollbackInv => RollbackServed
  BY DEF RollbackInv
<1>4. QED
  BY <1>1, <1>2, <1>3, OutcomeHolds, PTL DEF Spec


----------------------------------------------------------------------------
(* The helper implements AtomicApply.                                      *)

(* The tree in force.                                                      *)
InForce == IF marker THEN pre ELSE Managed(live)

(* A step that changes files only while the marker is set, and neither the *)
(* marker, the loaded set, the report nor the phase, is no step of the     *)
(* atomic apply.                                                           *)
LEMMA AtomicStutter ==
    ASSUME marker' = marker, pre' = pre, marker \/ live' = live,
           staged' = staged, report' = report,
           pc'["apply"] \in Unmarked <=> pc["apply"] \in Unmarked,
           pc'["apply"] = "clear" <=> pc["apply"] = "clear"
    PROVE  UNCHANGED Atomic!vars
<1>1. Phase' = Phase
  BY DEF Phase
<1>2. InForce' = InForce
  BY DEF InForce, Managed
<1>3. QED
  BY <1>1, <1>2 DEF Atomic!vars, InForce

(* The tree in force is a managed tree, before and after a step.           *)
LEMMA InForceType ==
    /\ TypeOK => InForce \in ManagedTrees
    /\ TypeOK' => InForce' \in ManagedTrees
  BY CaptureType DEF TypeOK, InForce

(* Outside an apply the loaded set may change, and nothing else.           *)
LEMMA AtomicChoose ==
    ASSUME marker' = marker, pre' = pre, live' = live, report' = report,
           pc["apply"] \in Unmarked, pc'["apply"] \in Unmarked, staged' \in ManagedTrees
    PROVE  Atomic!Choose
<1>1. Phase' = Phase /\ Phase \in {"settled", "interrupted"}
  BY DEF Phase
<1>2. InForce' = InForce
  BY DEF InForce, Managed
<1>3. QED
  BY <1>1, <1>2 DEF Atomic!Choose, InForce

(* A helper that dies leaves the question open.                            *)
LEMMA AtomicInterrupt ==
    ASSUME marker, marker', pre' = pre, report' = report,
           pc["apply"] \notin Unmarked, pc'["apply"] \in Unmarked, staged' \in ManagedTrees
    PROVE  Atomic!Interrupt
<1>1. Phase \in {"open", "told"} /\ Phase' = "interrupted"
  BY DEF Phase
<1>2. QED
  BY <1>1 DEF Atomic!Interrupt


(* Every step is one of the atomic apply, or changes nothing it sees.      *)
LEMMA AtomicNext ==
    ASSUME OutcomeInv, OutcomeInv', [Next]_vars
    PROVE  [Atomic!Next]_(Atomic!vars)
<1>0. TypeOK /\ TypeOK' /\ Alone /\ Reporting
  BY DEF OutcomeInv, RecoverInv
<1> USE <1>0 DEF Reporting, Alone, TypeOK, Unmarked, Actors, Restorers, etc, data,
           angie, loop, memory, history
<1>1. CASE Load
  <2>1. Atomic!Choose
    BY <1>1, AtomicChoose DEF Load, Go, Idle
  <2>2. QED
    BY <2>1 DEF Atomic!Next
<1>2. CASE StreamGate
  BY <1>2, AtomicStutter DEF StreamGate, Reject, Go, At
<1>3. CASE Lint
  BY <1>3, AtomicStutter DEF Lint, Reject, Go, At
<1>4. CASE TestStaged
  BY <1>4, AtomicStutter DEF TestStaged, Reject, Go, At
<1>5. CASE WriteRejection
  <2>1. Phase' = Phase /\ Phase \in {"settled", "interrupted"}
    BY <1>5 DEF WriteRejection, End, At, Phase
  <2>2. InForce' = InForce
    BY <1>5 DEF WriteRejection, InForce, Managed
  <2>3. report' = "rejected" /\ staged' \in ManagedTrees
    BY <1>5 DEF WriteRejection, At
  <2>4. Atomic!Refuse
    BY <2>1, <2>2, <2>3 DEF Atomic!Refuse, InForce
  <2>5. QED
    BY <2>4 DEF Atomic!Next
<1>6. CASE SetMarker
  <2>1. Phase \in {"settled", "interrupted"} /\ Phase' = "open"
    BY <1>6 DEF SetMarker, Go, At, Phase
  <2>2. InForce' = Managed(live) /\ InForce' \in ManagedTrees
    BY <1>6, InForceType DEF SetMarker, InForce
  <2>3. Phase = "settled" => InForce' = InForce
    BY <1>6, <2>2 DEF Phase, InForce, SetMarker, At
  <2>4. staged' = staged /\ report' = report
    BY <1>6 DEF SetMarker
  <2>5. Atomic!Begin
    BY <2>1, <2>2, <2>3, <2>4 DEF Atomic!Begin, InForce
  <2>6. QED
    BY <2>5 DEF Atomic!Next
<1>7. CASE SnapshotHttp
  BY <1>7, AtomicStutter DEF SnapshotHttp, SnapshotsStreams, Go, At
<1>8. CASE SnapshotStream
  BY <1>8, AtomicStutter DEF SnapshotStream, Go, At
<1>9. CASE SyncScan
  BY <1>9, AtomicStutter DEF SyncScan, Fail, Go, At, Stale
<1>10. CASE SyncRemove
  BY <1>10, AtomicStutter DEF SyncRemove, RemoveOne, At
<1>11. CASE SyncWrite
  BY <1>11, AtomicStutter DEF SyncWrite, At
<1>12. CASE SyncDirDone
  BY <1>12, AtomicStutter DEF SyncDirDone, Go, At
<1>13. CASE SyncFault
  BY <1>13, AtomicStutter DEF SyncFault, Fail, Go
<1>14. CASE TestLive
  BY <1>14, AtomicStutter DEF TestLive, Fail, Go, At
<1>15. CASE ReadBaseline
  BY <1>15, AtomicStutter DEF ReadBaseline, Go, At
<1>16. CASE Reload
  BY <1>16, AtomicStutter DEF Reload, ReloadAnswer, Fail, Go, At
<1>17. CASE VerifyOk
  BY <1>17, AtomicStutter DEF VerifyOk, Go, At
<1>18. CASE VerifyTimeout
  BY <1>18, AtomicStutter DEF VerifyTimeout, Fail, Go, At
<1>19. ASSUME NEW a \in Restorers, RestoreScan(a) PROVE [Atomic!Next]_(Atomic!vars)
  BY <1>19, AtomicStutter DEF RestoreScan, Go, At, Stale
<1>20. ASSUME NEW a \in Restorers, RestoreRemove(a) PROVE [Atomic!Next]_(Atomic!vars)
  <2>1. CASE marker
    BY <1>20, <2>1, AtomicStutter DEF RestoreRemove, RemoveOne, At
  <2>2. CASE ~marker
    <3>1. Phase = "settled" /\ Phase' = "settled" /\ staged' = staged /\ report' = report
      BY <1>20, <2>2 DEF RestoreRemove, RemoveOne, At, Phase
    <3>2. InForce' \in ManagedTrees
      BY InForceType
    <3>3. Atomic!Edit
      BY <3>1, <3>2 DEF Atomic!Edit, InForce
    <3>4. QED
      BY <3>3 DEF Atomic!Next
  <2>3. QED
    BY <2>1, <2>2
<1>21. ASSUME NEW a \in Restorers, RestoreWrite(a) PROVE [Atomic!Next]_(Atomic!vars)
  <2>1. CASE marker
    BY <1>21, <2>1, AtomicStutter DEF RestoreWrite, At
  <2>2. CASE ~marker
    <3>1. Phase = "settled" /\ Phase' = "settled" /\ staged' = staged /\ report' = report
      BY <1>21, <2>2 DEF RestoreWrite, At, Phase
    <3>2. InForce' \in ManagedTrees
      BY InForceType
    <3>3. Atomic!Edit
      BY <3>1, <3>2 DEF Atomic!Edit, InForce
    <3>4. QED
      BY <3>3 DEF Atomic!Next
  <2>3. QED
    BY <2>1, <2>2
<1>22. ASSUME NEW a \in Restorers, RestoreDirDone(a) PROVE [Atomic!Next]_(Atomic!vars)
  BY <1>22, AtomicStutter DEF RestoreDirDone, StreamsNext, Go, At
<1>23. ASSUME NEW a \in Restorers, RestoreFails(a) PROVE [Atomic!Next]_(Atomic!vars)
  <2>1. CASE a = "apply"
    BY <1>23, <2>1, AtomicStutter DEF RestoreFails, Go
  <2>2. CASE a = "recover"
    BY <1>23, <2>2, AtomicStutter DEF RestoreFails, End
  <2>3. QED
    BY <2>1, <2>2
<1>24. CASE RollbackReload
  BY <1>24, AtomicStutter DEF RollbackReload, ReloadAnswer, Go, At
<1>25. CASE WriteReport
  <2>1. Phase = "open" /\ Phase' = "told"
    BY <1>25 DEF WriteReport, Go, At, Phase
  <2>2. InForce' = InForce
    BY <1>25 DEF WriteReport, InForce, Managed
  <2>3. report' \in {"ok", "undone", "torn"} /\ staged' = staged
    BY <1>25 DEF WriteReport, At
  <2>4. Atomic!Tell
    BY <2>1, <2>2, <2>3 DEF Atomic!Tell, InForce
  <2>5. QED
    BY <2>4 DEF Atomic!Next
<1>26. CASE ClearMarker
  <2>1. Phase = "told" /\ Phase' = "settled" /\ marker
    BY <1>26 DEF ClearMarker, At, Phase
  <2>2. live' = live /\ InForce' = Managed(live) /\ InForce' \in ManagedTrees
    BY <1>26, InForceType DEF ClearMarker, InForce, Managed
  <2>3. report = "ok" => InForce' = staged
    BY <1>26, <2>2, LandedIsManaged DEF ClearMarker, At
  <2>4. report = "undone" => InForce' = InForce
    BY <1>26, <2>1, <2>2, LandedIsManaged DEF ClearMarker, At, InForce
  <2>5. staged' \in ManagedTrees /\ report' = report
    BY <1>26 DEF ClearMarker
  <2>6. Atomic!Settle
    BY <2>1, <2>2, <2>3, <2>4, <2>5 DEF Atomic!Settle, InForce
  <2>7. QED
    BY <2>6 DEF Atomic!Next
<1>27. CASE PanelStarts
  BY <1>27, AtomicStutter DEF PanelStarts, Go, Idle
<1>28. CASE RecoverTest
  BY <1>28, AtomicStutter DEF RecoverTest, Go, At
<1>29. CASE RecoverReload
  BY <1>29, AtomicStutter DEF RecoverReload, ReloadAnswer, Go, At
<1>30. CASE RecoverClear
  <2>1. pc["apply"] \in Unmarked /\ pc'["apply"] \in Unmarked /\ live' = live /\ ~marker'
    BY <1>30 DEF RecoverClear, End, At
  <2>2. staged' = staged /\ report' = report
    BY <1>30 DEF RecoverClear, End
  <2>3. CASE marker
    <3>1. Phase = "interrupted" /\ Phase' = "settled"
      BY <2>1, <2>3 DEF Phase
    <3>2. InForce' \in ManagedTrees
      BY InForceType
    <3>3. Atomic!Resolve
      BY <3>1, <3>2, <2>2 DEF Atomic!Resolve, InForce
    <3>4. QED
      BY <3>3 DEF Atomic!Next
  <2>4. CASE ~marker
    <3>1. Phase' = Phase
      BY <2>1, <2>4 DEF Phase
    <3>2. InForce' = InForce
      BY <2>1, <2>4 DEF InForce, Managed
    <3>3. QED
      BY <2>2, <3>1, <3>2 DEF Atomic!vars, InForce
  <2>5. QED
    BY <2>3, <2>4
<1>31. CASE EnableStreams
  BY <1>31, AtomicStutter DEF EnableStreams, Go, Idle
<1>32. CASE EnableTest
  BY <1>32, AtomicStutter DEF EnableTest, Go, At
<1>33. CASE EnableReload
  BY <1>33, AtomicStutter DEF EnableReload, ReloadAnswer, Go, At
<1>34. CASE AngieReloads
  BY <1>34, AtomicStutter DEF AngieReloads
<1>35. CASE Stage
  BY <1>35, AtomicStutter DEF Stage
<1>36. CASE OperatorEdits
  <2>1. CASE marker
    BY <1>36, <2>1, AtomicStutter DEF OperatorEdits, Idle
  <2>2. CASE ~marker
    <3>1. Phase = "settled" /\ Phase' = "settled" /\ staged' = staged /\ report' = report
      BY <1>36, <2>2 DEF OperatorEdits, Idle, Phase
    <3>2. InForce' \in ManagedTrees
      BY InForceType
    <3>3. Atomic!Edit
      BY <3>1, <3>2 DEF Atomic!Edit, InForce
    <3>4. QED
      BY <3>3 DEF Atomic!Next
  <2>3. QED
    BY <2>1, <2>2
<1>37. ASSUME NEW a \in Actors, Dies(a) PROVE [Atomic!Next]_(Atomic!vars)
  <2>1. CASE "apply" \in {a} /\ pc["apply"] \notin Unmarked
    <3>1. Atomic!Interrupt
      BY <1>37, <2>1, AtomicInterrupt DEF Dies, End
    <3>2. QED
      BY <3>1 DEF Atomic!Next
  <2>2. CASE "apply" \in {a} /\ pc["apply"] \in Unmarked
    <3>1. Atomic!Choose
      BY <1>37, <2>2, AtomicChoose DEF Dies, End
    <3>2. QED
      BY <3>1 DEF Atomic!Next
  <2>3. CASE "apply" \notin {a}
    BY <1>37, <2>3, AtomicStutter DEF Dies, End
  <2>4. QED
    BY <2>1, <2>2, <2>3
<1>38. CASE PowerFails
  <2>1. CASE "apply" \in Actors /\ pc["apply"] \notin Unmarked
    <3>1. Atomic!Interrupt
      BY <1>38, <2>1, AtomicInterrupt DEF PowerFails, End
    <3>2. QED
      BY <3>1 DEF Atomic!Next
  <2>2. CASE "apply" \in Actors /\ pc["apply"] \in Unmarked
    <3>1. Atomic!Choose
      BY <1>38, <2>2, AtomicChoose DEF PowerFails, End
    <3>2. QED
      BY <3>1 DEF Atomic!Next
  <2>3. CASE "apply" \notin Actors
    BY <1>38, <2>3, AtomicStutter DEF PowerFails, End
  <2>4. QED
    BY <2>1, <2>2, <2>3
<1>39. CASE UNCHANGED vars
  BY <1>39, AtomicStutter DEF vars
<1>40. QED
  BY <1>1, <1>2, <1>3, <1>4, <1>5, <1>6, <1>7, <1>8, <1>9, <1>10, <1>11, <1>12,
     <1>13, <1>14, <1>15, <1>16, <1>17, <1>18, <1>19, <1>20, <1>21, <1>22, <1>23, <1>24,
     <1>25, <1>26, <1>27, <1>28, <1>29, <1>30, <1>31, <1>32, <1>33, <1>34, <1>35, <1>36,
     <1>37, <1>38, <1>39
     DEF Next, ApplyStep, RecoverStep, EnableStep, Environment, Restore

(* Whatever the number of files, wherever the helper dies and whatever the *)
(* operator does meanwhile, the managed files of both directories change   *)
(* as one and the report says which way: see AtomicApply.                  *)
THEOREM Atomicity ==
    ASSUME "recover" \notin Overlaps
    PROVE  Spec => AtomicSpec
<1>1. Init => Atomic!Init
  <2>1. SUFFICES ASSUME Init PROVE Atomic!Init
    OBVIOUS
  <2>2. Phase = "settled"
    BY <2>1 DEF Init, Phase
  <2>3. InForce \in ManagedTrees /\ staged \in ManagedTrees /\ report = "none"
    BY <2>1, TypeInit, InForceType DEF Init, TypeOK
  <2>4. QED
    BY <2>2, <2>3 DEF Atomic!Init, InForce
<1>2. OutcomeInv /\ OutcomeInv' /\ [Next]_vars => [Atomic!Next]_(Atomic!vars)
  BY AtomicNext
<1>3. QED
  BY <1>1, <1>2, OutcomeHolds, PTL DEF Spec, AtomicSpec, Atomic!Spec

=============================================================================
