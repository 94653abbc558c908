------------------------ MODULE ApplyHelper_proofs ------------------------
(***************************************************************************)
(* Proofs about ApplyHelper, for every value of its constants: its type    *)
(* invariant, and that an apply is recoverable from its first write to the *)
(* end when the panel's recovery does not run beside it.                   *)
(***************************************************************************)
EXTENDS ApplyHelper, TLAPS

(* What Angie loads is a tree.                                             *)
LEMMA LiveType == TypeOK => LiveConfig \in Trees
    BY DEF TypeOK, LiveConfig, Loaded, Trees, Content

(* What capture keeps of a tree is a managed tree, and so is its http.d    *)
(* part a manifest.                                                        *)
LEMMA CaptureType ==
    ASSUME NEW t \in Trees
    PROVE  /\ Managed(t) \in ManagedTrees
           /\ Only(Managed(t), HttpNames) \in Manifests
    BY DEF Managed, Only, Trees, ManagedTrees, Manifests, Names, Content

(* A process that is before its file loop has no names left over.          *)
Fresh == {"idle", "gate", "lint", "test_staged", "reject", "mark", "snap_http",
          "snap_stream", "scan", "test_live"}

(* The file loops stay inside the directory they are in, and a restore     *)
(* enters stream.d only with a manifest of it.  TypeOK needs this: without *)
(* it a restore would write what its manifest does not define.             *)
LoopOK ==
    /\ pc["apply"] = "snap_stream" => backup \in Manifests
    /\ \A a \in Restorers :
          /\ dels[a] \subseteq DirNames(dir[a]) /\ wrts[a] \subseteq DirNames(dir[a])
          /\ pc[a] \in Fresh => dels[a] = {} /\ wrts[a] = {}
          /\ pc[a] \in {"restore", "restoring"} /\ dir[a] = "stream"
                =>  StreamNames \subseteq DOMAIN snap[a]

(* The initial states are typed.                                           *)
LEMMA TypeInit == Init => TypeOK
<1>1. NoTree \in ManagedTrees
  BY DEF NoTree, ManagedTrees
<1>2. ManagedTrees \subseteq Manifests
  BY DEF Manifests
<1>3. SUFFICES ASSUME Init PROVE TypeOK
  OBVIOUS
<1>4. live \in Trees /\ staging \in ManagedTrees
  BY <1>3, ConstantsAssumption DEF Init
<1>5. LiveConfig \in Trees
  BY <1>4 DEF LiveConfig, Loaded, Trees, Content
<1>6. DOMAIN pc = Actors /\ \A a \in Actors : pc[a] \in Labels[a]
  BY <1>3 DEF Init, Labels, Actors, Restorers
<1>7. QED
  BY <1>1, <1>2, <1>3, <1>4, <1>5, <1>6 DEF Init, TypeOK, Reports

(* What End leaves of a typed state is typed.                              *)
LEMMA EndType ==
    ASSUME TypeOK, NEW S \in SUBSET Actors, End(S)
    PROVE  /\ gen' \in {"unread", "same", "newer"}
           /\ DOMAIN pc' = Actors /\ \A a \in Actors : pc'[a] \in Labels[a]
           /\ dir' \in [Restorers -> {"http", "stream"}]
           /\ dels' \in [Restorers -> SUBSET Names]
           /\ wrts' \in [Restorers -> SUBSET Names]
           /\ snap' \in [Restorers -> Manifests]
           /\ staged' \in ManagedTrees
           /\ manage' \in BOOLEAN
           /\ draft' \in Reports
<1>1. NoTree \in ManagedTrees /\ NoTree \in Manifests
  BY DEF NoTree, ManagedTrees, Manifests
<1>2. DOMAIN pc' = Actors /\ \A a \in Actors : pc'[a] \in Labels[a]
  BY DEF End, TypeOK, Labels, Actors, Restorers
<1>3. /\ dir' \in [Restorers -> {"http", "stream"}]
      /\ dels' \in [Restorers -> SUBSET Names]
      /\ wrts' \in [Restorers -> SUBSET Names]
      /\ snap' \in [Restorers -> Manifests]
  BY <1>1 DEF End, ForgetLoop, TypeOK
<1>4. QED
  BY <1>1, <1>2, <1>3 DEF End, ForgetMemory, TypeOK, memory, Reports

(* The manifest of http.d that is written, alone or beside an older one of *)
(* stream.d, makes a manifest.                                             *)
LEMMA SnapshotType ==
    ASSUME TypeOK, SnapshotHttp
    PROVE  backup' \in Manifests /\ snap' \in [Restorers -> Manifests]
<1> DEFINE taken == Only(Managed(live), HttpNames)
<1>1. taken \in Manifests
  BY CaptureType DEF TypeOK
<1>2. backup' \in Manifests
  BY <1>1 DEF SnapshotHttp, TypeOK, Manifests, ManagedTrees, Managed, Only, Trees, Content, Names
<1>3. QED
  BY <1>1, <1>2 DEF SnapshotHttp, TypeOK

(* Every step of the system leaves every variable in its set.              *)
LEMMA TypeNext == TypeOK /\ LoopOK /\ [Next]_vars => TypeOK'
<1> SUFFICES ASSUME TypeOK, LoopOK, [Next]_vars PROVE TypeOK'
  OBVIOUS
<1> USE DEF TypeOK, etc, data, angie, loop, memory, history, Labels, Actors, Restorers, Reports
<1>1. CASE Load
  BY <1>1 DEF Load, Go
<1>2. CASE StreamGate
  BY <1>2 DEF StreamGate, Reject, Go, At
<1>3. CASE Lint
  BY <1>3 DEF Lint, Reject, Go, At
<1>4. CASE TestStaged
  BY <1>4 DEF TestStaged, Reject, Go, At
<1>5. CASE WriteRejection
  BY <1>5, EndType DEF WriteRejection, At
<1>6. CASE SetMarker
  <2>1. pre' \in ManagedTrees
    <3>1. live \in Trees
      OBVIOUS
    <3>2. Managed(live) \in ManagedTrees
      BY <3>1, CaptureType
    <3>3. QED
      BY <1>6, <3>2 DEF SetMarker
  <2>2. DOMAIN pc' = Actors /\ \A a \in Actors : pc'[a] \in Labels[a]
    BY <1>6 DEF SetMarker, Go
  <2>3. marker' \in BOOLEAN /\ open' \in BOOLEAN
    BY <1>6 DEF SetMarker
  <2>4. QED
    BY <1>6, <2>1, <2>2, <2>3 DEF SetMarker
<1>7. CASE SnapshotHttp
  BY <1>7, SnapshotType DEF SnapshotHttp, SnapshotsStreams, Go, At
<1>8. CASE SnapshotStream
  <2>1. backup' \in Manifests
    <3>1. backup \in Manifests
      BY <1>8 DEF SnapshotStream, At, LoopOK
    <3>2. QED
      BY <1>8, <3>1 DEF SnapshotStream, Manifests, ManagedTrees, Managed, Trees, Names
  <2>2. snap' \in [Restorers -> Manifests]
    BY <1>8, <2>1 DEF SnapshotStream
  <2>3. QED
    BY <1>8, <2>1, <2>2 DEF SnapshotStream, Go, At
<1>9. CASE SyncScan
  BY <1>9 DEF SyncScan, Fail, Go, At, Stale, DirNames, Names
<1>10. CASE SyncRemove
  BY <1>10 DEF SyncRemove, RemoveOne, At, Trees, Content, Names
<1>11. CASE SyncWrite
  BY <1>11 DEF SyncWrite, Wanted, At, Trees, ManagedTrees, Content
<1>12. CASE SyncDirDone
  BY <1>12 DEF SyncDirDone, Go, At
<1>13. CASE SyncFault
  BY <1>13 DEF SyncFault, Fail, Go
<1>14. CASE TestLive
  BY <1>14 DEF TestLive, Fail, Go, At
<1>15. CASE ReadBaseline
  BY <1>15 DEF ReadBaseline, Go, At
<1>16. CASE Reload
  BY <1>16 DEF Reload, ReloadAnswer, Fail, Go, At
<1>17. CASE VerifyOk
  BY <1>17 DEF VerifyOk, Go, At
<1>18. CASE VerifyTimeout
  BY <1>18 DEF VerifyTimeout, Fail, Go, At
<1>19. ASSUME NEW a \in Restorers, RestoreScan(a) PROVE TypeOK'
  BY <1>19 DEF RestoreScan, Go, At, Stale, DirNames, Names
<1>20. ASSUME NEW a \in Restorers, RestoreRemove(a) PROVE TypeOK'
  BY <1>20 DEF RestoreRemove, RemoveOne, At, Trees, Content, Names
<1>21. ASSUME NEW a \in Restorers, RestoreWrite(a) PROVE TypeOK'
  <2>1. ASSUME NEW n \in wrts[a] PROVE snap[a][n] \in Content
    <3>1. n \in DOMAIN snap[a]
      BY <1>21, <2>1 DEF RestoreWrite, At, LoopOK, DirNames, Manifests, ManagedTrees, Names
    <3>2. QED
      BY <3>1 DEF Manifests, ManagedTrees, Content
  <2>2. live' \in Trees
    BY <1>21, <2>1 DEF RestoreWrite, Trees
  <2>3. wrts' \in [Restorers -> SUBSET Names]
    BY <1>21 DEF RestoreWrite
  <2>4. QED
    BY <1>21, <2>2, <2>3 DEF RestoreWrite, At
<1>22. ASSUME NEW a \in Restorers, RestoreDirDone(a) PROVE TypeOK'
  BY <1>22 DEF RestoreDirDone, Go, At
<1>23. ASSUME NEW a \in Restorers, RestoreFails(a) PROVE TypeOK'
  BY <1>23, EndType DEF RestoreFails, Go, At
<1>24. CASE RollbackReload
  BY <1>24 DEF RollbackReload, RollbackOutcome, ReloadAnswer, Go, At
<1>25. CASE WriteReport
  BY <1>25 DEF WriteReport, Go, At
<1>26. CASE ClearMarker
  BY <1>26, EndType DEF ClearMarker, At, NoTree, ManagedTrees
<1>27. CASE PanelStarts
  BY <1>27 DEF PanelStarts, Go, Idle
<1>28. CASE RecoverTest
  BY <1>28 DEF RecoverTest, Go, At
<1>29. CASE RecoverReload
  BY <1>29 DEF RecoverReload, ReloadAnswer, Go, At
<1>30. CASE RecoverClear
  BY <1>30, EndType DEF RecoverClear, At, NoTree, ManagedTrees
<1>31. CASE EnableStreams
  BY <1>31 DEF EnableStreams, Go, Idle
<1>32. CASE EnableTest
  BY <1>32 DEF EnableTest, Go, At
<1>33. CASE EnableReload
  BY <1>33 DEF EnableReload, ReloadAnswer, Go, At
<1>34. CASE AngieReloads
  <2>1. LiveConfig \in Trees
    BY LiveType
  <2>2. running' \in Trees \cup {Down}
    BY <1>34, <2>1 DEF AngieReloads
  <2>3. gen' \in {"unread", "same", "newer"}
    BY <1>34 DEF AngieReloads
  <2>4. QED
    BY <1>34, <2>2, <2>3, ZenonT(60) DEF AngieReloads
<1>35. CASE Stage
  BY <1>35, ConstantsAssumption DEF Stage
<1>36. CASE OperatorEdits
  BY <1>36, ConstantsAssumption DEF OperatorEdits, Trees
<1>37. ASSUME NEW a \in Actors, Dies(a) PROVE TypeOK'
  BY <1>37, EndType DEF Dies
<1>38. CASE PowerFails
  <2>1. LiveConfig \in Trees
    BY LiveType
  <2>2. running' \in Trees \cup {Down}
    BY <1>38, <2>1 DEF PowerFails
  <2>3. QED
    BY <1>38, <2>2, EndType DEF PowerFails
<1>39. CASE UNCHANGED vars
  BY <1>39 DEF vars
<1>40. QED
  BY <1>1, <1>2, <1>3, <1>4, <1>5, <1>6, <1>7, <1>8, <1>9, <1>10, <1>11, <1>12,
     <1>13, <1>14, <1>15, <1>16, <1>17, <1>18, <1>19, <1>20, <1>21, <1>22, <1>23,
     <1>24, <1>25, <1>26, <1>27, <1>28, <1>29, <1>30, <1>31, <1>32, <1>33, <1>34,
     <1>35, <1>36, <1>37, <1>38, <1>39
     DEF Next, ApplyStep, RecoverStep, EnableStep, Environment, Restore

(* From the snapshot on, the helper may be changing files.                 *)
Mutating == {"scan", "files", "test_live", "baseline", "reload", "verify",
             "restore", "restoring", "rb_reload", "report", "clear"}

(* The newest backup has a manifest of stream.d too.                       *)
Covered == backup \in ManagedTrees

(* Where there is no stream.d there is no stream file, now or in a backup, *)
(* and an apply that does not manage stream.d has found none.              *)
NoStreams ==
    /\ ~streamDir => \A n \in StreamNames : live[n] = NoFile
    /\ ~streamDir /\ Covered => \A n \in StreamNames : backup[n] = NoFile
    /\ pc["apply"] # "idle" /\ ~manage => ~streamDir

(* While it takes its snapshot the helper changes nothing: what it has     *)
(* captured is still what was there when the marker was set.               *)
Snapshotting ==
    /\ pc["apply"] \in {"snap_http", "snap_stream"} =>
          marker /\ ~open /\ pre = Managed(live)
    /\ pc["apply"] = "snap_stream" =>
          manage /\ backup \in Manifests /\ \A n \in HttpNames : backup[n] = pre[n]

(* What the helper and recovery restore is the newest backup, and the      *)
(* helper enters stream.d only with a manifest of it.                      *)
Restoring ==
    /\ pc["apply"] \in Mutating =>
          /\ backup \in Manifests
          /\ manage => Covered
          /\ dir["apply"] = "stream" => Covered
          /\ dir["apply"] = "stream" /\ pc["apply"] \in {"scan", "files"} => manage
          /\ dir["apply"] = "stream" /\ pc["apply"] = "files" => streamDir
          /\ \A n \in DOMAIN snap["apply"] : n \in DOMAIN backup /\ snap["apply"][n] = backup[n]
    /\ pc["recover"] \in {"restore", "restoring"} => snap["recover"] = backup

Alone == pc["apply"] = "idle" \/ pc["recover"] = "idle"

(* The inductive invariant behind Recoverable.                             *)
RecoverInv ==
    /\ TypeOK /\ LoopOK
    /\ NoStreams /\ Snapshotting /\ Restoring /\ Alone
    /\ open /\ streamDir => Covered
    /\ Recoverable

(* The loops stay in their directory.                                      *)
LEMMA LoopNext == TypeOK /\ LoopOK /\ [Next]_vars => LoopOK'
<1> SUFFICES ASSUME TypeOK, LoopOK, [Next]_vars, TypeOK' PROVE LoopOK'
  BY TypeNext
<1> USE DEF TypeOK, LoopOK, Fresh, DirNames, etc, data, angie, loop, memory, history, Labels, Actors, Restorers
<1>1. CASE Load
  BY <1>1 DEF Load, Go, Idle, Managed
<1>2. CASE StreamGate
  BY <1>2 DEF StreamGate, Reject, Go, At
<1>3. CASE Lint
  BY <1>3 DEF Lint, Reject, Go, At
<1>4. CASE TestStaged
  BY <1>4 DEF TestStaged, Reject, Go, At
<1>5. CASE WriteRejection
  BY <1>5 DEF WriteRejection, End, ForgetLoop, ForgetMemory, At
<1>6. CASE SetMarker
  BY <1>6 DEF SetMarker, Go, At
<1>7. CASE SnapshotHttp
  BY <1>7, SnapshotType DEF SnapshotHttp, SnapshotsStreams, Go, At
<1>8. CASE SnapshotStream
  BY <1>8 DEF SnapshotStream, Go, At
<1>9. CASE SyncScan
  BY <1>9 DEF SyncScan, Fail, Go, At, Stale
<1>10. CASE SyncRemove
  BY <1>10 DEF SyncRemove, RemoveOne, At
<1>11. CASE SyncWrite
  BY <1>11 DEF SyncWrite, At
<1>12. CASE SyncDirDone
  BY <1>12 DEF SyncDirDone, Go, At
<1>13. CASE SyncFault
  BY <1>13 DEF SyncFault, Fail, Go
<1>14. CASE TestLive
  BY <1>14 DEF TestLive, Fail, Go, At
<1>15. CASE ReadBaseline
  BY <1>15 DEF ReadBaseline, Go, At
<1>16. CASE Reload
  BY <1>16 DEF Reload, ReloadAnswer, Fail, Go, At
<1>17. CASE VerifyOk
  BY <1>17 DEF VerifyOk, Go, At
<1>18. CASE VerifyTimeout
  BY <1>18 DEF VerifyTimeout, Fail, Go, At
<1>19. ASSUME NEW a \in Restorers, RestoreScan(a) PROVE LoopOK'
  BY <1>19 DEF RestoreScan, Go, At, Stale
<1>20. ASSUME NEW a \in Restorers, RestoreRemove(a) PROVE LoopOK'
  BY <1>20 DEF RestoreRemove, RemoveOne, At
<1>21. ASSUME NEW a \in Restorers, RestoreWrite(a) PROVE LoopOK'
  BY <1>21 DEF RestoreWrite, At
<1>22. ASSUME NEW a \in Restorers, RestoreDirDone(a) PROVE LoopOK'
  BY <1>22 DEF RestoreDirDone, StreamsNext, Go, At
<1>23. ASSUME NEW a \in Restorers, RestoreFails(a) PROVE LoopOK'
  BY <1>23 DEF RestoreFails, Go, End, ForgetLoop, ForgetMemory
<1>24. CASE RollbackReload
  BY <1>24 DEF RollbackReload, ReloadAnswer, Go, At
<1>25. CASE WriteReport
  BY <1>25 DEF WriteReport, Go, At
<1>26. CASE ClearMarker
  BY <1>26 DEF ClearMarker, End, ForgetLoop, ForgetMemory, At
<1>27. CASE PanelStarts
  BY <1>27 DEF PanelStarts, Go, Idle
<1>28. CASE RecoverTest
  BY <1>28 DEF RecoverTest, Go, At
<1>29. CASE RecoverReload
  BY <1>29 DEF RecoverReload, ReloadAnswer, Go, At
<1>30. CASE RecoverClear
  BY <1>30 DEF RecoverClear, End, ForgetLoop, ForgetMemory, At
<1>31. CASE EnableStreams
  BY <1>31 DEF EnableStreams, Go, Idle
<1>32. CASE EnableTest
  BY <1>32 DEF EnableTest, Go, At
<1>33. CASE EnableReload
  BY <1>33 DEF EnableReload, ReloadAnswer, Go, At
<1>34. CASE AngieReloads
  BY <1>34 DEF AngieReloads
<1>35. CASE Stage
  BY <1>35 DEF Stage
<1>36. CASE OperatorEdits
  BY <1>36 DEF OperatorEdits, Idle
<1>37. ASSUME NEW a \in Actors, Dies(a) PROVE LoopOK'
  BY <1>37 DEF Dies, End, ForgetLoop, ForgetMemory
<1>38. CASE PowerFails
  BY <1>38 DEF PowerFails, End, ForgetLoop, ForgetMemory
<1>39. CASE UNCHANGED vars
  BY <1>39 DEF vars
<1>40. QED
  BY <1>1, <1>2, <1>3, <1>4, <1>5, <1>6, <1>7, <1>8, <1>9, <1>10, <1>11, <1>12,
     <1>13, <1>14, <1>15, <1>16, <1>17, <1>18, <1>19, <1>20, <1>21, <1>22, <1>23, <1>24,
     <1>25, <1>26, <1>27, <1>28, <1>29, <1>30, <1>31, <1>32, <1>33, <1>34, <1>35, <1>36,
     <1>37, <1>38, <1>39
     DEF Next, ApplyStep, RecoverStep, EnableStep, Environment, Restore

(* Recovery and the helper do not run together.                            *)
LEMMA AloneNext ==
    ASSUME "recover" \notin Overlaps, RecoverInv, [Next]_vars
    PROVE  Alone'
<1>0. TypeOK' /\ LoopOK'
  BY TypeNext, LoopNext DEF RecoverInv
<1> USE <1>0 DEF RecoverInv, Alone, TypeOK, Actors, Restorers, etc, data, angie, loop, memory, history
<1>1. CASE Load
  BY <1>1 DEF Load, Go, Idle, Managed
<1>2. CASE StreamGate
  BY <1>2 DEF StreamGate, Reject, Go, At
<1>3. CASE Lint
  BY <1>3 DEF Lint, Reject, Go, At
<1>4. CASE TestStaged
  BY <1>4 DEF TestStaged, Reject, Go, At
<1>5. CASE WriteRejection
  BY <1>5 DEF WriteRejection, End, ForgetLoop, ForgetMemory, At
<1>6. CASE SetMarker
  BY <1>6 DEF SetMarker, Go, At
<1>7. CASE SnapshotHttp
  BY <1>7 DEF SnapshotHttp, SnapshotsStreams, Go, At
<1>8. CASE SnapshotStream
  BY <1>8 DEF SnapshotStream, Go, At
<1>9. CASE SyncScan
  BY <1>9 DEF SyncScan, Fail, Go, At, Stale
<1>10. CASE SyncRemove
  BY <1>10 DEF SyncRemove, RemoveOne, At
<1>11. CASE SyncWrite
  BY <1>11 DEF SyncWrite, At
<1>12. CASE SyncDirDone
  BY <1>12 DEF SyncDirDone, Go, At
<1>13. CASE SyncFault
  BY <1>13 DEF SyncFault, Fail, Go
<1>14. CASE TestLive
  BY <1>14 DEF TestLive, Fail, Go, At
<1>15. CASE ReadBaseline
  BY <1>15 DEF ReadBaseline, Go, At
<1>16. CASE Reload
  BY <1>16 DEF Reload, ReloadAnswer, Fail, Go, At
<1>17. CASE VerifyOk
  BY <1>17 DEF VerifyOk, Go, At
<1>18. CASE VerifyTimeout
  BY <1>18 DEF VerifyTimeout, Fail, Go, At
<1>19. ASSUME NEW a \in Restorers, RestoreScan(a) PROVE Alone'
  BY <1>19 DEF RestoreScan, Go, At, Stale
<1>20. ASSUME NEW a \in Restorers, RestoreRemove(a) PROVE Alone'
  BY <1>20 DEF RestoreRemove, RemoveOne, At
<1>21. ASSUME NEW a \in Restorers, RestoreWrite(a) PROVE Alone'
  BY <1>21 DEF RestoreWrite, At
<1>22. ASSUME NEW a \in Restorers, RestoreDirDone(a) PROVE Alone'
  BY <1>22 DEF RestoreDirDone, StreamsNext, Go, At
<1>23. ASSUME NEW a \in Restorers, RestoreFails(a) PROVE Alone'
  BY <1>23 DEF RestoreFails, Go, End, ForgetLoop, ForgetMemory
<1>24. CASE RollbackReload
  BY <1>24 DEF RollbackReload, ReloadAnswer, Go, At
<1>25. CASE WriteReport
  BY <1>25 DEF WriteReport, Go, At
<1>26. CASE ClearMarker
  BY <1>26 DEF ClearMarker, End, ForgetLoop, ForgetMemory, At
<1>27. CASE PanelStarts
  BY <1>27 DEF PanelStarts, Go, Idle
<1>28. CASE RecoverTest
  BY <1>28 DEF RecoverTest, Go, At
<1>29. CASE RecoverReload
  BY <1>29 DEF RecoverReload, ReloadAnswer, Go, At
<1>30. CASE RecoverClear
  BY <1>30 DEF RecoverClear, End, ForgetLoop, ForgetMemory, At
<1>31. CASE EnableStreams
  BY <1>31 DEF EnableStreams, Go, Idle
<1>32. CASE EnableTest
  BY <1>32 DEF EnableTest, Go, At
<1>33. CASE EnableReload
  BY <1>33 DEF EnableReload, ReloadAnswer, Go, At
<1>34. CASE AngieReloads
  BY <1>34 DEF AngieReloads
<1>35. CASE Stage
  BY <1>35 DEF Stage
<1>36. CASE OperatorEdits
  BY <1>36 DEF OperatorEdits, Idle
<1>37. ASSUME NEW a \in Actors, Dies(a) PROVE Alone'
  BY <1>37 DEF Dies, End, ForgetLoop, ForgetMemory
<1>38. CASE PowerFails
  BY <1>38 DEF PowerFails, End, ForgetLoop, ForgetMemory
<1>39. CASE UNCHANGED vars
  BY <1>39 DEF vars
<1>40. QED
  BY <1>1, <1>2, <1>3, <1>4, <1>5, <1>6, <1>7, <1>8, <1>9, <1>10, <1>11, <1>12,
     <1>13, <1>14, <1>15, <1>16, <1>17, <1>18, <1>19, <1>20, <1>21, <1>22, <1>23, <1>24,
     <1>25, <1>26, <1>27, <1>28, <1>29, <1>30, <1>31, <1>32, <1>33, <1>34, <1>35, <1>36,
     <1>37, <1>38, <1>39
     DEF Next, ApplyStep, RecoverStep, EnableStep, Environment, Restore

(* A manifest is of http.d alone or of both directories.                   *)
LEMMA ManifestDomain ==
    ASSUME NEW m \in Manifests
    PROVE  /\ HttpNames \subseteq DOMAIN m
           /\ DOMAIN m \subseteq Names
           /\ \A n \in DOMAIN m \ HttpNames : m \in ManagedTrees
           /\ m \in ManagedTrees => DOMAIN m = Names
    BY DEF Manifests, ManagedTrees, Names

(* A restored file is what the newest backup holds.                        *)
LEMMA RestoredFromBackup ==
    ASSUME RecoverInv, NEW a \in Restorers, RestoreWrite(a), NEW n \in wrts[a]
    PROVE  n \in DOMAIN backup /\ snap[a][n] = backup[n] /\ backup \in Manifests
<1>1. pc[a] = "restoring" /\ wrts[a] \subseteq DirNames(dir[a])
  BY DEF RestoreWrite, At, RecoverInv, LoopOK
<1>2. snap[a] \in Manifests /\ dir[a] \in {"http", "stream"}
  BY DEF RecoverInv, TypeOK
<1>3. n \in DOMAIN snap[a]
  BY <1>1, <1>2, ManifestDomain DEF RecoverInv, LoopOK, DirNames
<1>4. CASE a = "apply"
  BY <1>1, <1>3, <1>4 DEF RecoverInv, Restoring, Mutating
<1>5. CASE a = "recover"
  BY <1>1, <1>2, <1>3, <1>5 DEF RecoverInv, Restoring
<1>6. QED
  BY <1>4, <1>5 DEF Restorers


(* Where there is no stream.d no stream file appears.                      *)
LEMMA NoStreamsNext ==
    ASSUME "recover" \notin Overlaps, RecoverInv, [Next]_vars
    PROVE  NoStreams'
<1>0. TypeOK' /\ LoopOK'
  BY TypeNext, LoopNext DEF RecoverInv
<1> USE <1>0 DEF RecoverInv, NoStreams, Covered, TypeOK, Actors, Restorers, etc, data, angie, loop, memory, history
<1>1. CASE Load
  BY <1>1 DEF Load, Go, Idle, Managed
<1>2. CASE StreamGate
  BY <1>2 DEF StreamGate, Reject, Go, At
<1>3. CASE Lint
  BY <1>3 DEF Lint, Reject, Go, At
<1>4. CASE TestStaged
  BY <1>4 DEF TestStaged, Reject, Go, At
<1>5. CASE WriteRejection
  BY <1>5 DEF WriteRejection, End, ForgetLoop, ForgetMemory, At
<1>6. CASE SetMarker
  BY <1>6 DEF SetMarker, Go, At
<1>7. CASE SnapshotHttp

  <2>1. ASSUME NEW n \in StreamNames, ~streamDir, Covered' PROVE backup'[n] = NoFile
    <3> DEFINE taken == Only(Managed(live), HttpNames)
    <3>1. n \notin HttpNames
      BY <2>1, ConstantsAssumption
    <3>2. DOMAIN backup' = Names
      BY <2>1, SnapshotType, ManifestDomain, <1>7
    <3>3. DOMAIN taken = HttpNames
      BY DEF Only
    <3>4. backup' # taken
      BY <3>1, <3>2, <3>3, <2>1 DEF Names
    <3>5. /\ backup # NoBackup
          /\ backup' = [m \in DOMAIN backup |-> IF m \in HttpNames THEN taken[m] ELSE backup[m]]
      BY <1>7, <3>4 DEF SnapshotHttp
    <3>6. DOMAIN backup = Names /\ backup \in Manifests
      BY <3>2, <3>5
    <3>7. backup \in ManagedTrees
      BY <3>1, <3>6, <2>1, ManifestDomain DEF Names
    <3>8. backup'[n] = backup[n]
      BY <3>1, <3>5, <3>6, <2>1 DEF Names
    <3>9. QED
      BY <3>7, <3>8, <2>1
  <2>2. QED
    BY <1>7, <2>1 DEF SnapshotHttp, SnapshotsStreams, Go, At
<1>8. CASE SnapshotStream

  <2>1. streamDir \/ \A n \in StreamNames : Managed(live)[n] = NoFile
    BY DEF Managed, Trees, Names
  <2>2. \A n \in StreamNames : n \notin HttpNames
    BY ConstantsAssumption
  <2>3. \A n \in StreamNames : ~streamDir => backup'[n] = NoFile
    BY <1>8, <2>1, <2>2 DEF SnapshotStream, Names
  <2>4. QED
    BY <1>8, <2>3 DEF SnapshotStream, Go, At
<1>9. CASE SyncScan

  <2>1. dir["apply"] = "stream" => manage
    BY <1>9 DEF SyncScan, At, Restoring, Mutating
  <2>2. UNCHANGED <<live, backup, manage>> /\ streamDir' = (streamDir \/ dir["apply"] = "stream")
    BY <1>9 DEF SyncScan
  <2>3. pc["apply"] # "idle"
    BY <1>9 DEF SyncScan, At
  <2>4. QED
    BY <2>1, <2>2, <2>3
<1>10. CASE SyncRemove

  <2>1. \A n \in StreamNames : live[n] = NoFile => live'[n] = NoFile
    BY <1>10 DEF SyncRemove, RemoveOne, Trees, Names
  <2>2. QED
    BY <1>10, <2>1 DEF SyncRemove, RemoveOne
<1>11. CASE SyncWrite

  <2>1. PICK n \in wrts["apply"] : live' = [live EXCEPT ![n] = Wanted[n]]
    BY <1>11 DEF SyncWrite
  <2>2. ~streamDir => n \in HttpNames
    BY <1>11 DEF SyncWrite, At, LoopOK, DirNames, Restoring, Mutating
  <2>3. ~streamDir => \A m \in StreamNames : live'[m] = live[m]
    BY <2>1, <2>2, ConstantsAssumption DEF Trees, Names
  <2>4. QED
    BY <1>11, <2>3 DEF SyncWrite
<1>12. CASE SyncDirDone
  BY <1>12 DEF SyncDirDone, Go, At
<1>13. CASE SyncFault
  BY <1>13 DEF SyncFault, Fail, Go
<1>14. CASE TestLive
  BY <1>14 DEF TestLive, Fail, Go, At
<1>15. CASE ReadBaseline
  BY <1>15 DEF ReadBaseline, Go, At
<1>16. CASE Reload
  BY <1>16 DEF Reload, ReloadAnswer, Fail, Go, At
<1>17. CASE VerifyOk
  BY <1>17 DEF VerifyOk, Go, At
<1>18. CASE VerifyTimeout
  BY <1>18 DEF VerifyTimeout, Fail, Go, At
<1>19. ASSUME NEW a \in Restorers, RestoreScan(a) PROVE NoStreams'
  BY <1>19 DEF RestoreScan, Go, At, Stale
<1>20. ASSUME NEW a \in Restorers, RestoreRemove(a) PROVE NoStreams'

  <2>1. \A n \in StreamNames : live[n] = NoFile => live'[n] = NoFile
    BY <1>20 DEF RestoreRemove, RemoveOne, Trees, Names
  <2>2. QED
    BY <1>20, <2>1 DEF RestoreRemove, RemoveOne
<1>21. ASSUME NEW a \in Restorers, RestoreWrite(a) PROVE NoStreams'

  <2>1. PICK n \in wrts[a] : live' = [live EXCEPT ![n] = snap[a][n]]
    BY <1>21 DEF RestoreWrite
  <2>2. n \in DOMAIN backup /\ snap[a][n] = backup[n] /\ backup \in Manifests
    BY <1>21, RestoredFromBackup
  <2>3. ~streamDir /\ n \in StreamNames => snap[a][n] = NoFile
    BY <2>2, ManifestDomain, ConstantsAssumption
  <2>4. ~streamDir => \A m \in StreamNames : live'[m] = NoFile
    BY <2>1, <2>3 DEF Trees, Names
  <2>5. QED
    BY <1>21, <2>4 DEF RestoreWrite
<1>22. ASSUME NEW a \in Restorers, RestoreDirDone(a) PROVE NoStreams'
  BY <1>22 DEF RestoreDirDone, StreamsNext, Go, At
<1>23. ASSUME NEW a \in Restorers, RestoreFails(a) PROVE NoStreams'
  BY <1>23 DEF RestoreFails, Go, End, ForgetLoop, ForgetMemory
<1>24. CASE RollbackReload
  BY <1>24 DEF RollbackReload, ReloadAnswer, Go, At
<1>25. CASE WriteReport
  BY <1>25 DEF WriteReport, Go, At
<1>26. CASE ClearMarker
  BY <1>26 DEF ClearMarker, End, ForgetLoop, ForgetMemory, At
<1>27. CASE PanelStarts
  BY <1>27 DEF PanelStarts, Go, Idle
<1>28. CASE RecoverTest
  BY <1>28 DEF RecoverTest, Go, At
<1>29. CASE RecoverReload
  BY <1>29 DEF RecoverReload, ReloadAnswer, Go, At
<1>30. CASE RecoverClear
  BY <1>30 DEF RecoverClear, End, ForgetLoop, ForgetMemory, At
<1>31. CASE EnableStreams
  BY <1>31 DEF EnableStreams, Go, Idle
<1>32. CASE EnableTest
  BY <1>32 DEF EnableTest, Go, At
<1>33. CASE EnableReload
  BY <1>33 DEF EnableReload, ReloadAnswer, Go, At
<1>34. CASE AngieReloads
  BY <1>34 DEF AngieReloads
<1>35. CASE Stage
  BY <1>35 DEF Stage
<1>36. CASE OperatorEdits
  BY <1>36 DEF OperatorEdits, Idle
<1>37. ASSUME NEW a \in Actors, Dies(a) PROVE NoStreams'
  BY <1>37 DEF Dies, End, ForgetLoop, ForgetMemory
<1>38. CASE PowerFails
  BY <1>38 DEF PowerFails, End, ForgetLoop, ForgetMemory
<1>39. CASE UNCHANGED vars
  BY <1>39 DEF vars
<1>40. QED
  BY <1>1, <1>2, <1>3, <1>4, <1>5, <1>6, <1>7, <1>8, <1>9, <1>10, <1>11, <1>12,
     <1>13, <1>14, <1>15, <1>16, <1>17, <1>18, <1>19, <1>20, <1>21, <1>22, <1>23, <1>24,
     <1>25, <1>26, <1>27, <1>28, <1>29, <1>30, <1>31, <1>32, <1>33, <1>34, <1>35, <1>36,
     <1>37, <1>38, <1>39
     DEF Next, ApplyStep, RecoverStep, EnableStep, Environment, Restore

(* The manifest written for http.d is what was captured there.             *)
LEMMA SnapshotTaken ==
    ASSUME RecoverInv, SnapshotHttp
    PROVE  /\ \A n \in HttpNames : backup'[n] = pre[n] /\ snap'["apply"][n] = pre[n]
           /\ DOMAIN snap'["apply"] = HttpNames
           /\ pre = Managed(live) /\ UNCHANGED <<pre, live>> /\ marker'
<1> DEFINE taken == Only(Managed(live), HttpNames)
<1>1. pre = Managed(live) /\ marker
  BY DEF SnapshotHttp, At, RecoverInv, Snapshotting
<1>2. live \in Trees /\ backup \in Manifests \cup {NoBackup} /\ snap \in [Restorers -> Manifests]
  BY DEF RecoverInv, TypeOK
<1>3. DOMAIN taken = HttpNames /\ \A n \in HttpNames : taken[n] = pre[n]
  BY <1>1, <1>2 DEF Only
<1>4. snap'["apply"] = taken
  BY <1>2 DEF SnapshotHttp, Restorers
<1>5. CASE backup' = taken
  BY <1>1, <1>3, <1>4, <1>5 DEF SnapshotHttp, etc
<1>6. CASE /\ backup # NoBackup
           /\ backup' = [n \in DOMAIN backup |-> IF n \in HttpNames THEN taken[n] ELSE backup[n]]
  <2>1. HttpNames \subseteq DOMAIN backup
    BY <1>2, <1>6, ManifestDomain
  <2>2. \A n \in HttpNames : backup'[n] = taken[n]
    BY <1>6, <2>1
  <2>3. QED
    BY <1>1, <1>3, <1>4, <2>2 DEF SnapshotHttp, etc
<1>7. QED
  BY <1>5, <1>6 DEF SnapshotHttp

(* The helper's loops touch only what the newest backup holds.             *)
LEMMA LoopCovered ==
    ASSUME RecoverInv, NEW a \in Restorers, NEW n \in dels[a] \cup wrts[a],
           pc[a] \in {"files", "restoring"}
    PROVE  n \in DOMAIN backup
<1>1. n \in DirNames(dir[a]) /\ dir[a] \in {"http", "stream"}
  BY DEF RecoverInv, LoopOK, TypeOK
<1>2. pc["recover"] # "files"
  BY DEF RecoverInv, TypeOK, Labels, Actors, Restorers
<1>3. CASE a = "apply"
  <2>1. backup \in Manifests /\ (dir[a] = "stream" => Covered)
    BY <1>3 DEF RecoverInv, Restoring, Mutating
  <2>2. QED
    BY <1>1, <2>1, ManifestDomain DEF DirNames, Covered, Names
<1>4. CASE a = "recover"
  <2>1. snap[a] = backup /\ snap[a] \in Manifests
    BY <1>2, <1>4 DEF RecoverInv, Restoring, TypeOK
  <2>2. dir[a] = "stream" => StreamNames \subseteq DOMAIN backup
    BY <1>2, <1>4, <2>1 DEF RecoverInv, LoopOK
  <2>3. QED
    BY <1>1, <2>1, <2>2, ManifestDomain DEF DirNames
<1>5. QED
  BY <1>3, <1>4 DEF Restorers


(* A change under names the newest backup holds loses nothing.             *)
LEMMA TouchCovered ==
    ASSUME RecoverInv, live' \in Trees,
           UNCHANGED <<streamDir, backup, marker, pre, open>>,
           \A m \in Names : open /\ m \notin DOMAIN backup => live'[m] = live[m]
    PROVE  (open /\ streamDir => Covered)' /\ Recoverable'
<1>1. (open /\ streamDir => Covered) /\ Recoverable /\ live \in Trees
  BY DEF RecoverInv, TypeOK
<1>2. DOMAIN live = Names /\ DOMAIN live' = Names
  BY <1>1 DEF Trees
<1>3. open => \A m \in Names \ DOMAIN backup : Managed(live')[m] = Managed(live)[m]
  BY <1>2 DEF Managed
<1>4. QED
  BY <1>1, <1>3 DEF Recoverable, Covered


(* Nothing changes under the snapshot.                                     *)
LEMMA SnapshottingNext ==
    ASSUME "recover" \notin Overlaps, RecoverInv, [Next]_vars
    PROVE  Snapshotting'
<1>0. TypeOK' /\ LoopOK'
  BY TypeNext, LoopNext DEF RecoverInv
<1> USE <1>0 DEF RecoverInv, Snapshotting, TypeOK, Actors, Restorers, Alone, etc, data, angie, loop, memory, history
<1>1. CASE Load
  BY <1>1 DEF Load, Go, Idle, Managed
<1>2. CASE StreamGate
  BY <1>2 DEF StreamGate, Reject, Go, At
<1>3. CASE Lint
  BY <1>3 DEF Lint, Reject, Go, At
<1>4. CASE TestStaged
  BY <1>4 DEF TestStaged, Reject, Go, At
<1>5. CASE WriteRejection
  BY <1>5 DEF WriteRejection, End, ForgetLoop, ForgetMemory, At
<1>6. CASE SetMarker
  BY <1>6 DEF SetMarker, Go, At
<1>7. CASE SnapshotHttp

  <2>1. pc["apply"] = "snap_http" /\ ~open
    BY <1>7 DEF SnapshotHttp, At
  <2>2. pc'["apply"] = IF manage THEN "snap_stream" ELSE "scan"
    BY <1>7 DEF SnapshotHttp, SnapshotsStreams, Go
  <2>3. open' = ~manage /\ manage' = manage
    BY <1>7 DEF SnapshotHttp, SnapshotsStreams
  <2>4. QED
    BY <1>7, <2>2, <2>3, SnapshotTaken, SnapshotType
<1>8. CASE SnapshotStream
  BY <1>8 DEF SnapshotStream, Go, At
<1>9. CASE SyncScan
  BY <1>9 DEF SyncScan, Fail, Go, At, Stale
<1>10. CASE SyncRemove
  BY <1>10 DEF SyncRemove, RemoveOne, At
<1>11. CASE SyncWrite
  BY <1>11 DEF SyncWrite, At
<1>12. CASE SyncDirDone
  BY <1>12 DEF SyncDirDone, Go, At
<1>13. CASE SyncFault
  BY <1>13 DEF SyncFault, Fail, Go
<1>14. CASE TestLive
  BY <1>14 DEF TestLive, Fail, Go, At
<1>15. CASE ReadBaseline
  BY <1>15 DEF ReadBaseline, Go, At
<1>16. CASE Reload
  BY <1>16 DEF Reload, ReloadAnswer, Fail, Go, At
<1>17. CASE VerifyOk
  BY <1>17 DEF VerifyOk, Go, At
<1>18. CASE VerifyTimeout
  BY <1>18 DEF VerifyTimeout, Fail, Go, At
<1>19. ASSUME NEW a \in Restorers, RestoreScan(a) PROVE Snapshotting'
  BY <1>19 DEF RestoreScan, Go, At, Stale
<1>20. ASSUME NEW a \in Restorers, RestoreRemove(a) PROVE Snapshotting'
  BY <1>20 DEF RestoreRemove, RemoveOne, At
<1>21. ASSUME NEW a \in Restorers, RestoreWrite(a) PROVE Snapshotting'
  BY <1>21 DEF RestoreWrite, At
<1>22. ASSUME NEW a \in Restorers, RestoreDirDone(a) PROVE Snapshotting'
  BY <1>22 DEF RestoreDirDone, StreamsNext, Go, At
<1>23. ASSUME NEW a \in Restorers, RestoreFails(a) PROVE Snapshotting'
  BY <1>23 DEF RestoreFails, Go, End, ForgetLoop, ForgetMemory
<1>24. CASE RollbackReload
  BY <1>24 DEF RollbackReload, ReloadAnswer, Go, At
<1>25. CASE WriteReport
  BY <1>25 DEF WriteReport, Go, At
<1>26. CASE ClearMarker
  BY <1>26 DEF ClearMarker, End, ForgetLoop, ForgetMemory, At
<1>27. CASE PanelStarts
  BY <1>27 DEF PanelStarts, Go, Idle
<1>28. CASE RecoverTest
  BY <1>28 DEF RecoverTest, Go, At
<1>29. CASE RecoverReload
  BY <1>29 DEF RecoverReload, ReloadAnswer, Go, At
<1>30. CASE RecoverClear
  BY <1>30 DEF RecoverClear, End, ForgetLoop, ForgetMemory, At
<1>31. CASE EnableStreams
  BY <1>31 DEF EnableStreams, Go, Idle
<1>32. CASE EnableTest
  BY <1>32 DEF EnableTest, Go, At
<1>33. CASE EnableReload
  BY <1>33 DEF EnableReload, ReloadAnswer, Go, At
<1>34. CASE AngieReloads
  BY <1>34 DEF AngieReloads
<1>35. CASE Stage
  BY <1>35 DEF Stage
<1>36. CASE OperatorEdits
  BY <1>36 DEF OperatorEdits, Idle
<1>37. ASSUME NEW a \in Actors, Dies(a) PROVE Snapshotting'
  BY <1>37 DEF Dies, End, ForgetLoop, ForgetMemory
<1>38. CASE PowerFails
  BY <1>38 DEF PowerFails, End, ForgetLoop, ForgetMemory
<1>39. CASE UNCHANGED vars
  BY <1>39 DEF vars
<1>40. QED
  BY <1>1, <1>2, <1>3, <1>4, <1>5, <1>6, <1>7, <1>8, <1>9, <1>10, <1>11, <1>12,
     <1>13, <1>14, <1>15, <1>16, <1>17, <1>18, <1>19, <1>20, <1>21, <1>22, <1>23, <1>24,
     <1>25, <1>26, <1>27, <1>28, <1>29, <1>30, <1>31, <1>32, <1>33, <1>34, <1>35, <1>36,
     <1>37, <1>38, <1>39
     DEF Next, ApplyStep, RecoverStep, EnableStep, Environment, Restore

(* What is restored is the newest backup.                                  *)
LEMMA RestoringNext ==
    ASSUME "recover" \notin Overlaps, RecoverInv, [Next]_vars
    PROVE  Restoring'
<1>0. TypeOK' /\ LoopOK'
  BY TypeNext, LoopNext DEF RecoverInv
<1> USE <1>0 DEF RecoverInv, Restoring, Mutating, Covered, TypeOK, Actors, Restorers, Alone, etc, data, angie, loop, memory, history
<1>1. CASE Load
  BY <1>1 DEF Load, Go, Idle, Managed
<1>2. CASE StreamGate
  BY <1>2 DEF StreamGate, Reject, Go, At
<1>3. CASE Lint
  BY <1>3 DEF Lint, Reject, Go, At
<1>4. CASE TestStaged
  BY <1>4 DEF TestStaged, Reject, Go, At
<1>5. CASE WriteRejection
  BY <1>5 DEF WriteRejection, End, ForgetLoop, ForgetMemory, At
<1>6. CASE SetMarker
  BY <1>6 DEF SetMarker, Go, At
<1>7. CASE SnapshotHttp

  <2>1. backup' \in Manifests /\ HttpNames \subseteq DOMAIN backup'
    BY <1>7, SnapshotType, ManifestDomain
  <2>2. pc'["apply"] = (IF manage THEN "snap_stream" ELSE "scan") /\ pc'["recover"] = pc["recover"]
    BY <1>7 DEF SnapshotHttp, SnapshotsStreams, Go
  <2>3. dir'["apply"] = "http" /\ manage' = manage
    BY <1>7 DEF SnapshotHttp
  <2>4. pc["recover"] = "idle"
    BY <1>7 DEF SnapshotHttp, At
  <2>5. QED
    BY <1>7, <2>1, <2>2, <2>3, <2>4, SnapshotTaken
<1>8. CASE SnapshotStream

  <2>1. backup' \in ManagedTrees /\ snap'["apply"] = backup' /\ manage' = manage
    <3>1. backup \in Manifests
      BY <1>8 DEF SnapshotStream, At, Snapshotting
    <3>2. QED
      BY <1>8, <3>1 DEF SnapshotStream, Manifests, ManagedTrees, Managed, Trees, Names
  <2>2. pc["recover"] = "idle" /\ pc'["recover"] = pc["recover"] /\ pc'["apply"] = "scan"
    BY <1>8 DEF SnapshotStream, Go, At
  <2>3. manage
    BY <1>8 DEF SnapshotStream, At, Snapshotting
  <2>4. backup' \in Manifests
    BY <2>1 DEF Manifests
  <2>5. QED
    BY <2>1, <2>2, <2>3, <2>4
<1>9. CASE SyncScan
  BY <1>9 DEF SyncScan, Fail, Go, At, Stale
<1>10. CASE SyncRemove
  BY <1>10 DEF SyncRemove, RemoveOne, At
<1>11. CASE SyncWrite
  BY <1>11 DEF SyncWrite, At
<1>12. CASE SyncDirDone
  BY <1>12 DEF SyncDirDone, Go, At
<1>13. CASE SyncFault
  BY <1>13 DEF SyncFault, Fail, Go
<1>14. CASE TestLive
  BY <1>14 DEF TestLive, Fail, Go, At
<1>15. CASE ReadBaseline
  BY <1>15 DEF ReadBaseline, Go, At
<1>16. CASE Reload
  BY <1>16 DEF Reload, ReloadAnswer, Fail, Go, At
<1>17. CASE VerifyOk
  BY <1>17 DEF VerifyOk, Go, At
<1>18. CASE VerifyTimeout
  BY <1>18 DEF VerifyTimeout, Fail, Go, At
<1>19. ASSUME NEW a \in Restorers, RestoreScan(a) PROVE Restoring'
  BY <1>19 DEF RestoreScan, Go, At, Stale
<1>20. ASSUME NEW a \in Restorers, RestoreRemove(a) PROVE Restoring'
  BY <1>20 DEF RestoreRemove, RemoveOne, At
<1>21. ASSUME NEW a \in Restorers, RestoreWrite(a) PROVE Restoring'
  BY <1>21 DEF RestoreWrite, At
<1>22. ASSUME NEW a \in Restorers, RestoreDirDone(a) PROVE Restoring'

  <2>1. UNCHANGED <<backup, snap, manage, streamDir>>
    BY <1>22 DEF RestoreDirDone
  <2>2. a = "apply" /\ dir'["apply"] = "stream" => Covered
    <3>1. SUFFICES ASSUME a = "apply", dir["apply"] # "stream", dir'["apply"] = "stream"
                   PROVE  Covered
      BY <1>22 DEF RestoreDirDone, At
    <3>2. StreamNames \subseteq DOMAIN snap["apply"]
      BY <1>22, <3>1 DEF RestoreDirDone, StreamsNext
    <3>3. StreamNames \subseteq DOMAIN backup /\ backup \in Manifests
      BY <1>22, <3>1, <3>2 DEF RestoreDirDone, At
    <3>4. QED
      BY <3>3, ManifestDomain, ConstantsAssumption
  <2>3. pc'[a] \in {"restore", "rb_reload"} /\ \A b \in Actors : b # a => pc'[b] = pc[b]
    BY <1>22 DEF RestoreDirDone, Go
  <2>4. \A b \in Restorers : b # a => dir'[b] = dir[b]
    BY <1>22 DEF RestoreDirDone
  <2>5. pc[a] = "restoring"
    BY <1>22 DEF RestoreDirDone, At
  <2>6. QED
    BY <2>1, <2>2, <2>3, <2>4, <2>5
<1>23. ASSUME NEW a \in Restorers, RestoreFails(a) PROVE Restoring'
  BY <1>23 DEF RestoreFails, Go, End, ForgetLoop, ForgetMemory
<1>24. CASE RollbackReload
  BY <1>24 DEF RollbackReload, ReloadAnswer, Go, At
<1>25. CASE WriteReport
  BY <1>25 DEF WriteReport, Go, At
<1>26. CASE ClearMarker
  BY <1>26 DEF ClearMarker, End, ForgetLoop, ForgetMemory, At
<1>27. CASE PanelStarts
  BY <1>27 DEF PanelStarts, Go, Idle
<1>28. CASE RecoverTest
  BY <1>28 DEF RecoverTest, Go, At
<1>29. CASE RecoverReload
  BY <1>29 DEF RecoverReload, ReloadAnswer, Go, At
<1>30. CASE RecoverClear
  BY <1>30 DEF RecoverClear, End, ForgetLoop, ForgetMemory, At
<1>31. CASE EnableStreams
  BY <1>31 DEF EnableStreams, Go, Idle
<1>32. CASE EnableTest
  BY <1>32 DEF EnableTest, Go, At
<1>33. CASE EnableReload
  BY <1>33 DEF EnableReload, ReloadAnswer, Go, At
<1>34. CASE AngieReloads
  BY <1>34 DEF AngieReloads
<1>35. CASE Stage
  BY <1>35 DEF Stage
<1>36. CASE OperatorEdits
  BY <1>36 DEF OperatorEdits, Idle
<1>37. ASSUME NEW a \in Actors, Dies(a) PROVE Restoring'
  BY <1>37 DEF Dies, End, ForgetLoop, ForgetMemory
<1>38. CASE PowerFails
  BY <1>38 DEF PowerFails, End, ForgetLoop, ForgetMemory
<1>39. CASE UNCHANGED vars
  BY <1>39 DEF vars
<1>40. QED
  BY <1>1, <1>2, <1>3, <1>4, <1>5, <1>6, <1>7, <1>8, <1>9, <1>10, <1>11, <1>12,
     <1>13, <1>14, <1>15, <1>16, <1>17, <1>18, <1>19, <1>20, <1>21, <1>22, <1>23, <1>24,
     <1>25, <1>26, <1>27, <1>28, <1>29, <1>30, <1>31, <1>32, <1>33, <1>34, <1>35, <1>36,
     <1>37, <1>38, <1>39
     DEF Next, ApplyStep, RecoverStep, EnableStep, Environment, Restore

(* What recovery needs stays.                                              *)
LEMMA RecoverableNext ==
    ASSUME "recover" \notin Overlaps, RecoverInv, [Next]_vars
    PROVE  (open /\ streamDir => Covered)' /\ Recoverable'
<1>0. TypeOK' /\ LoopOK'
  BY TypeNext, LoopNext DEF RecoverInv
<1> USE <1>0 DEF RecoverInv, Recoverable, Covered, TypeOK, Actors, Restorers, Alone, etc, data, angie, loop, memory, history
<1>1. CASE Load
  BY <1>1 DEF Load, Go, Idle, Managed
<1>2. CASE StreamGate
  BY <1>2 DEF StreamGate, Reject, Go, At
<1>3. CASE Lint
  BY <1>3 DEF Lint, Reject, Go, At
<1>4. CASE TestStaged
  BY <1>4 DEF TestStaged, Reject, Go, At
<1>5. CASE WriteRejection
  BY <1>5 DEF WriteRejection, End, ForgetLoop, ForgetMemory, At
<1>6. CASE SetMarker
  BY <1>6 DEF SetMarker, Go, At
<1>7. CASE SnapshotHttp

  <2>1. backup' \in Manifests
    BY <1>7, SnapshotType
  <2>2. backup' # NoBackup
    BY <2>1, ConstantsAssumption
  <2>3. open' => ~streamDir /\ ~streamDir'
    BY <1>7 DEF SnapshotHttp, SnapshotsStreams, NoStreams, At
  <2>4. open' => \A n \in StreamNames : pre[n] = NoFile /\ Managed(live)[n] = NoFile
    BY <1>7, <2>3, SnapshotTaken DEF NoStreams, Managed, Trees, Names
  <2>5. open' /\ Covered' => \A n \in StreamNames : backup'[n] = NoFile
    BY <1>7, <2>3, <1>0, NoStreamsNext DEF NoStreams
  <2>6. open' => \A n \in DOMAIN backup' : backup'[n] = pre[n]
    BY <1>7, <2>1, <2>4, <2>5, SnapshotTaken, ManifestDomain DEF Names
  <2>7. QED
    BY <1>7, <2>2, <2>3, <2>6, SnapshotTaken
<1>8. CASE SnapshotStream

  <2>1. marker /\ pre = Managed(live) /\ \A n \in HttpNames : backup[n] = pre[n]
    BY <1>8 DEF SnapshotStream, At, Snapshotting
  <2>2. DOMAIN backup' = Names /\ \A n \in Names : backup'[n] = pre[n]
    BY <1>8, <2>1 DEF SnapshotStream, Names
  <2>3. UNCHANGED <<live, marker, pre>> /\ backup' \in Manifests /\ Covered'
    <3>1. backup \in Manifests
      BY <1>8 DEF SnapshotStream, At, Snapshotting
    <3>2. backup' \in ManagedTrees
      BY <1>8, <3>1 DEF SnapshotStream, Manifests, ManagedTrees, Managed, Trees, Names
    <3>3. QED
      BY <1>8, <3>2 DEF SnapshotStream, Manifests
  <2>4. QED
    BY <2>1, <2>2, <2>3, ConstantsAssumption
<1>9. CASE SyncScan

  <2>1. dir["apply"] = "stream" => Covered
    BY <1>9 DEF SyncScan, At, Restoring, Mutating
  <2>2. UNCHANGED <<live, backup, marker, pre, open>>
    BY <1>9 DEF SyncScan
  <2>3. streamDir' = (streamDir \/ dir["apply"] = "stream")
    BY <1>9 DEF SyncScan
  <2>4. QED
    BY <2>1, <2>2, <2>3
<1>10. CASE SyncRemove

  <2>1. PICK n \in dels["apply"] : live' = [live EXCEPT ![n] = NoFile]
    BY <1>10 DEF SyncRemove, RemoveOne
  <2>2. n \in DOMAIN backup
    BY <1>10, LoopCovered DEF SyncRemove, RemoveOne, At
  <2>3. \A m \in Names : m \notin DOMAIN backup => live'[m] = live[m]
    BY <2>1, <2>2 DEF Trees
  <2>4. QED
    BY <1>10, <2>3, TouchCovered DEF SyncRemove, RemoveOne
<1>11. CASE SyncWrite

  <2>1. PICK n \in wrts["apply"] : live' = [live EXCEPT ![n] = Wanted[n]]
    BY <1>11 DEF SyncWrite
  <2>2. n \in DOMAIN backup
    BY <1>11, LoopCovered DEF SyncWrite, At
  <2>3. \A m \in Names : m \notin DOMAIN backup => live'[m] = live[m]
    BY <2>1, <2>2 DEF Trees
  <2>4. QED
    BY <1>11, <2>3, TouchCovered DEF SyncWrite
<1>12. CASE SyncDirDone
  BY <1>12 DEF SyncDirDone, Go, At
<1>13. CASE SyncFault
  BY <1>13 DEF SyncFault, Fail, Go
<1>14. CASE TestLive
  BY <1>14 DEF TestLive, Fail, Go, At
<1>15. CASE ReadBaseline
  BY <1>15 DEF ReadBaseline, Go, At
<1>16. CASE Reload
  BY <1>16 DEF Reload, ReloadAnswer, Fail, Go, At
<1>17. CASE VerifyOk
  BY <1>17 DEF VerifyOk, Go, At
<1>18. CASE VerifyTimeout
  BY <1>18 DEF VerifyTimeout, Fail, Go, At
<1>19. ASSUME NEW a \in Restorers, RestoreScan(a) PROVE (open /\ streamDir => Covered)' /\ Recoverable'
  BY <1>19 DEF RestoreScan, Go, At, Stale
<1>20. ASSUME NEW a \in Restorers, RestoreRemove(a) PROVE (open /\ streamDir => Covered)' /\ Recoverable'

  <2>1. PICK n \in dels[a] : live' = [live EXCEPT ![n] = NoFile]
    BY <1>20 DEF RestoreRemove, RemoveOne
  <2>2. n \in DOMAIN backup
    BY <1>20, LoopCovered DEF RestoreRemove, RemoveOne, At
  <2>3. \A m \in Names : m \notin DOMAIN backup => live'[m] = live[m]
    BY <2>1, <2>2 DEF Trees
  <2>4. QED
    BY <1>20, <2>3, TouchCovered DEF RestoreRemove, RemoveOne
<1>21. ASSUME NEW a \in Restorers, RestoreWrite(a) PROVE (open /\ streamDir => Covered)' /\ Recoverable'

  <2>1. PICK n \in wrts[a] : live' = [live EXCEPT ![n] = snap[a][n]]
    BY <1>21 DEF RestoreWrite
  <2>2. n \in DOMAIN backup
    BY <1>21, LoopCovered DEF RestoreWrite, At
  <2>3. \A m \in Names : m \notin DOMAIN backup => live'[m] = live[m]
    BY <2>1, <2>2 DEF Trees
  <2>4. QED
    BY <1>21, <2>3, TouchCovered DEF RestoreWrite
<1>22. ASSUME NEW a \in Restorers, RestoreDirDone(a) PROVE (open /\ streamDir => Covered)' /\ Recoverable'
  BY <1>22 DEF RestoreDirDone, StreamsNext, Go, At
<1>23. ASSUME NEW a \in Restorers, RestoreFails(a) PROVE (open /\ streamDir => Covered)' /\ Recoverable'
  BY <1>23 DEF RestoreFails, Go, End, ForgetLoop, ForgetMemory
<1>24. CASE RollbackReload
  BY <1>24 DEF RollbackReload, ReloadAnswer, Go, At
<1>25. CASE WriteReport
  BY <1>25 DEF WriteReport, Go, At
<1>26. CASE ClearMarker
  BY <1>26 DEF ClearMarker, End, ForgetLoop, ForgetMemory, At
<1>27. CASE PanelStarts
  BY <1>27 DEF PanelStarts, Go, Idle
<1>28. CASE RecoverTest
  BY <1>28 DEF RecoverTest, Go, At
<1>29. CASE RecoverReload
  BY <1>29 DEF RecoverReload, ReloadAnswer, Go, At
<1>30. CASE RecoverClear
  BY <1>30 DEF RecoverClear, End, ForgetLoop, ForgetMemory, At
<1>31. CASE EnableStreams
  BY <1>31 DEF EnableStreams, Go, Idle
<1>32. CASE EnableTest
  BY <1>32 DEF EnableTest, Go, At
<1>33. CASE EnableReload
  BY <1>33 DEF EnableReload, ReloadAnswer, Go, At
<1>34. CASE AngieReloads
  BY <1>34 DEF AngieReloads
<1>35. CASE Stage
  BY <1>35 DEF Stage
<1>36. CASE OperatorEdits

  <2>1. PICK n \in OperatorNames, c \in OperatorContents :
           (n \in StreamNames => streamDir) /\ live' = [live EXCEPT ![n] = c]
    BY <1>36 DEF OperatorEdits
  <2>2. open => n \in DOMAIN backup
    <3>1. n \in Names
      BY ConstantsAssumption
    <3>2. open => backup \in Manifests
      OBVIOUS
    <3>3. open /\ n \in StreamNames => DOMAIN backup = Names
      BY <2>1, <3>2, ManifestDomain
    <3>4. QED
      BY <3>1, <3>2, <3>3, ManifestDomain DEF Names
  <2>3. \A m \in Names : open /\ m \notin DOMAIN backup => live'[m] = live[m]
    BY <2>1, <2>2 DEF Trees
  <2>4. QED
    BY <1>36, <2>3, TouchCovered DEF OperatorEdits
<1>37. ASSUME NEW a \in Actors, Dies(a) PROVE (open /\ streamDir => Covered)' /\ Recoverable'
  BY <1>37 DEF Dies, End, ForgetLoop, ForgetMemory
<1>38. CASE PowerFails
  BY <1>38 DEF PowerFails, End, ForgetLoop, ForgetMemory
<1>39. CASE UNCHANGED vars
  BY <1>39 DEF vars
<1>40. QED
  BY <1>1, <1>2, <1>3, <1>4, <1>5, <1>6, <1>7, <1>8, <1>9, <1>10, <1>11, <1>12,
     <1>13, <1>14, <1>15, <1>16, <1>17, <1>18, <1>19, <1>20, <1>21, <1>22, <1>23, <1>24,
     <1>25, <1>26, <1>27, <1>28, <1>29, <1>30, <1>31, <1>32, <1>33, <1>34, <1>35, <1>36,
     <1>37, <1>38, <1>39
     DEF Next, ApplyStep, RecoverStep, EnableStep, Environment, Restore

(* The loops start empty.                                                  *)
LEMMA LoopInit == Init => LoopOK
    BY DEF Init, LoopOK, Fresh, Restorers, Actors

(* The type invariant, with what makes it inductive.                       *)
LEMMA Typed == Spec => [](TypeOK /\ LoopOK)
<1>1. Init => TypeOK /\ LoopOK
  BY TypeInit, LoopInit
<1>2. TypeOK /\ LoopOK /\ [Next]_vars => (TypeOK /\ LoopOK)'
  BY TypeNext, LoopNext
<1>3. QED
  BY <1>1, <1>2, PTL DEF Spec

(* Every variable stays in its set, whatever the files, the staged sets,   *)
(* the verdicts of angie -t and the processes that overlap.                *)
THEOREM TypeCorrect == Spec => []TypeOK
  BY Typed, PTL

(* The initial states satisfy the inductive invariant.                     *)
LEMMA RecoverInit == Init => RecoverInv
<1>1. SUFFICES ASSUME Init PROVE RecoverInv
  OBVIOUS
<1>2. NoBackup \notin ManagedTrees
  BY ConstantsAssumption DEF Manifests
<1>3. QED
  BY <1>1, <1>2, TypeInit, LoopInit
     DEF Init, RecoverInv, NoStreams, Snapshotting, Restoring, Mutating, Alone,
         Covered, Recoverable, Actors, Restorers

(* The inductive invariant holds throughout when recovery does not run     *)
(* beside a helper.                                                        *)
LEMMA RecoverHolds ==
    ASSUME "recover" \notin Overlaps
    PROVE  Spec => []RecoverInv
<1>1. Init => RecoverInv
  BY RecoverInit
<1>2. RecoverInv /\ [Next]_vars => RecoverInv'
  <2>1. SUFFICES ASSUME RecoverInv, [Next]_vars PROVE RecoverInv'
    OBVIOUS
  <2>2. TypeOK' /\ LoopOK'
    BY <2>1, TypeNext, LoopNext DEF RecoverInv
  <2>3. QED
    BY <2>1, <2>2, AloneNext, NoStreamsNext, SnapshottingNext, RestoringNext, RecoverableNext
       DEF RecoverInv
<1>3. QED
  BY <1>1, <1>2, PTL DEF Spec

(* Whatever the files and wherever the helper dies, from the first change  *)
(* of a live file until the marker is cleared recovery finds the marker,   *)
(* and a backup that is the tree from before the apply and covers every    *)
(* name the apply may have changed, provided that recovery does not run    *)
(* beside a helper (pipeline.rs:133-136).                                  *)
THEOREM RecoverySafe ==
    ASSUME "recover" \notin Overlaps
    PROVE  Spec => []Recoverable
<1>1. RecoverInv => Recoverable
  BY DEF RecoverInv
<1>2. QED
  BY <1>1, RecoverHolds, PTL

(* A name that is still to be removed, or that the helper is still to      *)
(* write, is not an operator's file.                                       *)
LoopSparesForeign ==
    \A a \in Restorers :
        /\ pc[a] \in {"files", "restoring"} => \A n \in dels[a] : live[n] # Foreign
        /\ pc[a] = "files" => \A n \in wrts[a] : live[n] # Foreign

(* Nobody makes a foreign file while a process is at work.                 *)
LEMMA NoNewForeign ==
    ASSUME TypeOK, LoopOK, [Next]_vars, NEW n \in Names,
           live[n] # Foreign, \E a \in Actors : ~Idle(a)
    PROVE  live'[n] # Foreign
<1>1. CASE SyncRemove
  BY <1>1, ConstantsAssumption DEF SyncRemove, RemoveOne, TypeOK, Trees
<1>2. CASE SyncWrite
  <2>1. \A m \in Names : staged[m] # Foreign
    BY ConstantsAssumption DEF TypeOK, ManagedTrees
  <2>2. QED
    BY <1>2, <2>1 DEF SyncWrite, Wanted, TypeOK, Trees
<1>3. ASSUME NEW a \in Restorers, RestoreRemove(a) PROVE live'[n] # Foreign
  BY <1>3, ConstantsAssumption DEF RestoreRemove, RemoveOne, TypeOK, Trees
<1>4. ASSUME NEW a \in Restorers, RestoreWrite(a) PROVE live'[n] # Foreign
  <2>1. PICK m \in wrts[a] : live' = [live EXCEPT ![m] = snap[a][m]]
    BY <1>4 DEF RestoreWrite
  <2>2. pc[a] = "restoring" /\ m \in DirNames(dir[a]) /\ snap[a] \in Manifests
    BY <1>4 DEF RestoreWrite, At, LoopOK, TypeOK
  <2>3. m \in DOMAIN snap[a]
    BY <1>4, <2>2, ManifestDomain DEF LoopOK, DirNames, TypeOK
  <2>4. snap[a][m] # Foreign
    BY <2>2, <2>3, ConstantsAssumption DEF Manifests, ManagedTrees
  <2>5. QED
    BY <2>1, <2>4 DEF TypeOK, Trees
<1>5. CASE OperatorEdits
  BY <1>5 DEF OperatorEdits
<1>6. CASE ~(SyncRemove \/ SyncWrite \/ OperatorEdits
             \/ \E a \in Restorers : RestoreRemove(a) \/ RestoreWrite(a))
  <2>1. live' = live
    BY <1>6 DEF Next, ApplyStep, RecoverStep, EnableStep, Environment, Restore, Restorers,
       Load, StreamGate, Lint, TestStaged, WriteRejection, SetMarker, SnapshotHttp,
       SnapshotStream, SyncScan, SyncDirDone, SyncFault, TestLive, ReadBaseline,
       Reload, VerifyOk, VerifyTimeout, RestoreScan, RestoreDirDone, RestoreFails,
       RollbackReload, WriteReport, ClearMarker, PanelStarts, RecoverTest,
       RecoverReload, RecoverClear, EnableStreams, EnableTest, EnableReload,
       AngieReloads, Stage, Dies, PowerFails, etc, vars
  <2>2. QED
    BY <2>1
<1>7. QED
  BY <1>1, <1>2, <1>3, <1>4, <1>5, <1>6

(* The loops go on sparing foreign files.                                  *)
LEMMA SparesNext ==
    TypeOK /\ LoopOK /\ LoopSparesForeign /\ [Next]_vars => LoopSparesForeign'
<1> SUFFICES ASSUME TypeOK, LoopOK, LoopSparesForeign, [Next]_vars PROVE LoopSparesForeign'
  OBVIOUS
<1>0. (\A b \in Actors : Idle(b)) \/ \A n \in Names : live[n] # Foreign => live'[n] # Foreign
  BY NoNewForeign
<1> USE <1>0, ConstantsAssumption DEF TypeOK, LoopSparesForeign, Idle, etc, data, angie, loop, memory, history, Actors, Restorers
<1>1. CASE Load
  BY <1>1 DEF Load, Go, Idle, Managed
<1>2. CASE StreamGate
  BY <1>2 DEF StreamGate, Reject, Go, At
<1>3. CASE Lint
  BY <1>3 DEF Lint, Reject, Go, At
<1>4. CASE TestStaged
  BY <1>4 DEF TestStaged, Reject, Go, At
<1>5. CASE WriteRejection
  BY <1>5 DEF WriteRejection, End, ForgetLoop, ForgetMemory, At
<1>6. CASE SetMarker
  BY <1>6 DEF SetMarker, Go, At
<1>7. CASE SnapshotHttp
  BY <1>7 DEF SnapshotHttp, SnapshotsStreams, Go, At
<1>8. CASE SnapshotStream
  BY <1>8 DEF SnapshotStream, Go, At
<1>9. CASE SyncScan
  <2>1. CASE Collides(dir["apply"])
    BY <1>9, <2>1 DEF SyncScan, Fail, Go, At
  <2>2. CASE ~Collides(dir["apply"])
    <3>1. \A n \in wrts'["apply"] : live[n] # Foreign
      BY <1>9, <2>2 DEF SyncScan, Collides
    <3>2. \A n \in dels'["apply"] : live[n] # Foreign
      BY <1>9, <2>2 DEF SyncScan, Stale
    <3>3. /\ live' = live
          /\ dels'["recover"] = dels["recover"] /\ wrts'["recover"] = wrts["recover"]
          /\ pc'["recover"] = pc["recover"]
      BY <1>9, <2>2 DEF SyncScan, Go
    <3>4. QED
      BY <3>1, <3>2, <3>3
  <2>3. QED
    BY <2>1, <2>2
<1>10. CASE SyncRemove
  BY <1>10 DEF SyncRemove, RemoveOne, At
<1>11. CASE SyncWrite
  BY <1>11 DEF SyncWrite, At
<1>12. CASE SyncDirDone
  BY <1>12 DEF SyncDirDone, Go, At
<1>13. CASE SyncFault
  BY <1>13 DEF SyncFault, Fail, Go
<1>14. CASE TestLive
  BY <1>14 DEF TestLive, Fail, Go, At
<1>15. CASE ReadBaseline
  BY <1>15 DEF ReadBaseline, Go, At
<1>16. CASE Reload
  BY <1>16 DEF Reload, ReloadAnswer, Fail, Go, At
<1>17. CASE VerifyOk
  BY <1>17 DEF VerifyOk, Go, At
<1>18. CASE VerifyTimeout
  BY <1>18 DEF VerifyTimeout, Fail, Go, At
<1>19. ASSUME NEW a \in Restorers, RestoreScan(a) PROVE LoopSparesForeign'
  BY <1>19 DEF RestoreScan, Go, At, Stale
<1>20. ASSUME NEW a \in Restorers, RestoreRemove(a) PROVE LoopSparesForeign'
  BY <1>20 DEF RestoreRemove, RemoveOne, At
<1>21. ASSUME NEW a \in Restorers, RestoreWrite(a) PROVE LoopSparesForeign'
  BY <1>21 DEF RestoreWrite, At
<1>22. ASSUME NEW a \in Restorers, RestoreDirDone(a) PROVE LoopSparesForeign'
  BY <1>22 DEF RestoreDirDone, StreamsNext, Go, At
<1>23. ASSUME NEW a \in Restorers, RestoreFails(a) PROVE LoopSparesForeign'
  BY <1>23 DEF RestoreFails, Go, End, ForgetLoop, ForgetMemory
<1>24. CASE RollbackReload
  BY <1>24 DEF RollbackReload, ReloadAnswer, Go, At
<1>25. CASE WriteReport
  BY <1>25 DEF WriteReport, Go, At
<1>26. CASE ClearMarker
  BY <1>26 DEF ClearMarker, End, ForgetLoop, ForgetMemory, At
<1>27. CASE PanelStarts
  BY <1>27 DEF PanelStarts, Go, Idle
<1>28. CASE RecoverTest
  BY <1>28 DEF RecoverTest, Go, At
<1>29. CASE RecoverReload
  BY <1>29 DEF RecoverReload, ReloadAnswer, Go, At
<1>30. CASE RecoverClear
  BY <1>30 DEF RecoverClear, End, ForgetLoop, ForgetMemory, At
<1>31. CASE EnableStreams
  BY <1>31 DEF EnableStreams, Go, Idle
<1>32. CASE EnableTest
  BY <1>32 DEF EnableTest, Go, At
<1>33. CASE EnableReload
  BY <1>33 DEF EnableReload, ReloadAnswer, Go, At
<1>34. CASE AngieReloads
  BY <1>34 DEF AngieReloads
<1>35. CASE Stage
  BY <1>35 DEF Stage
<1>36. CASE OperatorEdits
  BY <1>36 DEF OperatorEdits, Idle
<1>37. ASSUME NEW a \in Actors, Dies(a) PROVE LoopSparesForeign'
  BY <1>37 DEF Dies, End, ForgetLoop, ForgetMemory
<1>38. CASE PowerFails
  BY <1>38 DEF PowerFails, End, ForgetLoop, ForgetMemory
<1>39. CASE UNCHANGED vars
  BY <1>39 DEF vars
<1>40. QED
  BY <1>1, <1>2, <1>3, <1>4, <1>5, <1>6, <1>7, <1>8, <1>9, <1>10, <1>11, <1>12,
     <1>13, <1>14, <1>15, <1>16, <1>17, <1>18, <1>19, <1>20, <1>21, <1>22, <1>23, <1>24,
     <1>25, <1>26, <1>27, <1>28, <1>29, <1>30, <1>31, <1>32, <1>33, <1>34, <1>35, <1>36,
     <1>37, <1>38, <1>39
     DEF Next, ApplyStep, RecoverStep, EnableStep, Environment, Restore

(* Nothing the helper, recovery or the stream helper does touches a file   *)
(* without the header, whatever its name and whichever of them overlap     *)
(* (pipeline.rs:358, 372-382, manifest.rs:152-163).                        *)
THEOREM ForeignSafe == Spec => ForeignUntouched
<1>1. Init => LoopSparesForeign
  BY DEF Init, LoopSparesForeign, Actors, Restorers
<1>2. Spec => []LoopSparesForeign
  BY <1>1, SparesNext, Typed, PTL DEF Spec
<1>3. ASSUME TypeOK, LoopOK, LoopSparesForeign, [Next]_vars, NEW n \in Names,
             live[n] = Foreign, live'[n] # Foreign
      PROVE  \A a \in Actors : Idle(a)
  <2>1. ASSUME NEW a \in Restorers, NEW m \in dels[a], pc[a] \in {"files", "restoring"},
               live' = [live EXCEPT ![m] = NoFile]
        PROVE  FALSE
    BY <1>3, <2>1 DEF LoopSparesForeign, TypeOK, Trees
  <2>2. CASE SyncRemove
    BY <2>1, <2>2 DEF SyncRemove, RemoveOne, At, Restorers
  <2>3. ASSUME NEW a \in Restorers, RestoreRemove(a) PROVE FALSE
    BY <2>1, <2>3 DEF RestoreRemove, RemoveOne, At
  <2>4. CASE SyncWrite
    BY <1>3, <2>4 DEF SyncWrite, At, LoopSparesForeign, TypeOK, Trees, Restorers
  <2>5. ASSUME NEW a \in Restorers, RestoreWrite(a) PROVE FALSE
    BY <1>3, <2>5 DEF RestoreWrite, TypeOK, Trees
  <2>6. CASE OperatorEdits
    BY <2>6 DEF OperatorEdits
  <2>7. CASE ~(SyncRemove \/ SyncWrite \/ OperatorEdits
               \/ \E a \in Restorers : RestoreRemove(a) \/ RestoreWrite(a))
    BY <1>3, <2>7
       DEF Next, ApplyStep, RecoverStep, EnableStep, Environment, Restore, Restorers,
       Load, StreamGate, Lint, TestStaged, WriteRejection, SetMarker, SnapshotHttp,
       SnapshotStream, SyncScan, SyncDirDone, SyncFault, TestLive, ReadBaseline,
       Reload, VerifyOk, VerifyTimeout, RestoreScan, RestoreDirDone, RestoreFails,
       RollbackReload, WriteReport, ClearMarker, PanelStarts, RecoverTest,
       RecoverReload, RecoverClear, EnableStreams, EnableTest, EnableReload,
       AngieReloads, Stage, Dies, PowerFails, etc, vars
  <2>8. QED
    BY <2>2, <2>3, <2>4, <2>5, <2>6, <2>7
<1>4. TypeOK /\ LoopOK /\ LoopSparesForeign /\ [Next]_vars =>
        [\A n \in Names :
           live[n] = Foreign /\ live'[n] # Foreign => \A a \in Actors : Idle(a)]_vars
  BY <1>3
<1>5. QED
  BY <1>2, <1>4, Typed, PTL DEF Spec, ForeignUntouched

=============================================================================
