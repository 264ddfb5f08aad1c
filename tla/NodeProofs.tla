------------------------------ MODULE NodeProofs ------------------------------
(***************************************************************************)
(* Proofs about Node, for any number of processes and clients.             *)
(***************************************************************************)
EXTENDS Node, TLAPS

\* The steps between Lock and Close, of init, of run before the wait and of the node.
Locked == {"i load", "i write", "i version file", "i version write", "i close", "i fail",
           "r config", "r migrate", "r upgrade", "r write", "r version file", "r version write",
           "r token", "r close", "r build", "r start", "r listen", "serving"}

\* run has seen a configuration that passes Check.
Checked == {"r migrate", "r upgrade", "r write", "r version file", "r version write",
            "r token", "r close", "r wait", "r sync", "r relock", "r build", "r start",
            "r listen", "serving", "stopping"}

\* A file has been truncated and waits for its text.
Writing == {"i fill", "i write", "i version write", "r write", "r version write"}

\* A process has the lock exactly between Lock and Close, but a node that stops may end
\* with a lock that its repository did not close.
LockPlaces ==
    \A p \in Procs :
       /\ at[p] \in Locked \/ (at[p] = "stopping" /\ hooks[p] > 0) => held[p] # "no"
       /\ at[p] \notin Locked \cup {"stopping"} => held[p] = "no"

\* A process has a file open exactly between the halves of a write.
FilePlaces == \A p \in Procs : fd[p] # "none" <=> at[p] \in Writing

\* The lock on one directory is held once.
MutualExclusion == \A p, q \in Procs : held[p] = "now" /\ held[q] = "now" => p = q

\* The lock that excludes others is that of a directory that exists; another one, or a
\* file without a name, is left of a removal.
Removals ==
    \A p \in Procs :
       /\ held[p] = "now" => dir
       /\ held[p] = "gone" \/ fd[p] = "gone" => lost

\* From the truncation of a configuration on, what is there is not of v1.7.
VersionSteps ==
    \A p \in Procs :
       at[p] \in {"i write", "i version file", "i version write",
                  "r write", "r version file", "r version write"} =>
          config \notin {"old", "edited"}

\* Nothing passes Check that was not chosen.
ChosenFirst ==
    /\ Check(config) => chosen
    /\ \A p \in Procs : at[p] \in Checked => chosen

\* What Migrate has read passes Check, and has what it takes to be upgraded when the file
\* is truncated.
LoadedChecks ==
    ~lost => \A p \in Procs :
                /\ at[p] \in {"r upgrade", "r write"} => Check(loaded[p])
                /\ at[p] = "r write" => HasSlashFilter(loaded[p])

NodeIInv ==
    /\ NodeTypeOK /\ LockPlaces /\ FilePlaces /\ MutualExclusion /\ Removals
    /\ VersionSteps /\ VersionAfterUpgrade
    /\ ChosenFirst /\ ConfigSurvives /\ LoadedChecks /\ BuiltFromChecked

------------------------------------------------------------------------------
(* Type correctness *)

\* The end of a process keeps the types.
LEMMA EndType ==
    ASSUME NodeTypeOK, NEW p \in Procs, End(p), UNCHANGED files \/ CloseFile(p),
           lost' \in BOOLEAN, chosen' \in BOOLEAN
    PROVE  NodeTypeOK'
<1>1. cancelled' \in [Procs -> BOOLEAN]
  BY Zenon DEF End, NodeTypeOK
<1>2. at' \in [Procs -> Steps]
  BY DEF End, NodeTypeOK, Steps
<1>3. loaded' \in [Procs -> Configs \ {"old", "torn"}]
  BY DEF End, NodeTypeOK, Configs
<1>4. hooks' \in [Procs -> 0 .. 4] /\ held' \in [Procs -> {"no", "now", "gone"}]
  BY DEF End, NodeTypeOK, RepoTypeOK, Release
<1>5. calls' \in [Clients -> Procs \cup {nobody}]
  BY DEF End, NodeTypeOK
<1>6. UNCHANGED disk /\ fd' \in [Procs -> {"none", "file", "gone"}]
  BY DEF NodeTypeOK, RepoTypeOK, CloseFile, files
<1> QED BY <1>1, <1>2, <1>3, <1>4, <1>5, <1>6 DEF NodeTypeOK, RepoTypeOK, disk

\* So do the opening of a file and the text that it takes.
LEMMA FileType ==
    ASSUME RepoTypeOK, NEW p \in Procs, NEW c \in Configs, UNCHANGED held,
           \/ OpenConfig(p) \/ OpenVersion(p) \/ FillConfig(p, c) \/ FillVersion(p)
           \/ CloseFile(p) \/ UNCHANGED files
    PROVE  RepoTypeOK'
<1>1. fd' \in [Procs -> {"none", "file", "gone"}]
  BY DEF RepoTypeOK, OpenConfig, OpenVersion, FillConfig, FillVersion, CloseFile, files
<1>2. config' \in Configs
  BY DEF RepoTypeOK, OpenConfig, OpenVersion, FillConfig, FillVersion, CloseFile, files, disk,
      Overlay, Configs
<1>3. version' \in {"old", "now"} /\ UNCHANGED <<dir, api, token>>
  BY DEF RepoTypeOK, OpenConfig, OpenVersion, FillConfig, FillVersion, CloseFile, files, disk
<1> QED BY <1>1, <1>2, <1>3 DEF RepoTypeOK

\* And the two halves of SetConfig and of SetVersion.
LEMMA WriteType ==
    ASSUME NodeTypeOK, NEW p \in Procs, NEW next \in Steps, NEW failed \in Steps,
           NEW c \in Configs \ {"old", "torn"},
           \/ Truncate(p, c, next, failed)
           \/ Written(p, c, next, failed)
           \/ TruncateVersion(p, next, failed)
           \/ VersionWritten(p, next, failed)
    PROVE  NodeTypeOK'
<1>1. RepoTypeOK'
  BY FileType DEF NodeTypeOK, Truncate, Written, TruncateVersion, VersionWritten
<1>2. lost' \in BOOLEAN /\ chosen' \in BOOLEAN
  <2>1. CASE Written(p, c, next, failed)
    BY <2>1, Zenon DEF NodeTypeOK, Written
  <2> QED BY <2>1 DEF NodeTypeOK, Truncate, TruncateVersion, VersionWritten, past
<1>3. "none" \in Configs \ {"old", "torn"}
  BY DEF Configs
<1>4. PICK s \in Steps, d \in Configs \ {"old", "torn"} : Goto(p, s) \/ Load(p, d, s)
  BY <1>3 DEF Truncate, Written, TruncateVersion, VersionWritten
<1>5. at' \in [Procs -> Steps] /\ loaded' \in [Procs -> Configs \ {"old", "torn"}]
  BY <1>4 DEF NodeTypeOK, Goto, Load
<1>6. UNCHANGED <<cancelled, hooks, calls>>
  BY <1>4 DEF Goto, Load
<1> QED BY <1>1, <1>2, <1>5, <1>6 DEF NodeTypeOK

\* The number of hooks that are left stays in its range.
LEMMA HooksType ==
    ASSUME hooks \in [Procs -> 0 .. 4], NEW p \in Procs
    PROVE  /\ [hooks EXCEPT ![p] = 4] \in [Procs -> 0 .. 4]
           /\ hooks[p] > 0 => [hooks EXCEPT ![p] = @ - 1] \in [Procs -> 0 .. 4]
<1>1. hooks[p] > 0 => hooks[p] - 1 \in 0 .. 4
  OBVIOUS
<1> QED BY <1>1

\* The initial states are well formed.
LEMMA InitNodeTypeOK == NodeInit => NodeTypeOK
<1> SUFFICES ASSUME NodeInit PROVE NodeTypeOK
  OBVIOUS
<1>1. RepoTypeOK
  BY DEF NodeInit, RepoInit, RepoTypeOK, Configs
<1>2. cancelled \in [Procs -> BOOLEAN] /\ lost \in BOOLEAN /\ chosen \in BOOLEAN
  BY Zenon DEF NodeInit
<1> QED BY <1>1, <1>2 DEF NodeInit, NodeTypeOK, Steps, Configs

\* Every step of a process, of a client and of the operator keeps the types.
LEMMA NextNodeTypeOK ==
    NodeTypeOK /\ [NodeNext]_nodeVars => NodeTypeOK'
<1> SUFFICES ASSUME NodeTypeOK, [NodeNext]_nodeVars PROVE NodeTypeOK'
  OBVIOUS
<1> USE DEF NodeTypeOK, RepoTypeOK, Steps, Inits, Starts, Goto, files, disk, past
<1>1. ASSUME NEW p \in Procs, InitCmd(p) PROVE NodeTypeOK'
  BY <1>1 DEF InitCmd
<1>2. ASSUME NEW p \in Procs, InitChecks(p) PROVE NodeTypeOK'
  BY <1>2, EndType, ZenonT(40) DEF InitChecks, Try
<1>3. ASSUME NEW p \in Procs, InitRepository(p) \/ InitStat(p) PROVE NodeTypeOK'
  <2>1. CASE End(p) /\ UNCHANGED <<files, past>>
    BY <2>1, EndType
  <2>2. CASE ~(End(p) /\ UNCHANGED <<files, past>>)
    BY <1>3, <2>2 DEF InitRepository, InitStat, Mkdir
  <2> QED BY <2>1, <2>2
<1>30. ASSUME NEW p \in Procs, InitConfig(p) PROVE NodeTypeOK'
  <2>1. CASE End(p) /\ UNCHANGED past /\ (UNCHANGED files \/ CloseFile(p))
    BY <2>1, EndType
  <2>2. ASSUME NEW s \in {"i fill", "i params"}, OpenConfig(p) \/ FillConfig(p, "default"),
               Goto(p, s), Spoilt, UNCHANGED held
        PROVE  NodeTypeOK'
    <3>1. RepoTypeOK'
      BY <2>2, FileType DEF Configs
    <3>2. lost' \in BOOLEAN /\ chosen' \in BOOLEAN
      BY <2>2, Zenon DEF Spoilt
    <3>3. at' \in [Procs -> Steps] /\ UNCHANGED <<cancelled, loaded, hooks, calls>>
      BY <2>2
    <3> HIDE DEF RepoTypeOK
    <3> QED BY <3>1, <3>2, <3>3
  <2> HIDE DEF NodeTypeOK, RepoTypeOK, Goto, files, past
  <2> QED BY <1>30, <2>1, <2>2 DEF InitConfig
<1>4. ASSUME NEW p \in Procs, InitParams(p) PROVE NodeTypeOK'
  BY <1>4, EndType, ZenonT(40) DEF InitParams, Try
<1>5. ASSUME NEW p \in Procs, InitLock(p) PROVE NodeTypeOK'
  BY <1>5, ZenonT(40) DEF InitLock, Take
<1>6. ASSUME NEW p \in Procs, InitSet(p) PROVE NodeTypeOK'
  <2>1. CASE Goto(p, "i fail") /\ UNCHANGED <<files, held, past>>
    BY <2>1
  <2>2. Parses(config) => config \in Configs \ {"old", "torn"}
    BY DEF Parses
  <2>3. InitMutate(loaded[p]) \in Configs \ {"old", "torn"}
    BY DEF InitMutate, Configs
  <2>4. CASE ~Parses(config) /\ Truncate(p, config, "i write", "i fail")
    <3>1. Truncate(p, "none", "i write", "i fail")
      BY <2>4 DEF Truncate
    <3> QED BY <3>1, WriteType DEF Configs
  <2> HIDE DEF NodeTypeOK, RepoTypeOK, Goto, files, past
  <2> QED BY <1>6, <2>1, <2>2, <2>3, <2>4, WriteType DEF InitSet
<1>7. ASSUME NEW p \in Procs, InitDone(p) PROVE NodeTypeOK'
  BY <1>7, EndType DEF InitDone
<1>8. ASSUME NEW p \in Procs, InitFailed(p) PROVE NodeTypeOK'
  BY <1>8 DEF InitFailed, Release
<1>9. ASSUME NEW p \in Procs, InitClean(p) PROVE NodeTypeOK'
  <2>1. RepoTypeOK'
    BY <1>9 DEF InitClean, RemoveAll, Configs
  <2>2. at' \in [Procs -> Steps] /\ UNCHANGED <<loaded, hooks, calls, chosen>> /\ lost' = TRUE
    BY <1>9 DEF InitClean
  <2>3. cancelled' \in [Procs -> BOOLEAN]
    BY <1>9, Zenon DEF InitClean
  <2> HIDE DEF RepoTypeOK
  <2> QED BY <2>1, <2>2, <2>3
<1>10. ASSUME NEW p \in Procs, RunCmd(p) PROVE NodeTypeOK'
  BY <1>10 DEF RunCmd
<1>11. ASSUME NEW p \in Procs, RunExists(p) PROVE NodeTypeOK'
  BY <1>11, EndType, ZenonT(40) DEF RunExists, Try
<1>12. ASSUME NEW p \in Procs, RunLock(p) PROVE NodeTypeOK'
  BY <1>12, EndType, ZenonT(40) DEF RunLock, Take
<1>13. ASSUME NEW p \in Procs, RunConfig(p) PROVE NodeTypeOK'
  BY <1>13, EndType, ZenonT(40) DEF RunConfig, Try
<1>14. ASSUME NEW p \in Procs, Migrate(p) PROVE NodeTypeOK'
  <2>1. CASE at[p] = "r migrate"
    <3>1. UNCHANGED <<files, held, past, cancelled, hooks, calls>>
      BY <1>14, <2>1 DEF Migrate, Load
    <3>2. at' \in [Procs -> Steps]
      BY <1>14, <2>1 DEF Migrate, Load
    <3>3. loaded' \in [Procs -> Configs \ {"old", "torn"}]
      BY <1>14, <2>1 DEF Migrate, Load, Parses
    <3> QED BY <3>1, <3>2, <3>3
  <2>2. loaded[p] \in Configs \ {"old", "torn"}
    OBVIOUS
  <2>3. Version180Upgrade(loaded[p]) \in Configs \ {"old", "torn"}
    BY DEF Version180Upgrade, Configs
  <2> HIDE DEF NodeTypeOK, RepoTypeOK, Goto, files, past
  <2> QED BY <1>14, <2>1, <2>2, <2>3, WriteType DEF Migrate
<1>31. ASSUME NEW p \in Procs, MigratePanics(p) PROVE NodeTypeOK'
  <2>1. CASE End(p)
    BY <1>31, <2>1, EndType DEF MigratePanics
  <2>2. CASE ~End(p)
    <3>1. at' \in [Procs -> Steps] /\ UNCHANGED <<files, held, past, cancelled, hooks, calls>>
      BY <1>31, <2>2 DEF MigratePanics, Load
    <3>2. loaded' \in [Procs -> Configs \ {"old", "torn"}]
      BY <1>31, <2>2 DEF MigratePanics, Load, Configs
    <3> QED BY <3>1, <3>2
  <2> QED BY <2>1, <2>2
<1>15. ASSUME NEW p \in Procs, RunToken(p) PROVE NodeTypeOK'
  BY <1>15, EndType DEF RunToken, SetAPIToken
<1>16. ASSUME NEW p \in Procs, RunClose(p) PROVE NodeTypeOK'
  BY <1>16 DEF RunClose, Release
<1>17. ASSUME NEW p \in Procs, RunWait(p) PROVE NodeTypeOK'
  BY <1>17, EndType, ZenonT(40) DEF RunWait, Try
<1>18. ASSUME NEW p \in Procs, SyncWait(p) PROVE NodeTypeOK'
  BY <1>18, EndType, ZenonT(40) DEF SyncWait, Try
<1>19. ASSUME NEW p \in Procs, RunRelock(p) PROVE NodeTypeOK'
  <2>1. CASE End(p)
    BY <1>19, <2>1, EndType DEF RunRelock
  <2>2. CASE ~End(p)
    <3>1. config \in Configs \ {"old", "torn"}
      BY <1>19, <2>2 DEF RunRelock, Parses
    <3>2. loaded' \in [Procs -> Configs \ {"old", "torn"}]
      BY <1>19, <2>2, <3>1 DEF RunRelock, Load
    <3> QED BY <1>19, <2>2, <3>2, ZenonT(40) DEF RunRelock, Take, Load
  <2> QED BY <2>1, <2>2
<1>20. ASSUME NEW p \in Procs, RunBuild(p) PROVE NodeTypeOK'
  BY <1>20, EndType DEF RunBuild, SetAPIEndpoint
<1>21. ASSUME NEW p \in Procs, RunStart(p) PROVE NodeTypeOK'
  <2>1. CASE End(p)
    BY <1>21, <2>1, EndType DEF RunStart
  <2>2. CASE ~End(p)
    <3>1. at' \in [Procs -> Steps]
      BY <1>21, <2>2, ZenonT(40) DEF RunStart
    <3>2. hooks' \in [Procs -> 0 .. 4]
      <4>1. hooks' = [hooks EXCEPT ![p] = 4]
        BY <1>21, <2>2 DEF RunStart
      <4> QED BY <4>1, HooksType
    <3> QED BY <1>21, <2>2, <3>1, <3>2 DEF RunStart
  <2> QED BY <2>1, <2>2
<1>22. ASSUME NEW p \in Procs, RunListen(p) PROVE NodeTypeOK'
  BY <1>22, EndType, ZenonT(40) DEF RunListen, Try
<1>23. ASSUME NEW p \in Procs, Signal(p) PROVE NodeTypeOK'
  BY <1>23 DEF Signal
<1>24. ASSUME NEW p \in Procs, RunHook(p) PROVE NodeTypeOK'
  <2>1. hooks' \in [Procs -> 0 .. 4]
    BY <1>24, HooksType DEF RunHook
  <2>2. held' \in [Procs -> {"no", "now", "gone"}]
    BY <1>24 DEF RunHook, Release
  <2> QED BY <1>24, <2>1, <2>2 DEF RunHook
<1>25. ASSUME NEW p \in Procs, ServeReturns(p) PROVE NodeTypeOK'
  BY <1>25, EndType DEF ServeReturns
<1>26. ASSUME NEW p \in Procs, Kill(p) PROVE NodeTypeOK'
  BY <1>26, EndType DEF Kill
<1>27. ASSUME NEW p \in Procs, NEW c \in Clients, StopCmd(c, p) \/ ShutdownTaken(c, p)
      PROVE  NodeTypeOK'
  BY <1>27, ZenonT(40) DEF StopCmd, ShutdownTaken
<1>28. CASE EditConfig
  BY <1>28 DEF EditConfig, procs, Configs
<1>29. CASE UNCHANGED nodeVars
  BY <1>29 DEF nodeVars, files, procs, past
<1> QED BY <1>1, <1>2, <1>3, <1>4, <1>5, <1>6, <1>7, <1>8, <1>9, <1>10, <1>11, <1>12, <1>13,
    <1>14, <1>15, <1>16, <1>17, <1>18, <1>19, <1>20, <1>21, <1>22, <1>23, <1>24, <1>25, <1>26,
    <1>27, <1>28, <1>29, <1>30, <1>31 DEF NodeNext, Stopping

\* Type correctness of the processes and of the repository they share.
THEOREM NodeTypeCorrect == NodeSpec => []NodeTypeOK
  BY InitNodeTypeOK, NextNodeTypeOK, PTL DEF NodeSpec

------------------------------------------------------------------------------
(* The lock *)

\* Nothing of q changes.
Same(q) == at'[q] = at[q] /\ hooks'[q] = hooks[q] /\ loaded'[q] = loaded[q] /\ held'[q] = held[q]

\* What the end of a process does to each process.
LEMMA EndMoves ==
    ASSUME NodeTypeOK, NEW p \in Procs, End(p)
    PROVE  /\ at'[p] = "idle" /\ hooks'[p] = 0 /\ loaded'[p] = "none" /\ held'[p] = "no"
           /\ \A q \in Procs \ {p} : Same(q)
  BY DEF End, Release, NodeTypeOK, RepoTypeOK, Same

\* The repository's hook is the last of four and the miner's the second.
LEMMA HookOrder ==
    ASSUME NEW n \in 1 .. 4
    PROVE  /\ StopHooks[Len(StopHooks) + 1 - n] = "repo" <=> n = 1
           /\ StopHooks[Len(StopHooks) + 1 - n] = "miner" <=> n = 3
<1>1. Len(StopHooks) = 4
  BY DEF StopHooks
<1>2. n = 1 \/ n = 2 \/ n = 3 \/ n = 4
  OBVIOUS
<1> QED BY <1>1, <1>2 DEF StopHooks

\* What a hook does: only the last one releases the lock.
LEMMA HookMoves ==
    ASSUME NodeTypeOK, NEW p \in Procs, RunHook(p)
    PROVE  /\ hooks[p] > 0
           /\ hooks'[p] > 0 => held'[p] = held[p]
           /\ held'[p] \in {held[p], "no"}
           /\ at[p] = "stopping" /\ at' = at /\ loaded' = loaded
           /\ \A q \in Procs \ {p} : Same(q)
<1>1. hooks \in [Procs -> 0 .. 4] /\ held \in [Procs -> {"no", "now", "gone"}]
  BY DEF NodeTypeOK, RepoTypeOK
<1>2. hooks[p] > 0 /\ hooks' = [hooks EXCEPT ![p] = @ - 1]
  BY DEF RunHook
<1>3. hooks[p] \in 1 .. 4 /\ hooks'[p] = hooks[p] - 1
  BY <1>1, <1>2
<1>4. NextHook(p) = "repo" => hooks'[p] = 0
  BY <1>3, HookOrder DEF NextHook
<1>5. held' = held \/ (held' = [held EXCEPT ![p] = "no"] /\ hooks'[p] = 0)
  BY <1>4 DEF RunHook, Release
<1> QED BY <1>1, <1>2, <1>3, <1>5 DEF RunHook, Same

\* A process that ends has no lock.
LEMMA EndLockPlaces ==
    ASSUME NodeTypeOK, LockPlaces, NEW p \in Procs, End(p)
    PROVE  LockPlaces'
  BY EndMoves, ZenonT(40) DEF LockPlaces, Same, Locked

\* Every step takes or releases the lock where the code does.
LEMMA NextLockPlaces ==
    NodeTypeOK /\ LockPlaces /\ [NodeNext]_nodeVars => LockPlaces'
<1> SUFFICES ASSUME NodeTypeOK, LockPlaces, [NodeNext]_nodeVars PROVE LockPlaces'
  OBVIOUS
<1> USE DEF NodeTypeOK, RepoTypeOK, LockPlaces, Locked, Goto
<1>1. ASSUME NEW p \in Procs, InitCmd(p) PROVE LockPlaces'
  BY <1>1 DEF InitCmd
<1>2. ASSUME NEW p \in Procs, InitChecks(p) PROVE LockPlaces'
  BY <1>2, EndLockPlaces, ZenonT(40) DEF InitChecks, Try
<1>3. ASSUME NEW p \in Procs, InitRepository(p) \/ InitStat(p) PROVE LockPlaces'
  <2>1. CASE End(p)
    BY <2>1, EndLockPlaces
  <2>2. CASE ~End(p)
    <3>1. PICK s \in {"i params", "i stat", "i create"} : Goto(p, s)
      BY <1>3, <2>2, Zenon DEF InitRepository, InitStat
    <3>2. UNCHANGED held /\ at[p] \in {"i init", "i stat"}
      BY <1>3, <2>2 DEF InitRepository, InitStat
    <3> QED BY <3>1, <3>2
  <2> QED BY <2>1, <2>2
<1>30. ASSUME NEW p \in Procs, InitConfig(p) PROVE LockPlaces'
  BY <1>30, EndLockPlaces DEF InitConfig
<1>4. ASSUME NEW p \in Procs, InitParams(p) PROVE LockPlaces'
  BY <1>4, EndLockPlaces, ZenonT(40) DEF InitParams, Try
<1>5. ASSUME NEW p \in Procs, InitLock(p) PROVE LockPlaces'
  BY <1>5, ZenonT(40) DEF InitLock, Take
<1>6. ASSUME NEW p \in Procs, InitSet(p) PROVE LockPlaces'
  BY <1>6, ZenonT(40) DEF InitSet, Truncate, Written, TruncateVersion, VersionWritten, Load
<1>7. ASSUME NEW p \in Procs, InitDone(p) PROVE LockPlaces'
  BY <1>7, EndLockPlaces DEF InitDone
<1>8. ASSUME NEW p \in Procs, InitFailed(p) PROVE LockPlaces'
  BY <1>8 DEF InitFailed, Release
<1>9. ASSUME NEW p \in Procs, InitClean(p) PROVE LockPlaces'
  BY <1>9 DEF InitClean, RemoveAll
<1>10. ASSUME NEW p \in Procs, RunCmd(p) PROVE LockPlaces'
  BY <1>10 DEF RunCmd
<1>11. ASSUME NEW p \in Procs, RunExists(p) PROVE LockPlaces'
  BY <1>11, EndLockPlaces, ZenonT(40) DEF RunExists, Try
<1>12. ASSUME NEW p \in Procs, RunLock(p) PROVE LockPlaces'
  BY <1>12, EndLockPlaces DEF RunLock, Take
<1>13. ASSUME NEW p \in Procs, RunConfig(p) PROVE LockPlaces'
  BY <1>13, EndLockPlaces DEF RunConfig, Try
<1>14. ASSUME NEW p \in Procs, Migrate(p) PROVE LockPlaces'
  BY <1>14, ZenonT(40) DEF Migrate, Truncate, Written, TruncateVersion, VersionWritten, Load
<1>31. ASSUME NEW p \in Procs, MigratePanics(p) PROVE LockPlaces'
  BY <1>31, EndLockPlaces DEF MigratePanics, Load
<1>15. ASSUME NEW p \in Procs, RunToken(p) PROVE LockPlaces'
  BY <1>15, EndLockPlaces DEF RunToken
<1>16. ASSUME NEW p \in Procs, RunClose(p) PROVE LockPlaces'
  BY <1>16 DEF RunClose, Release
<1>17. ASSUME NEW p \in Procs, RunWait(p) PROVE LockPlaces'
  BY <1>17, EndLockPlaces, ZenonT(40) DEF RunWait, Try
<1>18. ASSUME NEW p \in Procs, SyncWait(p) PROVE LockPlaces'
  BY <1>18, EndLockPlaces, ZenonT(40) DEF SyncWait, Try
<1>19. ASSUME NEW p \in Procs, RunRelock(p) PROVE LockPlaces'
  BY <1>19, EndLockPlaces DEF RunRelock, Take, Load
<1>20. ASSUME NEW p \in Procs, RunBuild(p) PROVE LockPlaces'
  BY <1>20, EndLockPlaces DEF RunBuild
<1>21. ASSUME NEW p \in Procs, RunStart(p) PROVE LockPlaces'
  BY <1>21, EndLockPlaces DEF RunStart
<1>22. ASSUME NEW p \in Procs, RunListen(p) PROVE LockPlaces'
  BY <1>22, EndLockPlaces DEF RunListen, Try
<1>23. ASSUME NEW p \in Procs, Signal(p) PROVE LockPlaces'
  BY <1>23 DEF Signal
<1>24. ASSUME NEW p \in Procs, RunHook(p) PROVE LockPlaces'
  BY <1>24, HookMoves, ZenonT(40) DEF Same
<1>25. ASSUME NEW p \in Procs, ServeReturns(p) PROVE LockPlaces'
  BY <1>25, EndLockPlaces DEF ServeReturns
<1>26. ASSUME NEW p \in Procs, Kill(p) PROVE LockPlaces'
  BY <1>26, EndLockPlaces DEF Kill
<1>27. ASSUME NEW p \in Procs, NEW c \in Clients, StopCmd(c, p) \/ ShutdownTaken(c, p)
      PROVE  LockPlaces'
  BY <1>27 DEF StopCmd, ShutdownTaken
<1>28. CASE EditConfig
  BY <1>28 DEF EditConfig, procs
<1>29. CASE UNCHANGED nodeVars
  BY <1>29 DEF nodeVars, files, procs, past
<1> QED BY <1>1, <1>2, <1>3, <1>4, <1>5, <1>6, <1>7, <1>8, <1>9, <1>10, <1>11, <1>12, <1>13,
    <1>14, <1>15, <1>16, <1>17, <1>18, <1>19, <1>20, <1>21, <1>22, <1>23, <1>24, <1>25, <1>26,
    <1>27, <1>28, <1>29, <1>30, <1>31 DEF NodeNext, Stopping

------------------------------------------------------------------------------
(* Steps that change neither the files nor who may have the lock *)

\* A step of p that writes nothing: it may release its lock, and gets past RunConfig only
\* with a configuration that passes Check.
Quiet(p) ==
    /\ UNCHANGED <<files, past>>
    /\ \A q \in Procs \ {p} : Same(q)
    /\ held'[p] \in {held[p], "no"}
    /\ at[p] \notin Writing \/ Same(p)
    /\ at'[p] \notin Writing \cup {"i version file", "r version file", "r upgrade"} \/ Same(p)
    /\ at'[p] \in Checked => at[p] \in Checked \/ Check(config)
    /\ at'[p] \in Built => at[p] \in Built /\ loaded'[p] = loaded[p]

\* A process that ends outside the two halves of a write does so quietly.
LEMMA EndQuiet ==
    ASSUME NodeTypeOK, NEW p \in Procs, End(p), UNCHANGED <<files, past>>,
           at[p] \notin Writing
    PROVE  Quiet(p)
  BY EndMoves DEF Quiet, Checked, Built, Writing

\* The steps of a process that are quiet.
LEMMA QuietSteps ==
    ASSUME NodeTypeOK, NEW p \in Procs,
           \/ InitCmd(p) \/ InitChecks(p) \/ InitStat(p) \/ InitParams(p) \/ InitDone(p)
           \/ InitFailed(p) \/ MigratePanics(p)
           \/ RunCmd(p) \/ RunExists(p) \/ RunConfig(p) \/ RunClose(p) \/ RunWait(p) \/ SyncWait(p)
           \/ RunStart(p) \/ RunListen(p) \/ Signal(p) \/ Stopping(p)
           \/ \E c \in Clients : StopCmd(c, p) \/ ShutdownTaken(c, p)
    PROVE  Quiet(p)
<1> USE EndQuiet DEF NodeTypeOK, RepoTypeOK, Writing
<1>1. CASE InitCmd(p) \/ RunCmd(p)
  BY <1>1, ZenonT(40) DEF InitCmd, RunCmd, Goto, Quiet, Same, Checked, Built
<1>2. CASE InitChecks(p) \/ InitParams(p)
  BY <1>2, ZenonT(40) DEF InitChecks, InitParams, Try, Goto, Quiet, Same, Checked, Built
<1>3. CASE RunExists(p) \/ RunConfig(p)
  BY <1>3 DEF RunExists, RunConfig, Try, Goto, Quiet, Same, Checked, Built
<1>4. CASE RunWait(p) \/ SyncWait(p)
  BY <1>4 DEF RunWait, SyncWait, Try, Goto, Quiet, Same, Checked, Built
<1>5. CASE InitDone(p) \/ ServeReturns(p)
  BY <1>5 DEF InitDone, ServeReturns
<1>6. CASE InitFailed(p) \/ RunClose(p)
  BY <1>6, ZenonT(40) DEF InitFailed, RunClose, Release, Goto, Quiet, Same, Checked, Built
<1>7. CASE RunStart(p)
  BY <1>7 DEF RunStart, Quiet, Same, Checked, Built
<1>8. CASE RunListen(p)
  BY <1>8 DEF RunListen, Try, Goto, Quiet, Same, Checked, Built
<1>9. CASE Signal(p)
  BY <1>9 DEF Signal, Quiet, Same, Checked, Built
<1>10. CASE RunHook(p)
  BY <1>10, HookMoves DEF RunHook, Quiet, Checked, Built
<1>11. ASSUME NEW c \in Clients, StopCmd(c, p) \/ ShutdownTaken(c, p) PROVE Quiet(p)
  BY <1>11, ZenonT(40) DEF StopCmd, ShutdownTaken, Quiet, Same, Checked, Built
<1>12. CASE InitStat(p)
  BY <1>12 DEF InitStat, Goto, Quiet, Same, Checked, Built
<1>13. CASE MigratePanics(p)
  BY <1>13 DEF MigratePanics, Load, Quiet, Same, Checked, Built
<1> QED BY <1>1, <1>2, <1>3, <1>4, <1>5, <1>6, <1>7, <1>8, <1>9, <1>10, <1>11, <1>12, <1>13
    DEF Stopping

------------------------------------------------------------------------------
(* Mutual exclusion *)

\* A step of p that opens or closes a file, and writes the configuration or the version.
Writes(p) ==
    /\ UNCHANGED <<dir, held>> /\ \A q \in Procs \ {p} : Same(q) /\ fd'[q] = fd[q]
    /\ fd'[p] \in {fd[p], "none"} \/ fd'[p] = "file"
    /\ fd'[p] # "none" <=> at'[p] \in Writing
    /\ config' = config \/ config' \notin {"old", "edited"}
    /\ (lost => lost') /\ (chosen => chosen')

\* SetConfig and SetVersion, of init and of run, write only below the directory and
\* leave the lock alone.
LEMMA SetSteps ==
    ASSUME NodeTypeOK, FilePlaces, NEW p \in Procs, InitSet(p) \/ Migrate(p)
    PROVE  Writes(p)
<1> USE DEF NodeTypeOK, RepoTypeOK
<1>1. ASSUME NEW s \in Writing, NEW f \in Steps \ Writing, NEW c, at[p] \notin Writing,
             Truncate(p, c, s, f)
      PROVE  Writes(p)
  BY <1>1 DEF Truncate, OpenConfig, Writes, Same, files, disk, past, Load, FilePlaces
<1>2. ASSUME NEW s \in Steps \ Writing, NEW f \in Steps \ Writing, NEW c \in {"good", "untyped"},
             Written(p, c, s, f)
      PROVE  Writes(p)
  BY <1>2 DEF Written, FillConfig, CloseFile, Overlay, Writes, Same, files, disk, past, Load
<1>3. ASSUME NEW s \in Writing, NEW f \in Steps \ Writing, at[p] \notin Writing,
             TruncateVersion(p, s, f)
      PROVE  Writes(p)
  BY <1>3 DEF TruncateVersion, OpenVersion, Writes, Same, files, disk, past, Goto, FilePlaces
<1>4. ASSUME NEW s \in Steps \ Writing, NEW f \in Steps \ Writing, VersionWritten(p, s, f)
      PROVE  Writes(p)
  BY <1>4 DEF VersionWritten, FillVersion, CloseFile, Writes, Same, files, disk, past, Goto
<1>5. ASSUME NEW s \in Steps \ Writing, NEW c, at[p] \notin Writing, Goto(p, s) \/ Load(p, c, s),
             UNCHANGED <<files, held, past>>
      PROVE  Writes(p)
  BY <1>5 DEF Writes, Same, files, disk, past, Goto, Load, FilePlaces
<1>6. /\ {"i write", "i version write", "r write", "r version write"} \subseteq Writing
      /\ {"i load", "i fail", "i version file", "i close", "r migrate", "r upgrade", "r token",
          "r version file"} \subseteq Steps \ Writing
  BY DEF Writing, Steps, Inits, Starts
<1> HIDE DEF NodeTypeOK, RepoTypeOK
<1>7. CASE InitSet(p)
  BY <1>7, <1>1, <1>2, <1>3, <1>4, <1>5, <1>6 DEF InitSet, InitMutate
<1>8. Version180Upgrade(loaded[p]) \in {"good", "untyped"}
  BY DEF Version180Upgrade
<1>9. CASE Migrate(p)
  <2>1. CASE at[p] = "r migrate"
    BY <1>9, <2>1, <1>5, <1>6 DEF Migrate
  <2>2. CASE at[p] \in {"r upgrade", "r write"}
    BY <1>9, <2>2, <1>1, <1>2, <1>6, <1>8 DEF Migrate
  <2>3. CASE at[p] \in {"r version file", "r version write"}
    BY <1>9, <2>3, <1>3, <1>4, <1>6 DEF Migrate
  <2> QED BY <1>9, <2>1, <2>2, <2>3 DEF Migrate
<1> QED BY <1>7, <1>9

\* A process that ends, or a file of it that is closed, leaves no file open.
LEMMA CloseMoves ==
    ASSUME NodeTypeOK, NEW p \in Procs, CloseFile(p)
    PROVE  UNCHANGED disk /\ fd'[p] = "none" /\ \A q \in Procs \ {p} : fd'[q] = fd[q]
  BY DEF NodeTypeOK, RepoTypeOK, CloseFile

\* What the steps of init that take no lock do: make the directory, create config.toml and
\* write the defaults.
Creates(p) ==
    /\ \A q \in Procs \ {p} : Same(q) /\ fd'[q] = fd[q]
    /\ held'[p] = held[p] /\ loaded'[p] = loaded[p]
    /\ dir => dir'
    /\ UNCHANGED <<version, api, token>>
    /\ config' = config \/ config' \in {"empty", "default", "torn"}
    /\ fd'[p] \in {fd[p], "none"} \/ fd'[p] = "file"
    /\ fd'[p] # "none" <=> at'[p] \in Writing
    /\ at[p] \in {"i init", "i create", "i fill"} /\ at'[p] \in {"i stat", "i fill", "i params"}
    /\ Spoilt

\* The steps of init before it takes the lock either write nothing, create, or end.
LEMMA CreateSteps ==
    ASSUME NodeTypeOK, FilePlaces, NEW p \in Procs, InitRepository(p) \/ InitConfig(p)
    PROVE  Quiet(p) \/ Creates(p) \/ (at[p] = "i fill" /\ End(p) /\ CloseFile(p) /\ UNCHANGED past)
<1> USE DEF NodeTypeOK, RepoTypeOK
<1>1. ASSUME NEW s \in {"i stat", "i params"}, at[p] = "i init", Goto(p, s),
             UNCHANGED <<held, past>>, Mkdir \/ UNCHANGED files
      PROVE  Creates(p)
  <2>1. Spoilt
    BY <1>1, Zenon DEF Spoilt, Mkdir, files, disk, past
  <2> QED BY <1>1, <2>1 DEF Creates, Mkdir, Goto, Same, files, disk, Writing, FilePlaces
<1>2. CASE at[p] = "i create" /\ OpenConfig(p) /\ Goto(p, "i fill") /\ Spoilt /\ UNCHANGED held
  BY <1>2 DEF Creates, OpenConfig, Goto, Same, Writing
<1>3. CASE /\ at[p] = "i fill" /\ FillConfig(p, "default") /\ Goto(p, "i params")
           /\ Spoilt /\ UNCHANGED held
  BY <1>3 DEF Creates, FillConfig, Overlay, Goto, Same, Writing
<1>4. at[p] \in {"i init", "i create"} => at[p] \notin Writing
  BY DEF Writing
<1> HIDE DEF NodeTypeOK, RepoTypeOK
<1> QED BY <1>1, <1>2, <1>3, <1>4, EndQuiet DEF InitRepository, InitConfig

\* Every step leaves the lock with one process at most, the directory under it, and no
\* file open but between the halves of a write.
LEMMA NextExclusive ==
    NodeTypeOK /\ LockPlaces /\ FilePlaces /\ MutualExclusion /\ Removals /\ [NodeNext]_nodeVars
       => (FilePlaces /\ MutualExclusion /\ Removals)'
<1> SUFFICES ASSUME NodeTypeOK, LockPlaces, FilePlaces, MutualExclusion, Removals,
                    [NodeNext]_nodeVars
             PROVE  (FilePlaces /\ MutualExclusion /\ Removals)'
  OBVIOUS
<1> DEFINE I == FilePlaces /\ MutualExclusion /\ Removals
<1> USE DEF NodeTypeOK, RepoTypeOK, FilePlaces, MutualExclusion, Removals, Same, files, disk, past
<1>1. ASSUME NEW p \in Procs, Quiet(p) PROVE I'
  <2>1. FilePlaces'
    <3>1. fd' = fd /\ \A q \in Procs : at'[q] \in Writing <=> at[q] \in Writing
      BY <1>1 DEF Quiet
    <3> QED BY <3>1
  <2>2. (MutualExclusion /\ Removals)'
    BY <1>1, ZenonT(40) DEF Quiet
  <2> QED BY <2>1, <2>2
<1>2. ASSUME NEW p \in Procs, Creates(p) PROVE I'
  <2>1. FilePlaces'
    BY <1>2 DEF Creates
  <2>2. lost' = (lost \/ (Check(config) /\ ~Check(config'))) /\ (dir => dir')
    BY <1>2 DEF Creates, Spoilt
  <2>3. /\ \A q \in Procs : held'[q] = held[q]
        /\ \A q \in Procs : fd'[q] = "gone" => fd[q] = "gone"
    BY <1>2 DEF Creates
  <2> QED BY <2>1, <2>2, <2>3
<1>3. ASSUME NEW p \in Procs, InitLock(p) PROVE I'
  <2>1. FilePlaces'
    BY <1>3 DEF InitLock, Goto, Writing
  <2>2. (MutualExclusion /\ Removals)'
    BY <1>3, ZenonT(40) DEF InitLock, Unlocked, Take
  <2> QED BY <2>1, <2>2
<1>4. ASSUME NEW p \in Procs, InitSet(p) \/ Migrate(p) PROVE I'
  BY <1>4, SetSteps DEF Writes
<1>5. ASSUME NEW p \in Procs, InitClean(p) PROVE I'
  BY <1>5 DEF InitClean, RemoveAll, LockPlaces, Locked, Writing
<1>6. ASSUME NEW p \in Procs, RunLock(p) PROVE I'
  <2>1. CASE End(p) /\ UNCHANGED files
    BY <1>6, <2>1, <1>1, EndQuiet DEF RunLock, Writing
  <2>2. CASE ~(End(p) /\ UNCHANGED files)
    <3>1. FilePlaces'
      BY <1>6, <2>2 DEF RunLock, Goto, Writing
    <3>2. (MutualExclusion /\ Removals)'
      BY <1>6, <2>2, ZenonT(40) DEF RunLock, Unlocked, Take
    <3> QED BY <3>1, <3>2
  <2> QED BY <2>1, <2>2
<1>8. ASSUME NEW p \in Procs, RunToken(p) PROVE I'
  <2>1. CASE End(p) /\ UNCHANGED files
    BY <1>8, <2>1, <1>1, EndQuiet DEF RunToken, Writing
  <2>2. CASE ~(End(p) /\ UNCHANGED files)
    BY <1>8, <2>2 DEF RunToken, SetAPIToken, Goto, Writing
  <2> QED BY <2>1, <2>2
<1>9. ASSUME NEW p \in Procs, RunRelock(p) PROVE I'
  <2>1. CASE End(p) /\ UNCHANGED files
    BY <1>9, <2>1, <1>1, EndQuiet DEF RunRelock, Writing
  <2>2. CASE ~(End(p) /\ UNCHANGED files)
    <3>1. FilePlaces'
      BY <1>9, <2>2 DEF RunRelock, Load, Writing
    <3>2. (MutualExclusion /\ Removals)'
      BY <1>9, <2>2, ZenonT(40) DEF RunRelock, Unlocked, Take
    <3> QED BY <3>1, <3>2
  <2> QED BY <2>1, <2>2
<1>10. ASSUME NEW p \in Procs, RunBuild(p) PROVE I'
  <2>1. CASE End(p) /\ UNCHANGED files
    BY <1>10, <2>1, <1>1, EndQuiet DEF RunBuild, Writing
  <2>2. CASE ~(End(p) /\ UNCHANGED files)
    BY <1>10, <2>2 DEF RunBuild, SetAPIEndpoint, Goto, Writing
  <2> QED BY <2>1, <2>2
<1>11. ASSUME NEW p \in Procs, End(p), CloseFile(p), lost => lost' PROVE I'
  <2>1. FilePlaces'
    <3>1. fd'[p] = "none" /\ at'[p] \notin Writing
      BY <1>11, EndMoves, CloseMoves DEF Writing
    <3>2. \A q \in Procs \ {p} : fd'[q] = fd[q] /\ at'[q] = at[q]
      BY <1>11, EndMoves, CloseMoves
    <3> QED BY <3>1, <3>2, Zenon
  <2>2. /\ \A q \in Procs : held'[q] \in {held[q], "no"}
        /\ \A q \in Procs : fd'[q] \in {fd[q], "none"}
        /\ dir' = dir
    BY <1>11, EndMoves, CloseMoves
  <2> QED BY <1>11, <2>1, <2>2
<1>12. CASE EditConfig
  BY <1>12 DEF EditConfig, procs, LockPlaces, Locked, Writing
<1>13. CASE UNCHANGED nodeVars
  BY <1>13 DEF nodeVars, files, procs, past
<1>14. ASSUME NEW p \in Procs, InitRepository(p) \/ InitConfig(p) PROVE I'
  BY <1>14, <1>1, <1>2, <1>11, CreateSteps
<1>15. ASSUME NEW p \in Procs, Kill(p) PROVE I'
  BY <1>15, <1>11 DEF Kill
<1> HIDE DEF NodeTypeOK, RepoTypeOK, FilePlaces, MutualExclusion, Removals, Same, files, disk, past
<1> QED BY <1>1, <1>3, <1>4, <1>5, <1>6, <1>8, <1>9, <1>10, <1>12, <1>13, <1>14, <1>15,
    QuietSteps DEF NodeNext

------------------------------------------------------------------------------
(* The version file *)

\* A configuration of v1.7 never comes back, and a version is written only when it has gone.
LEMMA NextVersion ==
    NodeTypeOK /\ FilePlaces /\ VersionSteps /\ VersionAfterUpgrade /\ [NodeNext]_nodeVars
       => (VersionSteps /\ VersionAfterUpgrade)'
<1> SUFFICES ASSUME NodeTypeOK, FilePlaces, VersionSteps, VersionAfterUpgrade,
    [NodeNext]_nodeVars PROVE (VersionSteps /\ VersionAfterUpgrade)'
  OBVIOUS
<1> DEFINE I == VersionSteps /\ VersionAfterUpgrade
<1> USE DEF NodeTypeOK, RepoTypeOK, VersionSteps, VersionAfterUpgrade, Same, files, disk, past
<1>1. ASSUME NEW p \in Procs, Quiet(p) PROVE I'
  BY <1>1 DEF Quiet, Writing
<1>2. ASSUME NEW p \in Procs, Creates(p) PROVE I'
  BY <1>2 DEF Creates
<1>3. ASSUME NEW p \in Procs, InitLock(p) PROVE I'
  BY <1>3 DEF InitLock, Take, Goto
<1>4. ASSUME NEW p \in Procs, InitSet(p) PROVE I'
  <2>1. config' \notin {"old", "edited"} \/ config' = config
    BY <1>4, SetSteps DEF Writes
  <2>2. \A q \in Procs \ {p} : at'[q] = at[q]
    BY <1>4, SetSteps DEF Writes
  <2>3. at'[p] \in {"i write", "i version file", "i version write",
                    "r write", "r version file", "r version write"} =>
           config' \notin {"old", "edited"}
    BY <1>4, <2>1 DEF InitSet, Truncate, Written, TruncateVersion, VersionWritten, Load,
        Goto, OpenConfig, OpenVersion
  <2>4. version' = "now" => version = "now" \/ config \notin {"old", "edited"}
    BY <1>4 DEF InitSet, Truncate, Written, TruncateVersion, VersionWritten, Load,
        Goto, OpenConfig, OpenVersion, FillConfig, FillVersion, CloseFile
  <2> QED BY <2>1, <2>2, <2>3, <2>4
<1>5. ASSUME NEW p \in Procs, InitClean(p) PROVE I'
  BY <1>5 DEF InitClean, RemoveAll
<1>6. ASSUME NEW p \in Procs, RunLock(p) PROVE I'
  <2>1. CASE End(p) /\ UNCHANGED files
    BY <1>6, <2>1, <1>1, EndQuiet DEF RunLock, Writing
  <2>2. CASE ~(End(p) /\ UNCHANGED files)
    BY <1>6, <2>2 DEF RunLock, Take, Goto
  <2> QED BY <2>1, <2>2
<1>7. ASSUME NEW p \in Procs, Migrate(p) PROVE I'
  <2>1. config' \notin {"old", "edited"} \/ config' = config
    BY <1>7, SetSteps DEF Writes
  <2>2. \A q \in Procs \ {p} : at'[q] = at[q]
    BY <1>7, SetSteps DEF Writes
  <2>3. at'[p] \in {"i write", "i version file", "i version write",
                    "r write", "r version file", "r version write"} =>
           config' \notin {"old", "edited"}
    <3>1. CASE at[p] = "r migrate"
      BY <1>7, <2>1, <3>1 DEF Migrate, Load, Goto
    <3>2. CASE at[p] = "r upgrade"
      BY <1>7, <2>1, <3>2 DEF Migrate, Truncate, Load, OpenConfig
    <3>3. CASE at[p] \in {"r write", "r version file", "r version write"}
      BY <2>1, <3>3
    <3> QED BY <1>7, <3>1, <3>2, <3>3 DEF Migrate
  <2>4. version' = "now" => version = "now" \/ config \notin {"old", "edited"}
    <3>1. CASE at[p] \in {"r migrate", "r upgrade"}
      BY <1>7, <3>1 DEF Migrate, Truncate, OpenConfig
    <3>2. CASE at[p] \in {"r write", "r version file", "r version write"}
      BY <3>2
    <3> QED BY <1>7, <3>1, <3>2 DEF Migrate
  <2> QED BY <2>1, <2>2, <2>3, <2>4
<1>8. ASSUME NEW p \in Procs, RunToken(p) PROVE I'
  <2>1. CASE End(p) /\ UNCHANGED files
    BY <1>8, <2>1, <1>1, EndQuiet DEF RunToken, Writing
  <2>2. CASE ~(End(p) /\ UNCHANGED files)
    BY <1>8, <2>2 DEF RunToken, SetAPIToken, Goto
  <2> QED BY <2>1, <2>2
<1>9. ASSUME NEW p \in Procs, RunRelock(p) PROVE I'
  <2>1. CASE End(p) /\ UNCHANGED files
    BY <1>9, <2>1, <1>1, EndQuiet DEF RunRelock, Writing
  <2>2. CASE ~(End(p) /\ UNCHANGED files)
    BY <1>9, <2>2 DEF RunRelock, Take, Load
  <2> QED BY <2>1, <2>2
<1>10. ASSUME NEW p \in Procs, RunBuild(p) PROVE I'
  <2>1. CASE End(p) /\ UNCHANGED files
    BY <1>10, <2>1, <1>1, EndQuiet DEF RunBuild, Writing
  <2>2. CASE ~(End(p) /\ UNCHANGED files)
    BY <1>10, <2>2 DEF RunBuild, SetAPIEndpoint, Goto
  <2> QED BY <2>1, <2>2
<1>11. ASSUME NEW p \in Procs, End(p), CloseFile(p) PROVE I'
  BY <1>11, EndMoves, CloseMoves
<1>12. CASE EditConfig
  BY <1>12 DEF EditConfig, procs
<1>13. CASE UNCHANGED nodeVars
  BY <1>13 DEF nodeVars, files, procs, past
<1>14. ASSUME NEW p \in Procs, InitRepository(p) \/ InitConfig(p) PROVE I'
  BY <1>14, <1>1, <1>2, <1>11, CreateSteps
<1>15. ASSUME NEW p \in Procs, Kill(p) PROVE I'
  BY <1>15, <1>11 DEF Kill
<1> HIDE DEF NodeTypeOK, RepoTypeOK, VersionSteps, VersionAfterUpgrade, Same, files, disk, past
<1> QED BY <1>1, <1>3, <1>4, <1>5, <1>6, <1>7, <1>8, <1>9, <1>10, <1>12, <1>13, <1>14, <1>15,
    QuietSteps DEF NodeNext

------------------------------------------------------------------------------
(* The configuration *)

\* Unless a directory was removed, a process between Lock and Close has the lock,
\* and no other process has it.
LEMMA Holder ==
    ASSUME NodeTypeOK, LockPlaces, MutualExclusion, Removals, ~lost,
           NEW p \in Procs, at[p] \in Locked
    PROVE  held[p] = "now" /\ \A q \in Procs \ {p} : held[q] # "now"
  BY DEF NodeTypeOK, RepoTypeOK, LockPlaces, MutualExclusion, Removals

\* A holder that is not between the halves of a write finds the chosen configuration.
LEMMA HolderReads ==
    ASSUME NodeTypeOK, LockPlaces, MutualExclusion, Removals, ConfigSurvives,
           ~lost, chosen, NEW p \in Procs, at[p] \in Locked \ {"i write", "r write"}
    PROVE  Check(config)
  BY Holder DEF ConfigSurvives

\* What the operator chose, and the node and SetConfig read.
ConfigInv == ChosenFirst /\ ConfigSurvives /\ LoadedChecks /\ BuiltFromChecked

\* The first half of SetConfig: what is about to be lost is in memory and passes Check.
LEMMA TruncateConfig ==
    ASSUME NodeTypeOK, LockPlaces, FilePlaces, MutualExclusion, Removals, ConfigInv,
           NEW p \in Procs,
           \/ at[p] = "i load" /\ Truncate(p, config, "i write", "i fail")
           \/ /\ at[p] = "r upgrade" /\ HasSlashFilter(loaded[p])
              /\ Truncate(p, loaded[p], "r write", "r token")
    PROVE  ConfigInv'
<1> USE DEF NodeTypeOK, RepoTypeOK, ConfigInv
<1>1. Writes(p) /\ UNCHANGED past
  BY SetSteps DEF Truncate, InitSet, Migrate
<1>2. at[p] \in Locked \ {"i write", "r write"} /\ (at[p] = "r upgrade" => at[p] \in Checked)
  BY DEF Locked, Checked
<1>3. CASE UNCHANGED files /\ at'[p] \in {"i fail", "r token"}
  BY <1>1, <1>2, <1>3 DEF Writes, Same, past, files, disk, Checked, Built, Truncate, Load,
                    ChosenFirst, ConfigSurvives, LoadedChecks, BuiltFromChecked
<1>4. CASE ~(UNCHANGED files /\ at'[p] \in {"i fail", "r token"})
  <2>1. /\ config' = "empty"
        /\ at'[p] = IF at[p] = "i load" THEN "i write" ELSE "r write"
        /\ at[p] = "r upgrade" => HasSlashFilter(loaded[p]) /\ loaded'[p] = loaded[p]
    BY <1>4 DEF Truncate, Load, OpenConfig
  <2>2. ChosenFirst'
    BY <1>1, <2>1 DEF ChosenFirst, Writes, Same, past, Checked, Check, Truncate
  <2>3. ConfigSurvives'
    BY <1>1, <1>2, <2>1, Holder DEF ConfigSurvives, Writes, past
  <2>4. LoadedChecks'
    BY <1>1, <2>1 DEF LoadedChecks, Writes, Same, past, Truncate
  <2>5. BuiltFromChecked'
    BY <1>1, <2>1 DEF BuiltFromChecked, Writes, Same, past, Built
  <2> QED BY <2>2, <2>3, <2>4, <2>5
<1> QED BY <1>3, <1>4 DEF Truncate, Load

\* The second half: what is written passes Check, or the loss is on record.
LEMMA WriteTheConfig ==
    ASSUME NodeTypeOK, LockPlaces, FilePlaces, MutualExclusion, Removals, ConfigInv,
           NEW p \in Procs,
           \/ at[p] = "i write" /\ Written(p, InitMutate(loaded[p]), "i version file", "i fail")
           \/ /\ at[p] = "r write"
              /\ Written(p, Version180Upgrade(loaded[p]), "r version file", "r token")
    PROVE  ConfigInv'
<1> USE DEF NodeTypeOK, RepoTypeOK, ConfigInv
<1>1. Writes(p)
  BY SetSteps DEF InitSet, Migrate
<1>2. \/ at'[p] \in {"i version file", "i fail"}
      \/ (at[p] = "r write" /\ at'[p] \in {"r version file", "r token"})
  BY DEF Written, Load
<1>3. Check(config') => chosen'
  <2>1. ~Check("torn")
    BY DEF Check
  <2>2. ASSUME NEW c, NEW s, NEW f, Written(p, c, s, f) PROVE Check(config') => chosen'
    <3>1. CASE CloseFile(p) /\ UNCHANGED chosen
      BY <3>1 DEF CloseFile, ChosenFirst, disk
    <3>2. CASE FillConfig(p, c) /\ chosen' = (chosen \/ Check(c))
      BY <2>1, <3>2 DEF FillConfig, Overlay, ChosenFirst
    <3> QED BY <2>2, <3>1, <3>2 DEF Written
  <2> QED BY <2>2
<1>4. ChosenFirst'
  BY <1>1, <1>2, <1>3 DEF ChosenFirst, Writes, Same, Checked
<1>5. lost' \/ Check(config')
  <2>1. SUFFICES ASSUME ~lost' PROVE Check(config')
    OBVIOUS
  <2>2. ~lost /\ fd[p] = "file"
    BY <1>1, <2>1 DEF Writes, FilePlaces, Removals, Writing
  <2>3. at[p] = "r write" => loaded[p] \in {"edited", "partial", "good"}
    BY <2>2 DEF LoadedChecks, Check, HasSlashFilter
  <2>4. CASE at[p] = "i write"
    BY <2>1, <2>2, <2>4 DEF Written, FillConfig, Overlay, InitMutate, Check
  <2>5. CASE at[p] = "r write"
    BY <2>1, <2>2, <2>3, <2>5 DEF Written, FillConfig, Overlay, Version180Upgrade, Check
  <2> QED BY <2>4, <2>5
<1> QED BY <1>1, <1>2, <1>4, <1>5 DEF Writes, Same, Built, ConfigSurvives, LoadedChecks,
    BuiltFromChecked

\* SetVersion leaves the configuration alone.
LEMMA WriteTheVersion ==
    ASSUME NodeTypeOK, FilePlaces, ConfigInv, NEW p \in Procs,
           \/ at[p] = "i version file" /\ TruncateVersion(p, "i version write", "i fail")
           \/ at[p] = "i version write" /\ VersionWritten(p, "i close", "i fail")
           \/ at[p] = "r version file" /\ TruncateVersion(p, "r version write", "r token")
           \/ at[p] = "r version write" /\ VersionWritten(p, "r token", "r token")
    PROVE  ConfigInv'
<1>1. Writes(p) /\ UNCHANGED <<config, loaded, past>>
  <2>1. InitSet(p) \/ Migrate(p)
    BY DEF InitSet, Migrate
  <2> QED BY <2>1, SetSteps DEF TruncateVersion, VersionWritten, OpenVersion, FillVersion,
             CloseFile, Goto, files, disk
<1>2. /\ at'[p] \notin {"i write", "r write", "r upgrade"} \cup Built
      /\ at'[p] \in Checked => at[p] \in Checked
      /\ at[p] \notin {"i write", "r write"}
  BY DEF NodeTypeOK, TruncateVersion, VersionWritten, Goto, Built, Checked
<1> QED BY <1>1, <1>2 DEF Writes, Same, past,
         ConfigInv, ChosenFirst, ConfigSurvives, LoadedChecks, BuiltFromChecked

\* Every step keeps what was chosen.
LEMMA NextConfig ==
    NodeTypeOK /\ LockPlaces /\ FilePlaces /\ MutualExclusion /\ Removals /\ ConfigInv
       /\ [NodeNext]_nodeVars => ConfigInv'
<1> SUFFICES ASSUME NodeTypeOK, LockPlaces, FilePlaces, MutualExclusion, Removals, ConfigInv,
    [NodeNext]_nodeVars PROVE ConfigInv'
  OBVIOUS
<1> USE DEF NodeTypeOK, RepoTypeOK, ConfigInv, ChosenFirst, ConfigSurvives, LoadedChecks,
    BuiltFromChecked, Checked, Built, Check, Same, files, disk, past
<1>1. ASSUME NEW p \in Procs, Quiet(p) PROVE ConfigInv'
  BY <1>1 DEF Quiet, Writing
<1>2. ASSUME NEW p \in Procs, Creates(p) PROVE ConfigInv'
  <2>1. /\ \A q \in Procs : q # p => Same(q)
        /\ held'[p] = held[p] /\ at'[p] \notin Checked \cup Built \cup {"i write", "r write"}
    BY <1>2 DEF Creates
  <2>2. at[p] \notin {"i write", "r write"}
    BY <1>2 DEF Creates
  <2>3. chosen' = chosen /\ (lost' <=> lost \/ (Check(config) /\ ~Check(config')))
    BY <1>2, Zenon DEF Creates, Spoilt
  <2>4. Check(config') => Check(config)
    BY <1>2 DEF Creates
  <2> QED BY <2>1, <2>2, <2>3, <2>4
<1>3. ASSUME NEW p \in Procs, InitLock(p) PROVE ConfigInv'
  BY <1>3, ZenonT(40) DEF InitLock, Take, Goto, Unlocked
<1>4. ASSUME NEW p \in Procs, InitSet(p) PROVE ConfigInv'
  <2>1. CASE at[p] = "i load" /\ Goto(p, "i fail") /\ UNCHANGED <<files, held, past>>
    BY <2>1 DEF Goto
  <2> QED BY <1>4, <2>1, TruncateConfig, WriteTheConfig, WriteTheVersion DEF InitSet
<1>5. ASSUME NEW p \in Procs, InitClean(p) PROVE ConfigInv'
  BY <1>5 DEF InitClean, RemoveAll
<1>6. ASSUME NEW p \in Procs, RunLock(p) PROVE ConfigInv'
  <2>1. CASE End(p) /\ UNCHANGED files
    BY <1>6, <2>1, <1>1, EndQuiet DEF RunLock, Writing
  <2>2. CASE ~(End(p) /\ UNCHANGED files)
    BY <1>6, <2>2, ZenonT(40) DEF RunLock, Take, Goto
  <2> QED BY <2>1, <2>2
<1>7. ASSUME NEW p \in Procs, Migrate(p) PROVE ConfigInv'
  <2>1. CASE at[p] = "r migrate"
    <3>1. /\ UNCHANGED <<files, held, past>> /\ \A q \in Procs \ {p} : Same(q)
          /\ \/ at'[p] \in {"r version file", "r token"}
             \/ at'[p] = "r upgrade" /\ loaded'[p] = config
      BY <1>7, <2>1 DEF Migrate, Load, Goto
    <3>2. ~lost => Check(config)
      BY <2>1, HolderReads DEF Locked
    <3> QED BY <2>1, <3>1, <3>2
  <2> QED BY <1>7, <2>1, TruncateConfig, WriteTheConfig, WriteTheVersion DEF Migrate
<1>8. ASSUME NEW p \in Procs, RunToken(p) PROVE ConfigInv'
  <2>1. CASE End(p) /\ UNCHANGED files
    BY <1>8, <2>1, <1>1, EndQuiet DEF RunToken, Writing
  <2>2. CASE ~(End(p) /\ UNCHANGED files)
    BY <1>8, <2>2 DEF RunToken, SetAPIToken, Goto
  <2> QED BY <2>1, <2>2
<1>9. ASSUME NEW p \in Procs, RunRelock(p) PROVE ConfigInv'
  <2>1. CASE End(p) /\ UNCHANGED files
    BY <1>9, <2>1, <1>1, EndQuiet DEF RunRelock, Writing
  <2>2. CASE ~(End(p) /\ UNCHANGED files)
    BY <1>9, <2>2 DEF RunRelock, Take, Load, Unlocked
  <2> QED BY <2>1, <2>2
<1>10. ASSUME NEW p \in Procs, RunBuild(p) PROVE ConfigInv'
  <2>1. CASE End(p) /\ UNCHANGED files
    BY <1>10, <2>1, <1>1, EndQuiet DEF RunBuild, Writing
  <2>2. CASE ~(End(p) /\ UNCHANGED files)
    BY <1>10, <2>2 DEF RunBuild, SetAPIEndpoint, Goto
  <2> QED BY <2>1, <2>2
<1>11. ASSUME NEW p \in Procs, End(p), CloseFile(p), UNCHANGED chosen, lost => lost',
              at[p] \in {"i write", "r write"} => lost'
       PROVE  ConfigInv'
  <2>1. at'[p] = "idle" /\ (\A q \in Procs \ {p} : Same(q)) /\ UNCHANGED config
    BY <1>11, EndMoves, CloseMoves
  <2> QED BY <1>11, <2>1
<1>12. CASE EditConfig
  BY <1>12 DEF EditConfig, procs
<1>13. CASE UNCHANGED nodeVars
  BY <1>13 DEF nodeVars, files, procs, past
<1>14. ASSUME NEW p \in Procs, InitRepository(p) \/ InitConfig(p) PROVE ConfigInv'
  BY <1>14, <1>1, <1>2, <1>11, CreateSteps
<1>15. ASSUME NEW p \in Procs, Kill(p) PROVE ConfigInv'
  BY <1>15, <1>11 DEF Kill
<1> HIDE DEF NodeTypeOK, RepoTypeOK, ConfigInv, ChosenFirst, ConfigSurvives, LoadedChecks,
    BuiltFromChecked, Checked, Built, Check, Same, files, disk, past
<1> QED BY <1>1, <1>3, <1>4, <1>5, <1>6, <1>7, <1>8, <1>9, <1>10, <1>12, <1>13, <1>14, <1>15,
    QuietSteps DEF NodeNext

------------------------------------------------------------------------------
(* The theorems *)

\* The inductive invariant holds initially: no repository, or one of v1.7.
LEMMA InitNodeIInv == NodeInit => NodeIInv
<1> SUFFICES ASSUME NodeInit PROVE NodeIInv
  OBVIOUS
<1>1. NodeTypeOK
  BY InitNodeTypeOK
<1>2. LockPlaces /\ FilePlaces /\ MutualExclusion /\ Removals
  BY DEF NodeInit, RepoInit, LockPlaces, Locked, FilePlaces, Writing, MutualExclusion, Removals
<1>3. VersionSteps /\ VersionAfterUpgrade
  BY DEF NodeInit, RepoInit, VersionSteps, VersionAfterUpgrade
<1>4. ChosenFirst /\ ConfigSurvives /\ LoadedChecks /\ BuiltFromChecked
  BY DEF NodeInit, RepoInit, Check, Checked, Built, ChosenFirst, ConfigSurvives, LoadedChecks,
      BuiltFromChecked
<1> QED BY <1>1, <1>2, <1>3, <1>4 DEF NodeIInv

\* Every step keeps it.
LEMMA NextNodeIInv == NodeIInv /\ [NodeNext]_nodeVars => NodeIInv'
  BY NextNodeTypeOK, NextLockPlaces, NextExclusive, NextVersion, NextConfig DEF NodeIInv, ConfigInv

\* The inductive invariant of the repository and of the processes on it.
LEMMA NodeInvariant == NodeSpec => []NodeIInv
  BY InitNodeIInv, NextNodeIInv, PTL DEF NodeSpec

\* A process that mines has not run the repository's hook, so that it has its lock.
LEMMA MiningHolds ==
    ASSUME NodeTypeOK, LockPlaces, NEW p \in Procs, Mining(p)
    PROVE  held[p] # "no"
<1>1. PICK i \in 1 .. hooks[p] : StopHooks[Len(StopHooks) + 1 - i] = "miner"
  BY DEF Mining
<1>2. hooks \in [Procs -> 0 .. 4]
  BY DEF NodeTypeOK
<1>3. hooks[p] > 0
  BY <1>1, <1>2
<1> QED BY <1>3 DEF Mining, LockPlaces, Locked

\* Two processes never mine over one repository, for any number of processes that are
\* started, stopped and killed in any order.
THEOREM NodesMineAlone == NodeSpec => []OneMines
<1>1. NodeIInv => OneMines
  <2> SUFFICES ASSUME NodeIInv, NEW p \in Procs, NEW q \in Procs, p # q, Mining(p), Mining(q)
               PROVE  held[p] = "gone" \/ held[q] = "gone"
    BY DEF OneMines
  <2>1. held[p] # "no" /\ held[q] # "no"
    BY MiningHolds DEF NodeIInv
  <2> QED BY <2>1 DEF NodeIInv, NodeTypeOK, RepoTypeOK, MutualExclusion
<1> QED BY <1>1, NodeInvariant, PTL

\* A chosen configuration survives migrations, inits and crashes, and is lost only in the
\* ways that ConfigSurvives names.
THEOREM ChosenConfigSurvives == NodeSpec => []ConfigSurvives
<1>1. NodeIInv => ConfigSurvives
  BY DEF NodeIInv
<1> QED BY <1>1, NodeInvariant, PTL

\* A node is built from a configuration that passes Check, unless the chosen one was lost.
THEOREM NodeBuiltFromChecked == NodeSpec => []BuiltFromChecked
<1>1. NodeIInv => BuiltFromChecked
  BY DEF NodeIInv
<1> QED BY <1>1, NodeInvariant, PTL

\* The version file never runs ahead of the migration.
THEOREM MigratedBeforeVersion == NodeSpec => []VersionAfterUpgrade
<1>1. NodeIInv => VersionAfterUpgrade
  BY DEF NodeIInv
<1> QED BY <1>1, NodeInvariant, PTL

\* While a directory is in place, who writes below it is the holder of its lock.
LEMMA WriterHolds ==
    ASSUME NodeIInv, ~Removed, NEW q \in Procs, at[q] \in Locked
    PROVE  held[q] = "now"
  BY DEF NodeIInv, NodeTypeOK, RepoTypeOK, LockPlaces, Removed

\* A step that writes below the directory moves its process on.
LEMMA WriterMoves ==
    ASSUME NodeTypeOK, NEW q \in Procs, InitSet(q) \/ Migrate(q) \/ RunToken(q) \/ RunBuild(q)
    PROVE  at[q] \in Locked /\ at'[q] # at[q]
<1> USE DEF NodeTypeOK, Locked
<1>1. CASE InitSet(q)
  BY <1>1 DEF InitSet, Truncate, Written, TruncateVersion, VersionWritten, Load, Goto
<1>2. CASE Migrate(q)
  BY <1>2 DEF Migrate, Truncate, Written, TruncateVersion, VersionWritten, Load, Goto
<1>3. CASE RunToken(q) \/ RunBuild(q)
  BY <1>3, EndMoves DEF RunToken, RunBuild, Goto
<1> QED BY <1>1, <1>2, <1>3

\* The lock is exclusive, but for the config.toml that an init creates without it and for
\* the removal of the directory: while a process has it, nobody else touches the files.
THEOREM LockIsExclusive == NodeSpec => ExclusiveUse
<1> DEFINE Step == \A p \in Procs :
              held[p] = "now" /\ at'[p] = at[p] /\ ~Removed /\ ~Removed' =>
                 /\ UNCHANGED <<dir, version, api, token>>
                 /\ \/ UNCHANGED config
                    \/ \E q \in Procs : at[q] \in {"i create", "i fill"} /\ at'[q] # at[q]
<1>1. NodeIInv /\ [NodeNext]_nodeVars => [Step]_nodeVars
  <2> DEFINE Created == \E q \in Procs : at[q] \in {"i create", "i fill"} /\ at'[q] # at[q]
  <2> SUFFICES ASSUME NodeIInv, NodeNext, NEW p \in Procs,
                      held[p] = "now", at'[p] = at[p], ~Removed, ~Removed'
               PROVE  UNCHANGED disk \/ (UNCHANGED <<dir, version, api, token>> /\ Created)
    BY DEF disk
  <2>1. NodeTypeOK /\ LockPlaces /\ FilePlaces /\ MutualExclusion /\ Removals
    BY DEF NodeIInv
  <2>2. ASSUME NEW q \in Procs, Quiet(q) PROVE UNCHANGED disk
    BY <2>2 DEF Quiet, files
  <2>3. ASSUME NEW q \in Procs, InitLock(q) \/ RunLock(q) \/ RunRelock(q) \/ Kill(q)
        PROVE  UNCHANGED disk
    BY <2>3 DEF InitLock, RunLock, RunRelock, Kill, CloseFile, files
  <2>4. ASSUME NEW q \in Procs, InitRepository(q) PROVE UNCHANGED disk
    BY <2>1, <2>4 DEF InitRepository, Mkdir, Removals, files, disk
  <2>5. ASSUME NEW q \in Procs, InitSet(q) \/ Migrate(q) \/ RunToken(q) \/ RunBuild(q) PROVE FALSE
    <3>1. q # p /\ at[q] \in Locked
      BY <2>1, <2>5, WriterMoves
    <3> QED BY <2>1, <3>1, WriterHolds DEF MutualExclusion
  <2>6. ASSUME NEW q \in Procs, InitClean(q) PROVE FALSE
    <3>1. CASE q = p
      BY <2>1, <2>6, <3>1 DEF InitClean, NodeTypeOK
    <3>2. CASE q # p
      BY <2>1, <2>6, <3>2 DEF InitClean, RemoveAll, Removed
    <3> QED BY <3>1, <3>2
  <2>7. CASE EditConfig
    BY <2>1, <2>7 DEF EditConfig, LockPlaces, Locked
  <2>8. ASSUME NEW q \in Procs, InitConfig(q)
        PROVE  UNCHANGED <<dir, version, api, token>> /\ Created
    <3>1. UNCHANGED <<dir, version, api, token>>
      BY <2>8 DEF InitConfig, OpenConfig, FillConfig, CloseFile, files, disk
    <3>2. at[q] \in {"i create", "i fill"} /\ at'[q] # at[q]
      BY <2>1, <2>8, EndMoves DEF InitConfig, Goto, NodeTypeOK
    <3> QED BY <3>1, <3>2
  <2> HIDE DEF Created
  <2> QED BY <2>1, <2>2, <2>3, <2>4, <2>5, <2>6, <2>7, <2>8, QuietSteps DEF NodeNext
<1>2. NodeSpec => [][Step]_nodeVars
  BY <1>1, NodeInvariant, PTL DEF NodeSpec
<1> QED BY <1>2 DEF ExclusiveUse
==============================================================================
