--------------------------------- MODULE Node ---------------------------------
(***************************************************************************)
(* The commands init, run and stop and the node that run builds            *)
(* (cmd/init.go, cmd/run.go, cmd/stop.go, node/builder.go, node/modules),  *)
(* as processes over one repository.  A call of the chain node may fail at *)
(* any time, a write may fail once its file has been truncated, and a      *)
(* process may be killed at any step.  The operator edits config.toml only *)
(* while no process runs.                                                  *)
(*                                                                         *)
(* Without a config.toml run falls back to ~/.venusminer, which is taken   *)
(* not to exist.  All nodes have the same API address.  The parts of the   *)
(* node (mining loop, F3, journal) appear here by their start and stop     *)
(* hooks only, which return: MiningLoop, F3Participant and Journal show    *)
(* when.                                                                   *)
(***************************************************************************)
EXTENDS Repo, Sequences

CONSTANTS
    Clients     \* callers of the API method Shutdown

VARIABLES
    at,         \* what each process does next
    cancelled,  \* a signal was seen by ReqContext, which cancels its ctx
    loaded,     \* the configuration in memory of SetConfig, then of the node
    hooks,      \* how many OnStop hooks are left
    calls,      \* the process whose Shutdown each client calls
    lost,       \* history: a chosen config.toml was lost (see ConfigSurvives) and not replaced
    chosen      \* history: there has been a configuration that passes Check

procs == <<at, cancelled, loaded, hooks, calls>>
past == <<lost, chosen>>
nodeVars == <<files, held, procs, past>>

Inits == {"i exists", "i version", "i init", "i stat", "i create", "i fill", "i params", "i lock",
          "i load", "i write", "i version file", "i version write", "i close", "i fail", "i clean"}
Starts == {"r exists", "r lock", "r config", "r migrate", "r upgrade", "r write", "r version file",
           "r version write", "r token", "r close", "r wait", "r sync", "r relock", "r build", "r start", "r listen"}
Built == {"r build", "r start", "r listen", "serving", "stopping"}
Steps == Inits \cup Starts \cup {"idle", "serving", "stopping"}

NodeTypeOK ==
    /\ RepoTypeOK
    /\ at \in [Procs -> Steps]
    /\ cancelled \in [Procs -> BOOLEAN]
    /\ loaded \in [Procs -> Configs \ {"old", "torn"}]
    /\ hooks \in [Procs -> 0 .. 4]
    /\ calls \in [Clients -> Procs \cup {nobody}]
    /\ lost \in BOOLEAN /\ chosen \in BOOLEAN

NodeInit ==
    /\ RepoInit
    /\ at = [p \in Procs |-> "idle"]
    /\ cancelled = [p \in Procs |-> FALSE]
    /\ loaded = [p \in Procs |-> "none"]
    /\ hooks = [p \in Procs |-> 0]
    /\ calls = [c \in Clients |-> nobody]
    /\ lost = FALSE /\ chosen = FALSE

Goto(p, step) == at' = [at EXCEPT ![p] = step] /\ UNCHANGED <<cancelled, loaded, hooks, calls>>

\* The process is gone: its lock, and the calls it had not answered, with it.
End(p) ==
    /\ Release(p)
    /\ at' = [at EXCEPT ![p] = "idle"]
    /\ cancelled' = [cancelled EXCEPT ![p] = FALSE]
    /\ loaded' = [loaded EXCEPT ![p] = "none"]
    /\ hooks' = [hooks EXCEPT ![p] = 0]
    /\ calls' = [c \in Clients |-> IF calls[c] = p THEN nobody ELSE calls[c]]

\* A step that only reads, with the next step if it goes well or an end with an error.
Try(p, ok, step) ==
    /\ \/ ok /\ Goto(p, step) /\ UNCHANGED held
       \/ End(p)
    /\ UNCHANGED <<files, past>>

------------------------------------------------------------------------------
(* SetConfig and SetVersion: the file is truncated, then written *)

Load(p, c, step) ==
    /\ at' = [at EXCEPT ![p] = step]
    /\ loaded' = [loaded EXCEPT ![p] = c]
    /\ UNCHANGED <<cancelled, hooks, calls>>

\* SetConfig loads the file first, stillValid holding throughout, and c is what its
\* function will change.  Nothing is truncated if that or the opening fails.
Truncate(p, c, next, failed) ==
    /\ \/ Parses(config) /\ OpenConfig(p) /\ Load(p, c, next)
       \/ UNCHANGED files /\ Load(p, "none", failed)
    /\ UNCHANGED <<held, past>>

\* What init makes of a configuration, with the flags for every field that Check looks at.
InitMutate(c) == "good"

UpgradeDefaults(c) == "untyped"    \* mutant: the fields of v1.7 are not carried over

\* Version180Upgrade decodes the file over an empty MinerConfig, not over the defaults,
\* and ToMinerConfig copies what it finds: a Type that is not in the file becomes "" ...
Version180Upgrade(c) == IF c \in {"edited", "good"} THEN "good" ELSE "untyped"

\* ... and without the section there is nothing that SlashFilter points to.
HasSlashFilter(c) == c \notin {"none", "empty", "bare"}

\* The second half.  Lost are a file torn by two writers, a configuration that its own
\* upgrade spoils for Check, and whatever there was when the write fails.
Written(p, c, next, failed) ==
    /\ \/ /\ FillConfig(p, c) /\ Load(p, "none", next)
          /\ chosen' = (chosen \/ Check(c))
          /\ lost' = (lost \/ config' = "torn" \/ (loaded[p] = "partial" /\ ~Check(c)))
       \/ /\ CloseFile(p) /\ Load(p, "none", failed)
          /\ lost' = TRUE /\ UNCHANGED chosen
    /\ UNCHANGED held

TruncateVersion(p, next, failed) ==
    /\ \/ OpenVersion(p) /\ Goto(p, next)
       \/ UNCHANGED files /\ Goto(p, failed)
    /\ UNCHANGED <<held, past>>

VersionWritten(p, next, failed) ==
    /\ \/ FillVersion(p) /\ Goto(p, next)
       \/ CloseFile(p) /\ Goto(p, failed)
    /\ UNCHANGED <<held, past>>

------------------------------------------------------------------------------
(* init: initCmd and storageMinerInit *)

InitCmd(p) == at[p] = "idle" /\ Goto(p, "i exists") /\ UNCHANGED <<files, held, past>>

\* The full node is dialled; a repository that exists is refused; its version is asked.
InitChecks(p) ==
    \/ at[p] = "i exists" /\ Try(p, ~Exists, "i version")
    \/ at[p] = "i version" /\ Try(p, ~cancelled[p], "i init")

\* FsRepo.Init makes the directory for a repository it does not find.  It does not take
\* the lock, and an error leaves what there is.
InitRepository(p) ==
    /\ at[p] = "i init"
    /\ \/ Exists /\ UNCHANGED files /\ Goto(p, "i params") /\ UNCHANGED held
       \/ ~Exists /\ Mkdir /\ Goto(p, "i stat") /\ UNCHANGED held
       \/ UNCHANGED files /\ End(p)
    /\ UNCHANGED past

InitStat(p) ==
    /\ at[p] = "i stat"
    /\ Goto(p, IF Exists THEN "i params" ELSE "i create")
    /\ UNCHANGED <<files, held, past>>

\* A file that was chosen, and is not any more.
Spoilt == lost' = (lost \/ (Check(config) /\ ~Check(config'))) /\ UNCHANGED chosen

\* initConfig creates the file that Stat did not find, which may be there by now, and
\* writes the commented defaults.
InitConfig(p) ==
    \/ /\ at[p] = "i create"
       /\ \/ OpenConfig(p) /\ Goto(p, "i fill") /\ Spoilt /\ UNCHANGED held
          \/ End(p) /\ UNCHANGED <<files, past>>
    \/ /\ at[p] = "i fill"
       /\ \/ FillConfig(p, "default") /\ Goto(p, "i params") /\ Spoilt /\ UNCHANGED held
          \/ CloseFile(p) /\ End(p) /\ UNCHANGED past

\* StateGetNetworkParams: an error leaves the repository as it is.
InitParams(p) == at[p] = "i params" /\ Try(p, ~cancelled[p], "i lock")

InitLock(p) ==
    /\ at[p] = "i lock"
    /\ \/ Unlocked /\ Take(p) /\ Goto(p, "i load")
       \/ UNCHANGED held /\ Goto(p, "i clean")
    /\ UNCHANGED <<files, past>>

\* A wrong slash filter type or address, or the configuration and the version are set.
InitSet(p) ==
    \/ at[p] = "i load" /\ Goto(p, "i fail") /\ UNCHANGED <<files, held, past>>
    \/ at[p] = "i load" /\ Truncate(p, config, "i write", "i fail")
    \/ at[p] = "i write" /\ Written(p, InitMutate(loaded[p]), "i version file", "i fail")
    \/ at[p] = "i version file" /\ TruncateVersion(p, "i version write", "i fail")
    \/ at[p] = "i version write" /\ VersionWritten(p, "i close", "i fail")

InitDone(p) == at[p] = "i close" /\ End(p) /\ UNCHANGED <<files, past>>

InitFailed(p) ==
    /\ at[p] = "i fail"
    /\ Release(p)
    /\ Goto(p, "i clean")
    /\ UNCHANGED <<files, past>>

\* After any error of storageMinerInit the directory is removed, whoever has it.
InitClean(p) ==
    /\ at[p] = "i clean"
    /\ RemoveAll(p)
    /\ at' = [at EXCEPT ![p] = "idle"]
    /\ cancelled' = [cancelled EXCEPT ![p] = FALSE]
    /\ lost' = TRUE
    /\ UNCHANGED <<loaded, hooks, calls, chosen>>

------------------------------------------------------------------------------
(* run, up to the node *)

RunCmd(p) == at[p] = "idle" /\ Goto(p, "r exists") /\ UNCHANGED <<files, held, past>>

RunExists(p) == at[p] = "r exists" /\ Try(p, Exists, "r lock")

\* mutant: run goes on although the repository is locked
RunLockIgnored(p) ==
    /\ at[p] = "r lock"
    /\ IF Unlocked THEN Take(p) ELSE UNCHANGED held
    /\ Goto(p, "r config")
    /\ UNCHANGED <<files, past>>

RunLock(p) ==
    /\ at[p] = "r lock"
    /\ \/ Unlocked /\ Take(p) /\ Goto(p, "r config")
       \/ End(p)
    /\ UNCHANGED <<files, past>>

RunUnchecked(p) == at[p] = "r config" /\ Try(p, Parses(config), "r migrate")    \* mutant

RunConfig(p) == at[p] = "r config" /\ Try(p, Parses(config) /\ Check(config), "r migrate")

\* mutant: the version is written before the upgrade
MigrateVersionFirst(p) ==
    \/ /\ at[p] = "r migrate"
       /\ IF version = "old" THEN TruncateVersion(p, "r version write", "r token")
          ELSE Goto(p, "r token") /\ UNCHANGED <<files, held, past>>
    \/ at[p] = "r version write" /\ VersionWritten(p, "r upgrade", "r token")
    \/ at[p] = "r upgrade" /\ Truncate(p, config, "r write", "r token")
    \/ at[p] = "r write" /\ Written(p, Version180Upgrade(loaded[p]), "r token", "r token")

\* Migrate, whose errors, a version file that cannot be read among them, are only logged.
Migrate(p) ==
    \/ /\ at[p] = "r migrate"
       /\ \/ version = "old" /\ Parses(config) /\ Load(p, config, "r upgrade")
          \/ version = "now" /\ Goto(p, "r version file")
          \/ Goto(p, "r token")
       /\ UNCHANGED <<files, held, past>>
    \/ at[p] = "r upgrade" /\ HasSlashFilter(loaded[p]) /\ Truncate(p, loaded[p], "r write", "r token")
    \/ at[p] = "r write" /\ Written(p, Version180Upgrade(loaded[p]), "r version file", "r token")
    \/ at[p] = "r version file" /\ TruncateVersion(p, "r version write", "r token")
    \/ at[p] = "r version write" /\ VersionWritten(p, "r token", "r token")

\* ToMinerConfig dereferences nil before anything is written: the process panics, unless
\* SetConfig could not load the file.
MigratePanics(p) ==
    /\ at[p] = "r upgrade"
    /\ ~HasSlashFilter(loaded[p])
    /\ \/ Parses(config) /\ End(p)
       \/ ~Parses(config) /\ Load(p, "none", "r token") /\ UNCHANGED held
    /\ UNCHANGED <<files, past>>

\* GetFullNodeAPI, then the token of this process
RunToken(p) ==
    /\ at[p] = "r token"
    /\ \/ dir /\ SetAPIToken(p) /\ Goto(p, "r close") /\ UNCHANGED held
       \/ End(p) /\ UNCHANGED files
    /\ UNCHANGED past

\* The lock is released for as long as the chain takes to be ready.
RunClose(p) ==
    /\ at[p] = "r close"
    /\ Release(p)
    /\ Goto(p, "r wait")
    /\ UNCHANGED <<files, past>>

\* ChainHead until the chain has a height, StateNetworkName and Version
RunWait(p) == at[p] = "r wait" /\ Try(p, ~cancelled[p], "r sync")

\* When its ctx is cancelled SyncWait returns as if the chain were in sync.
SyncWait(p) == at[p] = "r sync" /\ Try(p, TRUE, "r relock")

------------------------------------------------------------------------------
(* node.New *)

\* Repo: the lock again, and the configuration again, which nobody checks,
RunRelock(p) ==
    /\ at[p] = "r relock"
    /\ \/ /\ Unlocked /\ Parses(config)
          /\ Take(p)
          /\ Load(p, config, "r build")
       \/ End(p)
    /\ UNCHANGED <<files, past>>

\* the constructors and invokes, among them SetAPIEndpoint and the filter of the Type that
\* the configuration names,
RunBuild(p) ==
    /\ at[p] = "r build"
    /\ \/ dir /\ loaded[p] # "untyped" /\ SetAPIEndpoint /\ Goto(p, "r start") /\ UNCHANGED held
       \/ End(p) /\ UNCHANGED files
    /\ UNCHANGED past

\* and the OnStart hooks: from here on the node mines.
RunStart(p) ==
    /\ at[p] = "r start"
    /\ \/ /\ ~cancelled[p]
          /\ at' = [at EXCEPT ![p] = "r listen"]
          /\ hooks' = [hooks EXCEPT ![p] = 4]
          /\ UNCHANGED <<held, cancelled, loaded, calls>>
       \/ End(p)
    /\ UNCHANGED <<files, past>>

\* APIEndpoint, metrics, the auth client and the listener: an error ends run without stop.
RunListen(p) ==
    /\ at[p] = "r listen"
    /\ Try(p, APIEndpoint /\ \A q \in Procs : at[q] \notin {"serving", "stopping"}, "serving")

------------------------------------------------------------------------------
(* The running node *)

\* A signal cancels ReqContext's ctx; a node that serves also sees it on sigChan, if it is
\* not a SIGHUP.
Signal(p) ==
    /\ at[p] # "idle"
    /\ ~cancelled[p] \/ at[p] = "serving"
    /\ cancelled' = [cancelled EXCEPT ![p] = TRUE]
    /\ \/ UNCHANGED at
       \/ at[p] = "serving" /\ at' = [at EXCEPT ![p] = "stopping"]
    /\ UNCHANGED <<files, held, loaded, hooks, calls, past>>

GetMinerAPI(p) == Exists /\ APIEndpoint /\ APIToken(p)

\* The stop command calls Shutdown, which waits in the handler for its value to be taken
\* from shutdownChan.
StopCmd(c, p) ==
    /\ GetMinerAPI(p)
    /\ calls[c] = nobody
    /\ at[p] \in {"serving", "stopping"}
    /\ calls' = [calls EXCEPT ![c] = p]
    /\ UNCHANGED <<files, held, at, cancelled, loaded, hooks, past>>

\* One value is taken; a second Shutdown waits until the process ends.
ShutdownTaken(c, p) ==
    /\ at[p] = "serving"
    /\ calls[c] = p
    /\ at' = [at EXCEPT ![p] = "stopping"]
    /\ calls' = [calls EXCEPT ![c] = nobody]
    /\ UNCHANGED <<files, held, cancelled, loaded, hooks, past>>

RepoFirst == <<"repo", "journal", "miner", "f3">>    \* mutant

\* The OnStop hooks, in the reverse of the order in which they were added.
StopHooks == <<"f3", "miner", "journal", "repo">>

NextHook(p) == StopHooks[Len(StopHooks) + 1 - hooks[p]]

\* app.Stop runs every hook, also after one that failed; the repository's closes the
\* datastore and, if that went well, the lock.
RunHook(p) ==
    /\ at[p] = "stopping"
    /\ hooks[p] > 0
    /\ hooks' = [hooks EXCEPT ![p] = @ - 1]
    /\ \/ NextHook(p) = "repo" /\ Release(p)
       \/ UNCHANGED held
    /\ UNCHANGED <<files, at, cancelled, loaded, calls, past>>

ServeWaits(p) ==    \* mutant: run waits for the requests that are being served
    /\ at[p] = "stopping"
    /\ hooks[p] = 0
    /\ \A c \in Clients : calls[c] # p
    /\ End(p)
    /\ UNCHANGED <<files, past>>

\* srv.Shutdown makes Serve return at once, and with it the process.
ServeReturns(p) ==
    /\ at[p] = "stopping"
    /\ hooks[p] = 0
    /\ End(p)
    /\ UNCHANGED <<files, past>>

Kill(p) ==
    /\ at[p] # "idle"
    /\ End(p)
    /\ CloseFile(p)
    /\ lost' = (lost \/ at[p] \in {"i write", "r write"})
    /\ UNCHANGED chosen

\* The operator makes the configuration of v1.7 parse, or writes one that passes Check.
EditConfig ==
    /\ \A p \in Procs : at[p] = "idle"
    /\ ~Check(config)
    /\ config' \in IF config = "old" THEN {"edited", "bare"} ELSE {"good", "partial", "bare"}
    /\ dir' = TRUE
    /\ chosen' = TRUE
    /\ lost' = FALSE
    /\ UNCHANGED <<version, api, token, fd, held, procs>>

Stopping(p) == RunHook(p) \/ ServeReturns(p)

NodeNext ==
    \/ \E p \in Procs :
          \/ InitCmd(p) \/ InitChecks(p) \/ InitRepository(p) \/ InitStat(p) \/ InitConfig(p)
          \/ InitParams(p) \/ InitLock(p) \/ InitSet(p) \/ InitDone(p) \/ InitFailed(p) \/ InitClean(p)
          \/ RunCmd(p) \/ RunExists(p) \/ RunLock(p) \/ RunConfig(p)
          \/ Migrate(p) \/ MigratePanics(p)
          \/ RunToken(p) \/ RunClose(p) \/ RunWait(p) \/ SyncWait(p)
          \/ RunRelock(p) \/ RunBuild(p) \/ RunStart(p) \/ RunListen(p)
          \/ Signal(p) \/ Stopping(p) \/ Kill(p)
          \/ \E c \in Clients : StopCmd(c, p) \/ ShutdownTaken(c, p)
    \/ EditConfig

NodeSpec ==
    /\ NodeInit /\ [][NodeNext]_nodeVars
    /\ \A p \in Procs :
          /\ WF_nodeVars(Stopping(p))
          /\ \A c \in Clients : WF_nodeVars(ShutdownTaken(c, p))

------------------------------------------------------------------------------
(* Properties *)

Mining(p) == at[p] \in {"r listen", "serving", "stopping"}
             /\ \E i \in 1 .. hooks[p] : StopHooks[Len(StopHooks) + 1 - i] = "miner"

\* Two processes never mine over one repository, so that one slash filter sees all
\* their blocks (builder.go:96), whatever is killed, restarted and stopped, unless a failing
\* init removed the directory under one of them.
OneMines ==
    \A p, q \in Procs :
       p # q /\ Mining(p) /\ Mining(q) => held[p] = "gone" \/ held[q] = "gone"

\* A configuration that was chosen is not lost: outside the two halves of a write under
\* the lock (fsrepo.go:297) the file passes Check, across migrations, inits, crashes and
\* restarts, until an init that found no file creates it over the one there is by now
\* (fsrepo.go:98) or a failing one removes the directory (init.go:129), a process fails or
\* dies between the halves, or an upgrade writes the empty Type of a file that had left it
\* to the defaults (migrate.go:27).  There is no other way.
ConfigSurvives ==
    chosen /\ ~lost =>
       Check(config) \/ \E p \in Procs : held[p] = "now" /\ at[p] \in {"i write", "r write"}

\* A node is built from a configuration that passes Check, although only an earlier
\* reading was checked, an upgrade has rewritten it and the lock was free in between
\* (run.go:114, builder.go:100), with the same exceptions.
BuiltFromChecked ==
    ~lost => \A p \in Procs : at[p] \in Built => Check(loaded[p])

\* A repository is marked as migrated only when its configuration is (migrate.go:80), so
\* that a migration that failed or was killed is tried again.
VersionAfterUpgrade == version = "now" => config \notin {"old", "edited"}

Removed == \E p \in Procs : held[p] = "gone"

\* What a process that has the lock "for exclusive use" (interface.go:24) may count on: until a failing init removes the
\* directory (init.go:129) no other process touches its files, its token and its endpoint
\* among them, but for the config.toml that an init creates without the lock (fsrepo.go:98).
ExclusiveUse ==
    [][\A p \in Procs :
         held[p] = "now" /\ at'[p] = at[p] /\ ~Removed /\ ~Removed' =>
            /\ UNCHANGED <<dir, version, api, token>>
            /\ \/ UNCHANGED config
               \/ \E q \in Procs : at[q] \in {"i create", "i fill"} /\ at'[q] # at[q]]_nodeVars

\* Every Shutdown call that was let in returns (common.go:43), although the channel takes
\* one value at most, also beside a signal and other calls.
ShutdownReturns == \A c \in Clients : calls[c] # nobody ~> calls[c] = nobody
==============================================================================
