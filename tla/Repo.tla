--------------------------------- MODULE Repo ---------------------------------
(***************************************************************************)
(* node/repo, node/config: the directory of a node, its files and lock.    *)
(*                                                                         *)
(* config.toml is one of                                                   *)
(*   none      absent                                                      *)
(*   empty     truncated by os.Create or os.WriteFile and not yet written, *)
(*             which FromFile reads as the defaults                        *)
(*   default   the commented defaults of initConfig                        *)
(*   torn      the texts of two writers over each other: does not parse    *)
(*   old       of v1.7, whose integer ConnMaxLifeTime does not parse today *)
(*   edited    the same, made to parse by hand                             *)
(*   partial   passes Check, SlashFilter.Type being the default            *)
(*   bare      passes Check without any [SlashFilter] section              *)
(*   untyped   with SlashFilter.Type = "", which Check refuses             *)
(*   good      passes Check with every field that Check looks at           *)
(*                                                                         *)
(* The version file is "now" when it holds build.Version, "old" when it is *)
(* absent, truncated or below 180.  The lock is on a file of the           *)
(* directory: who holds it when the directory is removed keeps a lock that *)
(* excludes nobody ("gone").  A process that ends releases its lock.       *)
(***************************************************************************)
EXTENDS Naturals

CONSTANTS
    Procs,      \* processes: sophon-miner init and run on the same directory
    nobody

ASSUME RepoAssumption == nobody \notin Procs

VARIABLES
    dir,        \* the directory exists
    config,
    version,
    api,        \* the file api, written by a node that started
    token,      \* whose token the file token holds
    fd,         \* a file that a process has truncated and will write: "none", "file" or,
                \* when it has been removed since, "gone"
    held        \* the lock: "no", "now" or "gone" for each process

disk == <<dir, config, version, api, token>>
files == <<disk, fd>>

Configs == {"none", "empty", "default", "torn", "old", "edited", "partial", "bare", "untyped", "good"}

RepoTypeOK ==
    /\ dir \in BOOLEAN
    /\ config \in Configs
    /\ version \in {"old", "now"}
    /\ api \in BOOLEAN
    /\ token \in Procs \cup {nobody}
    /\ fd \in [Procs -> {"none", "file", "gone"}]
    /\ held \in [Procs -> {"no", "now", "gone"}]

\* No repository, or one of v1.7.
RepoInit ==
    /\ \/ dir = FALSE /\ config = "none"
       \/ dir = TRUE /\ config = "old"
    /\ version = "old"
    /\ api = FALSE
    /\ token = nobody
    /\ fd = [p \in Procs |-> "none"]
    /\ held = [p \in Procs |-> "no"]

Exists == config # "none"

\* FromFile: an absent or empty file gives the defaults.
Parses(c) == c \notin {"old", "torn"}

\* Check: the defaults name no full node.
Check(c) == c \in {"edited", "partial", "bare", "good"}

\* MkdirAll
Mkdir == dir' = TRUE /\ UNCHANGED <<config, version, api, token, fd>>

\* FsRepo.Lock: Locked and Lock, of which the second decides.
Unlocked == dir /\ \A q \in Procs : held[q] # "now"
Take(p) == held' = [held EXCEPT ![p] = "now"]

\* fsLockedRepo.Close, and the end of a process
Release(p) == held' = [held EXCEPT ![p] = "no"]

\* os.WriteFile of a file that nobody reads half-written.
SetAPIToken(p) == token' = p /\ UNCHANGED <<dir, config, version, api, fd>>
SetAPIEndpoint == api' = TRUE /\ UNCHANGED <<dir, config, version, token, fd>>

\* What a text written from the start of a file leaves there: itself, or itself with the
\* rest of a longer text behind it.
Overlay(before, c) == IF before \in {"empty", c} THEN {c} ELSE {c, "torn"}

\* os.Create, and os.WriteFile up to its write, truncate what there is, whoever wrote it.
OpenConfig(p) ==
    /\ dir
    /\ config' = "empty"
    /\ fd' = [fd EXCEPT ![p] = "file"]
    /\ UNCHANGED <<dir, version, api, token>>

OpenVersion(p) ==
    /\ dir
    /\ version' = "old"
    /\ fd' = [fd EXCEPT ![p] = "file"]
    /\ UNCHANGED <<dir, config, api, token>>

\* The write and the close.  A file that has been removed takes them without a trace.
FillConfig(p, c) ==
    /\ IF fd[p] = "file" THEN config' \in Overlay(config, c) ELSE UNCHANGED config
    /\ fd' = [fd EXCEPT ![p] = "none"]
    /\ UNCHANGED <<dir, version, api, token>>

FillVersion(p) ==
    /\ version' = IF fd[p] = "file" THEN "now" ELSE version
    /\ fd' = [fd EXCEPT ![p] = "none"]
    /\ UNCHANGED <<dir, config, api, token>>

\* The write fails, or the process ends before it.
CloseFile(p) == fd' = [fd EXCEPT ![p] = "none"] /\ UNCHANGED disk

\* What a client reads of the node: its endpoint, and a token that p accepts if it made it.
APIEndpoint == api
APIToken(p) == token = p

\* os.RemoveAll of the directory
RemoveAll(p) ==
    /\ dir' = FALSE /\ config' = "none" /\ version' = "old"
    /\ api' = FALSE /\ token' = nobody
    /\ fd' = [q \in Procs |-> IF fd[q] = "file" THEN "gone" ELSE fd[q]]
    /\ held' = [q \in Procs |-> IF q # p /\ held[q] = "now" THEN "gone" ELSE held[q]]
==============================================================================
