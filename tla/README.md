# A verification project for sophon-miner

sophon-miner produces blocks for a pool of Filecoin miners: it follows the head
of a sync node, computes for every miner of the pool whether it has won the next
epoch, creates the blocks of the winners and broadcasts them.  Broadcasting two
blocks that contradict each other is a *consensus fault* and is fined, so a
*slash filter* keeps what was broadcast and refuses what would be a fault.

The modules here are TLA+ models of that code (paths below are relative to the
repository), TLC configurations that check them on small instances, and proofs
checked by TLAPS for all values of the constants.

## The system

| Component | State | Operations | Talks to |
| --- | --- | --- | --- |
| Mining loop, `miner/multiminer.go`: `mine`, `getLatestBase`, `GetBestMiningCandidate`, `untilNextEpoch`, `Start`, `Stop` | `lastWork` (base: tipset and null rounds), the local copy `lastBase`, channels `stop` and `stopping` | choose a base, play one round on it, create blocks, start broadcasts, count null rounds | sync node (`ChainHead`, beacon), slash filter, broadcast goroutines |
| One round: `mineOneForAll`, `mineOne`, `miner/util.go` | one goroutine per miner with a timeout, `lkWPP` held throughout | base info, ticket, election proof, winning PoSt | sync node, gateway, slash filter, recorder |
| Block broadcast: `broadCastBlock`, `submitBlock` | one goroutine per block, which outlives the round | `HasBlock`, `MinedBlock`, submit to the sync node and then to the submit nodes, `PutBlock` | slash filter, nodes |
| Slash filter, `node/modules/slashfilter` | MySQL: table `miner_blocks`, one row per miner and epoch. Local: two key spaces, by epoch and by parents | `HasBlock`, `MinedBlock`, `PutBlock`, `ListBlock` | database |
| Miner management, `miner/miningmgr.go`, `node/modules/miner-manager` | cache of the miners registered with sophon-auth, `minerWPPMap` | `ManualStart`, `ManualStop`, `UpdateAddress`, `pollingMiners`, `OpenMining`, `CloseMining`, `Update` | sophon-auth, sync node |
| Warm-up, `miner/warmup.go` | none of its own | a trial proof per miner when the loop starts | gateway, `minerWPPMap` |
| Winner counting, `CountWinners` | none | replays epochs for a query | sync node, gateway |
| Mine recorder, `node/modules/mine-recorder` | datastore: key/value records per miner and epoch, minimum epoch | `Record`, `Query`, expiry | datastore |
| F3 participation, `f3participant` | participants by miner; ticket, lease, backoff of each | lease loop, add and remove participants every ten minutes | F3 node, miner management |
| Journal and alerting, `lib/journal` | event channel, current file and rolled files; alerts | `RecordEvent`, roll, `Close`; `Raise`, `Resolve` | file system |
| Repository and configuration, `node/repo`, `node/config` | directory, lock file, `config.toml`, `version`, `api`, `token` | `Init`, `Lock`, `SetConfig`, `Migrate` | file system |
| Commands and wiring, `cmd/init.go`, `cmd/run.go`, `cmd/stop.go`, `node/builder.go` | where each process is, its configuration, its stop hooks | init, run, serve, shut down | repository, sync node, all of the above |
| API forwarding, other commands, metrics | none | permission filters, forwarding, printing | all of the above |

What is hard in this code, and what the properties below are aimed at:

* broadcasts of different rounds interleave, and check-then-act spans a remote
  call without a deadline;
* the filter's record comes after the fact it records: crashes, failed stores
  and lost answers fall in between, and the tables survive a restart;
* `base` is a pointer into the `Miner` that three functions write, compared with
  a copy; the head moves, forks, grows and falls back at any time;
* the table of the MySQL filter is also written by the loop itself (a win, a
  timeout, a fork, an error), before and after the row of the published block;
* the set of miners is changed by API calls and by a poller, each in several
  steps over three copies of the same fact (auth server, cache, map);
* a round gives up on a slow miner, but the goroutine it started runs on, with
  the shared base, the map of miners and the filter in its hands;
* the lease of an F3 participant has to be renewed across every answer the node
  can give, and the recorder cleans up beside its own writers;
* the journal's channel, its alerts' lock and its files are all bounded or named
  too coarsely for what may happen at once;
* two processes may work on one directory, whose lock `run` gives up half-way and
  whose files are truncated before they are written.

`PROJECT.json` lists these hazards at their lines, with the properties that
cover them.

## The modules

```
ChainData ── MysqlSlashFilter ─┐
          ├─ LocalSlashFilter ─┴─ BroadCast ───────┐
          └─ MiningBase ──────────  Rounds ────────┴─ Mining
                          └──────── MiningLoop  (implements Rounds)
MinerManage     MineRound     F3Participant     Recorder
Journal ── Alerting
Repo ───── Node
```

* **ChainData**: miners, tipsets, headers. A tipset is an identifier with a
  height and the blocks of *our* miners it contains; a header is identified with
  its CID. `DoubleFork`, `TimeOffset` and `ParentGrinding` define the three
  faults over pairs of published blocks, independently of what the filters look
  up.
* **MysqlSlashFilter**, **LocalSlashFilter**: the two filters as operators on
  their tables. `Take` on a non-unique condition returns any matching row
  (`MysqlCheckSameParentFault` yields the set of possible answers). The local
  `PutBlock` is two steps. A header without a ticket has no CID (`NoCid`), one
  without parents the key `EmptyKey`; an update leaves those columns alone.
* **BroadCast**: `broadCastBlock` as one process per goroutine: `CheckHasBlock`,
  `CheckMinedBlock`, `SubmitBlock`, `PutBlock`, `PutEpoch` (the local filter's
  second write), with `Crash` between any two of them. `Failures` says what may
  go wrong: `"store"` (a filter call fails), `"node"` (a submission returns an
  error, the block having been taken or not), `"crash"`. `LoopRecords` stands for
  every `PutBlock` the rest of the process can issue.
  `delivered` is what the network has; `submitted`, `kept`, `seen` and `blamed`
  are history variables.
* **MiningBase**, **Rounds**: a base, the choice of the best candidate, and the
  abstract loop: adopt the head, play a round on a base other than the last,
  count a null round after a round nobody won.
* **MiningLoop**: `mine` step by step, with `getLatestBase`'s inner loop, the
  second reading of the head, block creation that may fail, `Start` and `Stop`.
  `lastWork` *is* the loop's `base` (the code shares one object), `lastBase` a
  copy. Time is left out: a sleep is a step.
* **Mining**: Rounds and BroadCast composed, with the records a round writes
  (`Win`, `Fail`, `RecordFork`) and goroutines that run on into later rounds.
  `won` says whether the last round had a winner, which the next base depends on.
  `Reorgs` and `Prompt` state what a run assumes of the network: whether the
  head may leave the chain, and whether broadcasts end before the next round.
* **MinerManage**: the auth server (external, changed by others too), the cache,
  `minerWPPMap` and the calls that move miners between them. `lkWPP` is the flag
  `inRound`: the map cannot be written while `mineOneForAll` runs. The list
  returned by the auth server is whole for the poller and any page for an API
  call.
* **MineRound**: `mineOneForAll`'s waiters and `mineOne`'s workers, joined by a
  channel per round and miner. A waiter takes the result or gives up; the worker
  does not, and goes on with the base as it is by then (`baseEpoch` of the object
  `obj`), the map `wpp` without its lock, and the row of the MySQL filter. The
  warm-up's goroutines and the writers of the map run beside it. A map written
  while it is read may end the process (`MayAbort`), and so does a warm-up that
  fails for a miner that has been removed.
* **F3Participant**: the lease loop of one participant per miner, with one action
  per answer of the node, and MultiParticipant's monitor and stop. Time is counted
  in instances; a backoff may last any number of them, a wait no more than
  the lease allows for. `attempts` is the backoff's own counter, which a failed
  attempt raises by two because the log line calls `Duration` as well.
* **Recorder**: `Record` as get, put, and the clean-up of expired epochs, one step
  per call of the datastore. `recorded` keeps what must still be there.
* **Journal**, **Alerting**: callers, the channel, `runLoop` and the files; a
  process may be closed or killed and started again. Alerts are updated under one
  lock, within which the journal is called.
* **Repo**, **Node**: the files and the lock of one directory, and the commands
  that use them. Each process runs `init` or `run` step by step. A write of
  `config.toml` or `version` is a truncation and, a step later, the text (`fd` is
  the open file in between); `Init` is `Exists`, `MkdirAll`, `Stat`, `Create` and
  `Write`, all without the lock. A running node is the order of its stop hooks and
  the calls of `Shutdown` it has not answered. `config.toml` is abstracted to what
  the code does with it: whether it parses, whether it passes `Check`, and whether
  it does so by a `SlashFilter.Type` of its own, by the default or without the
  section, which the upgrade of v1.7 tells apart.

Operators whose comment begins with "mutant" are deliberate mistakes; each is
used to confirm that a property notices it (see `mutants` in `PROJECT.json`).

## The runs

Passing:

| Run | What it shows |
| --- | --- |
| `broadcast_local` | Three goroutines, a fork and a child tipset, all failures. Two blocks of a miner at one epoch, or on the same parents, reach the network only if the goroutines overlapped or a record was lost (`DoubleForkExcused`, `TimeOffsetExcused`); a refusal names a block that was submitted (`RefusalNamesSubmitted`). |
| `broadcast_mysql` | The double forks of the MySQL filter, with the loop writing rows in every state at any time: no later write of a row takes back the CID of a published block (`RecordNeverForgotten`). |
| `loop` | The loop implements Rounds (`ImplementsRounds`); `Stop` returns, if `getLatestBase` is left again and again (`StopReturns`); a head that stays is mined on, a lighter one too (`StableHeadIsMined`). |
| `mining_local` | The whole path with reorganisations, all failures and crashes: a consensus fault costs a record (`FaultCostsARecord`), so without failures there is none; between rounds the base is the last one if that round was won, its next null round if it was lost, or a newly adopted tipset (`WorkFollowsLast`). |
| `mining_steady_mysql` | The MySQL filter on a growing chain: no double fork, no parent grinding. |
| `manage` | `ManualStop` holds unless a call that had seen the miner open was under way (`StopHolds`); polling repairs everything in the end (`ClosedIsDropped`, `OpenIsMined`). |
| `round` | A proof that comes after the timeout is used in no round (`NoStaleWin`); a row of the table tells how and when its writer's round ended, unless the writer is a straggler or the `Error` could not be stored (`RowExcused`); the error list is bounded and ends with the latest failure (`ErrorListed`); the process dies only through a goroutine that reads the map after its lock was given up (`DeathExcused`); every round ends, whatever the nodes do and whatever is left over from the rounds before (`RoundEnds`). |
| `f3` | A lease never runs out under a participant that no call has failed (`LeaseKept`), and is regained after any failures (`LeaseRecurs`); the participant of a closed miner ends (`ClosedLeaves`); `Stop` returns (`StopReturns`) and returns nil only when nothing of it runs (`StopExcused`). |
| `recorder` | Records stay until they expire, unless two `Record` calls for one entry overlapped (`KeptUntilExpired`); below the stored minimum epoch nothing is left (`CleanBelowMin`). |
| `journal` | Without faults and without two rolls in one second no event is lost that was not in memory when the process ended (`LossExcused`); the files tell the events in order and none twice, faults included (`InOrder`); alerts agree with the journal (`AlertMatchesJournal`); `Close` returns and the lock of the alerts is released (`CloseReturns`, `LockReleased`). |
| `node` | Two processes never mine over one repository (`OneMines`); a chosen configuration is lost only to a write that fails or whose process dies half-way, to an init that creates `config.toml` on an outdated `Stat`, to the removal by a failing init, or to the upgrade of a file that left the filter's type to its default (`ConfigSurvives`); short of these a node is built from a configuration that passes `Check` (`BuiltFromChecked`); a repository is marked as migrated when it is (`VersionAfterUpgrade`); who has the lock has the files, but for a removal and for the `config.toml` of an init (`ExclusiveUse`); every `Shutdown` returns (`ShutdownReturns`). |

One run ends in a counterexample, against a sentence quoted under `findings` in
`PROJECT.json`:

| Run | What happens |
| --- | --- |
| `mining_mask` | The row of the current round hides the earlier block on the same parents. |

### Observations

What the models made visible, and why some properties are stated with their
exceptions.

The mining loop and the filters:

* `getLatestBase` goes round for as long as the head changes its height at every
  attempt: `overlapCount`, "used to avoid getting stuck in an endless loop"
  (`multiminer.go:603`), is logged and reset. Hence the premise of `StopReturns`
  and the fairness `HeadSettles`.
* A head that moves to a sibling and back between two candidates resets the null
  rounds of `lastWork` to zero; if that base has been played, the loop waits
  until the head moves again. Hence `StableHeadIsMined` promises one round, not
  a null round per epoch.
* `GetBestMiningCandidate` compares no weights (`multiminer.go:786`), although its
  comment says "If HEAD's weight is larger than LAST's weight, it selects HEAD to
  build on. Else, it selects LAST." (lines 775-776): it follows the sync node
  wherever its head goes, to a lighter tipset too. Hence `StableHeadIsMined` says
  "a head that stays" and not "a heavier head", and what it shows is what the code
  does, against that comment.
* A round that was won but whose block could not be created leaves the null
  rounds alone, although step 6b of `mine`'s comment counts it as a nil round.
  Rounds says "nobody won", not "no block".
* After the head falls back, a block may be published whose height is the parent
  epoch of a block published earlier on another tipset; `MinedBlock` does not
  look upward. Hence `FaultCostsARecord` leaves parent grinding out once the head
  has been reorganised.
* A slow broadcast and the next round's broadcast for the same epoch both pass
  `HasBlock` (`multiminer.go:543`): a double fork without any failure. Hence the
  overlap in `DoubleForkExcused`, and `Prompt` in the `mining` runs.
* The MySQL filter stores the CID of a block it refused, which later counts as
  our own block in the parent-grinding check (`slashfilter.go:166`). Hence
  `RefusalNamesSubmitted` is checked for the local filter only.
* Blocks on a base recorded as forked are created and broadcast all the same
  (`multiminer.go:363`), where `docs/en/metrics.md:24-26` says that "the subsequent
  logic will be abandoned".
* A poll under way undoes a `ManualStop` until the next poll (`miningmgr.go:62`).
  Hence the exception in `StopHolds`.
* A straggler of a round writes `Mining` over the row of a later epoch, because it
  reads the shared base again (`multiminer.go:940`), and stays blocked on its
  channel for ever.

F3 participation:

* A participant gives a ticket up after eight unexpected errors in a row, not the
  thirteen of `participation.go:21-30`: each failure calls `Duration` twice.
* Told of another issuer, or that F3 is not ready, it keeps its ticket for as long
  as that answer lasts. Hence the fairness on the expired ticket.
* A miner opened after the start ends the process: `addParticipant` starts the nil
  value it looked up (`multiparticipation.go:107`). A miner that is no longer
  listed keeps its participant, one that ended because F3 was disabled is not
  started again, and `Stop` leaves the participants after the first error running.

Journal and alerting:

* A roll that fails leaves the closed file in place, and every later event of the
  process is lost; a failing `Stat` is taken for an absent file, which `Create`
  then truncates; two rolls in one second keep the second file only.
* An alert raised before `AddAlertType` is known but never journaled, also when it
  is added later. `NewEventType` ignores its last two arguments. Nothing in the
  node constructs the alerting system yet.

Commands and repository:

* A v1.7 configuration with an integer `ConnMaxLifeTime` does not parse as the
  present one, which `run` reads before it migrates: it has to be edited by hand
  first (`EditConfig`).
* An init that started before another process initialised and ran the directory
  is refused the lock, and then removes that directory (`init.go:129`), although
  `Lock` "acquires exclusive lock on this repo" (`fsrepo.go:192`). Hence the
  exception in `OneMines` and `ExclusiveUse`. An error of `StateGetNetworkParams`,
  on the other hand, leaves a repository with the default configuration behind,
  which a second init refuses and `run` does not accept.
* `initConfig` creates the file that its `Stat` did not find (`fsrepo.go:98`),
  truncating the one that another init may have written since, without the lock and
  without `O_EXCL`: the other's configuration becomes the defaults, or a mixture
  that does not parse, under the eyes of a `run` that has checked it, or that has the
  lock, which is "for exclusive use" (`interface.go:24`). Hence the exceptions in
  `ConfigSurvives`, `BuiltFromChecked` and `ExclusiveUse`.
* `Version180Upgrade` reads the file over an empty configuration, not over the
  defaults (`migrate.go:27`). A `config.toml` without a version file that leaves
  `SlashFilter.Type` to its default passes `Check`, is rewritten with an empty type
  and is then refused, by `node.New` at once and by `Check` at the next start; one
  without the section ends `run` with a nil dereference (`def_nv170.go:39`) at every
  start. `FromFile`, on the other hand, goes by "overriding defaults specified in the
  def parameter" (`load.go:12-13`). Hence the exception in `ConfigSurvives` and
  `BuiltFromChecked`.
* A `SIGHUP` cancels the context of the command (`cli/cmd.go:119`) but does not stop
  a node that serves, which listens for `SIGTERM` and `SIGINT` (`run.go:269`).
* A second `run` that comes while the first waits for the chain, without the lock,
  replaces the file `token`. If the first then becomes the node, it does not
  accept the token that `stop` reads.
* A signal between the start hooks and `signal.Notify` (`run.go:269`) only cancels
  the context of the command, and the node serves on.
* When its context is cancelled, `SyncWait` returns as if the chain were in sync;
  `app.Start` then fails.

### Bounds

Miners do not interact in the filter (all keys start with the miner), so one
miner is enough there, and so it is for the loop, which only asks whether anybody won.
Epochs are 1 to 4 at most: enough for a block, a block on the same parents after
a null round, and a block on the parent epoch. The tipsets are the smallest
chains with a fork, an extension of a tipset by a block (same smallest ticket),
a child with our block and one without. Two goroutines suffice for a pair of
blocks, the third allows a refusal that depends on an earlier refusal.
`MaxNulls` bounds the null rounds explored on one tipset (1 or 2); `AtBound`
excuses the liveness properties when the bound, not the program, stops a
behaviour. `SubmitNodes` is 0 or 1: with 1 both the retry and its exhaustion
happen.

MineRound has one miner, three rounds and two epochs: a straggler of the first
round can meet the waiter, the row and the error list of a second round on the
same object and of a third on another. `MaxStragglers` is 2: a round may begin with
one straggler left over and leave one more itself; it bounds the exploration only,
and the proofs are for any number. Error lists of two entries (`MaxErrCounts`)
overflow in three rounds.
F3 has one miner, a term of three instances (two to wait, one within which to
renew) and a counter that runs out after two failures. The recorder has two
goroutines, three epochs and an expiry of one, so that two cleaners with
different deadlines overlap. The journal has a channel of one event, files of
two, three events and two seconds: full channel, roll, roll in the same second
and roll at the next start all happen. The node has two processes and two
clients, and any number of commands. The
operator writes a configuration, or edits that of v1.7, while no process runs,
and only one that passes `Check`.

Deadlock is not checked in the `mining`, `round` and `f3` runs: chain, rounds and
goroutines are finite in the first two, and a process that has panicked stops.
Symmetry is used on interchangeable goroutines only, and never with liveness.

### Fairness

`LoopFairness`: the loop is a goroutine whose sleeps are timers, so a step that
stays possible is taken; `ChainHead` and the beacon query, which may fail, do not
fail for ever (strong fairness). `HeadSettles` adds that the head does not change
its height at every single reading, which the epoch length of 30 s guarantees in
practice. `FairManageSpec`: the ticker
fires, calls return, rounds end by `MinerOnceTimeout`, a Go mutex is handed to a
waiter in the end, and the auth server and the provers do not fail every time.

`MineRoundSpec`: the timer of a waiter fires and the round ends when its waiters
have left; nothing is assumed of nodes, wallets and provers. `F3Spec`: timers
fire, a cancelled call returns, MonitorMiner's ticker ticks, and a call that is
made again and again is answered one day (strong fairness), an expired ticket
with the answer that it has expired. `JournalFairness`: goroutines run, and a
`select` of which several cases stay ready takes each in the end, as the random
choice of the Go runtime does. `NodeSpec`: the shutdown goroutine runs, and the
hooks it calls return.

## The proofs

Every invariant and every action property of a passing run is a theorem, and so
is the type invariant of every specification. The proofs are in modules of their
own: MiningProofs (Rounds, BroadCast and Mining), MiningLoopProofs,
MinerManageProofs, MineRoundProofs, F3Proofs, RecorderProofs, AlertingProofs
(Journal and Alerting) and NodeProofs (Repo and Node). TLC has checked each
inductive invariant on the run of its component.

| Theorem | Statement | Argument |
| --- | --- | --- |
| **MiningProofs** | | |
| `TypeCorrect` | `Spec => []TypeOK` | inductive as it stands |
| `RecordsAreKept` | `Spec => RecordNeverForgotten` | no write of either filter removes a key or empties a CID; needs the types of the tables |
| `DoubleForksAreExcused` | `Spec => []DoubleForkExcused` | `IInv` adds what a goroutine's position implies (`Phases`), that a recorded block is found by `HasBlock` (`KeptIsFound`), and that any two live goroutines for one slot excuse each other (`SlotExcused`). The step that matters is the one past `HasBlock`: every other live goroutine for the slot is then between its own `HasBlock` and its record, and is seen, or has ended without one |
| `TimeOffsetsAreExcused`, `RefusalsAreJustified` | `Filter = "local"`: `Spec => []TimeOffsetExcused`, `Spec => []RefusalNamesSubmitted` | `LocalIInv`: what the local filter holds was submitted (`EntriesDelivered`); a recorded block is entered under its parents (`ParentsEntered`), so a goroutine past `MinedBlock` has seen every other one for the same parents, or that one left no record |
| `RoundsTypeCorrect`, `NullRoundsFollow` | `RoundsSpec => []WorkFollowsLast` | in an open round the base equals its copy, and `won` is whether it has winners (`OpenOnLast`) |
| `MiningTypeCorrect`, `MiningNullRounds`, `MiningIsBroadCast` | `MiningSpec => []MiningTypeOK`, `[]WorkFollowsLast` and `Spec` | a step of the path is a step of Rounds or a stutter, and a step of BroadCast or a stutter: what a round writes, `LoopRecords` may write. With the last theorem all that is proved of BroadCast holds of the path, without `Prompt` (`PathForksAreExcused`) |
| `FaultsCostARecord` | `Prompt`, `Filter = "local"`: `MiningSpec => []FaultCostsARecord` | `MiningIInv`: a miner has one running goroutine (`Alone`, `OneRound`), so what the filter told it stays true while it runs (`SlotFree`, `Checked`), and what is recorded is what the filter holds (`OnRecord`); on one chain a running goroutine has its miner's newest block (`Below`, `Newest`), without which a later block could be ground past unseen |
| `NoDoubleForks`, `NoGrinding` | `Prompt`, `Failures = {}` (and `~Reorgs`): `MiningSpec => []NoDoubleFork`, `MiningSpec => []NoParentGrinding`, both filters | the same invariant, and `Smooth`: without failures what a node took gets recorded |
| **MiningLoopProofs** | | |
| `LoopTypeCorrect`, `LoopImplementsRounds` | `LoopSpec => []LoopTypeOK`, `LoopSpec => ImplementsRounds` | `BaseChosen`: past the candidate there is a base, and it is not written between the comparison with `lastBase` and the end of the proofs; `OneLoop`: at most one loop runs |
| **MinerManageProofs** | | |
| `ManageTypeCorrect`, `StopsHold` | `ManageSpec => []StopHolds` | a miner closed by `CloseMining` is open neither at the auth server nor in the cache, so only calls that carried it before can bring it back |
| **MineRoundProofs** | | |
| `MineRoundTypeCorrect`, `LateProofsAreLost`, `RowsMatchRounds`, `ErrorsAreListed`, `DeathsAreExcused` | `MineRoundSpec => []NoStaleWin`, `[]RowExcused`, `[]ErrorListed`, `[]DeathExcused` | a worker on its way is waited for or was given up (`AllWatched`); the object of the present round keeps its epoch (`Bases`), so only a worker that was given up reads another; a row is followed from the write to its writer's outcome (`RowsOK`); a warm-up writes to a miner's list once (`WarmedOnce`), hence the limit in `ListsOK` |
| **F3Proofs** | | |
| `F3TypeCorrect`, `LeaseIsKept` | `F3Spec => []LeaseKept` | `LeaseInv`: undisturbed, the lease outlasts the rest of the wait by the time a renewal may take |
| `StopIsExcused` | `F3Spec => []StopExcused` | what runs is in the map or in `MonitorMiner`'s hands (`RunningKnown`), and once `Stop` runs it is on its list too (`StopInv`) |
| **RecorderProofs** | | |
| `RecorderTypeCorrect`, `RecordsAreKept`, `BelowMinIsClean` | `RecorderSpec => []KeptUntilExpired`, `[]CleanBelowMin` | all cleaners stay the expiry behind the newest record (`Behind`), so they delete only what has expired; below the epoch that any one of them has come to nothing is left (`Swept`), whichever of them stores its minimum last |
| **AlertingProofs** | | |
| `AlertingTypeCorrect` | `AlertingSpec => []AlertingTypeOK` | callers in the `select` have a number reserved (`Budget`); an open file is not full (`Places`) |
| `JournalIsInOrder` | `AlertingSpec => []InOrder` | rolled files go to names at or before the clock's (`FilesInOrder`), and what is on its way is newer than every file (`WayInOrder`) |
| `LossIsExcused` | `AlertingSpec => []LossExcused` | `NoneLost`, with `Places`: without a fault an event is written to an open file, and `create` truncates an empty one |
| `AlertsMatchJournal` | `AlertingSpec => []AlertMatchesJournal` | the lock (`Locked`, `SendingIsDoing`) leaves one caller between its event and its alert; `LastKindKnown` says what is known until it has caught up |
| **NodeProofs** | | |
| `NodeTypeCorrect`, `NodesMineAlone`, `LockIsExclusive` | `NodeSpec => []OneMines`, `NodeSpec => ExclusiveUse` | where a process is tells whether it holds the lock (`LockPlaces`); a lock on one directory is held once (`MutualExclusion`), and is a lock on a removed directory only after such a removal (`Removals`). Who writes below the directory is between Lock and Close, but for the steps of `initConfig` (`Creates`) |
| `ChosenConfigSurvives`, `NodeBuiltFromChecked` | `NodeSpec => []ConfigSurvives`, `[]BuiltFromChecked` | nothing passes `Check` that was not chosen (`ChosenFirst`), what `Migrate` read before it truncated the file passes it (`LoadedChecks`), and a file is open, under its name or without one after a removal, exactly between the halves of a write (`FilePlaces`, `Removals`); every other way to a file that does not pass is on record in `lost` |
| `MigratedBeforeVersion` | `NodeSpec => []VersionAfterUpgrade` | from its truncation on the configuration is not of v1.7, until the version has been written (`VersionSteps`) |

They hold for all miners, tipsets, epochs, goroutines, calls, submit nodes,
processes, events and limits, under the named assumptions of the modules: heights
are natural numbers, the blocks in a tipset have its height, null values are
values of their own, limits and terms are positive; the recorder has a miner and
an epoch to record, the callers of the journal are finitely many, and raised and
resolved are different kinds of events.

Three hypotheses are more than that, and each is needed. `Filter = "local"`: with
MySQL a row that the loop wrote for a win, without a CID, may hide the block on
the same parents (run `mining_mask`), and the CID of a refused block is stored
like that of a published one. `Prompt`: otherwise goroutines of two rounds
overlap, which is what `DoubleForksAreExcused` and `TimeOffsetsAreExcused` state
without it. `Failures = {}` and `~Reorgs`: with failures records are lost, and
after the head has fallen back `MinedBlock` does not look upward (see the
observations).

Only model-checked: the liveness properties `StopReturns` (of the loop and of
F3), `StableHeadIsMined`, `ClosedIsDropped`, `OpenIsMined`, `RoundEnds`,
`LeaseRecurs`, `ClosedLeaves`, `CloseReturns`, `LockReleased` and
`ShutdownReturns`, because the prover does not support fairness.

## Not modelled

Time (delays, deadlines, late starts); cryptography and message selection (a
win, a proof, a set of messages is a choice); the content of log lines, metrics
and journal events. Of the components listed in `PROJECT.json`:

* `CountWinners`, `StatesForMining`, `ListAddress`, `ListBlock` and
  `WarmupForMiner` answer a query and change nothing; `SyncStatus` fills a field
  for the log and the API;
* the API layer forwards to the miner behind permission filters, generated
  proxies and documentation generators hold no state, and the commands `address`,
  `record` and `winner` send one request and print;
* metrics and tracing only report;
* the dependency injection of `node/options.go` is a library in itself; what it
  amounts to here, the order of hooks, is in Node;
* the datastores of a repository, which have a lock of their own, the fallback to
  `~/.venusminer` and the fields of the configuration beyond what `Check` needs;
* how `pollingMiners` and `SyncStatus` learn of a stop: MinerManage polls for ever.

## Plan

Every safety property has its theorem. What is left: state without `Prompt` what
the whole path still guarantees (the excuses of `DoubleForkExcused` and
`TimeOffsetExcused` in terms of rounds), prove what the liveness properties rest
on as safety (a miner that is open and not mined is carried by the next poll, a
caller in the journal's `select` has room, a reader or a journal that closes), and give MinerManage an
abstract specification of its own.
