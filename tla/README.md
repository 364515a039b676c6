# A TLA+ model of faultfs

faultfs is a FUSE loopback file system that injects faults: a mount forwards
every operation to a backing directory, and on the way a shared `Injector`
decides whether to fail it, delay it, or refuse it for lack of (simulated)
capacity. A control socket changes the injector while the mount is serving.
Paths below are relative to the repository's root (`src/` here).

## The system

**Injector** (`injector.go`, `rule.go`, `check.go`, `state.go`, the setters of
`profile.go`). State, all under `Injector.mu`: the ordered rule list (each rule
with its remaining quota and the repaired part of its bad region), the next rule
ID, the spare-block budget with the values `Refresh` restores, and the latency
profile and speed with theirs. Operations: `Add`, `Delete`, `Clear`, `Refresh`,
`SetSpareBlocks`, `SetProfile`, `SetSpeed`, readers such as `List`, and `Check`,
which every request goes through and which is itself a writer: it spends quotas,
repairs sectors and spends spare blocks. Correct means: the first applicable rule
decides; a read passes only over bytes that are not bad; a write repairs what it
writes, pays for it, and does nothing when it cannot pay; IDs are never reused;
`Refresh` restores and reports exactly what changed.

**Capacity gate** (`capacity.go`, used by `FaultFile.Write` and `Allocate`).
Lock-free atomics: an estimate of the bytes used in the backing directory and the
time of its last alignment. Each write reads them, may call `statfs`, compares,
and adds its size to the estimate, in separate steps. Correct means: the backing
does not grow past the capacity, an estimate does not stay wrong, and a failing
`statfs` does no harm.

**Data path** (`file.go`, `faultnode.go`, `dir.go`, `delay.go`). Each FUSE callback
runs in its own goroutine: sleep for the modelled latency, pass the gate (writes),
`Check`, call the backing file system, remember the offset at which the next
sequential access would start. Control requests run between any two of these steps.
Correct means: no read is served the old data of a sector as if it were repaired,
and the latency is chosen by what was transferred.

**Latency arithmetic and calibration** (`delay.go`, `profile.go`, `calibrate.go`).
int64 durations with overflow guards; a measurement of the backing, run once per
process. Correct means: slower settings are never faster.

**Control plane** (`control.go`, `control/`, `calibrateCached`, the CLI's `badsector`). One
goroutine per connection, one request per connection. `status`, `dump` and
`set-latency` are made of several critical sections; `set-latency` with a bandwidth
waits for a measurement that one request makes for all; `badsector` is two requests.
State: `sync.Once` with its result, and what each request still has to do. Correct
means: a request that is answered has taken effect, a profile faster than the backing is
never in force, a sector is never there without the budget it came with, replies
show no repair that nobody paid for, and nobody waits for ever.

**Mount life cycle** (`faultfs.go`, `cmd/faultfs/mount.go`, `control/server.go`).
Mount, capacity check, control socket, detach with a readiness handshake, signals,
unmount. The socket's path follows from the mount point, so daemons for the same
mount point share it, and everything that is removed is removed by name. State: where each
daemon's `Run` is, its main goroutine, its parent, the stack of mounts, who owns the socket's
name. Correct means: `mount --detach` returns, and when it reports success the daemon can be
reached; sockets and mounts of dead daemons do not stop a new one; a daemon leaves nothing
behind and does not outlive its mount.

**Command line and parsing** (`cmd/faultfs/`, `knob.go`). Flags, one control request
per command, printing; parsing of sizes, speeds and spare budgets. Correct means: what is
accepted is what was written, and fits.

Hard behaviours, all listed with their lines under `hazards` in `PROJECT.json`:
several writers around an unlocked estimate; the repair recorded before the data is
written; steps of a callback interleaved with control requests; long sequences of
repairs, budget changes and refreshes; overflow at the ends of int64; overlapping
rules; requests of several critical sections; daemons that share the name of a socket and of
a mount point, crash, and come back.

## Modules

| Module | Models | Extends |
| --- | --- | --- |
| `BlockMath` | `addOK`, `blocksNeeded`, `gridBlocksToSpare`, `coverRange`, `allHealed`, the overlap test of `Check`; int64 is `-MaxInt-1..MaxInt` and wraps | |
| `Injector` | every method of the injector that changes state, one action each | `BlockMath` |
| `BadSectorDevice` | abstract: a disk with bad sectors and spare blocks, no rules, no grid, no clamping; `Injector` implements it | |
| `CapacityGate` | `checkWriteCapacity`/`capacityUsed`, one action per atomic access | |
| `DelayMath` | `addByteDelay`, `sleepFor`, `bwToByteDur`, `subClampDur`, `AdjustProfile` | `BlockMath` |
| `SizeMath` | `finiteNonNegInt64`, the block size of `ParseSpareSpec`, the bounds of `ParseSpeed`, `backingStatfsUsed`/`Total`, `checkCapacityAtMount`, `reflectCapacity` | `DelayMath` |
| `DataPath` | the FUSE callbacks as processes over one injector, with control requests | `Injector` |
| `ControlPlane` | concurrent control requests as sequences of critical sections over one injector, with `calibrateCached` and `SetProfileCalibrated` | `Injector` |
| `MountLifecycle` | daemons on one mount point: `mountInternal`, `Run`, cleanup, `detachSelf`, `waitReadyOrError`, `Server.Listen`/`Close`, `unmount` | |
| `BlockMathProofs`, `InjectorProofs`, `CapacityGateProofs`, `DataPathProofs`, `ControlPlaneProofs`, `MountLifecycleProofs` | theorems | the module they are about |
| `SectorProofs` | theorems about the healing rules byte by byte, and the refinement of `BadSectorDevice` | `InjectorProofs` |
| `ArithmeticProofs` | theorems about `BlockMath`, `DelayMath`, `SizeMath` | `MCArithmetic`, `BlockMathProofs` |
| `MCArithmetic`, `MCInjector`, `MCCapacityGate`, `MCDataPath`, `MCControlPlane`, `MCMountLifecycle` | small instances for TLC | the module they check |

Definitions named `X_Something` beside a definition `X` are mutants: `X` with a
plausible mistake. `PROJECT.json` says which property must fail when the mutant takes
the place of `X`. `PROJECT.json` also maps every other definition to its source lines.

### How the state corresponds to the code

- `Injector`: the variables have the names of the Go fields. A rule's `healedBlocks`
  is the set of healed indices of the Go slice and `total` its length; `total = 0` is
  the nil slice (whole mode). `Check(q)` is the loop of `Check`: `Decides(i, q)` says that rule
  `i` is the first one at which the loop does not `continue`, and the disjuncts are the
  loop's exits (plain rule, bad read, already repaired, no spare, repair, no rule).
  `reply` is the result handed to the caller. `remapped` is history: bytes
  repaired since the finite budget was last filled.
- A path pattern is the set of request paths that contain it. Rules have errnos other
  than 0 and offsets that are not negative: the code does not reject others, but a rule
  with errno 0 injects nothing and a region before the start of a file matches nothing.
- `CapacityGate`: time is relative. `age` is the time since `usedCachedAt`; reading the clock and
  loading `usedCachedAt` are one step, all other atomic accesses are steps of their own.
  `used` is what `statfs` would report. A landed write grows it by 0 to its size (overwrite,
  short write, error), plus up to `Rounding` where files take whole blocks.
- `DataPath`: `Route` is the order of the calls in a handler. `Begin` reads the last offset;
  `StoreWrite` and `StoreRead` write it. The gate admits or refuses without a reason here. A handle is the path it
  was opened with, which is the path it checks with until it is closed. A read stores its offset before anything is read:
  `LoopbackFile.Read` of go-fuse returns a descriptor, an offset and a length, `Size()` is that length, and the server reads
  the bytes when it answers the kernel (`Pread`, which may come up short at the end of the file). A write is made where the
  handler makes it (`Transfer`); with `BackingMayFail` it may be short or fail, and a failed one reports `FailedCount` bytes,
  which is `uint32(-1)` in go-fuse. `hollow`, `head` and `overlapped` are history: bytes that were repaired for a
  write which has not been to the backing file yet (of the bytes a write names: the rest of a repaired block is outside its
  request and not counted; what a failed or short write leaves is not counted either, its caller is told); where the bytes last
  written on a handle end; and the files of which two writes have ever been in progress at once. The length of a short read
  changes nothing that is kept, so `Pread` has none.
- `BadSectorDevice`: its `sectors` are the healing rules, with the bytes of their region and the ones
  that are bad, its `stock` and `filled` are the budget and the values `Refresh` restores, its `answer`
  is the result of the last read or write (`DeviceSectors`, `DeviceAnswer` and the instance `Device` at the
  end of `Injector`). A read fails exactly over bad bytes. A write repairs all it touches in one sector and pays
  for it, or finds nothing bad in a sector it touches, or is refused and changes nothing. That is the promise to
  users, in bytes; which sector is repaired and how many blocks that takes is left to the injector. It holds while all
  rules are bad sectors (a plain rule may answer before them) and requests are not empty.
- `ControlPlane`: `todo[c]` is the rest of the critical sections of client `c`'s request (`Route`), and
  each action takes the head. `status` and `dump` list the rules before they read the budget; the sections that
  read profile, speed, block size and capacity change nothing and are left out. `Measure` and `Measured` are the
  two ends of `Calibrate` inside `calibOnce.Do`; `Cached` is every later caller, which waits. `Adjusted` is the
  profile that `SetProfileCalibrated` stores. `Short` is a command of one critical section, `Traffic` a `Check`.
  `Abandon` ends a `badsector` that cannot or does not go on. `disturbed` and `budget` are history: which steps of a request
  others have written over since, and the budget when a reply listed the rules.
- `MountLifecycle`: `at[d]` is the place of `Run` in daemon `d`, `wait[d]` its main goroutine when it is
  detached, `parent[d]` the process that waits for the pipe. `mounts` is the stack on the mount point, with the mounts of dead
  processes; `sock` says whose socket file has the name, `listening` who accepts connections. Binding needs the name to be
  free; closing a Go listener unlinks the name, whoever has it, and so do `os.Remove` in `Listen`, in `Close` and in
  `unmount`. A process that ends leaves its file and its mount. `Failures` are the calls the system may refuse, at any time:
  `"listen"` (`MkdirAll` or `net.Listen`), `"remove"` (unlinking a name, whose error is ignored everywhere), `"unmount"` (go-fuse's
  five tries and then `fusermount3 -u -z`, whose error is ignored: cleanup does not try `fusermount`, as the `unmount`
  command does) and `"accept"` (`Serve` returns on any error of `Accept`; the listener stays open and the daemon is in `deaf`).
  `control.Send` has no deadline: `PollStuck` is a status request to such a daemon (`peer[d]`), and the main goroutine looks
  neither at `Run` nor at the clock until the listener is closed (`Hangup`). `alone[d]` and `refused[d]` are history: no other
  daemon lived when `d` started, none has started since, and nobody has unmounted anything but `d`'s mount; which calls of `d`
  were refused.
- `SizeMath`: a parsed number is a fraction, `NoNumber` for NaN and the infinities; `Refused` is a parse error. A block size
  may be off an integer by 1/`WholeWithin`, which is `1e-9` in `knob.go:208`.
- `DelayMath`: float64 enters only where it can go wrong: large values round to multiples of
  `FloatGrain`, and a conversion outside int64 gives the lowest or the nearest value, as
  processors differ.

## Runs

All bounds are constants in the `.cfg` files.

| Run | Checks | What it shows |
| --- | --- | --- |
| `arithmetic` | `CoverRangeExact`, `OverlapAgreesWithCover`, `ChargeIsCeil`, `ByteDelayClamps`, `AdjustedReachesTarget`, `LowerBandwidthIsSlower`, `ParsedSizeFits`, `AcceptedSpeedIsBounded`, `DfAgreesWithGate`, `CapacityFullFirst` | the integer code equals reference definitions written with byte sets, unbounded integers and fractions, for every input of a small int64; what is accepted fits; `df` and the gate agree to less than a block, and an accepted capacity fills before the backing does |
| `heal` | `SpareWithinBudget`, `NoFreeRemap`, `ReadPassesOnlyRepaired`, `ImplementsDevice`, `OnlyWrittenBlocksRepaired` | bad sectors: what is repaired, when, at what price; together they are the disk of `BadSectorDevice` |
| `plain` | `TypeOK`, `QuotaWithinN`, `OneHitPerAnswer`, `IDNamesOneRule`, `RefreshReportsChanges` | quotas, and which rule pays for a request that several match; an ID never names a second rule, also after deletes and clears; what `Refresh` reports |
| `capacity_solo` | `TypeOK`, `NoOvershoot`, `RetriesGetThrough` | one callback at a time stays within the capacity and is not refused for ever |
| `capacity_unaligned` | `OvershootBounded` | three racing callbacks on an estimate that is not aligned again (a burst, or `statfs` failing for any time) overshoot by less than the sum of their requests |
| `data` | `DataTypeOK`, `HollowOnlyInFlight`, `SequentialWritesContiguous` | two callbacks and control requests in any order, on a backing that writes short or fails: a repaired byte with old data always belongs to a write at the backing file, and a write takes the sequential delay only where the last bytes written end |
| `control` | `ControlTypeOK`, `RepairsShownArePaid`, `ClampedUnlessFailed`, `LatencyTakesEffect`, `OneMeasurement`, `SectorComesWithItsBudget`, `EveryRequestAnswered` | two clients among single commands and traffic: torn replies never show a repair as unpaid; all requests are clamped by one measurement, and nobody waits for it for ever; a refresh between the two writes of `set-latency` undoes neither |
| `mount` | `TypeOK`, `ReadyIsReachable`, `StaleSocketReplaced`, `CleanupLeavesNothing` | two daemons on one mount point, with crashes, signals, unmounts and refused calls at any time: a daemon that nobody meddles with keeps the promise of `--detach` over whatever dead ones left; a stale socket is replaced, or the daemon was refused that and does not listen at all; cleanup leaves only what it was refused to remove |
| `mount_liveness` | `DetachIsAnswered`, `UnmountedDaemonEnds` | `--detach` returns and a daemon whose mount was taken away ends, unless its main goroutine hangs in a request that nobody will answer |
| `masked_sector`, `delay_clamp`, `mount_rivals` | one property each | violated, see below |

### Bounds

- `arithmetic`: every region, request, block size up to 4 and delay of a small int64 (`MaxInt` in the cfg), fractions
  of 2 and 3 on both sides of every bound of the parsers, backings of up to four blocks with block sizes that do not divide the capacity;
  clamping at the top of int64 and products that wrap to negative, zero and positive values all
  occur. The code has no constant that ties it to a larger width.
- `heal`: two rules out of three overlapping regions. One ends inside a block, one needs more
  blocks than `MaxHealedBlocks = 2` and falls back to whole mode. Four budgets with three block
  sizes, so every grid is paid for in another size; requests of one and three bytes that start
  inside and outside the regions. Interactions in `Check` are between pairs of rules.
- `plain`: two rules held and three added, so IDs are missing and could be reused; quotas 1 and 2 are
  exhausted, on rules that match the same request; a sector rule between plain rules.
- `capacity_solo`: sizes 0, 1, 2 against a room of 3, lifetime of two ticks: an estimate can expire
  between any two steps of a callback. `capacity_unaligned`: three writers, so one can compare on an
  estimate that two others have both outdated; a room of 2.
- `data`: one file with a bad sector of one block of two bytes, requests on one byte or the other, two at once; a budget that is
  used up by one repair. The data of different files never meet, and `Check`'s decisions over several rules are the subject of
  `heal`. There is one op of each kind of route. Every backing write may succeed, put down nothing, or fail; `FailedCount = 2`
  is the least that is more than a length. Longer and empty requests, other offsets and more callbacks are left to the theorems,
  which need none of these bounds. Two callbacks are interchangeable (`SYMMETRY`; no liveness is checked).

- `control`: two clients are enough for every overlap of two requests; one sector of two bytes, whole before a budget
  is set and one block after it, so a repair and a filling of the budget both show; one profile that the measurement clamps, one that
  needs none. A third client only repeats what `Short` and `Traffic` already do between any two steps.
- `mount`: two daemons, each started once: a predecessor that stays, stops or dies at any step, and a successor at
  any other; both can be started at once. Any number of unmount commands, one at a time; every call in `Failures` may be refused
  every time. The deadlock check is off: when both have ended, nothing needs to happen. `mount_liveness` leaves out `"listen"` and
  `"remove"`, which change who is reachable but let nobody wait: a poll that finds no daemon times out. `mount_rivals` refuses nothing,
  to show that the violation does not come from a missing socket.

### Fairness

`capacity_solo`: `FairSpec` has weak fairness of `Handler(w)`, the
steps of a callback that has started (a goroutine that is never blocked: the gate takes no lock),
and of `Tick` (time passes). Requests come from applications and have no fairness:
`RetriesGetThrough` speaks of a caller that retries for ever. `StatfsOutcomes` is `{"ok"}` there: with a
`statfs` that never recovers an estimate stays as it is.

`control`: weak fairness of `Step(c)`: the goroutine of a request runs when it is not blocked, `Calibrate` returns (well or
with an error), and a `badsector` command sends its second request or is given up. Clients and applications have none.

`mount_liveness`: weak fairness of `RunStep(d)`, `MainStep(d)` and `ParentStep(d)`, the goroutines of a daemon and the
parent process. Nobody has to start, signal, kill or unmount anything, and no call has to fail. A main goroutine in `control.Send`
takes no step: there is no deadline that would justify one. That is the exception `Hanging` in `DetachIsAnswered` and
`UnmountedDaemonEnds`. The time-out of the wait comes between two polls, as in the code. `UnmountedDaemonEnds` starts from a daemon that
serves: one that is already in its cleanup may wait for a mount that is under another one.

## Disagreements between code and documents

Shown by the violation runs:

1. `masked_sector`: with two per-block rules over the same bytes the repaired one answers every write
   (`return 0`, where whole mode has `continue`), and the other is never repaired.
2. `delay_clamp`: the largest duration does not survive `float64` and back; the "clamped" request may
   not sleep at all. With a fixed part, the sum in `delay.go:32` wraps before that.
3. `mount_rivals`: the child of `mount --detach` asks the socket by name whether it is ready. A daemon that already serves the mount
   point answers, the child reports success before it has mounted, and until its own `Listen` (if its mount is
   not refused) `add` and `set` reach the old daemon.

Met while modelling, and reachable with the constants given:

- `check.go:50`: the comment at `check.go:42` takes `count*gridBs` to be bounded, but `SetSpareBlocks` and the parser accept any
  block size: two blocks of 2^62 bytes wrap, and a repair *adds* spare blocks (`SpareWithinBudget` with `MaxInt = 7`, a sector of
  5 bytes and the budgets `<<2, 4>>` and `<<3, 1>>`). The theorems about the budget name the assumption that excludes it.
- `mount.go:209`: `mount.go:195-197` says that a setup error is seen within 20 ms. The loop sits in `control.Send`, without a deadline,
  when the socket belongs to a daemon whose `Serve` has returned (any error of `Accept`, too many open files for one); the child and
  the parent of `mount --detach` then wait until that daemon ends (`SetupErrorIsReported` with `FairSpec` and
  `Failures = {"accept"}`).
- `file.go:42`: `file.go:35` takes `res.Size()` for the bytes read; it is the length asked for, since go-fuse reads later
  (`StoreRead` comes before `Pread`). After a short read the read that goes on where the bytes ended is not sequential.
- `capacity.go:63`: `usedCached.Store` puts back a `statfs` that is older than another callback's `Add`; the
  estimate is too low for a whole lifetime (`OvershootBounded` with `SPECIFICATION Spec`, where an alignment can come at any time).
- `file.go:57`: `Check` records the repair before the data is written; with two callbacks a read in between is served the
  old data of a sector that would have answered EIO without the write (`NoHollowRead` without its condition on writes).
- `capacity.go:79-82`: two callbacks compare before either adds (`NoOvershoot` with two writers);
  `OvershootBounded` says how far this goes.
- `capacity.go:82` counts the request, but files take whole blocks: with `Rounding = 1` one writer passes
  the capacity within one lifetime of the estimate.
- `file.go:60`: a backing write that fails after `Check` leaves the sector repaired and the spare blocks spent, with the old data
  in it (with `UNCHANGED hollow` in `TransferFails`, `NoHollowRead` is violated), which the order of gate and `Check` is meant to avoid.
- `file.go:61`: a backing write that fails reports `uint32(-1)` bytes, and the offset kept is 4 GB minus one further on: a write that
  retries at the same place is random, one that far on would be sequential (`SequentialWritesContiguous` names the bound).
- `control.go:127` calls the dump a snapshot of everything; it is read in several critical sections, and so is `status`.
  `RepairsShownArePaid` says what still holds of the pair of rules and budget.
- `control.go:110-119`: two `set-latency` requests at once may leave the profile of one and the speed of the other. One that has to
  measure first stores its profile tens of milliseconds later and overwrites a request that came after it.
- `calibrate.go:30`: `sync.Once` keeps a failed calibration: no later request is clamped, although the backing may be well again.
- `profile.go:190`: more than 10^9 bytes a second truncate to 0 ns per byte, which is "unlimited": `--seq 1G` neither limits nor
  warns, against `calibrate.go:15-16` and the examples of `knob.go:76-77` (`AcceptedSpeedIsBounded` names the bound). For the
  same reason 600 MB/s become 1000.
- `faultfs.go:121`: the capacity test of a mount counts all free blocks (`Bfree`), also those reserved for root, so the backing may
  be full for users before the capacity is.
- `control/socketpath.go:16`: the name is a hash of the mount point as typed: `/mnt/x` and `/mnt/x/` have different sockets.
- `faultfs.go:93`: a daemon whose socket cannot be opened serves without one; with `--detach` its child gives up after five seconds,
  ends without cleanup, and leaves a dead mount.
- `faultfs.go:100-101`: where there is no `fusermount3`, or it fails as well, a daemon ends with its mount left behind;
  `mount.go:226-227` has a fallback to `fusermount`, cleanup has none.
- `control/server.go:36-40`: a stale name that cannot be removed leaves the daemon without a control socket (`StaleSocketReplaced`
  says that it is this or the socket).
- `faultfs.go:100`: `cleanup` unmounts by name. A daemon that stops after another has mounted over it takes that one's mount away.
- `check.go:90`: a read of no bytes strictly inside a whole-mode sector answers EIO (that is why `ImplementsDevice` has no empty requests).
- `rule.go:52` and `doc/library.md:87` say a rule's region is matched by the request's start;
  `check.go:90` matches any overlap.
- `file.go:13` and `faultnode.go:13` say that only forwarded requests sleep, after forwarding; every
  handler sleeps first, also for requests the rules then reject.

## Proofs

Every invariant and action property that a passing run checks is also a theorem. The theorems hold for
every value of the constants that satisfies the named assumptions of the modules (`MaxIntAssumption`,
`DelayAssumption`, `SizeAssumption`, `InjectorAssumption`, `GateAssumption`, `DataPathAssumption`, `ControlAssumption`, `MountAssumption`,
`BlockSizeAssumption`), which say what the Go types, the callers and the mount check ensure. Where a theorem needs more,
its statement says so:

| Hypothesis | Says | Why, and what happens without it |
| --- | --- | --- |
| `GridBounded` | a grid of `MaxHealedBlocks` blocks of any configured size fits in int64 | the assumption of the comment at `check.go:42`; a wrapped product refutes the theorems |
| `RequestsNameBytes` | reads and writes have at least one byte, inside the file range | what the kernel sends; `check.go:90` rejects an empty read inside a sector |
| `HealOnly` | all rules added are bad sectors | a plain rule answers before them and is no part of a disk |
| `SpecsParsed` | the budgets of `badsector` requests have a count of at least -1 and a block size of at least 1 | what `ParseSpareSpec` lets through (`knob.go:179-217`) |
| `Rounding = 0`, `"fails" \notin`, `"ok" \notin StatfsOutcomes` | files take what is written; `statfs` always works; the estimate is not aligned again | each is the condition of its run |

- `InjectorProofs!TypeCorrect`, `CapacityGateProofs!TypeCorrect`: types, each inductive by itself. The
  first needs `BlockMathProofs`: block indices of a request lie inside the grid, charges are int64.
- `InjectorProofs!SpareNeverLeavesBudget`, `NothingRemappedForFree`: the budget stays between 0 and the value last set, and
  the blocks gone hold the bytes repaired. Neither is inductive: a charge computed from a wrapped product can be negative.
  `GridsFit` adds that no grid has more than `MaxHealedBlocks` blocks and that a full grid of any block size in use fits
  in int64. `SpareBudgetStep` follows the budget through `Next`; `DivUpCovers` and
  `GridBlocksToSpareCovers` say that a charge holds the bytes it is for.
- `InjectorProofs!IDsNeverReused`: `IDsIncrease` orders the list by IDs that are at most `nextID`, which makes it inductive;
  `IDsOfAStep` says that a step takes IDs away or brings in the one above. Every retired ID is at most `nextID` too, so none comes back.
- `InjectorProofs!OneHitIsSpent`: the rule that decides is the only one `Check` changes, and those before it have continued.
- `InjectorProofs!QuotaKept`, `RefreshReportIsExact`: `RulesOK` says of each rule what `Add` sets up and
  all operations keep: the grid is that of a sized healing rule and covers its region, a rule with a grid repairs
  by block and one without as a whole (`GridOK`), and `Refresh` restores the hits the rule was added with (`QuotaOK`).
  `RuleStep` says what can become of a rule in one step; these theorems and the next ones rest on it.
- `SectorProofs!PassedReadsAreRepaired`, `OnlyWhatIsWrittenIsRepaired`: from bytes to blocks and back. `CoverRangeShared` says that
  `coverRange` gives the blocks of the shared bytes, and `RulesOK` that they are in the grid.
- `SectorProofs!InjectorIsADisk`: the refinement `ImplementsDevice`, initial state and every step. A passing write is the disk's
  write of one sector or a rewrite, an EIO is a refusal, `Delete`, `Refresh` and the rest are its other actions or
  stutters. The invariant is `RulesOK`, `GridsFit`, the budget, the order of IDs (two rules are two sectors), and that all
  rules heal. What the disk demands of the price is `BytesOfBlocks`: bytes that lie in given blocks are at most a block size for each.
- `CapacityGateProofs!LoneWriterStaysWithinCapacity`, `FailOpenStaysWithinCapacity`: one writer, no
  rounding. The strengthening `LoneInv` relates the estimate to what it stands for at each step of the callback: a
  valid estimate is at least what is on disk plus what is admitted and still to land (`Covered`), and
  the value being compared is at least what is on disk (`LocalOK`). The second theorem starts from an
  aligned estimate and lets `statfs` fail at any time; there the estimate covers the disk even when expired.
- `CapacityGateProofs!BurstStaysBounded`: any finite number of writers on an estimate that was aligned once. `BurstInv`: what is on disk and
  what has passed the gate is within the estimate; the estimate and what is still to be added to it by writers whose
  comparison will succeed is within the capacity and one largest request for each writer but one. The step that matters is the
  load of the estimate (`BurstLoad`): the writer that fits there is the one that is not counted. The bytes asked for by a
  set of writers are the cardinality of a set of pairs (`Asked`), which needs no sum and no induction.
- `DataPathProofs!HollowBytesAreInFlight`, `NoReadOfHollowBytes`: any number of callbacks, any rules, any control requests, any backing. `DataInv` is typing, which
  requests can be at which stage (`CallbacksOK`), and that hollow bytes belong to writes at the backing file (`HollowOK`).
  The step that matters is `Decide`: only the write that repairs makes bytes hollow, and it goes straight to the backing. `NoHollowRead`
  follows: a file with no write in progress has no hollow byte. It needs no run of its own beside `HollowOnlyInFlight`.
- `DataPathProofs!DataTypeCorrect`, `SequentialWritesAreContiguous`: `DataTypeOK` includes that a callback is at a step of the handler
  of its request (`OnItsRoute`, from `CallbacksOK`). `LocalTypes` types the locals and offsets; `OffsetsOK` says that the offset a
  handle keeps for writes is the end of the bytes last written, or `FailedCount` and more, unless a write has been made and not stored
  yet, and that a callback which compares equal still does when it sleeps. Both hold of files whose writes have never overlapped;
  `WritesApart` says that two writes in progress are on record in `overlapped`. Once they have overlapped nothing is claimed of the file.
- `ControlPlaneProofs!ControlTypeCorrect`, `ProfileStaysClamped`, `MeasuredOnce`: any number of clients, any requests and any
  injector. `ControlInv` says what each request can have left (`RouteOK`): a profile that limits bandwidth is next only when the
  measurement has a result, and a request that measures sees `calib = "running"`. That is why the first to
  calibrate finds nobody measuring (`MeasureStarts`), why the result is the one everybody gets (`ResultStays`), and why no
  unclamped profile is written unless the measurement failed (`AdjustedIsClamped`). Types rest on `InjectorProofs!TypeStep`: every step is a step
  of the injector or leaves it alone (`InjectorStep`). The lemmas on short sequences serve the routes.
- `ControlPlaneProofs!SectorHasItsBudget`, `LatencyIsInForce`, `RepairsShownWerePaid`: what a request has written stands until `disturbed` says that
  another has written it too. `SectorKept`, `LatencyKept` and `StatusKept` say this for the sections each request has behind it;
  `WhoWritesProfile`, `WhoWritesSpeed`, `WhoSetsBudget`, `WhoFillsBudget` and `WhoAdds` name the only steps that can write, and `OthersStandBy` leaves
  the rest of a request alone while another takes a step. The last one needs the budget never to grow unless it is filled, which
  is where `GridBounded` comes in.
- `MountLifecycleProofs!TypeCorrect`, `ReadyDaemonIsReachable`, `StaleSocketIsReplaced`, `CleanupIsComplete`: any number of daemons on one
  mount point, with crashes, signals and unmounts. `MountInv` says that a live daemon which has the name listens, and listens
  only between `Listen` and `Close` (`SocketOK`), that a daemon mounts once (`MountsOK`), that a parent knows what its child has reported
  (`ParentOK`), and that a daemon nobody meddles with is the only one alive, with nothing above its mount (`LoneOK`). What the
  system has refused a daemon (`refused`) is the only excuse for a socket or a mount that is left. The
  stack lemmas `Push` and `Pop` say which mounts are left. The theorems are about `Spec`; `FairSpec` implies it.
- `ArithmeticProofs`: the ten theorems say of every width of int64, every length of a second and every block size what the run
  `arithmetic` says of a 4-bit one. Nothing moves there, so `Init` is the invariant; each rests on a lemma about one kind of
  input (`CoverExact`, `ByteDelayExact`, `RoundNearest`, ...). `ByteDelayExact` is the one a reader would doubt: a product that wraps, to
  a positive number or to zero too, never divides back to its factor.

Only model-checked: liveness (`RetriesGetThrough`, `EveryRequestAnswered`, `DetachIsAnswered`, `UnmountedDaemonEnds`), which needs
fairness and `ENABLED` and is out of the prover's reach. The properties of the violation runs do not hold.

## Not modelled, and the plan

Not modelled: `Calibrate`'s measurement (timed I/O on temporary files), preset tables and their names, printing, flag parsing, the
string syntax and the formatting of `knob.go`, renames of open files, the JSON encoding of requests, the fields of replies other
than rules and budget.

Next, in this order, all proofs:

1. What the violation runs leave true: `RewriteLeavesNothingBad` when no two sectors share bytes, `MoreBytesNeverFaster` while the
   sum fits and `float64` is exact, `ReadyMeansReachable` for a daemon without a rival.
2. `CapacityGate`: how far one writer can pass the capacity when files take whole blocks (`Rounding > 0`), and several writers when
   the estimate is aligned at any time.
3. The safety half of the liveness properties: what a request, a parent or a daemon that waits is waiting for.
