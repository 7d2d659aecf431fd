# go-dispatch: TLA+ models, checks and proofs

This directory holds TLA+ models of the components of go-dispatch (consistent
hash ring, node pool, Redis drivers, cron scheduler, spec parser and schedules,
job wrappers, dcron), the TLC configurations that check them, and TLAPS proofs of
what the components promise, for every value of the constants.
`PROJECT.json` maps every definition to the lines it models and lists runs,
mutants, hazards, findings and theorems.

## 1. The system

A process that uses go-dispatch is a *node*. The nodes of a service spread keys
(job names) over themselves without talking to each other: each lists the nodes
registered in Redis, puts them on a consistent hash ring and serves the keys
whose owner is itself.

| component | state | operations | talks to |
|---|---|---|---|
| ring, `consistenthash/consistenthash.go` | `hosts`, `sortedSet`, `loadMap`, `totalLoad` | Add, Remove, Get, GetLeast, GetLeastv2wip, Inc, Done, UpdateLoad, ResetLoads, MaxLoad | called by the pool |
| node pool, `nodepool/nodepool.go` | ring, `preNodes`, `state`, `nodeID`, `stopChan`, `rwMut` | Start, Stop, waitingForHashRing, updateHashRing, IsEligible, DecreaseLoadByKey, ResetLoads | ring (calls), driver (GetNodes on a ticker), its callers |
| drivers, `driver/` | `nodeID`, `started`, the context of the heartbeat; keys or a sorted set in Redis | Start, Stop, GetNodes, heartBeat, registerServiceNode | Redis |
| cron scheduler, `cron/cron.go` | `entries`, `running`, `nextID`, timer, channels, `runningMu`, `jobWaiter` | Schedule, Remove, ResetEntries, Entries, Start, Run, Stop, the run loop | its callers over channels, jobs as goroutines |
| job wrappers, `cron/chain.go` | a mutex or a token per job | Then, Recover, DelayIfStillRunning, SkipIfStillRunning | jobs |
| schedules and parser, `cron/spec.go`, `constantdelay.go`, `parser.go` | options, bit sets, location | Parse, normalizeFields, getRange, parseDescriptor, Next | cron scheduler |
| dcron, `dcron/` | `jobs`, `running`, `state`, recent jobs | AddJob, Remove, CleanJobs, Start, Run, Stop, activations, reruns | cron scheduler, pool |
| logger, examples | none that matters | | |

What is hard in it:

* **Concurrency.** The pool is shared by Start, Stop, an update goroutine per
  Start and any number of callers. The scheduler's loop meets its callers on
  unbuffered channels while they hold `runningMu`. Activations of dcron run in
  goroutines of their own and share `d.state`.
* **Failure.** A node crashes, or loses Redis long enough for its key to expire;
  GetNodes fails; a pool does not start.
* **Time.** Lists are polled, keys expire, the scheduler's timer may be late; the
  next activation is searched through months, leap years and daylight saving.
* **Order.** A heartbeat told to stop ends after the driver has started again; a
  list fetched earlier is applied later; a load is taken back on
  another host than it was put on.

What makes each component correct:

* ring: the points are those of the members, each key has the first member at or
  after it, a change of one host moves no key between others, lookups end;
* pool: its ring is the last list, it is Steady only on a list seen twice, its
  view converges to the registered nodes, Start and lookups return, Stop ends
  the goroutines;
* drivers and pools together: no two nodes serve a key, and in a settled cluster
  every key is served;
* scheduler: entries are neither lost nor duplicated, a job runs once per
  activation, never early, never after Stop, no activation is overslept, calls
  return;
* parser and schedules: the documented format is accepted and nothing else, Next
  returns the first later instant at which the spec is active, or ends its search;
* dcron: the table of jobs and the scheduler's entries agree, a stopped Dcron is
  quiet, an activation runs at most once on a node, and one missed during an
  upgrade is packed to be run again.

## 2. Modules

| module | models |
|---|---|
| `Loads` | `loadOK` and the operations on loads, on any record with `members`, `load` and `totalLoad`, shared by the two ring models |
| `HashRing` | the ring as the code keeps it: point map, sorted slice, loads; GetLeast as a walk that can spin |
| `ConsistentHash` | the ring under sequences of calls by several clients (the ring's own lock makes a call one step) |
| `Assignment` | abstract: a set of members, each key owned by the first of them in its own order |
| `MemberRing` | the ring as the pool sees it: members and loads, each key meeting the hosts in a given order |
| `NodePool` | the pool of one node, goroutine by goroutine |
| `StableView` | abstract: a view that follows a list, is stable only when the list repeats, and forgets the list but not the hosts on a stop |
| `Cluster` | several nodes with either driver and one Redis; each pool is its stable view |
| `Calendar` | external: what the schedules use of package time, on a calendar of any size |
| `SpecParser` | the parser: options, optional fields, lists, ranges, steps, names, descriptors, time zones, errors |
| `Schedules` | one spec: parsed, then asked for its next activation, the loops of Next turn by turn |
| `Cron` | the scheduler loop, its callers, jobs and Stop's contexts |
| `JobWrappers` | a chain of wrappers around one job, and the goroutines that run it |
| `Dcron` | dcron on one node over what `Cron` and `NodePool` show of scheduler and pool |
| `MC*` | constants for TLC |
| `ConsistentHash_proofs`, `NodePool_proofs`, `Cluster_proofs`, `Cron_proofs`, `JobWrappers_proofs`, `Dcron_proofs`, `Schedules_proofs` | theorems about the module each is named after |
| `Induction` | what the proofs use for induction over data: a set of naturals has a least one, induction up to a bound, sums over finite sets and that some number is not above the average |

How they fit together: `HashRing` is shown to be `MemberRing` to its users
(`MemberRingAgrees`), so that `NodePool` can use the small ring. `NodePool`
implements `StableView`, which is what `Cluster` takes of a pool. `Dcron` takes
of the scheduler that it starts jobs of its entries exactly while it runs
(`EntriesAccounted`, `NoJobWhenStopped`) and that it is stuck after ResetEntries
while running (what `CallsReturnUnlessReset` excludes). `Cron` takes any function to
a later time as a schedule; that the schedules of the package are such functions,
and which, is `FoundIsActive`, `NoneSkipped` and `DelayOnSecond` of `Schedules`.

### State and actions against the code

* **Ring.** Hashes are given by constants `VHash` and `KHash`; two virtual nodes
  of different hosts do not collide. A host's virtual nodes and `delSlice` are
  modelled; floats in `loadOK` are replaced by exact integer arithmetic
  (`CeilFiveQuarters`).
* **Pool.** `start`, `stop` and `loop[i]` are the program counters of Start, Stop
  and each update goroutine. GetNodes and updateHashRing are two steps, since the
  lock is taken only for the second. `caller[c]` holds the read lock between
  GetHost and Inc or Done. `stopChan` is the counter `token`, which is not tied to
  a goroutine: whichever selects first takes it. Stop empties `preNodes` without
  the lock, so its write may be lost to an updateHashRing under way. A lookup by
  load before the first Start meets a nil ring and panics (`caller[c]` at `panic`).
* **Cluster.** A host is a node and a generation, because RedisDriver makes a new
  id when its key has expired; `gen` is the driver's id and `id` the one the pool
  read in Start. Exists and SetEx are two steps. Redis is `ttl`, the time for
  which a host will still be listed. A node may stop and start again: `old` is the
  stopped heartbeat that has still to delete the key, `pre` is `preNodes`, which
  Stop empties while it leaves the ring (`view`) as it is. So `view` may keep
  members that no list names, the last id of the node itself among them.
  `Eligible` is IsEligible, which also a pool that is stopped answers; `Servers`
  are the nodes on which dcron asks it, those that are up.
* **Cron.** A channel operation is one step of sender and loop. `loop` is `init`
  (compute the first activations), `arm` (sort, set the timer) or `select`. The
  unstable sort is any permutation that `byTime` allows. The timer gives any time
  between its deadline and the clock.
* **Parser and schedules.** A text is taken apart into fields, ranges and atoms
  beforehand; a bit set is the set of its bits and the star bit. `pc` of `Schedules`
  is the loop of Next the search is in, `t` the candidate, `added` the code's flag.
  An instant is a number of half seconds, so that rounding to the second shows.
  time.Date gives either of two instants where the clock is put back, and either
  neighbour where an hour is missing, as its documentation allows.
* **Job wrappers.** `inv[g]` is on its way `in` or `out` of layer `d`, or in the
  job; each layer has a mutex or a token of its own, as each call of a wrapper
  makes one. `defer` is a step on the way out, also with a panic.
* **Dcron.** An activation takes the steps check, store, pop, load, add, exec of
  `allowThisNodeRun` and `JobWarpper.Run`; a rerun goroutine looks a job up and
  then asks the pool. Any number of activations overlap. `drv` is the pool's
  driver: a Start that fails leaves it started, and a started driver refuses to
  start again until a Stop. Two histories say when the code is outside what it can
  keep: `over`, the activations whose state another one overwrote before they read
  it back, and `crossed`, that a Stop took `running` from a Start under way.

## 3. Runs

| run | checks | shows |
|---|---|---|
| `ring` | TypeOK, RingMatchesMembers, LoadsAccounted, GetLeastTerminates, GetLeastv2Agrees, MemberRingAgrees, AssignmentSpec | calls on a ring of three hosts keep points, members and loads in step; it implements `Assignment` |
| `nodepool` | TypeOK, LookupTerminates, StableViewSpec, ViewConverges, StartReturns, StopEndsLoops | two Starts and two Stops in any order and overlapping, nodes coming and going, failing GetNodes, and a caller that uses capacity load; only a host that leaves with a load below zero can make a lookup endless, only a token that ended the goroutine can keep Start waiting |
| `load_stuck` (violation) | NeverStuck | a load lowered on the wrong host ends in a lookup that never returns and a pool that is blocked |
| `cluster` | TypeOK, OneServerPerKey, KeysServedUnderSameIds | two nodes that start, stop, restart beside each other, crash and lose connections, either driver |
| `nodeid_lost` (violation) | EveryKeyServed | a node re-registered under a new id owns keys that nobody serves |
| `cron` | TypeOK, EntriesAccounted, NeverOversleeps, RunsOncePerActivation, NoJobWhenStopped, ActivationsCome, CallsReturnUnlessReset | every method from two goroutines against a scheduler that may be late |
| `wrappers` | TypeOK, OneAtATime, Released, OrderDecides, EveryInvocationEnds | a job that may panic under every chain of up to three wrappers, repeats included |
| `dcron` | TypeOK, JobsMatchEntries, StoppedIsQuiet, AtMostOnce, MissedUnlessOverwritten, StopReturns, PoppedIsRun | jobs, starts, failed starts and stops by two goroutines, upgrades and reruns, overlapping activations |
| `dcron_missed` (violation) | MissedIsPacked | two overlapping activations: a missed job is not packed |
| `dcron_stray` (violation) | NoStrayScheduler | a Stop while Start waits for the pool: the scheduler is started behind a stopped Dcron |
| `schedule` | FoundIsActive, NoneSkipped, DelayOnSecond, AcceptsFormat, SearchEnds | every documented form of a spec, malformed ones, all options; Next against what the text says, in locations with and without daylight saving |
| `schedule_gap` (violation) | FoundIsActive | where a midnight is skipped, Next returns an instant on a day the spec excludes |

Every property of a passing run has a mutant in the module of the definition it
breaks (commented `Mutant:`): a changed definition under which TLC finds the
property violated.

### Bounds, and why they are enough

* `ring`: three hosts, two keys, two replicas, five calls: a host can be added,
  loaded, removed, added again and looked up. `ReplicationFactor` is 3, above the
  replicas, as the constant 50 is not below the default setting.
* `nodepool`: two hosts, two Starts, two Stops, two changes of the registry, one
  error, one caller with one key and one claim: a node can come and go between the
  fetch and the update, in Start and in the loop; a Start can fail, a Stop leave
  its token, and the next Start's goroutine take it; two update goroutines can run
  at once; a load can be put on one host, taken back on another, and that host
  leave. More hosts, keys and callers are in the proofs. `load_stuck` needs two keys.
* `cluster`: two nodes, four starts, stops or crashes, one lost connection: enough
  for one node to start, stop and start again beside a running one, or for a join
  and a crash after a lost connection. `D = 2` is the shortest period with a
  heartbeat between two polls. `MaxGen` is no restriction: each event and each lost
  connection costs at most one new id, which the proofs show for any bounds. More
  nodes are the proofs' business: the argument there takes two of them at a time.
* `cron`: two callers, four calls, three activations, one unit of lateness: enough
  for two entries with different next times, a removal or a stop between two
  activations, and a restart. Schedules end (`MaxTime - MaxLate`), so that
  "every activation comes" has an end that TLC can reach.
* `wrappers`: three invocations (one runs, one waits, one comes later) and all
  forty chains of up to three wrappers, the same wrapper twice included.
* `dcron`: two goroutines that call, one job, three activations, two changes of the
  pool, and `MaxEvents = 5` calls, activations and ticks together: two Stops at
  once, a Stop during a Start, or upgrade, missed activation, steady again and
  rerun with another activation between any two steps. That a job is run twice
  after its state was overwritten (what `AtMostOnce` excepts) is reached within
  the bounds. `dcron_stray` has no activations, `dcron_missed` one goroutine.
* `schedule`: minutes of two seconds, hours of two minutes, days of four hours, weeks
  of three days, three months of two, one or two, and three days, the second month
  being longer every other year; `YearSpan` is 1 for the code's 5. So a month can
  lack the day asked for, a year the date, and a search can fail. Start instants
  are every seventh half second over two years, in all phases of a second, minute and
  hour. Daylight saving skips one hour and repeats one, by a whole hour; `dst`
  skips hour 1, `gap` (only in `schedule_gap`) hour 0.

Runs say `CHECK_DEADLOCK FALSE` where the bounds, or a Stop, let the modelled
system come to rest; the `cluster` runs do not, since time goes on.

### Fairness

Goroutines that can run do (Go's scheduler is preemptive); time and tickers go
on; a `select` case that stays ready and a free mutex do not starve a goroutine;
lost connections come back; jobs end. Nodes starting, stopping or crashing,
method calls and upgrades are never forced. A call of Next is sequential code and
goes on until it returns (`WF_vars(Next)` of `Schedules`).

## 4. Proofs

A theorem holds for every value of the constants: any number of nodes, hosts, keys,
callers, calls, any period, any chain, any calendar. Every invariant and every action
property of the passing runs has one. Each proof module states an inductive invariant, shows
that every action keeps it, and derives the properties from it. Hypotheses beyond
the constants' assumptions are named below; nothing else is assumed.

* `ConsistentHash_proofs`. `TypeCorrect`, and `LoadsCorrect` (`LoadsAccounted`) for
  every placement of virtual nodes. Under `PlacementOK` (points do not collide, and
  `1 <= Replicas <= ReplicationFactor`): `RingCorrect` (`RingMatchesMembers`),
  `RingImplementsAssignment`, `WalkEnds` (`GetLeastTerminates`), `RingIsMemberRing`
  (`MemberRingAgrees`) and `V2Agrees` (`GetLeastv2Agrees`). `PlacementOK` is
  necessary: with more replicas than `replicationFactor` Remove leaves points of the
  host behind (see the findings).
  - `RingMatchesMembers` is inductive with the types: it ties the point map, the
    sorted slice and the load map to one set of members. The refinement follows,
    since adding or removing points of one host changes the first point at or after
    a key only for keys that move to or from it.
  - `LoadsInductive` adds to the types that members and callers between Inc and Done
    are finitely many, and that `totalLoad` is not below the sum of the members'
    loads. From it the walk ends by the pigeonhole principle (`SomeHostTakes`): not
    all hosts can be above five quarters of the average.
  - For the walks, the indices of the sorted slice are shown to be in one-to-one
    correspondence with the points in their order, so that walking from the index
    of the key and around meets the points in clockwise order; the first host that
    takes the load is then the nearest one, which is what `MemberRing` says.
* `NodePool_proofs`. `TypeCorrect`; `LookupsEnd` (`LookupTerminates`);
  `PoolImplementsStableView`, however often the pool is started and stopped, when
  the driver lists a node at most once (`MaxDup = 1`).
  - `LoadInv`: a host outside the ring has no load, and until a host leaves with a
    load below zero, `totalLoad` is not below the sum of the loads. A host that
    leaves keeps its load in `totalLoad`: harmless when it is positive, and the one
    way for the total to become too low when it is negative.
  - `LastListInRing`: the nodes of `preNodes` are on the ring, so that one which
    updateHashRing does not add, because the last list had it, is there. They need
    not be all that is on the ring: after a Stop the next list is compared with
    nothing while the ring keeps its members, which `StableView` allows (`Forget`).
    The restriction is necessary: a list with duplicates makes `diffNodes` remove a
    live node (with `MaxDup = 2` TLC refutes `ViewConverges`).
* `Cluster_proofs`. `TypeCorrect` and `ServedOnce` (`OneServerPerKey`), with hosts
  ranked differently for a key (no two ids at one distance). `IInv` has three parts.
  `IdsOK` charges every new id to an event or a lost connection: an id is replaced
  only after its key was gone, and a heartbeat that is on time never lets it go.
  `KeyOK` says that a key which has expired is not set again. `Pair` is about two
  nodes, when the last list of one named itself and not the other: either it is due
  to look again before the other can be steady, or the other has left Redis. So two
  steady pools that both find themselves in their last list have each other in it,
  and give a key to the same node.
* `Cron_proofs`. `TypeCorrect`, `NoEntryLost` (`EntriesAccounted`), `TimerInTime`
  (`NeverOversleeps`), `OncePerActivation` and `StoppedStartsNone` (the action
  properties `RunsOncePerActivation` and `NoJobWhenStopped`). `IInv`: `runningMu` is
  held by the one caller that is sending, ids given out are each in one entry, gone
  or on their way, the loop exists exactly while `running` is set, entries are sorted
  while the loop waits, and the deadline is late by no more than the scheduler was.
* `JobWrappers_proofs`. `TypeCorrect`, `RunsExclude` (`OneAtATime`), `AllReleased`
  (`Released`), `OutermostDecides` (`OrderDecides`), for chains of any length and any
  number of invocations. `IInv` says of each layer who is inside it: the holder of
  its mutex, and nobody when its token is there.
* `Dcron_proofs`. For any callers and any number of overlapping activations:
  `TypeCorrect`, `TablesAgree` (`JobsMatchEntries`), `QuietWhenStopped`
  (`StoppedIsQuiet`), `RerunsAll` (`PoppedIsRun`), `RunsOnce` (`AtMostOnce`) and
  `MissedArePacked` (`MissedUnlessOverwritten`). The exceptions in the properties
  are the code's: without `crossed` the first is refuted by `dcron_stray`, without
  `over` the last by `dcron_missed`. `Inductive` ties the flags to who is in Start
  or Stop; `OverInductive` says that an activation whose state was not overwritten
  finds its own answer in `d.state`, and that what it packed it did not run.
* `Schedules_proofs`. `FormatAccepted` (`AcceptsFormat`) and `DelaysOnSecond`
  (`DelayOnSecond`) for all texts, options and durations; `FoundActive`
  (`FoundIsActive`) and `NoActivationSkipped` (`NoneSkipped`) for any spec, start and
  calendar (any lengths of months, weeks, days, hours and minutes), in a location
  without daylight saving whose offset is a whole number of minutes (`Flat(Place)`;
  other locations may have daylight saving). Where an hour is missing it depends on
  which: `schedule_gap` refutes `FoundIsActive` where it is midnight, and for other
  hours the properties are only model-checked. Two assumptions on the constants, both
  evaluated by TLC: `TextAssumption` (a text is taken apart as the parser's splitting
  takes it apart, and `given` and `complete` say what it has) and `HorizonAssumption`
  (the calendar does not end before Next gives up).
  - The parser: the loop of `getBits` gives the multiples of the step, `getRange` the
    numbers its text names, `normalizeFields` puts each given field in its place and
    the default in the place of one left out, and a descriptor reads as its
    documented equivalent. Hence the bits kept are what the text means (`ParseIs`).
  - The search: `SearchInv` says that the candidate is later than the start and
    within the year limit (`InTime`), that the fields passed match it
    (`PassedMatch`), that nothing before it is an activation (`NoneBefore`), and that
    after the first increment each field matches or is at the start of its unit
    (`AtStart`). The last part is what makes the flag `added` right: the code resets
    the lower fields only once, which would skip activations if a lower field could
    be in the middle of its unit and not match when a higher one is incremented.

Induction over data (sums over sets of hosts, indices of the slice, ranks, months,
turns of a loop) goes through least counterexamples: `Induction` proves once that a
non-empty set of naturals has a least element, and each lemma applies it to the set
of sizes or indices at which it fails.

Only model-checked:

* every property under fairness (`ViewConverges`, `StartReturns`, `StopEndsLoops`,
  `KeysServedUnderSameIds`, `ActivationsCome`, `CallsReturnUnlessReset`,
  `StopReturns`, `EveryInvocationEnds`, `SearchEnds`): out of the prover's reach;
* `FoundIsActive` and `NoneSkipped` in a location with daylight saving, where the hour
  missing is not midnight;
* that the abstractions one module makes of another are right where no refinement
  states it: `Cluster` takes a pool as its list, `Dcron` a scheduler and a pool.

## 5. Findings

Disagreements between the code and its comments, documents or tests met while
modelling are in `PROJECT.json`, each with the line and the quotation.

Shown by a violation run: lookups that spin (`load_stuck`), ids changed behind the
pool's back (`nodeid_lost`), missed jobs not packed (`dcron_missed`), a scheduler
that runs behind a stopped Dcron (`dcron_stray`), an activation on an excluded day
where midnight is skipped (`schedule_gap`).

Met while modelling, and part of the models: a Start of the pool that waits for
ever because a token left by an earlier Stop ended its goroutine (the exception
`~Running` of `StartReturns`); lookups before the first Start, which panic or grant
every key, and after Stop, which go on granting; a second Stop of a Dcron, which
never returns (the exception of `StopReturns`); points left after Remove with many
replicas; members left in the ring over a restart of the pool; a restarted driver
losing its key to the old heartbeat; a driver that stays started after a failed
Start, so that no retry can succeed; ResetEntries on a nil channel; repeated keys in
a SCAN; the sorted-set driver not unregistering; errors of SCAN dropped; jobs run
again however old, or lost in a second upgrade; capacity load bypassing the pool in
dcron; specs of commas only, a hyphen after a star, a lone time zone prefix that
panics, `*/1` against the full range, days skipped where midnight is missing.

Met while proving: after a restart with members left in the ring, two nodes can serve
one key, so that `OneServerPerKey` speaks of nodes whose ring has only the members of
their last list; resetting loads under claims never makes a lookup endless, only a
host that leaves with a load below zero does.

## 6. Not modelled

* The logger, the examples, options and formatting: no behaviour other components
  depend on.
* In the parser, splitting a string into fields, ranges and atoms, converting
  digits, and what text time.ParseDuration accepts (a duration is a number, or is
  refused); in the schedules, a location whose midnight is doubled, offsets that change by less than
  an hour, and more than one year of look-ahead.
* Go data races that only the race detector sees (`totalLoad` under a read lock,
  the unlocked read of `d.jobs`), listed as hazards.
* A driver started again while its old heartbeat is between Exists and SetEx, clock
  skew between nodes, and collisions of 64-bit hashes.
* A Stop of a Dcron that was never started, which panics in the driver.
* In `Cluster`, the answers of IsEligible during the very first Start, before it has
  read the node's id; no job is activated then.

## 7. Plan

1. Done: models and runs of all components; proofs of every invariant and action
   property of the passing runs.
2. Next: `FoundIsActive` and `NoneSkipped` with daylight saving away from midnight,
   for which `FlatClock` has to give way to a clock that jumps once each way between
   two starts of an hour; and a refinement that would replace the scheduler and the
   pool in `Dcron`, which now are taken from what `Cron` and `NodePool` show.
