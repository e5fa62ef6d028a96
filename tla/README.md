# CSIS: a TLA+ model of its core

CSIS (`src/csis`) is a daemon that runs iterations of an eight-step loop: plan,
build, verify, consolidate, sign, promote. Its safety argument rests on a few
mechanisms under that loop: a memory store in which nothing becomes live without a
signed why-doc whose hash precondition still holds, a hash-chained event log shared by
processes, a budget ledger shared by processes, and a coordinator that gates,
promotes, rolls back and cleans up. These modules model those mechanisms from the
source, check them with TLC on small instances, and prove with TLAPS, for every value of
the constants, the safety properties of the store and its files, the log, the budget, the
coordinator, the daemon, the bursts and the dashboard.

## 1. Inventory

| Component | State it keeps | Operations | Interacts with | Hard behaviour |
|---|---|---|---|---|
| Memory store, one per tier (`memory/store.py`) | `_candidate`, `_live`, the two JSON files, the archive directory | `write_candidate(s)`, `mark_verified`, `promote`, `discard_candidate`, `deprecate_live`, snapshots and hashes, `_flush`, `_load` | called by Coordinator, Daemon (skills), Dreams | callers interleave between signing and promoting; two files are rewritten in place; archive writes may fail |
| Trust and tiers (`memory/trust.py`, `safety/tier_guard.py`) | none | `valid_promotion`, `write_tier` | store, Librarian | terminal DEPRECATED; authority of the consumers of a tier |
| Coordinator (`agents/coordinator.py`) | locals of an iteration, promotion lock | `run_iteration`, `_rollback`, `_tier_mismatch_cleanup` | every agent, every store, the log | what was read before a store call is stale at the call; ids and tiers come from an agent that may be wrong |
| Event log (`substrate/event_log.py`) | `session.jsonl`, per-process `_seq`, `_prev_hash` | `emit`, `verify_chain`, constructor | everything emits | several processes, torn lines, lock-free readers |
| File lock (`substrate/file_lock.py`) | one lock file | `file_lock` | log, budget | gives up with `LockUnavailable`; released at process death |
| Budget (`budget.py`) | budget file, write-ahead log, per-process `_state` | `reserve_or_raise`, `record`, `cancel_reservation`, wrapper `_do_complete` | wraps every LLM call | read-modify-write between processes, deaths holding reservations, midnight, pruning |
| Daemon (`daemon.py`), launcher (`scripts/run_daemon.ps1`) | stats, pacing window, stop flag and file | `run_forever`, `_tick`, `stop` | Coordinator, Curiosity, budget, fuzzer, skill path | exceptions inside handlers, stop during a tick, restart |
| Curiosity (`curiosity.py`) | follow-ups, recent items, place in the rotation | `next`, `record_rollback`, `record_promoted` | daemon, bursts; counts of live entries | bounded queues, an order of precedence that may starve |
| Burst (`scripts/burst.py`) | its rows, its Curiosity | one loop of iterations with a cost ceiling | Coordinator, budget | reads a total that others change; no exception is caught |
| Skill library (`improvement/skill_library.py`) | none | `consolidate_skill`, called by the daemon after a promotion | procedural tier | several store calls, outside the promotion lock |
| Certificates, critic stack, graders (`verification/`, `agents/verifier.py`) | pinned hashes of grader files | `verify_pinned_hashes`, `run_critic`, `build_certificate` | Coordinator, backend identities | files change after they were pinned; empty or unparsable answers |
| Distributional graders (`verification/distributional_graders.py`) | the random generator | `evaluate`, `worst_slices` | Verifier | index arithmetic of an interval, small slices |
| Anthropic backend (`backends/anthropic.py`) and call log (`budget.py:564`) | attempts of a call; a sidecar file | `complete`, `_append_call_log` | budget wrapper | retries while a reservation stands; death between ledger and line |
| Dashboard (`ui/server.py`) | task table and its lock | start, list, kill, stop file | processes it starts | threads, process ids that are given away again, restarts |
| Tripwires, constitution, fuzzer, shutdown (`safety/`) | fired history, halt flag | `scan_text`, `allows`, `check`, `halt` | Coordinator, Daemon | a firing in the middle of an iteration |
| Dreams (`dreams/`) | none | one pass over a store | only its tests call it | |
| Domains, config, contracts, demo | none that is shared | | | |

What makes each correct: the **store** - a why-doc promotes at most once, live entries
are final, explained and archived, also across failures; the **coordinator** - what
goes live is what was verified and signed, with its evidence logged first, and a bad
Librarian leaves nothing behind; the **log** - one chain, no fork, acknowledged events
stay; the **budget** - the cap holds over all processes, no spend is lost, no
reservation leaks and every call ends; the **daemon** - it stops when asked, survives
single failures and respects its pace; **verification** - a pass rests on graders as they
were pinned, on attempts of the Critic, on a model that is really another one, and on the
conservative end of an interval; **curiosity and bursts** - a failure is taken up, no seed
starves, and the rows account for the money; the **dashboard** - a signal reaches the task
it was meant for, and a stop file the daemons that look for it.

## 2. Modules

| Module | Models | Composition |
|---|---|---|
| `Trust` | trust lattice, tier authority | constant operators |
| `StoreOps` | what one store call does to the two dictionaries | EXTENDS `Trust` |
| `MemoryStore` | one tier, called by concurrent clients | EXTENDS `StoreOps` |
| `MemoryStoreProofs` | theorems about `MemoryStore` | EXTENDS it and `TLAPS` |
| `StorePersistence` | archive files, flush, crash, restart of one store | EXTENDS `Trust` |
| `StorePersistenceProofs` | theorems about `StorePersistence` | EXTENDS it and `TLAPS` |
| `LinearLog` | abstract: one growing sequence of events | |
| `EventLog` | `emit`, `verify_chain`, deaths, torn lines | implements `LinearLog` |
| `EventLogProofs` | theorems about `EventLog`, its refinement included | EXTENDS it and `TLAPS` |
| `Budget` | reserve, call, record or cancel, over processes | |
| `CallTrail` | the attempts of a call, its line in the call log | EXTENDS `Budget` |
| `BudgetProofs` | sums over finite sets; theorems about `Budget` and `CallTrail` (part 1), about `Burst` and the `Curiosity` it drives (part 2) | EXTENDS `CallTrail`, `Burst` and `TLAPS` |
| `Verification` | identities, the Critic's answer, the verdict | constant operators |
| `Coordinator` | concurrent iterations over the tiers, the skill path | EXTENDS `StoreOps`, `Verification`; every tier implements `MemoryStore` |
| `CoordinatorProofs` | theorems about `Coordinator`: the evidence and the log of an iteration (part 1), what the iterations do to the tiers, their refinement of `MemoryStore` included (part 2) | EXTENDS it and `TLAPS` |
| `Daemon` | the daemon's loop, its ways to stop, the launcher | |
| `DaemonProofs` | theorems about `Daemon` | EXTENDS it and `TLAPS` |
| `Distributional` | one evaluation of a distributional grader | |
| `DistributionalProofs` | theorems about `Distributional` | EXTENDS it and `TLAPS` |
| `Curiosity` | what to work on next | operators on a record |
| `Burst` | bursts, in parallel and one after the other | EXTENDS `Budget`, `Curiosity` |
| `ControlPanel` | the dashboard's control requests and processes | |
| `ControlPanelProofs` | theorem about `ControlPanel` | EXTENDS it and `TLAPS` |
| `MC*` | instances for TLC: symmetry sets, tier orders, batches | |

**Store.** A method of `MemoryStore` holds the store's RLock from its first line to
its last, so each is one action. A dictionary is a function from entry ids to
entries or `Absent`; an entry keeps the fields that guards read (`trust`), that the
cleanup reads (`writer_iteration_id`) and its content. `live_hash` is a canonical
hash, taken to be injective: a snapshot stands for its hash. A rejected `promote` is an
action too, because its caller drops the why-doc and may sign again.
`promotions` is history: what was promoted and the snapshot that fenced it.

**Files.** `StorePersistence` splits a call at each write: archive files one at a
time, then the change in memory, then the candidate file and the live file, each
truncated, half written, written. `WriteFails` and `Crash` may happen at every one of
those points; `Restart` reads an empty file as an empty dictionary, as `_load` does,
and is not possible with a half written one. Its history variables say what a
flush brought to the files, so that the properties can say what must be found later.

**Event log.** `emit` is split into taking the lock, the restore from the file, the
first part of the line, the rest, the newline, and the return. A line that is not
whole is `Garbage`; what follows a line without newline is glued to it. A hash is
represented by the sequence it commits to. A process may die at every step and a write
may fail half way.

**Budget.** Each operation is Enter (lock, `_load`, decide, change `_state`) and
Commit (`_save`, unlock); `record` has the drain of the write-ahead log, its unlinking
and the `_load` as steps of their own, because a death or an append of another process
falls between them. The provider is external: a call costs at most its estimate. The lock,
its file, and every `_save` may be refused (`LockRefused`, `SaveFails`, `RecordRaises`). A
`_save` that raises leaves its change in `_state`, where the next `_load` drops it; before
there is a file `_load` drops nothing, and a later save of the process writes a reservation
for which no call was made. A process may die with its calls at any step, and a
KeyboardInterrupt, which no `except Exception` catches, does to a call what death does.

**One call.** `CallTrail` adds to `Budget` what surrounds a call: the retries of
`AnthropicBackend.complete` on 429 and 5xx answers, and the line that `_do_complete`
appends to the sidecar after `record()` or `cancel_reservation()`, and that a failing
append, a death or a `LockUnavailable` out of the cancel leaves out. Back-off times are
left out.

**Verification.** `Verification` has what decides: `Findings` is what
`parse_critic_output` makes of an answer (an object without the key counts as an attempt
that held), `CrossCheckpoint` counts the differing fields of two identities, `Passes` is
the verdict of `build_certificate`. The graders' answers are nondeterministic.

**Coordinator.** `pc` names the places between two calls on shared state; a store call
is one step, and so is each event or refusal of a gate, and in the verify step the
comparison of the pins, the comparison of the checkpoints and the certificate. What the
agents answer is nondeterministic: each gate may refuse in each of its ways. The Librarian
is the one of the source ("honest": its id is new, its candidate stamped, its tier the
target) or the one the cleanup was written for ("buggy": any id, any tier, any claim,
stamped or not). The files of the graders may be edited, and put back, at any time.
`Raise` is every exception that leaves `run_iteration`, at any place. After a promotion
the daemon may make a skill of the artifact: `consolidate_skill`, `mark_verified`, the hash
of the live tier and `promote` are four steps among those of other iterations, and each
may fail. The content of an entry is the iteration it came from.

**Daemon.** `pc` is the place in `run_forever` and `_tick`; every step that writes has
a second outcome in which the write fails, and then the exception goes where Python
takes it: out of the tick, out of the handler, into the `finally` clause. An iteration
returns, raises or meets the budget cap. A signal or a kill may come anywhere. Time is
the ages of what happened, in parts of an hour, and passes between any two steps, so an
iteration may straddle the edge of the window. The launcher starts a new process with
fresh counters whatever the exit code was. The skill path is one step that may fail (its
calls into the store are in `Coordinator`); heartbeats, counters of outcomes
and the deduplication of false positives are left out.

**Distributional graders.** `Distributional` is one `evaluate()`: the metric of every
case, then the bootstrap of the population and of each slice with every draw the generator
can make, and the report. `turn` is what is bootstrapped (0 the population, k the k-th
slice) and `CasesOf` its cases, which the code collects in buckets. Values are integers in units of
`1/Scale`, and a mean is a sum beside its number of cases, so that nothing is rounded;
where a product of floats falls on a whole number, `int()` may give that number or the one
below, and `Truncations` has both. The six decimals a report shows are not modelled, so
estimates that differ beyond them are ranked here where the code sees a tie. Dice, IoU,
landmark error and surface distance are computed on sets of positions and points of a line (landmarks are paired by their place in
ascending order, the code pairs them by index); `MCDistributional` checks the first
two against their definitions.

**Curiosity and bursts.** A `Curiosity` is a record, and `NextItems` the items it may
return. `Burst` has the loop of `burst.py`, the calls of an iteration to the backend in
order, each through every step of `Budget`, and where an exception of such a call goes:
`BudgetCapExceeded` out of the program wherever it is met; any other, what the lock or a
write raises included, into a rollback when the Researcher or the Builder called
(`coordinator.py:199-208`), and out of the program when the Critic did. A burst may also be
killed, or interrupted from its terminal, between two iterations or in one (`Interrupted`).
What else an iteration does is nondeterministic here, and modelled in `Coordinator`.

**Dashboard.** `ControlPanel` splits a start into the request, `Popen` and the entry in
the table, and a kill into the poll and the signal, which happen under one lock.
Process ids are what the operating system makes of them: taken until the process was
waited for. A restart of the dashboard empties the table; the processes run on. There may be
a `STOP` in each root: the dashboard writes it into its own (`server.py:404`), a daemon looks
beside the package it was imported from (`daemon.py:166`, `config.py:15-16`). It is started
with the root as its working directory, so that package is the root's if the root is a
checkout, and else the installed one; `Home` says which.

## 3. What the runs check

| Run | Bounds | Shows |
|---|---|---|
| `memory_store` | 2 ids, 2 clients, batches of 0..2 ids with duplicates | a why-doc fences, live is final, explained and archived |
| `store_persistence` | 3 ids, 2 crashes, 1 failed write | what was live is archived, no entry on both sides, what a flush kept is found |
| `eventlog` | 2 processes, 3 events, 2 deaths, 2 cuts (half way or before the newline), 1 refusal, fair | readable lines are one chain, no false alarm, append only, refinement of `LinearLog`, the lock is given back |
| `budget` (`MCCallTrail`) | 2 calls, 2 processes, cap 3, ceiling 2, estimates 2 and 3, 2 days, 2 retries, one death, one refused lock or write, one pruned reservation, fair | cap, exact ledger, reservations neither missing nor leaked, sidecar within the ledger, every call ends |
| `budget_wal` | 2 calls, 1 refusal; violation | a drained cost is overwritten by `_load` |
| `coordinator` | 2 iterations at once, 2 ids, 2 tiers of which one is closed to the Librarian, both Librarians, 1 grader, 1 attempt of the Critic, 3 configurations of checkpoints, 1 edit, skills | promotions are what was verified, signed and logged; only skills in the procedural tier; the cleanup; tiers refine `MemoryStore` |
| `coordinator_race` | violation | a sibling's stamped entry is discarded |
| `coordinator_liar` | violation | lie detection is passed with an older candidate's id |
| `daemon` | rate 2, window of 2, 5 iterations, snapshot after 2, 2 failures, 1 kill, fair | pace, fuzz gate, single failures; it ends when asked |
| `distributional` | 6 graders, populations of 0..3 cases with overlapping slices, `SliceCap` 2, `SliceMinN` 2, `WorstK` 1 | a pass is conservative, verdicts follow the cases, the Critic gets the worst slice |
| `burst` | two paying bursts on a cap of 2 with 3 calls, or one burst of 7 iterations on the mock with 1..3 seeds; `RecentMax` 2, `FollowUpMax` 2, `GapLimit` 1, 1 refused lock or write, 1 death or interrupt, 2 days | rows bracket the spend, no reservation is stranded but by a refusal or a death, failures are taken up, seeds take turns |
| `control_panel` | 3 tasks of any kind, 2 process ids, 1 kill, 1 restart, 2 roots | signals hit their task |

Why the bounds are enough: every property relates at most two actors to one shared
datum. A stale promotion needs two clients and one id that is signed by both; bringing an
id back needs a second write of the same id, and a second id lets the store leave a
state and, by deprecation, approach it again. A chain fork needs two emitters and a line
after the fork. A cap overrun and a lost update need two calls of two processes, and the
day has to change once. In the daemon the window
fills before the total is reached, the first snapshot comes before the end, and two
failures are enough for one to meet the handler of the other. In the coordinator a stale
candidate needs one iteration before or beside another, and a pin that holds by accident
one edit. The intervals of the graders are wide, narrow (both indices meet) and on whole
numbers, and a slice has none, one, two or three cases. With seven turns every seed of
three comes up twice, with more seeds than `recent` holds and with fewer. A process id
that is given away again needs two ids and three tasks, one of them of an earlier dashboard.
Symmetry is used on ids, processes, calls and iterations (and not with liveness
properties); no operator depends on their order.

Deadlock checking is off in every configuration: events, calls, iterations and tasks are
finite sets, ids are written once, and a torn store or an unreadable log really does
stop its owner.

**Fairness.** `LockReleased` needs weak fairness of the steps inside `emit`, of
each process: they are the lines of one Python function, and a process that does not take
them has died, which releases the lock. There is no fairness on starting a call.
`CallEnds` needs it of each call that was begun: the provider answers or the client times
out, and what else a call waits for is a lock that every holder gives back. `EndsWhenAsked`
needs it of the daemon process and of the launcher, two sequential programs whose
sleeps are bounded (a second, a minute, five seconds) and whose iterations are assumed
to end; nothing forces time, as a daemon that waits for its window wakes up every minute.

**Every property has a seeded fault.** The operators marked "Seeded fault" are
variants of the definition below them, and are used nowhere in the specifications.
Put in the definition's place each makes TLC find its property violated.

## 4. What is proved

Each proof module opens with the argument of its theorems. Every theorem below is of the
form `Spec => []P`, `Spec => P` for an action property, or `Spec => AbstractSpec`, and comes
from an inductive invariant by `Init => Inv`, `Inv /\ [Next]_vars => Inv'`, `Inv => P`; the
step case has one lemma per action or per kind of action.

**Memory store** (`MemoryStoreProofs`; `IInv`). Every property of the run `memory_store`:
`TypeCorrectness`, `OneWinner`, `OneWhyPerLiveEntry`, `AddOnly`, `ArchivedBeforeLive`,
`Finality`. `OneWinnerPerPrecondition` is not inductive: it says nothing about the live
store. The invariant adds what links the history to the present: each promotion's ids are
live now and were absent in the snapshot that fenced it, live entries have trust PROMOTED
or DEPRECATED (so `EntryPromotable` refuses an id that is already live, whatever its
trust), and a later promotion's snapshot contains the ids of the earlier ones. Two
promotions with the same snapshot would then have the earlier one's ids both absent and
present in it.

**Store files** (`StorePersistenceProofs`; `FilesInv`). Every property of the run
`store_persistence`: `WentLiveIsArchived`, `EntryOnOneSide`, `LiveEntrySurvives`,
`EntryNeverVanishes`. None is inductive alone, because a restart replaces the dictionaries
by what the files say: the invariant relates all five copies (both dictionaries, both
files, the archive) at every write. `ArchivedFirst`: what is live anywhere, or will be
after the archiving under way, is archived. `Sides`: an entry in the live file is in no
candidate dictionary or file, which rests on the candidate file being written first.
`LiveKept` and `AllKept`: a whole file holds every entry that had reached it.

**Event log** (`EventLogProofs`; `LogInv`). The safety properties of the run `eventlog`:
`LogIsOneChain`, `CompleteLinesStay`, and the refinement `LogIsLinear`: `EventLog`
implements `LinearLog` until a line was glued. The chain alone is not inductive: that the
next line is chained to the last one needs `OneWriter` (whoever is past the lock holds it)
and `Writing` (the cache of the writer is what the file ends with); `Ending` says that only
the last line can be unreadable, and that nobody restores after it was glued; `Reading`
says what a concurrent `verify_chain` has seen is still there. The refinement adds `Once`:
the event being emitted, and the queued ones, are not in the file already.

**Budget** (`BudgetProofs`, part 1; `FileInv`, `MoneyInv`, `PaidInv`). The safety properties of the
run `budget`: `LedgerIsExact`, `InFlightIsReserved`, `ChargesStayWithinCap`,
`SidecarIsWithinLedger`, and `TrailImplementsBudget`, which carries the first three over to
the backend with retries. `FileInv` is the argument that the read-modify-write under the
file lock is one (`OneHolder`, `Untouched`, `Holding`, `Posted`). `MoneyInv` bounds the
charges: what a call was charged and has not recorded is covered by its reservation
(`Backed`), so the cap, which the code checks on totals plus reservations, bounds the
charges themselves (`Capped`). Both need that a sum changes by what one term changes;
`MapThenSumSet` is a fold whose equations are in no library, so the module starts from its
definition and proves existence and uniqueness of the recursion, and the laws of sums, by
well-founded induction over the subsets of a finite set.

**Iterations** (`CoordinatorProofs`, part 1). For any number of iterations at once, any Librarians,
tiers, graders, checkpoints and edits of the files, and from no assumption about the
constants:

* `PromotionsHaveEvidence` (`PromotedOnEvidence`). The property speaks of iterations that
  have promoted; the invariant `Evidenced` carries each piece of evidence from the place
  where it is gained. `Watched`: while the files are as pinned, every running iteration has
  seen them so, so an edit that puts the text back is noted; `PinsCompared`: who came past
  the comparison of the pins has seen them; `Certified`: whoever is at a place after the
  verification, or has promoted, has a passed certificate and checkpoints that cross. Two
  differences among four fields are one besides the name (`CrossesInSubstance`).
* `PromotionsHaveTrail` (`LiveHasTrail`). The invariant `Traced` gives the exact log of
  an iteration at every place on the way to a promotion (`EventsAt`), so that at `promote`
  all six events are there, and says of the places after it that only `iter.promoted` and
  `post.halt` were added. The steps are sorted into four kinds (leave the way, go on
  without an event, collect one, settle after the promotion), each with one lemma.

**Tiers** (`CoordinatorProofs`, part 2). The other properties of the run `coordinator`. All rest on
`Shape` (`PlacesInvariant`): where an iteration is says what it has (`Fits`), and one at
most is under the promotion lock. Most actions only move an iteration on; the others are
summarised once by what they change of the stores, and the proofs go by the summaries.

* `HierarchyTypes` (`TypeOK`), with the lock: no path, an exception under the lock included,
  leaves it behind.
* `OnlySkillsAreProcedural` (`ProceduralOnlySkills`), by induction on the live side.
* `SignedGoesLive` (`PromotedAsSigned`). Invariant `Owned`: with honest Librarians an entry's
  id belongs to one iteration (`OwnId`), the candidate under it is that iteration's or gone
  (`OwnCandidate`), and so is the live entry once it is promoted (`OwnLive`). A sibling's
  cleanup may discard the candidate, and then `promote` refuses; nobody can replace it.
* `CleanupIsThorough` (`CleanupRemoves`). Invariant `Held`: an iteration has no candidate
  before its Librarian was called (`NothingYet`), afterwards no unstamped one but under the
  id it was told of (`OneBare`), and the tiers its cleanup has passed are clean (`Swept`,
  `Sweeping`); nobody else writes what is its own.
* `CleanupIsCareful` (`CleanupSpares`). Invariant `Fenced`: an iteration that is alone in
  flight (`Lone`) has its snapshot of every tier right (`Noted`, `Fence`), so that what it
  dooms is what it wrote (`OwnDoomed`).
* `TiersAreStores` (`StoreSpec`): every tier implements `MemoryStore` with the iterations as
  clients. Each summary is shown to be one call of the store, with a why-doc the caller
  holds, or a stutter. The theorems of `MemoryStoreProofs` are stated for `MemoryStore`; that
  they hold of each tier follows, and is not spelled out.

**Daemon** (`DaemonProofs`; `LoopInv`). `PaceIsKept`, `HoleIsContained`,
`SingleFailureIsSurvived`. The code counts the ends of iterations in a bounded window, the
property counts their starts within an hour. `Windowed` relates them: each iteration begun
and returned within the hour has its place in the window, where its end is not older than
its start, and so have all that followed it. So the check counts at least those, and the
time that falls out of a full window is never one of them. `Containing` and `Surviving` say
at which places the count of iterations, or of handled failures, may stand.

**Bursts** (`BudgetProofs`, part 2; `BurstInv`, `LedgerInv`). Every property of the run `burst`,
over the file invariant of part 1, which the steps of a burst keep because each is a call,
its next step, midnight, or a constructor that loads the file.

* `NoneIsStranded` (`NothingStranded`). What may leave a reservation is named: a call whose
  lock or write was refused, or whose process ended while it ran (`Strands`), one each at
  most. So answers, errors of the provider, the cap, the gates, and exceptions that end a
  burst leave none. `Waiting`: a call runs only while its burst waits for it inside the
  iteration, and one that was refused or is not written yet has nothing in the file.
  `Counted`: the calls that left by a refusal or by a death, and a process that carries the
  reservation of a save that failed before there was a file, are no more than refusals and
  deaths; a burst has one call at a time, so that one death ends one call.
* `TakenUpAtOnce` (`FailureIsTakenUp`). `Left`: between two iterations the follow-ups are the
  one of the last row, or none, and then that row's item is the last of `recent`.
* `NoSeedStarves` (`SeedsTakeTurns`). A window of turns without a given seed is excluded by a
  potential: the turns since an item, plus how far the rotation is from the seed (`Ahead`),
  stay below the window as long as the seed had no turn since (`Bounded`). A turn of another
  seed brings it nearer, unless the rotation passed over it because `recent` holds it, and
  `recent` holds only what had a turn within its length (`Recalled`). With more seeds than
  `recent` holds it never passes over one (`InOrder`). The record of an outcome comes after
  its item was chosen, so that bound is one turn late in between (`Late`).
* `LedgerBracketsSpend` (`RowsBracketSpend`). The rows are differences of consecutive readings
  and telescope: all of them show what the burst's tracker rose by since its first reading
  (`ShownSinceStart`). That tracker is at least what it started with plus the burst's own
  calls, and so is the file, from which the next call will load it (`Bracket`); and it is at
  most what was charged, since the file holds exactly the calls that are done (`Accounts`).
  Midnight and a walled call are excluded by the property, so neither needs a case beyond
  ending the claim; so is the burst that was itself killed, which shows no ledger, while
  the deaths of others are covered.

**Graders** (`DistributionalProofs`; `Inv`). Every property of the run `distributional`. Sums
are treated as in `BudgetProofs`; the metrics are shown to be integers or `Inf` from the
definitions of the extremes of a finite set.

* `PassingIsConservative` (`ConservativePass`). `Drawn`: the resamples are kept in ascending
  order (`InsertIs`), so that the element at an index bounds how many are past a value
  (`FewMiss`); and the truncated indices, whichever way the float fell, leave the share of one
  tail below the lower one (`LowerIndexIs`), and of one resample more above the upper one
  (`UpperIndexIs`). The one more is the code's: its upper index is the quantile minus one.
* `VerdictsFollowCases` (`VerdictFollowsCases`). Where all cases of a slice are on one side of
  the threshold so is every resample (`ResampleSides`), hence both bounds and the verdict.
  `Reported` carries this for each report, with one report for each population that had
  enough cases and its turn.
* `CriticGetsTheWorst` (`CriticGetsWorst`). The estimates are fractions with positive
  denominators; the order of the sort, ties by position, is strict and total
  (`SortedOrder`), so how many come before a report numbers the reports without gap or
  repetition (`RanksAreTaken`), and whatever is given comes before what is not.

**Dashboard** (`ControlPanelProofs`; `PanelInv`). `KillsHitTheirTask`. `OwnPid`: two
processes nobody has waited for have different ids; `VictimIsThere`: the process a kill
request found running is not waited for before it was signalled, as `poll()` needs the same
lock.

**Assumptions.** Each is an `ASSUME` of the module that declares the constants, evaluated by
TLC on every run. They say that the model's marker values are not data (`None` is no role,
writer, id, reason or dictionary, `Absent` no entry, `Garbage` no line, `NoFile` no state of
a budget, `Nobody` no process), that bounds, costs and rates are natural numbers, that the
sets of calls and of graders are finite, that the tiers are among the tier names, that a
list of samples is a finite sequence of finite masks, that `Slices` lists each slice once, and
that a confidence level is strictly between 0 and 1. None bounds the number of clients,
processes, iterations, entries, samples or steps.

**Only model-checked.** Liveness (`LockReleased`, `CallEnds`, `EndsWhenAsked`), which is out
of the prover's reach, as is ENABLED. What the three
violation runs refute is of course not proved; the theorems about the cleanup state exactly what is left of the claim.

## 5. What the code does not do

* `budget.py:457-458`: a cost that went to the write-ahead log is lost by the next
  `record()`, as soon as there is a budget file, which the reservation of a call already
  makes (`budget_wal`).
* `coordinator.py:564-573`: the cleanup discards by id what it judged on a snapshot
  (`coordinator_race`). It needs two iterations at once on one hierarchy, which the class
  docstring asks callers to avoid and the cleanup's docstring claims to survive.
* `coordinator.py:373`: the lie detection is an existence test (`coordinator_liar`).

Seen while modelling, with no run of their own:

* Log and store. A line that lost only its newline makes the next `emit` write into it and
  destroys that event although it was acknowledged (`event_log.py:154`; `LinearSpec` is
  stated until that happens). `verify_chain` raises a parse error instead of answering when
  it meets a line that is being written (`event_log.py:190`, `:195`). `discard_candidate`
  drops the entry before archiving it (`store.py:297`), and an empty live file is loaded as
  an empty store (`store.py:368`): the faults that `NothingVanishes` and `LiveSurvives`
  exclude by name.
* Budget and calls. A reservation that is pruned while its call runs lets the cap be
  exceeded. `check_or_raise` is called nowhere. When the last retry meets a 5xx, that
  exception is raised as it is (`anthropic.py:106-108`), though `RUN.md:152` promises the
  wrapped one. When `cancel_reservation` raises `LockUnavailable` (`budget.py:583`), the call
  gets no line, though `RUN.md:147` says "One append-only JSON line per call", and the
  provider's exception is hidden.
* Verification. The pins are compared with the files of one moment (`graders.py:52`). An
  empty registry passes everything. `bool("false")` is true, so such an answer of the Critic
  falsifies, and an object that says nothing counts as an attempt (`critic_stack.py:70-76`).
  `distributional_results` is in the certificate and not in its verdict; `CriticEvaluator` is
  used nowhere. A distributional grader goes on with one generator, so the same cases may be
  judged differently the second time; a failing slice does not fail the grader; the bounds
  it shows are rounded, the ones it compares are not (lines 330-334, against
  `contracts.py:105-110`); an infinite surface distance raises.
* Tripwires. `tripwires.py:1` and `:6`, and `brain/plans/01-architecture.md:329`, say that a
  firing halts the loop; the Coordinator rolls the iteration back, or after a promotion
  emits `post.halt` (`coordinator.py:476`), and the next iteration starts.
* Curiosity and bursts. The domains have as many seeds (eight) as `recent` remembers, so a
  random repeat is possible although `curiosity.py:17-18` excludes it. Iterations always
  write to the episodic tier, so a gap of another tier never closes and then no seed is
  ever chosen. The follow-up of an item that always fails is always next, and quotes itself.
  When `run_iteration` raises in the daemon, the item gets no follow-up. What the Critic's
  call raises ends a burst without a ledger (`burst.py:22-24` promises one). A row shows
  what parallel bursts spent, and is negative across midnight.
* Daemon. With `--rate-per-hour` above 1000 the window (`daemon.py:76`, a deque of
  1000 times) never holds enough times to close, and iterations that raise are in no
  limit at all, so the pace that `RUN.md:233` promises is kept only under the condition of
  `PaceKept`; the launcher that "restarts on crash" (`RUN.md:75`) restarts after every
  exit, also after the halts for the budget cap, a safety regression, a signal or
  `-MaxIter`; a failing snapshot or stats file skips the fuzz gate (`daemon.py:275-284`).
  The heartbeat is not refreshed while the daemon waits for its window.
* Dashboard. With a `--root` that holds state but no package ("point at a different CSIS state
  root", `RUN.md:167`), the STOP that the dashboard writes into it (`server.py:404`) is not the
  one that the daemons it starts look for (`daemon.py:166`): they run on, though
  `ui/static/dashboard.html:765` says "Daemon halts gracefully on its next iteration".
  `ControlPanel` has both places; that a daemon which finds its file ends is `EndsWhenAsked`.
  `start-daemon` passes `--max-total-iterations` when it is asked for a limit
  (`server.py:389`), which the parser of `csis.daemon` does not know (`daemon.py:503` has
  `--max-iter`): such a daemon exits at once, though ok was answered. `endpoint_cost` takes the newest day of a budget file for today
  (`server.py:138`; after midnight it is yesterday, `RUN.md:160`). Two bursts requested in
  one second write to one ledger file (`server.py:447`). `start-daemon` answers ok while
  STOP exists. A second daemon or a single iteration may be started beside a running daemon
  on the same stores, which `README.md:238-239` advises against. Iterations and bursts of an
  earlier dashboard cannot be stopped from the new one.

## 6. Not modelled, and the plan

Assumed: hashes are injective, uuids and reservation tokens are new, a provider's cost is
at most the estimate, one process per memory store (`README.md:238`).

Next, in this order:

1. An abstract ledger that `Budget` implements while nothing is in the write-ahead log.
2. `run_continuous` with its snapshots, and the history the tripwires keep.

`Dreams` is left out because nothing but its tests calls it; it is to be modelled when
something feeds its output to a store. Left out for good: prompts and parsing, pattern lists
and corpora, the read endpoints of the dashboard, the text of reports, the demo, and the
tables of the domains, none of which changes state that others see. Of signals, what a
handler that calls `Event.set` does to an `Event.wait` it interrupts, both of which take
one lock, is left to Python.
