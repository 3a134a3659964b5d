# A TLA+ model of wireguardd

wireguardd is an agent that keeps a host's WireGuard / AmneziaWG interfaces in
the state a database describes. This directory holds TLA+ modules for its core
protocols, TLC configurations that check them on small instances, and TLAPS
proofs of the safety properties that matter most. `PROJECT.json` maps every
definition to the lines of the source it models, and lists runs, hazards,
findings and theorems.

    tlc -workers 2 -config Ifaces.cfg MCInterfaceReconcile
    tlapm PeerAccountingProofs.tla

## 1. The system

### Inventory

| Component (source) | State | Operations | Hard because |
|---|---|---|---|
| Store (`internal/db`) | `interfaces`, `peers`, `events` in state.db; samples in timeseries.db | CRUD, `UpdatePeerStats`, `SetPeerSuspended`, import, sample insert / thin / purge | every handler writes without a lock; two database files without a common transaction |
| Reconciler (`internal/reconcile`) | `mu`, `prevSample`, `prevPeerConn`, `hookState` (memory only) | `RunOnce` from the ticker and from most handlers, `Exclusive` | works on a listed snapshot while rows change; drops most errors; forgets everything at a restart |
| API handlers (`internal/api`) | none between requests | interface and peer CRUD, suspend, reset, key rotation, import / export, adopt | read - modify - write over several statements |
| Policy and accounting (`internal/policy`, `internal/stats`) | stats cache | quota and expiry decisions, lifetime totals, rates | counters reset under it |
| Host backend (`internal/wgbackend`) | remembered routes, rules, DNS, tc / nft classes, per interface | ensure link, apply peers, set up, routes, black holes, bandwidth, DNS, mux | remembered state against the host's real state; partial failure of command sequences |
| Address allocation (`internal/netutil`) | none | `CollectUsedHosts`, `AllocateNextHost` | wrapping increments, pool edges, concurrent callers |
| Webhooks (`internal/webhook`) | bounded channel, `closed`, worker goroutine | `Emit`, `loop`, drain, `Close` | several goroutines, a select race, shutdown order |
| Adoption (`internal/adopt`) | none | take running devices and conf files into the database | overwrites rows a run is using |
| Daemon (`internal/daemon`) | contexts, listeners | start, signal, shutdown, WAL checkpoint | ordering of the parts' ends |
| Conf files (`internal/confparse`) | none | parse, render | which fields survive a round trip |
| Sample store (`internal/db`, `internal/daemon/wal.go`) | timeseries.db, WAL files | insert, purge, thin, window reads, migration, checkpoint | three loops on the same rows; times compared as text; crash between two files |
| TUI (`internal/tui`) | one model record | fetch, tick, keys, prompts, forms, calls | replies late, lost and out of order under the user's cursor |
| SNMP, metrics, CLI, client, updater | views of the cache, or one request each | read only, or file replacement | little protocol of their own |

### Interactions

* Handlers write rows, then call `ForceReconcile`, which is `RunOnce`; the
  ticker of `Loop` calls the same. `Reconciler.mu` serialises runs, interface
  deletion and conf export (`Exclusive`), nothing else.
* A run lists interfaces, then for each one lists its peers, enforces quotas,
  applies link, peers, black holes, limits, link state, routes and DNS, exports
  the conf file, samples counters, and finally removes links of names it
  remembers and no longer wants.
* `Store.AddEvent` calls the webhook dispatcher after the insert, on the
  caller's goroutine.

### What makes each part correct

* Accounting: a peer's lifetime total never drops, never exceeds what the
  kernel counted for it, and loses nothing where nothing failed; a peer over its
  quota is suspended and cut off.
* Interfaces: the mesh link the host owns is never touched; configurations are
  applied in order; a settled row is in the end what the link and the conf file
  say; deletion leaves no link behind; hooks come in order.
* Addresses: the allocator returns the least free host of the first pool that
  has one; a host it gave a peer is another's too only if that one got it later.
* Webhooks: at most one delivery per event, in queue order; queued events are
  tried; `Close` returns.
* Routes, rules, DNS and limits: what the backend remembers is what the host
  has; what a row asks for is in the end installed, and what it no longer asks
  for is gone.
* Adoption: a peer pays for no byte twice and does not use up its quota by bytes
  from before the adoption.
* Samples: one row per thinned bucket; a window counts what it says; the WAL is
  truncated, or reported as pinned.
* TUI: a key acts on what the screen shows; the lists do not go back in time and
  catch up.

## 2. Modules

| Module | Models | Proofs |
|---|---|---|
| `PeerAccounting` | `sampleInterface`, quota enforcement, `ApplyPeers`, pruning, the peer handlers, the kernel's counters, restarts | `PeerAccountingProofs` |
| `InterfaceReconcile` | `run` over interfaces, hooks, stale removal, the interface handlers, `Exclusive`, failures of each backend call, restarts | `InterfaceReconcileProofs` |
| `Webhook` | `AddEvent`, `Emit`, `loop`, drain, `post`, `Close`, shutdown order of `App.Run` | `WebhookProofs` |
| `PeerAddresses` | `CollectUsedHosts`, `AllocateNextHost`, `allocatePeerIP`, create with and without addresses, PATCH, delete | `PeerAddressesProofs` |
| `Adoption` | extends `PeerAccounting`: `Adopt` (plan, skip, import), interface create / delete, the host's own peers, the stale pass | `AdoptionProofs` |
| `HostState` | `SyncRoutes`, `ApplySuspendRoutes` and its cached listing, `SyncDNS`, removal | `HostBackendProofs` |
| `Bandwidth` | `SyncBandwidth` with tc and nft, minor allocation, clearing, commands that fail | `HostBackendProofs` |
| `SampleStore` | sample insert, purge, `ThinSamples`, `compactLoop`, window reads, `migrateLegacySamples`, `maintainWAL` | `SampleStoreProofs` |
| `Tui` | `rootModel.Update`, keys, prompts, forms, the commands in flight | `TuiProofs` |
| `EventQueue` | what the webhook dispatcher promises; `Webhook` implements it | `WebhookProofs` |

`MC...` modules add only symmetry sets and the values of structured constants.
Operators commented "Mutant" are wrong variants of the definition after them;
they are used by nothing in the specifications.

### PeerAccounting

One managed interface. `peers[id]` is the row (public key, lifetime total,
soft-reset offset, limit, expiry, suspended); one transfer direction stands for
rx and tx, which the code treats by the same statements. `kern` and `raw` are
the kernel's peers and counters; `prevSample` is the reconciler's memory. A run
is the walk of `pc` through `enforce`, `device`, `sample`, `prune`, on the
snapshot `snap`; between any two of its steps a handler may write a row.
PATCH, reset and rotation read a row (`GetPeer`) and write it later. `Restart`
clears the reconciler's memory at any point; `LinkRecreated` resets counters;
the fault `store` drops a write whose error the code drops, `list` makes
`ListAllPeers` fail, `backend` the backend's calls.

`carried`, `owner` and `bill` only observe: `bill[id]` is what the kernel counted
on the row's keys while it held them, plus what a key had counted when the row
took it over (the code's cold start takes the whole counter), plus what is
counted on a key a run in progress still lists for the row.

Left out of a sample: rates, look-back windows, handshake times, connect edges,
the sample rows and the cache; none of them is read by what is modelled.
The 64-bit totals are unbounded here: they only grow by what an interface
carries, and 2^63 bytes are out of reach.

### InterfaceReconcile

`ifaces[n]` is the row, its configuration a version: each write makes a new one,
so a stale write or a stale apply is visible. `live[n]` is the link with the
version it was last configured with; `conf[n]` the version in the exported file.
`pc` is the holder of `mu` and where it is; `hookState` is what the reconciler
remembers. Each interface is two steps of a run (`EnsureInterface`, which may
fail at several points, and `Finish`: set up, hooks, `hookState`, export), so
handlers come in between. Import, up and down do not refuse reserved names, as
in the code. Assumed: hooks allowed and configured, persistence `hybrid` or
`wg-quick`, a private key present (otherwise hooks and export are no-ops).
Creation of a wg + awg pair is not modelled yet; routes, DNS, limits and the port
multiplexer are calls without effect on this state.

`MaxWrites` bounds row writes, `MaxFaults` failures.

### Webhook

An event is its row number. `Emit` reads `closed` under the mutex and sends after
the unlock: two steps. `select` with both cases ready may take either. A post
ends acknowledged or not, once; the loop's post under a cancelled context fails,
the drain's has a context of its own. `Signal` cancels the worker's context
(`wh.Start(ctx)` gets the signal context); `Close` is deferred in `App.Run`.

### PeerAddresses

An address is a number of `Width` bits in a family; a network has `bits` host
bits. The scan increments modulo 2^Width, as `incIP` does; it takes the host at the
first offset at which it finds one, unless it leaves the network or reaches
`ScanLimit` before. The reference definition (`Offers`) does not scan. `ScanLimit` is
less than the space, as 4096 is less than 2^32.
`CollectUsedHosts` tests the suffix "/32" also on IPv6 networks; at the model's
width no network is both, so the test is "no host bits".

A create without addresses is three steps (`GetInterface`, `allocatePeerIP`,
`CreatePeer`) and any number of creates overlap. A create that names
`assigned_ips`, `allowed_ips` or both (`CreateExplicit`) and an edit (`GetPeer`, then
`PatchPeer`) may name any of them: the code checks their syntax and no more. An edit
writes back the whole row it read, each of the two lists replaced where the request
has it, so it can bring back addresses that were changed in between; issuing a key
(`handleIssueClientKey`) reads and writes a row in the same way, with neither list
replaced. A row is found again by its id, so deleting the peer cancels the edits of
it. The import of an adoption also writes addresses, those of a conf file; it is
not part of this module.

Two fields only observe. `auto` says that a row's assigned address is still the
one the allocator chose, `late` who got that address after the allocator listed the
rows; `NoSharedHost` says that nobody else can share it. `AllocatedApart`, that no
two peers have one allocated address at all, is true with one create at a time (a
theorem) and false with two (`AddressesConcurrent.cfg`).

### Adoption

Extends `PeerAccounting` by the interface's row (`managed`), its link (`live`),
the reconciler's memory of having managed it (`hook`) and one adoption in flight
(`plan`). `Plan` reads the kernel, the conf file (an input) and whether the row
exists; `ImportInterface` replaces all peer rows by new ones in one transaction,
any number of steps later. `after`, `base` and `again` only observe. A run
that does not list the interface removes the link of one it managed before, also
when the host has brought it up again since: DELETE does not clear `hookState`.
A peer imported without AllowedIPs is opened by `ApplyPeers` here; not carrying is
always possible, so this only adds behaviours. The two reads of a plan are one
step: a row that appears between them makes the plan skip, a row that goes makes
it what an overwrite would be, and both are behaviours of the model.

### HostState

A reconcile of one interface is one step, because everything that reaches the
backend holds `Reconciler.mu`; its commands can fail one by one. `routes`,
`rules`, `dns` and `blackholes` are the backend's memory, `kroute`, `krules` and
`kdns` the host. A peer is its one AllowedIP. `ip route replace` takes a route
from another interface and the suppress rule is shared, as on a host. Interfaces
that want the same route take it from each other at every run, so the exact memory
is claimed for rows that do not (`Apart`), which the instance satisfies and the
theorem supposes. `doubt` and `lost` record
what failures made unknown, so that the invariant says exactly when memory may be
wrong. `TypeOK` describes the state and is not part of the run.

### Bandwidth

One interface, peers with `tx` and `rx` rates and a number of addresses. tc keeps
what it applied per peer and clears a peer by deleting a window of filter
preferences; nft rebuilds its rules at every sync. The hash of a key is a
constant (`Hint`), the minors a range of `Slots`. The loop of `sync` over the peers
is a function of the number of peers done (`SyncedTC`). `ApplyBandwidth`, the
single-peer path nothing calls, is left out. Names that `HostState` has too start
with `Bw`: one module of proofs extends both, as both are parts of `HostBackend`.

Commands run under the context of the request that syncs, and a sync is `faulty` or
not. In a faulty one each command may fail, any number of them and each on its
own, those that clean up too: what it leaves is a set of outcomes, and the sync
takes one. `clearPeerTC` then leaves any of the filters and classes it was to
delete, and forgets the peer all the same; an apply stops at a filter and its
cleanup may fail as well; qdiscs and tables survive their removal. A stateful
sync (`tcPeers`, `nftReady`) is what makes these matter later.

Two variables observe what the code cannot repair, and the properties except it by
name: `strays`, tc filters that a failed deletion or an earlier life of the daemon left
on the link, which nobody remembers and the kernel may match first; and `hit`,
peers whose filters were deleted with those of another peer. All other filters and
rules are compared by their rates: `Enforced` asks that the rate of the limit, and no
other, is in force on each address the peer has.

### SampleStore

Time is in half seconds, so that the textual order of RFC 3339 times (a fraction
sorts before the bare second) is visible; every peer moves one byte in each, so
that a window from a wrong sample shows. Runs, `compactLoop`, deletion of a peer
and the start (copy, then migration 00005) interleave statement by statement;
`Stop` (a stop or crash) is possible at each. Buckets, slices and windows keep the proportions
that matter: a bucket is a whole number of seconds, a slice of buckets.

### Tui

One record for `rootModel`, sets for the commands in flight. A call is executed
by the daemon (`Serve`), answered or given up by the client, in which case it may
still be executed. Other clients change rows at any time. Values of form fields,
rendering and the read-only tabs are left out.

### EventQueue and the refinement

`EventQueue` is a bounded FIFO without goroutines: an event raised is accepted or
refused, the oldest is delivered or lost, and delivery stops only when the queue
is empty. `Webhook` defines `Queue == INSTANCE EventQueue WITH ...` (the queue is
the channel with the event being posted in front, so its capacity is one more)
and `ImplementsQueue == Queue!Spec`, its fairness included, is a property of the
`webhook` run; its safety part, `Queue!SafeSpec`, is a theorem.

## 3. Runs

| Run | Checks | Shows |
|---|---|---|
| `accounting_key_reuse` | NeverOverbilled, LifetimeMonotone | two rows exchange keys by delete, create and rotation over restarts, resets and lost writes |
| `accounting_exact` | BilledExactlyOnce | restarts and a failed `ListAllPeers` neither lose nor double a byte |
| `accounting_live` | TypeOK, SnapshotCurrent, QuotaEnforced, SuspendedIsCutOff | all handlers around one row: no total moves under a run, and enforcement gets through whatever requests interleave |
| `adoption` | AdoptTypeOK, AdoptedBillBound, QuotaFromAdoption | plan and import around a running reconciler, overwrite, delete, resets and restarts |
| `ifaces` | TypeOK, ReservedUntouched, NoOrphanLink, AppliedInOrder, HookOrder, Converges | a managed and a reserved name, every handler, one failure of any kind; a settled row wins, after any failure, lost link, restart or stale export |
| `host_state` | MemoryIsExact, RoutesSettle, ResumedIsReachable | a default-route tunnel and a second interface, any two failures |
| `bandwidth` | BwTypeOK, ClassesDistinct, LimitsSettle, LiftedIsFree | two keys with the same hash, rates that change, both backends, any two faulty syncs, losses or restarts |
| `samples` | TypeOK, ThinnedToOne, WindowBounds, WalSettles | an old install migrated, sampled, thinned and purged, with a crash |
| `webhook` | TypeOK, AtMostOnceInOrder, AcceptedIsTried, CloseTerminates, ImplementsQueue | two emitters, a full queue, failing posts, signal and Close in any order; the dispatcher is the abstract queue |
| `addresses` | AllocatesLeastFree, NoSharedHost, RefusedOnlyWhenFull | two creates, two edits, explicit addresses and deletes in any order: the scan equals its reference, at pool and space edges, and only who got it later shares an allocated address |
| `tui` | TypeOK, OneCallAtATime, ActsOnTheShown, NeverShowsOlder, CatchesUp | late, lost and reordered replies, time-outs, other clients |

`samples_short_retention` expects a violation; section 6 has it and further
configurations of that kind. `AccountingOneRow.cfg` (all handlers and all failures
around one row) is a larger passing instance of the accounting.

### Bounds

* Accounting: two keys and one or two rows are what key reuse and rotation need;
  two bytes separate "before" and "after" a sample, a reset and a restart, and
  let a counter exceed, equal and fall below a lifetime. Handler pairs
  are covered by one read-then-write handler plus the atomic ones (create,
  delete, suspend): two writes back from stale reads add nothing to the lifetime,
  which none of them writes.
* Interfaces: names are independent but for the lock; one managed and one
  reserved name suffice. Three writes allow create, delete, create again or two
  updates behind one stale read. One failure at a time in the runs; the proofs
  cover any number.
* Webhook: queue of two, five events, one of them filtered: overflow, refill and
  both emitters waiting happen.
* Addresses: four bits, pools at both ends of the space, both families, a pool
  too small, a link-local address; two keys and the interface fill a /30. Three
  counted steps (`MaxEdits`: explicit creates, reads of an edit, deletes, changes of the
  pools) let two edits of one row overlap, or an edit write back what a delete and
  create around it gave away.
* Adoption: one key, two rows (a row and the one that replaces it) and three bytes:
  a counter can be sampled at two, be reset, and be adopted at one.
* Host state and limits: three edits make a peer active, suspended and active
  again, or lift a limit and set another; two failures allow one in the repair of
  another. The limits of `bandwidth` have two rates in the tx direction, one or two
  addresses, or none. Both keys hash to the last of 10 minors, so the second probes
  around to the first, and clearing it reaches the filters of the other; faulty
  syncs and edits can follow each other in any order within the bounds.
* Samples: the instants lie on both sides of bucket edges and of a bare second;
  three passes leave a sample before, in and after a thinned bucket. In
  `Samples.cfg` that a window counts nothing older than the bucket before its
  cutoff bites for the short window only, as no sample is old enough for the wide
  one; there it rests on the theorem.
* TUI: one interface and two peers let a list shrink under the cursor; two fetches
  in flight reorder; two events are a call and a change by another client, or two
  calls. The names a user types are bounded to the ones of the instance.

### Fairness

* `PeerAccounting`, `InterfaceReconcile`: weak fairness of the run's steps: the
  ticker of `Loop` starts runs for ever, and each store or backend call returns
  (they are local calls or commands under a context). `FinishDelete` is fair
  because the handler that holds the lock goes on. No request is assumed to come
  or to finish. In the live instances failures are bounded (interfaces) or
  restricted to resets and failed listings (accounting): with a store that
  always fails nothing can be enforced.
* `Webhook`: the worker and the goroutine in `Close` are scheduled; a post ends
  because the HTTP client has a timeout.
* `HostState`, `Bandwidth`: weak fairness of reconciling each interface, from the
  same ticker; edits and failures are bounded.
* `SampleStore`: the tickers of `Loop`, `compactLoop` and the WAL loop.
* `Tui`: the runtime delivers ticks and replies, the daemon serves calls. Strong
  fairness of the newest fetch's reply: each tick makes the one before stale, so
  lists are refreshed only because a fetch is now and then faster than the
  interval. No key is assumed to be pressed.

`Samples.cfg`, `SamplesShortRetention.cfg` and `Tui.cfg` switch the deadlock check
off: the instants of the instance run out, and the user may quit.

## 4. Proofs

All theorems hold for every number of keys, rows, names, requests, bytes and
failures. The assumptions are the typing of the constants (`PubAssumption`,
`BoundAssumption`, `LimitsAssumption`, `OpsAssumption`, `OverwritesAssumption`,
`ReservedAssumption`, `BoundsAssumption`, `InstanceAssumption`, `QueueAssumption`,
`EventsAssumption`, `HomeAssumption`, `DstAssumption`, `RowsAssumption`,
`AddressesAssumption`, `PeerAssumption`, `SampleBounds`, `PeersAssumption`,
`HintAssumption`, `BandwidthBounds` and the other bounds), and

* `PubFinite`: there are finitely many keys, as a key is 32 bytes;
* `IdsAssumption`: the TUI's interfaces and peers are finite sets, of numbers that
  give the order they are listed in;
* `IfaceAssumption`: "no interface" and "blackhole" are not names of interfaces;
* `SlotsAssumption`: an interface has no more peers than there are class minors
  (4079);
* `WidthAssumption`: the scan is shorter than the address space;
* `TimesAssumption`: a bucket is whole seconds and a slice whole buckets (10 minutes
  and an hour in the code); an old install's samples of a peer are at different
  seconds, as new ones are by `PassDue`: the default interval of passes is 5 s. Two
  samples within one second are ordered by their texts, which is wrong by up to
  that second, and not modelled;
* `PowersAssumption`: 2^n doubles with n, arithmetic the provers do not know.

TLC evaluates all of them. Some theorems have a hypothesis, and each is needed: a
configuration or a section named here shows what happens without it.

| Theorem | Hypothesis | Without it |
|---|---|---|
| `EveryByteBilledOnce` | `NothingLost`: no deletion, rotation, lost write or counter reset | bytes between the last sample and the loss are not billed |
| `QuotaNotUsedUpByAdoption` | no key rotation | rotating zeroes the offset a limit came with (section 6) |
| `MemoryStaysExact` | `Apart`: no two interfaces want one route | they take it from each other |
| `ApartNoneHit` | `KeysApart`: no window that clearing a peer deletes reaches another's preferences | `BandwidthNeighbours.cfg` |
| `AllocatedStayApart` | `OneAtATime`: creates do not overlap | `AddressesConcurrent.cfg` |

`PeerAccountingProofs`

* `TypeCorrect`: types, in particular no negative total (the counter difference
  is only taken where it is not negative).
* `SnapshotStaysCurrent` and `LifetimeNeverDrops`. That the total never drops is
  not inductive: a run writes a total computed from the row it listed, so one
  has to know that this is still the row's total. The inductive invariant adds
  to the types that snapshot rows not yet sampled agree with the database on the
  lifetime (`SnapshotCurrent`), that rows to sample are listed rows and only the
  sampling loop has any (`RunLocals`), and that ids above `lastId` are in neither
  (`IdsFresh`: a row created during the run is not one it lists).
* `NoRowOverbilled`. A row can hold several keys over its life and return to one,
  so the bill is compared with totals over all keys: what samples may still add
  (`Due`) and, as a sample that finds none in memory starts from the counter, what
  was counted (`Counted`). `Total` sums a function over keys as the number of
  cells under its graph, which needs no recursion, so its lemmas (monotone,
  rises and drops with one key) follow from those on cardinalities. The invariant
  `Covered` says that the bill is at least each of the two; it needs that a key
  has one owner and is listed for one row (`KeysHeld`).
* `EveryByteBilledOnce`. Where nothing is lost, a row keeps its key, its bill is
  the counter, and the last sample in memory is its lifetime (`Settled`); a byte
  is carried only on a key that some row has (`KeysListed`).

`InterfaceReconcileProofs`

* `TypeCorrect`, `ReservedStaysUntouched`, `NoOrphanLinkLeft`,
  `NeverAppliesOlder`, from one inductive invariant: the types; names a run
  works on or deletes are not reserved (`Managed`); where the lock holder is in
  its work, and that rows stay while a run walks them (`Walk`); while nothing
  has failed, a link without a row is the one being deleted right now
  (`NoOrphan`: needed because DELETE removes the row first); and the order of
  versions: what was applied is no newer than the row and, for an interface still
  to be done, no newer than what the run listed (`Versions`: needed because a run
  applies what it listed).

* `HooksInOrder`, from the same invariant and one more: the last hook of a link
  agrees with `hookState`, and a run between the two hooks of a transition has
  executed the first (`HookInv`).

`AdoptionProofs`

* `AdoptionTypeCorrect`, `AdoptedRowNotOverbilled`, `QuotaNotUsedUpByAdoption`.
  An adopted row starts at the counter instead of zero and may be charged it once
  more when the reconciler sampled the key before. With a bill raised by that
  amount (`charged`) every step of the accounting is one of the accounting, so
  `PeerAccountingProofs` is instantiated with that bill and its step lemmas are used as
  they stand; what is left is the import, whose new rows are not listed by the run
  under way and whose only key is covered, and the steps on the interface. A plan
  stays usable because the counter exceeds the planned total only by what was
  counted since (`PlanHolds`). For the quota, neither a row's offset nor its
  lifetime, nor those of a request that will write them back, go below the counter
  the row was adopted at (`QuotaHolds`).

`WebhookProofs`

* `TypeCorrect` and `DeliveredOnceInOrder`: what was taken from the channel and what
  is in it make up what was accepted; nothing is accepted twice, and what was
  posted is a part of what was taken, in its order (`InOrder`).
* `DispatcherIsQueue`: every step of the dispatcher is a step of `EventQueue` or
  changes nothing of it, one lemma for each action that is not a stutter.

`HostBackendProofs`

* `MemoryStaysExact`: unless in doubt, the routes remembered for an interface are
  those the kernel has for it, its rules are present and its DNS is what was set. A
  rule does not say for which interface it is there, so exactness of rules is about
  all interfaces together: while none is in doubt, the host's rules are the
  remembered ones, each once, so that one delete removes it (`RulesExact`).
* `LimitsTypeCorrect`, `ClassesStayDistinct`. The probe of `allocateMinor` stops at a
  minor nobody has: if every slot had a holder, the slots, which are different for
  different distances from the hash, would inject into the other peers, of whom
  there are fewer (`SomeSlotFree`). As clearing, applying and a whole loop give sets
  of outcomes, each lemma is about every outcome: the table keeps each active peer a
  minor of its own (`TableOK`), and every filter that is not a stray is one its
  peer's limit asks for (`Owned`): needed because a filter names its class and not
  its peer's entry, and true because what a deletion was to take and did not becomes
  a stray and the window it deletes holds at least the preferences applying used
  (`FiltersInWindow`). That the loop exists for every list of peers and keeps what
  each step keeps is shown by the least number of peers for which it would not
  (`LoopEnds`, `LoopKeeps`).
* `LimitsRemembered`: a limit remembered as applied is on the link while the qdiscs
  are, unless clearing another peer took filters of it (`InForce`). `ApartNoneHit`:
  with keys apart the probe never leaves the hash (`HomeMinor`), no window reaches
  another's preferences, and the exception is empty.
* `SyncsEnforceLimits`. After a clean loop every peer with a limit has it remembered, and
  by the invariant in force; and as every known filter is one of the limit of its
  peer, it is in force at that rate only (`LinkRates`), and a peer without a limit has
  none (`TCSettles`); nft renders its rules anew (`NFTSettles`). No hypothesis on the
  keys, on what failed before or on the backends of earlier lives is left; what a
  failed deletion left is excepted as in `LimitsSettle` and `LiftedIsFree`. What
  these two add is liveness: that such a sync comes.

`PeerAddressesProofs`

* `AllocatesLeast`, `RefusedWhenFull`: the scan returns the least host of the
  first pool that offers one. An offset before the one the scan stops at is the
  least counterexample or there is none, which replaces induction; that offsets
  do not wrap inside a network comes from lemmas on powers and alignment.
* `NoHostShared`: a host about to be inserted was nobody's when it was chosen, as the
  hosts in use hold what every row has (`UsedHosts`); whoever holds it later got it by
  one of the writes to a row, which are of one form (`RowWrite`), and is noted as
  late by it, for requests and for rows (`LateOK`).
* `AllocatedStayApart`: with one create at a time nobody else's allocated address can
  become that host (`Apart`).

`SampleStoreProofs`

* `TypeCorrect`: consecutive ids given to a set of samples are distinct and fresh,
  as the samples before one are fewer than those before a later one.
* `OnePerBucket`: what is before the slice in progress is thinned as well as what
  is before `done` (`ThinHolds`); new rows come after both, since a range ends
  outside the raw window (`TimesOK`); what a first range leaves out is older than
  retention. A slice starts and ends at a bucket, at a whole second, so that the
  bounds compare as text as times do (`TextBefore`) and no bucket is on both sides
  of one (`SameSide`).
* `WindowsAreBounded`: a sample within retention has its row or, outside the raw
  window, a newer one of its bucket (`SamplesHeld`; for peers that are not deleted,
  once an old install's samples are copied). That thinning keeps this needs that the
  row with the highest id of a bucket is its newest (`NewestIsLast`), also when
  samples were copied twice; this is claimed only of recent rows, as a purge that
  fails half-way leaves any of the expired ones. Samples after the last reset have
  the bytes since (`RowsLogged`), and those of a peer are at different seconds
  (`LogOK`), without which the newest text is not the newest sample.

`TuiProofs`

* `OneCallAwaited`, `ScreenNeverOlder`, `CallsAboutTheShown`: the screen is busy
  exactly while a call is awaited (`CallsOK`), there is one
  fetch at most whose reply will be shown, and it was sent after everything the
  screen shows (`VersionsOK`); a prompt or form still names the row it was opened on
  (`DialogsOK`).
* `TypeCorrect`: the lists have rows the daemon may have because what is on its way
  to it or back has (`RowsOK`), and the list of a set of names is one of its members
  at every place: there are as many places as members, and no two members have the
  same number before them (`EveryPlaceTaken`). The cursor then stays on a row in
  each key and each reply that shrinks a list (`ScreenOK`).

Every invariant and action property of the passing runs is stated by one of these
theorems. Only model-checked: every liveness property, and with it the fairness part
of `ImplementsQueue`, as the provers have no rule for fairness.

## 5. Hazards

`PROJECT.json` lists what is hard to test in this code, at its line, with the
property that would notice. Where a property excepts a case because the code has
no answer to it (routes of a lost link, filters whose deletion failed or which an
earlier daemon life left, filters of a neighbouring class minor, a stale ready flag),
the hazard's note says so. Four have no property: the leak of a deleted interface's
link, which section 6 shows; pair creation, which is not modelled; and, in the TUI, a
call that timed out and is executed next to a later one, and the crash after a page
down in an empty list. The model has the last two as actions (`Serve`, `RowPanic`)
and nothing it states forbids them.

Met on the way and not stated as properties: editing a peer in the TUI sends one
tunnel address for all of its AllowedIPs, and a late client configuration replaces
the screen the user is on (`model_root.go:547`, `:211`); the black-hole
listing is compared as text (`routes.go:40`), so an IPv6 address not written as
`ip route` prints it counts as missing; two interfaces that want the same
destination take it from each other at every run.

## 6. Where code and documentation disagree

* `samples_short_retention` (run): with `sample_retention` no longer than the 24h
  window, as in the example configuration, the sample the window starts from is
  purged and the window reports the peer's whole total; the comment in
  `reconciler.go` says the window is off by at most 10 minutes.

More configurations show a disagreement; each is run with `tlc -config X.cfg M` and
ends with the named property violated.

* `AccountingRotation.cfg` (`MCPeerAccounting`, `RotatedShowsZero`):
  `handleIssueClientKey` zeroes `last_*` in memory, `UpdatePeer` does not persist
  them; a rotated peer shows its old total, and what a soft reset had hidden
  reappears because the offset is persisted as zero.
* `AdoptionOverwrite.cfg` (`MCAdoption`, `NeverSuspendedByOldBytes`): adopting again
  with overwrite sets the total to the raw counter while the reconciler's last
  sample is older; the next sample adds the difference again, and a peer adopted
  with a limit can be over it by bytes from before the adoption. The comment in
  `buildPlan` says they "don't immediately auto-suspend peers on adopt". The
  `adoption` run shows the bound on it.
* `IfacesLeak.cfg` (`MCInterfaceReconcile`, `DeletedIsRemoved`): a link whose row was
  deleted stays for ever when the daemon stops between the two deletes or when the
  removal fails once, because only `hookState`, in memory, knows that the link was
  managed.
* `IfacesReservedRow.cfg` (`MCInterfaceReconcile`, `ReservedNeverOwned`): import
  stores a row for a mesh name that wireguardd "must never own"; the link stays
  untouched all the same (`ReservedUntouched`).
* `WebhookShutdown.cfg` (`MCWebhook`, `CloseFindsWorker`): the worker drains and ends
  at the signal; events that requests emit during `Shutdown` are on the queue when
  `Close` is called, and there is no worker to drain them.
* `AddressesConcurrent.cfg` (`MCPeerAddresses`, `AllocatedApart`): two concurrent
  creates are given the same address.
* `BandwidthNeighbours.cfg` (`MCBandwidth`, `FullLimits`): without any failure, clearing
  a peer deletes its neighbour's filters and nothing puts them back, although
  `SyncBandwidth` "applies full per-peer bandwidth limits".
* `BandwidthFailedClear.cfg` (`MCBandwidth`, `StaleRemoved`): the deletion of a peer's
  filters fails, the peer is forgotten, and it stays limited after its limit was
  lifted, although `SyncBandwidth` "removes stale peers".

## 7. Not modelled

Not modelled: creation of a wg + awg pair (two rows and a rollback in one handler:
its unlocked delete leaves the states `NoOrphanLink` is proved for); the port
multiplexer (data path); connect edges, rates and the cache (floating point, or
copies of what the modelled steps compute); parsing and rendering of conf files and
SNMP encoding (properties of text); metrics, CLI, API client, configuration and key
generation (no state of their own); the updater (one process, file replacement).
