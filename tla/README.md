# wg-conf in TLA+

wg-conf is a Go server that manages the clients of a WireGuard interface: an
HTTP API and a dashboard create, stop, start, limit and revoke clients, and a
collector counts their traffic by month. This directory holds a model of it, the
configurations that check the model with TLC, and proofs checked by TLAPS.

* [The system](#the-system): components, state, operations, what is hard
* [Modules](#modules) and how they correspond to the code
* [Runs](#runs): what each checks, its bounds, the fairness it assumes
* [Proofs](#proofs)
* [Findings](#findings): where the code does not keep what a text says
* [Not modelled](#not-modelled), [Plan](#plan), [How to run](#how-to-run)

## The system

| component | state | operations |
|---|---|---|
| peer service, `internal/peer` | none of its own | `Create`, `List`, `GetConfig`, `Revoke`, `Stop`, `Start`, `SetLimit`, `SyncFromConfig`, `ApplyDisabledPeers` |
| configuration file, `internal/wgconf` | `/etc/wireguard/wg0.conf` | `Parse`, `FindFreeIP`, `AppendPeer`, `RemovePeer`; client configs: `BuildClientConfig`, `EnsureJunkParams` |
| live interface, `internal/wireguard` | the kernel's peers and counters | `AddPeer`, `RemovePeer`, `GetPeerStats` |
| store, `internal/store` | SQLite: `peers`, `audit_log`, `usage_snapshots`, `monthly_traffic`, `traffic_baselines` | one statement per method; `SyncPeersFromConfig` is a transaction, `ResetMonthTraffic` two statements |
| client files, `internal/clientfile` | `wg0-client-NAME.conf` | `Load`, `Save`, `Remove` |
| collector, `internal/monitor`, `internal/traffic` | locals of one goroutine | `collect` on a ticker, `computeMonthTraffic` |
| HTTP API and dashboard, `internal/api`, `internal/web` | none | one goroutine per request; the dashboard lists every 30 s and after each action |
| `cmd/wg-conf` | none | startup: import, `ApplyDisabledPeers`, collector, server; `-reset-month-traffic` |

**How they interact.** The peer service keeps one fact, who is a client, in four
places: the file, the interface, the table and the client files. There is no lock
and no transaction over them. Every request runs in a goroutine of its own and
works from copies it read earlier. The file is the reference: `SyncFromConfig`
(at the start and in every List, Stop and Start) makes the table follow it. The
collector goes through the file and the interface on its own and shares the
database with `-reset-month-traffic`, which is another process.

**What is hard.**

* Overlapping requests: Create decides on a name and an address from a parsed
  copy of the file and appends later; `RemovePeer` rewrites the whole file from
  a copy, and `os.WriteFile` truncates before it writes, and writes at the start of
  whatever the file holds by then; imports and prunes come from copies that may be
  stale.
* Steps that fail: each operation has up to seven calls and hardly any rollback;
  some errors are dropped on purpose. The database is given the context of the
  request, so a client that leaves makes the next statement fail.
* Crashes, and `wg-quick`, which restarts the interface from the file and lets
  stopped clients in again.
* Names that are used again: rows, files and keys of an earlier incarnation are
  around while the next one is created.
* Counters of the kernel that start again from zero at any moment, a month that
  ends in the middle of a collection, a collection that is cut off half-way.

**What makes it correct.**

* Peer service: a key stays with the name it was issued for; imports never fail
  because of the table's own state; names, addresses and keys of clients are
  distinct; a client that was revoked or stopped cannot connect; the table comes
  to agree with the file.
* Collector: a month's total is what the samples of the month show: exactly that
  between two collections, never more than that and what a slip left behind; it
  never goes down; no reset is counted twice; no live client is lost for good.
* Text of the files: appending, removing and parsing agree on where a client's
  block begins and ends; a client config keeps its lines and gets its junk
  parameters once, in the section they belong to.
* Answers made of several queries: a client over its limit is always marked, and
  never against a limit it no longer has; a stopped client is not shown online.

`PROJECT.json` lists the hazards with their lines and the properties that cover
them, and for those no property covers, why.

## Modules

An arrow points from a module to one that extends it (`..>`: to one that shows it
is implemented, through INSTANCE).

```
WgConf -> PeerTable --+-> PeerService -> PeerProps -> MCPeers
  |           |       |        |             +------> PeerProofs -> PeerSerialProofs
  |           |       |        |                        PeerSerialProofs -> PeerStartProofs
  |           |       |        |                        PeerSerialProofs -> PeerRegistryProofs
  |           |   Wireguard    +-> PeerRefinement -> MCPeers, PeerRegistryProofs
  |           |                       +..> PeerRegistry
  |           +-> Views -> MCViews
  |                 +----> ViewsProofs
  +-> ConfFile ..+
  +-> ConfText <.+-> MCWgconf, TextProofs <- ClientText
         +----------- Lines -----------------------+
Traffic -> Collector -> MCCollector
               +------> CollectorProofs -> ObserverProofs
```

| module | models | state and actions |
|---|---|---|
| `WgConf` | `internal/wgconf/wgconf.go` as the rest sees it | operators on a configuration `[iface, blocks]`: `FindFreeIP`, `AppendPeer`, `WithoutPeer`, and `Splices`, what may be in the file after a write that leaves the end of a longer one |
| `ConfFile` | the same, abstract | the file as a set of blocks that `Append`, `Read`, `Truncate` and `Write` change |
| `ConfText` | `ParseContent`, `AppendPeer`, `RemovePeer` line by line | `text`, the lines of `wg0.conf`; `edits`, the requests inside `RemovePeer` with the copy each has read; `spliced`, history |
| `ClientText` | `junk.go`, `BuildClientConfig` | `stored` and `handed`, the lines of one client's config; `Download`, `Complete`, `Refuse` are the ways through `GetConfig` |
| `Lines` | - | what it is for two texts to have the same lines, for the properties of `ConfText` and `ClientText` |
| `Wireguard` | `internal/wireguard/wg.go`, wg-quick and the kernel (external) | operators on the set of live peers: `DevAdd`, `DevRemove`, `QuickUp` |
| `PeerTable` | table `peers` of `internal/store` | operators that are its statements: `UpsertRow`, `ImportRows`, `PruneRows`, ... |
| `PeerService` | `internal/peer/service.go`, startup of `cmd/wg-conf` | variables `conf`, `files`, `dev`, `peers`, `audit` are the stores; `pc`, `req`, `loc`, `ans` the goroutines. One action per call that reads or writes a store |
| `PeerProps` | - | the properties of the service and the inductive invariant |
| `PeerRegistry` | - | abstract: a registry of clients and the set of keys that may connect |
| `PeerRefinement` | - | `PeerService` implements `PeerRegistry`; with failures and crashes it does so up to `FileLost`, a rewrite that is cut off |
| `Traffic` | `traffic_calc.go`, `internal/traffic` | `MonthTraffic` and what it is made of |
| `Collector` | `collector.go`, `-reset-month-traffic`, the traffic tables | `base`, `total`, `snap` are the tables, `count` the kernel, `col` the locals of `collect`; one action per call |
| `Views` | the queries of `List` after the import, `handleStats`, the views of `internal/store` | `got`, what the queries of one request have returned; `Query` is the next of them, `Write` any statement of another request or of the collector in between |
| `MCPeers`, `MCCollector`, `MCWgconf`, `MCViews` | - | symmetry for TLC; `MCWgconf` checks `ConfText` and `ClientText`, which share nothing, each with the other at rest |
| `PeerProofs`, `PeerSerialProofs`, `PeerStartProofs`, `PeerRegistryProofs`, `CollectorProofs`, `ObserverProofs`, `ViewsProofs`, `TextProofs` | - | the proofs |

**Conventions.** `pc[r]` names the call request `r` makes next: `"revoke.dev"` is
the `s.wg.RemovePeer` of `Revoke`. What the code does between two calls is local
and belongs to the action of the first. `CallFails` is the failure of the next
call, whatever it is; the calls whose error the code drops are `Shrugged`.
`Answer` is the return of a handler.

**Abstractions of the peer service.**

* The file is a set of blocks. Keys are numbers drawn when the block is
  appended, so the order of the keys is the order of the file. The text of a
  block, the preshared key and the IPv6 address follow the key and are left out.
  The code generates the key just before it appends; nothing sees it in between.
* `os.WriteFile` is two actions, truncate and write. The write starts at offset 0:
  what another rewrite or an append has put there since the truncation is overwritten
  as far as the content goes, and if it is longer its end stays. `Splices` says what
  may be in the file then: the new blocks, any of the other's below them, and, if the
  cut goes through a block, the lines left of it in the last block of the new content,
  where `ParseContent` lets the last key and the last address count. The lengths of
  the lines are left out, so every cut is possible, a clean one too. It takes two
  rewrites that have both truncated, or a rewrite and an append, so it never happens
  under `SerialWrites`.
* `spliced` is history: it has happened. From then on a key may be under another's
  name, and the order of the blocks is no longer that of the keys, so `IsFirst` and
  `IsLast` choose any block of the name. Later edits of a spliced file are still
  edits of whole blocks here, which its lines need not be; no property that speaks
  of names and keys promises anything from there on. An append is one write.
* SQLite has one connection, so a statement, and the transaction of
  `SyncPeersFromConfig`, is one action. The `GetPeer` in `SyncFromConfig` has no
  effect, since the statement of the import does not use `enabled`; it is left
  out. The queries of List after the prune only read.
* The client files of all names are loaded in one action; there is one clients
  directory, as in `main`. A client config is known by the key it was built for
  and by whether it has the Jc lines.
* A call that fails changes nothing, except that a write of the configuration
  that fails leaves the file truncated.
* Each request in `Reqs` is used once; those in `Dashboards` list again and again.
* wg-quick does not restart the interface while the file is truncated.
* `Init` has every mixture of clients the program may find: made by itself and
  enabled or stopped; `imported`, made by angristan's script; `legacy`, with a
  row from before the Jc lines and no client file; the interface as an earlier
  run left it or just brought up from the file.

**Abstractions of the text.**

* Lines are what `strings.Split` gives; a line is its kind and its value, spaces
  at its ends are not there. The preshared key's line goes with that of the public
  key, the three junk lines are one. `Other` and `Setting` are lines no loop looks
  at.
* `Written` is how the file may have been left before the program starts: by
  angristan's script (`script`), with more blank lines and comments (`edited`), or
  set up by hand (`manual`), without a client the program knows and without a final
  newline; a `[Peer]` without a marker is then `Other`. Not in it: a markerless
  `[Peer]` below a client's block, and a client's block at the end of the file
  without a final newline. `WellFormed` fails with either.
* The lengths of lines are left out. `Ends` is what a write over the beginning of a
  text may leave of it: the lines from one on, which is whole, or has lost its
  beginning and is then nothing a loop looks at, or has its newline left. Every cut
  that keeps a line is tried, not only the one the lengths give.
* `MCWgconf` ends a run with the first write that leaves the end of another below its
  own (`spliced`): that write must still be one of `WgConf!Splices`; what later edits
  make of such a text is left open, in `ConfFile` too.
* In `ConfText` the address of a new block is a free one of the present text; what
  happens to addresses picked from an older text is `PeerService`'s subject.
* `Foreign` is every sequence of section headers, settings and blank lines up to
  `MaxForeign` lines, most of which no tool would write.

**Abstractions of the views.**

* One request runs; every other statement is a `Write` between two of its queries.
  A total is upload and download together; of a snapshot only `online` is kept;
  the rows are those of the month of the request.
* `seen` is history: what held from the start of the request to now, the limits
  each client had meanwhile, and the bytes taken off the row of each (`taken`).
* `WriteTotal` stores any total, a smaller one too: `SetMonthlyTraffic` has no guard,
  and the collector computes a smaller one after a snapshot that was not saved and a
  reset (`torn` in `Collector`).

**Abstractions of the collector.**

* Names stand for clients that are in the file; a client leaves and joins the
  interface by Stop and Start or by Revoke and Create of the name. Parsing and
  reading the clock are one action. `GetPeerStats` that fails is no step. A file
  parsed while it is truncated is a sample without clients (`CallFails` at
  `"parse"`).
* Months are numbers. Counters are natural numbers; `MaxBytes` bounds what a client
  transfers, both ways together, between two resets.
* `ideal` is an observer of the same samples who knows, through `epoch`, when a
  counter has started again; it imports the counters of a client nobody has
  counted and adds nothing for the first sample of a month, as the comments of
  `resolveBaseline` say. `last` is its memory, and `last.hidden` marks a client
  with bytes no program could see: a reset after which both counters have grown
  past the last snapshot, or samples that were not stored.
* `torn` and `slack` say what a slip of the code costs. A slip is a collection cut
  off between the new baseline and the snapshot (the next one sees the same reset
  again); a `HasTrafficInMonth` that fails; a month that begins with a client the
  month before knows nothing of; a month that begins after a reset. It charges at
  most the last snapshot and the sample once more, and `slack` adds that up.

## Runs

`tlc` on the module with the `.cfg`; each run takes at most three minutes with two
workers. Two or three clients and two or three requests are enough for the
interactions there are: two requests that overlap on one name or on two, a third
that meets what the two have left, and a dashboard that lists all the time.

| run | bounds | shows |
|---|---|---|
| `overlap` (`MCPeersOverlap.cfg`) | 3 names, 2 addresses for them (the subnet can be full), 2 requests of any kind, clients absent, stopped, imported or legacy at the start, 1 failure, 1 crash | `TypeOK`, `SettingsKept`, and until the file is spliced `KeysKeepTheirName` and `ImportNeverConflicts`, without any discipline on requests |
| `serial` (`MCPeersSerial.cfg`) | 2 names, 3 addresses, 3 requests, one of them a dashboard; changes wait for one another (`SerialWrites`), lists and configs do not | `BlocksDistinct`, `InterfaceKept`, `RevokedIsDead`, `StoppedIsDead`, `RoutesHeld` |
| `failures` (`MCPeersFailures.cfg`) | 2 names, 3 requests under `SerialWrites`, 1 failure of any call, 1 crash, 1 restart of the interface | `BlocksDistinct`, `RoutesHeld` and `RevocationFinal` survive them; `RevokedIsDead`: each key left alive is the doing of one failure or crash; `StoppedIsDead` survives a crash between device and table; `StartupRepairs`; `ServesRegistry`: every step is one of the registry's or none, but for a rewrite of the file that is cut off |
| `mirror` (`MCPeersMirror.cfg`) | 2 names, 2 overlapping requests, a dashboard, 1 database error, fairness | `EventuallyMirrored`: the table comes to agree with the file for good, unless the file is spliced |
| `registry` (`MCRegistry.cfg`, module `PeerRefinement`) | 2 names, 2 requests, a dashboard, 1 restart of the interface, fairness | `ImplementsRegistry`, safety and the liveness that a revoked key is shut out |
| `resets` (`MCCollectorResets.cfg`) | 1 client, 2 months, counters to 2, 2 resets, 1 failure of any call | `ExactBetweenSamples`, `TotalsGrow`, `ResetsCountedOnce` |
| `slips` (`MCCollectorSlips.cfg`) | 1 client, 2 months, counters to 2, 1 reset, 1 clearing that may be cut off, 1 failure | `TypeOK`, `NeverOvercharged`, `LedgerAgrees` |
| `months` (`MCCollectorMonths.cfg`) | 2 clients, 2 months, counters to 1, 1 failure, 1 crash, fairness | `NeverOvercharged` when the month changes in the middle of a collection; `EventuallySampled` |
| `wgconf` (`MCWgconf.cfg`) | 2 names, 3 addresses, 2 removals that overlap, 3 layouts of the file before the program starts (script, edited, manual), at most 2 clients at once and 3 keys in all, up to the first splice; configs of at most 4 foreign lines, draws at their ends | `WellFormed`, `OnlyTheBlock`, `ImplementsConfFile` for the file; `JunkFits`, `HandedComplete` for the configs |
| `views` (`MCViews.cfg`) | 2 names, limits 0 to 2, totals to 2, 2 writes between the queries | `OverLimitShown`, `MarksAreJustified`, `StoppedShownOffline`, `TotalWithinRows` |

Two more runs, `lost_interface` and `new_month`, end in a violation; see
[Findings](#findings).

One client is enough for the collector's arithmetic, because each pass through
the loop touches the rows of its own client only; two clients in `months` cover
the loop. `views` turns the check for deadlock off: a request that is answered
makes no further query, and the writes are bounded.

`SerialWrites` is the discipline of one administrator at the dashboard, who waits
for the answer of a change before the next. The code does not enforce it; the
runs without it show which promises do not need it, and `lost_interface` what
becomes of one that does.

**Fairness.** A goroutine with a call to make makes it, and the call succeeds or
fails (`WF_vars(Call(r) \/ CallFails(r))`); the dashboard's `setInterval` rings
again; the collector's ticker rings and its goroutine goes on
(`WF_vars(Collect)`). Nothing is assumed about the arrival of requests, about
failures, crashes and restarts, or about the traffic. Since `Reqs`, failures and
crashes are bounded, "eventually for good" reads: once the changes are over.

Each property has a mutant in `PROJECT.json`: a definition of the code changed
the way a bug would change it, under which the run finds the property violated.

## Proofs

The theorems hold for every value of the constants. The assumptions are those of
the modules that declare the constants: `LastOctetAssumption`,
`LimitsAssumption`, `NoRowAssumption` and `ServiceAssumption` for the peer
service, `CollectorAssumption` and `NoneAssumption` for the collector,
`BoundsAssumption` (the clients the file starts with have addresses in the subnet)
and `NoEditAssumption` (no edit is the value for "none") for the text of the file,
`DrawsAssumption` and `MaxForeignAssumption` for the client configs and `ViewBounds`
for the views.

| module | theorem | states | holds |
|---|---|---|---|
| `PeerProofs` | `Inductive` | `[]IInv` | always |
| | `TypeCorrect` | `[]TypeOK` | always |
| | `KeysKept`, `ImportsSucceed` | `[]KeysKeepTheirName`, `[]ImportNeverConflicts` | until the file is spliced, so always under `SerialWrites` |
| `PeerSerialProofs` | `BlocksStayDistinct`, `RoutesStayHeld`, `RevocationIsFinal` | `[]BlocksDistinct`, `[]RoutesHeld`, `[]RevocationFinal` | `SerialWrites` |
| | `RevokedStayDead` | `[]RevokedIsDead` | `SerialWrites` |
| | `InterfaceStays` | `[]InterfaceKept` | `SerialWrites`, no failure, no crash |
| `PeerStartProofs` | `StartupShutsOut`, `SettingsStay` | `StartupRepairs`, `SettingsKept` | always |
| | `StoppedStayDead` | `[]StoppedIsDead` | `SerialWrites`, no client from before the Jc lines (`"legacy" \notin Standings`) |
| `PeerRegistryProofs` | `RegistryIsServed` | `ServesRegistry` | `SerialWrites` |
| | `RegistryIsSafe` | `Registry!Safety` | `SerialWrites`, no failure, no crash |
| `CollectorProofs` | `CollectorTypeCorrect` | `[]TypeOK` | always |
| | `TotalsNeverShrink` | `TotalsGrow` | always |
| | `LedgerStaysTrue` | `[]LedgerAgrees` | no clearing (`MaxClears = 0`) |
| `ObserverProofs` | `NobodyOvercharged` | `[]NeverOvercharged` | no clearing (`MaxClears = 0`) |
| | `ResetsAreCountedOnce` | `ResetsCountedOnce` | always |
| | `ExactStays` | `[]ExactBetweenSamples` | always |
| `ViewsProofs` | `OverLimitIsShown`, `MarksStayJustified`, `StoppedAreOffline` | `[]OverLimitShown`, `[]MarksAreJustified`, `[]StoppedShownOffline` | always |
| | `TotalStaysWithinRows` | `[]TotalWithinRows` | finitely many clients |
| `TextProofs` | `TextStaysFormed` | `[]WellFormed` | until the file is spliced |
| | `EditsAreOfBlocks` | `ImplementsConfFile` | up to and with the first splice |
| | `RemovalTakesOnlyTheBlock` | `OnlyTheBlock` | until the file is spliced |
| | `JunkAlwaysFits`, `HandedAlwaysComplete` | `[]JunkFits`, `[]HandedComplete` | always |

"Always" is: any number of failures, crashes, restarts and overlapping requests
the constants allow. Where a property names its own exceptions, the theorem has
them too.

**`PeerProofs`.** `KeysKeepTheirName` is not inductive: a handler works with what
it read before, so the invariant has to speak of the locals as well. `IInv` is the
conjunction of `TypeOK`; `Control` (a request only makes the calls of its own
operation and has a name if it needs one, so that what it writes under `Name(r)`
is what it read for that name); `IssuedOnce` (no key is issued for two names,
every issued key is below `nextKey`); `KeysKeepTheirName`; and
`LocalsKeepTheirName` (`Held`: the view of the file, the client files, the row,
the key and the config a handler has in hand are bound to their names, however old
they are). The history variable `issued` only grows, which is why age does not
matter. The proof that a step keeps `IInv` has one lemma per action; lemmas about
the operators of `WgConf`, `PeerTable` and `Wireguard` carry the part that is
about data. `ImportNeverConflicts` follows from `IInv`: a key in another row would
have been issued for two names. All of it is said of the time before a splice
(`Bound` holds of anything once `spliced` is true), and must be: with a Create and two
overlapping Revokes the end of one rewrite can put the key of a client under the name
of the block above it, and then the import fails on the UNIQUE constraint.

**`PeerSerialProofs`.** `SerialInv` adds to `IInv` that at most one change is
under way (`OneWriter`), that keys in use are below the next one (`KeysPast`),
that file, interface and audit log are sound between the calls (`Sound`), and for
each call of a change what its handler knows (`WriterKnows`): that the name and
the address it is about to append are free, that the copy of the file it has read is
still the present file until it truncates it, that the block of the key it is about
to take off the interface is gone. Without `OneWriter` none of this is true, and the runs
without `SerialWrites` find the states. With it a rewrite finds the file as its own
truncation left it (`WriteIsWhole`), so that `spliced` stays false. `RevokedIsDead` is a counting argument:
the keys that connect without a block, less the one the change under way is about
to remove, never exceed failures and crashes. A failed call adds one to both
sides; a list, a retry or wg-quick adds nothing to the left. The count holds while
the file is whole, since a truncated file makes every key an orphan.

**`PeerStartProofs`.** `StartInv` says that the interface and the handlers
hold real keys (`RealKeys`), that no request is served until the startup is over
(`MainAlone`), and that a client the table calls stopped is among those
`ApplyDisabledPeers` still has to go through or is off the interface
(`StoppedListed`). `SettingsKept` needs no invariant
beyond `IInv`: the lemmas of each action tell what it does to a row. These two hold
without `SerialWrites`.

`StoppedStayDead` needs changes that wait for one another, and three more facts
(`StoppedInv`), which hold as long as no call has failed. `StoppedOff`: the stopped
clients among the blocks, and among the blocks a removal is about to write back, are
off the interface, unless a Create or Start that let one in is about to write the row
(`Admitted`), and a Stop about to mark the row has taken the client off
(`TakenOff`). `MainSees`: the startup imports the file as it is, so that
the keys it takes off the interface are those of the blocks; this is what brings
`StoppedOff` back after a crash between device and table. `ConfigsComplete`: where
no client starts with an old config, `GetConfig` writes a row only for a client that
has none, and cannot bring back an older row, with its switch, over a newer one. Where
some do it can, if the Stop falls between its read and its write; `PROJECT.json` lists
that under the hazards.

**`PeerRegistryProofs`.** The refinement of the abstract registry, one lemma per
kind of call, over the invariant of `PeerSerialProofs`. The registered clients are
the blocks of the file, or, while a removal has truncated it, what the removal is
about to write; that there is at most one such removal is `OneWriter`, and from it
`RegisteredAre` says what the definition by `CHOOSE` stands for. An append is
`Register`, because what Create knows (`WriterKnows`) makes name and address free and
the key new; the truncation of a removal is `Unregister`, and the write that follows is
no step, because the copy it writes back is still the file of before; a call of the
interface is `Grant`, which needs the key to be a registered one, or `Withdraw`. A
failure or a crash is no step, but for a rewrite that is cut off after the
truncation: the whole file is gone and the abstract registry has no such step.
`ServesRegistry` names that one exception as `FileLost`, and `RegistryIsSafe` has
none.

**`CollectorProofs`.** `CInv` is `TypeOK` with `ControlOf` (what the loop has in
hand was sampled and read) and `SamplesGrow` (samples of one life of a counter
only grow). Without the last, what the observer adds could be negative.

That a total never goes down depends on the total in the table
agreeing with the baseline and the snapshot it will be computed from. `LInv`,
kept until the totals are cleared, says so for every client that is not `torn`
and not between its new baseline and its snapshot (`Settled`); that no total is
ahead of the month of the last sample (`Ahead`, `Dated`, `Sampled`), so that a new
month starts without one; and that what `collect` has read is still in the tables,
what it has written is what `computeMonthTraffic` returned (`Hand`). Two lemmas
on `MonthTraffic` do the rest: `TotalFromBaseline`, the new total is the new offset
and what the sample counts from the new baseline, and `TotalNotBelow`, a stored
total that agrees with the snapshot is not above the new one, with or without a
reset.

**`ObserverProofs`.** `NeverOvercharged` compares a total with what an observer of
the same samples has added up, and a slip (a cut between two writes, a failed query
taken for no traffic, a month without a sample) may raise the total once by what it
left behind, which `slack` keeps as credit. It is not inductive because the tables
hold more than the total: a reset makes the old snapshot part of the next one.
`OInv` therefore says that the total a client would get if its last sample were
collected again with the tables as they are (`Due`) is within observer and credit
(`DueCovered`), except while the client in hand is between two writes, where a cut
is what pays the credit (`Slipping`); that a client the tables know nothing of has
been added to the observer whole (`Newcomers`); that the first sample of a month has
no older baseline (`FirstBaseline`); and that the result in hand is covered
(`ResultCovered`). The arithmetic is in four lemmas: `LaterSample`, `SampleAfterReset`,
`FirstTotal` and `ResetTwice`.

`ResetsCountedOnce` is an action property about `Reanchor`, the only step that adds
what the last snapshot showed. `RInv` says what makes a reset new: the samples in hand
are the last ones (`Handed`), what was read of the tables is what they hold or was
cleared since (`Reading`), baseline and snapshot are of no later life of the counters
than the last sample (`RowsBehind`), and for a client whose baseline is of the present
life the snapshot is not above the counters (`Once`), so that `CountersDropped` does
not see a reset there. It needs no assumption about clearings: a cleared baseline is
none.

`ExactBetweenSamples` is an equation: `OInv` gives one half, the total is not above the
observer's, and `EInv` the other. For a client that hides nothing from the
tables, has left no slip and was cut off nowhere (`Clean`), a reset the snapshot
does not know of shows in the snapshot (`Detected`); one that it knows of the
baseline knows of too (`Anchored`); the total its last sample would give with the
tables as they are is not below the observer's (`DueEnough`); a month without a baseline
has nothing in it yet (`Unseen`); and the locals of `collect` are enough
(`InHandEnough`). Both bounds hold until something is cleared, which
`ExactBetweenSamples` asks for itself, so that the theorem has no hypothesis.

**`ViewsProofs`.** `ViewInv` adds to the three promises what the
list has read (`SeenRead`): a client stopped since the request began is stopped in
the rows it read, and each limit it read was a limit of that time. `TotalWithinRows`
compares a fold over the clients with the sum of the totals read later. That the fold
is what one expects is induction, which the provers cannot be given; it is shown by
the smallest exception instead. A sum over a finite set is a function on the
sets below it that adds one member at a time (`Adds`); two such functions agree,
or there would be a smallest set on which they do not. From this `SumBalanced`: if one
row with what was taken off it is never less than another, so are the sums. Each
statement keeps that balance (`WriteBalances`), row by row: what a row loses is what
`taken` gains.

**`TextProofs`.** `WellFormed` is not inductive, since it says nothing of what lies
between a marker and the next. `Formed` does: each marker has the key, the address
and the empty line of its block at fixed distances below it (`Whole`); there is no
key and no address line but in such a block (`Owned`), so that `ParseContent` finds
those two and no others (`ParsedPeerIs`); the keys grow down the file and are not above
the last one issued (`Ascending`); and the last line is ended if there is a client
(`Closed`). `TextInv` says
this of the file and of the copies in hand. The copy may be of any age, because a text
once formed stays so under later keys (`LaterForms`).

What a loop returns is again shown by the smallest exception: `Loops` is the fold that
`Remaining` stands for, and the first line after which it does not hold what
`LoopKnows` says would have a line before it. The result: the lines that `RemovePeer`
keeps are those of no block of the name, in their order (`Picks`, and `Cuts` once
`Trimmed` has made one of the empty lines at the end). From there `RemovedForms`: the
blocks that are left are whole, because a block is kept or dropped as one (`KeptBlock`,
`DroppedBlock`), the text stays formed, and `ParseContent` finds in it what `WithoutPeer`
leaves. `BlockMore` is the same for an append, `WrittenForms` for the layouts at the
start. `EditsAreOfBlocks` then takes one lemma per action. `OnlyTheBlock` follows
from `Cuts` and from `OwnerKept`, by which the loop drops a line of text where its
`Owner` is the client removed, and only there.

The invariant is `SplicedOrFormed`; the step that splices needs one more argument, for
`EditsAreOfBlocks`. The file is then the content of one removal joined to the end of
another formed text (`Joins`). A line of it comes from one or the other (`JoinLines`),
and so does a marker (`JoinMarkers`). The blocks of the end are read as they were
(`JoinLower`), those of the content but the last as they were (`JoinUpper`); the last
has the lines of the one block that is cut below it, and may take its address, or its
key with its address, or nothing (`CutLine`, `OneCut`, `JoinLast`). `SpliceParses` puts
this together: what `ParseContent` finds is one of `Splices`.

`HandedComplete` rests on `InjectedLines`, which says where the lines of a text go
in `injectJunkParams`; `ClientInv` adds that a stored configuration without the
parameters is still the original. That the lines of two texts are the same
(`SameLines`) is in both cases an order-preserving map between them (`Corresponding`).

Model-checked only: liveness (`EventuallyMirrored`, `EventuallySampled`, and in
`ImplementsRegistry` that a revoked key is shut out), which needs fairness and
`ENABLED` and is out of the prover's reach. The two properties of the violation runs
are false of the code.

## Findings

Two runs violate a property that states what a text of the repository says.

| run | text | what happens |
|---|---|---|
| `lost_interface` | comment of `RemovePeer`, wgconf.go:125: removes a client's block | of two overlapping Revokes one reads the truncated file, and the `[Interface]` section is lost |
| `new_month` | collector.go:172: a new month starts from its first counters | a reset between the samples around midnight charges the old month's bytes again |

Loosening the passing runs shows more of the kind, which `PROJECT.json` lists
under the hazards and which no text of the repository speaks of:

* without `SerialWrites` two Creates get one address (`BlocksDistinct`);
* with a failure of the device Revoke, a list and Revoke again leave a key that
  connects and that no answer can remove: the count in `RevokedIsDead`;
* Stop trusts the row; after a restart of the interface it answers well and leaves
  the client connected until the next start of the program;
* after a crash or a failure of `SetMonthlyTraffic` or `SaveUsageSnapshot` one
  reset is counted twice, and a client without a sample for a month is charged
  again for all its counters: `slack` in `NeverOvercharged` bounds both;
* after `-reset-month-traffic` the next sample puts back what the kernel's counters
  still show, because the month's new baseline starts from zero for a client the
  month before knows nothing of, or because the second statement did not run;
* a client's block at the end of `wg0.conf` without a final newline, or a `[Peer]`
  without a marker below it, breaks `WellFormed`;
* of two overlapping rewrites the shorter one that lands last keeps the end of the
  longer (`Splices`). A block that is cut there can have one client's name and
  another's key; the import then fails on the UNIQUE constraint, and List, Stop and
  Start with it. The properties that need whole blocks hold until that has happened.

## Not modelled

* Status codes, JSON, authentication and QR images of the API; `/server` and
  `/audit`, which only read. The page of the dashboard, except how often it lists.
* `internal/config`, read once at the start: a parser without state.
* Key generation: a key is a number that was never drawn before.
* `internal/devsetup` writes samples for a developer's machine.
* Overflow of the 64-bit counters and of limits in gigabytes.
* Graceful shutdown: a request that is cut off is a `Crash`.
* `SyncConf` and `EarliestSnapshotInMonth` are called by nothing.
* Keys and addresses that do not parse: the file is written by this program and by
  angristan's script, or has no client of the program yet.
* Edits by hand below the block of a client (see [Modules](#modules)), and what the
  program makes of a file after two rewrites have run into each other in it, beyond
  edits of whole blocks.

## Plan

Done: the peer service over its four stores with the abstract registry it
implements; the text of the configuration file with the set of blocks it
implements; client configs; the collector with `-reset-month-traffic`; the views;
and the proofs above. What would add most next, in this order:

1. `NobodyOvercharged` and `LedgerStaysTrue` without `MaxClears = 0`.
2. The collector over the peer service's file and interface in one model. The
   collector now sees the file as the set of clients and a truncated file as a
   failed parse; the composition would show Revoke and Create of one name between
   two samples call by call.

## How to run

```
tlc -workers 2 -config MCPeersSerial.cfg MCPeers
tlc -workers 2 -config MCRegistry.cfg PeerRefinement
tlc -workers 2 -config MCCollectorResets.cfg MCCollector
tlc -workers 2 -config MCWgconf.cfg MCWgconf
tlc -workers 2 -config MCViews.cfg MCViews
tlapm PeerStartProofs.tla
tlapm PeerRegistryProofs.tla
tlapm CollectorProofs.tla
tlapm ObserverProofs.tla
tlapm ViewsProofs.tla
tlapm TextProofs.tla
```

`PROJECT.json` holds the list of runs with their modules, the map from
definitions to lines of the code, the mutants, the findings, the hazards and the
theorems.
