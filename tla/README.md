# Formal models of WebNetLab

WebNetLab simulates SNMPv2c network devices. A FastAPI backend keeps devices,
networks, MIBs, OID values and topology links in PostgreSQL, runs one agent
container per device through the Docker API, and hands each agent its OID values
through a Redis hash and a pub/sub channel. This directory holds TLA+ models of
that system, the TLC runs that check them and the theorems TLAPS proves about
them. Paths below are relative to `src/webnetlab/backend/app/`; those that begin
with `agent/`, `frontend/` or `seeds/` to `src/webnetlab/`, and
`discover_topology.py` is in `src/`.

The repository has no tests. What makes this code hard is what no unit test
would reach: handlers that interleave at every `await`, three stores
(PostgreSQL, Redis, Docker) changed one after the other without a common
transaction, an agent with two threads, and pub/sub that forgets.

## The system

| Component | State it keeps | Operations | What makes it correct | Module |
|---|---|---|---|---|
| OID handlers and push (`routers/oids.py`, `services/oid_push_service.py`) | `oid_values` rows; Redis hash `device:{id}:oids` | upsert, bulk, seed, bulk-oids, delete; push, notify; list, export | Redis holds the committed numeric rows once nothing is in flight | OidPush |
| Agent cache (`agent/mib_store.py`) | `_cache` and its sorted lists, pub/sub subscription | load, reload on message, reconnect | the cache follows the hash; it holds nothing GETNEXT cannot order | MibStore |
| The two together | | | what is committed is what is served, soon | OidSync |
| SNMP engine (`agent/agent.py`) | none between packets | GET, GETNEXT, GETBULK | successors in numeric order, none skipped or repeated; one table per answer | AgentQuery |
| A station's walk (outside the repository) | where the walk is | ask, take, time out | complete, upwards, finite | SnmpWalk |
| Docker wrapper (`services/docker_service.py`) | containers, networks, attachments (in the daemon) | create, remove, attach, detach | | Docker |
| Device lifecycle (`routers/devices.py`) | `devices` rows, containers | create, bulk create, start, stop, restart, patch, delete | running agents and running rows are the same things; an agent answers to its row's community | Devices |
| Networks (`routers/networks.py`) | `networks` rows, Docker networks | create, delete | rows and Docker networks match; no running device loses its network | Devices |
| Topology (`routers/topology.py`, `services/topology_service.py`) | `topology_links` rows, link networks, attachments, link status in Redis | provision, tear down, sync | each link has its own network with both devices on it | Topology, OidPush |
| MIB library (`routers/mibs.py`, `services/mib_service.py`) | MIB files, sidecars, `mibs` and `device_mibs` rows, the rows that name a device | upload, assign, unassign; deleting a device | row, file and tree of a MIB agree; what compiled still would; a device can be deleted | MibLibrary |
| OID values (`routers/oids.py`, `agent/oid_resolver.py`, `services/walk_parser.py`) | the columns of one `oid_values` row, an exported file | write, seed, parse a walk, export, import; resolve, encode | a copy answers as its original, a walked value as it was printed | OidValues |
| Discovery script (`discover_topology.py`) | one shell, the answers so far | log in through telnet, run show commands, give up | each device's entry holds its own output; the script ends | Discovery |
| Frontend, migrations, deployment, seed script | view state, schema | calls the API | | not modelled |

How they interact: a request handler reads and commits rows, then calls Docker
synchronously or Redis asynchronously; every `await` lets other handlers run.
After writing a device's hash the OID handlers publish on
`device:{id}:updates`; start, restart, create and the link sync write the hash
and publish nothing. The agent's listener thread reloads the whole hash on a
message while its dispatcher thread answers packets. Device handlers replace
containers by name; link handlers attach those containers to further networks,
through the container id they read from the row.

## Modules

**OidPush** (one device). Variables: `db` and `redis` map each OID to a row, a
function of its columns, or `Absent`; per request `pc`, `kind`, the OIDs it
`touched`, the columns its payload sets (`val`), what it has read (`seen`) and
what the session's records hold of it (`loaded`), the record its session still
references (`held`) and the snapshot `snap` its push selected. `Commit` does what
SQLAlchemy does: an INSERT writes the whole record, an UPDATE the columns that
differ from what was loaded at the lookup (`Changed`), so a record read before
another request's commit and set back to what it held leaves PostgreSQL at the
other request's value while the session goes on holding its own. Each action is the code between two awaits:
`Lookup` one SELECT of `_get_oid_record`, `Commit` / `CommitConflict` the
transaction and its failure on `uq_device_oid`, `Refresh` `db.refresh`,
`PushSelect` and `PushExec` the SELECT and the MULTI/EXEC of
`push_device_oids`, `HDel`, `Notify`, `SyncInterfaces` and `LinkCommit` the
link status, `Abort` any awaited call raising. That sessions keep stale
attribute values (`expire_on_commit=False`, and only the last record of a loop
stays in the identity map) is modelled: `Stale`. `dirty` and `overlap` are
history: which fields were written from reads that another handler's commit
overtook, after this handler's commit or before it.
Create and bulk create of a device push an empty set of rows before their commit
and need no action of their own.

**MibStore** (one agent). `phase` is where the loading thread is, `inbox` the
messages in its socket. `HGetAll` and `Swap` are the two halves of `_load_all`,
`Subscribe`, `Message` and `ConnectionLost` the listener. The backend is
abstract: any handler may rewrite the hash and publish in a later step, and some
publish nothing. This is the abstract specification the pipeline implements.

**OidSync** composes the two around one hash: each handler step with its effect
on the agent, or an agent step alone. The property `AgentSpec` is the refinement
mapping `INSTANCE MibStore WITH hash <- redis, owed <- handlers at "notify"`.

**AgentQuery**. One PDU at a time, var-bind by var-bind: `Receive`, then
`Probe` (GET looks twice), `Successor` / `EndOfMib` (`next_oid` on the list taken
once), `ReadOnce` / `ReadBulk` (each value under the lock again), `EndColumn`
(the two GETBULK limits), `Reply`. The cache may be replaced between any two of
them. OIDs are numbers: only their order matters to `bisect_right`. A payload
resolves and encodes (`Good`), raises in `_encode_value` (`Bad`), or passes there
and is refused by the BER encoder when the response is sent (`Mute`: an `oid` of
one arc), as is the name of an OID of one arc (`Unnamed`). GET looks up the
string `tuple_to_oid` gives, so it does not find an OID stored under another
spelling (`Respelt`: a leading dot), which GETNEXT does; an OID is taken to be
stored under one spelling. `bytes` is the estimate of `_handle_getbulk`, the
length of the key and 20 for each value; the history variable `size` is what
those var-binds take. Var-binds of `endOfMibView`, at most one a column, are in
neither.

**SnmpWalk** extends it with a management station that asks for the successor of
the last OID it was given, loses packets, times out and retries. The station is
external; it is the standard walk, stopping at any exception value.

**Docker** gives each helper of `docker_service.py` as an operator from a daemon
state to its outcomes, with what the daemon refuses: a subnet in use, a removal
of a network with endpoints, an address in use, a container or network that is
gone, a second attachment. `BrokenCreates` lists where `create_device_container`
can stop half way.

**Devices**. Rows, the daemon, and per request the coroutine's locals. A container
carries the community it was created with; `patched` is the row's, written by
PATCH without a word to the agent, and `behind` (history) the devices whose agent
was started from a row a PATCH has overtaken. Docker
calls are synchronous, so those between two awaits share one step. The unique
keys and foreign keys are guards; a row lock is a guard that waits. `failed`,
`raced` and `lost` are history: devices and networks of requests that failed
with work done in Docker, and devices on which a start met a delete or a start.
A later start or restart of a device takes it out of `failed`; a stop or a
delete does not, because create may have left a container the row never named.

**Topology** extends Devices with the link handlers and `_allocate_link_subnet`.
`Wiring` is the synchronous middle of `provision_link`: network, first
attachment, second attachment, each of which may be refused with the earlier ones
done. `UnwireLink` is that of `teardown_link`: the daemon may fail at either
detach, which swallows it, or at the removal, which raises. `strays`, `halved`,
`unplugged`, `shared`, `rewired` and `freed` are history.

**OidValues** (one OID of one device, as data). The other modules keep a value
opaque; this one follows it from a request body or a line of a walk through the
row's six columns, the payload the push makes of them (`Pushed`),
`resolve_oid_value` (`Resolutions`, a set for random and scripted values) and
`_encode_value` (`Encoded`) to the ASN.1 value, `noSuchObject`, or a response
that cannot be sent (`Dropped`). A text is known by what conversions make of it:
a number, a word that holds one, ticks, an address, an OID. Each action is one
request with its push; their interleaving is OidPush's. `WalkLines` are the lines
net-snmp prints, each with the value it was printed for: numbers alone, with an
enumeration's name or with units; strings that are empty (`STRING: ` and `""`),
have quotes or blanks at an end, or go on in further lines, which the parser
drops; hexadecimal, BITS, OIDs, addresses; a tag the map lacks (`Opaque`), one of
two words (`Network Address`, `Wrong Type (should be ...)`), and no value at all.
`Tagged`, `Matches` and `Kept` are what `_LINE_RE` makes of them: a tag that
nothing follows, or that is not one word, is read as the value.

**MibLibrary**. The files and sidecars of `MIB_STORE`, the rows of `mibs` and
`device_mibs`. `Upload` writes the file, compiles it with all it imports
(`Modules`) and writes the sidecar, with no await between; `SelectMib` and
`CommitMib` are the row's two awaits. `DeleteValues`, `DeleteAssigned`,
`FlushDevice` and `CommitDelete` are the database's side of deleting a device, one
step for each await after the container is removed, against the MIB assignments,
OID values (`PutOid`, `DeleteOid`) and links (`Link`, `Unlink`) committed meanwhile:
the flush loads what names the device by then, deletes the assignments with it,
and fails on a value or a link, whose `device_id` may not be NULL; the foreign
keys refuse what comes later still. A database failure after the container's
removal (`Abort`) leaves it removed too. `met`, `unsure`, `spoiled`, `crossed`,
`tied`, `failed` and `stripped` are history.

**Discovery**. `typed` and `out` are the two directions of one SSH shell. The far
end (jump host, telnet, logins) is external and reads a line at a time; the
script's `Sends` types the next line, `Receives` takes any prefix of what is
there and ends at a prompt, `Expires` is the deadline, at which the script goes
on with what it has. `Ending` gives each receive its own list: the drain in
`main` and the receive after `quit` wait for the jump host's prompt, `$ `, `# ` or
`> ` (`AtHost`), which only a "loud" device's output holds. Nothing in the stream
says which command an answer is for: that is what the properties are about.

## Runs

Passing runs, with their bounds:

| Run | Instance | Shows |
|---|---|---|
| OidPush_concurrent | 2 handlers, 3 requests, an interface OID and a symbolic one, rows of 2 columns, set or not, failures on | Redis never holds a symbolic OID, and differs from the committed rows only where a handler still has its write to make, or reads were overtaken (also between the lookup and a commit that left columns unwritten), a link sync wrote, or an await failed |
| MibStore_cache | 2 writers, 2 keys, 2 payloads, faults on | `StaleOnlyIfTold`: an agent behind Redis is loading, has a message, or is owed one, or missed an unannounced change. `Converges`: with nothing unannounced the cache becomes the hash for good |
| OidSync_pipeline | 2 handlers, 3 requests, 1 OID, 1 column, set or not, faults on | end to end: a drained system serves the committed row unless a push was overtaken or a change unannounced; `SettlesOnCommitted`, its liveness; `AgentSpec`, the refinement |
| AgentQuery_pdus | 2 OIDs, one of them respelt, a value within the allowance and one beyond it, 2 var-binds, 2 repetitions, a budget of 31 | no OID skipped or repeated; an undisturbed PDU shows one table and is dropped only for what cannot be encoded; the estimate passes the budget by less than a var-bind, or by the non-repeaters, and covers what is sent if no value is long |
| SnmpWalk_walk | 3 OIDs, one of them unnamed, 2 tries, 2 reloads | every OID with a value throughout is reached, in order, and the walk ends; undisturbed it is exact up to the first value that does not resolve |
| Devices_concurrent | 3 handlers, 4 requests, 1 lab network, 1 device and 2 addresses, 1 failure | network rows and Docker networks, running rows and agents part only as the histories say; the network under a running device stays; an agent answers to its row's community unless a PATCH came after its start read the row |
| Topology_concurrent | 2 handlers, 4 requests, 2 devices, self links, 1 failure | links keep their devices; their networks and wiring are lost, and networks leaked, only as the histories say; a subnet block is taken only after a delete, a failure or a concurrent creation |
| OidValues_copies | every sequence of 5 requests over 2 numbers, 2 types a client sends, 2 texts, a random config and a script | a device seeded from an export answers as the exported one did, and a walked value as it was printed where its line holds it whole (`Plain`), and with its ASN.1 class but for `OtherClass`; no walk stores a value that loses a response |
| MibLibrary_uploads | 2 requests at a time, 4 in all, 2 MIBs of which one imports the other, 3 file names, contents that compile, do not, or define no OID, OID values and a link of the device, 1 failure | one row a MIB, three copies that agree, imports that still compile, and a device that can be deleted, each except after what the histories name |
| Discovery_poll | 2 devices of every one of 7 behaviours, 2 show commands, a far end that answers, answers late or falls silent for good | an answering device's entry is exactly its own output if no receive gave up early, no entry holds another device's if at most one did and no device before it is loud, and every device gets an entry whatever the far end does |

Each invariant names its exceptions, and every exception is one the code really
meets. Two runs exhibit statements of the repository that it refutes:

| Run | Shows |
|---|---|
| OidPush_stale_push | two overlapping PUTs leave the older row in Redis, both having answered 200 |
| OidValues_clone | a walked OID exported and given to the bulk endpoint of another device is answered with an empty string (0 where its type is numeric) |

Seen while modelling, and covered by the exceptions of the passing runs:

- a message published between the agent's first load and its SUBSCRIBE is lost,
  and the cache stays behind until the next one (`silent`, `StaleOnlyIfTold`);
- the link status in Redis is deleted by the device's next push (`dirty` in
  OidPush) and never announced to a running agent (`silent` in OidSync);
- of two overlapping edits of one row each writes only the columns it changed:
  the row mixes them, or keeps the other's value, while the slower one's push
  copies its own record (`overlap` before the commit);
- POST seed and POST bulk-oids store symbolic OIDs, which only the push filters
  (`CHANGELOG.md:61` says the API filters them);
- a reload under a GETBULK puts `None` where an OID belongs, and the packet is
  dropped (`agent/agent.py:341`);
- the GETBULK limit of `agent/agent.py:27-30` and `320-323` is not kept: the
  estimate allows 20 octets for a value of any length (`agent/agent.py:357-358`),
  is compared before a var-bind is added, and never for non-repeaters;
  `BudgetRespected` says what it does bound, for values of at most 20 octets;
- a stored `oid` of one arc, or an OID of one arc, passes `_encode_value` and
  fails in `encoder.encode` (`agent/agent.py:254-256`): no response is sent, and a
  walk gives up there;
- an OID stored with a leading dot is found by GETNEXT and not by GET
  (`agent/agent.py:280`);
- a start overlapping a delete leaves an agent that no row names (`raced`);
- a PATCHed community reaches the agent only with its next start (`behind`);
- a failed item of a bulk create leaves earlier items' agents on their addresses
  (`failed`); a failed attachment leaves a link network that takes the next
  block and blocks a retry (`strays`);
- deleting a link that is not the newest makes the next creation ask for a block
  in use (`freed`);
- restart, and stop with start, take a device off its link networks (`rewired`);
- two links of one pair share a network, and removing one unwires the other
  (`shared`);
- a teardown whose `remove_docker_network` raises keeps the link's row and its
  network, with one container or both taken off (`unplugged`);
- the export has one value for two columns and prefers the static one, so an OID
  written statically and then walked is exported with the value it does not
  answer (`OneWay`);
- of a walk (`Plain`, `OtherClass`), a Counter64 of more than 32 bits is answered
  with noSuchObject; an enumerated integer such as `up(1)` and a number with units
  (`5 seconds`) with 0; an OID, BITS or hexadecimal as the text; `STRING: ` without
  a value as `STRING:`, a string of several lines by its first, one with quotes
  at an end without them; `Network Address: ...` whole, as a string, though
  `_TYPE_MAP` (`services/walk_parser.py:346`) has an entry for that tag, which the
  regular expression can never yield; and "No Such Object" lines are stored as
  strings. An OID of one arc can be stored and loses the whole response when it is
  encoded;
- a walk of an agent whose MIBs are not loaded (`iso.3.6.1...`), or with quoted
  indices, matches no line and is dropped without a word (`Matches`);
- a refused upload leaves its file, and MIBs that import it stop compiling
  (`spoiled`); two file names of one MIB share its sidecar and its row
  (`Alone`); overlapping uploads of one MIB make two rows (`met`);
- a device that a link names cannot be deleted, but the attempt removes its
  container (`tied`); so does one that a MIB assignment, an OID value or a new link
  crosses (`crossed`), or that the database fails under (`failed`);
- with three show commands and two receives that give up early, Discovery does
  record one device's output under another's name: the bound of one in `NoMixUp`
  is not slack. So it does with five show commands, as the program has, one such
  receive (the one after telnet) and a device whose output holds `# `, at which the
  receive after `quit` ends before the jump host is back: the precondition on
  "loud" devices. `exit` after a telnet that was refused logs out of the jump host
  and every later device gets an error. The answer to `quit` is left
  for the next device's receive, as the `uit: command not found` at the head of
  each banner in the recorded `topology_raw.json` shows.

Noticed while reading, and outside the models:

- `frontend/src/api/oids.ts:43` sends a PUT without `oid`, which the schema
  requires (422); a PUT without `value_type` resets the type to `string`; the
  OID in the path and the one in the body may differ (`routers/oids.py:56`);
- `seeds/sacramento_import.py:231` takes a 409 for a network that exists, but the
  server answers 500 (no handler for the unique key), so a second run stops
  there.

### Why the bounds are enough

Two handlers suffice for a lost update, and the third in Devices lets a creation,
a deletion and a network request meet. One device, or two for links, is enough
because handlers of different devices share only the daemon and the address and
name keys, which the instances do share. Three or four requests allow one to
prepare a state and two to race in it. Two OIDs, one numeric and one not, give a
bulk request the record it still references and one it does not; two columns
let two edits of one row meet in different columns, and a column is set or not. In AgentQuery two var-binds
are a non-repeater and a repeater or two repeaters; with keys of 10 and 15
characters, 31 is a budget that one value does not reach, two pass, and two
non-repeaters pass by more than a var-bind; `MaxRep + 1` shows the cap. One failure is
enough to break any one request; the theorems have no bounds on
requests, OIDs, values, handlers or writers. In OidValues five requests are the
shortest way to write an OID twice, export it, import it, and write it again;
`Max32` is 3, so that 5 is the number that does not fit. In MibLibrary two names
make a dependency and two file names of one MIB a collision; of two OIDs one is
deleted with the device and the other written meanwhile. In Discovery the
second device is the one that can be given the first one's output. `MaxLate` bounds
the far end and never the script: once more than `MaxLate` receives have given up
with an answer to come, nothing more is read, and the deadlines go on passing. The
run has it at 1, as `NoMixUp` asks; with 2 (10.9 million states, six minutes) all
three properties hold as well. The receive after `quit` ending at a device's `# `
does no harm with two show commands, which leave too little behind; the
theorem, which is for any number of them, needs the precondition.

`CHECK_DEADLOCK FALSE` is set where the bound on requests or tries lets a
behaviour run out of steps.

### Fairness

- `WF(handler step)` per request in OidSync: asyncio resumes every coroutine
  whose awaited call has returned; a call that does not return raises, which is
  `Abort`.
- `WF(Listener)` in MibStore and `WF(AgentStep)` in OidSync: the listener is an
  OS thread, and Redis answers it.
- `WF(AgentStep)`, `WF(Ask)`, `WF(Take \/ Expire)` in SnmpWalk: the dispatcher
  loop serves each packet, the station's timer fires.
- `WF(Sends)`, `WF(Expires)` in Discovery: the script runs and its deadlines pass
  (`recv_until` compares a clock). Nothing is assumed of the far end, which may
  never read a line, nor of what it has written ever arriving.

No fairness is assumed of faults, of restarts or of new requests, and none is
strong.

## Proofs

TLAPS checks these for every value of the constants:

**OidSyncProofs**, the handlers. `BackTypeCorrect`, `RedisAlwaysNumeric` and
`DivergenceAlwaysExplained` say that `BackTypeOK`, `RedisKeysNumeric` and
`DivergenceExplained` hold always, for any number of handlers, OIDs and
requests. `DivergenceExplained` is not inductive: a push writes what a snapshot
holds, so one must know that a snapshot nobody overtook is current
(`SnapCurrent`); the snapshot takes over what a session holds, so that must be
current as well (`HeldCurrent`, `HeldTouched`); and a delete's HDEL is right
only while the row is gone (`RemovedGone`). `BackInv` is their conjunction. The
proof has one lemma per action; most steps change only what one request holds,
and one lemma (`LocalStep`) settles the invariant for all of those.

**MibStoreProofs.** `StoreTypeCorrect`, `CacheAlwaysSortable` and
`StaleAlwaysTold`. The induction needs that the value fetched by a load in
progress equals the hash unless a message, an owed announcement or `silent`
says otherwise, which `View` expresses by standing for `fetched` between the two
halves of a load.

**OidSyncProofs**, the composition. The pipeline implements MibStore step by step
(`PipelineImplementsMibStore`): `BackendRefined` says that its backend half is
OidPush, so that module's invariants hold in it, and every handler step is then
shown to be a step of MibStore's backend with the handlers at "notify" as the
announcements owed. `AlwaysServesCommitted` combines the two sides:
`DivergenceExplained` says where Redis may differ from the rows, and the instance
of MibStoreProofs says when the agent may differ from Redis; in quiet neither
leaves anything else.

**SnmpWalkProofs**, the engine. `NoOidEverSkipped`, `UntornAlwaysConsistent` and
`BudgetAlwaysRespected`, for any table, PDU, caps, and any swap of the cache
between two reads. The first needs to know where each column stands: the cursor
is the last OID answered in the column (`AtCursor`), the target in hand is the
first one after it (`TargetFirst`), and the answers so far satisfy the property
(`ColumnsSoFar`). The second needs that no swap means the list and the table are
of one load (`OneTable`, `GetInHand`), and that a response is dropped for one of
its answers (`DropExplained`); the third follows the estimate from column to
column (`WithinBudget`): a repeater has a target only below the budget, and
before the n-th non-repeater there are n - 1 var-binds.

**SnmpWalkProofs**, the walk. `WalkAlwaysComplete` and `WalkAlwaysAdvances`. A response is
complete for the OIDs that have had a value all along (`Covers`, `EndCovers`),
from the OID asked for to the last one answered; the station takes a prefix of
it, and takes it in one step, so that no induction over its length is needed.
`SteadyStored` says those OIDs are in every list the agent has.
`UndisturbedAlwaysExact`: while the cache is the one the walk began with, the
station has taken exactly the resolvable OIDs up to where it stands
(`ExactTable`), and an answer on its way, late or repeated ones included,
continues any such walk (`ExactAnswer`); an answer in the making holds a target
that is in the list it was chosen from (`TargetRead`).

**MibLibraryProofs.** `NamesAlwaysUnique`: an upload that found no row commits
the second one only if another's commit fell between, which `met` records
(`OverlapSeen`, `NoRowYet`). `StrippedAlwaysExplained`: unless something crossed
it, a delete past its first statements has deleted every value, met no link, and
deletes or loads every assignment (`SeesAll`); what it deletes is its own
(`OwnPairs`), so two deletes do not disturb each other, and a device that another
delete took is named by nothing (`KeysHold`, the foreign keys).
For the rest, each step is first reduced to what it does to files, sidecars, rows
and uploads (`LibStep`). `FileInv`: a row's file is in the library and has the
row's name (`RowsFiled`), which an UPDATE by id keeps because ids are never
shared (`IdsOwn`: the largest is the number of rows) and an upload's row is one
of its MIB (`RowsRead`). `StillAlwaysCompiles`: a name with one file, not in
`spoiled`, has a file that compiles and whose direct imports are there
(`SoundInv`); an upload to another name cannot break that, as files are never
removed. That this goes on to the imports of imports needs no induction:
`ModulesLeast` shows that `Modules` is the least closed set, and the names of it
that are present are closed. `CopiesAlwaysAgree`: an upload that nobody joined
is the only one of its name, its text is in the sidecar, and no other upload has
touched its row (`AloneInv`); one that was joined is in `unsure` (`JoinedSeen`);
so the last commit leaves what `RowsFresh` says. `LibAlwaysTyped`: rows and
uploads at work together are at most the requests so far (`Counted`). These
invariants were model-checked on `MibLibrary_uploads` (1636235 states) first.

**OidValuesProofs.** `WalkAlwaysReproduced` and `WalkAlwaysAnswered`, for any
numbers, texts and configurations. `WalkLinesAre` lists the kinds of line,
`LineFaithful` follows each through the regular expression (`KeptOf`,
`KeptWhole`), the type map, the coercion and the encoder; `ValuesInv` says that the row
goes on holding the line's value and type through the requests, and that an
export taken of it does (`FileKept`). An import puts the value back because the
other column is empty: `StaticKnown`. `ReimportAlwaysFaithful` goes from the ways
a row was written in to what its two text columns hold (`ColumnsKnown`), and from
there, mode by mode, to an export that answers alike once imported. `ValuesTypeCorrect`
rests on the modes a row may get (`ModesKept`) and on what a mode can answer
(`AnswersType`).

**DevicesProofs.** All five invariants of `Devices_concurrent` and its type
invariant, for any number of handlers, requests, devices, networks and failures,
and for any bound on them. They build on one another:

- `DevicesTypeCorrect`. What the daemon's helpers keep (`DockerOK`) is settled
  first: an id names one container, and attachments end in what is there. A
  start that commits has made one row (`StartsMake`).
- `NetworksAlwaysExplained` holds over all handlers of devices and networks. The
  danger is a row removed for the network of another, since requests carry a name
  and an id across awaits; so the invariant says that an id stands for one name for
  ever, in the daemon, in the rows and in the hands of requests (`IdsKnown`, over
  `KnownAs`), that a name has one row (`NamesOnce`), that what a delete is about to
  forget is gone from the daemon (`DroppedGone`), and that what a create is about
  to commit is there or was removed by a request on record (`MadeThere`).
- `RunningAlwaysHasNetwork` (`PlugInv`). The row of a running container names
  the network the container is attached to (`RowsPlugged`). A network row goes
  only after its network, which the daemon refuses to remove while it has
  endpoints; and a start whose row lost its network since it was read will find
  that network gone and fail (`NetsRead`), so it cannot run a container whose
  row names none.
- `AgentsAlwaysOwned` and `RunningAlwaysBacked` (`LifeInv`, over `IdInv`). A
  container belongs to the one device whose row, or whose request, carries its
  id: ids are never given twice (`CtrsKnown`, `RowsKnown`), what a create or a
  start has made is in nobody else's hands (`CreatesOwn`, `StartsOwn`), and two
  requests that could replace each other's container are in `raced`
  (`RacesSeen`). From there: what a start has made runs and is alone when it
  commits (`StartsRun`), a stop that found the row stopped does not touch the
  container of a row that has been started since (`StopsSee`), and a delete has
  removed the container of the row it deletes (`DeletesSee`).
- `CommunityAlwaysServed` (`CommInv`). A start holds the row's community, or a
  PATCH has marked it (`StartsRead`); what it makes serves what it read
  (`MadeServed`); so a row is served or its device is in `patched`
  (`RowsServed`).

Each of these invariants was model-checked on the instance of
`Devices_concurrent` and on a larger one before it was proved.

**TopologyProofs.** `_allocate_link_subnet` for every index: blocks of
different indices below 8192 are disjoint (`BlocksDisjoint`), lie in the pool
(`BlockInPool`) and hold their ends (`EndsInBlock`); index 8192 wraps to the
first block (`BlocksWrap`). `TakenBlocksAlwaysExplained` turns that into what the
code promises: the count alone picks a free block. Until a link is deleted links
only grow in number, so every link network has the block of an index below that
number, or of the number itself while its creation has yet to commit or once it
was left behind (`BlocksCounted`, `LinksCounted`). A refusal by the daemon then
means a deleted link, a stray, a race of two creations, a lab network in the
block, or an index of 8192 and more. `LinksAlwaysHaveDevices`
holds over all handlers of links, devices and networks: only a delete takes an
id out of `devices`, it waits for inserted links and is refused for committed
ones, and a link about to be committed has both devices (`InsertsHaveDevices`).
`StraysAlwaysExplained` holds over all handlers. A network would leak if the row
that names it went while it stayed; so the invariant says that a link id names
one network among rows and teardowns and that a creation has its id to itself
(`SameNet`, `OwnId`), that a teardown about to delete rows has seen its network
removed (`InHandOK`), and that a provisioning adds at most its own network,
wherever it stops (`WiringAdds`).
`DevicesWithLinks` carries the theorems about devices over to the specification
with links: links share the daemon with devices, so each layer of DevicesProofs
is kept by the link handlers too, which needs that nothing a device or a network
request holds is a link's network (`LinksNamed`, `LabsRead`).
`LinksAlwaysHaveNetwork` (`HeldInv`): a link's network is removed by a teardown
only, which has that link's row to delete (`UnlinksRowed`), and two links or
creations of one network have left it in `shared` (`SharedSeen`); so what a row
or a creation carries is there (`NetsHeld`). `LinksAlwaysWired` (`WiredInv`):
what a creation attached are the containers its rows named when it read them
(`EndsRead`); a teardown that stops before its commit leaves the network, and the
wiring as well unless it is in `unplugged` (`UnwireLinkEffect`); whatever removes a container puts its device in `rewired`, so a
row not in it still names the container it had then (`RowsKept`,
`StartsRewire`), and the containers that the rows name now are attached
(`EndsWired`).

**DiscoveryProofs.** `AnswersAlwaysOwn`, for any number of devices, show commands
and receives that may give up. The script and the stream are in step as long as
no receive has given up early and every device so far answers (`InStep`), and
`Stage` says for each step where the far end is and what is on its way. At login
and at a show command there is one command and one answer: nothing is under way
when a line is sent (`Idle`), and then either the line waits to be read (`Asked`)
or its answer, and nothing else, is in the stream and the text received so far
(`Answered`). So a receive that ends at a prompt has taken the answer whole.
A device whose output holds a prompt character is out of step, and need not be in
step: its lines are read in order, exit and `^]` quit after them, and so the
jump host's shell comes back before the next device (`Staying`, `Gone`), with only
prompts of its own left (`Rested`), none of which ends the receive after telnet
(`Dialing`). `GotRight` and `DoneRight` say what that means for the entries.
A receive that gives up with nothing on its way can, in step, only be one between
two devices (`QuietIs`).
`NeverMixesUp`, for any number of devices and while at most one receive has given
up early, asks of a device's behaviour only that no device before it is loud
(`Clear`): then what ends a receive after `quit` was written by the jump host or
by telnet. It has to say where in the stream one device's output
ends and the next one's begins. Each piece is known by its writer (`Voices`: a
refusing device writes password prompts only, a silent or a dead one nothing),
and `Apart` says that the stream is in one of three states.
*Lost*: nobody but the jump host's shell will write again, because it is closed or
will read an `exit` before any telnet. *Alone*: what is left in the stream is the
device's and then the shell's (`HostPart`), and once the script has left the
device, an `exit` if it is still there and the `quit`s are all that is typed
(`Leaves`). *Arriving*: the login is not over and output of the device before may
be in front (`Behind`), but then a receive gave up, and the step is still one
whose answer is not recorded (`InTurn`); the device's telnet line is typed but not
read (`Underway`), will have no answer (`Unanswered`), or has had its login prompt
(`Greets`), behind which there is `HostPart` again. The receive that takes that
prompt leads from *Arriving* to *Alone*. Before the first show command some receive
has to. What the device before left behind are the password prompts of a refusing
one, which end the receives before the second password's and not that one, or the
privileged prompts of an answering one, which do not end the receive after telnet
(`LeavingMarks`). The shell's own prompts end none at telnet and none at enable
(`TurnPasses`). A receive of the login that gives up with something left behind is
the second to do so. The marks of an answering device come from the first theorem:
if no receive has given up, the device is in step even when devices before it were
not, or else the stream is *Lost* (`Attends`); so the lemmas about `Stage` ask only
that the device answers (`Attended`). With `Open` (what a receive has so far does
not end it), `Heard` and `Done` (what is received and recorded is the device's or
the shell's) these are inductive. TLC checked them on small instances before they
were proved.

They rest on the assumptions named in the modules (`OidPushAssumption`,
`MibStoreAssumption`, ...), which TLC evaluates for every instance: absent
values differ from values (`NoneAssumption`: no row is `None`), numeric OIDs are
OIDs, and the show commands of the discovery script are distinct and none of them
is a step of its login (`DiscoveryAssumption`; the source sends each once and records
it under a key of its own). `NamesAssumption` is a real one: no client names a network the way
`provision_link` names those of links (`wnetlab-link-...`). The code does not
check that.

Only model-checked: every liveness property, since fairness and ENABLED are out of
the prover's reach. Every invariant of a passing run is stated by a theorem. The
theorems about MibLibrary, OidValues and AgentQuery say nothing of the recursive
definitions' own computation over unbounded data.

## Abstractions

- A value is a model value; random and scripted values are payloads like others.
- Redis executes a MULTI/EXEC atomically and answers HGETALL atomically.
- PostgreSQL at READ COMMITTED: a SELECT sees committed rows, UPDATE and DELETE
  act on the current row, unique and foreign keys are enforced.
- A device row is read in one step, though the code loads its network in a
  second SELECT; both happen before the first Docker call.
- `stop_and_remove_container` is one step that does not fail: a `stop` that
  succeeds with a `remove` that raises (`docker_service.py:191-195`) leaves a
  stopped container under a row that says `running`, as any failure between the
  removal and the commit does (`failed`).
- Containers do not crash by themselves. They are created without a restart
  policy, so a crashed agent stays down with its row still `running`.
- Requests that validation refuses are not modelled. Every client subnet is
  eight addresses wide and kept apart from 172.20.0.0/16 by the MC modules: an
  overlap is a hazard (listed) the code does not handle.
- The query counter, audit rows and statistics are never read by the modelled
  code.

- A script is an oracle that yields one of a set of values or raises; how
  RestrictedPython confines it is not modelled.
- pysmi, and the extraction of the OID tree from its output, are two questions:
  does a content compile with what it imports, and does it define an OID, which is
  asked of the uploaded MIB only. Of the requests that write OID values and links,
  MibLibrary has the commit that adds or takes the row; OidPush and Topology model
  the handlers. pysmi reads a module by name, so
  of two files with one stem it may read either.
- The walk parser's table of MIB names and pysnmp's resolver are one question:
  does the name in front of a value resolve.
- In Discovery a piece of output is known by who wrote it, in answer to what, and
  which prompts it holds. Sizes and times are left out: a receive may
  get any prefix of what has been written.

Not modelled, and why: the probing of host interfaces
(`docker_service.py` 246-629) reads `/proc` and `/sys` only; the conflict of a
published host port is a refusal like others of `create`; the frontend and the
seed script are clients of the API, whose requests are among those of the
modules; the migrations and the deployment scripts run before the program; the
dashboard reads rows and a counter, and audit rows are never read back.

## Plan

1. Done: OidPush, MibStore, OidSync with proofs; AgentQuery, SnmpWalk; Docker,
   Devices, Topology; the subnet theorems.
2. Done: OidValues, MibLibrary, Discovery; PATCH and the community a running
   agent answers to.
3. Done: the proofs above for the agent, the walk, the pipeline, values, MIBs,
   devices, networks, links and the discovery script (both of its invariants).
