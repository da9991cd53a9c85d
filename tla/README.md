# TorrentEdge: a TLA+ model and its proofs

TorrentEdge is a BitTorrent client built as a small distributed system. A
control plane (Express, PostgreSQL) turns API requests into directives on a
Kafka topic; worker processes consume them, take a Redis lease per transfer and
run a torrent engine; a sweeper puts transfers whose lease has gone back on the
topic. This directory models the parts of `src/` where order, time and failure
decide whether the system is right, checks them with TLC, and proves the
main properties of eighteen of the modules with TLAPS, every safety invariant the
runs check among them.

    tlc -workers 2 -config MC_Lease.cfg MC_Lease.tla      # a run
    tlapm LeaseProofs.tla                                 # the proofs of a component

`PROJECT.json` lists the components, the runs, the source lines every
definition stands for, one mutation per property that the property catches, the
hazards the properties are for, the findings and the theorems.

## 1. The system and its parts

Paths are below `src/src/server/`.

| Part | State | Operations | Talks to | What makes it right |
|---|---|---|---|---|
| Lease manager `torrentEngine/leaseManager.js` | two Redis keys per transfer, each with a TTL | acquire, renew, bulk renew, release, validate (Lua scripts) | Redis; called by the worker | one owner; whoever is told it owns a lease does so for the TTL; silent owners lose it |
| Worker `torrentEngine/workerConsumer.js` | directive being handled, heartbeat timer | handlers of JOB_ASSIGNED / PAUSED / RESUMED, renewal every 10 s | Kafka, lease manager, its own engine | at-least-once handling; no download without a lease for long |
| Sweeper `torrentEngine/leaseSweeper.js` | rows and leases it has read | scan, requeue, dispatch | rows, Redis, dispatcher | rows without a lease are noticed, live ones are left alone |
| Dispatcher `torrentEngine/dispatcher.js` | none | send, or execute locally when the send fails | Kafka, engine | one execution per directive |
| Transfer API `controllers/torrentController.js` | rows of `transfers` | create, start, pause, resume, delete | dispatcher, local engine, rows | status and execution agree |
| Engine `torrentEngine/engine.js`, torrent `torrent.js` | map of torrents, each with a state | add, remove, start, pause, resume, shutdown | queue manager, state manager | |
| Queue manager `torrentEngine/queueManager.js` | active, paused, completed maps, sorted queue, limit | add, remove, start, pause, priorities, moves, completion | torrents (calls, events) | one place per torrent; the limit; slots passed on; best first |
| State manager `torrentEngine/stateManager.js` | state in memory, dirty flag, main/temp/backup files | updates, save with rotation, load with recovery | file system; called by the engine | a saved state survives a crash anywhere |
| Torrent `torrent.js` | state, current download manager, intervals | start, stop, pause, resume, seeding limits, announces | all below | nothing of a stopped torrent works on; it leaves its passing states |
| Download manager `downloadManager.js`, `piece.js` | active pieces, pending requests, completed pieces | block arrival, verification, write, timeouts, chokes | peers, file writer | late answers touch nothing that is done; offered pieces arrive; completion is told |
| Upload manager `uploadManager.js` | upload slots, queue, choked peers | request, cancel, choke, rotate, remove | peers, throttler | a choke reaches all of a peer's uploads; freed slots are used |
| Throttler `throttler.js` | tokens, waiting requests, limits | grant, refill, change, pause | uploads, downloads | waiters are served, in order |
| Peer pool `peerManager.js`, `peerConnection.js` | connections, slots per ip, strikes, availability | dial, handshake, close, ban | sockets | counts cover what they count |
| Trackers `tracker.js`, `retryManager.js` | failures per tracker, retries | announce over HTTP and UDP, recovery | torrent | announces die out after a stop, or hang |
| Files `fileWriter.js`, file selection in `torrent.js` | file map, skipped pieces, progress | select, write, recalculate | cold start, download manager | what is selected is not skipped; the progress is that of the pieces |
| Checkpointer `checkpointer.js`, resume `resumeService.js`, verification `pieceManager.js` | chunk rows, a cache of transfer ids | mark, create, reset, resume, verify | rows, download manager | a bad piece does not come back as verified |
| Cold start `s3Streamer.js`, `casStore.js` | stream, genesis lease, piece in hand | open, store, write, retry, abort | torrent, lease manager, worker | what it counts and reports has happened, sources that fail it apart |
| Idempotency middleware `middleware/idempotency.js` | a key per request id in Redis | look up, claim, answer, clear | API | a request runs once and is replayed |
| Telemetry `kafkaProducer.js`, `kafkaConsumer.js` | event buffer, batches, offsets | buffer, flush, close, consume, commit | Kafka | accepted events are not lost |
| DHT `dht/node.js` | pending queries, routing table, lookup | query, answer, time out, look up, stop | UDP | whoever waits has a timer, malformed messages apart |
| Peer registry, parsers, analytics, sockets, users | | I/O and formats | | see section 8 |

What is hard here: two processes and a sweeper act on one transfer through
three stores that change one after the other; every `await` lets something else
in; leases end by time; Kafka delivers again after a rebalance; processes die
between any two steps and start empty; saves are sequences of file operations.
`PROJECT.json` lists each hazard at its line.

## 2. The modules

    Ownership        what a lease service promises
    Lease            the Redis keys and scripts          implements Ownership
      LeaseClient    + what each node was told
      Fleet          + API, Kafka, workers, engines, sweepers, crashes
    QueueManager     the queue manager class
      EngineQueue    + the torrents of a running engine
    StateManager     the state file
    EngineState      the engine's records of one torrent
    TorrentLife      start, stop, pause, seeding limit of one torrent
      Download       its download manager
      FileSelect     its files and their pieces
      Trackers       its announces
      PeerPool       its peer connections
      Upload         what it sends to peers
      Throttler      how fast
      Checkpoint     chunk rows, verification, resume
      ColdStart      filling it from an HTTP source
    Idempotency      one request id at the API
    Telemetry        progress events through Kafka
    Dht              the DHT node as a client
    Filters          filter() of a JavaScript array
    MC_*             instances for TLC
    SequenceFacts    lemmas about sequences, counting and repeated steps
      LeaseProofs          Lease, LeaseClient, Fleet
      QueueManagerProofs   QueueManager
      StateManagerProofs   StateManager
      TransferProofs       TorrentLife, Throttler, Upload, Download, Trackers, MC_Transfer
      ContentProofs        Checkpoint, ColdStart, FileSelect
      ServiceProofs        EngineState, Telemetry, Idempotency, MC_Services
      NetworkProofs        Dht, PeerPool

**Ownership** has one variable, the holder of each transfer. It is the abstract
specification `Lease` is checked and proved to implement (`ImplementsOwnership`,
holder <- lease key).

**Lease.** `lease` and `token` are the values of the two keys, `leaseTTL` and
`tokenTTL` what is left of their life. `AcquireFree`, `AcquireOwned`,
`AcquireDenied` are the three branches of the Lua script of `acquireLease`,
`RenewLeasesBulk` is the pipeline of renewals (each may fail, having run or not),
`ReleaseLease` the compare-and-delete, `Tick` Redis' clock. `renewLease` is the
bulk renewal of one transfer.

**LeaseClient** records the last answer each node got (`credit`: how long the
node may count on it; `held`: the token it was given). An answer can be lost
after the script ran. It says what Redis can promise to nodes that do as they
are told.

**Fleet** composes `Lease` with everything that uses it. `db` is the status
column, `engine[n][t]` the torrent in a process, `bus`/`consumer` the job topic
and its consumer group, `jobs` the directive a worker is handling, `calls` the
requests between their dispatch and their status update, `sweep` what a sweeper
has read, `lost` the renewals answered null that are not acted upon yet. Every
`await` that lets another actor in is a boundary between two actions:
`Consume` / `EnsureLease` / `RemoveDenied` / `Commit` are one
`_handleJobAssigned`; `SweepRows` / `SweepLeases` / `RequeueZombie` /
`DispatchZombie` one sweep; `Create` / `Finish` one request; `Heartbeat` /
`PauseLost` one heartbeat. Statuses and torrent states are merged into the
classes that the code tells apart (the sweeper's four active statuses are
"active"; everything a torrent does before downloading is "starting"; stopped
and failed torrents are "error"). A magnet link is assumed as the source. The
engine starts empty after a crash, because the process never calls
`engine.initialize()` (`torrentEngine/index.js:61-76`). `ShutDown` and `Exit` are
`gracefulShutdown` (`server.js:203`): in between ("closing") the engine's torrents
are stopped and the producer may be closed, while the worker, the sweeper and open
requests go on with that engine. Seeding limits are never
set by the server, so seeding does not end by itself. `committed` says for which
partitions the group has an offset: a member that is given another one begins at
its end (`fromBeginning: false`, `workerConsumer.js:417`), and `ReadOn` passes over
what is in its log; `passed` remembers the assignments among it. `Used` are the
partitions with an offset from before.

**QueueManager** has an action per method; none of them awaits. `moved` records
that a user reordered the queue by hand. `UpdateSettings` is the assignment
that `engine.updateSettings` makes behind the class's back. **EngineQueue**
puts it into an engine with the calls the server really makes.

**StateManager** numbers the states in memory and gives each path on disk a
content: a version, nothing, an empty or a garbled file. A save is `Save`,
`Open`, `Write`, `Check`, `Rotate` (once per backup), `CopyStart`, `CopyEnd`,
`Rename`; each is one file operation, and `Crash` can come between any two.
Open files follow renames, so that overlapping saves are modelled as the file
system runs them. `Load` is `initialize()`; recovery from a backup saves at
once, with the same steps. That save stands inside the `try` of its backup
(`stateManager.js:99-122`), so when it fails the load goes on with the next older
valid backup (`Recover`, `WriteFails`); `slipped` remembers that this happened, and
`overlapped` that a save began during another.

The other modules share no variables: each models one class, with what its
callers may do to it at any time as actions, and names in its header the module
that models the other side. One action is what the code does between two awaits
(or turns of the event loop); calls in flight are part of the state.

**Download** is the class for one torrent, with the peers' side (`wire`:
unanswered requests). `RequestBlocks` is a whole turn of the request loop,
`PieceMessage` the arrival of a block up to the first await, `WriteEnds` what
follows the write of a verified piece. `described` are the peers whose bitfield has
come: the request loop reads the bitfield of every unchoked peer, and where there is
none the exception leaves a timer and takes the process down (`down`). `activePieces`, `pendingRequests` and the
connected peers are read in insertion order, so they are sequences.

**TorrentLife** numbers the starts, and with them the managers they make. One `start`
is `BeginStart`, for a magnet link `PeersTried`, `Searched` and `MetadataComplete`
(or `MetadataFails`, `MetadataTimeout`), then `FilesVerified` or `StartFails`, and
`Announced`; a `stop` is `BeginStop`, `StopAnnounced`, `EndStop`; a `_stopSeeding` is
`BeginStopSeeding`, `EndStopSeeding`. An announce over UDP may hang, and the call that
awaits it with it (`StartHangs`, `StopHangs`, `StopSeedingHangs`). Completion comes
from the write of the last piece (`TransitionToSeeding`), whose manager stops, or
from a selection of files (`SelectionComplete`), whose manager works on.
`openPeers` are the peer managers nobody destroyed, `spared` those that the code is
known to leave (a start verified after a stop, a metadata timeout), `told` whether
the trackers last heard that the torrent is active, `limited` that a seeding limit
was the last to end it. `orderly` remembers that no start came while another start, a
stop or a late write was in flight, in a pause or after a seeding limit, and that no
selection completed a torrent that was not at work; `start` itself does not ask for
that, since 'checking', 'paused' and 'stopping' do not count as running.

**Upload** tells a run of `_processUpload` from its place in `activeUploads`:
runs are numbered and the map says which one holds the place. `HandleRequest`,
`ReadEnds`, `SendEnds` are one run. **Throttler** counts tokens in parts of a
byte, so that a tick adds exactly the limit; a sender asks the global bucket and
then its own, as `_sendBlockWithThrottle` does. Peers have ids of their own in `Upload`.
(A `PeerConnection` has no `id`, and its `peerId` is ours, so that all peers would be
one in `uploadManager.js:53`; no upload starts in the running server in any case.)

**PeerPool** keeps sockets as objects and the maps by ip:port and ip, as the code
does. **Trackers** has one record per call of `_announceToTracker`, with its
nested retries and what it waits for. `Udp` are the trackers asked over UDP: any
datagram ends the timer of such a request, and after one with a foreign transaction
id (`ForeignDatagram`) the call hangs.

**FileSelect** computes `_buildFileMap`, `_getPiecesForFiles` and
`_getOverlappingFiles` from the lengths of the files, which are chosen in the
initial state. `NewWriter`, `StartManager`, `StopManager` are what start and stop do
to the writer and the skipped pieces. `WritePiece` is `writePiece` with its caller, the
cold start, which repeats pieces and writes skipped ones; `PieceFromPeers` is the
download manager's own way to the disk, which tells the writer nothing. `drifted`
are the files whose progress counts bytes twice or not at all for that reason.
**Checkpoint** has per process the one job it awaits, the cached
transfer id, and the rows of the transfer that is there now. **ColdStart** has
the streamer beside the torrent's own start (`writer`, `manager`, `checking`),
and `straggler`, the last chunk of a broken attempt, whose write goes on. `ending`
says how the stream ended that the worker heard of: whole, short, refused (416) or
denied (another node has the lease); `cut` are the pieces in which a source ended.

**EngineState** follows one info hash through `torrents`, the queue manager, the
saved entry and the piece batch; each `addTorrent` makes a numbered object.
`crossed` remembers that a step hit another object than its call was about. An
entry has a source when the torrent came as a magnet link or a path, none when it
came as a buffer (`engine.js:694-697`), and a restart restores only the first kind;
`saved.of` is the object it was made for.
**Idempotency** has every Redis command as a step that may fail. **Telemetry**
numbers events and producers; `lost` is what the code gives up knowingly.
**Dht** records every query with its transaction id, so that two queries may
share one. A query is waiting, answered, failed or stranded: a malformed error or
response clears its timer and throws before it settles (`MalformedMessage`).

## 3. What the runs check

| Run | Bounds | Result |
|---|---|---|
| `lease` | 2 nodes, 2 transfers, TTL 3 | `CreditMeansOwner`, `KeysLiveTogether`, `TokenIsAlwaysOne`, `ImplementsOwnership` hold; `CrashedNodeLosesLeases` (liveness) holds |
| `lease_fencing` | 2 nodes, 1 transfer | **violated**: `StaleTokenRejected` |
| `fleet` | 2 processes, 1 transfer, 2 requests, 1 fault, no offset for the transfer's partition | `AssignedIsTried` (liveness) holds |
| `fleet_failures` | 2 processes, 1 transfer, 1 request, 1 fault, 1 late heartbeat or rebalance, 1 Kafka outage, an offset for every partition | `SplitBrainEnds`, `OrphanLeaseEnds`, `ZombieNoticed` (liveness) hold |
| `fleet_split_brain` | as `fleet`, 1 request, no fault | **violated**: `AtMostOneExecutor` |
| `fleet_recovery` | as `fleet`, 1 request, 1 fault | **violated**: `CrashRecovered` |
| `queue` | 4 torrents, limit up to 2, 3 instants, interchangeable torrents | `InOnePlace`, `BestFirst`, `NeverOverfills`, `FreedSlotIsUsed` hold |
| `queue_completion` | 2 torrents, 1 slot | **violated**: `CompletionFreesSlot` |
| `state` | 2 interchangeable savers, 3 backups, 3 updates, 2 interrupted saves, 2 damages, 2 failed operations | `SavedSurvives`, `NeverGoesBack` hold |
| `state_dirty` | 2 savers, 2 updates, no fault | **violated**: `CleanIsSaved` |
| `transfer`: download | 2 peers, 2 pieces of 2 and 1 blocks, 2 requests at once, 1 trouble | `PendingIsMissing` holds; `OfferedPieceArrives`, `CompletionReported` (liveness) hold |
| `transfer`: life | 2 starts, 2 stops, with and without metadata | `StoppedIsQuiet`, `PassingStatesEnd` (liveness) hold |
| `transfer`: upload | 2 peers, 1 piece, 1 slot, 1 unchoked, 2 runs, 1 waiting | `ChokeReachesAll`, `QueueMoves` (liveness) hold |
| `transfer`: throttle | 2 torrents, 2 ticks a second, limits 0, 2, 4, blocks of 2, 2 changes | `NoOvertaking`, `BlockSent` (liveness) hold |
| `transfer`: trackers | 2 trackers, one over UDP, 1 retry of each kind, 2 calls in flight, 1 stop | `AnnouncesEnd` (liveness) holds |
| `services`: pool | 2 ports of one ip, 1 slot per ip, 3 dials, 1 strike | `PoolCountsHold` holds |
| `services`: checkpoint | 2 processes, 2 chunks, 2 rows in turn, 2 mishaps | `VerificationSticks` holds |
| `services`: telemetry | buffer of 2, 3 events, 2 producers, 2 batches at once, 2 faults | `NothingVanishes` holds |
| `services`: idempotency | 3 requests with one id, 2 failures | `RunsOnce` holds |
| `services`: cold | 3 pieces, 3 attempts, 3 malfunctions, sources of the wrong length among them | `ColdStartHonest` holds |
| `services`: engine | 2 interchangeable pieces, batches of 2, 2 additions, 2 removals, 1 restart | `OneTorrent`, `PiecesSaved` hold |
| `services`: files | 2 files of up to 4 bytes, pieces of 2 bytes, repeated pieces until a file has drifted | `SelectedAreWhole` holds |
| `services`: dht | 2 nodes, 1 for bootstrap, table of 1, 2 transaction ids, 3 queries | `NobodyWaitsForEver` holds |

Each passing run also checks the type invariant of its module.

The bounds. A lease concerns one transfer, and the only thing transfers share is
the bulk renewal, so `Lease` has two transfers and `Fleet` one; two nodes are an
owner and a rival. TTL 3 stands for 30 s renewed every 10 s; in `Fleet`, where a
running process does renew in time unless a stall is spent, TTL 1 shows the same
orders of events. In `Fleet` only one process gets requests and sweeps, so the
other is the plain worker; the budgets (`MaxCalls`, `MaxFaults`, `MaxStalls`,
`MaxOutages`; a shutdown counts as a fault, and only the process with the API and
the sweeper is shut down, in `fleet_failures`) are spread over two runs since
their product is out of reach. Four torrents for two slots give a queue of two behind full slots, three instants
make equal and different times of request. In `StateManager` the code's default
of three backups is kept, and the mishaps together exceed it: the states where the
backups are used up are reached, and the properties say when they may be. Two savers
are the caller and the timer; what follows their overlap is explored as well.
In `fleet` the transfer's partition is new to the group, in `fleet_failures` none is:
what is passed over matters to the first run only.

`transfer` and `services` each check several modules side by side. Their
variable `part` says which module a behaviour is about: only its actions are
taken, and the others stay in one initial state, which enables none of their
actions with fairness. So the module in question goes through all its behaviours,
as in a run of its own, and the properties of the others hold trivially meanwhile.

Their bounds. In `Download` a short last piece, a peer that has everything and
one that has nothing until it announces a piece, and two requests at once are
what makes requests go to the wrong peer, wait behind each other or outlive
their piece; one trouble may come at any point, and a choke, a loss, a bad block
or a failed write has no memory beyond it. Two starts and two stops cross in
every order, a third would cross with one of them. One tracker of each protocol lets
a call fail at one and hang at the other, in either order. One upload slot with two runs
gives a run without a place, which is what a second run of a key needs. Two ticks
a second with the limit 2 grant one byte per tick, so that a block takes several
grants; 4 grants it at once, and 0 lifts the limit under waiters. One slot per ip
for two ports makes every leak visible at once. Two transfer rows are what a
stale id needs. Two batches of a buffer of two cover the three events and
overlap. Three requests are a first, a retry and a retry of the retry. Three
pieces and three attempts: a piece before, in and after a break, and a break in
the retry. Two files of lengths 0..4 against pieces of 2 give empty files, files
within a piece, across one border and across two, and all remainders; a file that has
drifted stays so until a verification, so more repetitions show nothing new
(`MaxDrifted`). With two
transaction ids and three queries, ids collide. The safety properties of all
these modules are theorems of section 6, without any of the bounds.

The constraint `Uncrossed` of `services` stops the engine's behaviours where two
calls have crossed: `OneTorrent` and `PiecesSaved` say nothing there, and the
step that crosses is still checked (it keeps the run at 1.07 million states).

`CHECK_DEADLOCK` is off in `transfer` and `services`, since a part comes to its
bounds (a request id is answered, a stopped torrent has no starts left); it is
on in the others, and `Fleet` has no deadlock.

## 4. The findings

1. **Fencing tokens do not fence** (`lease_fencing`). The counter lives under a
   key that expires and is deleted together with the lease, and renewals do not
   increment it, so every owner gets token 1 (`TokenNeverCounts` proves it). The
   comment `leaseManager.js:11-15` and `README.md:39` say stale tokens are
   rejected.
2. **Two workers download one transfer without any failure**
   (`fleet_split_brain`). The row is active before its job is consumed and
   leased; a sweep in between dispatches it again under another key, so to
   another partition, and the worker starts the torrent before it asks for the
   lease. `SplitBrainEnds` shows that a heartbeat ends it.
3. **A crash can strand a transfer** (`fleet_recovery`): the sweeper writes
   `queued`, and nothing reads that status.
4. **A completed torrent keeps its slot** (`queue_completion`): the queue waits
   for an event that torrents do not emit.
5. **A change made during a save is never saved** (`state_dirty`): the dirty
   flag is cleared after the awaits. (That two saves share one temporary file is
   another matter, see below.)

Seen while modelling, without a statement in the repository that a run could
refute; the properties name these cases as their exceptions:

- *Fleet*: a directive that is in a partition before the group's first commit there
  is passed over when the partition changes hands before that commit
  (`workerConsumer.js:417`); `AssignedIsTried` excepts exactly these. A pause that
  overtakes its own assign finds no torrent and is dropped; the torrent is then
  started against the user's wish, and no property here catches that.
- *State file*: with two overlapping saves the rename of one takes the temporary
  file the other is writing, and a crash then finds an empty main file. A recovery
  whose save fails goes on to the next older backup and keeps that state in memory
  (`stateManager.js:99-122`), although the newest one was sound. The properties hold
  until either happens.
- *Torrent*: `start` is let through in 'checking', 'paused' and 'stopping', which
  makes two managers or intervals that nobody clears (`torrent.js:379`). A start
  whose files are verified after a stop makes a peer manager that nobody destroys and
  announces 'started'. A start whose metadata is cancelled by a stop between two
  awaits ends in 'error' after the stop, one that waits for its pieces never returns,
  and a timeout of the metadata leaves its peer manager. A write that ends after a stop turns
  the torrent to 'seeding', and so does a selection of files whose pieces are all
  there, which leaves its manager working; `_stopSeeding` stops neither manager nor
  announce and statistics intervals nor peers. An announce over UDP that hangs
  leaves its start in 'checking' or its stop in 'stopping'. The upload manager is given a
  `pieceManager` that is never set, so no upload starts in the running server.
- *Download*: an unchoked peer that has sent no bitfield makes the request loop throw
  while a piece is active, from an interval, and the process shuts down
  (`server.js:271`); TorrentEdge sends none itself while it has no piece.
  A torrent whose pieces are all on disk at the start never reports
  completion; nor does one with skipped files when its last wanted piece is
  written. A piece a verification revokes keeps its blocks and is never asked for
  again. Requests go to peers without the piece. The endgame code is not called.
  In a torrent of several files, pieces are written where the verification does
  not read.
- *Upload*: the end of a cancelled run takes the place of a second run of the
  same key (`uploadManager.js:172`), and no choke finds that run then.
- *Throttler*: a limit below one byte a tick (10 bytes/s) never sends; a limit
  lifted under waiters strands them; new global limits do not reach torrents; the
  server does not pass throttlers to the upload manager at all.
- *Peer pool*: a peer that connects and fails its handshake, and `disconnect()`,
  keep their slot of the ip; a handshake timeout before the connect gives back the
  slot of a live socket; a late close takes another connection of the peer out of
  the maps; strikes go by peer id and bans by ip:port.
- *Trackers*: the recovery timer announces after a stop, and a cancelled announce
  goes on with the next tracker; `AnnouncesEnd` shows that both die out. A UDP datagram
  with a foreign transaction id ends the timer of the request and is then ignored
  (`tracker.js:333-347`), so that the announce, a stop's too, may hang for ever.
- *Checkpoint*: the cached id outlives its transfer; the download path never calls
  `markChunkVerified`; a read error during a verification leaves the row verified;
  `resumeWithVerification` has no caller; the resume of a fully verified transfer
  sets it completed without a directive.
- *Engine*: after a restart nobody makes a restored torrent 'ready', so that its
  saved state is deleted after 30 s; removals that overlap with a new addition,
  a removal during addTorrent's await of Kafka, and the batch timer firing after a
  removal leave a destroyed torrent in the queue or an entry without a source. A
  torrent added from a buffer, as a worker adds an uploaded torrent file and `seedFromFile`
  its own, is saved without a source, and a restart drops it. The pieces of a batch are lost by a
  restart, but no more of them (`PiecesSaved`).
- *Idempotency*: a pod that dies blocks the id for the TTL of the key; answers of
  4xx are replayed; with Redis away, requests pass unchecked.
- *Files*: deselecting all files throws after the selection was emptied; a
  selection made before the first start or before a restart is not applied; an
  empty file between two pieces is never complete by writing, only by verification.
  The cold start repeats pieces and writes while the files are verified, and the
  download tells the writer nothing, so the progress of files counts bytes twice or
  not at all (`drifted`).
- *Cold start*: a genesis lease held by another node is reported as completed; so is
  a source that answers 416, with whatever is stored, and one that is too short. The
  partial piece in which a source ends is stored, written and counted as a whole one
  (`s3Streamer.js:443-449`, `301`). A source that is too long stores a chunk too many,
  and is retried in vain once there is a download manager, which refuses the index
  (`downloadManager.js:176-179`).
  An abort while the stream is being opened destroys it before anybody listens for its
  error (`s3Streamer.js:319-322`), which shuts the process down.
  `initialize` under a running stream truncates what was stored; a retry starts at
  offset 0 and counts bytes twice; pieces are not hashed; stopping the torrent does
  not stop the stream.
- *Telemetry*: a producer whose connect failed is kept as the singleton; the
  consumer commits behind a handler that failed.
- *DHT*: an error whose `e` is no list, or a response whose id is no byte string,
  clears the timer of its query and throws (`node.js:766-771`, `976-981`), so that the
  query is never settled and whoever awaits it waits for ever; queries with the same transaction id take each other's answers; bootstrap
  nodes without an id are never asked; a health check deletes a node that came
  back meanwhile; the engine compares the info hash of found peers with a Buffer.

## 5. Fairness

`FairClientSpec`: Redis' clock does not stop. `FairFleetSpec`, weak fairness of
- `Work`: begun handlers and requests go on (their commands are answered or
  fail), Kafka delivers what is in the log and takes partitions from dead
  members, containers are restarted (`docker-compose.prod.yml`,
  `restart: unless-stopped`; a shutdown is a deployment or follows an uncaught
  exception, so the process comes back) and a begun shutdown ends;
- `PassTime`, the sweeper's timer, each process's heartbeat timer, and the loop
  that acts on lost renewals.

Clients of the API and peers owe nothing there: a torrent may stay in "starting"
or "downloading" for ever.

The modules of `transfer` state weak fairness of what runs by itself:
- `DownloadFairness`: the request and timeout intervals of the download manager
  fire (`LoopRuns`, `RequestExpires`), writes end and do not fail for ever
  (`WriteSucceeds`), and a peer that does not choke us answers the requests it has not
  answered with the right data, again and again (`PeerAnswers`); none of it when the
  process is down.
  The last is an assumption about peers, without which nothing could arrive; a
  peer may choke, leave or answer wrong within the bound.
- `LifeFairness`: awaited calls end. The metadata exchange has a timeout of five
  minutes (`torrent.js:1197`), verification reads a finite number of pieces, writes
  end; an announce ends or hangs.
- `UploadFairness`: reads and sends end (`RunGoesOn`). `ThrottleFairness`: the refill
  interval fires and senders whose promise is resolved go on (`SenderGoesOn`).
- `TrackersFairness`: the recovery timer fires, sleeps end, and a request to a tracker
  fails if it is not answered (`tracker.js:287`), unless a foreign datagram ended its
  timer (`CallGoesOn`); trackers owe nothing.

The run states each of them only for the behaviours about that part
(`WF_xVars(part = "..." /\ action)`), since the other parts do not move.

Safety properties assume no fairness; the modules of `services` state none.
`NobodyWaitsForEver` is stated as a safety property (whoever waits has a timer, unless
a malformed message stranded that very query).

## 6. What is proved

For every set of nodes and transfers and every TTL > 0 (`LeaseAssumption`, which
also says that `NoOwner` is not a node):

- `LeaseProofs`: `LeaseTypeCorrect`, `KeysAlwaysTogether`, `TokenNeverCounts`,
  from the inductive invariant `KeysInv` = types, `KeysLiveTogether`,
  `TokenIsAlwaysOne`. The parts need each other: `AcquireFree` increments a token
  that must have gone with the lease, and both keys stay together only if a
  refresh finds both. One lemma per script (`AcquireFreeKeys`, `RefreshKeys`,
  `RenewKeys`, `ReleaseKeys`, `TickKeys`).
- `LeaseImplementsOwnership`: the refinement, action by action
  (`StepImplements`); expiry is the release of all transfers whose life is over.
- `CreditIsOwnership` with `ClientInv` = `KeysInv`, types,
  `CreditMeansOwner`. It is inductive because `Less` is monotone, so a credit
  bounded by the lease's life stays bounded when time passes, and because a
  positive answer restarts both. `MutualExclusion` (at most one node counts on a
  lease) follows. `ClientsUseLease`: every behaviour of the clients is one of
  `Lease`, so its theorems hold for them.

- `Fleet`, for any nodes, transfers and partitions (`FleetAssumption`) and any number
  of requests, crashes and outages. `FleetUsesLease`: every step of the fleet is a
  step of `Lease` or leaves the keys alone, so `FleetKeysTogether` and
  `FleetKeepsOwnership` come for free. `FleetTypeCorrect` does not: `Commit` takes
  the tail of a log, which is a log only if there is a directive in it. So the
  invariant (`FleetInv`) also says that a process has one directive in hand, of a
  partition that is its own and whose log begins with it (`InHand`,
  `HandledIsHead`): dispatching appends behind the head, and a rebalance takes the
  job away with the partition. The transfer of that head is the one in hand, so a
  commit acknowledges what was handled. A member that is given a partition without an
  offset empties the log for itself, and has nothing in hand then.

`QueueManagerProofs`, for any torrents, limits, clock and settings:

- `QueueTypeCorrect`, `EveryTorrentInOnePlace` and `QueueInBestOrder` (`BestFirst`).
  The sort of the code is modelled by the position that counting gives each entry
  (`Ahead`); that these positions are a permutation, and that the result is sorted,
  is proved from the fact that no two entries are equal (`SequenceFacts`).
- `LimitIsKept` (`NeverOverfills`) and `SlotsAreUsed` (`FreedSlotIsUsed`) are about
  steps: they follow from what one pass over the queue starts.

`StateManagerProofs`, for any number of backups, updates and mishaps:

- `StateTypeCorrect`, for any savers.
- `SavedStateSurvives` and `LoadNeverGoesBack`, for any savers, until two saves overlap
  or a load slips to an older backup, which no step takes back (`Undisturbed`). Till
  then there is one save that the inductive invariant holds of, and the others rest
  (`SomeInv`; a save may begin when all rest, and another one is the one then). That
  invariant, `StateInv`, says where in the chain main file, backup 1, ...,
  backup n the running save has its hole, that a valid file is never older than one
  behind it, and that the places outside that hole that are of no use are no more
  than the mishaps so far. `SavedSurvives` alone is not inductive: a rotation moves
  every copy. The exceptions are needed, as section 4 tells.

`TransferProofs`:

- `StoppedTorrentIsQuiet`, for any numbers of starts and stops. An orderly start
  finds nothing at work (`StartIsAlone`, `StartIsQuiet`), so the manager that works or
  writes is the current one (`RunnerIsCurrent`), and it works only with the interval set,
  the only one there is (`WorkIsTimed`). `StoppedIsQuiet` alone is not inductive: what
  is in flight could undo it. So the invariant (`Orderly`) says that a start in flight
  sees the stop that came (`StopIsSeen`), and what is seen of a seeding limit
  (`LimitIsSeen`), of a late write (`LateIsSeen`) and of the announces (`ToldIsSeen`);
  and that every peer manager that is left is the one `_peerManager` names, or a
  spared one (`PeersAreKept`).
- `LifeTypeCorrect`: the intervals and the starts in flight together are no more than
  the starts made, and the stops in flight no more than the stops (`Accounted`),
  because every start in flight sets at most one interval and then is over.
- `ThrottleTypeCorrect` and `WaitersKeepTheirTurn` (`NoOvertaking`), for any clients
  and limits: who waits at a bucket is in the queue its sender names, with what it
  asked for, and nobody twice (`Queues`); a pass over the queue ends with an empty
  bucket or an empty queue.
- `UploadTypeCorrect` and `ChokeIsHeard` (`ChokeReachesAll`), for any peers, blocks
  and slots (`Sound`): what waits or runs uncancelled has an unchoked peer that is
  there, a run that is no second one is the only one of its block and has its place,
  and a place names a run of its block. Without the last, a run that ends would free the
  place of another.
- `DownloadTypeCorrect` and `AskedIsMissing` (`PendingIsMissing`), for any peers,
  pieces, blocks and troubles (`Links`): what is asked for is missing and of an
  active piece, and no counted piece is active. `PendingIsMissing` needs besides
  that a piece being written has all its blocks (`Whole`), so that an answer that
  spoils a piece never hits it. That the availability stays a natural number needs
  that it covers the bitfields of the connected peers (`Supply`).
- `TrackersTypeCorrect`, for any finite set of trackers, numbers of retries and of
  announces at once: the announces in flight and the recovery timers are together
  never more than were let in, except for the one that `stop` sends itself
  (`TrackersInv`). An announce sleeps only if it has an attempt left, so its
  counters stay within the retries.
- `TransferTypeCorrect`: the types of all five together. A behaviour of the run is
  one of each part (`PartsOfTransfer`), whatever the part it is about, so each
  theorem above holds of the whole run too. No theorem of these uses fairness, so they
  are stated of the steps alone (`XInit /\ [][XNext]_xVars`).

`ServiceProofs`:

- `EngineTypeCorrect`, `EngineKeepsOneTorrent` and `EngineSavesPieces`, for any
  pieces, batch size, additions, removals and restarts: `removeTorrent` takes the
  torrent from the queue first (`RemovedIsUnqueued`) and deletes the entry before
  the map lets it go (`DeletedFirst`), so whoever still listens is known or being
  removed (`ListedIsKnown`). A batch is smaller than its limit (`BatchIsSmall`),
  and the entry and the batch of the torrent it was saved for cover what that torrent
  announced until a removal (`EntryCovers`, `EntryIsKnown`); so whatever the timer of
  a removed torrent writes into the entry, it lacks less than a batch (`LacksFew`).
- `NoEventVanishes`, for any buffer, events, producers, batches and faults: a
  producer that is not up has nothing buffered and nothing on its way, and the
  offset of the group is never ahead of what its member handled.
  `TelemetryTypeCorrect` follows from the same invariant: the events in the buffer,
  in the batches and in the log are those accepted so far, and the batch a closing
  producer waits for is on its way.
- `IdempotencyTypeCorrect`, `HandlerRunsOnce`, for any requests and failures: while
  no claim failed open and the key did not expire, whoever runs holds the key in
  flight with nobody served, and a kept answer is that of a served request.
- `ServicesTypeCorrect`: the types of all parts of `services` together
  (`PartsOfServices`).

`ContentProofs`:

- `ColdTypeCorrect`, `ColdStartReportsHonestly`, for any pieces, attempts and
  malfunctions: the writer is made before the manager and files before anything
  counts (`WriterFirst`, `FilesMadeFirst`, `ManagerCounts`), and a piece in hand is whole
  or one that the source ended in (`HandsAreKnown`); in every attempt the pieces before
  the one in hand are stored (`StoredInOrder`), and a stream that ended whole had the
  last one in hand.
- `CondemnedStaysOut`, for any processes, chunks, rows made one after the other and
  mishaps: nothing is condemned while a creation is under way (`NoCreation`), a
  resume in flight has read nothing that is condemned (`ContextIsFresh`), and a
  verification that stayed clean has marked each of its bad pieces or is about to
  (`CleanIsMarked`). `CheckpointTypeCorrect` adds that an id anybody kept is that of
  a row that was made (`Counted`).
- `FilesTypeCorrect` and `SelectedFilesAreWhole` (`SelectedAreWhole`), for any number of
  files of any lengths, empty ones included, and any piece length. The progress of a
  file is a sum over the pieces, defined as a function of how many are summed. The
  cut a piece makes of a file is what of the file lies before the piece's end less
  what lies before its start (`CutFacts`); so the sum over the first n pieces is what
  lies before the end of the n-th (`CutsFacts`), and the sum over all is the length
  (`WholeFile`), which no sum over fewer pieces exceeds (`RunningLess`). A piece more
  adds its cut once (`RunningMore`), so the progress of a file that has not drifted is
  that of the pieces had, also before there is a manager (`CountsFromNothing`) and
  after a stop (`WithManager`); complete is what has its length (`CompleteIsWhole`). No
  piece that cuts a selected file is skipped (`SelectedNotSkipped`), whatever drifted.

`NetworkProofs`:

- `DhtTypeCorrect` and `EveryQueryIsTimed` (`NobodyWaitsForEver`), for any finite set
  of nodes: the entry under a transaction id is that of a query that waits with this
  id, so a timer that fires or a message that comes settles (or strands, when it is
  malformed) the query it is matched to, and the others keep their timers.
- `PoolTypeCorrect` and `PoolCountsCover` (`PoolCountsHold`), for any finite set of
  peers: no connection of the maps is closed, and availability and slots are at
  least the cardinalities of the sets they stand for (`CountPart`, `CountLess` and
  `CountMore` of `SequenceFacts`).

`SequenceFacts` holds what several of these need: members, order and permutation of
sequences, what insertion and removal do to them, cardinalities, and two facts
about functions defined by recursion over 0..n. `Iterates`: repeating a step that
stays in a set is a function into that set, so a loop of the code keeps what one
round of it keeps (`ServeQueue`, `AskPeer`, `AskAll`, `ServeWaiters`).
`DroppingFacts`: what `Filters!Dropping` leaves of a sequence. The provers know
neither `SelectSeq` nor the folds, which is why the modules say such loops as
recursive functions.

Assumed of the world: Redis is one durable store with atomic scripts; and what
the named assumptions of the modules say of their constants: sizes and bounds are
natural numbers, nodes, peers and trackers are finite sets where they are counted, and the
contents of files are different from each other.

Only model-checked: all liveness (out of the prover's reach: `AssignedIsTried`,
`SplitBrainEnds`, `OrphanLeaseEnds`, `ZombieNoticed`, `CrashedNodeLosesLeases` and the
liveness of `transfer`), `EngineQueue` and the `state_dirty` run, which end in a
violation. The safety invariants and action properties of all passing runs are
theorems.

## 7. Plan

1. `Fleet` beyond its types: what the sweeper and a worker may do to each other's
   rows, as invariants.
2. Invariants of `EngineQueue` that hold although completion keeps its slot.
3. An abstract atomic register that `StateManager` implements until two saves overlap.
4. `Fleet`: uploads as a second kind of transfer (the sweeper requeues those without
   their source, `leaseSweeper.js:105`); `Download` inside `TorrentLife`, which now has
   its managers in four states.

## 8. Not modelled, and why

- Parsers and encoders (bencode, magnet, torrent files and their creation, wire
  messages, the HTTP and UDP tracker protocols): data without protocol state,
  which unit tests reach. A tracker request is one step that answers, fails or, over UDP,
  hangs.
- The metadata exchange: in `TorrentLife` it ends, fails or times out. Its
  session makes a peer manager of its own, which is destroyed with it (after a timeout
  it is not).
- Code nothing calls: the endgame of the download manager, the deduplication
  service's pre-population (it asks for a `pieceManager` torrents do not have),
  `dht/routingTable.js`, JOB_CANCELLED.
- Inbound peers (`startPeerListener`), `seedFromFile` and `announceAsSeeder`, the
  descriptor cache of the file writer, statistics and progress reports.
- What the DHT node answers to others, and its store of their peers.
- The worker's backpressure (it delays consumption, which `Fleet` allows anyway)
  and transfers made from uploaded files.
- Peer registry (it only speeds up discovery), analytics, metrics, tracing,
  sockets, user and settings routes, front end: reporting and request/response.

PostgreSQL, Kafka, Redis, the file system, sockets and the container manager are
modelled from how the code uses them. Wording and logging are left out.
