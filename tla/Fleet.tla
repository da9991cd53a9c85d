------------------------------- MODULE Fleet -------------------------------
(***************************************************************************)
(* The processes that share the transfers.  Every process runs the HTTP    *)
(* control plane (torrentController), a dispatcher, an embedded worker     *)
(* (workerConsumer) with its torrent engine, and a zombie sweeper          *)
(* (leaseSweeper).  They meet in three places: the status column of the    *)
(* transfers table (db), the job topic of Kafka (bus, one partition per    *)
(* message key) and the lease keys of Redis (module Lease).                *)
(*                                                                         *)
(* A magnet transfer t that is not in a process's engine is "none" there;  *)
(* "starting" is every state before downloading: queued for a slot,        *)
(* fetching metadata, checking.  Status "active" stands for the statuses   *)
(* the sweeper looks at (leaseSweeper.js:57), "parked" for those that      *)
(* neither the sweeper nor the worker touches.  Nothing writes the status  *)
(* from a worker's events, so only the API and the sweeper change db.      *)
(*                                                                         *)
(* An engine starts empty: the process never calls engine.initialize(), so *)
(* nothing is restored after a crash (index.js:61-76).                     *)
(***************************************************************************)
EXTENDS Lease, Sequences, FiniteSets

CONSTANTS Front,     \* processes that HTTP requests reach
          Sweeper,   \* processes whose sweeper runs
          Stoppable, \* processes that may be shut down in order
          System,    \* key of the messages sent without an info hash
          Used,      \* keys whose partition has a committed offset from the start
          NoKey,     \* partition of a job whose message was taken away
          MaxCalls,  \* bound: API requests
          MaxFaults, \* bound: crashes, shutdowns, torrent errors, failed Redis commands
          MaxStalls, \* bound: late heartbeats and slow consumers
          MaxOutages \* bound: sends the Kafka producer reports as failed

Key == Transfer \union {System}
ASSUME FleetAssumption ==
  /\ Front \subseteq Node /\ Sweeper \subseteq Node
  /\ Stoppable \subseteq Node
  /\ System \notin Transfer /\ Used \subseteq Key
  /\ NoKey \notin Key
  /\ {MaxCalls, MaxFaults, MaxStalls, MaxOutages} \subseteq Nat

VARIABLES
  db,       \* status of each row of the transfers table
  engine,   \* state of each transfer in each process's engine
  process,  \* "up", "closing" (see ShutDown) or "down"
  bus,      \* unacknowledged messages of each partition
  consumer, \* the member of the consumer group each partition is assigned to
  committed, \* partitions for which the group has committed an offset
  passed,    \* transfers whose assignment was passed over, see ReadOn
  jobs,     \* directives being handled, at most one per process
  calls,    \* API requests between their dispatch and their status update
  sweep,    \* what each sweeper has read and not acted upon yet
  lost,     \* renewals answered null whose transfer is not paused yet
  asked,    \* number of API requests made
  budget    \* what is left of the other bounds

fleetVars == <<db, engine, process, bus, consumer, committed, passed, jobs, calls, sweep,
               lost, asked, budget>>
vars == <<keys, fleetVars>>

Status == {"none", "active", "queued", "parked"}
EngineState == {"none", "starting", "downloading", "paused", "seeding", "error"}
Directive == [type : {"assign", "pause", "resume"}, t : Transfer]
Phase == {"added", "denied", "paused", "resuming", "done"}
Job == [node : Node, phase : Phase, key : Key \union {NoKey}, t : Transfer]
Call == [op : {"create", "pause", "resume", "start", "started", "delete"},
         node : Node, t : Transfer, status : Status, id : Nat]
Found == [rows : SUBSET Transfer, zombies : SUBSET Transfer, queued : SUBSET Transfer]
NothingFound == [rows |-> {}, zombies |-> {}, queued |-> {}]

FleetInit ==
  /\ LeaseInit
  /\ db = [t \in Transfer |-> "none"]
  /\ engine = [n \in Node |-> [t \in Transfer |-> "none"]]
  /\ process = [n \in Node |-> "up"]
  /\ bus = [k \in Key |-> <<>>]
  /\ consumer \in [Key -> Node] /\ committed = Used /\ passed = {}
  /\ jobs = {} /\ calls = {} /\ lost = {} /\ asked = 0
  /\ sweep = [n \in Node |-> NothingFound]
  /\ budget = [faults |-> MaxFaults, stalls |-> MaxStalls, outages |-> MaxOutages]

Runs(n) == process[n] # "down"
Assigned(k, t) == \E i \in DOMAIN bus[k] : bus[k][i] = [type |-> "assign", t |-> t]
Spend(what) == budget[what] > 0 /\ budget' = [budget EXCEPT ![what] = @ - 1]
SetEngine(n, t, s) == engine' = [engine EXCEPT ![n][t] = s]
SetStatus(t, s) == db' = [db EXCEPT ![t] = IF @ = "none" THEN "none" ELSE s]

-----------------------------------------------------------------------------
(* torrent.pause() acts on a downloading torrent only, torrent.resume() on a
   paused one only, start() on one that is not running; addTorrent refuses a
   torrent the engine has. *)
Paused(s) == IF s = "downloading" THEN "paused" ELSE s
Resumed(s) == IF s = "paused" THEN "downloading" ELSE s
Started(s) == IF s \in {"paused", "error"} THEN "starting" ELSE s
Added(s) == IF s = "none" THEN "starting" ELSE s
Effect(type, s) == CASE type = "assign" -> Added(s)
                     [] type = "pause"  -> Paused(s)
                     [] type = "resume" -> Resumed(s)

(* dispatcher.dispatch by process n: the directive goes to Kafka or, when the
   producer reports an error, is executed on the spot by the process's own
   engine, without a lease; the broker may have kept the message all the same.
   So does a process that has closed its producer on its way out.
   The result says whether the caller sees an exception. *)
Dispatch(n, type, t, key, failed) ==
  LET message == [type |-> type, t |-> t]
      log == [bus EXCEPT ![key] = Append(@, message)]
  IN  /\ UNCHANGED <<consumer, committed, passed>>
      /\ \/ /\ bus' = log
            /\ failed = FALSE
            /\ UNCHANGED <<engine, budget>>
         \/ /\ \/ bus' \in {bus, log} /\ Spend("outages")
               \/ process[n] = "closing" /\ UNCHANGED <<bus, budget>>
            /\ failed = (type = "assign" /\ engine[n][t] # "none")
            /\ SetEngine(n, t, Effect(type, engine[n][t]))

-----------------------------------------------------------------------------
(* The API of process n.  A request dispatches first and writes the status
   afterwards; the two steps are separated by the awaits of the controller. *)
Ask(n, t, op, s) ==
  /\ n \in Front /\ Runs(n) /\ asked < MaxCalls
  /\ asked' = asked + 1
  /\ calls' = calls \union
       {[op |-> op, node |-> n, t |-> t, status |-> s, id |-> asked]}
  /\ UNCHANGED <<keys, db, process, jobs, sweep, lost>>

(* resolveFinalMeta: the status of a new row is the state of the torrent in
   this process's engine, fetching_metadata when it is not there. *)
CreatedStatus(s) ==
  CASE s \in {"none", "downloading"} -> {"active"}
    [] s = "starting" -> {"active", "parked"}
    [] OTHER -> {"parked"}

(* createTorrent; when the local fallback finds the torrent in the engine the
   request ends without a row. *)
Create(n, t) ==
  /\ db[t] = "none"
  /\ \E failed \in BOOLEAN :
       /\ Dispatch(n, "assign", t, System, failed)
       /\ IF failed
          THEN /\ n \in Front /\ Runs(n) /\ asked < MaxCalls
               /\ asked' = asked + 1
               /\ UNCHANGED <<keys, db, process, jobs, sweep, lost, calls>>
          ELSE \E s \in CreatedStatus(engine'[n][t]) : Ask(n, t, "create", s)

(* pauseTorrent and resumeTorrent need the torrent in the local engine, but
   send the directive to whoever consumes the partition of its info hash. *)
Pause(n, t) ==
  /\ db[t] # "none" /\ engine[n][t] # "none"
  /\ Dispatch(n, "pause", t, t, FALSE)
  /\ Ask(n, t, "pause", "parked")
Resume(n, t) ==
  /\ db[t] # "none" /\ engine[n][t] # "none"
  /\ Dispatch(n, "resume", t, t, FALSE)
  /\ Ask(n, t, "resume", "active")

(* resumeTorrent of a transfer whose chunks are all verified dispatches
   nothing: the row becomes completed. *)
ResumeVerified(n, t) ==
  /\ db[t] # "none" /\ engine[n][t] # "none"
  /\ \E m \in Node : engine[m][t] = "seeding"
  /\ Ask(n, t, "resume", "parked")
  /\ UNCHANGED <<engine, bus, consumer, committed, passed, budget>>

(* startTorrent starts the local torrent directly: no directive, no lease.  It
   waits for the start unless the torrent is already running, which includes
   fetching its metadata ("started"). *)
StartOps(s) ==
  CASE s \in {"downloading", "seeding"} -> {"started"}
    [] s = "starting" -> {"start", "started"}
    [] OTHER -> {"start"}
Start(n, t) ==
  /\ db[t] # "none" /\ engine[n][t] # "none"
  /\ SetEngine(n, t, Started(engine[n][t]))
  /\ \E op \in StartOps(engine[n][t]) : Ask(n, t, op, "active")
  /\ UNCHANGED <<bus, consumer, committed, passed, budget>>

(* deleteTorrent removes the torrent from the local engine only; errors are
   swallowed, no directive is sent and no lease released. *)
Delete(n, t) ==
  /\ db[t] # "none"
  /\ SetEngine(n, t, "none")
  /\ Ask(n, t, "delete", "none")
  /\ UNCHANGED <<bus, consumer, committed, passed, budget>>

(* The second half of a request: the status update. *)
Finish(c) ==
  /\ c \in calls
  /\ calls' = calls \ {c}
  /\ CASE c.op = "create" -> db' = [db EXCEPT ![c.t] = IF @ = "none" THEN c.status ELSE @]
       [] c.op = "start"  -> engine[c.node][c.t] # "starting" /\ SetStatus(c.t, c.status)
       [] OTHER           -> SetStatus(c.t, c.status)
  /\ UNCHANGED <<keys, engine, process, bus, consumer, committed, passed, jobs, sweep, lost,
                 asked, budget>>

-----------------------------------------------------------------------------
(* The embedded worker of process n. *)
NewJob(n, k, t, phase) ==
  jobs' = jobs \union {[node |-> n, phase |-> phase, key |-> k, t |-> t]}
Advance(j, phase) == jobs' = (jobs \ {j}) \union {[j EXCEPT !.phase = phase]}
WorkerStep(n) ==
  /\ Runs(n)
  /\ UNCHANGED <<db, process, consumer, calls, sweep, lost, asked>>

(* eachMessage: the directive at the head of a partition is handled up to the
   first command sent to Redis; one directive at a time. *)
Consume(n, k) ==
  /\ WorkerStep(n)
  /\ \A j \in jobs : j.node # n
  /\ consumer[k] = n /\ bus[k] # <<>>
  /\ LET d == Head(bus[k])
         s == engine[n][d.t]
     IN  \/ /\ d.type = "assign" /\ s = "none"
            /\ SetEngine(n, d.t, Added(s))
            /\ NewJob(n, k, d.t, "added")
         \/ /\ d.type = "pause" /\ s # "none"
            /\ SetEngine(n, d.t, Paused(s))
            /\ NewJob(n, k, d.t, "paused")
         \/ /\ d.type = "resume" /\ s # "none"
            /\ NewJob(n, k, d.t, "resuming")
            /\ UNCHANGED engine
         \/ /\ (d.type = "assign") = (s # "none") \* already exists, or not found
            /\ NewJob(n, k, d.t, "done")
            /\ UNCHANGED engine
  /\ UNCHANGED <<keys, bus, committed, passed, budget>>

(* _ensureLease after addTorrent. *)
EnsureLease(j) ==
  /\ j \in jobs /\ j.phase = "added" /\ WorkerStep(j.node)
  /\ \/ /\ Acquired(j.node, j.t)
        /\ Advance(j, "done")
     \/ /\ AcquireDenied(j.node, j.t)
        /\ Advance(j, "denied")
  /\ UNCHANGED <<engine, bus, committed, passed, budget>>
RemoveDenied(j) ==
  /\ j \in jobs /\ j.phase = "denied" /\ WorkerStep(j.node)
  /\ SetEngine(j.node, j.t, "none")
  /\ Advance(j, "done")
  /\ UNCHANGED <<keys, bus, committed, passed, budget>>

(* _handleJobResumed: only a granted lease resumes the torrent. *)
ResumeLeased(j) ==
  /\ j \in jobs /\ j.phase = "resuming" /\ WorkerStep(j.node)
  /\ \/ /\ Acquired(j.node, j.t)
        /\ SetEngine(j.node, j.t, Resumed(engine[j.node][j.t]))
     \/ /\ AcquireDenied(j.node, j.t)
        /\ UNCHANGED engine
  /\ Advance(j, "done")
  /\ UNCHANGED <<bus, committed, passed, budget>>

(* _handleJobPaused: the lease goes after the torrent was told to pause. *)
ReleasePaused(j) ==
  /\ j \in jobs /\ j.phase = "paused" /\ WorkerStep(j.node)
  /\ ReleaseLease(j.node, j.t)
  /\ Advance(j, "done")
  /\ UNCHANGED <<engine, bus, committed, passed, budget>>

(* A Redis command of a handler fails; the exception is swallowed by
   processDirective.  The script may have run before. *)
RedisFails(j) ==
  /\ j \in jobs /\ WorkerStep(j.node)
  /\ \/ /\ j.phase \in {"added", "resuming"}
        /\ Acquired(j.node, j.t) \/ UNCHANGED keys
     \/ /\ j.phase = "paused"
        /\ UNCHANGED keys
  /\ Advance(j, "done")
  /\ Spend("faults")
  /\ UNCHANGED <<engine, bus, committed, passed>>

(* The handler returned, with or without an error: the offset is committed,
   unless the partition was taken away meanwhile. *)
Acknowledged(j) ==
  committed' = committed \union ({j.key} \intersect Key) /\ UNCHANGED passed
CommitToTheEnd(j) ==                                             \* mutant
  /\ j \in jobs /\ j.phase = "done" /\ WorkerStep(j.node)
  /\ jobs' = jobs \ {j}
  /\ bus' = IF j.key \in Key THEN [bus EXCEPT ![j.key] = <<>>] ELSE bus
  /\ Acknowledged(j)
  /\ UNCHANGED <<keys, engine, budget>>
Commit(j) ==
  /\ j \in jobs /\ j.phase = "done" /\ WorkerStep(j.node)
  /\ jobs' = jobs \ {j}
  /\ bus' = IF j.key \in Key THEN [bus EXCEPT ![j.key] = Tail(@)] ELSE bus
  /\ Acknowledged(j)
  /\ UNCHANGED <<keys, engine, budget>>

(* The heartbeat timer: leases of every torrent that is neither paused nor in
   error are renewed; a null answer, which is also what a failed command gives,
   is acted upon later, after the awaits for the other lost transfers. *)
ActiveOrOwned(n) ==                                              \* mutant
  {t \in Transfer : engine[n][t] # "paused" /\ (engine[n][t] # "none" \/ Owns(n, t))}
Active(n) == {t \in Transfer : engine[n][t] \in {"starting", "downloading", "seeding"}}
HeartbeatUnheard(n) ==                                           \* mutant
  /\ Runs(n) /\ Active(n) # {}
  /\ \E failed \in SUBSET Active(n), ran \in SUBSET Active(n) :
       /\ ran \subseteq failed
       /\ RenewLeasesBulk(n, Active(n), failed, ran)
       /\ IF failed = {} THEN UNCHANGED budget ELSE Spend("faults")
  /\ UNCHANGED <<db, engine, process, bus, consumer, committed, passed, jobs, calls, sweep, lost, asked>>
Heartbeat(n) ==
  /\ Runs(n) /\ Active(n) # {}
  /\ \E failed \in SUBSET Active(n), ran \in SUBSET Active(n) :
       /\ ran \subseteq failed
       /\ RenewLeasesBulk(n, Active(n), failed, ran)
       /\ lost' = lost \union {<<n, t>> : t \in Active(n) \ Renewed(n, Active(n), failed)}
       /\ IF failed = {} THEN UNCHANGED budget ELSE Spend("faults")
  /\ UNCHANGED <<db, engine, process, bus, consumer, committed, passed, jobs, calls, sweep, asked>>
PauseLost(n, t) ==
  /\ <<n, t>> \in lost
  /\ lost' = lost \ {<<n, t>>}
  /\ SetEngine(n, t, Paused(engine[n][t]))
  /\ UNCHANGED <<keys, db, process, bus, consumer, committed, passed, jobs, calls, sweep, asked,
                 budget>>

-----------------------------------------------------------------------------
(* The torrent's own progress.  A start may fail: "error" is here also the
   state stopped, in which a torrent without usable metadata ends up.  A request
   that waits for the start goes on, or ends with the failure. *)
Waiting(n, t) == {c \in calls : c.op = "start" /\ c.node = n /\ c.t = t}
Answered(W) == {[c EXCEPT !.op = "started"] : c \in W}
TorrentStep(n, t, from, to) ==
  /\ engine[n][t] = from
  /\ SetEngine(n, t, to)
  /\ UNCHANGED <<keys, db, process, bus, consumer, committed, passed, jobs, sweep, lost, asked>>
Ready(n, t) ==
  /\ TorrentStep(n, t, "starting", "downloading")
  /\ calls' = (calls \ Waiting(n, t)) \union Answered(Waiting(n, t))
  /\ UNCHANGED budget
Complete(n, t) ==
  TorrentStep(n, t, "downloading", "seeding") /\ UNCHANGED <<calls, budget>>
Fail(n, t) ==
  /\ TorrentStep(n, t, "starting", "error")
  /\ \E W \in {{}, Waiting(n, t)} : calls' = (calls \ Waiting(n, t)) \union Answered(W)
  /\ Spend("faults")

-----------------------------------------------------------------------------
(* The zombie sweeper of process n: read the rows, read their leases, then for
   each zombie update the row and dispatch it again. *)
SweepStep(n, found) ==
  /\ n \in Sweeper /\ Runs(n)
  /\ sweep' = [sweep EXCEPT ![n] = found]
  /\ UNCHANGED <<keys, process, jobs, calls, lost, asked>>
SweepRowsElsewhere(n) ==                                         \* mutant
  LET rows == {t \in Transfer : db[t] = "active" /\ engine[n][t] = "none"}
  IN  /\ sweep[n] = NothingFound /\ rows # {}
      /\ SweepStep(n, [NothingFound EXCEPT !.rows = rows])
      /\ UNCHANGED <<db, engine, bus, consumer, committed, passed, budget>>
SweepRows(n) ==
  LET rows == {t \in Transfer : db[t] = "active"}
  IN  /\ sweep[n] = NothingFound /\ rows # {}
      /\ SweepStep(n, [NothingFound EXCEPT !.rows = rows])
      /\ UNCHANGED <<db, engine, bus, consumer, committed, passed, budget>>
SweepLeases(n) ==
  /\ sweep[n].rows # {}
  /\ SweepStep(n, [NothingFound EXCEPT !.zombies = {t \in sweep[n].rows : Free(t)}])
  /\ UNCHANGED <<db, engine, bus, consumer, committed, passed, budget>>
RequeueZombie(n, t) ==
  /\ t \in sweep[n].zombies /\ sweep[n].queued = {}
  /\ SweepStep(n, [sweep[n] EXCEPT !.zombies = @ \ {t}, !.queued = {t}])
  /\ SetStatus(t, "queued")
  /\ UNCHANGED <<engine, bus, consumer, committed, passed, budget>>
DispatchZombie(n, t) ==
  /\ t \in sweep[n].queued
  /\ SweepStep(n, [sweep[n] EXCEPT !.queued = {}])
  /\ \E failed \in BOOLEAN : Dispatch(n, "assign", t, t, failed)
  /\ UNCHANGED db

-----------------------------------------------------------------------------
(* One unit of time.  A running process renews three times within a life time
   (10 s against 30 s), so the lease of a torrent that is active there does not
   run out, unless its heartbeats are late. *)
Renewing(n, t) == Runs(n) /\ t \in Active(n)
PassTime ==
  /\ Tick
  /\ IF \E t \in Transfer : leaseTTL[t] = 1 /\ Renewing(lease[t], t)
     THEN Spend("stalls")
     ELSE UNCHANGED budget
  /\ UNCHANGED <<db, engine, process, bus, consumer, committed, passed, jobs, calls, sweep, lost, asked>>

(* A process dies with all it has in memory, and is started again. *)
Dies(n) ==
  /\ process' = [process EXCEPT ![n] = "down"]
  /\ engine' = [engine EXCEPT ![n] = [t \in Transfer |-> "none"]]
  /\ jobs' = {j \in jobs : j.node # n}
  /\ calls' = {c \in calls : c.node # n}
  /\ lost' = {l \in lost : l[1] # n}
  /\ sweep' = [sweep EXCEPT ![n] = NothingFound]
  /\ UNCHANGED <<keys, db, bus, consumer, committed, passed, asked>>
Crash(n) == Runs(n) /\ Dies(n) /\ Spend("faults")

(* A member that is given partitions reads on behind the committed offset; where the
   group has committed none it begins at the end (workerConsumer.js:417,
   fromBeginning: false), and what is in the log is passed over. *)
ReadOn(given) ==
  LET fresh == given \ committed
  IN  /\ bus' = [k \in Key |-> IF k \in fresh THEN <<>> ELSE bus[k]]
      /\ passed' = passed \union {t \in Transfer : \E k \in fresh : Assigned(k, t)}
Restart(n) ==
  /\ ~Runs(n)
  /\ process' = [process EXCEPT ![n] = "up"]
  /\ ReadOn({k \in Key : consumer[k] = n})
  /\ UNCHANGED <<keys, db, engine, consumer, committed, jobs, calls, sweep, lost,
                 asked, budget>>

(* gracefulShutdown (a signal or an uncaught exception).  engine.shutdown stops the
   torrents, but for those that wait for a slot; then the producer closes.  Until
   worker.stop the worker consumes and renews with that engine; the sweeper and
   requests on open connections use it to the end.  The directive in hand is waited
   for, no lease is released. *)
ShutDown(n) ==
  /\ n \in Stoppable /\ process[n] = "up" /\ Spend("faults")
  /\ process' = [process EXCEPT ![n] = "closing"]
  /\ \E idle \in SUBSET {t \in Transfer : engine[n][t] = "starting"} :
       /\ engine' = [engine EXCEPT ![n] = [t \in Transfer |->
                       IF t \in idle \/ @[t] = "none" THEN @[t] ELSE "error"]]
       /\ \E failed \in SUBSET UNION {Waiting(n, t) : t \in Transfer \ idle} :
            calls' = calls \ failed
  /\ UNCHANGED <<keys, db, bus, consumer, committed, passed, jobs, sweep, lost, asked>>
Exit(n) ==
  /\ process[n] = "closing" /\ \A j \in jobs : j.node # n
  /\ Dies(n) /\ UNCHANGED budget

(* The consumer group gives partition k to n: its member is dead, or slow.  The
   message being handled, if any, is delivered again to n, if there is an offset. *)
Reassign(k, n) ==
  /\ Runs(n) /\ consumer[k] # n
  /\ consumer' = [consumer EXCEPT ![k] = n]
  /\ jobs' = {IF j.key = k THEN [j EXCEPT !.key = NoKey] ELSE j : j \in jobs}
  /\ ReadOn({k})
  /\ IF Runs(consumer[k]) THEN Spend("stalls") ELSE UNCHANGED budget
  /\ UNCHANGED <<keys, db, engine, process, committed, calls, sweep, lost, asked>>

-----------------------------------------------------------------------------
Api(n, t) ==
  \/ Create(n, t) \/ Pause(n, t) \/ Resume(n, t)
  \/ ResumeVerified(n, t) \/ Start(n, t) \/ Delete(n, t)
Handle(j) ==
  \/ EnsureLease(j) \/ RemoveDenied(j) \/ ResumeLeased(j) \/ ReleasePaused(j)
  \/ Commit(j)
Sweep(n) ==
  \/ SweepRows(n) \/ SweepLeases(n)
  \/ \E t \in Transfer : RequeueZombie(n, t) \/ DispatchZombie(n, t)

FleetNext ==
  \/ \E n \in Node, t \in Transfer : Api(n, t)
  \/ \E c \in calls : Finish(c)
  \/ \E n \in Node, k \in Key : Consume(n, k) \/ Reassign(k, n)
  \/ \E j \in jobs : Handle(j) \/ RedisFails(j)
  \/ \E n \in Node : Heartbeat(n) \/ Sweep(n) \/ Crash(n) \/ Restart(n)
  \/ \E n \in Node : ShutDown(n) \/ Exit(n)
  \/ \E n \in Node, t \in Transfer :
       PauseLost(n, t) \/ Ready(n, t) \/ Complete(n, t) \/ Fail(n, t)
  \/ PassTime

FleetSpec == FleetInit /\ [][FleetNext]_vars

(* Work that was begun goes on (answered commands return, Kafka delivers and
   rebalances, the container manager restarts what died: docker-compose.prod.yml,
   restart: unless-stopped) and timers fire.  Nothing is assumed of the API's
   clients or of a torrent's peers. *)
Work ==
  \/ \E j \in jobs : Handle(j)
  \/ \E c \in calls : Finish(c)
  \/ \E n \in Node, k \in Key :
       Consume(n, k) \/ (~Runs(consumer[k]) /\ Reassign(k, n))
  \/ \E n \in Node : Restart(n) \/ Exit(n)
Fairness ==
  /\ WF_vars(Work)
  /\ WF_vars(PassTime)
  /\ WF_vars(\E n \in Node : Sweep(n))
  /\ WF_vars(\E n \in Node, t \in Transfer : PauseLost(n, t))
  /\ \A n \in Node : WF_vars(Heartbeat(n))
FairFleetSpec == FleetSpec /\ Fairness
-----------------------------------------------------------------------------
(* Type invariant. *)
FleetTypeOK ==
  /\ LeaseTypeOK
  /\ db \in [Transfer -> Status]
  /\ engine \in [Node -> [Transfer -> EngineState]]
  /\ process \in [Node -> {"up", "closing", "down"}] /\ lost \subseteq Node \X Transfer
  /\ bus \in [Key -> Seq(Directive)]
  /\ consumer \in [Key -> Node] /\ committed \subseteq Key /\ passed \subseteq Transfer
  /\ jobs \subseteq Job /\ calls \subseteq Call
  /\ sweep \in [Node -> Found]
  /\ asked \in 0..MaxCalls
  /\ budget \in [{"faults", "stalls", "outages"} -> Nat]

(* leaseManager.js:9: "only one worker node can execute a specific transfer at
   any given time". *)
Downloaders(t) == {n \in Node : engine[n][t] = "downloading"}
AtMostOneExecutor == \A t \in Transfer : Cardinality(Downloaders(t)) <= 1

(* Two processes that download the same transfer do not go on for ever: the
   heartbeat of the one without the lease pauses it (workerConsumer.js:544). *)
SplitBrainEnds == \A t \in Transfer : []<>(Cardinality(Downloaders(t)) <= 1)

(* A row the sweeper looks at does not stay without a lease: it is requeued,
   acquired, or changed by a request, whatever dies in between. *)
Zombie(t) == db[t] = "active" /\ Free(t)
ZombieNoticed == \A t \in Transfer : []<>~Zombie(t)

(* An assignment in the log reaches an engine: when a crash or a rebalance cuts
   its handling short, it is delivered again.  Only what came before the group's first
   commit of a partition can be passed over, by a member that is given it too early. *)
Pending(t) ==
  \E k \in Key : \E i \in DOMAIN bus[k] :
    /\ bus[k][i] = [type |-> "assign", t |-> t]
    /\ i = 1 => \A j \in jobs : j.key # k
AssignedIsTried ==
  \A t \in Transfer :
    Pending(t) ~> (\E n \in Node : engine[n][t] # "none") \/ t \in passed

(* A lease whose owner's engine does not have the torrent (it crashed, or the
   torrent was deleted or denied) does not stay: it runs out unless the torrent
   comes back. *)
Orphan(t) == \E n \in Node : Owns(n, t) /\ engine[n][t] = "none"
OrphanLeaseEnds == \A t \in Transfer : []<>~Orphan(t)

(* docs/ARCHITECTURE.md:65: "If a worker crashes, its leases expire
   automatically after 30 seconds, allowing another worker to safely resume the
   job": a transfer that is wanted and that no engine has is taken up again. *)
Abandoned(t) == db[t] \in {"active", "queued"} /\ \A n \in Node : engine[n][t] = "none"
CrashRecovered == \A t \in Transfer : []<>~Abandoned(t)
=============================================================================
