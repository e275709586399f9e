# LightX2V: a verification development

LightX2V generates images and videos. Most of it is numerical code; this
directory is about the rest: the parts that coordinate threads, processes,
devices and machines. It holds TLA+ modules translated from the sources, TLC
configurations that check them on small instances, and theorems about them with
proofs checked by TLAPS. `PROJECT.json` lists components, runs, mutants,
findings, hazards and theorems, and maps every definition that models code to
the lines it models. Paths below are relative to `src/lightx2v/`.

Run TLC with `tlc -config X.cfg MCModule` and the proofs with `tlapm X.tla` for
the modules `*Proofs.tla`.

## 1. The system

| Component | State it keeps | Operations | What is hard |
|---|---|---|---|
| HTTP server (`server/`) | task table, counters, processing lock, stop events, in-memory images | submit, wait, cancel, complete, fail, clean up, evict | one thread and one event loop on a shared table; deadlines, disconnects and cancellations racing with results; ids chosen by clients |
| Distributed worker (`server/services/inference`, `server/services/distributed_utils.py`, `models/runners/base_runner.py`) | process group, stop signal, current task | broadcast a task, run it, agree to stop, meet at a barrier | every rank must reach the same collectives, also when one fails |
| Segment parallelism (`models/runners/seedvr/seedvr_runner.py`) | segments and tails of a video, a shared directory, pending sends | plan, hand tails on, meet, abort, unwind, join | ranks leave their loops in four ways while others wait for their tails; leftovers of failed requests |
| Meta rings (`disagg/rdma_buffer.py`) | head, tail and slots in one machine's memory | produce, consume | one-sided operations of several machines without a lock, wrap-around, failed operations |
| Data manager (`disagg/conn.py`, `disagg/services/data_mgr_sidecar.py`) | rooms, pools, statuses, an event | open, offer, pull, transfer, poll and remove a room | a transfer thread, room threads and pollers around rooms that come and go |
| Disaggregated services (`disagg/services/encoder.py`, `transformer.py`, `decoder.py`) | queues of rooms | take a request, wait for its input, run it, pass it on | each failure path must give the room back and tell somebody |
| Controller (`disagg/services/controller.py`, `disagg/scheduler`) | instances, pending rooms, results | dispatch, schedule, reclaim, collect | waits for results that other machines may have lost |
| Block offloading (`common/offload/event_manager.py`) | two device buffers, events, slot flags | prefetch, wait, compute, free | three device streams that run behind the host |
| Shared weights (`common/offload/shared_weight_coordinator.py`, `shared_pinned_arena.py`, `models/networks/base_model.py`) | Store, System V segments | discover, create, fill, attach, fail together | any rank may fail or die at any step; memory outlives processes |
| KV caches (`common/kvcache/`) | rolling windows, sinks, offloaded pages | append, roll, read | index arithmetic over long sequences of calls |
| Asynchronous VAE and media streaming (`utils/`) | bounded queues, worker threads | feed, drain, close | producers and consumers that end at different times |
| Models, kernels, front ends, training, ROS | tensors, files | | sequential |

How they interact. An HTTP request becomes a task in the table; the processing
thread takes it, and hands it to rank 0 of the worker, which broadcasts it to
the others and returns an image or a file; a long video is cut into segments
that the ranks work on in turn. In the disaggregated deployment the controller
puts a request into a ring, or sends it to the services it chose; an encoder
takes it, transfers its output to a transformer through a room and puts the
room into the next ring, the transformer does the same for a decoder, and the
decoder sends the result to the controller. Under both, the runner loads
weights through the shared arenas at start-up and streams blocks through the
event slots in every step.

What makes each component correct:

* server: an accepted task ends exactly once, tasks start in order and one at a
  time, the caps hold, a request is answered according to its own task's fate,
  and the thread never stalls;
* worker: no rank waits in a collective that another rank will not reach, and
  all stop in the same step;
* segments: they cover the video, a tail goes to the segment and the request it
  is for, a video counts as done only when whole, and nobody waits for a tail
  that will not come;
* rings: a first-in first-out queue whose items go to one consumer each;
* data manager: no transfer is overlooked, one room does not stop the transfers
  of others;
* services and controller: a room is computed with only when its tensors are
  there, gets a result unless something failed, and gives its memory back;
* offloading: the device computes with the block it was given and on the input
  of its own call;
* shared weights: all ranks end up with whole weights or none does, for the
  same stated reason, in bounded time, with no memory left behind.

The hazards, each at its line, are in `PROJECT.json`.

## 2. The modules

| Module | Models | Role |
|---|---|---|
| `TaskManager` | `server/task_manager.py` | the task table, one action per method; any caller in any order |
| `TaskServer` | `server/api/server.py`, `server/api/tasks/{image,common}.py`, `server/services/generation`, `service.py` | extends `TaskManager`: processing thread, endpoints, waiters |
| `TaskLifecycle` | | what the server promises; `TaskServer` implements it |
| `WorkerGroup` | `worker.py`, `distributed_utils.py`, `check_stop` and the denoising loop | ranks and their collectives |
| `SegmentParallel` | `seedvr_runner.py`, the parts on segments | extends `WorkerGroup`: requests in which the ranks go different ways |
| `RdmaRing` | `disagg/rdma_buffer.py` with the retry of `disagg/services/encoder.py` | a ring, its producers and consumers |
| `FifoQueue` | | what the ring promises; `RdmaRing` implements it |
| `RoomTransfer` | `disagg/conn.py`, `data_mgr_sidecar.py` | the two sides of a room and the transfer thread |
| `DisaggFlow` | `encoder.py`, `transformer.py`, `decoder.py`, `controller.py`, `scheduler/` | extends `RoomTransfer`: a batch of requests from end to end |
| `EventSlots` | `common/offload/event_manager.py` | host, streams, buffers |
| `StatusExchange` | class `_CPUStatusExchange` | one step per Store operation |
| `WeightArena` | `materialize_shared_weight_arena`, `_init_weights`, the segments | extends `StatusExchange`: what the ranks do between two exchanges |
| `TaskManagerProofs`, `TaskServerProofs`, `WorkerGroupProofs`, `SegmentParallelProofs`, `RdmaRingProofs`, `DisaggFlowProofs`, `EventSlotsProofs`, `WeightArenaProofs` | | theorems and proofs |
| `MC*` | | instances for TLC |

Operators commented "Faulty" belong to no specification. Each is what a
plausible mistake would make of the definition that follows it; with it in
place TLC finds a property violated, which shows that the property can fail.

### The server

`TaskManager` keeps a task as an object numbered in order of creation, with its
`task_id` a field: ids may be sent again once a record is gone, while the
processing thread and the stop events hold on to objects. Methods run under the
re-entrant lock, so each is one action, including the cleanup that
`create_task` ends with, the eviction in `complete_task` and the metrics.
The order of the `OrderedDict` and of the `end_time` stamps is kept as places
(`seat`, `ended`). `Open(i)` is what a report on id `i` may still change.

`TaskServer` cuts the processing thread where other threads can come between:
the scan of the queue, the fetch of the task, the lock, its record, `start_task`,
the stop checks, the inference, the report, the release. A waiter's status read
and its fetch of the image are two steps. The inference is one step that ends
in success, in no result after a seen cancellation, or in an exception, and
reports progress meanwhile. The event loop's own code between two awaits is
atomic, hence `ClientGone` never comes between a poll and what the poll decides.

### The worker and the segments

A collective is a numbered meeting of a process group, to which every rank
brings the operation it is in; it is over when all ranks have come, and only if
they brought the same one. `broadcast_task_data` is `Submit` and `Receive`. In
`WorkerGroup` a request is one that all ranks work on in lockstep:
`CheckStop` enters the all-reduce of the stop signal with what this rank sees,
`AgreeToStop`, `Raise` and `Infer` are what follows it; `Finish` and `Answer`
are the two sides of the barrier. Rank 0 alone sees a cancellation, which may
come at any moment.

`SegmentParallel` adds the requests of the SeedVR runner. The planning functions
are operators, checked over bounded inputs. The loop of a rank is cut at every
collective and every transfer of a tail: denoise (where the stop signal is
looked at), receive the tail, hand the own one on, save, settle. A rank that
stops, fails or gets an abort marker unwinds: it sends markers for the edges it
owes (`AbortOwed`), takes the tails still sent to it (`Discard`), waits for its
own sends (`Drain`), and takes part in the rendezvous that it owes. `channel` is
a gloo send that was not received yet, `held` the list `_sr_tail_sends`,
`scratch` the shared directory, which may hold files of a crashed server at the
start. `setup` chooses runner and transport, and where exceptions may occur.

### The ring

Every read, write, fetch-and-add and compare-and-swap is a step, and the writes
and reads of a slot are split into length header and body, so that a consumer
may read a torn slot. A config is a model value; a slot part holds the config
it is a part of. `Raise` is both the failure of `produce` and the caller's choice to
repeat it, `ProduceFault` and `ConsumeFault` are failed operations, and
`LostAcks` says whether a failed atomic may have been executed.

### Rooms and services

`RoomTransfer` has the data managers as records (rooms, pools, statuses, event)
and the transfer thread in steps: the event is cleared (`Wake`), a room found in
both pools is taken (`Pick`), announced and written (`Transfer`), and the final
status sent (`Report`). Opening, offering, pulling and removing a room are
conjuncts of the services' actions.

`DisaggFlow` cuts the loop of each service where other processes can come
between: taking a request, running it up to the publication of the metadata,
the offer of the tensors, taking up a ready, failed or completed room. The
encoder and the decoder remove their rooms themselves, a transformer's output
rooms are removed by its sidecar, which outlives the service. In ring mode the
metadata goes through the rings, in central mode the controller sends it to the
instances it chose. The rings are bounded sequences here; that `RdmaRing` may be
used as one is what `ImplementsFifo` says, for one producer.

Merged: a pull message is delivered when it is sent, since the room thread
either finds it or is woken by it; the first status message and the data, since
a receiver does nothing with "transferring"; the encoder's request, computation
and publication, since nobody sees the room before; the sidecar's poller with
the action of the service that takes up its result.

### Offloading

The host's program is translated statement by statement into a function from
the issued work to the issued work (`prefetch_to_slot`, `wait_ready`,
`record_free` keep their names); `Begin` and `End` let the streams execute it in
any order that waits and events allow. An exception may come out of
any block and any copy. `residents` is any subset of the blocks, chosen at the
start.

### Shared weights

`StatusExchange` numbers the calls, posts, looks for the peers one by one, and
keeps the first failure. `WeightArena` adds the stages: preflight, discovery,
creation (shmget, shmat, IPC_RMID, filling), attachment (IPC_STAT, shmat,
registration), the rest of the initialization, and the closing on each failure
path. `segment` is the kernel's view. With `Outages`, processes die,
connections break and waits time out. A rank goes on to the next model after a
failed one too: the exchange outlives the attempt (it is kept per process
group), so that its memory of the failure and its numbers matter.

## 3. The runs

| Run | Instance | Question |
|---|---|---|
| `task_table` | 4 tasks, 3 ids that may be reused, queue of 2, 2 records, 1 image | does the table keep its promises whatever is called in whatever order? |
| `task_server` | 3 tasks with ids of their own, 2 synchronous requests | does the server implement `TaskLifecycle` and answer truthfully? |
| `task_server_reuse` | 3 tasks, 2 ids, fair | does everything end, also with reused ids? |
| `worker_group` | 3 ranks, 2 requests, lockstep with 2 steps or videos of 1 and of 5 segments, gloo or files, 1 exception, fair | do the ranks meet, stop and end together, and is a video whole? |
| `segment_unwind` | 2 ranks, a video of 6 segments, gloo, fair | does a chain of ranks come undone by itself? violated, see below |
| `ring_one_producer` | 5 configs, 2 slots, 2 consumers, 1 failed operation | is the ring a queue? |
| `ring_lost_acks` | 2 configs, 2 slots, fair | what is left when acknowledgements are lost? |
| `ring_two_producers` | 2 producers | violated, see below |
| `disagg_flow` | 2 requests; 1 transformer behind rings of 1 slot, or 2 with direct dispatch; 1 failure or reclaim, fair | does every request get its result and give its memory back? |
| `event_slots` | 5 blocks, all resident sets, 2 calls | do the streams respect the slots? |
| `weight_arena` | 2 ranks, 2 models, 2 faults | safety of the shared initialization |
| `weight_arena_errors` | 3 ranks, 1 error, no time-outs, fair | does the exchange alone keep ranks from waiting? |

The properties:

* table: `ActiveKept`, `IdsUnambiguous`, `QueueBounded`, `PngBounded`,
  `CountersExact`, `TerminalForever`, `OldestRecordsDeleted`;
* server: `RunningIsCurrent`, `GivenUpIsStopped`, `LostOnlyToNewer`,
  `AnswerMatchesTask`, `ImplementsLifecycle`, `EveryTaskEnds`,
  `EverySyncAnswered`;
* worker: `MeetingsAligned`, `StopsTogether`; segments: `SegmentsCover`,
  `TailsBelong`, `NothingAbandoned`, `SuccessIsWhole`, `EveryRequestEnds`, and
  `ChainUnwinds`, which is violated. `EveryRequestEnds` exempts the requests
  that one known stall holds up (`FailedUnmet`, see below), and no others;
* ring: `PublishedIsWritten`, `ClaimIsFresh`, `ImplementsFifo`,
  `PublishedIsConsumed`. With lost acknowledgements a producer that repeats an
  executed fetch-and-add publishes its config twice; the order is still kept;
* rooms: `NoMissedPair`, `MoverLives`; services: `WholeWhenUsed`,
  `EveryRoomAnswered`, `RoomsReleased`. Rooms that a listed failure ends without
  a result are in `lost`, see section 5;
* offloading: `RunsOwnBlock`, `InputIsStable`, `SlotsRecycled`;
* shared weights: `SameCause`, `WholeWeights`, `FailureReachesAll`, `NoOrphan`,
  `FailedHoldsNothing`, `EveryRankEnds`. `NoOrphan` states the one gap there is:
  a creator that dies between shmget and IPC_RMID leaves a segment behind.
  `FailureReachesAll` speaks of the model that failed. A failure that was left
  in the Store ends later models too; ranks that all lost their connections
  while they failed leave none, and initialize the next model.

Type invariants are stated in every module and proved (section 4); every
safety property of this list is proved as well, so that the runs are left to
show the liveness properties and that the models do what they should.

**Bounds, and why they are enough.** `MaxTasks`, `MaxSync`, `MaxRequests`,
`Configs`, `Rooms`, `MaxCalls`, `MaxExchanges`, `Models`, `MaxFailures` and
`MaxFaults` are the bounds on otherwise unbounded counters. The table has more
tasks than ids and more ids than places in the queue, and as many records kept
as leave a cleanup on the third creation, so that ids come back, submissions
are refused, records and images go. The ring of two slots wraps around twice
with five configs, while one consumer sleeps on an old head. Three ranks with
five segments each own one or two of them and so send at most two tails, the
first and the last rank differ, and a rank in the middle can be waited for from
both sides; the second request meets whatever the first left in the directory,
the channels and the process groups. More than two segments per rank are left to
`segment_unwind`: there `EveryRequestEnds` does not hold. The exception may come
at every place of the loop, with gloo and with files. `SegmentsCover` is
evaluated for all videos up to 14 frames.
Two rooms in rings of one slot make every ring full and empty; two transformers
are what makes reclaiming one possible, with the other as its successor. Five
blocks make each slot used three times when none is resident, and every
alternation with residents occurs; the second call starts from whatever the
first one left, normally or after an exception. Two faults are enough for two
ranks to fail at once for different reasons, and for a rank to die while
another is failing; the second model shows what the exchange remembers of the
first. `MaxExchanges` is five per model, the most a rank makes. Ids, configs
and consumers are symmetric in the safety runs.

**Fairness.** The server's thread runs and the pipeline returns, the event loop
polls and its clock passes the deadline: weak fairness of `LoopStep`, of each
waiter's step and of its deadline. Clients owe nothing. A rank of the worker
goes on with its program, computation and collectives included, whenever it
can: weak fairness of `RankStep(r)`; nothing makes requests, cancellations or
exceptions happen. In the ring, services poll and operations come back: weak
fairness of each process; no fairness for requests or faults. Each service
loop, the controller, each transfer thread and each sidecar go on while they
have something to do: weak fairness of each as a whole; a part of a loop cannot
be put off for ever, as each request gives each part work once. A rank that
initializes weights is scheduled (weak fairness), and a wait that goes round
often enough reaches its deadline: strong fairness of `TimedOut`, since the loop
leaves and re-enters the state in which the clock is looked at. It is void
without `Outages`.

**Deadlock** is not checked: every bounded instance stops when its bounds are
reached, and processes may stop for good.

**Findings.** (1) In a chain of segments two ranks that abort wait for each
other (`models/runners/seedvr/seedvr_runner.py:766`): each sends markers for all
edges it owes before it receives any, and a marker is sent only when the one
before was received. With two or more further edges on both sides neither goes
on until the tail's time-out, contrary to the comment at line 873. A video of at
most two segments per rank is not affected, and `worker_group` has no longer
ones.
(2) Two producers of one ring take the same slot (`disagg/rdma_buffer.py:274`),
though several encoders and several transformers share a ring: a config is lost
and an unwritten slot published. All other properties of the ring are stated
for one producer. Besides, a comment at `server/api/server.py:139` says that a
cancelled task runs to its end; the runner stops it between two steps, and
`TaskServer` is modelled after that.

A third disagreement has no run of its own: `EveryRequestEnds` names it as its
only exception, and without that exception `worker_group` ends in it. A rank
that fails before the first rendezvous of a request, because it cannot make the
output directory, should leave the tails alone, for "in that case the peer has
not even begun to wait for this tail" (comment at `seedvr_runner.py:876`).
Whether it does is decided by a process group that is kept from one request to
the next (lines 880 and 906, created at 706). From the second request over gloo
on, the rank sends a marker and waits for a peer to take it, or waits for the
tail of a peer, while the peers sit in the rendezvous that only this rank can
complete, until the tail's time-out of 15 minutes. The first request of a server
and the transfer as files are not affected.

## 4. The proofs

`TaskManagerProofs` proves, for every number of tasks, set of ids and value of
the caps (under `ManagerAssumption`: the caps are positive numbers, `NoId` is no
id), that `ManagerSpec` implies `[]ManagerTypeOK`, `[]ActiveKept`,
`[]IdsUnambiguous`, the three caps, `[]CountersExact`, and `TerminalForever`.
The inductive invariant `Inv` adds two facts: `CreatedInOrder` (tasks are
created in the order of their numbers and only created tasks are in the table:
without it the counters could not be tied to the statuses) and
`PhaseWhileRunning` (only a running task has a phase: without it an ended task
could lose its phase late). The work is in the lemmas about finite sets: that sorting gives places
to exactly its members, that the k that ended first are at least k
(`OldestTaken`, for `TableBounded`), that one image goes when one too many
comes (`EvictionKeepsCap`, for `PngBounded`), and that changing one status
changes one count (`OneMore`).
`OldestRecordsDeleted` rests on a second invariant, `OrderInv`: no two records
have the same place in the table or in the order of ends, and exactly the ended
tasks have one there (`ToEndOrder`: what is moved to the end keeps the others in
their order). With it the k that ended first are also at most k
(`OldestAreFew`), so that a cleanup takes no more than the surplus.

`TaskServerProofs` proves that every step of the server is a call the table
allows or leaves the table alone (`ServerUsesTable`: `Safety => ManagerSpec`),
so that all theorems of the table hold in the server; and that `ServerTypeOK` and
`RunningIsCurrent` are invariants whether or not ids are reused. The
strengthening `LoopInv` says where the thread's knowledge is still good: the
task in hand exists; until it is settled only a cancellation can have ended it
(`TaskInfoOpen`), and past the stop check no other task runs under its id
(`OnlyTaskInfoRuns`), which is what makes the report by id end the right task.

The second half of `TaskServerProofs` is about the promises to the clients.
`[]GivenUpIsStopped` holds also when ids are used again: a deadline or a
disconnect is a cancellation first (`NewlyGivenUp`), a cancellation under the id
of a created task leaves that task ended, and an ended task stays so. The others
assume `~ReuseIds`, from which no two tasks ever have the same id (`FreshIds`),
so that every call under an id finds its own task or none (`FoundIsOwn`).
`[]AnswerMatchesTask` follows since what a waiter says of a task is of its end
and stays true (`AnswerInv`). `[]LostOnlyToNewer` needs that images, held or
under way, are of synchronous requests (`ImagesOfSync`) and that behind a record
that lost its image there is a whole cache of newer ones (`GoneToNewer`): an
eviction takes the oldest of a full cache (`EvictedIsOldest`), and newer
completions do not get fewer because the order of ends is kept (`EndsKept`).
`ImplementsLifecycle` is the refinement of `TaskLifecycle`: the queue in the
table has the order of creation (`QueueInOrder`), and the thread, which scans,
fetches and starts in separate steps, holds a task that is at the head of the
queue or no longer in it (`HeadInHand`), whatever was created or cancelled in
between; `RunningIsCurrent` gives that nothing else runs when it starts.

`WorkerGroupProofs` proves `[]WorkerTypeOK`, `[]MeetingsAligned` and
`[]StopsTogether` of `WorkerSpec`, for every number of ranks, steps and
requests. `MeetingsAligned` is not inductive, for it does not say why a rank
that is behind will bring the operation the others brought. The invariant
compares any two ranks by the last collective they have entered: ranks that
entered equally many are in the same place of the same request (`SamePlace`),
and one that entered one more is where the other goes next (`NextPlace`), with
what it goes by, the reduced stop signal, fixed in the meeting that both have
left. No rank is further ahead, because a meeting ends only when all have come.

`SegmentParallelProofs` is about any number of ranks (more than one), segments,
requests and failures, both transports and both runners, under
`SegmentAssumption`. First the plan: `PlanCovers` states `SegmentsCover` for a
video, a segment length and an overlap of any size; the balanced segments are
cut out of a walk with stride `BalancedLen - overlap`, and the arithmetic is in
lemmas on rounding up (`CeilShift`, `PlanOfLong`). `[]NothingAbandoned` needs
only where a rank may be that keeps its list of sends (`HeldInv`).

`[]MeetingsAligned` and `[]StopsTogether` follow from `Together`: with a runner
of lockstep requests the invariant of `WorkerGroupProofs`, with videos
`VideoInv(b)`, where b is the number of rendezvous held before this request. The
argument of the lockstep requests does not carry over, for ranks in one request
are at quite different places. Instead the number of rendezvous a rank has
entered is given by its own state alone (`Rounds`: whether it knows the
directory, whether it owes none), and `Spot` says what a rank at each place
knows of the two rendezvous of the request: a rank that unwinds without the
directory knows that the first told of trouble, one that has settled and
unwinds that the second did, and so on. As a rendezvous is over when all came,
and what it told is fixed then, no rank can skip one that another waits for.

`TailsBelong` and `SuccessIsWhole` need the data too. `Data(b)` says how far
each rank is with its own hand-offs (`Progress`: in the segments all before the
one it is at, in the unwinding the first of them, and all when it leaves), and
that the tails under way, in the channels or in the directory, are exactly those
sent and not taken, one for each edge (`Wire`). What makes this inductive is the
ledger of ranks that are done: they forget what they sent and took, but it was
everything or nothing, according to what the first rendezvous told (`SentBy`,
`TakenBy`), and whether a rank has the process group that outlives requests
(`Linked`) agrees with that. A gloo channel holds one tail of its owner, and
each owner sends its edges in order, so that the head of the channel is the one
that is due (`DueTail`). `SavedFiles` says that the files were saved in this
request and with which tail, and `Causes` that no marker is under way and no
rank leaves without success unless somebody raised. When rank 0 joins the files
the second rendezvous told of nothing, hence nobody did (`AllWell`); and as many
files as segments, of different segments, are all of them (`AllFiles`).
`[]SegmentTypeOK` follows from the same invariants and `Kept`, that a send which
nobody received is in the list of its rank.

`RdmaRingProofs` is about one producer, whatever the size of the ring, the
modulus of the counters (greater than the size), the consumers, configs and
failed operations, and whether or not acknowledgements are lost. Its
assumption `OneProducer` is needed: the run `ring_two_producers` shows what
happens otherwise. It proves `[]RingTypeOK`, `[]PublishedIsWritten`,
`[]ClaimIsFresh`, and that the ring implements `FifoQueue` (`ImplementsFifo`).
The invariant says who owns which slot: the counts between head and tail have
written slots that nobody writes, the producer writes at the tail and only when
that slot is free, what a consumer has read is what was published unless the
head has moved on since, and then its compare-and-swap fails. The arithmetic
is in a few lemmas: counts less than a size apart have different slots, and the
difference modulo the counters' width is the true one as long as it is small.

`DisaggFlowProofs` is about any number of requests and transformers, every
deployment and any number of failures and reclaims (`FlowAssumption`,
`NodesDiffer`). It proves `[]RoomTransferTypeOK`, `[]NoMissedPair`,
`[]MoverLives` and `[]WholeWhenUsed` from one invariant of two halves. The first
follows a room through the queues: in the chain of rings it is at one place only
(`RingOrder`), in the controller's inboxes it comes once (`InboxOrder`), and
what a service has taken up never comes to it again (`OwnedOnce`). Without it a
room could be opened twice, and a status of its first life be taken for one of
the second. The second half is about the data managers: a room that is still to
come is unknown to its sender (`Unknown`), one that is offered is watched and
open (`SenderOwns`), one whose transfer is under way has no final status yet, so
that neither service nor sidecar removes it and the transfer thread cannot raise
(`Announced`), and good news is true when it is sent and when it has come
(`ReportTrue`, `InputTrue`). That a thread which waits without its event set has
no pair to move (`NoMissed`) rests on the order of clearing the event and
looking at the pools.

`WeightArenaProofs` is about any number of ranks and replica groups, models and
faults, outages included. It proves `[]ArenaTypeOK`, `[]SameCause`, that the
first failure in the Store stays there, and `FailureReachesAll`. The invariant
has one part per idea: a rank in exchange called it for the stage its step
names (`CallInv`); a number is posted once and in order (`PostedInv`, without
which a status could change after somebody saw it); who is no longer waited for
has succeeded (`WaitInv`); and a rank with k stages behind it is one that all
ranks succeeded in k stages with, under the last k numbers (`StageInv`). Every
action of the arena is first shown to be of one of eight kinds (`StepKinds`),
and the parts are proved kind by kind.

The second half of `WeightArenaProofs` is about the segments, for any grouping
of the ranks into replica groups: `[]WholeWeights`, `[]NoOrphan` and
`[]FailedHoldsNothing`. The argument that no rank attaches to a segment before
it is filled is one about two ranks and the Store. A leader whose segment is not
filled is still making it, or failed to and reports that (`Making`): its last
agreed stage is the discovery. A rank that attaches has seen all ranks agree on
the population (`StageInv`), its leader included; as a leader posts once under a
number, both cannot be (`AttachSeesWhole`). Hence to the segments of other
leaders a rank can do only two things, attach when they are filled and detach
(`ForeignSegments`), and what a rank holds is touched by itself alone
(`OthersHold`).

`EventSlotsProofs` is about stacks of any depth, any set of resident blocks and
any number of calls. It proves `[]EventTypeOK`, `[]RunsOwnBlock`,
`[]InputIsStable` and `[]SlotsRecycled`. None of them is inductive, for the
device runs behind the host: what it will do is decided by what was issued. The
invariant therefore speaks of all operations ever issued. A run has a copy of
its block into its slot before it, and any later copy into the slot waits for
the run unless it is done (`RunsGuarded`); the same holds for a run and the
inputs of its own and of later calls (`CallsGuarded`). For new operations to keep
this, the free event of a slot must cover all runs that used it (`FreeCovers`),
a pending slot must hold what its ready event says (`Staging`), and the blocks
in the slots must be the next two of the loop (`InOrder`), from which it also
follows that no flag is misused. `FreeCovers` fails after an exception; the
synchronization in the except clause makes it true again, since all runs are
done then. What the host appends is reduced to a few lemmas about plans, the
record of what has been issued (`PrefetchEffect`, `RunGuards`,
`CopyRaisedGuards`), and the device's steps only make the guards easier
(`LaterGuards`).

Only model-checked are the liveness properties (`EveryTaskEnds`,
`EverySyncAnswered`, `EveryRequestEnds`, `PublishedIsConsumed`,
`EveryRoomAnswered`, `RoomsReleased`, `EveryRankEnds`): fairness and ENABLED are
outside the prover's reach. So is induction over data: no theorem computes a
recursive definition for every input.

## 5. What is not modelled, and why

* Server: the video and OpenAI endpoints (same calls), files, a second
  processing thread after a join that timed out.
* Worker: an exception that a single rank meets in a lockstep request
  (`worker.py:205`): it goes to the barrier while the others are in an
  all-reduce, and the code has no way out but the time-out of the library. The
  pause signal is never set and nobody calls the shutdown broadcast.
* Segments: time limits of the transport, sequence parallelism of the VAE,
  tensor output. A request that fails before its first rendezvous is unwound
  over the process group of an earlier one (`_sr_tail_pg`, `CanUnwind`) and
  stalls; `EveryRequestEnds` exempts this and nothing else (section 3). An
  exception before the loop itself (probing the video, planning) is not
  modelled: a rank that meets one alone goes to the barrier while the others are
  in the rendezvous.
* Ring: the contents of configs; a body under another config's length that
  parses by having the same length is read as that body.
* Rooms and services: the metadata rings are sequences, in which nothing is lost,
  doubled or reordered. `RdmaRing` promises that for one producer whose failed
  operations were not executed. With lost acknowledgements it publishes a config
  twice, and with several producers, which the phase-2 ring has as soon as there
  are several transformers, it loses one (finding 2). `MoverLives`,
  `EveryRoomAnswered` and the other properties of `DisaggFlow` hold relative to
  rings without these faults: a doubled or lost message is not among the
  failures it models. Not modelled are
  sockets, buffers, synchronous mode, the gate that waits for the controller's
  acknowledgement, time limits of transfers, and the sidecar's request socket
  (which stays unusable after a time-out, `data_mgr_sidecar.py:758`). In central
  mode encoder and transformer fill rings that nobody reads (`encoder.py:683`):
  the model does so too, and requests fail when these are full.
* Rooms lost by design: an input that failed or a room that could not be
  started is dropped without a message to the controller
  (`services/decoder.py:421`); a final status is not sent when the poller has
  removed the room first (`conn.py:178`); a reclaimed transformer takes along
  what it was sent; a full request ring ends the batch. The controller waits for
  their results without a time limit. `lost` keeps account of them.
* Controller: starting and scaling instances, requests without a result path,
  draining. A sidecar is taken to outlive its service; in remote mode the
  controller stops it at once (`controller.py:1551`), and a drain that takes too
  long is cut off.
* Arena: NUMA binding and the regions of CUDA registration; unregistering,
  detaching and removing are taken to succeed, so the quarantine of a mapping
  that cannot be closed does not occur; the runs have one replica group.
* The transports (`disagg/rdma_client.py`, `rdma_server.py`, `mooncake.py`),
  the Store, collectives, device streams and the kernel's segments are modelled
  by what the code assumes of them.
* KV caches and the streaming of media: sequential index arithmetic and queues
  of the standard library; the next candidates.
* Models, kernels, training and front ends: no state shared between actors.

## 6. Plan

1. Proofs: the safety part of the liveness properties, such as that a rank in
   the segments of a video with files never waits for a tail that nobody sends.
2. `WorkerGroup` as what the inference step of `TaskServer` stands for.
3. `RollingCache`: the window arithmetic of `common/kvcache` against a
   reference definition of the visible frames.
4. The controller's scaling and draining, and the ring of `RdmaRing` in
   `DisaggFlow` in place of a sequence.
