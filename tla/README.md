# O-DSS in TLA+

O-DSS is a spectrum-sharing loop. A base station (srsRAN with an E2-lite agent)
reports KPMs and I/Q samples to an intermediary (the IMI); the radarxApp reads
both from a shared data layer (the SDL, redis), decides whether a radar is on
the air and which physical resource blocks (PRBs) it occupies, and has the base
station blank them. This directory models that loop, what the base station does
with a blanked range and with its I/Q samples, the agent and the queue that keep it
connected, and the parts of the full E2 build with a state of their own: KPM
subscriptions and the slicer. TLC checks the models, and TLAPS proves their most
important safety properties. Paths below are relative to the repository.

## 1. The system

| Part | Source | State | Operations |
|---|---|---|---|
| radarxApp | `radarxApp/radar.py` | mode (KPMs or I/Qs), last metrics, last spectrogram, last PRB range | read KPMs, read spectrograms, send `b'k'`, `b'i'` or a PRB pair |
| IMI | `imi/imi.py` | the global `command`, KPM index, last I/Q buffer | one thread receives commands; one thread per base station sends `command`, receives the answer, stores it |
| E2-lite agent, messages | `srsenb/src/ric/agent.cc`, `handle_message` | the command and PRB files, the buffer of an answer | store a command, answer with KPMs or I/Q chunks |
| E2-lite agent, life cycle | `agent.cc`, the rest | state, task queue, reconnect delay, socket | connect, disconnect, reset, stop |
| Rx socket manager | `lib/src/common/network_utils.cc` | handlers, descriptor sets, control pipe | add and remove a socket, stop; its thread reads and dispatches |
| Task queue | `lib/include/srsran/common/multiqueue.h` | bounded FIFOs | push, pop, add and deactivate a queue |
| Uplink scheduler | `schedulers/sched_time_pf.cc` | uplink mask of a subframe | read the PRB file, blank, grant |
| I/Q capture | `srsenb/src/phy/txrx.cc` | temporary and saved file | append a subframe, rotate the files |
| E2AP, KPM subscriptions, timers | `ric/e2ap_handle.cc`, `ric/e2sm_kpm.cc`, `ric/timer_queue.cc` | subscriptions, periods, timers | subscribe, delete, reset, report; full E2 build only |
| NexRAN service model, slicer | `ric/e2sm_nexran.cc`, `stack/mac/slicer.cc` | two tables of slices and members, a cycle of subframes, identities | configure, delete, bind, unbind, status; full E2 build with `ENABLE_SLICER` |

How they meet:

- radarxApp -> IMI: one SCTP association carrying `b'k'`, `b'i'` or two ints.
- IMI <-> base station: one SCTP association; after a greeting the agent does
  not answer, a command down and its answer up, in lock step.
- The SDL: the IMI writes KPM entries `kpm_0` .. `kpm_99` and the key `new_spec`,
  and empties the KPM namespace before the index starts over; the radarxApp reads.
- The PRB file: written by the agent thread, read by the MAC scheduler. The I/Q
  file: written by the PHY thread, read by the agent thread.
- Inside the base station: the rx thread turns what a socket delivers into tasks
  for the agent thread; the main thread stops the agent at termination.
- In the full E2 build a timer thread queues a task for the agent thread whenever a
  report is due; RRC and MAC hand the slicer the identities they see, while the agent
  thread configures it.

What is hard about it:

- `command` in the IMI is a global read several times per round while another
  thread writes it (`imi.py:92-141`), so a question and the kind of answer
  waited for can part.
- The radarxApp's mode and the IMI's command are one decision kept in two
  places, with a network in between and no acknowledgement.
- KPM entries are found by key order, while keys start over (and survive a crash).
- Three threads and a peer share the agent's connection; a descriptor may be
  reused; a push made under a mutex could block the thread that would release it.
- Any step may fail half-way: a file emptied and not yet written, a flush refused,
  an eNB killed between two renames.
- A range taken out of a subframe meets grants made before it was read and
  retransmissions of data sent in it before.
- A UE is an IMSI to the RIC, an RNTI to the MAC and a TMSI in between; the three
  are matched from messages that come in any order, and RNTIs are given out again.

What makes each part correct: the radarxApp never waits for data nobody asks
for and sends only ranges inside the carrier; the IMI reads the answer to the
question it asked, and stores entries so that the newest are found; the agent
applies commands in order, always comes back to a connection and can always be
stopped; the rx thread never touches a closed descriptor and never blocks for ever;
the scheduler grants no PRB twice and none that is blanked, and the UE sends what it
was granted; an answer's samples come from one run and are recent; a queue keeps
what it was given, in order, and lets its users go; what was granted, and only
that, is reported; a UE bound to a slice is served in it (with exceptions that section 5
names).

## 2. Modules

| Module | Models | Extends |
|---|---|---|
| `DssShared` | associations, SDL, files: what the processes share, and its types | - |
| `RadarXApp` | `radar.py`, `entry` | `DssShared` |
| `Imi` | `imi.py`, `handle_clients`, `handle_xAppClient` | `DssShared` |
| `E2LiteAgent` | `agent::handle_message` with its files, one PHY capture as a step | `DssShared` |
| `SpectrumLoop` | the composition, fairness, properties | the three above |
| `SocketManager` | `socket_manager`: its thread and what other threads call | - |
| `E2Agent` | agent thread, rx thread, main thread and peer, with properties | `SocketManager` |
| `UlGrid` | the searches for PRBs in an uplink mask | - |
| `UlBlanking` | an uplink subframe from PHICH to CRC, around the PRB file | `UlGrid` |
| `IqFile` | the rotation of the capture file and the agent's read | - |
| `TaskPorts` | what a multiqueue promises: bounded FIFO ports | - |
| `MultiQueue` | `multiqueue_handler` with its locks; implements `TaskPorts` | - |
| `KpmSubscriptions` | E2AP requests, KPM model, timer thread | - |
| `Slicer` | `slicer.cc` | - |
| `NexRan` | control requests of `e2sm_nexran.cc` | `Slicer` |
| `SlicedCell` | RRC, MAC and RIC around the slicer, with properties | `NexRan` |

`MCSpectrumLoop`, `MCUlGrid`, `MCUlBlanking`, `MCKpmSubscriptions` and `MCSlicedCell`
hold instances of constants for TLC (`MCUlGrid` also the reference definitions the
searches are compared with). `*_proofs` modules hold the theorems about the module
they are named after.

### The loop

One action stands for the code between two accesses to shared state.

- `RadarXApp`: `FindKeys` is `find_keys`; the `get` that follows and the decision
  taken on it are `GetNothingNew`, `NoRadarInKpms` or `RadarInKpms`, or
  `KpmBranchFails` when the SDL or the classifier raises (`except Exception`).
  `GetSpectrogram` is `get_bytes` and the comparison with the last one;
  `DetectionUsable`, `DetectionOutOfCarrier` and `NoDetectionMade` are the
  three outcomes of the detector. Metrics are reduced to what the code compares:
  whether a UE is idle, and whether its block error rate is below 5
  (`RadarLikely`; the code overrides the classifier with this comparison).
- `Imi`: `ReceiveCommand` is the xApp thread. `SendCommand`, the three reads of
  `ChooseBranch`, `ReceiveKpms`, `FlushDatabase`, `ReceiveIq` and
  `StoreSpectrogram` are the base-station thread. `ReceiveIqAsKpms` is a
  20-byte receive that meets I/Q data. `outOfStep` records that a branch was
  taken for another command than the one sent; no guard reads it. A spectrogram that
  cannot be saved or stored ends the thread (`failed`).
- `E2LiteAgent`: `OpenPrbFile` and `WritePrbFile` are separate because `fopen`
  truncates and a reader may look in between; `OpenFails` and `WriteFails` are
  the error returns. An I/Q answer is `Chunks` messages of one buffer.

The constant `Faults` says whether the SDL and the classifier may fail;
`SpectrumLoop.cfg` leaves failures out to stay small, `SpectrumLoopKpms.cfg`
has them, and the proofs hold for both values. Command numbers `n`, report times `ts` and capture numbers `cap` are
carried to observe order. No guard reads `n`; `ts` stands for the metric values
in the radarxApp's comparison with the last ones, `cap` for the bytes of a capture.

### The agent

The agent thread is idle, or at a step of the task it runs (`apc`): `disconnect`,
which requests the removal of the socket, waits for it and closes it, is a
subroutine with its return place in `after`. The queue holds tasks with the
number of the connection they were made for (observed). `Receive` is the SCTP receive task: it needs
a byte buffer and pushes under `socket_mutex`. A peer that shuts down yields the
notification and then an empty message at every read. `link = "lost"` is a
connection that ended without a shutdown. `mpc` is the main thread in
`agent::stop`. `ConnectSetupFails` stands for three failures of `connect()`, one of which
closes the socket (`agent.cc:454`) and one of which does not (436-444). With `E2_LIKE` the two states CONNECTED and ESTABLISHED differ in
nothing the code tests, and are one.

### The uplink

`UlBlanking` follows one HARQ process per UE: the subframes of a process are every
eighth, hence all even or all odd (`even`), which matters because the scheduler places
UCI before it reads the PRB file in one kind and after it in the other. A subframe is
`NewSubframe` (HARQ time-outs, Msg3 grants made in advance, PHICHs), `BlankPrbs` (the
file is read, the mask reduced), `UciGrant` and `UlUser` (one UE each), `SendSubframe`
and `CrcInfo`. The UE's side of the process is srsUE's `ul_harq.cc`, so that the two
counts of transmissions can part. `UlGrid` has the searches as functions of a mask.
The agent's two writes to the file come at any moment before the read.

### The queue

In `MultiQueue`, what a thread does under a port's `q_mutex` is one step; a
notification after the unlock, a wait and the return from it are steps of their own,
because another thread may come in between. The consumer's `try_lock` may fail
whenever some thread is about to take that mutex. `KeepsPromise` says that this
implements `TaskPorts` with the mapping `open`, `box`, `call`: a port is open while
it is active, holds its buffer, and a push is under way until the step that stores or
refuses it. A handle ends with one deactivation (`EndHandle`); `reset()` makes two, the
second through the deleter (`ResetHandle`, `again`), and between them the port may have been
given to another client, who finds it closed. `E2Agent` uses the queue in that abstract form, as a bounded FIFO.

### The capture

`IqFile` has a step for each call of the C library on either file and for the death
and restart of the eNB between any two of them. A sample is its run, its subframe and
its place in it. `E2LiteAgent` takes the file as one capture or nothing; `IqFile` says
when that is right.

### Subscriptions

`KpmSubscriptions` is the build without `E2_LIKE`. The agent thread handles a request in
as many steps as it takes `timer_queue::lock` (`HandleAdd`, `EnterPeriod`, `Respond`);
the timer thread calls back with that lock held and pushes to the agent's queue
(`TimerFires`, `TimerPushes`). The KPM model's own mutex is left out: only the agent
thread takes it. A response that cannot be generated is followed by a failure, and by the
deletion of a subscription the KPM model goes on listing (`RespondFails`, `freed`). When a
connection ends the agent gives up or replaces its queue and connects (`FailConnection`,
`HandleDisconnect`, `Reconnect`), which may fail (`ConnectFails`) as often as it likes;
then `connect()` busy-waits for a response that only its own thread could handle
(`EndConnect`). Indications count as sent only while there is a connection (`up`).

### Slices

Every operation of the slicer holds its mutex and is one step. The service model's
own lists, kept as texts, are `nexSlices` and `ues`; a request and the status read for
its acknowledgement are two steps (`asked`). Undefined behaviour is a choice: a loop over
a vector erased under it may stop after any element, go on rightly or end the eNB
(`HandleUeUnbind`); so are an exception nobody catches and a division by zero (`alive`).
As `slicer.md` asks, the core restarts with the eNB, so that a UE whose TMSI is unknown is
asked for its IMSI. A re-establishment is two messages: at the request the UE goes under a
new RNTI and the old context is removed (`ReestablishRequest`), and only the Complete tells
the slicer (`ReestablishComplete`). RNTIs go round (`RntiAt`). `strayed` records the two
events that mislead the slicer: an RNTI given out while it is taken for another UE's
(`reused`), and a UE that fails again before its Complete (`untold`); no guard reads it.
Nothing calls `get_cur_sf_crntis` at this commit; `Subframe` is the
interface the sliced schedulers are written for.

## 3. Runs

| Run | Expect | Shows |
|---|---|---|
| `spectrum_loop` | pass | `TypeOK`, `ModeMatchesCommand`, `AnswersMatchQuestions`, `AlarmHeldInIqMode`, `NoOlderCommandHandled` and `StandingRequestApplied` (liveness) over all interleavings of the five threads |
| `kpm_window` | pass | `KeysAreNewest` across a flush, with failing SDL, files and spectrograms |
| `retained_range` | violation | `BlankRequestsChecked`: a refused range is sent later |
| `agent_lifecycle` | pass | with reconnection: `TypeOK`, `QueuedForThisConnection`, `DescriptorOpen`, `PushNeverBlocks`, `NeverAdrift`, `StopReleasesAll`, `ShutdownIsHandled` (liveness) |
| `agent_no_reconnect` | pass | with `no_reconnect`: `NoSecondConnection` |
| `prb_search` | pass | every mask and request of 12 PRBs: `IntervalIsLeftmostBest`, `UlPrbsUsable` against direct definitions |
| `uplink_blanking` | pass | two UEs: `TypeOK`, `GrantsDisjoint`, `GrantsAvoidBlanked`, `UeKeepsToGrant` |
| `uplink_harq_ends` | pass | one UE, one range repeated: `HarqEnds` (liveness) |
| `queue_ports` | pass | `KeepsPromise` (refinement), `StopLeavesNothing`, `PushReturns` and `ClosingReturns` (liveness) |
| `iq_capture` | pass | three runs of an eNB killed anywhere: `TypeOK`, `AnswerFromOneRun`, `CaptureIsRecent` |
| `kpm_subscriptions` | pass | `GrantedFirst`, `OneTimerPerPeriod`, `KeepsReporting` and `AgentReturns` (liveness) |
| `sliced_cell` | pass | `CycleIsProportional`, `CycleWithinBounds`, `ModelKnowsTheSlices`, `MappingTracked`, `ServedInItsSlice`, `RefusalsChangeNothing`, `ReportShowsTheRequest` |

Deadlock is checked in `prb_search`, `uplink_blanking` and `uplink_harq_ends`. Elsewhere the
system may stop: the loop when the bounds are used up, when a file error leaves the IMI
waiting for an answer, when its thread has died, or when both directions of an association
are full; the agent after `stop` and after the last connection the peer accepts; the queue
after `stop()`; the captures after the last run; the KPM agent for good, as
`BusyWaitIsHarmless` below; the cell when the eNB dies and when its bounds are used up.

### Bounds

- Detections: one range inside the carrier and one beyond it, the two classes
  the code tells apart; the former in `spectrum_loop`, where with the pair that unblanks it
  makes two requests an older of which could replace the newer, in either order; the latter
  in `kpm_window`; both in `retained_range`. Reports have zero, one or two UEs, idle or busy with few or
  many errors.
- `FlushAt` (100 in the code) is 3 where the key order matters, so that there is a
  key that must not be picked, and with 4 reports the index starts over; it is 2 in
  `retained_range`, and 1 in `spectrum_loop`, whose reports decide alone.
- `Chunks` (62) is 2 where pairing matters: an answer can be cut between chunks.
- `ChanCap` 2: `b'k'` and a pair are sent together, and a full association blocks.
- `MaxRequests` 3 (2 in `kpm_window`): a full change of mode and back, a range and
  its end, and a command overtaken in the IMI by the next. `MaxReports`, `MaxCaptures`: enough
  for the metrics and the spectrogram to change after the mode has.
- `QueueCap` 6 and `PoolSize` 2 keep the order of 8192 and 4096: fewer buffers than
  places. The assumption `QueueAssumption` states what is needed: room for all
  buffers and three tasks besides. `MaxConns` 3: the life of a connection, its
  successor and one more. `DelayMax` is reached after two failed attempts.
- The uplink: 7 PRBs, one of PUCCH at either end, one of PRACH, Msg3s of 3, requests
  of 3, and a range of two PRBs in the middle (3 to 4) or none. Two UEs cannot both have
  3 PRBs once the range is taken, and one can only just; `MaxTx` 3 leaves a
  retransmission between the first and the last. The UEs are interchangeable, hence the
  symmetry of the safety run; the liveness run has one UE and no symmetry.
- The queue: a port of capacity 1 and three pushers, so that a thread woken for a place
  can find it taken and two can be blocked at once; two clients, so that one takes up
  the port another gives back while it is drained; one of them gives it back, either way,
  and a thread may be in `stop()`. Two ports with two pushers and two clients give the same
  results; any number is covered by the proof of the refinement. Each thread pushes once:
  that fresh pushes do not starve a woken thread is not shown.
- The capture: `Period` 3 (1000), subframes of 4 samples, 2 bytes a sample (8), an
  answer of 5 samples, which is neither a whole number of subframes nor a whole
  capture; 8 subframes in each of 3 runs: two rotations and a part.
- KPM: two periods, four wishes (one for one period, one for both with an action that does
  not report, two refused: no such function, no action that reports), three requests,
  `no_reconnect` or not, any number of failing connects, a queue of 2: it does fill up.
- Slices: two, one of them loaded from the file with a UE in it; shares 0, 2 and 4, so
  that a cycle has 0:1, 1:1 and 1:2; two UEs, one TMSI to hand on, one text for an IMSI
  and one that is none, three control requests. Three RNTIs are given out four times, so
  that the first comes back, to the same UE or to another, which the slicer may or may
  not still take for its owner; `MaxEvents` 5 bounds RNTIs and requests together.

### Fairness

Each thread is a loop that only its blocking calls stop, hence weak fairness of
each: the radarxApp, the two IMI threads, the agent thread, the rx thread, the
main thread once in `stop`. The environment (captures, peer, the decision to
stop the eNB) has none. The agent thread's steps that take `socket_mutex` have
strong fairness: the rx thread releases the mutex in every round for the length of
`select`, so it is free again and again but not continuously. This assumes a mutex
that does not starve a waiting thread for ever.

`UlBlanking`: subframes follow one another, whatever the agent does to the file.
`MultiQueue`: every thread that is inside an operation, and the consumer, goes on;
none has to push, add, give back or stop. `KpmSubscriptions`: the agent thread and the
timer thread's push go on; the firing of each timer is strongly fair, as the lock is
free again and again and the heap of timers is ordered by due time, so that none is
passed over for ever. `IqFile` and `SlicedCell` claim safety only and have none.

## 4. Proofs

Each theorem holds for all values of the constants that meet the assumptions of the
module. Proofs go by an inductive invariant, with one lemma or one case for each action
or process.

| Module | Theorem | Property |
|---|---|---|
| `SpectrumLoop_proofs` | `TypeCorrect` | `TypeOK` |
| | `ModeAndCommandAgree` | `ModeMatchesCommand` |
| | `AlarmIsHeld` | `AlarmHeldInIqMode` |
| | `CommandsStayInOrder` | `NoOlderCommandHandled` |
| | `QuestionsAreAnswered` | `AnswersMatchQuestions` |
| | `KeysFoundAreNewest` | `KeysAreNewest` |
| `E2Agent_proofs` | `TypeCorrect`, `NoStaleTask`, `NoStaleDescriptor`, `AlwaysHeading`, `ReleasesAll`, `OneConnection` | `TypeOK`, `QueuedForThisConnection`, `DescriptorOpen`, `NeverAdrift`, `StopReleasesAll`, `NoSecondConnection` |
| | `NoPushBlocks` | `PushNeverBlocks` |
| `UlGrid_proofs` | `IntervalsAreBest`, `PrbsAreUsable` | `IntervalIsLeftmostBest`, `UlPrbsUsable` (of `MCUlGrid`) |
| `UlBlanking_proofs` | `TypeCorrect`, `GridSafe`, `BlankedIsAvoided`, `UesKeepToGrants` | `TypeOK`, `GrantsDisjoint`, `GrantsAvoidBlanked`, `UeKeepsToGrant` |
| `MultiQueue_proofs` | `Refines`, `StopIsClean` | `KeepsPromise`, `StopLeavesNothing` |
| `IqFile_proofs` | `TypeCorrect`, `OneRun`, `CapturesAreRecent` | `TypeOK`, `AnswerFromOneRun`, `CaptureIsRecent` |
| `KpmSubscriptions_proofs` | `TypeCorrect`, `PeriodsHaveTimers`, `ReportsAreGranted` | `TypeOK` (in no run), `OneTimerPerPeriod`, `GrantedFirst` |
| `SlicedCell_proofs` | `MappingKnown`, `MembersServed`, `ReportsAreTrue` | `MappingTracked`, `ServedInItsSlice`, `ReportShowsTheRequest` |
| | `TablesAgree`, `RefusalsAreClean` | `ModelKnowsTheSlices`, `RefusalsChangeNothing` |
| | `CycleStaysInBounds`, `SharesAreKept` | `CycleWithinBounds`, `CycleIsProportional` |

With these every safety property and every action property of the passing runs is a
theorem.

Why the invariants are needed:

- `NoOlderCommandHandled` speaks of two consecutive commands of the agent. `InOrder` says
  that command numbers grow along the whole path: those in flight to the IMI are sorted
  and no older than the IMI's, which is no older than any in flight to the agent, which
  are sorted and no older than the agent's own; none is newer than the last one sent.
- `AnswersMatchQuestions`: `InStep` says, for a base-station thread that has never been out
  of step, what is in flight in both directions and where the agent stands in each
  phase of a round (`Unasked`, `Arriving`, `Dropped`, `KpmsInWork` ... `IqSent`), and that
  the chunks in flight and the IMI's buffer are of one capture (`OfCapture`).
- `KeysAreNewest`: `KpmsInOrder` says that the reports in flight are newer than those
  stored (`RepliesAreNewer`) and that, unless a flush has failed, the index under which one
  is stored grows with its time (`StoredInOrder`); the two highest are then the two newest.
- The agent (`IInv`): where the agent thread stands in `disconnect` fixes what the
  control pipe, the handler table and the rx thread's snapshot of the descriptor set
  may still hold (`SocketInv`, `RxInv`); which tasks are queued follows from the
  connection's state (`TasksInv`); a stopped or resting agent has a way on (`RestInv`).
- `PushNeverBlocks` (`QInv`): tasks are counted by kind. A message holds a buffer of the
  pool, connects and resets belong to the connection, stops to the main thread; the
  count needs `QueueAssumption`, `PoolSize + 3 < QueueCap`.
- The uplink (`GridInv`): the mask covers PUCCH, Msg3s, all grants and, from `BlankPrbs`
  on, the range taken out; only grants made before that step may lie in it
  (`EarlyGrants`). `TypeInv` bounds the count of transmissions with `RoomToCount`.
- Both sides of a HARQ process (`SidesInv`): the UE's NDI is the eNB's, it has counted no
  transmission the eNB has not, and a process that may be continued by a NACK alone has
  a UE that holds these PRBs and is, or will be, told (`InStep`, `Told`, `GrantTaken`).
- The queue (`Shape`): what each thread's place says of its port. Every step is then a
  step of `TaskPorts` or leaves `open`, `box` and `call` alone. Liveness is not part of it.
- `StopLeavesNothing`: `stop()` waits for the ports in turn. `WaitInv` counts the pushers that
  wait in a port against the port's own counter, hence the assumption of finitely many
  threads; `StopInv` says how far `stop()` has come (`StopAt`): the ports it has passed stay
  closed, in its second pass without waiters, and the consumer does not come back.
- The capture (`IInv`): the temporary file grows by consecutive pieces of one run
  (`Growing`), and every file that is read is such a chain (`Chains`). For its age, the
  temporary file ends where the run stands (`TmpIsCurrent`), and once the run has lasted
  longer than the saved one would be old, the saved one is of this run (`SavedAge`).
- Subscriptions (`IInv`): the timers are those of the periods that have a subscription,
  each under the id the model keeps (`TimersInv`); only the subscription being added may
  be without an answer, and what is listed otherwise was granted or freed (`GrantsInv`); each key and each session was asked for by a
  request of its own (`Budget`). The keys are 1 .. n, and `OneTimerPerPeriod` needs no more
  than that, because a deletion never finds its subscription (`KeysInv`; see
  `DeletableOnceGranted` below).
- Identities (`IdInv`): until an event of `strayed`, no two UEs share an RNTI, old ones of
  unfinished re-establishments included (`Distinct`), the tables name each identified UE's
  RNTI, the old one before its Complete, and no other UE's entry does (`Followed`). Nothing is assumed
  of how RNTIs go round: an RNTI nobody is taken for may be given out again. After such an
  event the property fails (`TrackedThroughReuse`, `TrackedThroughFailures`, below). `ServeInv` adds the cached lists. `TablesInv` relates
  the service model's slices and shares to the slicer's, `StandsInv` the last request
  carried out to the slicer's table, until it is acknowledged.
- The cycle (`CycleInv`): the stored cycle fits the table of slices (`Fits`: it names only
  slices there are, in proportion to their shares) and the subframe index lies in it.
  That a cycle just made fits is a matter of `calc_gcf` and `upd_sf_alloc` alone, see next.

Recursion. The library's induction theorems take an operator and cannot be used, so the
proofs about recursive definitions argue by the least counterexample instead (`WFMin`, from
`NatLessThanWellFounded`): a set of numbers without a least element is empty. For each
recursive function there is first a lemma that one with these equations exists, without
which a `CHOOSE` would say nothing, then one on its values.

- The searches (`SearchExists`, `DownInduction`): each goes on at a PRB further right, or ends.
  `Best` says what `find_contiguous_interval` has found from PRB n on: the leftmost of the
  longest free runs, none longer than asked for. The step (`BestOfTwo`) needs that a run
  shorter than the size ends at a taken PRB or the carrier's end, so that no free run
  straddles it (`RunsApart`). `Grown` and `UsableUci` say the same of the loops of
  `find_contiguous_ul_prbs` and `find_ul_alloc`.
- The cycle: `CalcGcf` is Euclid's algorithm and yields the greatest common factor,
  `CalcGcfVec` that of a list; `SliceOrder` is a bijection, for which there must be finitely
  many slices; `FlattenSeq` of blocks of n subframes has each slice n times.

Only model-checked: liveness (`StandingRequestApplied`, `ShutdownIsHandled`, `HarqEnds`,
`PushReturns`, `ClosingReturns`, `KeepsReporting`, `AgentReturns`), which rests on fairness and
on `ENABLED`, out of the prover's reach. The `TypeOK` of `MultiQueue` and `SlicedCell` holds in
the same instances and can be added to the cfg; nothing rests on it.

## 5. What the sources say and the code does not do

`retained_range` is a run: `radar.py:197` assigns `interf_res_final` before the check of line
199; what line 217 calls "Retain previous blanked PRBs" then sends a range that was
refused, and the scheduler does not check it either.

The modules state further sentences of the sources that the models contradict, each under a
heading of its own at the end of its module. They are not among the runs. To see a
trace, put the name in place of the properties of the cfg (and the constants given
here); TLC finds a counterexample within seconds to minutes.

| Statement | cfg | Why it fails |
|---|---|---|
| `LossIsHandled` | `E2Agent`, `MaxConns = 1` | `agent.cc:556` and `network_utils.cc:575-577` ignore every end of a connection but a shutdown |
| `EnbStopsThreads` | `E2AgentNoReconnect` | `agent.cc:706`: a disabled agent returns from `stop` at once |
| `StopReturns` | `E2Agent`, `MaxConns = 1` | `agent.cc:794-795`: replacing the queue drops a `stop_impl` in it |
| `StopClosesSocket` | `E2Agent` | `agent.cc:436-444`: a socket that cannot be bound is neither closed there nor by `disconnect` (686) once the agent is disabled |
| `NackedUeIsGranted` | `UlBlanking` | `sched_harq.cc:306`: skipped transmissions count at the eNB only, which then gives up first |
| `RangeWithinCarrier` | `UlBlanking`, `PrbPairs <- MCWidePairs` | `sched_time_pf.cc:393` resets bits beyond the mask, an assertion |
| `RetainedRangeHolds` | `UlBlankingEnds` | `agent.cc:582`: `fopen` empties the file, and a subframe that reads it then blanks nothing |
| `SavedIsFull` | `IqFile` | `txrx.cc:186`: the temporary file of a killed eNB is saved as it is |
| `AnswerIsOneFrame` | `IqFile` | `txrx.cc:200` writes `sf_len` bytes, an eighth of a subframe |
| `OneHolder`, `HeldPortIsOpen` | `MultiQueue` | `multiqueue.h:199-200`: `reset()` deactivates the port twice, and `add_queue` may give it away in between |
| `BusyWaitIsHarmless` | `KpmSubscriptions` | `agent.cc:518`: timers fill the queue the connecting thread has to empty, and its own push (`agent.cc:397`) then blocks it |
| `RefusedIsSilent` | `KpmSubscriptions` | `e2ap_handle.cc:188-219`: a subscription whose response cannot be generated is refused and freed, but stays listed |
| `OnItsPeriods` | `KpmSubscriptions` | `e2sm_kpm.cc:626` goes through all subscriptions, not those of the period |
| `AdmittedOnly` | `KpmSubscriptions` | `e2sm_kpm.cc:628` goes through all actions |
| `OfThisSession` | `KpmSubscriptions` | `agent.cc:734`: a reset leaves the service models alone |
| `DeletableOnceGranted` | `KpmSubscriptions` | `e2ap_handle.cc:197`: a subscription is never recorded in the agent |
| `TrackedBeforeComplete` | `SlicedCell` | `rrc_ue.cc:900`, 370: the old RNTI is removed at the request, the slicer told at the Complete |
| `TrackedThroughReuse` | `SlicedCell` | `mac.cc:672`, `slicer.cc:194`: nobody tells the slicer that a UE has left, and an RNTI given out again finds its old owner |
| `TrackedThroughFailures` | `SlicedCell` | `rrc_ue.cc:370`: after a second failure the old RNTI named at the Complete is one the slicer was never told |
| `OnlyMembersInSlice` | `SlicedCell` | `slicer.cc:170`: an RNTI stays in the map after its UE has gone |
| `SubframeServesItsSlice` | `SlicedCell` | `slicer.cc:101`: a configuration replaces the members, not the cached RNTIs |
| `LegalRequestsSurvive` | `SlicedCell` | `slicer.cc:326`: shares of 0 only, or no slice left |
| `BoundUesAreListed` | `SlicedCell`, `ImsiTexts = {"1", "2"}`, `SliceDb <- MCNoDb` | `e2sm_nexran.cc:533` erases the first of the list, asked for or not |

In the queue, `ClosingReturns` excepts a `Stranded` thread: one waiting on a port's `cv_exit` that
no pusher will notify, against `multiqueue.h:98` "wait for all the pushers to unlock". It
comes about when `add_queue` takes the port up again (line 268) or when two threads drain
it and the last refused pusher wakes only one (line 153). `TaskPorts` lets a port be closed by
anyone at any time, so `KeepsPromise` says nothing of who closed it (`HeldPortIsOpen` does). `spin_idx` also goes wrong
after a collision with a producer (line 331), so that a port may be popped twice while
another waits; `PopCollides` and `PopFound` model it and no property speaks of it.

Hazards seen in the sources that no model has: a flush that fails restarts the index all the
same (`imi.py:409`); `new_spec` of an earlier episode is taken for a fresh capture
(`radar.py:171`); a closed radarxApp connection makes `recv` return `b''` for ever
(`imi.py:223`), and a second IMI is never accepted (`radar.py:65`); a lost DCI
(`ul_harq.cc:173`); unchecked `fopen` in the scheduler and the receive thread
(`sched_time_pf.cc:551`, `txrx.cc:196`); the time handed to `pthread_cond_timedwait`, relative
where it should be absolute (`timer_queue.cc:77`); slices of the file, which the service
model cannot bind to or delete (`e2sm_nexran.cc:430`, the cause of the preloaded slice of
`sliced_cell`); a lock released without being taken (`e2sm_nexran.cc:172`).

## 6. Not modelled

- Death and reconnection of the radarxApp and the IMI (empty receives, `OSError`),
  several base stations at once, and an SDL failing in I/Qs mode, which ends the
  radarxApp.
- The test `addr[1] == 38071` (`imi.py:161`): spectrograms of a base station
  connecting from another port are not stored. The model takes the test as true.
- What the classifier and the detector compute: any outcome is possible.
- The downlink, buffer status and CQI, carrier aggregation, measurement gaps, losses on
  PDCCH and PHICH. A file system that fails under the receive thread.
- NexRAN's subscriptions and indications, which work as KPM's do; E2 setup and service query;
  the numbers in reports; encoding and decoding, and the generated ASN.1 code.
- Data races in the C++ sense on `state` and the queue handle: each access is
  taken as atomic.
- `setsockopt`-level options, addresses, logging, console output.
- The rest of srsRAN. Most of the repository's million lines are vendored srsRAN
  and generated ASN.1 and E2 bindings, without anything of O-DSS in them; the share
  of lines the models stand for is small for that reason.

## 7. Plan

1. `SpectrumRequests`, an abstract specification of the loop (a request register that
   is eventually applied, never going back), refined by `SpectrumLoop`.
2. Crashes in `SpectrumLoop`: the radarxApp's and the IMI's connections closing,
   `b''` as a command, entries of an earlier run in the SDL.
3. Proofs: with every safety property of the runs proved, what is left is the
   refinement of item 1, and `TypeOK` of `MultiQueue` and `SlicedCell`.
