# FrameLink in TLA+

FrameLink hands video frames from one process to another without copying them.
A consumer creates a channel with a ring of GPU images; producers dial in, draw
into free slots and announce frames; the consumer takes the latest frame, reads
it, and releases its slot. On top of channels, GStreamer elements carry complete
audio/video sessions: two processes find each other, agree on formats, memory and
a clock, stream, drain and end together. This directory models the parts that
decide who may do what when, checks them with TLC on small instances, and proves
the safety of all but the audio track with TLAPS for every size (section 4).

Paths below are relative to the repository root (`src/framelink_linux.cpp` is
`src/src/framelink_linux.cpp` in `PROJECT.json`, which counts from the directory
above the checkout).

## 1. The system and its parts

| Part | State | Operations | Correct when |
|---|---|---|---|
| Read ledger (`src/fl_read_ledger.hpp`) | circular array of leased frames, table of readers, token counter | acquire, retain, complete, defer, finishDeferred, retirement/retired, resetEpoch | counts are exact, frames retire in order and never under a reader, tokens are never reused |
| POSIX channel (`src/framelink_linux.cpp`, `src/framelink_android.cpp`) | consumer: ring, pending frame, held frame, retired value, release queue; producer: slot values, timeline, release queue | create, open, attach, resize, acquire, submit, cancel, take, release, signal, lease, close | no slot is drawn into while it is read or pending; timelines never mix; everybody is answered |
| Sync fences (`src/fl_sync_fd.hpp`) | pending and held fence, queue of releases | advance, clear | the watermark covers exactly the signalled prefix |
| POSIX transport (`src/fl_ipc_posix.cpp`) | a SEQPACKET socket per producer | listen, accept, connect, send, recv | FIFO until an end leaves |
| Buffer references (`src/fl_buffer_refs.hpp`) | token table, references per slot | retain, release, busy | a referenced slot is not handed out |
| Windows channel (`src/framelink_win.cpp`, `src/fl_ipc_win32.cpp`) | as POSIX, but two shared D3D11 fences replace release messages | as POSIX, plus resetSync | as POSIX, although critical sections end before their effects |
| Slot sets (`src/framelink_slots.cpp`) | a walk's position and what it saw | sweep the channels of a set until a deadline | finds a free slot; full and absent sets are told apart |
| Session contract (`src/framelink_session.cpp`) | the configuration in force | negotiate, validate, encode, replace, convert times | the two sides agree; stale configurations are refused; no overflow, no drift |
| Memory policy and agreement (`src/framelink_memory.cpp`, `samples/av_memory_agreement.cpp`) | offers, proofs, verdicts | offer, prove, evaluate, approve, apply, join | both sides decide alike and about the same offers; nobody's demands are passed over |
| Session coordinator (`gst/framelink_session_context.cpp`) | generation, readiness, claims, mapping, video end, event channel | configure, register, ready, wait, claim, map, events, cancel | facts belong to the generation in force, nobody sleeps for ever |
| Event channel (`gst/fl_gst_event_channel.hpp`) | serials, queue, reader thread | send, read, receive, cancel, destroy | a prefix is delivered and no loss is silent |
| Session transport (`gst/framelink_session_transport.cpp`, `runtime/av_auth.cpp`) | listener, control, audio and event connections | open, ready, finish | no media before the consumer is ready, no normal end before it drained, nothing left of a failed setup |
| Rendezvous (`runtime/av_rendezvous.cpp`) | a lock file and a record | publish, read, close | one owner; a record is complete or absent |
| Video elements (`gst/gstframelink.cpp`) | channel, sequence and PTS, gaps, statistics | start, render, create, event, unlock, stop | what comes out is what went in, or the break is marked, or the session fails |
| Native memory (`gst/fl_gst_*_producer.hpp`, `gst/fl_gst_native_pool.hpp`) | reservations, leases, references | acquire, publish, cancel, free | one writer per image; readers see what they were given; closed once |
| Audio elements (`gst/gstframelinkaudio.cpp`, `gst/gstframelinkaudiosrc.cpp`, `gst/fl_gst_audio_startup.*`) | sample positions, packets, startup worker | start, chain, event, read, push, terminal record, stop | as video, and an end is only what the terminal record says |
| A/V bins (`gst/gstframelinkavsink.cpp`, `gst/gstframelinkavsrc.cpp`) | worker, drainer, asynchronous calls, `Shared` | open, releaseMedia, EOS and drain, stop, reset | started once, in order; EOS means drained; stopping ends |
| Tracing (`include/framelink_trace.hpp`) | a buffer per thread | record, export | the file holds whole events and says what is missing |
| Metadata, layout, arrival (`src/fl_metadata.hpp`, ...) | data carried beside a frame | encode, decode | sequential |

How they interact. A consumer process runs two threads over one `flChannel`: the
caller's and the accept thread (`acceptLoop`), which share `pendingMutex`; every
producer is another process with its own `flChannel` and one link; GPUs submit
work that completes later and is seen through fences. An A/V session joins two
processes: the *rendezvous* gives the consumer the producer's port and token; the
*transport* authenticates a control connection and, in turn, an audio and an event
connection, and exchanges the *contract*; both configure their *coordinator*, which
the *elements* share. Video goes through a channel, gaps and barriers through the
event channel, PCM through the audio connection; the *bins* own all of it and are
driven by the application's state changes.

What is hard: threads interleave between critical sections; announcements and
releases cross on a link; a process dies at any point and its successor meets
what it left; fences signal in any order; a frame is replaced in the ring while
its gap travels elsewhere; a pause discards a buffer already counted; setup fails
half way; a late asynchronous call meets a new session; stopping must wake
threads that wait in many places. `hazards` in `PROJECT.json` lists such places,
each at its line and with the properties that cover it.

## 2. Modules

| Module | Models | Checked by |
|---|---|---|
| `ReadLedger` | `fl::ReadLedger`, one action per operation | `MCReadLedger`, `ReadLedgerProofs` |
| `LeaseQueue` | what leases promise: a queue of frames, each with the tokens that read it | refinement `ImplementsLeaseQueue`, proved in `ReadLedgerProofs` |
| `PosixChannel` | a Linux or Android channel: consumer, accept thread, producers, links, GPUs, leases | `MCChannels`, `MCPosixLive`, `PosixChannelProofs`, `ChannelsProofs` |
| `FrameRing` | what a channel promises, whatever carries it | refinement `ImplementsFrameRing`, proved in `ChannelsProofs` |
| `WinChannel` | a Windows channel, split where the code unlocks | `MCChannels`, `MCWinChannel`, `WinChannelProofs`, `ChannelsProofs` |
| `SlotSet` | `flOpenProducerSlot` among other producers | `MCDiscovery`, `DiscoveryProofs` |
| `SessionContract` | offers, negotiation, validation, wire form, replacement | `MCAgreement`, `AgreementProofs` |
| `SessionClock` | sample offsets and clock mapping, with their width | `MCAgreement`, `AgreementProofs` |
| `MemoryPolicy`, `MemoryAgreement` | policy functions as operators; the exchange that uses them | `MCAgreement`, `AgreementProofs` |
| `GstSession` | the coordinator, with threads asleep in it | `MCThreads`, `ThreadsProofs` |
| `EventChannel` | both ends of an event stream | `MCThreads`, `ThreadsProofs` |
| `Rendezvous` | the directory, its owners and readers | `MCDiscovery`, `DiscoveryProofs` |
| `AvLocal` | setting up, starting and draining a local session | `MCDiscovery`, `DiscoveryProofs` |
| `VideoTrack` | video sink, ring, event stream and video source of a session | `MCMedia`, `MCMediaLive`, `MediaProofs` |
| `VideoPlain` | the same elements standing alone, or on a brokered channel | `MCMedia`, `MCMediaLive`, `MediaProofs` |
| `NativeMemory` | images of the ring held as `GstMemory` on both sides | `MCMedia`, `MCMediaLive`, `MediaProofs` |
| `AudioTrack` | audio sink, socket, audio source, standalone startup | `MCMedia`, `MCMediaLive` |
| `AvBin` | the two convenience bins | `MCAvBin`, `ThreadsProofs` |
| `TraceRecorder` | lock-free recording and its export | `MCThreads`, `ThreadsProofs` |

`map` in `PROJECT.json` gives the source lines of every definition. Definitions
under a comment that begins with "Mutant:" are plausible mistakes in one place of the code;
`mutants` pairs each with the property that it breaks.
A module that uses another component takes from it only what that component's own
module shows: `VideoTrack` uses an ordered event stream (`EventChannel`) and a ring
that keeps the newest frame (`PosixChannel`), `AvBin` uses sessions that open, fail
or are cancelled (`AvLocal`), `AudioTrack` a coordinator that may be cancelled
(`GstSession`).

### ReadLedger

Variables are the members `frames_`, `head_`, `count_`, `readers_`,
`generation_`, `lastValue_`, `nextToken_`. `retiredTo` is a history variable: the
last retirement acknowledged. `Retired` is `retirement()` followed by
`retired()`, as `flCollectReadLeases` calls them under one lock; the pop loop is
modelled by the condition it stops at (`Pops`), not by assuming that it pops what
was reported. `nextToken_` is static, so `TokenElsewhere` lets the ledgers of
other channels use it up. A refused call leaves the ledger as it was and is a
stuttering step.

### PosixChannel

* A region under `pendingMutex` is one action. The accept thread's position is
  `acc` (`accept`, `hello`, `handed`, `pump`, `ended`) and the producer at the
  other end of its link is `serving`; `peer` is what the consumer's calls see.
* A producer handle goes through `new`, `connecting`, `greeted`, `idle`,
  `geometry` (waiting for the answer of `flRequestGeometry`) and `gone`. A handle
  that is gone may be opened again, so long histories of reattachment need few
  names.
* `up[p]` and `down[p]` are the queues of a link. When an end leaves with unread
  messages the kernel may drop what it had sent (`Leave`, third disjunct).
* `slotSubmitValue = Reserved` is the sentinel `UINT64_MAX`; `MaxValue` is
  `UINT64_MAX - 1`, so running out of values is reached in every run.
* GPU work is visible only by completion: the ready fence of value v of producer
  p is signalled iff `v <= written[p]`; the fence of a release is signalled iff no
  read it covers is in `reads`. Both follow `framelink_sync_fd.h`, which asks
  that a fence cover all earlier work.
* `image` is a history variable with the value of the frame a slot shows, 0 while
  it is being drawn or blank; the properties compare it with what the consumer
  believes.
* `ledger` keeps of a leased frame only slot, value and the numbers of live,
  deferred and finished readers; the tokens are the business of `ReadLedger`.
* `Linux` and `Android` share the module. They differ at
  `framelink_android.cpp:370`, which does not ask for readers before a resize;
  `LeasedMeansUnretired` is the reason that this is sound.

Client duties taken from the headers: leases are not mixed with manual
signalling, `flSignalConsumedSyncFd` is called with values of acquired frames in
order, and leases are collected before `flClose`.

### WinChannel

There is one pipe instance, hence one producer record. `written` and `consumed`
are the completed values of the two fences, `signals` the `Signal` calls the GPU
has not executed; `fences` is the identity of the current pair. `acceptLoop`
unlocks between its busy check and `resetSync`, and `flRelease` unlocks before it
signals: `AttachChecked`/`ResetFences`/`ResetPending`/`HandOver`,
`PumpGeometryChecked`/`Realloc` and `Release`/`ReleaseSignal` are separate actions for
that reason. `resetSync` may fail halfway (`ResetFails`), and a resize allocates as many
images as the ring has, fewer than at first if an earlier allocation stopped halfway. `owed` are the frames an `FL_GPU_SYNC` or `FL_DEFER_RELEASE` client
still has to signal, once each. A resize clears `reads`: the old textures live on
unreachable until the GPU is done with them. `Reattach` limits a run to one
producer where the question is about resizing only.

Feature negotiation, adapter checks, frame metadata, plane layout and image
import failures are left out of both channels: they end an attempt before any
state changes, or carry data no property tells apart.

### SlotSet

`owner` is the set: for each channel whether it is absent, who has it, or, without a
producer, what is left in it. `Open` channels take a producer; `Stored` ones answer
`FL_BUSY` although nobody produces, because the consumer still holds frames or leases
("kept") or the pending frame is still being written ("unready",
`framelink_linux.cpp:325-328`). `Hold`, `Settle` and `Finish` are the consumer and the GPU that
change this, and a producer leaves any of these states behind. A walk visits one slot
a step, so the set changes between any two. `vacant`, `lived` and `taken` are history:
the slots that were free, or existed, during the whole of the last sweep, and
whether one refused producers at any time of it. `flOpenProducer` is one
step (the channel modules have it), and the geometry request after it, which
changes the ring and not the set, is left out.

### SessionContract and SessionClock

`SessionContract` puts the functions together as their callers do
(`framelink_session_transport.cpp:84-88`, `framelink_session_context.cpp:51-60`): the
owner selects and encodes, the peer decodes, checks and accepts or keeps what it
has. Configurations of version 1 (`samples/av_apps.cpp:960`) and version 2 (the
transport) both occur; that the transport accepts only version 2 and asks for its
tracks belongs to `AvLocal` and `GstSession`. `retired` is a history variable: the
configurations that were in force and have been replaced. Pictures and sample formats are
names; the two time limits and the two queue budgets are one number each.
`SessionClock` keeps the width of the integers: arithmetic is modulo
2 * (`MaxTime` + 1). The assumption `Rate * NS <= 2 * (MaxTime + 1)` holds for the
real constants (rates below 2^32, 10^9 nanoseconds, 64 bits).

### MemoryPolicy and MemoryAgreement

Masks are sets, an unknown bit is an element outside the known set. A keyed proof
is the record it authenticates, so proofs under different sessions differ; nonces
and replay are left out. `Later` are offers of another build. Each endpoint then
applies the policy to its element, whose neighbour may join with an allocation
query; elements without native memory have mandatory operations and get no such
query. Endpoint 1 of a policy is the element itself.

### GstSession, EventChannel

Every call of the coordinator is one action under its mutex, except the two waits,
which sleep and are woken, and the event calls, which look the channel up under
the mutex and use it after. A configuration is its generation; any generation is
offered in any order. In `EventChannel` a write is a start and an end, may fail
with part of the record out (`Cut`), and either endpoint may be cancelled or
destroyed at any moment; `QueueLimit` is the code's 32.

### Rendezvous, AvLocal

A record is the token in it. A killed owner leaves its files but not its OS lock.
`AvLocal` numbers the stages of `open_local_av`; since the audio and event
connections are set up strictly in turn, their records travel in the same inboxes
as the control records. The four messages of the challenge are one exchange: a side
goes on only with a peer of its own credential. Either side may be cancelled,
exceed its deadline, die and start again. A lost peer is noticed by whoever reads from
its connection; a producer that waits for the audio or event connection of a
consumer that died is ended by the deadline alone (`AcceptTimesOut`).

### VideoTrack, VideoPlain, NativeMemory

`VideoTrack` compares what the source pushed with what the sink submitted, gaps in
their place. A buffer is its PTS; copies succeed or fail. `Paced` is a producer that
waits until a frame was read, without which frames are replaced and the session
rightly fails. When a GAP cannot be mapped or is refused downstream the buffer is
dropped, but not `pendingDelivery`: `create` returns it again (`PushFails`). `VideoPlain` has the element outside a session: dialling at most
once a second, a readiness deadline, resizes, restarts, brokered channels and the
policy bound to them. The ring is one record, its slots counted; dialling and
rendering are two steps; received, submitted and dropped are kept as one
difference, `unaccounted`. `out` is the last buffer pushed with the one before it, and
for each how many buffers the base class discarded after it and whether one of these
had the DISCONT flag (`Skipped`). After a failed submit on a
brokered channel without metadata the sink goes on dropping silently, and counts
it. `NativeMemory` has reservations and leases held by other elements and freed on
any thread. The sink stops by clearing `active` without the producer's mutex
(`gstframelink.cpp:292`), so `acquire` checks (`AcquireBegin`, `AcquireRetry`) and takes an image
(`AcquireTake`) in different steps; `checked` says that the mutex has been held since the
check, `late` counts the images handed out after the stop. A sink stops only when no thread is inside the acquire signal
(`docs/GST_NATIVE_MEMORY.md:114`, "Stop acquisition calls before changing state"),
while threads waiting in the pool are allowed.

### AudioTrack

Time is counted in sample frames; a packet is a header and a payload of so many
units, which the socket splits anywhere. The check sums of the depayloader are the
operator `Intact`. `Faults` includes the idle deadlines and a producer that dies in the
middle of a packet (`WriteCut`). The terminal record and its trigger for an empty stream
are explicit steps, as is the startup worker of a standalone element, which learns the
generation of its session with its first block only (`Generation`).

### AvBin

One module for both bins, which share their structure. The worker, the drainer,
each queued call of `releaseMedia`, the probes and the state change are separate
actors. Reading `shared` and locking it is one step (a call caught between the two
finds the cancelled `Shared` and returns, or goes on as on the new one), as is checking
for a drainer and starting it; the checks of epoch and base time are folded into the case that
`releaseMedia` rejects. Nothing waits for calls of `releaseMedia`: one may go on after the
bin went to NULL and deleted the `Shared` it works on. What it then writes is lost or
reaches the new `Shared` at the same address (`Deleted`); `stale` remembers that this
happened. `MaxSessions` bounds the times the bin leaves NULL and is paused, together.

### TraceRecorder

Recording is split into storing the event and publishing its count; the export
reads counts and rows while writers go on. An event is its number, the totals are
kept per thread, and an exit with threads still running is excluded
(`docs/PERFORMANCE_TRACING.md` asks to join them first). A failed export leaves an
incomplete file and promises nothing.

## 3. Runs

The components are checked in groups that belong together. The MC module of a group
instantiates them, some more than once with different constants, and its variable
`part` names the one that a behaviour runs: it is chosen in `MCInit` and never
changes, and the variables of the other parts keep their initial values. A part is
therefore checked exactly as on its own. A property of a group is a conjunction of
named properties of its components, each under the condition that its part runs;
the text of each is in the component's module.

| Run | Parts and bounds | Shows |
|---|---|---|
| `read_ledger` | 2 frames, 3 readers, 3 slots, values to 3, 2 generations, 5 tokens | `CountsMatch`, `WindowOrdered`, `NoReaderRetired`, `TokensNeverRecycled`, `TokenNamesOneFrame`, `ImplementsLeaseQueue`, with wrap-around, full tables and the last token |
| `channels` | POSIX with 2 producers and 2 slots: *default* (allocations may fail), *fenced* (frames and releases with or without sync files, buffer references, no resize), *gpu* (`FL_GPU_SYNC`), *lease* (two readers, CPU and GPU completion). Windows: *win gpu* (one producer, failing allocations), *win follow* (producers that come and go) | `PosixIntact` (`NoOverwrite`, `PendingIntact`, `ReleasesOnOwnTimeline`), `HandedOutWell` (`OneProducer`, `BusyHasCause`), `LeasesHold` (`HeldFrameLeasable`, `LeasedMeansUnretired`), `ImplementsFrameRing` in all four POSIX modes, `QuietHandover` (`NewTimelineOnlyWhenQuiet`, `ReattachAfterWrites`), `WinIntact` (`NoOverwrite`, `PendingIntact`, `NoUseBeforeWrite`), `WinResizeIdle` |
| `posix_live` | *default* with 2 producers; *resize* and *lease* with one that may come back; fairness below | `ProducerNotStarved`, `OpenAnswered`, `RingRecovers`, `CloseReturns` |
| `discovery` | *slots*: 2 producers, 2 channels that come and go; *served*: a late consumer that stays; *rendezvous*: 2 owners, 2 readers, 3 publications; *session*, *audio session*: up to 3 attempts a side, any failure; *quiet session*: nothing fails | `AnswerIsHonest`; `RendezvousSound` (`RecordsWhole`, `RecordIsOwners`, `LockHeldByLive`, `RemovedByOwner`); `SetupSound` (`MediaAfterReady`, `DrainedBeforeEnd`, `OpenFailureClean`, `AttachedBeforeOpened`); `EverybodyReturns` (`WalkReturns`, `Served`, `SetupReturns`, `SessionCompletes`) |
| `agreement` | *clock*: 24 times, 10 "nanoseconds", 4 samples a second, 12 samples; *offers*: pairs of good and bad offers; *messages*: late, repeated and foreign configurations, one replacing another; *memory*, *bound*: offers of two builds and sessions, failures, neighbours; *fine*: nothing fails | `DurationsAddUp`, `MappedAsAWhole`; `ContractSound` (`NegotiationComplete`, `SelectionAccepted`, `WireIsCanonical`, `AcceptedIsAgreed`, `NeverReturns`); `MemorySound` (`SuccessIsMutual`, `SameVerdict`, `EverybodyConsents`, `CombineAgrees`), `MemoryReturns` (`BothReturn`, `Agree`) |
| `threads` | *recorder*: 3 threads, 2 buffers of 2 events, 3 events a thread; *session*: video only, 1 waiter, 2 generations, 2 mappings, 2 ends; *tracks*: both tracks, 2 waiters; *events*: queue of 2, 4 serials | `PrefixOnly`, `LossReported`; `CoordinatorSound` (`ReadyIsCurrent`, `NoLostWakeup`, `OneMapping`, `OneEnd`, `AudioClaimedOnce`, `StreamsFollowSession`); `EventsSound` (`PrefixDelivered`, `NoSilentLoss`, `FlushEndsSession`); `ThreadsReturn` (`OldWaiterNeverSatisfied`, `CancelReturns`, `EventsArrive`, `ReaderStops`) |
| `media` | *video*: ring of 2, 3 frames, 2 gaps, 1 pause, one gap collected at a time; *both*: ring of 3 and audio's terminal record; *plain*, *leased*: 3 frames, 2 sizes, ring of 2, 2 starts, 3 ring generations, dialled by name on Windows or brokered with a policy, both paused between `create` and the push; *native*: 2 slots, 3 writable memories, fences; *alone*, *audio*: 2 items, blocks of up to 2 frames, 1 pause; steps may fail | `VideoDelivered` (`DeliveryIsPrefix`, `BarrierComes`), `PlainSound` (`Balanced`, `CapsDescribe`, `BreaksMarked`, `AgreementKept`, `LeaseNotRedialled`), `NativeSound` (`WritableIsExclusive`, `ReadIntact`, `ClosedByLast`, `Revoked`), `AudioDelivered` (`DeliveryIsPrefix`, `EndCarriesVideo`) |
| `media_live` | *video*: paced producer, 4 frames, 2 pauses, nothing fails; *audio* (standalone), *paired audio* (of a session): nothing fails; *lost video*, *lost audio*: the producer may fail or stop; *plain*: readiness deadline, consumer restarts; *native*: 2 slots, 2 memories | `StreamsComplete` (`PacedCompletes`, `AudioCompletes`, `TimelineMarked`, `ProducerLossNoticed`, `LossNoticed`), `ElementsRecover` (`StartReturns`, `Reattaches`, `AcquireReturns`, `SlotsReturn`) |
| `av_bin` | *avsink*, *avsrc*: 2 calls of `releaseMedia`, 2 sessions or a session and a pause | `BinSound` (`OneOwner`, `NoMediaBeforeReady`, `EosAfterDrain`, `ReadyAfterStart`, `DrainIsHonest`), `StopCompletes` |

The compound invariants include the components' `TypeOK`. No run checks for
deadlock: a closed channel, an ended session, or one whose bounds are used up,
rightly stops; that nobody waits for ever is the business of the liveness
properties.

**Bounds.** Channels: two slots are the least with which one is read while the
other is drawn; a third adds no relation between slots that two do not have. Two
producers give an attached one and one that waits, dials or takes over; handles
are reused. Three generations allow creation, an attach and a resize or second
attach. Values to 2 or 3 fill the ring, replace a pending frame and reach the last
value. *fenced* and *gpu* have one geometry to keep the run short; *default* and *lease*
resize, and the proofs cover resizing in every mode. Sessions: two generations are an old and a new one, and three attempts or
publications leave a stale one, a current one and a next one. Streams: three or
four frames overfill a ring of two, and two gaps fall before, between and after
frames and exceed the limit of one collected at a time. Two calls of
`releaseMedia` are the two places that queue one; two sessions show what the first
leaves to the second. Three frames outside a session are one stamped, one
replaced or discarded, and one that shows the hole. Every queue, table and buffer with a limit in the code
reaches it. Symmetry is used in `channels` only, of the producers, which no
definition orders.

**Fairness** (`LiveSpec` of each module, `ReturnSpec` and `ServeSpec` of `SlotSet`; the MC
modules state it for the parts that have liveness properties).

* `PosixChannel`: the accept thread looks at its peer in every round of its loop
  (weak fairness of `Serve`), ends when it is told to (`AcceptEnds`), and looks at the
  listener, whose backlog is a queue: a connection that waits is taken even if
  others come and go (strong fairness of `Accept \/ RefuseExtra` per producer). The
  GPU finishes its work (`Gpu`). The consumer's thread goes on taking, releasing,
  leasing, completing and collecting as long as one of these is possible (`Consume`,
  one thread and so one condition), and a producer that waits keeps calling
  (`Answered`): duties of the clients. The lease part has one reader, because a client
  that retains a lease for ever starves its producer, as it must. Nothing forces a
  producer to submit, to resize, to leave or to stay.
* `EventChannel`: writes end within the socket's timeout, the reader thread runs,
  the source receives. `GstSession`: threads in a wait run; their deadline is given no
  fairness, so that only a broadcast can wake them in time.
* `AvLocal`: workers run and a closed connection is noticed; of the deadlines only
  those have to fire that end the wait for a connection or a channel of a consumer
  that is gone.
* `VideoTrack`, `AudioTrack`: GStreamer keeps calling the elements and ends a pause;
  the application feeds the video to its end, and downstream does not refuse a GAP
  for ever (strong fairness of `Push`). Nothing makes upstream audio come.
* `VideoPlain`: the second between two dials passes, the readiness deadline comes,
  upstream delivers and the source's task runs. `NativeMemory`: neighbours hold memory
  for a finite time (strong fairness of `FreeMem`, which needs the mutex), the source reads, `acquire` has a deadline.
* `AvBin`: threads run, the waits inside a session are bounded, a state change that
  has begun goes on; nothing obliges the application, the media or the peer.
* `SlotSet`: the caller runs, and either its deadline comes or the consumer creates
  its channels, releases what it holds and the GPU finishes. `MemoryAgreement`: both endpoints run, socket timeouts are finite.

### What the violated runs show

* `posix_resize_failure`: `acceptLoop` forgets the pending frame before it knows
  that the new ring can be allocated (`framelink_linux.cpp:371-375`). After a
  failure the old ring stays in use, the frame is never taken and never
  released, and a producer that had submitted every slot waits for ever.
* `win_attach_race`: the busy check of an attach ends its critical section before
  `resetSync` (`framelink_win.cpp:345-354`). `flAcquireFrame` may take the old
  producer's frame in between; the ring changes hands under it, and its release
  no longer matches `heldReady`.
* `win_resize_race`: `flRelease` signals after it has unlocked
  (`framelink_win.cpp:902-922`). If a resize replaces the fences in between, the
  signal lands on the new fence with an old value, and the producer believes that
  slots of the new ring were consumed.

### Deviations seen while modelling

Further places where the code does not do what its documents say. The component's
module states the documented behaviour under the name given here; added to a
configuration of that module, TLC finds it violated.

* `SlotSet`, `BusyMeansAllExist`: a walk answers `FL_BUSY` when any channel of its last
  sweep was occupied (`framelink_slots.cpp:45`), also when others do not exist;
  `framelink_slots.h:42-43` says "FL_BUSY when they all exist but are occupied".
* `AvLocal`, `ConsumerMayStartFirst`: a record left by a killed producer makes a consumer
  that starts early dial a dead port and fail at once
  (`framelink_session_transport.cpp:230-243`); `framelink_session_transport.h:33-34` says "a
  consumer may start first and wait up to the same finite deadline".
* `AvBin`, `ReadyStarts`: setup that ends while the bin goes to PLAYING queues
  `releaseMedia` twice (`gstframelinkavsrc.cpp:116`, `:218`). The second call passes the
  check at line 85 before the first has finished, finds no channel and fails a
  healthy session.
* `AvBin`, `stale`: READY to NULL joins the worker and the drainer, then deletes
  `Shared` (`gstframelinkavsrc.cpp:152-155`, `gstframelinkavsink.cpp:166-170`), but a call of
  `releaseMedia` in progress goes on with it; `GSTREAMER_AV_CONTRACT.md:129-130` says "No thread
  may access a destroyed element/context". `~stale` is violated, and without it
  `NoMediaBeforeReady` is too: such a call may release the media of the next session.
  `BinSound` therefore states `NoMediaBeforeReady` and `ReadyAfterStart` up to this event, and
  everything else of both bins throughout.
* `AvBin`, `NullOwnsNothing`: `start` of an inner element that fails after it adopted the
  channel (`gstframelink.cpp:419`) keeps it through NULL, and the next session's adoption
  is refused; `GST_AV_REFERENCE.md:71` says "Reconnect requires NULL and a fresh session".
* `AvBin`, `EosPosted`: the EOS messages of two inner sinks race on a list without a lock
  (`gstframelinkavsink.cpp:256`); one may be lost, and the bin never drains.

In the following places the property states what the code does, with the exception
spelled out, and the run includes the steps that need it.

* `VideoPlain`, `Balanced`: the Windows build drops a frame for its pitch without
  counting it (`gstframelink.cpp:649`); the sink has failed then.
* `VideoPlain`, `BreaksMarked`: outside a session a buffer that the base class discards at a
  pause leaves a gap that is not marked DISCONT (`gstframelink.cpp:1530-1550`);
  `AUDIO_VIDEO.md:65-66` says "sequence gaps ... mark DISCONT". Exactly the discarded frames
  may be missing, and if one of them carried the flag the break it marked is lost too.
* `AudioTrack`, `AudioCompletes`: a standalone sink has generation 0 until it inspects a
  buffer (`gstframelinkaudio.cpp:62-65`, `:112`), so that the terminal record of a stream
  without a block, empty or of GAPs only, says 0 (`:254`) and the consumer refuses it
  (`gstframelinkaudiosrc.cpp:101`).
* `NativeMemory`, `Revoked`: an image may be handed out after the sink stopped, to the one
  call of `acquire` that held the mutex when `active` was cleared (`gstframelink.cpp:292`,
  `fl_gst_dmabuf_producer.hpp:27-50`). It cannot be published any more, and its slot returns.

One repetition is below the granularity of `VideoTrack`: of several GAPs before a frame,
those ahead of a refused one are pushed again with the retry (`gstframelink.cpp:1291-1293`,
`:1748`); the model counts the GAPs of a frame as pushed when all of them and the frame are.

## 4. Proofs

A proof module extends the MC module of its run (or, for the ledger and the
channel, the component itself), so that a theorem is about the very specification
and the very properties that TLC checks, for every value of the constants. It
rests only on the named assumptions about constants, which TLC evaluates in every
run: types of C data, limits that are positive, and room for the three endpoints
that a memory policy names.

### ReadLedgerProofs

`ReadLedgerProofs` proves, for every capacity, number of readers, set of slots and
limit (`LedgerAssumption`: the capacities and the token limit are positive, there
is a slot):

| Theorem | States |
|---|---|
| `LedgerInvariant` | `Spec => []IInv` |
| `LedgerTypes`, `LedgerCountsReaders`, `LedgerIsOrdered`, `LedgerNeverRetiresReader` | `Spec => []P` for `TypeOK`, `CountsMatch`, `WindowOrdered`, `NoReaderRetired` |
| `LedgerTokensUnique`, `LedgerTokensStable` | `Spec => TokensNeverRecycled`, `Spec => TokenNamesOneFrame` |
| `LedgerIsLeaseQueue` | `Spec => ImplementsLeaseQueue`, the refinement of `LeaseQueue` |

The inductive invariant is `IInv == TypeOK /\ CountsMatch /\ WindowOrdered /\
RetiredBehind`. None of its parts is inductive alone. `TypeOK` needs the exact
counts, since `complete` subtracts one from a natural number. `CountsMatch` needs that
a reader refers to a recorded frame, so that the cell after the newest frame is
unused when `acquire` overwrites it and a popped cell has no reader. That a pop
removes exactly the reported prefix needs the order of the values, and that
nothing acknowledged lies above a recorded value needs `RetiredBehind`: an empty
ledger has acknowledged its own generation, which rules out a return to an
earlier generation with smaller values.

The lemmas are the arithmetic of the circular array (`AtInjective`: offsets of
less than one lap name different cells; `AtShift`: advancing the head renames
cells), what `addReader` and its reverse do to the counts (with the cardinality
theorems of the library), and one lemma per action.

`LedgerIsLeaseQueue` maps the ledger to `LeasedQueue`: the cells from `head` on, in
order, each with the set of tokens of the reader entries that name it (`LeasedFrame`).
Its invariant is `QInv == IInv /\ TokensDistinct`: no two live entries have the same
token. Without it a finishing reader could take another out of the set of holders
while the cell still counts both. Every operation is then one step of the queue or
none: `acquire` is `Lease`, `retain` is `Share`, `complete` and `finishDeferred` are
`Finish`, `retired` is `RetirePrefix`, a token issued outside the ledger is
`IssueElsewhere`; `defer` and `resetEpoch` change nothing the queue shows. The step
that needs the most is `retired`: the pops of the circular array are exactly the
longest prefix of frames without holders (`RetiredPopsPrefix`), although the
code looks at counts and never at the entries.

### PosixChannelProofs and ChannelsProofs

`PosixChannelProofs` proves of one channel, for every number of producers, ring
size, geometry and last value, and in each combination of the mode switches that
`ChannelAssumption` allows: `ChannelIntact`, `ChannelHandedOutWell`,
`ChannelLeasesHold`, `ChannelQuietHandover` and the refinement
`ChannelImplementsFrameRing`. `ChannelsProofs` carries the results to the four POSIX
modes of the run (`ChannelsIntact`, `ChannelsHandedOutWell`, `ChannelsLeasesHold`,
`ChannelsQuietHandover`, `ChannelsImplementFrameRing`): what is shown there is that a
step of a mode is a step of its channel and that the other parts leave it alone.

The inductive invariant is `Sound == TypeOK /\ Links /\ Peers /\ Core`.

* `Links` says which messages may be on a link, by the position of its two ends: a
  producer that has not opened the present ring can have no release on its way
  and at most one `RingDesc`, which is of the present generation; a request for
  a geometry is the last message of its sender. Without it a release of an old
  timeline could be read on the new one.
* `Peers` says whom the accept thread serves and whom the consumer sends to, and when
  these are the same producer.
* `Core` relates the values of the timeline: those of the frames in the slots,
  pending, held, leased and being read, and those of the releases queued by the
  consumer, in flight, and queued by the producer. `NoOverwrite` is not inductive
  because a release far up the pipeline decides when a slot may be drawn: `Core`
  therefore says that on every way from a release to the producer's retired
  value there is a fence, met first, that waits for each read the release covers
  (`Fenced`, `Shielded`). It also says (`Starts`) that nothing is
  pending, held or read in a ring that its producer has not opened yet.

One lemma per action and layer; an action that touches one end of a link is
proved for the part of the invariant that speaks of that end, and the rest follows
from what it leaves unchanged (`Stays`, `Keeps`, `Restarts`). The refinement needs
`Core` as well: `FrameRing` draws only into free slots, which is what it shows of
`flAcquireBuffer`.

### WinChannelProofs

For every ring size, last value and number of rebuilds (`WinAssumption`).
`FramesAreWritten` holds in every mode, also with producers that follow one another;
`SignalledReadsIntact` holds of a consumer that signals its own reads (`FL_GPU_SYNC` or
`FL_DEFER_RELEASE`) and serves one producer. `ChannelsProofs` states both for the modes of the run:
`WinChannelsIntact` (`WinIntact`) and `WinRebuiltIdle` (`WinResizeIdle`). The restriction is
the one under which the properties hold: without it the runs `win_attach_race` and
`win_resize_race` are counterexamples.

* `Pipe`: which message is in the pipe when the two ends stand where, and that the
  fences of the consumer are those the producer signals, or that nothing was
  signalled on them. The identity of the pair decides `NoUseBeforeWrite`: a completed
  value is compared with a frame, and only the pair says whose value it is.
* `Timeline`: consumed < read, owed and signalled <= held < pending < announced. The
  producer draws into a slot whose value is at most the consumed one, so an image
  further up this order is not touched; no part is inductive without the one
  below it. A resize or an attach meets a channel in which nothing of the order is
  left (`Starts`): with a second producer, or with a release that signals after it
  unlocked, this is what fails.

### DiscoveryProofs

`SlotSetTypeOK` and `SlotAnswers` state `[]TypeOK` and `[]AnswerIsHonest` for any set of
producers and any number of slots (`SlotAssumption`). `AnswerIsHonest` speaks of the end
of a walk and is not inductive: `Sweeping(w)` says what holds in the middle of a
sweep (nothing passed was free all along; if it was refused nowhere, nothing passed
existed all along; a channel that refuses now has been noticed), and `Answered(w)` carries it over to the answer.

`DirectorySound` states `RendezvousSound` for any owners and readers. `RInv` says that an
owner between creating its temporary file and closing is the live holder of the
lock, and what the record is at each of its steps; that a record belongs to the
owner in force then follows because two owners cannot both hold the lock.

`SessionSetup` states `SetupSound` for any number of attempts of the two sides, with
every failure, cancellation and crash between them. The lemmas are about
`S(T, M)`, the setup with any tracks and any bound on attempts; the three sessions
of the run are shown to take its steps. What the producer releases or ends on is a
marker it reads long after it was written, by a consumer that may have died and
started again since. `SInv` therefore adds `Linked` (two open ends have one credential, a
closed end has no mail), `Consumes` and `Produces` (what a side has set up at each stage),
`Told` and `Confirmed` (a marker on its way says something true of the session of
whoever will read it). `MailKept` shows once which step may send which marker, so the
other lemmas need not look into the inboxes.

### AgreementProofs

*Clock*, for every width, rate and length of track (`ClockAssumption`): `OffsetIsFloor`
shows that `flSessionSampleOffset` computes floor(index * NS / Rate) or reports the
range, although its intermediate products are computed modulo the width.
`NoAccumulatedRounding` (`DurationsAddUp`), `MappingMovesTheTrack` (`MappedAsAWhole`) and
`ClockTypeOK` follow from `IInv == TypeOK /\ DurationsAddUp /\ MappedAsAWhole`, and
`BlocksAreSeamless` (each block starts where the last one ended) as an action
property.

*Contract*, for any offers, configurations and foreign messages of the C types
(`ContractAssumption`): `SessionAgreed` (`ContractSound`). The lemmas are about the functions: what negotiation selects fits
both offers (`Fit`), validates, and survives encoding and decoding. `MessagesInv` adds
that a message of the owner is the encoding of a configuration it selected
(`WireShape`), without which nothing is known of a configuration once accepted; that
none returns (`NeverReturns`) needs the history of all that were replaced, each older than
the next.

*Memory*, for any offers, sessions, usages, resources, operations and neighbours
(`MemoryAssumption`): `MemoryAgreed` (`MemorySound`). The two ends exchange six messages in
lock step and `MemorySound` speaks of the last of them; the inductive `MemoryInv` adds
`Pending` (the unread messages of an end are exactly those its peer has written and
it has not read, in order), `Knows` (what an end has checked, by its position in
the exchange) and `Elements` (what has been joined and applied). That both sides
compute one verdict from the same two offers is the symmetry of `EvaluateEndpoints`.
The parts *bound* and *fine* restrict offers and failures; their steps are shown to
be steps of *memory*.

### ThreadsProofs

*Recorder*, for any set of threads, capacity and number of buffers
(`TraceAssumption`): `TraceTypeOK`, `ExportIsPrefix` (`PrefixOnly`), `LossIsReported`
(`LossReported`). The inductive invariant adds `WriterInv`, what a buffer holds between
the steps of `record` (slots below the published count are whole, and drops begin
only when it is full), and `ExportInv`, what the file holds of a thread before, while
and after its buffer is visited. `PrefixOnly` alone is not inductive because an export
copies slots whose content only `WriterInv` describes.

*Coordinator*, for any threads, tracks, generations, mappings and ends
(`SessionAssumption`): `CoordinatorHolds` (`CoordinatorSound`) and `ReadyWaiters` (a waiter is
told of readiness only for the generation it asked for). `OneMapping`, `OneEnd` and
`AudioClaimedOnce` count in the history of a run; `CInv` adds that the history of the
generation in force agrees with the coordinator's state and that no later
generation has any history, so that a new configuration starts with none.

*Events*, for any queue limit and number of events (`EventAssumption`):
`EventsDelivered` (`EventsSound`). The invariant `EInv` says that what was delivered, is
queued, is in the reader's hands and lies whole on the wire is, in this order, the
log of what was sent: each of the four hand-overs keeps it, none keeps
`PrefixDelivered` alone.

*A/V bins*, for any enabled tracks and any number of sessions, pauses and calls of
`releaseMedia` in flight (`BinAssumption`), with everything that may fail: `BinsSound` (`BinSound`), of
`framelinkavsink` and `framelinkavsrc` alike (`Bin(p)`). The invariant `BInv` consists of

* `Owned` and `Apart`: the open channels are those someone holds, and the worker,
  `Shared`, a call and the inner video element exclude one another. `OneOwner` alone is not
  inductive: a worker that announces its channel would overwrite one that `Shared` still
  had, so `Shared` has none while the worker is at work, and a call past `adopt-channel`
  has none. This holds of calls that work on a deleted `Shared` too;
* `Closing`: in NULL the worker has been joined, `Shared` is fresh and has no channel, and,
  unless one had its `Shared` deleted under it, no call is past its first step;
* `ReadyHolds`: until `stale`, media was released by a call that started every inner
  element, for a consumer that was ready;
* `Reports`: what was let through, reported and posted; the drainer of `framelinkavsrc` runs
  only after every track ended, and then no inner source can fail any more.

### MediaProofs

*Native memory*, for any ring, any number of memories and of frames
(`NativeAssumption`): `NativeImages` (`NativeSound`). Readers are freed in any order while
the producer is only told one number, the newest frame it may reuse. `NInv` adds
`Ordered`: the leased and the pending frames are in the order they were submitted and
newer than that number, so that a slot which passes for reusable is never one that is
read (`Collects` shows that only a prefix of finished leases moves it). `Waiters`: whoever
waits for an image holds the producer, so that it is open when one is handed out late,
and after the stop the mutex is not passed on to another check. `Distinct` and
`Writing` say that two memories never stand for one slot and that the slot of a
writable one is reserved; without them a cancelled memory could free the slot of
another.

*Video track*, for any ring, any number of frames, gap events and pauses and any
number of gaps collected at a time (`VideoAssumption`), alone and with an audio track:
`VideoStream` (`VideoDelivered`). What `MCMedia` runs are two cases of one instance,
`Track(c)`, and each step is proved once, for every `c` in `Cases`. Frames and
records travel on two ways, the ring and the event stream, and the ring forgets: that
they come out in the order they went in holds because of how the two are related,
which is `VInv`:

* `SentInOrder`, `InOrder`: what was sent, and the records on their way, increase, and
  an end is the last of either;
* `Follows`: a frame not marked as a discontinuity was sent right after a frame, so
  the source may push it without waiting for a record;
* `Newest`: the ring ends with the newest frame, and a frame whose ring sequence is
  the next one has none between it and the frame in hand (the code's test at
  `gstframelink.cpp:1373` is what keeps this);
* `Placed`: what was pushed, then the gaps collected, then the delivery under way
  begin what was sent;
* `GapsOnTheWay`, `BarriersPlaced`, `BarriersCome`: the gaps still to come are exactly the
  records on their way, a barrier stands among them where its frame was sent, and a
  marked frame in the ring has its barrier on the way. These hold while the
  session lives (`Alive`): a cancelled one loses records.
* `Stages`: what the source holds at each point of `srcCreateImpl`.

*Elements outside a session*: `PlainElements` (`PlainSound`), for a sink that dials and for both ends of a brokered
channel (`Plain(d)`), any pool, geometries, number of frames, streams, starts and
generations of the ring. The bounds ask only that an adopted ring, which starts in
generation 2, is within `MaxRing`. `PInv(d)` adds to what is promised:

* `Here`: an attached sink knows the geometry of the ring as it is, and the frame that is
  pending and the frame that is held were written in this generation of it: renewing
  and resizing drop the one and are refused while the other is there;
* `Sourced`: the generation the source saw last is not newer than the ring's, while they
  agree the caps negotiated are the ring's, and the last frame stamped belongs to that
  generation and `Continues` what was pushed: it is the frame of the last buffer, or
  further by exactly the buffers discarded since, unless one of these had the flag.
  `Fresh` compares with this frame and not with what went downstream.

`NotDialled` shows from the same invariant that no step but adopting gives a delegated
sink a channel.

### Model-checked only

* Every liveness property: fairness and `ENABLED` are out of reach of the prover.
* `AudioDelivered`: the depayloader's state is a fold over the bytes read so far; what it
  holds after any bytes needs an induction over data.

## 5. Not modelled, and the plan

`components` in `PROJECT.json` lists every part with its status. Left to do:

1. `WinChannel`: read leases, buffer references, close of the consumer.
2. The 256-entry token table of buffer references; framing and descriptor passing of
   the POSIX transport.

Left out for good: pixel copies, caps and property handling of the elements and the
encoders of frame metadata and layout (sequential, no state of their own); the
cryptography of `runtime/av_auth.cpp`; the sample applications, Android
applications and tools apart from the memory agreement (clients of what is
modelled); GPU drivers and the operating systems' sockets, pipes and file locks
(modelled as external behaviour where the code uses them).
