# Specification of RDMA-Lib

TLA+ models of `rdmalib`, the TLC configurations that check them on small
instances, and TLAPS proofs about every component. Paths of the form
`src/...` are files of the repository. `PROJECT.json` maps every definition
to the lines it models and lists runs, mutants, findings, hazards and
theorems.

## 1. The system

A *provider* process shares buffers; *reader* processes read and write them
over RDMA. A small TCP service tells readers what is shared and hands them
the tuples (address, rkey) that RDMA needs.

| Component | State | Operations | Hard part |
|---|---|---|---|
| Provider tables, `providers.rs` | `catalog`, `groups`, `tuples` (one mutex each), `owners`, `next_id` | `register(_typed)`, `serve`, `get_shared_mr`, `tuple_of`, `catalog_and_tuples`, drop | used by the application, the service and every session thread; locks are taken one at a time, so what was read under one is stale under the next |
| Metadata service, `providers.rs`, `meta.rs` | listeners, shutdown flag, list of sessions | `Service::run`, `handshake`, `SessionThread::wait_for_updates` | two networks (TCP, RDMA CM) that must agree about who is being served; time-outs; shutdown |
| Reader session, `readers.rs` | per group: `channel`, connection slot, cache | `update` (fresh session or refresh) | the peer may be slow, dead, restarted, of another version |
| Remote region access, `readers.rs` | a handle: address, size, layout, slot | `read`, `read_into`, `write`, the typed calls, `check_elem` | offsets and sizes near 2^64 |
| One-sided operations, `rdma/verbs.rs` | send queue, completion queue, `next_wr_id` | `Connection::read`, `write`, `one_sided` | a call that times out leaves its work request behind |
| Connections and listener, `rdma/verbs.rs` | event channels, cm ids, completion queues, queue pairs, domains | `connect`, `bind`, `accept(_into)`, `wait_event`, drops | every step of a set-up can fail; accepted connections report on the listener's channel and share domains |
| Reader cache, `readers.rs` | catalog, tuples per region and group, connection slots | `ingest`, `get_remote_mr` | handles outlive updates, reconnects and provider restarts |
| Wire format, `meta.rs` | position in the stream | `send`, `receive`, `encode`, `decode` | partial reads and writes, lengths, `MAX_FRAME`, peers that speak something else |
| Test barrier, `tests/common/mod.rs` | clock, highest clock heard of each peer | `GlobalSynch::synch`, `poll`, `answer`, responder | two threads per node; a node leaves while others still ask it |

How they interact: the service answers a greeting, takes a group join, blocks
in the RDMA accept for that reader's connection (into the group's protection
domain), replies with the catalog and the group's tuples, and hands the TCP
connection to a session thread. Session threads and the application call
`tuple_of` on the same tables. The reader caches the reply; its region
handles use whatever connection the group's slot holds. Dropping the provider
raises the flag, joins the service (which joins the sessions), drops the
tuples, then the domains, then the buffers.

What makes each part correct:

- *tables*: a tuple handed out names a living registration of the right
  buffer in the right domain; nothing is registered beyond its buffer's or
  domain's life; no interleaving loses a registration; servers never meet an
  unknown region or group;
- *service*: each connection ends in its own reader's group; a drop
  terminates and leaves nothing open; other versions are kept out;
- *reader session*: `Ok` means everything registered before the call is
  known; every call returns;
- *data plane*: no request outside the region; `Ok` means the call's own
  transfer; a returned buffer is left alone;
- *cache*: the tuples found for a group go with the connection in its slot;
  an update of one group loses nothing of another's;
- *connections*: nothing is destroyed before what is used through it, and
  nothing is lost, whichever step fails;
- *wire*: the stream behaves as whole messages in order; what is decoded is
  what was encoded;
- *barrier*: nobody leaves a round before all have entered it; everybody
  leaves it.

## 2. Modules

| Module | Models | Kind |
|---|---|---|
| `TupleRegistry` | what the provider promises: a table of tuples that only grows | abstract |
| `SharedProvider` | tables, application, service and session threads, drop; implements `TupleRegistry` | component |
| `SharedProviderProofs` | inductive invariant, theorems, the refinement | proofs |
| `Rendezvous` | readers, service, session threads, TCP and RDMA CM with faults | composition of reader and provider |
| `RendezvousProofs` | inductive invariants and theorems, with and without faults | proofs |
| `ReaderCache` | a reader's sessions, cache and handles against a provider that restarts | component |
| `ReaderCacheProofs` | inductive invariant and theorems | proofs |
| `OneSided` | region access and `one_sided` against the device | component |
| `OneSidedProofs` | inductive invariant and theorems | proofs |
| `MessageChannel` | what a metadata channel promises: whole messages in order | abstract |
| `Wire` | `encode`, `decode` and frames over a byte stream; implements `MessageChannel` | component |
| `WireProofs` | the codec both ways, inductive invariant, theorems, the refinement | proofs |
| `Connections` | connection manager and verbs objects: set-up, failure, release | component |
| `ConnectionsProofs` | inductive invariant and theorems | proofs |
| `Barrier` | `GlobalSynch` | component |
| `BarrierProofs` | inductive invariant and theorems | proofs |
| `Subsequences` | `Keep`: `Vec::retain`, `Iterator::filter` by membership in a set | operators |
| `DataLemmas` | facts about `Keep`, the least-counterexample principle, and that a recursion over `0 .. n` has a solution | lemmas |
| `MCSharedProvider`, `MCRendezvous`, `MCOneSided`, `MCWire`, `MCConnections` | values and symmetry for TLC | model checking |

How they fit together: `Rendezvous` uses channels as `MessageChannel`
describes them, which is what `Wire` implements. Its catalog is a version
number; what the versions stand for is `SharedProvider`. A session that works
or fails there is one step of `ReaderCache`, and the handles `ReaderCache`
gives out are what `OneSided` reads and writes through. `Connections` is what
"accept" and "connect" of `Rendezvous` do inside. In several modules a
definition marked *Mutant* stands before the one it alters; `PROJECT.json`
says which property it breaks. `Keep` is a recursive function instead of
`SelectSeq`, whose definition the prover cannot open.

### SharedProvider and TupleRegistry

`catalog`, `owners`, `groups` and `tuples` are the code's maps; `mrs` is the
set of registrations alive on the device. An action is the code between two
lock acquisitions: `tuple_of` is `Lookup` (tuples lock), `GetDomain` (groups
lock), `GetEntry` (catalog lock), `RegisterAddr` (no lock), `Insert` (tuples
lock), with the early returns as branches. `pd`, `ent` and `mr` are the local
variables that survive from one lock to the next. `catalog_and_tuples` is
`Snapshot` and a `NextRegion` per region in any order. The drop is `Stop`,
`ClearTuples`, `DropShared`, `DropOwners` in the order of `Drop` and of the
struct's fields. `LiveBuffers` and `LivePds` are what reference counting
keeps alive. A buffer is its number, its contents and name are left out; a
domain and a key are model values picked by the device. The network is the
environment: which group a reader asks for, and whether an accept, a receive
or a send succeeds, is a free choice. `served`, `contended` and `unknown`
are history variables.

`TupleRegistry` knows none of this: a table from (region, group) to address,
size and key, `Publish`, `Close`, and `Replace` only for a pair that was
raced for. The mapping takes the tuple table, `contended` and whether the
tables were dropped. That no two entries share a key, and that a region has
one address for all groups, is part of the abstract steps' guards.

### Rendezvous

A connection id is `<<reader, k>>`, the reader's k-th fresh session: its TCP
connection and its RDMA connection. `toP`/`toR` are the TCP streams, `events`
the listener's event channel, `cm` each RDMA connection's state, `pOpen` and
`rOpen` who still has the socket. The tables are abstracted to the catalog's
version `ver`; `Metadata` and `Tuples` travel as one `Exchange`, since they
are written back to back by one thread and read back to back by the other. A
send to a closed peer is modelled by the receive that follows it failing:
both end the session the same way. `faults`, picked from `FaultSets` at the
start and never changed, is which failures the environment has in a behaviour
(reader leaves, reader crashes, idle reader, late answer, refused connect):
properties that some failure breaks say for which values they hold. The connection manager is external and modelled from its
use: requests and the events of accepted connections go through one queue in
order, destroying an id removes its queued events. A process that updates
several groups behaves like several readers: each group has its own channel
and slot.

### ReaderCache

`metadata` and `regions` are the fields of `RemoteMemoryProvider`, `opened`,
`channel` and `slot` those of its `GroupSession`s. A tuple is the region and
the incarnation of the provider that made it, which is all the properties ask
of its address and key. `Refresh` and `Connect` are the two ways into
`update`, `Connect` filling the slot before the exchange is received, as the
code does; `ReceiveExchange`, `IngestRefuses` and `ExchangeFails` are its ways
out. `Serve` is `catalog_and_tuples` seen from outside: any subset of the
regions may have no tuple. `Restart` may come at any moment, also between
connect and exchange.

### OneSided

`SatAdd`, `SatMul`, `InBounds`, `CheckElem` and `Aligned` are the checks of
the reader's calls in saturating arithmetic with the limits `U64Max` and
`U32` as parameters. `Post` is registration, work request and `ibv_post_send`
(length cut to 32 bits), `PostFails` the same with the send queue full;
`Poll` and `GiveUp` are the completion loop; `Reconnect` is the slot being
replaced by a fresh session, which happens only between calls: one thread
makes both, and a call borrows the slot to its end. `Execute` and
`ExecuteFails` are the device: it may carry out a request only while its local
buffer is registered, and after a failure it flushes the rest. A failed
request may have moved part of its data.

### Wire and MessageChannel

One direction of a channel. `Encode` and `Decode` work on bytes, with the
byte's base and the integer widths as parameters; a message's layout is a
list of field kinds for its fixed part and for its rows, in the order the
code puts and takes them. `Send` writes a frame, `SendFails` a prefix of one
and then the stream closes; `Deliver` moves one byte. `ReadHeader`,
`ReadPayload` and `ReadFails` are `read_frame`'s two `read_exact` calls, which
succeed, reject or lose what they had taken. `Stray` is another program at
the sending end. `MessageChannel` has only `sent`, `got` and whether the
receiver still uses the channel.

### Connections

`alive` holds the objects that exist, as <<kind, owner>>; `holds`, `pd` and
`arg` are what the Rust values lead to. There is one action per call that
creates an object, `Fail` for a failure of any of them, and `DropNext` /
`DropPd` for the drop in its order. A protection domain is counted by its
handles, like the `Arc` in the code. `Swallow` is `wait_event` taking another
reader's request while it waits for `ESTABLISHED`. `lost` marks what no
variable leads to any more; only two actions add to it, each for a place
where the code really loses an object (section 4).

### Barrier

`clock` and `known` are `GlobalSynch`'s fields. The calling thread is
`Enter`, `Drain` (read the responder's reports, leave or start a pass),
`Poll`, `PollDone`/`PollBroken`/`PollTimeout`, `Again`, `Leave`; the responder
is `CheckFlag`, `Accept` (which reports the poller's clock first) and `Answer`
(which replies with its own after that). `queue` is the listener's backlog: a
poll is accepted by the kernel before the responder gets to it, and stays
there when its poller gave up. `Exit` is a process that dies or runs into the
deadline. `gaveUp` and `ahead` are history variables.

## 3. Runs

Deadlock checking is off in all of them: the bounds on calls, sessions,
rounds and regions stop every behaviour, and a dropped provider really stops.

| Run | Properties | Instance | Result |
|---|---|---|---|
| `provider` | `TypeOK TableSound NoLeak Pinned ServedStaysValid ServersKnow ServesRegistry DropEnds` | 2 groups, 1 session, 1 region of size 0 or 1, 2 keys, 2 domains, fairness | pass, 383,094 states |
| `provider_same_tuple` | `SameTuple` | 1 group, 1 session, 1 region | violation |
| `rendezvous` | `TypeOK OwnGroupUndisturbed NoUpdateFails VersionsKeptApart SessionStaysOpen Fresh AllClosed UpdateReturns DropEndsUndisturbed` | 3 readers (one of another version) in 2 groups, 2 sessions each, 1 registration; no failures; idle readers and time-outs; these with crashes and refusals; fairness | pass, 405,092 states |
| `rendezvous_own_group` | `OwnGroup` | 3 readers, readers leave | violation |
| `rendezvous_drop` | `DropEnds` | 1 reader, crash, fairness | violation |
| `reader_cache` | `TypeOK MirrorsCatalog SlotMatchesTuples NothingLost HandlesUsable` | 2 groups, 2 incarnations, 2 regions of 2 layouts, 4 updates | pass, 2,927,069 states |
| `one_sided` | `TypeOK InsideRegion OkIsOwn EntriesAccounted QuietAfterReturn` | region of 6 bytes at 4 in 0..15, 2-byte elements, queue of 2, 3 calls, 2 connections | pass, 286,234 states |
| `one_sided_cut` | `OkMovesAll` | the same | violation |
| `wire` | `TypeOK Canonical OnlyOversizeRefused WholeMessages` | 6 messages of all shapes, 2 sent, length fields up to 10, 6 stray bytes | pass, 1,334,632 states |
| `connections` | `TypeOK Supported DomainOnDevice Reachable` | 3 connections, 2 devices, 1 listener | pass, 304,418 states |
| `barrier` | `TypeOK NoEarlyLeave HeardBeforeLeft RoundCompletes` | 2 nodes, 3 rounds, 1 time-out, exits, fairness | pass, 97,131 states |
| `barrier_stranded` | `NobodyStranded` | 2 nodes, 2 rounds, no faults | violation |

Why the bounds are enough for the cases of interest:

- `provider`: the application and a session, the application and the
  service, or the service and a session can be in `tuple_of` for one pair at
  once; two groups need two tuples for one region; size 0 makes
  `register_addr` fail; two keys make one free for reuse after a replaced
  registration. The theorems of section 5 remove these bounds for all the
  safety properties, the refinement included.
- `rendezvous`: without failures three readers (2, 2 and 1 updates) put two
  handshakes behind the one that is served, one of them refused by version.
  With idle readers and time-outs, three updates of one reader make a session,
  a refresh that fails and a second session while the refused reader competes
  for the service. With crashes and refused connects too, 2 and 1 updates of
  the two groups suffice for a reconnect whose old connection's events meet
  the other reader's handshake. Two readers with every failure and 3 and 1
  updates were checked as well, without the reader of another version
  (636,943 states). Readers that leave are the subject of
  `rendezvous_own_group`.
- `reader_cache`: four updates allow two per group, so a group can be updated
  before and after both a restart and the other group's update; two regions of
  two layouts let the incarnations differ in length and in every entry.
- `one_sided`: a queue of 2 fills up with two time-outs; the offsets reach
  U64Max; two connections make ids start over. With 3 calls, two late
  completions can precede the third's. Lengths are cut to two bits, so a
  call for 5 bytes of the region shows `one_sided_cut`.
- `wire`: a catalog of one region fits a frame exactly, one of two does not;
  integers of two bytes exercise byte order; a second message shows that the
  reader is in step after the first.
- `connections`: two connections can share a third's domain, on the same or on
  another device; one can be dropped, one be building and one fail.
- `barrier`: three rounds of two nodes let a node be one round ahead, the
  other catch up and the roles change. Three nodes were checked as well, in
  instances too long for a routine run: with 2 rounds and no faults the
  invariants hold (12,062,133 states), with 1 round and exits also
  `RoundCompletes` (440,133 states).

Symmetry is used in `connections` (connections, devices) and
`provider_same_tuple` (sessions, groups, keys, domains): these are only
compared for equality there, and neither run checks liveness.

### Fairness

Threads keep running: weak fairness of each thread's steps. In
`SharedProvider` a receive ends within `IO_TIMEOUT` (`set_read_timeout` on
every channel), so a session in `"wait"` eventually leaves it. The RDMA accept
has no time-out, so no fairness is assumed there, and `DropEnds` is stated
for a service that does not stay in it for ever. In `Rendezvous` whether the
accept returns is part of the model, and fairness only makes enabled steps
happen: there the accept waits for ever when no event comes. In `Barrier` both
threads of a node inside `synch` keep running, and a poll whose peer closed
its listener fails; nobody has to enter a round, and `RoundCompletes` speaks
of rounds everybody has entered. A read time-out is a step of the thread that
waits: where it may strike, the receive ends. There is no fairness on calls
the application makes, on crashes, refusals and readers leaving, or on the
drop.

## 4. Findings

- **Two threads making one tuple** (`provider_same_tuple`). `tuple_of` looks
  up, releases the lock, registers, inserts. Two threads that miss together
  both register; the second insert deregisters what the first returned.
  `providers.rs:401` promises the same tuple for repeated requests.
  `ServedStaysValid` and `ServesRegistry` hold with exactly this case
  excluded.
- **A connection joins another reader's group** (`rendezvous_own_group`).
  A disconnect event of an earlier reader makes the next accept fail, although
  `verbs.rs:995` says it blocks until a request arrives; the refused reader's
  request stays queued, and the handshake after that accepts it as its own.
- **Drop can wait for ever** (`rendezvous_drop`): a reader that dies between
  group join and RDMA connect leaves the service in an accept without a
  time-out; `providers.rs:351` bounds the wait by one message time-out.
- **A transfer of 4 GiB or more is cut and reported as done**
  (`one_sided_cut`). The checks and the registration use the full length;
  `verbs.rs:858` puts its low 32 bits into the work request. The call returns
  `Ok` with the rest of the buffer untouched, where `verbs.rs:798` and
  `readers.rs:178` promise all `len` and `size` bytes. `OkIsOwn` is about calls
  below 4 GiB; `InsideRegion` bounds the full length of every call.
- **A node of the test barrier can be stranded** (`barrier_stranded`). Node 2
  enters round 2 and polls node 1, which is still asleep in round 1: node 1
  records clock 2 and replies 1. Node 1 then enters round 2 with node 2
  already known to be there, leaves at once and stops listening; node 2 never
  hears clock 2 and exits at its deadline. The comment at
  `tests/common/mod.rs:186` rules this out. `HeardBeforeLeft` states what does
  hold: only this case and a poll that timed out can make it happen.

Seen while modelling, each at the border of a property that says so:

- An idle session is closed after `IO_TIMEOUT`, though `providers.rs:622`
  says requests are served until the reader hangs up or the provider is
  dropped; `SessionStaysOpen` is checked without idle readers.
- `meta.rs:31` calls `MAX_FRAME` the "Largest accepted frame, header included".
  The code (`meta.rs:236`) and the test `src/tests/meta.rs:125` bound the
  frame's length field by it, which counts the type byte and the payload but
  not its own four bytes: frames of up to `MAX_FRAME` + 4 bytes are accepted.
  `OnlyOversizeRefused` speaks of the length field.
- Only the receiver checks `MAX_FRAME`: a catalog that is too long is sent and
  refused by every reader (the exception in `OnlyOversizeRefused`).
- A send queue full of calls that gave up stays full: `ibv_post_send` fails
  before `one_sided` gets to polling, until a fresh session replaces the
  connection. `EntriesAccounted` says that nothing else fills it.
- The listener's event channel is destroyed when the service ends, before
  accepted connections that are still held (the exception in `Supported`).
- `Listener::bind` leaves its channel behind when `rdma_create_id` fails, and
  an accept that meets another reader's request forgets that child id (the
  two places in `Reachable`).
- A reader that leaves can make another reader's handshake fail:
  `NoUpdateFails` is checked without readers leaving.
- When the exchange of a fresh session fails, the new connection is already in
  the slot and the cache still has the tuples of the one before
  (`SlotMatchesTuples` is about groups whose last update was `Ok`).
- Handles kept across a provider's restart hold tuples of the provider before;
  and with no group named, `get_remote_mr` may pick a group that was not
  updated since.
- `update` keeps its channel when `ingest` refuses an answer, but drops it
  when the exchange fails.

## 5. Proofs

Checked by TLAPS for all values of the constants that satisfy the named
assumptions.

**SharedProviderProofs** (`Spec` of `SharedProvider`): `TypesCorrect`,
`TableIsSound`, `NothingLeaks`, `RegistrationsPinned`,
`ServedTuplesStayValid`, `ServersAlwaysKnow`, `ImplementsRegistry`.
Assumptions: thread names are distinct, `NoKey`/`NoPd` are no key and no
domain, sizes are naturals, and at most 2^32 (`IdSpace`) regions are
registered, so ids do not wrap. Number of threads, groups, regions, keys and
domains is arbitrary.

None of the properties is inductive. The invariant `IInv` is built in layers,
each using those before it:

1. `Control`: where each thread can be in each phase of the drop. Once the
   service has ended no session runs, and the drop clears the table only
   after that.
2. `Regions`: ids are not reused, and the owner map holds what the catalog
   lists.
3. `Domains`: a group has one domain, all its connections are in it, and a
   thread inside `tuple_of` holds the domain its group still has. This needs
   that only the service adds groups, one handshake at a time.
4. `Listed`: what a thread copied from the catalog is still there.
5. `Registrations`: keys are distinct, and a living registration has exactly
   one holder, an entry of the table or a thread about to insert. This is
   what `Insert` needs to deregister only what it replaces.
6. `Exclusive`, `Kept`: outside `contended`, one thread makes a pair, so what
   was handed out is what the table still holds.

`ImplementsRegistry` is the refinement: `Insert` is the only step that is not
a stutter, a race or the closing. `InsertFits` shows from layers 2 and 5 that
the new entry may stand beside the others, `InsertPublishes` that the step is
`Publish`, or `Replace` of a contended pair by layer 6.

**OneSidedProofs** (`Spec` of `OneSided`): `TypesCorrect`,
`RequestsInsideRegion`, `OkIsAlwaysOwn`, `ReturnedBuffersQuiet`, for every
region that lies inside the address space, every offset, count, layout, queue
depth and number of calls. The invariant says that only the running call's
buffer is registered (`Running`), that queued requests are inside the region
(`Queued`), that work request ids grow along completion queue and send queue
and the running call's is the last (`Ordered`), that a successful completion
of the running call's request means that the length it was posted with was
moved (`Truthful`), and that this is so of every call that returned `Ok`
(`OkIsCut`), which below 4 GiB is all it asked for.
`BoundsHold` is the arithmetic core: a saturated sum exceeds every region's
size. `QueueEntriesAccounted` counts the entries of both queues against the
calls that gave up and the one that runs: only a call that gives up leaves its
entry behind.

**RendezvousProofs** (`Spec` of `Rendezvous`): for any readers, groups and
bounds, with every kind of fault, `TypesCorrect`, `UpdatesAreFresh`,
`EndsClosed`, `OtherVersionsRefused` and `SessionsServed`. The invariant
follows a session from both ends. `Places`: at the provider it is in the
backlog, in the handshake or with a session thread, in one of them only, and
the socket is open exactly then. `Progress` and `Talks`: how far the reader
and the provider have come decides what may be in the two streams, so that
an exchange found there answers the update that is waiting and not one given
up before. `Foreign`: a reader of another version gets no further than its
greeting. `Served` adds that a session thread is at the other end of a kept
channel; it needs that no reader idles.

`JoinsOwnGroup` and `UpdatesSucceed` are about the behaviours with
`faults = {}`; the run `rendezvous_own_group` shows that the first fails when
readers leave. Their invariant `Calm` says that the listener's events are those of the handshake
under way (`Alone`) and that every reader past its greeting is the one that
handshake is with (`Waits`): one thread, one handshake, and nothing left in
the queue by the reader before.

**ReaderCacheProofs** (`Spec` of `ReaderCache`): `TypesCorrect`,
`CacheMirrorsCatalog`, `TuplesOfConnection`, `UpdatesKeepOthers`,
`HandedOutUsable`, for any groups, names, layouts, restarts and updates. The
invariant needs that an exchange on its way is not older than any taken in
(`Running`), that a kept channel and a successful update's exchange belong to
the connection in the slot (`Kept`), that a cached tuple stands under the name
and id its provider gave the region (`Entries`), and that a group has no
other tuples than its last update brought, and all of them while no other
group has reached a later incarnation (`Complete`). Catalogs only grow, so
what an earlier exchange said stays true.

**ConnectionsProofs** (`Spec` of `Connections`): `TypesCorrect`,
`NothingDestroyedEarly`, `QueuePairsOnDevice`, `NothingElseLeaks`, for any
connections and devices and a failure of any step. The order of creation and
of destruction is in `Owned`: whatever prefix of a set-up or suffix of a drop
has been carried out, what remains has what it is used through. `Domains`
says that a protection domain exists exactly while somebody has a handle of
it, `Placed` on which device, `Losses` and `Bound` what can be lost and when.

**BarrierProofs** (`Spec` of `Barrier`): `TypesCorrect`,
`NobodyLeavesEarly`, `HeardBeforeLeaving`, for any number of nodes, rounds,
time-outs and exits. `Genuine`: nobody is thought further than it is.
`Polling` and `Single`: a poll that is open has its poller waiting for it, and
only one. `Replies`: a reply is a clock of the node asked, which by then knows
the poller's. `Left`: who leaves has heard everybody. `Mutual`: in a round
both are in, hearing is mutual up to a given-up poll, a clock heard too early
and an answer under way; `HeardBeforeLeft` is what is left of it when a node
has gone.

**WireProofs** (`Spec` of `Wire`): `TypesCorrect`, `ConsumesExactly`,
`RefusesOnlyOversize`, `ImplementsChannel`, for any byte base, integer widths,
frame limit, messages and stray bytes, and the two theorems about the codec
they rest on. `DecodeInvertsEncode`: what `encode` was given comes back.
`EncodeInvertsDecode`: whatever bytes `decode` accepts are the ones `encode`
makes of the message it returns.

The codec is four recursions (the digits of an integer, the parts of a message
put one behind the other, the fields of a row, the rows of a message). For
each, one lemma says that it is the recursion it is written as
(`RestSolves`, `ValueSolves`, `JoinSolves`, `FieldsSolve`, `RowsSolve`), one
that reading finds what was written where the cursor stands (`IntThere`,
`ReadThere`, `RowThere`, `RowsThere`), and one that what was read accounts for
the bytes passed over (`IntBack`, `ReadBack`, `RowBack`, `RowsBack`).
`WalkThere` and `WalkBack` hold the induction that fields and rows share.

The stream's invariant: what the receiver has taken is the frames of the
messages it returned and the header of the next (`InStep`), and the library at
the other end has written the frames of what it sent, the last one perhaps in
part (`FromPeer`). So the next whole frame on the stream is that of the next
message sent (`NextFrame`), and `PayloadRead` gives that message, which is the
refinement's `Receive`.

`MessagesAssumption`: integers are of the width of their type, strings are
text, and lengths and counts can be written in 32 bits. The types of `Message`
give the first two. The third is a limit of `encode`, which cuts lengths with
`as u32`: a catalog of 2^32 bytes would be framed wrongly. It would be beyond
`MAX_FRAME` long before.

Every inductive invariant was checked by TLC on the instance of its run before
it was proved. The bounds of the runs (updates, sessions, rounds, calls) are
natural numbers here, without a limit. Besides these, thread and object names
are assumed distinct from the marks for "none", and the readers of the right
version are some of the readers.

Induction. The library's induction theorems take a predicate as a parameter,
which the installed provers cannot instantiate. Where a proof needs one,
`DataLemmas` goes by the least counterexample (`Least`, from
well-foundedness): a recursion over `0 .. n` whose steps stay in a set has a
solution (`Recursion`), `Keep` is such a solution (`KeptSolves`), and it
selects exactly the members, in order (`KeepSelects`).

Only model-checked: all liveness (`DropEnds`, `DropEndsUndisturbed`,
`UpdateReturns`, `RoundCompletes`), because fairness and `ENABLED` are out of the prover's
reach.

## 6. Not modelled

- FFI struct layouts and C declarations (`verbs.rs`): no behaviour; pinned by
  the layout tests.
- `RemoteSafe`, `zeroed_vec` (`pod.rs`): a marker trait and an allocation.
- `rdma/mod.rs`, `lib.rs`: re-exports.
- The node list of the test cluster: two environment variables parsed once,
  pinned by unit tests. A barrier whose port cannot be bound: the tests end
  the process on it.
- Contents of buffers, region names, error texts.
- `borrow`/`borrow_mut` of handles: `RefCell` checks within one thread.
- Word-level atomicity of RDMA accesses: a promise of the hardware.
- Wrap-around of `next_id` after 2^32 registrations: the id wraps in the
  model, the properties assume it does not come to that.

## 7. Plan

Done, in this order because the tables decide whether remote memory access is
safe, the session whether it is reachable, the data plane what it does, and
the rest what these three take for granted: `SharedProvider`, `Rendezvous`,
`OneSided`, then `ReaderCache`, `Barrier`, `Wire`, `Connections` and the two
abstract specifications.

Then the proofs: `SharedProvider` with its refinement, `OneSided`, `Barrier`,
`Rendezvous`, `Connections`, `ReaderCache`, `Wire` with its codec and its
refinement.

Left: the liveness properties, which stay with TLC, and the wrap of `next_id`
after 2^32 registrations, which `SharedProviderProofs` assumes away.
