# Rukkit in TLA+

Rukkit is a Minecraft Java Edition server core in three crates.
`rukkit-protocol` frames, compresses, enciphers and encodes packets,
`rukkit-world` stores chunks, and `rukkit-server` accepts connections, drives
them through handshake, status, login and configuration, and runs the tick loop
beside them. This directory holds TLA+ models of those parts, TLC configurations
that check them on small instances, and proofs that TLAPS checks for every value
of the constants. All paths below are relative to `src/crates/`.

Contents: 1 inventory, 2 modules and their correspondence to the code, 3 runs,
4 fairness, 5 proofs, 6 disagreements between the code and its documentation,
7 what is not modelled, 8 plan.

## 1. Inventory

### rukkit-server

**Connection tasks** (`rukkit-server/src/connection.rs`). `handle` is spawned once
per accepted socket and owns it: an encoder, a decoder, a read buffer and its
place in the code. Handshake leads to the status loop or to login; login, once
the client has acknowledged it, takes a player slot and enters configuration;
configuration ends in a disconnect, since there is no play state yet. The tasks
run on tokio's multi-threaded runtime and share the registry and the status
cache. Hard: tasks interleave at every await and between locks, reads and writes
fail anywhere, clients fall silent, and the slot must be given back on every way
out. Correct when slots and tasks in play correspond one to one, when a login is
refused for a reason only, and when a silent client loses what it holds.

**Player registry** (`player.rs`). A `RwLock<HashMap<Uuid, PlayerInfo>>`;
`try_insert` checks capacity and name and inserts under one write lock, `remove`
goes by uuid, `count` and `sample_names` are read under a lock each. Correct when
checks and insertion are one step and an entry is removed by its owner only.

**Status cache** (`status.rs`). One cached document with the count and the sample
it was built from. `json` looks under the read lock, and again under the write
lock before it builds. Correct when a request gets the document of what it read,
and when two requests that miss together build once.

**Login exchange** (`connection.rs` with `rukkit-protocol/src/codec.rs`, and the
client in `rukkit-server/tests/handshake.rs`). Both byte streams hold several
frames at once, and compression is switched on in the middle of them. Correct when
each end decodes every frame in the mode in which it was framed, and when neither
end gets a packet that its protocol state does not know.

**Server run and tick loop** (`server.rs`). `run` starts `tick_loop`, then accepts
in a `select!` beside `ctrl_c()`; an interrupt is passed to the tick loop through a
broadcast channel, and `run` waits for it. Hard: what becomes of a future that loses
a `select!`, of a message sent before the task ran, and of a timer that is looked
at late. Correct when only an interrupt ends the server, when a shutdown that has
begun completes, and when ticks are never made up for in a burst.

**Tick metrics** (`tick.rs`). A window of tick durations with mean, percentiles and
health. Correct when the percentile is the nearest rank at every edge, up to the one
rounding of the product that it is computed from.

**Configuration and main** (`config.rs`, `main.rs`). Read and validated once at start.
Correct when every setting that is accepted is one the server can run with.

### rukkit-protocol

**Frame codec** (`codec.rs`, `varint.rs`). The encoder frames one packet at a time;
the decoder buffers what reads deliver and takes whole frames out. Both can turn
compression and encryption on at any packet. Hard: reads end anywhere, sizes are
checked in several places against two limits, switches happen in mid-stream.
Correct when packets come out whole and in order, when malformed input is refused
without waiting for more of it, and when the buffer stays bounded.

**Stream cipher** (`crypt.rs`). AES-128 in CFB-8: each byte depends on those before.

**NBT** (`nbt.rs`). Nested tags with named entries, written and read by recursive
functions, and strings in Java's modified UTF-8. Hard: the reader works on input it
does not trust, to a limit on depth and on lengths; the length of a string and its
bytes are computed by different code, and one byte of difference garbles the rest.
Correct when what is written is read back, when what is accepted is written as it was
read, and when the recursion is bounded.

**Reader and writer** (`reader.rs`, `writer.rs`, `types.rs`). One function for each kind
of field. The writer has no limits, the reader has one for everything that comes with a
length. Hard: lengths come from the network, limits in characters meet lengths in bytes,
lists nest, coordinates are cut to fewer bits than they have. Correct when what is within
the limits comes back, and when a length costs no memory that the frame does not pay for.

**Packet definitions** (`packets/`). Ids, and for each packet the fields it writes and the
fields it reads, written down twice. Correct when the two agree to the last byte, and when
no bytes mean two things in the same state.

**Text** (`text.rs`). Components, sent as JSON before play and as NBT from then on.

### rukkit-world

**Bit storage** (`bitstorage.rs`). Fixed-width entries in 64-bit words, addressed by
a reciprocal instead of a division. Correct when that is exact.

**Paletted container** (`palette.rs`). The ids of a section in one of three
representations, promoted by writes and narrowed by `shrink`. Hard: which
representation and which palette it has depends on its whole history. Correct when
it behaves as an array of ids all the same.

**Chunk column** (`chunk.rs`, `block.rs`). Sections addressed by absolute height,
with packed heightmaps that callers bring up to date. Hard: the floor is below
zero, and the scan for heights exits early in four places. Correct when writes
reach the block they name and heights are those of the highest blocks.

**Generators** (`generator.rs`). Void and flat columns, with uniform sections filled
in one step. Correct when that gives the column the layers describe.

### How they interact

    accept loop --spawn--> connection task --calls--> registry, status cache (locks)
         |                        |
         | broadcast              +--owns--> encoder / decoder <--bytes--> client
         v
    tick loop --> tick metrics          generator --> chunk --> container, bit storage

The server crate uses the world crate only to generate and log a spawn chunk, so
the world modules are composed among themselves and not with the tasks. The hazards
that follow from all this are listed, each at its line and with the properties that
would catch it, under `hazards` in `PROJECT.json`.

## 2. Modules

| Module | Models | Uses |
| --- | --- | --- |
| `Connections` | connection tasks, player registry, status cache | |
| `Admission` | abstract: sessions that join with room and a free name, and leave | |
| `LoginWire` | the login exchange over both streams, with a client | extends `Connections` |
| `TickMetrics` | the window and its figures | |
| `ServerLifecycle` | `Server::run`, `tick_loop` | extends `TickMetrics` |
| `Varint` | VarInts | |
| `FrameCodec` | encoder, stream cut into reads, decoder | extends `Varint` |
| `PacketQueue` | abstract: a first-in first-out queue | |
| `BitStorage` | packed storage as arithmetic on words | |
| `PalettedContainer` | the container | extends `BitStorage`, `Varint` |
| `BlockArray` | abstract: an array of ids, with writes within and beyond it, and fills | |
| `Chunk` | chunk column, generators, heightmaps | extends `BitStorage` |
| `ModifiedUtf8` | encoding and decoding of strings | |
| `NbtReader` | `read_network`, `read_payload` | extends `ModifiedUtf8` |
| `Nbt` | `write_network`, `write_payload`, `Component::to_nbt` | extends `NbtReader` |
| `NbtBytes` | `read_network` on the bytes of a packet, at once | extends `ModifiedUtf8` |
| `Positions` | block and chunk positions packed into a long | |
| `Fields` | writing and reading a field of each kind | extends `Varint`, `Positions` |
| `PacketReader` | reading one frame: id, fields, end | extends `Fields` |
| `Packets` | ids and layouts of all packets, and writing them | extends `PacketReader`; `MCPackets` gives it `NbtBytes` for its constant `ReadNbt` |
| `LoginWire_proofs`, `ServerLifecycle_proofs`, `FrameCodec_proofs`, `Chunk_proofs`, `PalettedContainer_proofs`, `NbtReader_proofs`, `PacketReader_proofs` | theorems, those about `Connections` and `Positions` with the modules built on them | each extends its component |
| `Arithmetic` | lemmas about numbers, packed words and varints for those proofs | extends `Varint` |

`MCConnections`, `MCLoginWire`, `MCServerLifecycle`, `MCFrameCodec`, `MCChunk`, `MCNbt` and
`MCPackets` give the values that a configuration file cannot write. `PROJECT.json` maps every definition to its lines.
Definitions whose comment begins with "Mutated:" are variants with a plausible bug,
one for each property; they are used by no specification and show that the property
would notice.

**Connections.** `pc[c]` is the point task `c` has reached; an action is the code
between two points where another task can run, an await or the release of a lock.
So `try_insert` is one action, while a status request is four (`CountPlayers`,
`SamplePlayers`, `PeekStatus`, `RebuildStatus`) and every packet written is one.
`Exit` is the error path of `?`: before `try_insert` it leads to the shutdown, after
it to `players.remove`, which holds the result of `configuration_phase`
(`connection.rs:319`). `quiet` is a peer that has stopped without closing its
socket: nothing it would send arrives any more, and what is sent to it fills the
kernel's buffer (`SendCap`), after which `Send` is not enabled. Documents are what
they were built from. A `HashMap` is iterated in any order, so a sample is any
arrangement of that many names. The digest behind `offline_uuid` is assumed to be
free of collisions, as the code assumes.

**Admission.** At most `MaxPlayers` sessions, no two under one name. `Admits` is the
refinement: a task's session is its name while it stands between `try_insert` and
`players.remove`.

**LoginWire.** Frames carry the mode in which they were framed; nothing on the wire
does, so a frame that its receiver would decode in another mode is the error looked
for. The client pipelines Hello after the intention and chats in configuration. A client
may ask for the status instead; the four steps of an answer are those of `Connections`, so
requests on the wire interleave at the cache with each other and with logins that change
the registry.

**ServerLifecycle.** A turn of the accept loop's `select!` is `AcceptWins`,
`InterruptWins` or `NobodyWins`. `listening` says that the current `ctrl_c()` future
has been polled, `heard` that it has an interrupt to deliver; both end with the turn
that drops it. `due` is the time to the timer's deadline, negative once it is missed; a
deadline missed by no more than `Tolerance`, 5 ms in tokio, is followed by one a period
later, and one missed by more is forgotten and the next counted from now. `since` is the time since the last tick began. `Period` is `tick_duration()`, with the
rounding; where it is zero, `interval` panics in `TickerBegins` and the task is over, which
`run` sees only when it waits for it at the end.

**TickMetrics.** A percentile is a double and the product with the number of samples is
rounded to a double before its ceiling is taken: 0.07 of 100 samples is 7.000000000000001,
and rank 8. (The double written 0.07 is a bit above 7/100.) Both are counted here in shares
of the smallest double, and `Rounded` is rounding to nearest, ties to even, with `Precision`
significant bits. `NearestRank` says what the rounding leaves of a nearest rank: the figure is
never above that of the exact product, since rounding up does not cross a whole number; it is
below only where the product was rounded down to a whole number, and then the samples at or
below it fall short of `p` of the window by less than one part in 2^53.

**FrameCodec.** Bytes are small numbers, a varint's group is two bits and a number
five, so that every limit of the code has a counterpart with something on both sides.
The cipher adds the cipher byte before, which is all that framing needs of CFB-8: a
register that follows the bytes on the wire. zlib is a constant table of streams none of
which begins another; `Inflated` takes the stream a frame begins with and, as
`decompress_exact` does, does not look at bytes of the frame behind it. `Feed(n)`
is one read of any size; the code reads only after `decode` has asked for more.

**PalettedContainer.** One action for each way `set` can go, `Fill`, and two for
`shrink`. `SetPanics` is the assertion in `BitStorage::set` failing, with what it
leaves behind: `std::mem::replace` (`palette.rs:166`) has by then put a placeholder
in the place of the old representation. `Written` is what `write` produces, field by field
with values and widths, the words packed by `BitStorage`; `WireLen` is the sum the code
computes without writing, and `ReadBack` what a client makes of the fields.

**Chunk.** Sections hold blocks as functions, layer by layer; `Scan` is `recompute_heightmaps` with
its early exits, `Recomputed` writes its result over the old packed storage.
A write at a height outside the world changes nothing and answers air (`SetOutside`).
Generators give the initial states. The two heightmaps of the code are always
computed from the same scan and are one variable.

**NbtReader, Nbt.** The reader's recursion is made explicit: `stack` holds the lists and
compounds that are open, and its height is the `depth` of `read_payload`. The input is
a sequence of fields, each a type, a length, a number or one byte of a string, so the
widths of numbers are abstracted and an input that ends within a field counts as one
that ends before it. `room` is the sum of the capacities with which the lists around were
made, which `read_payload` holds all at once. The error returns are four actions, one for each place they are
in. Strings are sequences of code points, and `CharAt` follows the branches of
`decode_modified_utf8`; the writer is a recursive operator, since it has no state. `ToNbt`
turns a component into the tag it is sent as, and the tags of components are among those
that are written and read. `LongStrings` are those that `LongStringsCut` asks about.

**Positions.** Shifts and masks are quotients and remainders by the number of values of a
field, and a long is the number its bits make without a sign.

**Fields, PacketReader, Packets.** A field has a type: a kind, the reader's limit, and the
layout of what it holds. `Written` and `ReadField` are one case for each method of
`PacketWrite` and `PacketReader` that a packet uses. A packet is a layout for `encode_body`
and one for `decode_body`, written down separately as in the code; limits
appear in the second only. Reading a frame is a state machine: `todo` holds the
fields still to come, arrays and options put theirs in front, `got` what was read. The
server's tables (`ServerReads`) say which ids are known in which state of a connection,
from the matches in `connection.rs`; packets the server writes and nothing reads are there
for `OneMeaning`. `LeafBytes` is what would be written for the fields that were read, and
`NothingUnnoticed` compares that with what was taken of the frame. `UncalledReads` are readers
that go through `decode_exact` and that no caller has yet. RegistryData and play's Login are
clientbound and have a `decode_body` of their own, without the trait (`config.rs:204`,
`play.rs:95`): `BareReads` holds their layouts, which start at the body and at whose end
`Finish` leaves what follows. `ReadNbt`, a constant of `Fields`, is any reader that takes no
more than is there; in the run it is `NbtBytes`, the whole of `read_network` on bytes: numbers
in their widths, modified UTF-8 with the lenient forms, repeated names, the limits on depth
and lengths, and the largest capacity made for a list or an array, which `reserved` counts
whether the tag is read to its end or not. UTF-8 is a table of characters of one to four bytes.

## 3. Runs

| Run | Configuration | Shows |
| --- | --- | --- |
| `registry` | `Registry.cfg` | Three tasks race for two names and two slots, with faults everywhere: `SlotOwnership`, `RefusedWithCause`, and `Admits`. |
| `silence` | `Silence.cfg` | `SilentSlotFreed` under fairness. |
| `login_wire` | `LoginWire.cfg` | Two clients log in or ask for the status, in any order and over buffered streams: `FramingAgrees`, `StatesAgree`, `ServedMatchesAsked`, `NoRedundantRebuild`. |
| `lifecycle` | `Lifecycle.cfg` | `StopsOnlyWhenAsked`, `NoBurst`, `ShutdownCompletes`, `IdleInterruptStops`, and `NearestRank` of eleven percentiles on every window that arises. |
| `codec` | `FrameCodec.cfg` | `Fifo` (refines `PacketQueue`), `FaultsExplained`, `BufferBounded`, `VarintExact`, `Drains`. |
| `container` | `Container.cfg` | `RepresentationSound`, `Stores` (refines `BlockArray`), `NarrowsOnlyToFit`, `WireFaithful`. |
| `chunk` | `Chunk.cfg` | `HeightsMatch`, `GeneratedAsDescribed`, `StoresBlocks` (refines `BlockArray`). |
| `nbt` | `Nbt.cfg` | `RoundTrips`, `WritesWhatItRead`, `LongStringsCut`, `DepthBounded`, `RoomBounded`. |
| `packets` | `Packets.cfg` | Every packet as it is written, and damaged: `RoundTrips`, `NothingUnnoticed`, `OneMeaning`, `MemoryBounded`. |
| `silent_status`, `lost_interrupt`, `tick_rate` | `SilentStatus.cfg`, `LostInterrupt.cfg`, `TickRate.cfg` | violated on purpose, see section 6 |

Bounds, and why they are enough:

* `registry`: a third task is needed for two that hold the slots and one that is
  refused, or for two that race while one leaves; two names give equal and distinct
  ones. `SendCap = 1` makes every second write wait. Samples are empty there, since
  `login_wire` has them. Tasks and names are interchangeable (symmetry; the
  properties are safety properties).
* `silence`: `SendCap` is 5, the number of packets a whole login sends: a socket's
  buffer has room for those few hundred bytes even if the client reads none of them.
  With less room the property would fail, as `silent_status` does.
* `login_wire`: two tasks, which is what a race on the cache takes, and the same two
  change the registry between requests. One frame of chatter overtakes the
  acknowledgement or not; `SendCap = 2` lets a client read late. A sample holds one name,
  fewer than there can be players, so that count and sample differ in what they tell.
  `CounterMod = 2` tells whether `rebuilds` changed.
* `lifecycle`: the period is 2, ticks take up to 3 and the timer is looked at up to 3
  late, so that a deadline passes during a tick, after it, or both; the tolerance is 1, so
  that a deadline is met late and kept, or missed. Doubles have 4 significant bits and the
  smallest is 1/256: among the percentiles, times one to three samples, are products that
  are exact, that round down to a whole number and that round up from one, the smallest
  double, 0 and 1, and numbers outside. In `tick_rate` a second has ten units
  and the rate is more than twice that. `Press` is bounded to one, which
  is what the properties speak of. `Capacity = 3` fills and overflows the window.
* `codec`: three packets, enough for each switch and one packet after it. Bodies
  lie below and at the threshold, at the limit, beyond it, and compress to less or to
  more; the malformed inputs are one for each error return of `decode`.
* `container`: palettes are one or two bits wide, so five ids cross every promotion;
  two of the ids (7, 9) are wider than others on the wire, one of them too wide for
  direct storage. Words of eight bits hold eight, four or two entries, so that direct
  storage takes two. Varints are those of `codec`, groups of two bits for integers of
  five. Three indices let a promoted palette keep ids no entry uses.
* `chunk`: two sections of two layers with the floor at -3, four columns with
  heightmap entries of three bits, three to a word of nine bits, so that a word has
  three entries and the map ends in a partial one. Three writes with any recomputation
  in between. Surfaces below, at, within and above section boundaries.
* `nbt`: tags of every shape up to one level past a depth limit of 2, code points at
  both ends of every width and around the surrogates, and strings on both sides of the
  longest length (13, two surrogate pairs and a byte); arrays and lists on both sides of
  theirs (11), and lists in lists that announce more than there is. The reader gets all of these,
  every beginning of each, every sequence of five fields over types and small
  lengths, and what no writer writes: repeated names, negative lengths, lone
  surrogates, bytes in longer forms than they need. Components with every style, with
  children and without are written as tags.
* `packets`: every packet of the code, with a default and all values that differ from it
  in one field: numbers at their ends, texts of characters of all widths on both sides of
  limits of 2 and 3, lists on both sides of theirs, positions at the corners of fields of
  6 and 4 bits. VarInts have real groups of seven bits, in three bytes for 20 bits. The
  first and the last sample of each packet that something reads are also cut off at every
  byte, lengthened, and changed in every byte to six values. NBT fields hold compounds with
  strings and lists of bytes, and tags no writer writes: a name given twice, a character in
  more bytes than it needs, a bare zero, and lists and arrays that announce more than
  follows.

Deadlock is checked except in the runs of `ServerLifecycle`, `FrameCodec`, `Nbt` and
`Packets`, where the server stops, the packets of a behaviour end, and one tag or one
frame is read.

## 4. Fairness

* `Connections`: weak fairness of what a task does without its peer, which is tokio
  polling a task that has been woken and locks that are held briefly; and of the
  timeout of a task whose peer is silent, since no packet resets that timer. Nothing
  is assumed of clients: they need not send, read or close. A client that keeps
  sending is not covered, and the code does let it stay (`connection.rs:377`).
* `ServerLifecycle`: weak fairness of the accept loop and of the tick loop's start
  and of the end of a tick. Strong fairness of `TickerStops`: its `select!` picks an
  order at random in every turn, and an overloaded ticker always finds its timer due,
  so the shutdown branch is ready again and again and is not last for ever.
  No fairness is given to time, to clients or to the operator.
* `FrameCodec`: weak fairness of the receiver: `read_packet` decodes what it has and
  reads what has arrived. None for the sender.
* None for the others: what is checked of them is safety.

## 5. Proofs

TLAPS checks the following for every value of the constants that satisfies the named
assumptions of the modules.

**`Arithmetic`** holds what the other proofs share. The provers are first-order: they cannot
apply an induction theorem that takes a predicate, nor a definition by recursion. Both are
therefore stated about objects. `Induction`, `InductionUpTo` and `LeastMember` are about a
set of numbers, so that a proof puts the numbers its claim holds for into a set; `Recursion`
gives a function for every step function, from which the recursive functions of the models
(`f[n \in ...] == ... f[n - 1] ...`) are shown to satisfy their equations. Powers are known
to no backend either; those of two come from the number of subsets of an interval. On these
rest quotients and remainders (`DivMod`, `DivDiv`, `ModCancel`), the reciprocal
(`ReciprocalExact`), and words: `FieldOf`, `FieldBelow` and `FieldAbove` say that a write
into a field of a word changes that field and no other, and `PackedPutIs` the same of an
entry in a row of words. `DigitsOf` says that the digits of a sum are those that were added,
for any number of them. Varints are here too, since the codec, the container and packets
write them: a varint consists of a number's digits in base `2^Group` (`Groups`),
`WriteVarintIs` and `ReadVarintIs` replace the two recursions by digits and sums of them,
`VarintReadBack` puts them together, and `VarintLenIs` says that the length is the least
that holds the number. `VarintAssumption`, on which this rests, has `Base` as `2^Group` and
as many bytes as an integer's width takes, no fewer and no more (5 of 7 bits for 32).

**`LoginWire_proofs`, the tasks**, from `ConnectionsAssumption` (finitely many sockets, a
digest without collisions). The inductive invariant `IInv` is `TypeOK` and `SlotOwnership`
with three additions, each needed by a step:

* `Named`: a task past Hello has a name, without which `LoginAcknowledged` and `Leave` would
  look up no uuid;
* `SlotsCounted`: there are as many entries as tasks that hold a slot, the link between
  `players.len()`, which `try_insert` compares, and the tasks, which `Capacity` counts;
* `KeysRead`: a request at the cache has read count and sample, and the cached document is
  the one of its key, from which `ServedMatchesAsked` follows for a hit.

Each action preserves it by a lemma (`JoinKeeps` and `LeaveKeeps` are the substantial ones).
From it follow `TypeCorrect`, `SlotsAreOwned`, `CapacityKept`, `AnswersMatch`, the action
properties `RefusalsHaveCause` and `RebuildsCount`, and `TasksAdmit`: initial states map to
initial states of `Admission`, a join and a leave to its actions and every other step to a
stutter.

**`LoginWire_proofs`, the wire**, from `ConnectionsAssumption` and `LoginWireAssumption`,
for any number of sockets and any amount of chatter. `TasksOnTheWire`: with the streams and
the clients around them the tasks implement `Connections`, so what is proved there holds on
the wire; a client that takes a frame is `ClientReads`, since the kernel holds for it what
is in its stream (`Buffered`). `ModesAgree` and `PacketsExpected` (`FramingAgrees`,
`StatesAgree`) speak of the head of each stream, which says nothing of what follows it. The
invariant `Talk` therefore says of all of a stream:

* `ModesInFlight`: a frame is compressed exactly if the client is already or a
  SetCompression is ahead of it, and what is on its way to the server is in the mode of the
  server's decoder, since a client that waits for SetCompression says nothing;
* `OneStateInFlight`: only SetCompression and Brand have something behind them, since every
  other packet takes the client out of the state it is in;
* `InStep`: at each point of a task, where the client can be and what it can have sent.

Talk is about one socket, so a step has to keep it for one (`Elsewhere` is about the
others); there is a lemma for each kind of step.

**`PalettedContainer_proofs`**, from `PalettedContainerAssumption`. The invariant `Sound` is
`TypeOK` and `RepresentationSound`, and that direct entries are ids. One lemma for each
operation states what it does to `Content`: a write changes one entry and answers with the
old one (`SetStores`), a shrink changes none (`ShrinkKeepsContent`), a panic makes all
entries one id (`PanicLoses`). `LengthenedIsSound` is what pushing into a palette and
widening it share. Results: `ContainerSound`, `ContainerStores` (the container implements
`BlockArray`), `ContainerNarrows`, which also assumes `MaxBits <= DirectBits`, as both kinds
of the code have it, and `FittingIdsNeverPanic`, which assumes that every id fits direct
storage: then the assertion in `BitStorage::set` is out of reach of any history of writes.

`WireIsFaithful` needs two assumptions more: `StorageAssumption`, that `BitStorage::new`
accepts every width the container asks for (its constructor panics otherwise), and
`WireAssumption`, that ids, the length of a palette and the number of words fit a varint.
`write` sets one entry after the other in words of zeros; `PackedIs` follows that recursion
with the invariant that the entries up to there are the container's slots and the rest are
zero, each step by `BitSetIs`. `EndsInCells` says of the fields of each form that they end
in these words; the widths then add up to `wire_len` (one lemma for each form, `Sums` for
the recursive sum), and a client's walk finds the content (`EntriesReadBack`, by the exact
reciprocal).

**`ServerLifecycle_proofs`**, from `ServerLifecycleAssumption` and `TickMetricsAssumption`,
for every tick rate but zero, those with a period of zero included. `NoBurst` rests on
`Paced`: while a tick is less than a period old, its age and the time left to the deadline
add up to a period, and the tick loop is not there before `run` has started it.
`StopsOnlyWhenAsked` rests on `Caused`: what a future has heard was pressed. `TypeOK` rests
on `Counted`, that queued and running connections are some of those that arrived, and on
`RecordKept` for the window.

`PercentilesAreSamples` proves `NearestRank`. `sort_unstable_by` is modelled as an order of
the window's places in which samples ascend, any of them where samples are equal. That there
is one (`OrderExists`) is an induction over the length of the window, putting the next
sample in front of the first that exceeds it; without it the figure would be an arbitrary
value and the property would say nothing. An order is a permutation (`SortedIs`), so as many
samples are at or below a rank's entry as the rank says, and fewer are at or below anything
smaller (`CountedByRank`). The rank is that of the code: `ExponentIs` and `RoundedIs` are
about rounding to a significand of any number of bits (the result is off by less than one part
in 2^Precision, whole numbers that fit a significand are never crossed, and what is less than
such a number does not become more), and `RankIs` is the ceiling of the rounded product with
its two clamps, for every double and every window whose length a significand holds.

**`FrameCodec_proofs`**, from `VarintAssumption`, `FrameCodecAssumption` and
`MalformedAssumption`. The last two say that the largest frame is an integer that can be announced; that bodies
are bytes, are shorter than the lengths an integer can say (2 GiB in the code), and compress
without loss; that no body is empty where everything is compressed, which the code demands
of its callers (a packet contains its id), as an empty body would be written as
uncompressed; and that what the environment sends malformed, or any start of it, is no
packet to the decoder.

* `VarintsAreExact`: what is written is `varint_len` long and read back, whatever follows
  it, by the lemmas of `Arithmetic`.
* `BufferIsBounded`: a decoder that waits has either no complete length, so fewer bytes than
  a varint's longest, or a length that was accepted and less than its frame.
* `PacketsArrive`: the codec implements `PacketQueue`. Order alone (`Ordered`) is not
  inductive: that the next packet decoded is the next one sent depends on every byte on the
  way to it and on the two switches. The invariant `CodecInv` adds that the switch for
  compression of each end has been thrown exactly if the packet that announces it has gone
  by (`Switched`); that the encoder's cipher register is the decoder's once what is on its
  way has gone by, except while the reply that announces encryption is the last packet on
  its way (`Ciphered`); and that what is buffered and what is on its way, in plain bytes, is
  the frames of the packets not yet delivered, one after the other, and then nothing or what
  is no packet (`Pending`, a function from the number of packets taken to what is left).
  Reads may cut the stream anywhere, because deciphering a stream in pieces is deciphering
  it whole (`InPieces`). Two ways to cut the same bytes, with lengths in front, are the same
  cut (`TwoCuts`), so a decoder that finds a complete frame takes the one of the next packet
  (`DecodesFrame`), and one that finds less takes none.
* `FaultsHaveCause` and `CodecTypes` are parts of `CodecInv`. By `Pending`, what a decoder
  that fails has in front of it is either the frame of a packet, which it takes unless the
  encoder should have refused it, or what the sender sent malformed.

**`Chunk_proofs`**, from `BitStorageAssumption`, `ChunkAssumption` (a world is a whole
number of sections, heights are integers), `WrittenAssumption`, and, for the heightmaps,
`HeightmapAssumption` (`BitStorage::new` accepts the heightmap's size; it panics otherwise).
The reciprocal, rounded up, times its divisor exceeds the scale by less than the divisor;
over an index that the constructor accepts (`Representable`) the excess stays below one
scale, so that the quotient is exact (`CellExact`). `GetIsWalked` is what `HeightsMatch`
asks of a heightmap's entries, for every storage. Of the column: `Addressed`
and `Located` say that every height of the world lies at one place of one section and shares
it with no other. From that, writes change one cell (`WriteReachesOneCell`) and fills the
cells of one section (`FillReachesOneSection`), so that the stack of sections implements
`BlockArray` (`ColumnStores`). `ColumnsGenerated` needs the invariant `Column`, that a
column nothing was written to is still what its generator made.

`HeightsAreRight` proves that a fresh heightmap holds the height of the highest block of
every column. The scan goes from the top row down and is two recursive functions, one over
the rows of a section and one over sections, with exits where every column has its height
and where a section is empty. `Seen` is what it knows after the rows from `r` up: a column
has the height of its highest block among these rows, or none if there is none, and
`unresolved` counts those without. `RowSeen` carries that over a row, `SectionSeen` over a
section, `StackSeen` over both exits to the floor. `RecomputedIs` carries it into the packed
words, over whatever entries were there before. With that `HeightsPacked`, which is
`HeightsMatch` of the entries as they are walked, is inductive together with the types
(`HeightmapInv`): a write marks the map stale, and what leaves it
fresh leaves the blocks alone. `HeightsMatch` follows by `GetIsWalked`, and `ColumnTypes` from
the same invariant.

**`NbtReader_proofs`**, from `NbtReaderAssumption`. `DepthIsBounded`: only two actions make
the stack higher, both behind the check of the depth. The invariant adds that a compound is
open where entries are read, so that closing it takes something off. What a list or compound
holds nests without end, so no type of frames is used; that the stack is a sequence of
anything (`IsStack`) is enough. `ReaderTypes` proves the rest of what the reader keeps, for
every input that is a sequence of integers: what is left is the rest of the input, an open
list still waits for elements, an open compound holds every name once, and names are made of
characters. Its invariant `Types` takes the frames from a set that grows with what they hold
(`Stacked`). `InsertedOnce` is `NbtCompound::insert`, which either replaces in place or
appends. `DecodedIs` is about `decode_modified_utf8` on bytes of every kind: a string that
is accepted consists of characters, surrogates only as pairs that make one (`CharAtIs`); it
is an induction from the end of the string, where the model's recursion starts.

`RoomIsBounded`, for every input: the capacities of all open lists together are no more than
the input has fields, once for every level of nesting. The invariant gives every frame of the
stack its share: the `room` of the n-th is at most n times the length of the input (`Roomy`),
since a list's own capacity is capped by what is left; the depth of the stack is bounded. That
is in elements. In bytes it is a constant factor more, the size of an element in memory,
which the code's cap does not count either.

`StringsRoundTrip`: any sequence of `char`s whose encoding is no longer than `MaxStringLen`
decodes to itself. The code of each character decodes to it, wherever it stands (`CharThere`,
which has a case for each width and one for pairs of surrogates); the codes lie where the
sums of their lengths say (`SpelledAt`), so `DecodesTo` can go from the end of the encoding
to its beginning, one character at a time. `LongStringsAreCut` is `LongStringsCut`, for every
set of strings and every longest length: `TruncatedIs` says that what the writer keeps is the
longest beginning that can be announced, because lengths of beginnings only grow
(`MeasuresGrow`); `StringsRoundTrip` says that the reader gets what was kept. The invariant
`CutInv` says where the reader of such a tag stands: in front of the tag, behind its type, or
done with nothing left.

**`PacketReader_proofs`, positions**, from `PositionsAssumption` (field sizes are even). A
position comes back from its long exactly when each coordinate fits its field
(`BlocksRoundTrip`), every long is the packed form of the position it decodes to
(`LongsRoundTrip`), and chunk keys lose nothing (`ChunksRoundTrip`). `Digits` recovers the
three fields of a sum, and the two lemmas on signs say that extending a sign and cutting it
off undo each other.

**`PacketReader_proofs`, frames**, from `PacketReaderAssumption` and those of the modules
below. `MemoryIsBounded` holds for every table of layouts, every limit and every frame: what
is kept is no more than the frame has bytes, and no vector is made with a capacity of more
elements than that. It is about the largest single vector, not the sum of several;
`RoomIsBounded` is about the sum, where lists nest without a layout. One lemma for each kind of field
says that what it takes is there (`FieldFits`); the invariant adds that what is left of a
frame is a sequence of bytes no longer than the frame.

`NothingGoesUnnoticed` is the converse of a round trip. Of a frame that is accepted by
`decode_exact` nothing is left; a bare `decode_body` leaves what follows. And where no NBT was
read, what was taken is what would be written for what was read, by whatever table of layouts,
but for the three places where the readers of fields are lenient (`WrittenAlike`). For NBT no
such statement is made here: it has leniencies of its own (repeated names, characters in more
bytes than they need, bare zeros), and `WritesWhatItRead` says that there are no others. A state machine that skipped a byte,
or read two fields from the same bytes, would not satisfy it. `FieldAgain` says it of one
field, by a lemma for each kind:

* `VarintAgain`: the digits read are the digits written (`GroupsAgain`), except that a longest
  varint loses the bits of its last group beyond the width (`TopGroup`), and that zeros on
  top are not written again (`Padded`);
* `TextAgain`: every text found among the ways to read the bytes is written as these bytes
  (`TextsOfAre`), an induction from the end, as the search is;
* `PositionFieldAgain`: the bytes of a long are its digits (`DigitsOf`), and every long is
  the packed form of its position (`LongsRoundTrip`);
* for the others the bytes read are the value, or say it.

`AlikeJoined` says that what is alike piece by piece is alike as a whole, which is not
obvious where pieces differ in length. The invariant `AlikeInv` is that the frame is what was
read followed by what is left, and that the former is alike to what would be written for
`got`; an array or an option writes its count when it is read and leaves its elements to the
fields that follow.

Only model-checked:

* all liveness (`SilentSlotFreed`, `ShutdownCompletes`, `IdleInterruptStops`, `Drains`),
  which rests on fairness and so on ENABLED, out of the prover's reach;
* `RoundTrips` and `WritesWhatItRead` of `Nbt`, and `RoundTrips` and `OneMeaning` of
  `Packets`. What NBT and packets are written as is recursive over nested data, with RECURSIVE
  operators, and the prover handles no module that declares one. `StringsRoundTrip` and
  `FieldAgain` are the parts of it that need no recursion over nesting;
* what the models themselves take for granted: zlib as a table, the cipher as an
  addition, the digest as free of collisions.

## 6. Disagreements

Each is a run whose one property states what a comment says and which the code's
behaviour violates.

* `silent_status`: "How long a client may stay silent before being dropped, prior to
  play" (`connection.rs:27`). Only reads have that timeout; `Connection::send` waits
  in `write_all` without one. A client that requests documents without reading them
  and then falls silent keeps its task. It holds no player slot in that state, and
  a silent client in configuration is dropped because the socket has room for
  all that a login sends, which is why `SilentSlotFreed` holds.
* `lost_interrupt`: "Runs until interrupted" (`server.rs:62`). `ctrl_c()` is made anew
  in every turn of `select!`; when an interrupt and a connection are both ready and
  the connection wins, the future that heard the interrupt is dropped.
* `tick_rate`: `validate` "rejects settings that would misbehave at runtime rather than
  letting them fail obscurely later" (`config.rs:147`). It refuses a `tick_rate` of zero
  only. Above 2000000000, which a `u32` holds, `tick_duration` rounds to zero
  (`config.rs:197`) and tokio's `interval` panics (`server.rs:144`). That ends the tick
  loop's task alone: the server accepts connections and never ticks.

One more has no run. `PalettedContainer::set` documents that it panics "If `index` is out of
bounds" (`palette.rs:140`). A write within bounds panics too if an id is wider than direct
storage, at the latest when the palette overflows; the old representation has then been
taken out (`palette.rs:166`), and what is left is a container of the new id alone
(`SetPanics`). `Stores` allows that loss as a fill and would not notice it.
`FittingIdsNeverPanic` proves that where all ids fit, as those of the registry do, no
history of writes panics.

## 7. Not modelled

* NBT's file form, which has one more string in front of the payload. The widths of its
  numbers count in `NbtBytes` and not in `NbtReader`.
* Bytes behind the end of a zlib stream in a frame: `Inflated` takes such a frame, as the
  code does, and no run and no peer of the model sends one.
* How long a client may stay that keeps sending in configuration (`connection.rs:377`), and
  that a player who reconnects at once is refused because of the old session
  (`connection.rs:369`): both are what the code does and no document says otherwise, so no
  property speaks of them. That a column is sent with old heights (`chunk.rs:269`) is up to
  callers, none of which sends one yet.
* Fields no packet uses: VarLongs, angles in a byte, arrays of longs. The text of status
  documents and of refusals, which serde writes as JSON.
* The wire form of a whole chunk, which concatenates its sections; `WireFaithful` is about
  one container.
* `config.rs` beyond the tick rate, and `main.rs`: reading, defaulting and validating a
  file once. Other settings are constants (`MaxPlayers`, `Compression`, `OnlineMode`). A
  start that is interrupted while it writes the default file leaves the beginning of it,
  which the next start reads; the code says nothing of that case.
* That the count and the sample of one status document can disagree, since they are read
  under two locks (`connection.rs:213`): no document claims that they agree.
* AES, zlib and MD5: external; what the code relies on is assumed of them.
* `PalettedContainer::count`;
  `BitStorage::from_data`, which has no caller; biomes, which are containers without
  heightmaps; mean, maximum, health and tps of ticks and the counter of all of them.
* The head of `status.rs` says that a document is built "once per distinct count";
  the cache has one entry, keyed on count and sample, so a count that comes back is
  built again. `NoRedundantRebuild` states what the code does promise.
* Panics in a task: none is reachable in the decoders of configuration as they are.
* Floating point in `tick.rs` beyond the rank of a percentile: samples are compared as
  durations, before they become milliseconds, and a percentile that is no number (NaN) is
  left out. The code's one caller asks for 0.95.

## 8. Plan

The core came first: tasks and registry with their proofs, then the wire, the
lifecycle, the container with its proofs, chunks, the codec, and NBT; then the packets,
field by field, with the proofs about positions and memory, the status exchange on the
wire, the container's wire format and the tick rate; then the proofs about the wire and
the column; then those about the codec, heightmaps, percentiles, the container's wire format
and the types of the NBT reader; then those about the strings of NBT and about what the
packet reader accepts. What is left:

1. Proofs: the round trips of NBT and of packets, which need the writers of nested data as
   functions on a set of what they can nest, in place of RECURSIVE operators.
2. The encoder's and decoder's limits compared packet by packet: below the threshold
   the encoder checks no size (`codec.rs:214`).
3. The wire form of a chunk from the containers of its sections, with `count`.
4. `config.rs` as a whole: the file across restarts, defaults for what it leaves out.
