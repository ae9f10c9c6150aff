# Pouch: specifications, model checking and proofs

Pouch is a C library for Zephyr devices that talk to a cloud through untrusted
gateways.  A device collects application data in *blocks*, encrypts them into a
*pouch* and hands the bytes of the pouch to a *transport* (BLE GATT) in packets;
pouches from the cloud arrive the same way, are reassembled, decrypted and
given to the application.  This directory holds TLA+ modules that model the
library's own logic, the TLC configurations that check them on small instances,
and theorems about them that TLAPS proves for every instance.

`PROJECT.json` maps every definition to the lines it models, and lists the runs,
the mutants that each checked property must catch, the hazards and the theorems.

## The system

| Part | Source | State it keeps | Operations |
|---|---|---|---|
| Uplink session | `src/uplink.c` | flags `SESSION_ACTIVE`, `POUCH_CLOSING`, `POUCH_CLOSED`; session id; header buffer; processing queue and its work item; transport queue and reader | `pouch_uplink_start/fill/finish` (transport), `pouch_uplink_close`, `uplink_enqueue` (application), `process_blocks` (system work queue) |
| Entry writer | `src/entry.c`, uplink half | the entry block being filled, a mutex | `pouch_uplink_entry_write`, `entry_block_close` |
| Streams | `src/stream.c` | id counter, number of open streams; per stream id, session, byte count, block | open, write, close, is_valid |
| Blocks, buffers | `src/block.c`, `src/buf.c` | bytes of a buffer, number of buffers in flight, linked-list queues | alloc, finish, trim, queue get/submit |
| Events | `src/pouch.c` | bounded message queue | emit, dispatch |
| Downlink | `src/downlink.c` | reassembly buffer, "header seen", decrypt and consume queues with their work items | `pouch_downlink_start/push/finish`, `decrypt_blocks`, `consume_blocks` |
| Downlink consumer | `src/entry.c`, downlink half | none: a block becomes calls | `pouch_downlink_block_push` |
| Crypto | `src/crypto_none.c`, `src/crypto_saead.c`, `src/saead/` | uplink and downlink session: id, flags, key, pouch id, block index | session/pouch start and end, encrypt, decrypt, replay checks |
| Certificates | `src/cert.c` | device certificate, server key | set, get, verify |
| BLE GATT | `src/transport/ble_gatt/`, `lib/pouch_ble_gatt_common/` | a packetizer context per characteristic and connection | reads and writes of characteristics, fragments with first/last marks |
| Golioth dispatch | `golioth_sdk/dispatch.c` | `last_seen` and the downlink id of each service | start, data, `golioth_sync_to_cloud` |
| Golioth OTA | `golioth_sdk/ota.c`, `ota_upper.c`; `examples/ble_gatt/src/fw_update.c` | the download at hand, target and state of each component; the flash context of the example | manifest, component start and data, report |
| Golioth settings | `golioth_sdk/settings.c`, `settings_callbacks.c` | version of the last document | document, report |
| CBOR helpers | `lib/zcbor_utils/` | none | map decoding by a table of callbacks |

How they interact.  Application threads write entries or streams; a block that
is full, or that a close flushes, goes to the *processing* queue and the work
item of `process_blocks` is submitted to the system work queue.  `process_blocks`
encrypts while a session is active and the pouch open, and moves the results,
after the header, to the *transport* queue.  The transport thread starts a
session, polls `fill` until it answers `NO_MORE_DATA`, and calls `finish`.
`close` sets a flag that `process_blocks` turns into "closed" after the queue is
empty; `fill` ends the session when the pouch is closed and all is copied.
In the other direction the transport pushes chunks; complete blocks go to the
decrypt queue (system work queue) and from there to the consume queue (pouch
work queue), which calls the application.  Events reach the application through
a message queue drained by the same pouch work queue.  There the consumer takes
a block apart into entries or a piece of a stream and calls the dispatcher, which
finds the service by path at a start and by id at data; the services decode
manifests and settings, write images, and report at the start of each session.

What is hard here.  Four kinds of thread share flags, queues and pointers with
no lock but the one of the entry block: submit-after-enqueue must not lose a
wakeup, two looks at flags and queues must be in the right order, a finish may
happen at any time, and a step may fail half-way.  On the downlink the chunks
and the blocks have unrelated boundaries.  Streams race with the end of their
session.  Crypto sessions of both directions share the key slots and the end of
a session; what a header says is trusted before a block shows that it is
genuine.  Gateways disappear between two packets and leave the contexts of the
characteristics behind.  The dispatcher and the download remember a stream that
will never end; the device forgets everything in a power cycle while the cloud
goes on with what was reported; documents are decoded piece by piece, and what
was decoded before an error stays.

## Modules

| Module | Models |
|---|---|
| `Pouch` | abstract session: a pouch grows block by block, is sealed, is sent in order and ends only when all of it was sent |
| `Uplink` | `uplink.c`, uplink half of `entry.c`, `pouch.c`; shown to implement `Pouch` |
| `UplinkProofs` | theorems about `Uplink`: types, wakeups, the end of a pouch, events, buffers, the refinement of `Pouch`, the form of a pouch |
| `UplinkEntryProofs` | theorems about `Uplink`: entries are kept, and in order |
| `Downlink` | `downlink.c` with the work items of both queues |
| `Stream` | `stream.c` over `block.c` |
| `Saead` | `crypto_saead.c`, `saead/`, the keys of `cert.c` |
| `Gatt` | `packetizer.c` and the characteristics of `transport/ble_gatt/` |
| `Cbor`, `ZcborMap` | CBOR items; the map decoder of `zcbor_utils.c` with its table as a parameter |
| `Ota`, `Settings` | the two services: `ota.c`, `ota_upper.c`, `fw_update.c`; `settings.c`, `settings_callbacks.c` |
| `Services` | downlink half of `entry.c`, `dispatch.c`, composed with `Ota` and `Settings`, a cloud and a boot loader |
| `BufQueue` | a queue of `buf.c` at the level of its pointers, between `decrypt_blocks` and `consume_blocks` |
| `DownlinkProofs`, `StreamProofs`, `SaeadProofs`, `GattProofs`, `ServicesProofs`, `BufQueueProofs` | theorems about these modules |
| `MCUplink`, `MCDownlink`, `MCStream`, `MCSaead`, `MCGatt`, `MCServices` | instances for TLC |

**Uplink.**  A variable for each field (`flags`, `id`, `header`, `procQ`,
`queued`, `transQ`, `reader`, `block`, `mut`, `bufs`, `eventQ`), a program
counter for `process_blocks` (`wpc`), the transport (`tpc`) and each application
thread (`apc`), and history variables (`accepted`, `sent`, `dropped`, `wire`,
`promised`, `emitted`).  An action is the code between two accesses to state that
another thread changes.  `uplink_enqueue` has no lock against `process_blocks`, which
interrupts application threads in every build: the append is torn into the look at
the tail (`Enqueue`), the link from it (`AppendNext`) and the new tail (`AppendTail`),
and the submit follows.  If the tail is taken in between, the list keeps a tail that
no head leads to (`procTail = "stray"`, `AppendStray`), and blocks that are appended
behind it are in `lost`.  The header is queued and its pointer cleared in two steps, `fill` looks at the closed flag in one
step and at reader and queue in the next.  A buffer is a record of its kind, the
session it was made or encrypted for, its fill level and the entries in it;
bytes are left out.  A packet that is full in the middle of a buffer is a
`fill` that stops before the copy of that buffer.  `Cooperative` chooses the
scheduler: `TRUE` is one CPU with cooperative work queue and transport threads,
Zephyr's default and the build the example uses; `FALSE` lets every thread run
between any two steps (several CPUs, or preemptible threads).  The queue operations of
`process_blocks` and of the transport are one step also then, and so is what
`stream.c` appends: "every interleaving" is one of the steps of the module.  What the
write to the link of a block that was freed meanwhile does to memory is left out.

**Downlink.**  A byte is its position in the pouch and a buffer the interval
`lo .. hi-1`; what the size fields say is given by the `layout`, the positions
at which the blocks end.  One action per way through the loop of `pouch_downlink_push`:
refused, header refused, stored, or stored and cut.  `consume_blocks` runs in a thread
that `decrypt_blocks` interrupts by default (`Kconfig:32`), so that its `buf_queue_get`
is torn where it takes the last block of the list (`ConsumeBegin`, `ConsumeUnlink`,
`ConsumeLook`, `ConsumeTail`): a block that is appended in between is in `lost`, and the
tail may stay behind (`consumeTail`).  With `Saead` a block can be decrypted only
under the keys of the last header that was parsed.

**Stream.**  One thread per stream handle; shared are the id counter, the number
of open streams and the session id.  A block holds the stream's bytes
`lo .. hi-1`, its first/last marks and the bytes its stream header takes.

**Saead.**  The two `struct session`s (`up`, `down`) with the field names of the
code, and `server.seqnum`/`server.pouch_id`.  A key is what it is derived from
(session id, algorithm, block size and server key), a key id its place in the history `keys`, `live` the
ids that PSA still has; decryption succeeds exactly when key, nonce and
associated data are those of the encryption.  Each call is one step: callers are
the cooperative threads of `Uplink` and `Downlink`.  `UplinkStart` is
`crypto_session_start`, `crypto_pouch_start` and the crypto part of the header, as
`pouch_uplink_start` calls them.  Any header of `Headers` may arrive at any time,
and any block of any pouch with such a header.  The server certificate may be renewed
at any time, also in a session; `CertServerSet` has the installation, the end of
`cert_server_set` that returns 0 without storing a key, and the error.  The tag of a
sequential id is not told apart.

**Gatt.**  `ctx` is the packetizer pointer of each characteristic with what it
points to, `certBuf` the certificate being received.  A byte is its position in
its value, and a value the version of the server certificate that it was made
from: the serial and the info depend on it, the device certificate does not.
`Connect` and `Disconnect` change nothing of the device, because the code has no
callback for them.  The uplink below is bytes that come while a pouch is open
(`UplinkData`) and a close (`UplinkClose`).  The gateway (`Collect`, `Sends`) takes
a value from a first to a last mark and begins every write with a first
fragment.  The error of `packetizer_get` for packets without room is left out: an
ATT packet has at least 22 bytes.  A NULL that the code uses is the end of the
model (`fault`).

**Services, Ota, Settings.**  A block that arrives fills `calls` with the calls
that `entries_push` or `stream_push` will make; each of them is a step, and all of
them come before the next block or event, because one thread does both.
`last_seen` and `downlink_id` are the dispatcher's, `component_download`,
`registered` and `flash` those of the OTA halves and of the example's component
(`Main`), `settings_version` and `value` those of the settings.  A piece of data
is the path it was sent to, its position there and the item that it decodes to;
an image has `ImageLen` pieces of length 1.  Version strings are numbers; a version
as long as Kconfig allows (`LongVersions`) is cut when it is stored, and two of
them do not fit in a report.  A document is an item with its pairs in order, cut
ones included, and the decoders are folds over the pairs that keep what was
decoded before an error.  The cloud sends manifests, settings and
streams, the blocks of several streams in any order, wants newer versions, may go back
to an older one (`Rollback`), and keeps to the state in the last report; pouches break
off, power is lost between two blocks, each flash call and each write of a report may
fail.  `offered` holds the versions, other than the running one, that manifests have
named since the boot.  A path is matched by its directory; `dispatch.c:31` also takes
longer paths that begin like one, which the cloud of the model does not send.  The boot loader starts an image if it is whole.  External, and
marked so: cloud, boot loader, power.

**BufQueue.**  `head`, `tail` and `next` of Zephyr's `sys_slist_t`, each access a
step of `decrypt_blocks` or `consume_blocks`; `Preemptible` says which of the two
threads the other may interrupt.  Zephyr's default is a cooperative system work
queue, and the pouch work queue has priority 5.  `Uplink` and `Downlink` have the torn
operations of their preemptible threads without pointers, as described above.  A double
free of a buffer is visible as `BuffersAccounted` failing there.

## Runs

| Run | Expect | What it shows |
|---|---|---|
| `uplink_cooperative` | pass | two application threads, failures, early finishes, two sessions: pouches begin with their header and hold only what was sealed for them (`WellFormedPouch`), entries leave in order, no entry disappears but with a failed encryption, an early finish or an interrupted append (`NothingLost`), buffers are accounted for, start and end events alternate, `Pouch` is implemented |
| `uplink_preemptive` | pass | every interleaving of the steps, transport waits for the end of each pouch: no lost wakeup, nothing added after `NO_MORE_DATA`, `Pouch` is implemented, and under fairness a session whose pouch is closed ends and blocks do not wait for ever in a session (`SessionsProgress`) |
| `uplink_close_race` | violation | entries written before `pouch_uplink_close` can miss the pouch that it closes |
| `downlink_framing` | pass | every way to cut pouches into chunks, refused headers, every interleaving of the steps: blocks cut at their boundaries and no byte lost (`FramingExact`), no forgotten work item, and under fairness every block is handed to the application but those that fall out of the list in an interrupted `buf_queue_get` (`BlocksReachApplication`) |
| `downlink_failures` | pass | cooperative threads, failing allocations, oversize blocks, keys replaced by the next pouch: no overrun and no `decrypt_blocks` on an empty queue (`NoInvalidAccess`), order kept, no buffer lost but the one that a start overwrites and those that fall out of the list |
| `downlink_last_block` | violation | a last block that arrives whole with the end of the one before is never cut |
| `stream_safety` | pass | three threads for two places, sessions ending under open streams, failing allocations: places are given back once, the limit holds, blocks are well framed, writes report what they stored |
| `stream_ids` | violation | two open streams of one session can have the same id |
| `saead_sessions` | pass | sessions of both directions start, fail, overlap and end, certificates are renewed, blocks get lost, repeated and mixed up, the nonce's index wraps in both directions: a nonce comes back with its key only after a full round of the index, the header suffices to decrypt a pouch, downlink blocks are accepted in sequence only, keys belong to their sessions, a sequential session is followed by neither the same nor an older one |
| `gatt_transfers` | pass | gateways go away between any two packets while values change: a transfer from first to last mark is the whole of one value, certificates and pouches are not mixed, the uplink has a session exactly while the characteristic has a packetizer, a gateway that stays gets every value and the end of a closed pouch |
| `services_updates` | pass | two releases, two versions of settings, streams that interleave, and one fault of any kind: a component's callback gets its own data at the right offset, an upgrade is requested for a whole image only, a download is asked for only after another version was offered, a version of the settings is reported only when all of them were applied, and under fairness the wanted version runs in the end |
| `buf_queue_race` | violation | `consume_blocks` is preempted in `buf_queue_get` and the block that is appended meanwhile is lost |

Bounds.  `MaxWrites`, `MaxSessions`, `MaxPouches`, `MaxBytes` and `MaxOpens` cap
what would grow without end.  Two sessions are enough for state to leak from one
into the next; in `uplink_cooperative` three writes with blocks of two entries
give a full block in the processing queue, one in the worker's hands or being
filled, and an entry of size 3 fits in no block; `uplink_preemptive` has two
writes of a block each, from two threads, because it also checks liveness.  In the
downlink the buffer holds 6 bytes in `downlink_framing`, so that blocks of 3 fit twice
and a block of 6 fills it, and 8 in `downlink_failures`, where a block of 9 is too
large; all chunk sizes are tried.  In `Stream` the id space is scaled with the
limit: 4 values with 0 reserved and 4 places stand for 32 and 126.  `Saead`
has a nonce index of one bit (`NonceMod = 2`) against pouches of three blocks in both
directions (`MaxBlocks`, `PouchBlocks`), so that it wraps; two uplink sessions, two
accepted headers, two server keys one after the other and three key slots, so that
slots run out; headers of two sequential sessions of the server, of a random one with
two pouches, another algorithm and another block size, and of a session of the device.  `Gatt` has values of 0 to 3 bytes and packets of 1 and 2, two
uplink pouches of up to 2 bytes, two written transfers of two fragments and one
lost connection (besides those that a refused certificate ends); of the three
values it takes the device certificate and the serial, the info being a value
like the serial.  `Services` has images of three pieces, so that a download can
break off at its beginning and in its middle; two releases, so that pieces of
two images could be mixed; two versions of settings, the second with an unknown
name, a type that is skipped and a type that does not fit; two stream ids, so that two
streams interleave; and one fault (`MaxFaults`): a lost pouch, a power cycle, a flash
error, a document that is broken or cut over several blocks, a stream that no service
has a path for, a report that is not written or a return to an older version.
`BufQueue` has three blocks: one to take, one to lose, one to show that the
queue stays broken.  Handles and
threads are symmetric in the runs that check no liveness.  Deadlock is
checked in `services_updates`, where a session can always take place; elsewhere it
is not: a system in which nobody writes or starts a session may stop.

Fairness.  Zephyr's work queues run what is submitted (weak fairness of the
worker, of decrypt and of consume), a call that was made returns, and in
`uplink_preemptive` the transport keeps polling with packets that have room (weak
fairness of its steps); copying is strongly fair because a fill may stop between any two buffers but
every packet moves at least a byte of a buffer of finite length.  In
`gatt_transfers` a connected gateway keeps reading: `GatewayServed` is
about a gateway that stays.  In `services_updates` every call of a block returns, a
reboot that was begun takes place, and sessions take place again and again, in
which the cloud goes on with some stream that it has begun, sends manifests, and
the component that the last report asks for: strong fairness, because the thread
may have other work in between.  The calls have a light form (`CallReturns`) in
the fairness condition that says the same.  That the
transport starts or finishes a session, that the application writes or closes,
and that the gateway sends is not assumed.

## What the runs say about the code

- `uplink_close_race`: `POUCH_CLOSING` is set (`uplink.c:108`) before the entry
  block is queued (`uplink.c:113`).  A `process_blocks` submitted by another
  writer that runs in between sets `POUCH_CLOSED`; the block of the closer stays
  in the processing queue until the next session.
- `downlink_last_block`: the loop of push runs while the *chunk* has bytes
  (`downlink.c:145`) and cuts one block per pass.
- `buf_queue_race`: `sys_slist_get` reads the next pointer and then writes the
  head.  If `decrypt_blocks` (cooperative) preempts the pouch work queue
  (`Kconfig:32`) in between, the block that it appends to a list of one is
  unlinked with it, and since the list keeps a tail without a head all later
  blocks are appended behind the lost one.  `Downlink` has the same race in the whole
  downlink, and `Uplink` its counterpart: `process_blocks` empties the list between the
  look at the tail and the link to it in `uplink_enqueue`.
- `stream_ids`: `stream.c:49` masks the counter with 0x1f, `POUCH_STREAMS_MAX`
  is 126.

`downlink.c:99` overwrites the pointer to the buffer that the pouch before
allocated behind its last block: one buffer is lost per pouch, which
`BuffersAccounted` of `Downlink` allows for.

`WellFormedPouch` is checked under the
cooperative scheduler only, because the code relies on it: with
`Cooperative = FALSE` TLC finds a block sent before the header
(`uplink.c:138` activates the session before `uplink.c:158` makes the header),
with `EarlyFinish` a block of a finished session in the next pouch
(`uplink.c:84` after the drain at `uplink.c:227`); a `POUCH_CLOSED` may then be set
after the flags were cleared (`uplink.c:87-89` against `uplink.c:241`).  A stream that is valid when `stream.c:141` looks may hand its block to
the next session when the session ends before `stream.c:144`.

What the models of `Saead` and `Gatt` show besides their properties: the pouch
check of `saead/downlink.c:139` never refuses, because line 121 has cleared the
flag in the same call, so `NoReplayOfSession` is about sessions only, and only
after a block was decrypted; a header that starts a session while another is
active, and an uplink start that fails at its header, leave a key in its slot
(`saead/downlink.c:124`, `uplink.c:159`); `err` is not set by the key generation
of `saead/uplink.c:39`, so a session may be active without a key and drop all its
blocks.  A gateway that connects after another left in the middle of a value
gets the rest of it without a first mark; and `uplink_characteristic.c:65` uses
the result of `pouch_uplink_start` without a look at it.

What `Services` takes for granted of the cloud is in its constants, and TLC shows
what happens without it:

- `ReuseIds = TRUE` (two faults): a component's stream breaks off, a stream with the
  same id and a path without a service follows, and its data is written into the
  image (`dispatch.c:34` and `dispatch.c:49` leave the old id): `BlocksOfComponent`
  fails.
- `ManifestFirst = FALSE`: after a power cycle the cloud sends the component that
  was asked for, the device drops its first blocks, a manifest marks the component
  (`ota_upper.c:111`), and the last blocks are written without `flash_img_init` and
  request the upgrade (`fw_update.c:29`): `ImageIsWhole` fails.
- `SettingsFirst = FALSE`: a document that has its version first and is cut in its
  settings leaves a version of which not all settings were applied
  (`settings.c:157`): `ReportedSettingsApplied` fails.
- `LongVersions = {1}`: the target has `GOLIOTH_OTA_MAX_VERSION_LEN` bytes with its
  terminator (`include/golioth/ota.h:69`), so a version of that length is cut, never
  equals the one that runs, and is downloaded again: `NoNeedlessDownload` fails.
  With `{1, 2}` the report of the second download does not fit its buffer
  (`ota.c:239`) and `UpdateInstalled` fails.

A release that is taken back leaves the component at `DOWNLOADING`: a manifest of the
running version marks nothing (`fw_update.c:81-84`), nothing calls
`golioth_ota_mark_idle`, and the device goes on to ask for, and installs, the version
that it runs.  `NoNeedlessDownload` therefore says that a download is asked for only
after a manifest has offered another version since the boot, not that the cloud still
wants it.

A write error in the middle of an image does not stop the download, and the last
block requests the upgrade all the same (`fw_update.c:40`); `ImageIsWhole` leaves
such downloads out and `UpdateInstalled` relies on the boot loader.  A path that
is just the prefix of components gives `strchr` a NULL (`ota.c:195`); the model
has only paths with a remainder.  `zcbor_map_decode` counts pairs, so a key that
comes twice stands for a missing one (`zcbor_utils.c:129`); no such document is
enumerated.

## Theorems

TLAPS proves all invariants that the passing runs check, one action property, the
refinement of `Pouch`, and what is left of the queue of `BufQueue` under its race, for every value of the constants that the assumptions of
the modules allow: any set of threads, handles, headers, layouts, stream ids,
releases, documents of settings, sizes and bounds.  Some need a hypothesis on the
scheduler, on failures or on the cloud, which is then an assumption of the theorem and
stands in the table.

| Theorem | Property | Hypothesis | Inductive invariant |
|---|---|---|---|
| `UplinkProofs!TypeCorrect` | `TypeOK` | | itself |
| `UplinkProofs!WakeupSafe` | `NoLostWakeup` | | with `TypeOK` |
| `UplinkProofs!DrainSafe` | `EndedIsDrained` | | `DrainInv`, which adds `ClosedIsFinal` |
| `UplinkProofs!EventsSafe` | `EventsAlternate` | | `EventInv` |
| `UplinkProofs!BuffersSafe` | `BuffersAccounted` | `Cooperative \/ ~EarlyFinish` | `BufferInv` |
| `UplinkProofs!Refinement` | `ImplementsPouch` | `Cooperative \/ (~EarlyFinish /\ ~Failures)` | `QueueInv` |
| `UplinkProofs!PouchSafe` | `WellFormedPouch` | `Cooperative` | `FormInv` |
| `UplinkEntryProofs!OrderSafe` | `EntriesInOrder` | | `OrderInv` |
| `UplinkEntryProofs!EntriesKept` | `NothingLost` | | `LostInv` |
| `DownlinkProofs!TypeCorrect` | `TypeOK` | | `CoreInv` |
| `DownlinkProofs!FramingSafe` | `FramingExact` | | `PushInv` |
| `DownlinkProofs!WorkSafe` | `NoLostWork` | `~Saead` | `WakeInv` |
| `DownlinkProofs!AccessSafe` | `NoInvalidAccess` | `Cooperative` | `PushInv`, `SubmitInv` |
| `DownlinkProofs!BuffersSafe` | `BuffersAccounted` | | `LeakInv` |
| `DownlinkProofs!OrderSafe` | `BlocksInOrder` | | `OrderInv` |
| `StreamProofs!TypeCorrect` | `TypeOK` | | `Inv` |
| `StreamProofs!CountSafe` | `StreamsCounted` | | `CountInv` |
| `StreamProofs!FramingSafe`, `!BytesSafe` | `WellFramed`, `BytesAccounted` | | `StreamInv` |
| `SaeadProofs!TypeCorrect` | `TypeOK` | | itself |
| `SaeadProofs!KeysMatch` | `KeyMatchesSession` | | with `TypeOK` |
| `SaeadProofs!NoncesUnique` | `NonceUnique` | | `NonceInv`, `SentInv` |
| `SaeadProofs!UplinkDecryptable` | `PouchDecryptable` | | `SentInv` |
| `SaeadProofs!SequenceSafe` | `DecryptedInSequence` | | `GotInv`, `SeenInv` |
| `SaeadProofs!ReplaySafe` | `NoReplayOfSession` | | `SeenInv` |
| `GattProofs!TypeCorrect`, `!SessionSafe`, `!TransfersWhole` | `TypeOK`, `SessionOwned`, `WholeTransfers` | | `ReadInv` |
| `GattProofs!WritesSafe` | `WritesUnmixed` | | `WriteInv` |
| `ServicesProofs!TypeCorrect` | `TypeOK` | `~ReuseIds` | `TypeInv`, `TrackInv` |
| `ServicesProofs!BlocksSafe` | `BlocksOfComponent` | `~ReuseIds` | `TrackInv` |
| `ServicesProofs!ImageSafe` | `ImageIsWhole` | `~ReuseIds`, `ManifestFirst` | `TrackInv` |
| `ServicesProofs!DownloadSafe` | `NoNeedlessDownload` | `LongVersions = {}` | `TypeInv`, `OfferInv` |
| `ServicesProofs!SettingsSafe` | `ReportedSettingsApplied` | `SettingsFirst` | `TypeInv` |
| `BufQueueProofs!TakenSafe` | `TakenInOrder` | | `QueueInv` |

**Uplink.**  `NoLostWakeup`: each thread that makes the left side true (queues a
block, activates the session, clears "closed") is itself in a state that the right
side lists, and leaves it only by submitting the work item.  `EndedIsDrained` needs
`ClosedIsFinal`: once `fill` has seen the closed flag the pouch stays closed and the
worker has left its loop, or never enters it; only then is the transport queue final
when `fill` looks at it.  `EventsAlternate` ties the parity of the events to the
session flag.  `BuffersAccounted` rests on the mutex of the entry block
(`MutexInv`) and on the one place where the header is both queued and in
`uplink.header` (`HeaderInv`).  The refinement maps a step of the worker to
`Commit`, `Seal` or nothing and one of the transport to `Begin`, `Send`, `End`,
`Finish` or nothing; `QueueInv` says that the worker holds a block only while the
pouch can grow and that a session begins with empty queues.  `EntriesInOrder`
follows from an order between the six places an entry can be in (wire, reader,
transport queue, worker, processing queue, entry block): an entry moves only from
the front of one to the end of the place before it; a block that falls out of the list
is in none of them.  `NothingLost` needs that each step that takes a block from a place
puts it into the next, into `lost` or into `dropped`, for all of the writer, the worker
and the transport.

The hypotheses, here and below, are needed: see "What the runs say about the code" for
the behaviours without them.

**Downlink.**  `PushInv` says where the reassembly buffer is: it begins behind the
last block that was cut, it ends before the rest of the chunk, and it is never full
unless its block is too large, so that no pass of the loop of push drops a byte.  A
size field is read only where a block begins, because nothing behind the last block
was pushed.  `SubmitInv` says that a submit of `decrypt_blocks` that is pending has a
block; a transport that is preempted between enqueue and submit breaks it, hence
`Cooperative`.  `NullRunInv` covers the run of `decrypt_blocks` that found nothing:
it ends without a submit, so whoever queued a block since must be about to submit.
With encryption a block that cannot be decrypted ends the run in the same way, with
more blocks in the queue (`downlink.c` returns before the resubmit), hence
`~Saead`: those wait for the next push.  `BlocksInOrder` needs that everything in
flight is of an earlier pouch or before the buffer.

**Stream.**  The counter is never below the number of streams that were let in
(`AdmittedInv`), because an open increments before it looks.  `StreamInv` is about
one handle at a time: blocks sent so far are full, and the block at hand continues
them.

**Saead.**  `NonceInv`: session ids of the device are not used again, and while a
session lasts its nonces are the last ones of the history, each with the number of its
block modulo `NonceMod`, for pouches of any length: two equal ones are at least
`NonceMod` blocks apart.  `GotInv`: the session stands behind the
last block that was decrypted and has its tag as associated data, so that the chain
of tags accepts nothing but the next block.

**Gatt.**  `TransferInv`: a gateway in the middle of a value and the packetizer are
at the same byte of the same value; `WriteInv` is the same for writes.

**Services.**  `TrackInv` follows a stream of the cloud through entry, dispatcher and
download: the stream that the component service listens to was heard from its first
block, no other service listens to it (`KnownInv`), the download is where the stream
is (`StreamsHeard`), and the block at hand is its next one (`CallHeard`).  A new
stream has an id that nobody remembers, hence `~ReuseIds`; after a power cycle nobody
listens, and the rest of an open stream is dropped.  An upgrade is requested by the
last block only, at an offset of `ImageLen - 1`; that the pieces before it were
written needs that no manifest starts a download under an open stream of a component
(`QuietInv`), hence `ManifestFirst`.  `OfferInv` says that a manifest that is under way
was offered or names the running version.  `NoNeedlessDownload` and
`ReportedSettingsApplied` depend on what the decoders compute, which are folds over
the pairs of a map and over the settings of a document.  The library's induction
theorems have an operator as a parameter, which these provers cannot instantiate; the
lemmas about folds use the least number of a set of naturals instead (lemmas
`LeastNumber` and `Induction`): the number of steps after which a fact first fails
has a predecessor at which it held.

**BufQueue.**  The property that the race breaks is `BlocksKept`; what survives it, for
all priorities, is `TakenInOrder`: no block is handed over twice or before an earlier
one.  Links lead only from a block to one that was submitted later (`LinkInv`), what the
head and the pointers of `buf_queue_get` lead to comes after what was taken (`GetInv`),
and nothing leads to a block that is not linked yet (`FreshInv`).

The proof of the refinement showed that `Phase` of `Uplink` was a `CASE` with two
guards that overlap (TLC takes the first); it is now an `IF`.  For the proofs about
`Downlink` a layout is a sequence of positions, not of lengths, which would have to
be added up by recursion.  For those about `Services` the names of its constants are
kept apart by assumptions (`ServicesAssumption`, `CloudAssumption`), and the
decoders of a setting and of a component are operators of their own.

Only model-checked:

- liveness (`SessionsProgress`, `BlocksReachApplication`, `GatewayServed`,
  `UpdateInstalled`): fairness is beyond the prover used;
- the properties of the violation runs, which do not hold.

## Plan

1. `Uplink` and `Pouch`, `Downlink`, `Stream`, `Saead`, `Gatt`, `Services`,
   `BufQueue`: modelled and checked.  Done.
2. Theorems about all of them: every invariant of the passing runs, and the order that
   the queue of `BufQueue` keeps.  Done.
3. Left: what "Only model-checked" lists.

## Not modelled

CBOR at the level of bytes and its generated decoders, X.509 and the ciphers
themselves (third-party code), Bluetooth advertising and connection set-up, the
loading of credentials and the start-up of the example (platform calls, once, in
sequence), the build system, and log output.  Of `block.c`, the header bytes: the
marks and sizes are fields of records.  Of `cert.c`, parsing and validation.  Of `ota_upper.c`,
`golioth_ota_mark_idle` and `golioth_ota_mark_updating`, which nothing in the
repository calls.
