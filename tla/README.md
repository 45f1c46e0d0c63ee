# QuicKeys in TLA+

QuicKeys carries a keyboard over the network into a QEMU guest. A Python client sends
low-latency *edges* (key down, key up) over UDP and periodic *snapshots* of all held
keys over QUIC; a C++ daemon merges both into one authoritative key set and writes
8-byte USB-HID reports to a Unix socket; a patched `usb-kbd` in QEMU turns those bytes
into what the guest's USB driver reads. UDP loses and reorders; snapshots heal; a
watchdog lets go of keys nobody reaffirms.

This directory specifies that pipeline: TLA+ modules, TLC configurations and TLAPS
proofs. `PROJECT.json` lists every run, the source lines each definition stands for, the
hazards of the code and the theorems.

To check a run: `tlc -config KeyDaemon_threads.cfg MCKeyDaemon`. To check the proofs:
`tlapm` on each of `KeyDaemonProofs`, `StreamFramingProofs`, `HidSocketProofs`,
`UsbKbdProofs`, `UsbHidProofs`, `MsQuicServerProofs`, `QuicKeysProofs` and
`QuicKeysHealingProofs` (the last two take a minute or more each).

## 1. Inventory

| Part | State it keeps | Operations | Talks to |
|---|---|---|---|
| Key state, `daemon/src/main.cpp` 136-464 | `pressed`, `modifiers`, `keymeta[256]` under `state_mu`; `g_running`; counters | UDP loop (down, up, mup), snapshot callback, QUIC edge callback, watchdog | all four threads share the state; each ends in `HidSocket::send_report` |
| HID socket, `main.cpp` 71-117 | `fd_`, no lock | `ensure_connected`, `send_report` | QEMU's chardev over a Unix stream |
| Report, `include/hid_report.h` | none | `build_hid_report` | |
| QUIC server, `msquic_server.cpp` | handles, `on_message_`, `record_size_`; a `StreamCtx` with `pending` bytes per stream | `start`, `stop`, listener, connection and stream callbacks | msquic workers call back; `on_message_` is the daemon's callback |
| usb-kbd backend, `qemu/dev-hid.c` 574-634 | `kbd_sock_buf`, `kbd_sock_len`, the HID layer's keys, queue and idle state | chardev `can_read`/`read`/`event`, `apply_report`, interrupt IN, reset | chardev on one side, the guest on the other |
| USB HID device, rest of `qemu/dev-hid.c` | descriptor tables; `kbd_chr_inited`, the active device, the HID state of a mouse, tablet or keyboard | realize, unrealize, control requests, migration | the USB core, the guest's driver, qdev |
| Hybrid client, `client/hybrid_run.py` | `pressed`, two delay queues, the event list | `udp_sender`, `state_machine`, `quic_snapshot_sender`, final flush | UDP 4444, QUIC 4445 |
| Other clients, `client/*.py` | a script position | send edges or empty snapshots | UDP 4444, QUIC 4445 and 4446 |
| Experiments, `scripts/*.py` | processes, log files | start a case with retries, gather statistics | daemon and client processes |

What is hard in it, part by part, and what makes the part correct:

- **Key state.** Four kinds of thread; each updates the state in one critical section,
  builds a report in a second one and sends it in none. Correct means that both copies
  of "is this key held" agree, that every change ends up in a report, that a key which
  the snapshots stop naming is let go in bounded time, and that nothing of one press
  leaks into the next.
- **HID socket.** Shared by those threads, without a lock; QEMU comes and goes, the
  daemon restarts. Correct means that reports go to the connection QEMU serves, that
  only an outage loses one, and that threads which send at once do not break a
  connection that works.
- **QUIC server.** Bytes are cut arbitrarily; streams end at any time. Correct means
  whole records, once, in order, nothing held back. Its lifecycle must close what it
  opened, and not call into what is gone.
- **usb-kbd.** Pipelined or cut reports; a daemon that reconnects in the middle of one;
  a guest that polls on its own schedule; QEMU's own keyboard and an idle timer feeding
  the same state. Correct means that every report is applied whole and in order, and
  that the guest comes to see it.
- **USB HID device.** Tables and handlers written apart from one another: lengths,
  packet sizes, requests and the layout of a report must agree. A realize that fails
  half-way, unplugging and migration must leave nothing attached and no device asleep
  that no input can wake.
- **Client.** Edges and snapshots are produced by tasks with independent sleeps and
  delayed independently. Correct means that what the daemon ends with is what the user
  holds.

## 2. Plan

| | Module | What | State |
|---|---|---|---|
| 1 | `KeyDaemon` | key state and its threads | done, proofs in `KeyDaemonProofs` |
| 2 | `RecordChannel`, `StreamFraming` | record channel and the framing that implements it | done, proofs in `StreamFramingProofs` |
| 3 | `HidSocket` | the unlocked socket and QEMU's listener | done, proofs in `HidSocketProofs` |
| 4 | `UsbKbd` | chardev ingest and guest polling, implements `RecordChannel` | done, proofs in `UsbKbdProofs` |
| 5 | `HidDescriptors`, `UsbHid` | descriptor tables and report layout; the device from realize to unrealize around the ingest | done, proofs in `UsbHidProofs` |
| 6 | `DelayedOutbox`, `HybridClient` | workload, outboxes with loss and jitter, snapshots, flush | done, proofs in `QuicKeysProofs` |
| 7 | `QuicKeys` | client and daemon together | done, proofs in `QuicKeysProofs` and `QuicKeysHealingProofs` |
| 8 | `MsQuicServer` | `start`/`stop`, connection and stream callbacks, shutdown of the daemon | done, proofs in `MsQuicServerProofs` |

Composition: `QuicKeys` extends `HybridClient`, which extends `DelayedOutbox`, and
instantiates `KeyDaemon` for the daemon's handlers, whose specification it is proved to
implement. Between them stand a set of
datagrams and one sequence of snapshots per connection: the channel that `RecordChannel`
specifies and that `StreamFraming` is proved to implement. The daemon's reports go on
through the same kind of channel, which `UsbKbd` is proved to implement, alone and
inside the device that `UsbHid` puts around it (`UsbHid` extends `UsbKbd` and
`HidDescriptors`).

What is left is in sections 5 (only model-checked) and 7 (not modelled).

## 3. Modules and the code

### KeyDaemon

`pressed`, `modifiers` and `keymeta` are the variables of the same names. A handler is
cut where another thread can run:

| Action | Code |
|---|---|
| `UdpReceive`, `EdgeReceive`, `SnapReceive`, `WatchdogWake` | parse the input, read the clock, apply the deadline (main.cpp 370-422, 309-334, 160-197, 237-240) |
| `UdpMark`, `UdpApply`, `EdgeApply`, `SnapApply`, `WatchdogScan` | the critical section that updates the state (423-441, 334-350, 199-220, 241-268) |
| `BuildReport` | the second critical section (443-449 and its three copies) |
| `SendReport` | `hid.send_report`, outside the lock (450, 277, 295, 359) |

`pc` and `job` hold where a thread is and what it carries. `lastBuilt`, `touched` and
`lastScan` are history the properties need; no guard but `Tick`'s reads them. Time is an
integer clock in milliseconds; `Elapsed` subtracts as the code's `uint64_t` does, modulo
`Wrap`. `keymeta` keeps the fields of `KeyMeta`; the value of `up_marker_ns` only feeds
a log line, so the model keeps whether it is set. A loop over an `unordered_set` that
keeps six keys may keep any six: `FirstSlots`.

An input that the code drops changes nothing and is no step: a short record, an unmapped
key, a usage above 255, a stamp past the deadline. What the parsers can produce is
`UdpUsage` (a to z and Enter), `SnapUsage` (0x04 to 0xA5) and, for QUIC edges, every
usage.

### RecordChannel and StreamFraming

`RecordChannel` is what framing promises: per stream, whole records, once, in order,
until the stream closes; `ChannelClose(C)` may close several at once. `StreamFraming` is
`stream_cb`: `Receive` appends an event's bytes, `Frame` is one turn of the loop that
calls `on_message_`, `Framed` its end, `PeerSendShutdown` and `ShutdownComplete` delete
the context. A byte is its position in the stream, so the pending buffer is an interval;
a record read at a wrong position is `Garbled`. The refinement mapping is the identity
but for `closed`.

### HidSocket

Every thread of the daemon may be in a call at once, and each access of `fd_` is a step
of its own:

| Action | Code |
|---|---|
| `Call`, `CallConnect` | `send_report` up to its test of `fd_` (103); the UDP loop's own `ensure_connected` (461) |
| `Test` | `ensure_connected` tests `fd_` again (82) |
| `Open`, `OpenFails` | `socket()` and the store of its result (83) |
| `Connect`, `ConnectFails` | `connect` (88) |
| `Send`, `SendFails` | `send` (104) |
| `Close`, `Forget` | `close(fd_)`, then `fd_ = -1` (93-94, 108-109) |
| `Restart` | `~HidSocket` (78) at the end of `main`, and the next run of the daemon |

The kernel gives the lowest free descriptor; QEMU (`server=on,wait=off` in
`scripts/run_qemu.sh`) serves one client and leaves others in the backlog, and may stop
and start.

Two threads that are in a call at once while no connection stands can do anything to the
socket: `hid_shared` shows what. `raced` is history and says that this has happened (two
calls overlap without a connection, or QEMU stops under two calls); what the properties
say they say of everything else: calls that overlap while a connection stands, outages
that cut single calls, refused connections, reconnects, restarts. `StandsUntilOutage`
does not even look at `raced`.

### UsbKbd

`ChrRead`, `StoreByte` and `ApplyReport` are `kbd_chr_read` a byte at a time;
`HandleData`, `GetReport`, `SetIdle`, `HandleReset` and `HidFree` are the guest's and
the device's accesses; `MainLoop` says that QEMU runs one handler at a time.
`hw/input/hid.c` is not in the repository: `hid_has_events`, `KeyboardPoll`, `IdleTimer`
and `QemuKey` are external, modelled from how `dev-hid.c` uses them.

`kbd_sock_len` is not a variable but the difference of two positions in the stream, the
bytes received and the bytes shifted out. `Reconnect` starts both anew for the next
connection and leaves the buffer alone, as `kbd_chr_event` does: when half a report is
in it, the position shifted out becomes negative and the connection joins `cut`. The code
goes on to apply what it shifts out of that buffer (dev-hid.c 618-633): the second half
of an old report with the first half of a new one, then halves of two new ones, to the
end of the connection. The guest is shown such a report, and `CutStaysGarbled` says that
it is shown nothing else: each one applied is `Garbled`, a value that is no report.
Towards `RecordChannel` a connection in `cut` counts as closed before its first record,
so `ImplementsChannel` promises nothing of it but covers every other one. `Migrate` moves
the HID state, and not the buffer, to another QEMU. `HidFree` is what `hid_free` leaves
of it: the timer is deleted, everything else stays as it was.

### HidDescriptors and UsbHid

`HidDescriptors` has the tables of `dev-hid.c` (90-570): interfaces, devices, and the
three report descriptors item by item. `Parse` is what the HID class makes of a report
descriptor, so the fields, sizes and usages a driver works with come out of the table
and not out of this model; `Truncated` gives it only the bytes that the interface
announces. `build_hid_report`, `KeyState` and `Polled` are the layouts of a report in
the daemon, in `usb_hid_kbd_apply_report` and in `hid_keyboard_poll`; `Decode` is the
driver's. `BootFields` is the layout of a boot keyboard, which the parsed table of the
keyboard comes to (`TablesAssumption`).

`UsbHid` puts the device around `UsbKbd`:

| Action | Code |
|---|---|
| `Realize`, `Release` | `usb_<kind>_realize`, which goes on after `usb_hid_initfn` has failed (774-833); qdev then releases the chardev |
| `Unrealize` | `usb_hid_unrealize` |
| `Daemon`, `KbdChrRead`, `KbdByte` | the chardev's handlers, as long as they are attached |
| `PollData` | `usb_hid_handle_data` |
| `ClassRequest`, `SetIdleRate` | `usb_hid_handle_control`; `Served` has the requests a kind answers |
| `Reset`, `Bind`, `Suspend` | `usb_hid_handle_reset`, and the guest's driver as it configures the device and lets it sleep |
| `MigrateDevice` | `vmstate_usb_ptr`, `vmstate_usb_kbd`, `usb_ptr_post_load` |

The driver reads the tables and gives up (`driver = "failed"`) when the device does not
do what they say. The USB core, qdev and the guest are external.

### MsQuicServer

The life of both servers and of `main`. `StartCall` is the next of the six calls
`start()` makes, `StartFails` any of its early returns; `StopCall` is one call of
`stop()`, `Stopped` its end; `NewConnection`, `PeerStreamStarted`, `StreamEnd` and
`ConnectionEnd` are the callbacks. `up` and `open` are the connections and streams
msquic may still call back; `ctx` counts `new StreamCtx` minus `delete`. The head of the
module states what is assumed of msquic. The contents of a stream are `StreamFraming`'s
business.

### DelayedOutbox and HybridClient

`DelayedOutbox` has both outbox classes of `client/hybrid_run.py`, which differ only in
where they write: `enqueue` either drops a payload (`Lose`) or gives it a time to be
sent at (`Push`), `Pop` takes the first of the heap, `Emit` is the end of the sleep,
`CloseBox` is `close()`. `HybridClient` adds the three tasks: `SendEdge` and `CloseEdges`
are `udp_sender`, `HoldKeys` is `state_machine`, `TakeSnapshot` and `CloseSnapshots` are
`quic_snapshot_sender`; `StartFlush` and `EndRun` are what `main` does after them. `at`
and `wake` say which event each task comes to and when its sleep ends. `released` and
`lastSnap` are history: when the user let go of each key, and when a snapshot was last
not dropped.

The code's `--loss` drops snapshots as well as edges, each by chance, so without a bound
a run could drop them all. `MaxGap` is that bound: at most so much time passes from one
snapshot that is not dropped to the next (`TakeSnapshot`).

The walking tasks start at once, the snapshot sender first awaits `connect()` (197). It
does nothing until that returns, so the handshake is no action of its own but a time
chosen from `ConnectTime`: `begun`, the sender's `t0`, lies that far ahead when the tasks
start (`ClientInit`), and again when the flush connects (`StartFlush`). A `connect()` that
fails ends the run with an exception and is not modelled.

### QuicKeys

The client's payloads land in `edges` (datagrams, in any order) and `streams`
(snapshots, in order per connection). `ReceiveEdge` and `ReceiveSnapshot` are
`KeyDaemon`'s `UdpReceive` and `SnapReceive` fed from there; `DropLateEdge` is the
deadline, which in `KeyDaemon` is no step. The daemon has one worker for each
connection, main and flush, and its watchdog is off (`--watchdog-ms 0 --stuck-ms 0`), so
what is shown is what snapshots do alone.

Three idealisations. Time passes only when neither side has anything due (`Settled`), so
the bounds count configured delays and not scheduling; the two walking tasks, which
sleep the same times, then differ within one millisecond only (`LockStep`). How far many
real sleeps drift apart is up to the host's timers, and no property here says anything of
it. The network between the two adds neither loss nor delay: the outboxes already do, on
the host both run on in the experiments, where client and daemon also share the monotonic
clock. And closing a connection delivers what was written to it; the code closes the
client right after the last write (hybrid_run.py 224-225), and what aioquic still sends
then is not in the repository. In the main phase that concerns the last snapshots only;
in the flush `FlushEmpties` needs one snapshot that arrives after the older ones, which
the last one need not be.

The documents promise healing "within one snapshot interval" (docs/proposal.md 7, 37 and
77; docs/report_single.tex 75 has it with a term for the USB poll and an epsilon). What
is proved here is that interval plus what the configuration adds: `Base` and `Jitter` of
the impairment, and every snapshot that is dropped, which `MaxGap` counts. Without loss,
delay and jitter `MaxGap` is `Interval` and the bound is the promised one; with any of
them it is not, and the interval alone is exceeded.

## 4. Runs

| Run | Module | Shows |
|---|---|---|
| `threads` | MCKeyDaemon | all thread kinds interleaved: the two copies agree, no change is silent, no release leaves a marker |
| `clock` | MCKeyDaemon | the same with time passing, the force-release bound, and that silence releases every key a snapshot has named |
| `framing` | MCStreamFraming | framing implements the record channel, holds nothing back, loses nothing at an orderly close |
| `hid` | HidSocket | two threads, two outages, restarts: until calls overlap without a connection the served client is the daemon's, only outages lose reports and no client waits for ever; no interleaving breaks a connection that stands |
| `usb` | MCUsbHid | ingest implements the record channel through reconnects, migrations and unplugging; a driver that believes the tables is never refused and reads the keys that were meant; nothing stays attached; a sleeping device can be woken; behind half a report nothing is applied as written; the idle timer's report reaches the guest unless the next report cancels it |
| `healing` | MCQuicKeys | the outboxes keep their delay; snapshots heal a key whose release is never sent, within a bound; the flush leaves no key pressed; the run ends |
| `servers` | MCMsQuicServer | start, half-start, service and stop of two servers: handles nested, contexts freed once, no callback into a stopped server, a clean exit |
| `quiet` | MCKeyDaemon | finding: an older report overtakes a newer one |
| `wrap` | MCKeyDaemon | finding: the watchdog's unsigned age wraps |
| `newpress` | MCKeyDaemon | finding: the watchdog releases a fresh press |
| `hid_shared` | HidSocket | finding: two threads lose a descriptor that QEMU then serves |
| `usb_poll` | UsbKbd | finding: the guest's poll is answered NAK |

**Bounds, and why they are enough.** `threads` stops the clock at 1: its properties do
not depend on time, and the orders of four handlers over two keys do not need it. One
key can be pressed by every source and the other by QUIC edges only, and with one slot
in a report (`Slots` = 1) two keys already overflow it, as seven do the real one.
`clock` keeps one key, since no property of it relates two, and drops the QUIC edges,
whose update is the UDP one's. Its clock of 5 is room for a press, a snapshot, the limit
`WatchdogMs` = 1 and two scan intervals. `Wrap` = 16 stands for 2^64: all that matters
is that it exceeds every limit. `framing` has records of three bytes, so a cut can fall
before, inside and after each, two records per stream and two streams. `hid` has the UDP loop and one worker, two descriptors and two reports, and lets QEMU
stop twice, so a second recovery starts from what the first left; a third thread finds
nothing two cannot do to `fd_`. `usb` has reports of
two bytes in a buffer of four, so a call of `kbd_chr_read` can end inside a report, at
its end and inside the next, and can complete two at once; only the ingest is scaled down so, the contents of a report
keep their eight bytes. Two connections of two reports give one that is clean and one
that begins behind half a report. The two reports are nothing and six keys with two
modifiers, so each slot and a bit of each half of the modifier byte is used. `Options`
has a keyboard with and without a chardev, one whose version is invalid, and mouse and
tablet in both versions on both ports. `usb_poll` needs one connection and one report
only.

`healing` types one key whose key-up edge is not sent (`--drop-keyup`); its key-down can
be lost, or come too late. `ConnectTime` is 0 or 1: with 1 the first snapshot is taken when the key has just been
let go of. With `Base` = `Jitter` = `Interval` = 1 and `KeyDelay` = 1
the delays are 0 to 2, so a snapshot can be overtaken by later ones, and the bound is
tight: with one millisecond less TLC finds a violation. `MaxGap` = 2 lets every other
snapshot be dropped, on both connections. `Seconds` is 8, which is longer than the
bound, or 1, which ends the snapshots while the key is still held and leaves everything
to the flush. `FlushSeconds` is 3: with 2, which is no more than `MaxGap`, TLC finds a
violation of `FlushEmpties`, because the only flush snapshot that is not dropped can be
applied before the last one of the first connection, which another worker handles. Even
when no snapshot is dropped (`MaxGap` = `Interval`), a flush of a single one fails so.
The program's default is 0.35 s, some 40 snapshots. `MaxTime` = 22 is later than the end
of every run, so that `RunEnds` is not about the bound.

`servers` has the daemon's two servers, two connections and two streams, so one server
can be stopping, or half-started, while the other still serves, and two streams can be
of one connection or of two.

**Deadlock** is checked wherever the system never stops. `framing`, `usb`, `healing` and
`servers` say `CHECK_DEADLOCK FALSE`: streams close, writes are bounded, the client's
run and the daemon end.

**Fairness.** `KeyDaemon`: each thread that is in a handler goes on, because no critical
section blocks and the mutex is held for a bounded loop; the watchdog wakes, because it
is a sleep loop; time passes. Nothing obliges a client to send. `Tick` waits for the
watchdog at `WatchdogLag`: this is the assumption that the 10 ms loop is not starved for
longer. `StreamFraming`: msquic delivers what was written (QUIC is reliable) and the
callback loop runs to its end; nobody must write or close. `HidSocket`: threads finish
their calls, QEMU accepts. `UsbKbd`: QEMU's main loop runs its handlers and timers, the
host controller polls; nobody must type at QEMU, set a rate or use GET_REPORT. `UsbHid`
(`DeviceFairness`) adds that QEMU finishes realizing or releasing a device and that a
guest probes what is plugged in and polls a device it has bound; nobody must suspend,
migrate, reset or unplug it. `QuicKeys`: the event loop runs tasks that are due, the
daemon receives what has arrived and finishes its handlers, and time passes.
`MsQuicServer`: main and the watchdog go on; each connection ends, since every client of
the repository ends its own and the idle timeout of 30 s (`msquic_server.cpp` 43) ends
that of one that vanished; msquic then ends its streams. Nobody must send a datagram, so
`Exits` says nothing of a daemon that is blocked in `receive_from`: it stays there,
whatever the signal.

## 5. Proofs

`KeyDaemonProofs` holds for any sets of usages, modifiers and workers and any timing
parameters that satisfy the named ASSUMEs of `KeyDaemon` (thread identities distinct,
limits natural numbers below `Wrap`).

- `TypeCorrect`, `MetaAgreesAlways`, `NoSilentChangeAlways`: inductive given `TypeOK`;
  one step per action.
- `MarkerClearedAlways`: an action property, from `TypeOK`.
- `ForceReleaseBounded`: `ForceReleaseBound` is not inductive, since it says nothing of
  a scan in progress. `Timely` strengthens it: the last scan is at most `WatchdogLag`
  old, a scan in progress carries a stamp no older than the end of the last one, and for
  every named key still held the last scan ended at most `WatchdogLag` after the key was
  due. A scan spares a key only if its stamp is not past the limit, and the stamp is at
  most one interval older than the scan's end; the second interval is the wait for the
  next scan.

`StreamFramingProofs` holds for any record size and any streams.

- `AlignedAlways`: the inductive invariant `IInv`. What was delivered is the prefix of
  what was written that the erased bytes cover, and the buffer starts at a record
  boundary.
- `NothingHeldBackAlways`, `OrderlyCloseAlways`: from `IInv`.
- `ChannelImplemented`: initial states map to initial states, and each step to a write,
  a delivery, a close or a stutter of `RecordChannel`.

`HidSocketProofs` holds for any number of threads, descriptors, reports and outages.

- `FedUnlessRacedAlways` and `LossAlways` follow from `OneSocket`, which holds until
  `raced`: every open socket is the one in `fd_`, where a thread is in its call tells what
  state that socket is in, and two threads are in a call only to send on a connection
  that stands. After that `IInv` keeps only what any interleaving keeps: types, and a
  backlog of distinct sockets that are exactly the queued ones (`TypeCorrect`).
- `StandsAlways` needs no more than that of `IInv`: while the connection stands no thread
  is where it could close it, open another or store -1.

`UsbKbdProofs` holds for any report size, any buffer that has room for a report, any
number of connections and reports, and any cut of their bytes.

- `InStepAlways`: the inductive invariant `IInv`. A connection that began with an empty
  buffer is `Aligned`: what was shifted out is exactly the reports applied, and they are
  the first ones written. One that began behind half a report is `Astray`: no buffer of
  it ever begins at a multiple of the report size, so that no report is applied by
  accident. The code's loop keeps less than a report in the buffer; without that part of
  `TypeOK` neither is inductive.
- `CutAlways`: the second half of `IInv` seen from the guest. Every report applied of a
  connection in `cut` is `Garbled` (`CutStaysGarbled`), for ever.
- `ChannelImplemented`: initial states map to initial states, and each step to a write,
  a delivery, a close or a stutter of `RecordChannel`.

`UsbHidProofs` extends it to the device, for any set of options and reports.

- `DeviceImplementsChannel`: a step of the device is a step of the ingest or moves no
  bytes (`DeviceSteps`).
- `DeviceCutAlways`: the same for `CutStaysGarbled`.
- `DetachedAlways` and `WakeAlways`: `DInv` adds that only a realized device has a
  driver, a timer or a sleep to wake from (`Idle`). Without it a device that fails to
  realize could have a timer.
- `NeverRefusedAlways`: for every device, version and port, what the tables declare is
  what the handlers serve. From `TablesAssumption` (lengths, bits of a report, output
  items), packet sizes and boot flags table by table, and `Served`.
- `GuestDecodesAlways`: for all contents of a report, where the run has two. The loop of
  `usb_hid_kbd_apply_report` keeps exactly the codes that are not 0 (`CodesElements`, its
  six turns one by one), `hid_keyboard_poll` puts them into slots (`PolledBytes`), and the
  driver takes those and the modifier bits apart (`BootDecode`).

`QuicKeysProofs` holds for any workload, delay, jitter, set of lossy outboxes and
snapshot rate.

- `OnTimeAlways`: that no payload is held beyond `Base + Jitter` is not inductive, since
  a payload waits while the task sleeps on another one. `OutboxInv` adds that every
  payload got a time at most `Base + Jitter` after it came in (`Dated`), and that what
  the task sleeps on is due in time for each payload behind it (`Ahead`). One lemma per
  operation of the outbox; the daemon's steps touch neither the outboxes nor the clock.
- `TypeOKAlways`: `Typed` adds to `TypeOK` that what waits in the outboxes and on the
  channels is a datagram or a set of keys with its time in the past, from which the
  daemon's types follow. A theorem of an instantiated module cannot be cited with its
  constants replaced, so the daemon's half of `TypeOK` is proved here, handler by handler.
- `DaemonImplemented`: every step of the composition is a step of `KeyDaemon` or leaves
  it alone. So `MetaAgrees`, `NoSilentChange` and `MarkerClearedOnRelease`, which
  `KeyDaemonProofs` establishes for any input, hold with this client in front.

`QuicKeysHealingProofs` shows what the snapshots are for, with the same constants and any
`MaxGap`.

- `HealingBoundAlways`: a key the user has let go of is released by the daemon in less
  than `MaxGap + Base + 3 * Jitter`, counted from the release or, if that is later, from
  when the connection stands (`Since`). Two things can press it again: a down edge and a
  snapshot that names it. `NoLatePress` says that all of them were made before the
  release, wherever they are by now (heap, task, channel, handler), and so have arrived
  within `Base + Jitter` of it. That needs both walking tasks at the same event whenever
  time passes (`LockStep`), or else `udp_sender` could press a key `state_machine` has
  released (`LateDowns`). `CleanerComing` then follows the snapshot that lets go of the
  key: until one that was sampled more than `2 * Jitter` after the release is applied, it
  is still to be taken, waits in the outbox or is on its way. One sampled that late is
  sent after every press (`Delayed`), and the sender takes one by
  `2 * Jitter + MaxGap` after `Since` (`Sampling`). With the `Base + Jitter` it may
  be held (`OnTime`), this is the bound.
- `FlushEmptiesAlways`, for `FlushSeconds > MaxGap`: when the run is over, no key is
  pressed. `FlushState` says that nothing but empty snapshots is sent in the flush, and
  that what was on its way is applied before time passes; `FlushCleans` follows one of
  them that is applied later than that. The hypothesis is needed (section 4); the
  defaults, 350 ms against 8 ms between snapshots, satisfy it unless some 40 snapshots
  in a row are dropped.

TLC checked the conjuncts of both inductive invariants on instances of `QuicKeys`,
among them one in which the same key is typed twice.

`MsQuicServerProofs` holds for any servers, connections and streams.

- `InvariantAlways`: `IInv` adds to the properties what is open at each stage of
  `start()` (`HandlesByStage`), that servers not yet started or already stopped hold
  nothing (`LaterClosed`), and that what msquic may call back has a server (`Owned`)
  with a registration (`RegistrationHeld`), which `stop()` keeps until all is quiet.
- `HandlesNestedAlways`, `ContextMatchesStreamAlways`, `ServerOutlivesCallbacksAlways`
  and `CleanExitAlways` follow from it.

Only model-checked:

- liveness (`SilenceReleases`, `EverythingDelivered`, `EverythingApplied`,
  the first half of `IdleRateDelivers`, `ConnectionServed`, `RunEnds`, `Exits`), which the prover does not
  reach;
- the second half of `IdleRateDelivers`, that the chain from timer to report to timer
  breaks nowhere else;
- `TablesAssumption` of `UsbHid`: what the descriptor tables of `dev-hid.c` come to when
  they are added up and parsed. It is about no parameter; TLC computes it in each run of
  the module, the prover has no induction to follow the parser through the items.

## 6. Findings

1. `quiet`: reports are sent outside the lock, so the last one sent need not be the last
   one built (main.cpp:450).
2. `wrap`: the watchdog's clock is read before the lock is taken; a newer snapshot makes
   the age wrap (main.cpp:240, 257).
3. `newpress`: `last_snapshot_ns` survives a release, and condemns the next press
   (main.cpp:256).
4. `hid_shared`: `HidSocket` is not thread-safe (main.cpp:83).
5. `usb_poll`: a report applied by the socket backend raises no event, so the wake-up it
   sends is answered NAK unless the guest has set an idle rate or asks with GET_REPORT
   (dev-hid.c:601).
Two more weaknesses read in the code, which no run refutes because no property claims
the opposite:

- An idle rate does not make sure that the guest is woken either. A report applied between
  the idle timer and the poll drops the pending report, and only a poll with an event would
  arm the timer again (dev-hid.c:602). `IdleRateDelivers` names exactly this exception.
- A key-up marker that its own key-up has overtaken is stored all the same, lasts through
  the next press, and the healing of that press is measured from it (main.cpp:425). It
  changes a figure in the log and no key.

## 7. Not modelled

- Text and bitmap parsing beyond the set of usages it yields; log lines and counters.
- The raw mode of `MsQuicServer` (`record_size` 0): no caller uses it.
- Short or blocking `send()`.
- Which six of more than six keys a report names: an `unordered_set` is read in an order
  the language leaves open, and `FirstSlots` allows any six. No property depends on it.
- Drift of the client's sleeps, a `connect()` that fails, and snapshots that a closing
  connection drops (section 3, QuicKeys).
- In the USB device: strings, class codes and power, the LEDs, the value of
  `hs->protocol` (nothing but its own requests reads it), and the scaling of pointer
  movements, which is in `hw/input/hid.c`.
- In the client: message layout, `--no-snapshots`.
- In the server: certificate search, settings, and what msquic does inside.
- The other clients (`client.py`, `quic_snapshots.py`, `baselines_quic_only.py`):
  straight-line senders, whose output is among the inputs `KeyDaemon` accepts.
- The experiment driver (`scripts/*.py`): a sequential script that measures the program
  from outside, by its logs; no state of the program depends on it.
- Shell wrappers and build files: single commands.
- Generated files: `remoter.pb.*` (unused at run time), `daemon/build`, result logs and
  figures.
