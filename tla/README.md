# SocketTrail: a TLA+ model with checked properties and proofs

SocketTrail is a local program that shows which process talks to which address.
It reads the kernel's socket table and process list every 250 ms, listens to
packets through `dumpcap` (Linux) or ETW (Windows), joins the two into a table
of connections, names the remote addresses, and records dumps: pcapng files in
which every packet is labelled with its process, or, in a *process-only* dump,
from which the packets of all other processes are removed. What it must get
right is therefore (1) never to ascribe traffic to a process that did not cause
it, (2) never to remove packets, or announce a dump as saved, when its own
tracking was incomplete, and (3) never to leave a capture child running or a
recording half finished, whatever requests, polls, failures and the end of the
program interleave.

This directory models those three as TLA+ modules of the Linux build, and
beside them the parts they rest on: which processes belong to a group, which
name a connection is shown with, how names are read from TLS and QUIC, the
cache of names that one run leaves to the next, how the end of the window is
noticed, and the worker that captures and records on Windows. TLC checks them on
small instances; TLAPS proves every safety property that TLC checks, for every
size of the instance, and that the recording controls implement their abstract
specification. `src/...` below is
the repository root, so the Rust sources are `src/src/*.rs`.

## 1. Inventory

### Components, state, operations

| component (source) | state | operations | what makes it correct |
|---|---|---|---|
| Packet queue and pump (`capture.rs`, `main.rs:440-471`) | bounded channel, `Metrics`: accepted, dropped, processed | `PacketSender::send`, `recv_many`, apply a batch, panic | every packet of the channel is counted once; a full queue counts a loss |
| Recording controls (`main.rs:1459-1762`, `capture/unix.rs`) | `dump_phase`, `dump`, `dump_meta`, `dump_outcome`, the capture child, the file and its `.json` map | start, stop, stop by itself, shutdown, drain, processing | one capture at a time, each owned once; success means complete; every failure ends in Idle |
| Socket and owner store (`state.rs`) | `conns`, `udp_sockets`, `socket_generation`, `sockets_at` | `apply_sockets`, `apply_packet`, `attribute_udp`, `evict` | a row has at most one owner for life, or is disputed |
| Socket snapshot (`sockets/linux.rs`) | none | read `/proc/net`, then descriptors | two owners of a socket make it ambiguous |
| Recording ownership (`main.rs:1766-1908`, `state.rs:152-171`) | `DumpMeta::conns`, `instances` | `remember_dump_conn`, `track_dump`, `dump_plan` | traffic is claimed only when one lifetime is known |
| Poll loop (`main.rs:745-906`) | the selected group, the process list | read without the lock, then apply under it | nothing read is applied to a state it does not fit |
| Process list and groups (`procs/`) | the scanner's cache | incremental scan, descendants | a pid is a process only together with its start time |
| Name store (`state.rs`) | names per address, SNI per row | learn, expire, freeze | a name is shown only while it is the only one |
| Name cache on disk (`cache.rs`) | the file and its temporaries | load, trim, save | the file is whole at every crash |
| TLS and QUIC assembly (`tls.rs`, `quic.rs`) | flows, held back segments, largest packet number | feed a segment or packet, drop a flow | a hello in any order gives its name, once, to its own connection |
| Window and exit (`alive.rs`, `window.rs`, `main.rs:541-725`) | streams of pages, idle seconds, browser process | page opens, closes; poll; quit | the end of the window is noticed in time, a reload does not end the program |
| Address lookups (`resolve.rs`, `main.rs:908-1000`) | answers and failures by address | look up, apply, retry, trim | what is known is shown, and replaces nothing better |
| Windows capture (`etw.rs`, `capture/windows.rs`) | work queue of the session's worker, the writer, the session | frame, start, stop, drop | a saved dump is whole, and every request is answered |
| Dump rewriting, packet parsing, HTTP views, platform helpers | none that others share | data conversion, system calls | |

### Interactions

- The live `dumpcap` is read by one task that offers each packet to the queue
  and never waits. The pump takes up to a batch, takes the application lock
  (`App` is behind one mutex), applies every packet to the `Store` and to the
  running recording, releases it and counts the batch.
- The poll loop reads process list and socket table *without* the lock, which
  takes milliseconds to tens of milliseconds, then takes the lock and applies
  both. Packets are applied in between.
- A request to start or stop a dump spawns a task and waits for it. The task
  takes the lock several times with awaits between. The poll loop spawns such a
  task too, when a recording must stop by itself, and `main` finishes a
  recording itself on shutdown.
- A recording runs a `dumpcap` of its own, which may die at any time, also
  because Ctrl+C and SIGTERM from systemd reach it as well as the program.
- `main` leaves by graceful shutdown (answers being written are waited for),
  `shutdown`, save, stop of the live capture, and the drop of the runtime:
  tasks end at the await they have reached, blocking jobs run to their end.

### Hard behaviours

Sections between awaits of several tasks (start against stop against poll loop
against shutdown); a counter incremented after the packet it counts is already
processed; losses before, during and after a recording; a child that dies,
hangs or is never ready; a packet between the reading of a table and its
application; sockets, pids and tuples used again; rows forgotten while a
recording relies on them; process lists of different times, merged while pids
are used again; names that expire or contradict each other; lookups that fail in
part; segments in any order; grace periods; a capture session that is dropped
while requests are on their way. `PROJECT.json` lists each hazard at its line
with the properties that catch it, or says why none does.

## 2. Modules

| module | models | extends |
|---|---|---|
| `PacketQueue` | the queue, its reader and the pump with the three counters | |
| `DumpLifecycle` | recording controls, child, file, accounting, shutdown | `PacketQueue` |
| `Recorder` | the abstract promise of a recorder | |
| `SocketOwnership` | kernel, poll and `Store` for one tuple | |
| `RecordingOwnership` | a recording's copy of that tuple and its verdict | `SocketOwnership` |
| `NameCache` | the file of names, and the runs of the program that load and save it | |
| `NameStore` | the names of the `Store`: DNS answers by address, names of connections | |
| `AddressLookups` | the tasks that work on names: poll, lookups, trimming, restart | `NameStore` |
| `ProcessGroup` | the process list, the selected group and the recorded processes | |
| `TlsAssembly` | one flow of TCP segments up to its ClientHello | |
| `QuicNumber` | packet numbers and how they are decoded | |
| `QuicAssembly` | one flow of QUIC Initial packets | `QuicNumber` |
| `WindowExit` | pages, window, browser, signals and graceful shutdown | |
| `EtwWorker` | capture and dumps on Windows | |
| `Parts` | the last five side by side, for one run | `ProcessGroup`, `TlsAssembly`, `QuicAssembly`, `WindowExit`, `EtwWorker` |
| `DumpLifecycleProofs`, `OwnershipProofs`, `NameCacheProofs`, `AddressLookupsProofs`, `ProcessGroupProofs`, `EtwWorkerProofs` | theorems | the module they are about |
| `HelloProofs` | theorems | `QuicAssembly`, `TlsAssembly` |
| `PartsProofs` | theorems about `WindowExit` and `Parts` | `Parts`, and the proofs of the other parts |
| `DumpLifecycleMC`, `SocketOwnershipMC`, `RecordingOwnershipMC`, `NameCacheMC`, `AddressLookupsMC`, `PartsMC` | symmetry sets and instances for TLC | |

A definition whose comment begins with *Mutant:* is not part of any
specification. It is the definition that follows it with one plausible bug,
kept to show that the property it is listed with (`PROJECT.json`, `mutants`)
does notice.

### PacketQueue and DumpLifecycle

One action is one section of code between two awaits; a section under the lock
is one step. A send is two steps (`SendQueued`, `SendCounted`), because
`try_send` comes before `accepted.fetch_add`. Packets are indistinguishable:
with one producer and a first-in first-out channel, how many tells which.

Per task (one per request, one for the poll loop's, one for `main`) `pc` says
where it is, `hold`, `taken`, `ok`, `target` are its local variables: the dump it
owns, the meta it took, "no error so far" and the accounting target.

| code | actions |
|---|---|
| `api_dump_start`, `api_dump_stop` | `Ask`, `Refuse`, `ClientLeaves` |
| `start_dump` | `StartBegin` → `StartSpawn` → `Publish`, or `StartGivesUp` → `Unwind` |
| `finish_dump` | `StopRequested` / `AutoStop` / `ShutdownFinish` (each `TakeRecording`) → `StopChild` → `ChildStopped` → `DrainBegin` → `DrainDone` or `DrainTimeout` → `Merge` → `Tally` → `ProcessFile` → `Report` |
| poll loop | `PollTick`, `AutoStop` |
| live capture | `Reading`, `LosePacket`, `ApplyBatch`, `LiveDies`, `CaptureWatch` |
| capture child | `ChildHeader`, `ChildExits` |
| `main` | `Quit`, `ServeReturns`, `ShutdownCheck`, `ShutdownFinish`, `StopCapture`, `RuntimeDropped`, `Exit` |

Of `DumpMeta` only what decides something is kept: process-only, limit reached,
group gone, losses at the start. `scoped`, `lost` and `mark` are history: which
dumps were process-only, which were recorded while packet tracking lost
something, and how many packets had been accepted when the last capture ended.
What the `dump_outcome` says lives in `told` and `unfiltered`, per file, so that
an outcome overwritten by the next dump is still judged.

`Recorder` knows no requests, locks or packets: a recording with its own file is
unused, starting, open, closing, and then saved, failed, discarded, or abandoned
when the program exits; one is busy at a time and an end is for good.
`StatusOf` maps the state of `DumpLifecycle` to it, `ImplementsRecorder` states
the refinement.

### SocketOwnership and RecordingOwnership

One connection tuple whose local address is ours; `proto` is fixed at the start.

- *Kernel* (external): processes start and die, a pid may be used again, a fork
  inherits sockets, sockets open, are closed by one of several holders, linger
  as orphans or TIME_WAIT. One TCP socket at a time can have the tuple; UDP
  endpoints may be shared, and may be wildcard or connected.
- *Poll*: `Snapshot` reads the rows with the descriptors of the scanned
  processes (all of them, or those of the selected group: any subset), and the
  process list, which may miss the process born last. `ApplySockets` applies
  both later. Anything may happen between.
- *Store*: `conn` is the row (owner pid, its start time, first seen, UDP
  generation, TCP cookie, disputed, closed, seen by a poll, seen since the
  recording began), `udp` the table of `UdpSocket`s, `clock` and `socketsAt` the
  dates. A date is taken only where the code dates something, and no two dates
  are equal: ties within one millisecond are left out.
- *Recording*: `StartRecording` is one step; `rec` is the copy kept in
  `DumpMeta::conns`, `Plan` what `dump_plan` would decide if the recording ended
  now. As it is evaluated in every state, a recording ends at every moment.
  Descendants that join a group are any listed processes while a member lives.
- History: `passed` (a socket was inherited), `predates` (sockets not there when
  a poll saw the row), `lives` (sockets known to have carried the recorded
  tuple), `forgot` (a row was lost before the recording copied it).

### NameCache

An *instance* is one run of the program, from `Bind` to `Exit` or `Crash`; it
does not come back, a restart is another instance.

| code | actions |
|---|---|
| `bind_port` | `Bind`: only while no other instance serves the port |
| `load_from` | `Sweep` (`remove_stale_tmp`), `Load` |
| DNS answers, lookups | `Learn` |
| `cache_loop` | `Tick` queues a blocking job |
| `save_to` | `Snapshot`: takes `WRITING`, then the snapshot |
| `write_atomic` | `Create`, `Write`, `Rename`, or `Fail` at any of them |
| graceful shutdown, `shutdown`, return of `main` | `Close`, `ExitSave`, `Leave`, `Exit` |
| the process is killed (external) | `Crash` |

Between `Close` and `ExitSave` a dump may be finished, which takes seconds, and
the port is free already: another instance may begin. Names are a set; expiry,
the trimming to `MAX_ENTRIES` and the dropping of empty lookups are left out, so
are several periodic saves in the queue at once (they come 45 s apart), a second
port, and names that expire while the program is down. `Torn` is what a file
would hold that is not a whole snapshot; `Sweep` removes all temporaries in one
step. `writer`, `failed`, `owed` and `before` are history: who wrote the file
last, whose save failed, what an instance knew when its last save was called,
and who had ended when it began.

### NameStore and AddressLookups

A tick of `clock` is time in which a name may expire; TTLs are counted in ticks
and capped at `Day`. `dns` holds for each address the dated names it was given
and until when it overflowed; a row holds the name it is shown with (`domain`),
its SNI, and what lookups found. Addresses outside `Public` have a label of
their own in either language. `heard` is history: until when every name that an
answer gave is valid, whether or not the entry had room for it; it is reset when
the store drops the entry of the address.

| code | actions |
|---|---|
| `remember_name_for` with `trim_ip_map` | `RememberName` |
| `apply_packet` | `SeePacket` |
| `evict`, `api_clear` | `ForgetConn` |
| `apply_sockets`, `enrich_names`, `apply_whois` in the poll | `Poll` |
| `whois_loop`, `whois_targets` | `LookupRound`, `LookupDone` |
| `resolve::lookup` | the set `Lookup`: name, ASN, and whether something failed |
| `cache_loop` | `Prune` |
| exit, save, start and restore | `Restart` |
| `i18n::set` | `SetLanguage` |

A round is chosen under the lock; its answers are applied one by one with any
other step between. That failures in a row stay within the limit of retries is part of
`TypeOK`. Two things the code does may surprise. `enrich_names` takes
a name for the PTR name when it *equals* it, so a DNS name that a PTR record
repeats can still be replaced by another DNS name, although
`docs/how-it-works.md` says a connection keeps its first one; `DnsNameStays`
excepts this case. And a PTR name that a later lookup has changed is taken for a
DNS name, and stays.

### ProcessGroup

The kernel (external) starts processes, under pids that may have been used
before, and ends them; children of the dead go to init. Start times are numbers
that no two processes share. `ScanPid` reads one entry of `/proc`, in turn,
while the kernel goes on; `PollApply` is everything that is done with the list
under the lock: the merge of a partial list, `refresh_selected_group`,
`track_dump`. `api_select`, `start_dump` in its two sections and the end of a
recording are actions of their own. The loop of `descendants_from` adds children
until none is new: `Descendants` is what it ends with, the least set with the
roots that the children of its members are in. `Line` is the same of the true
parents.

One assumption about the kernel: a pid is not used again before one full poll
has begun and ended without its process (`stale`). Linux hands out pids in
turn, so the counter would have to come round (32768 forks, or 4 million) within
about two seconds. Without it `GroupIsOfSelected` is violated: a partial poll reads the
group by pid, and a process that took over the pid of a *descendant* between
two partial polls stays in the group until the next full one. What
`docs/how-it-works.md:69-71` promises of reused pids then only holds for the
selected process itself.

### TlsAssembly, QuicNumber, QuicAssembly

One direction of one address and port pair, used by one connection after
another; the capture may miss segments, see them late, in any order, repeated,
cut in other ways, or with the last byte altered. Sequence numbers are counted
modulo `SeqSpace` and the streams of successive connections do not overlap. A
ClientHello is one record of `RecordLen` bytes: its type, its version, a byte that
may look like the type of another one, and the name at its end. `TlsDrop` stands for a reset, the time to live and the limit on flows.
`Place` does not ask whether the flow is done, as in the code: when a held back
segment ends a flow, those after it leave bytes in it that nobody reads.

A QUIC packet is opened only if `decode_number` yields the number it was sent
with, as its nonce is made from it: `Opens` is decryption. Fragments are taken
one after the other, two to a packet and possibly empty; they overlap but are never altered, since
packets are authenticated. `Half` is half the window that the length of the
number gives, `NumberSpace` is 2^62.

### WindowExit

Time passes in seconds (`Second`), and only when nothing is due in this one.
`stream` is a connection to `/api/alive`: *open*, or *broken* once its page has
left, which the server learns at its next write. `waiter` and `idle` are
`wait_closed`, `watch`, `found` and `searched` are `Watch::wait`, `why` is the first
message of the quit channel. `gone` is history: for how many seconds there has
been nothing left to stay for.

| code | actions |
|---|---|
| `alive::stream` and its `unfold` | `PageConnects`, `StreamWakes` |
| `wait_closed` | `WaiterTicks` |
| `Watch::wait` | `WatchPolls` (0.7 s in the code, once a second here) |
| `main` with `--adopt` | `Adopted` |
| `spawn_window`, `window::open` | `Opened` |
| `spawn_signal_watch` | `Signal` |
| `with_graceful_shutdown`, the return of `axum::serve` | `ServerCloses`, `ServerReturns` |

What the code does not promise is not asked of it: a page opened by hand, when no
window could be opened (`failed`), never ends the program by being closed, and
neither does a detached browser tab that is closed before its page connected.

### EtwWorker

The callback of the trace (`OnEvent`), one worker (`WorkFrame`, `WorkStart`,
`WorkStop`, `WorkShutdown`), the user's requests in the sections of
`Dump::start` and `Dump::stop`, the threads that `start` creates, and every
step of `Session::drop`, each blocking call two steps: the request and the
reply. `TraceEnds` may happen at any time, and the session may be dropped then,
on the failure of `start` or at the exit. A frame is in a known format, of
another link type, or unknown; the disk may refuse any write, and a file may not
open or flush. `reported`, `file` and `lost` are history: packets first reported between
the two requests, packets in the file, packets counted as dropped.

One order of steps is worth knowing. `Dump::stop` reads `dump_error` before
it sends its request (`capture/windows.rs:76`). If a write fails after that and
the trace ends, the `Stop` of `Session::drop` may be handled first: it closes
the file, its error goes to the log only, and the user's own `Stop` finds no writer
and succeeds. The dump is then announced as saved although it is not whole.
`SavedIsWhole` excepts exactly this case (`reply["drop"] = "error"`).

### Parts

Five modules that share no state are checked in one run: `part` says which one
a behaviour is about, the others stay as they began. Nothing is composed; the
properties are those of the modules. They are extended, not instantiated, so that
what is proved of them is said of the very definitions this run checks.

## 3. Runs

| run | question | bounds | distinct states |
|---|---|---|---|
| `dump_control` | Do overlapping starts, stops, stops by itself and shutdown keep one capture with one owner, tell the truth about the file, and implement `Recorder`? | 2 requests, 2 dumps, no packets, requests and files symmetric | 536 136 |
| `dump_accounting` | Is a success earned when packets are late, lost or panic? | 1 request, 1 dump, queue 2, batch 2, 3 packets | 3 461 169 |
| `dump_liveness` | Do starts and stops end, broken recordings get finalized, and does the program leave? | 1 request, 1 dump, queue 1, 1 packet, live capture may die; no symmetry | 348 191 |
| `socket_ownership` | Is traffic never moved between processes or sockets? | 2 pids, 2 births, 2 sockets, 3 dates, pids symmetric | 1 527 638 |
| `recording_ownership` | Is a recorded tuple claimed only when one lifetime is known? | 1 pid with 2 births, 2 sockets, 4 dates | 2 138 387 |
| `name_cache` | Is the file always whole, never replaced by an older snapshot, and complete after a clean exit? | 2 instances, 2 names, both symmetric | 1 492 492 |
| `address_names` | Is a connection shown with the best name there is, was a DNS name the only valid one, and does it stay? | 3 names (symmetric), 2 kept per address, 2 addresses of which one is public and one entry fits, 2 connections, 1 tick, 1 lookup a round, 2 retries | 449 342 |
| `parts` | `ProcessGroup`: do strangers stay out of groups, and is the end of one seen? `TlsAssembly`, `QuicAssembly`: is a hello in any order named, and only for its connection? `WindowExit`: does a reload not end the program, a closed window end it in time, and the server return? `EtwWorker`: is a saved dump whole, and every request answered? | see below | 737 118 |

Why the bounds are enough. Two requests with the poll loop and `main` put up to
four tasks against each other, and two files are needed for a new dump to begin
while an old one ends. Accounting compares two counters, so three packets
with a queue and a batch of two give every relation between "queued, not
counted", "in a batch", "lost in a full queue" and "lost in a panic". Ownership
goes wrong with the *second* process, socket or lifetime, and two births are
also two processes under one pid. Two kept names and a third give one, several
and overflow; a tick is enough to expire, because the order of answers and of
expiry is free, and names that have expired are not told apart. Two instances are one before, after or beside
the other, each with both of its saves, and two names are a snapshot and a newer
one. Three dates are two polls with a packet
between; four let a row be forgotten and begin again. `QueueCapacity` and
`BatchMax` are 8192 and 256 in the code, and the proofs hold for any; `MaxPackets`, `MaxBirths`,
`MaxSockets`, `MaxTime`, `MaxEvents` and `LiveMayDie` are bounds of the model only.

In `parts`: 2 pids and 3 processes are a parent, a child and the stranger that
takes the pid of one of them (`MaxBirths = 4` passes too, with 3.7 million states);
every second poll is a full one (`FullEvery`, 8 in the code), which gives every
order of a full and a partial poll with two steps of the kernel; a limit of 2
recorded processes (`MaxDumpProcs`) is reached by the third. Two connections of one
port pair, with initial sequence numbers such that the first hello runs across the
wrap of `SeqSpace = 18`; 4 bytes of hello (`RecordLen`, `HelloLen`), streams of 5 (`MaxStream`)
and 2 held back segments (`MaxPending`), so that a third is lost. Packet numbers 0
to 11 are three windows of 4 (`Half = 2`, `NumberSpace = 12`), the first and the
last window included. `Grace = 3`, `Ping = 2`, `Search = 3` and `Adopting = 2`
seconds (10, 2, 15 and 15 in the code) keep their order, and two streams are a page and
its reload. A work queue of 2 (256), a `Dedup` that remembers 1 packet (8192),
2 packets and 3 events: a queue that is full with a request in it, a duplicate
that is known and one that was forgotten.

Four runs expect a violation; each is a disagreement between the code and what
the documentation says of it:

| run | property | what happens |
|---|---|---|
| `dump_exit` | `ExitFinalizes` | `shutdown` finishes only a recording in phase Recording. One that the poll loop's task is finalizing (its `dumpcap` ended by the same Ctrl+C) is dropped with the runtime: no map, no labels, no outcome. |
| `dump_capture_failure` | `CaptureFailureIsReported` | live capture dies, `capture_watch` clears `capture_on`, the recording goes on without packet tracking and is announced as saved. |
| `ownership_fresh_flow` | `OnlySocketIsNotDisputed` | `sockets_at` is when a snapshot is *applied*. A UDP flow that begins after the table was read and before that is older than the `since` of its own socket and is disputed for good. |
| `recording_retained` | `ConfirmedIsRetained` | a recorded TCP row is cleared or evicted; its next packet makes a row with another `first_seen`, and `update_recording` disputes the confirmed copy. |

In the two ownership passing runs and their violations deadlock is not checked:
kernel, polls and forgetting stand still at `MaxTime`, which is the bound's
doing. In `name_cache` and `parts` it is not checked either, because an instance
runs once and ends, a program returns and a session is dropped for good, nor in
`address_names`, where nothing can stop. The lifecycle runs do check it (`Exited` stutters after the exit).

### Fairness

`FairSpec` assumes weak fairness of the steps of every task, of every request
once asked, of `AutoStop` and of `main`. The tokio scheduler runs every
ready task, the poll loop ticks on, and the waits that could last have a
timeout that is itself a step (`StartGivesUp`, `ChildStopped` with a kill,
`DrainTimeout`). Open `/api/alive` streams do not hold up `ServeReturns`: they
end two seconds after `Alive::close` (`ClosingServerReturns` of `WindowExit`). Nothing is assumed of the user, of either
`dumpcap`, of packets arriving, or of the pump: the liveness properties hold
with a pump that hangs for ever. Rewriting a file is assumed to end.

No other run assumes fairness. What must happen in time in `WindowExit` is stated
as a bound on `gone`: time passes only when nobody is due, which is what the
timers of tokio give up to scheduling delay, so a bound is a safety property.

## 4. Proofs

All obligations are checked by `tlapm`; nothing is omitted or taken on trust.
Every theorem is about the specification that the runs use, for all values of
its constants that satisfy the module's named assumption. The assumptions say
what is a number, what is positive and which null values are outside their sets;
those that say more are named below. Bounds of the models (`MaxPackets`,
`MaxBirths`, `MaxTime`, ...) are arbitrary numbers in the proofs, `Request`,
`File`, `Pid`, `Inode`, `Instance`, `Name`, `Addr`, `Conn`, `Stream`, `Frame` and
`Tcp` arbitrary sets, finite only where the code counts them.

### DumpLifecycleProofs

- *The queue.* `QueueConservation`: accepted plus the uncounted send equals
  processed plus batch plus queue. Every step of the controls is a step or a
  stutter of the queue (`QueueStep`).
- *The controls.* `LifecycleInv` is `TypeOK`, `Conservation`, `Control` and
  `Owned`. `Control` ties `phase` to the rest: Recording exactly when the
  application holds a dump and its meta, Starting or Finishing whenever a task
  is at work on one, and never two tasks at work. `Owned` ties children to that: a
  live child is in the slot or with the task that holds it. Neither `OneCapture`
  nor `EveryChildHasOneOwner` is inductive: the step that publishes a dump
  preserves them only because no other task is active, which is what `Control`
  says. Results: `LifecycleTypeOK`, `LifecycleOneCapture`, `LifecycleOneOwner`.
- *Accounting.* `Accounted` follows one finishing task from the moment its child
  stopped: `mark`, what had been accepted then, is at most the target it
  waits for, and a task past the drain without an error has seen `processed`
  reach `mark`. With `Conservation` this is `LifecycleAccounting`.
- *Outcomes.* `OutcomeInv` says what is true of a dump at each place of the task
  that owns it (`StepFacts`) and once nobody owns it (`FileFacts`). The core: a
  loss that counts against a dump raises `dropped` above the value its meta was
  given before its child existed, and stays above, so `Tally` sees it. Results:
  `LifecycleOkMeansComplete`, `LifecycleFilteredMeansComplete`,
  `LifecycleUnfiltered`.
- *Refinement.* `RecorderIsImplemented`: every step is a step of `Recorder` or
  changes nothing of it. `StartBegin` is `Begin`, `Publish` `Open`, `Unwind`
  `Discard`, `TakeRecording` `Close` whoever takes it, `Report` `Finish` and
  `RuntimeDropped` `Halt`; there is a lemma for each (`BeginMaps`, ...). The state
  of a recording is read from who has its file, so the mapping needs one more
  invariant, `HoldInv`: while the program runs only a task at work has a file.
  From `OutcomeInv` it takes that nothing was announced yet of a dump in the
  slot or with a task: an outcome is never announced twice.

### OwnershipProofs

`StoreInv` is about one tuple, any number of pids, processes, sockets and dates:
an owned UDP row is bound to a generation of which the `Store` knows no other
owner (`Holds`), is not older than its socket (`Younger`), and what no poll had
seen while the row was there is dated after the row (`Lifetimes`). `OwnerIsFinal`,
`LiveOwnerIsCurrent` and `NewSocketClaimsNothingOld` follow; none of them is
inductive, because what decides is the date a poll gives to a socket that was
there before. Results: `StoreTypes`, `OwnersAreFinal`, `LiveOwnersAreCurrent`,
`NothingOldIsClaimed`.

`RecordingInv` adds the copy of a recording: the copy and the row begin with the
same packet only if they are one row, and either of them tells whether several
sockets carried the recorded packets, or has been forgotten. Results:
`RecordingTypes`, `ScopedCopiesAreOurs`, `ClaimsHaveOneLifetime`: traffic is
claimed only when one lifetime carried it.

### NameCacheProofs

`CacheInv` holds for any set of instances and names. That the file is whole
(`CacheFileIsWhole`) rests on `WholeOnceWritten`: a temporary file that is about
to be renamed is whole or has been removed. That an instance never replaces its
own snapshot by an older one (`CacheSavesInOrder`) is not inductive: `WriterKnows`
adds that what the last writer left is still in its memory and in whichever
snapshot holds `WRITING`. `ExitInv` follows what an instance owes from its
memory (`Pays`) to the file and to every instance that comes later (`Left`), for
those that nobody overlapped (`Alone`): `CacheExitIsKept`.

### AddressLookupsProofs

`NamesInv`: an entry accounts for every answer that is still valid (`Accounts`:
the name is kept, or it expires no later than the entry remembers to have
overflowed), rows show what they know, and what is being looked up may be
tried. `Accounts` is what makes a name the only valid one when the entry has
forgotten others. Results: `NamesTypes`, `SniIsAlwaysShown`, `DnsNamesWereUnique`,
`DnsNamesStay`, `PollsGiveBestName`.

### ProcessGroupProofs

`GroupsInv` rules out that lists which were read entry by entry, and merged from
polls of different times, name a parent by a pid that is another process by
then. A listed process keeps its pid, or the pid waits for a full poll
(`Current`); the same holds of the parent that an entry names (`ParentCurrent`),
and where either list shows that parent, it forked the child (`ParentsIn`), so
that the merged list fits as well. What the program takes for a process, a pid
with a start time, is one (`RealInv`). `ScanInv` and `FollowInv` say whom a poll
cannot miss: those who ran when it began and still run. `GroupInv` is what holds
of the group between partial polls. The assumption on the kernel of section 2 is
part of the specification. Results: `GroupsTypes`, `RecordedDescend`,
`GroupsAreOfSelected`, `GroupEndsAreSeen`.

### HelloProofs

- *TLS*, for any number of successive connections of one port pair, any space of
  sequence numbers that has room for the limit and a record, hellos of any length
  within the limit, and streams that are apart (`TlsParameters`: what TCP promises
  of successive connections is here that their initial sequence numbers differ by
  at least the limit and a record, both ways round). `Offsets` is the arithmetic:
  modulo the space, a segment of the connection whose start is known lies at its
  distance from the start, and any other beyond the limit, where `place` ignores
  it. So a flow that knows its start belongs to one connection (`HoldsOf`), and no
  other flow starts where it does (`StartIsUnique`). `FlowInv` adds what the
  two properties need: while the start is unknown, all that was heard is held back
  (`PendingInv`); from the start of a record on all of it is there, or a byte came
  in two versions, or the name has been delivered (`BasedInv`). A flow may also
  take a byte inside a hello for its start; `BasedInv` then says nothing of
  what was heard, and needs not: such a flow never has a whole record
  (`WholeFromStart`). `PlaceKeeps` and `PlaceHolds` are `place`, `BasedHolds` is the
  loop over the held back segments, by induction on their number (`AllNumbers`,
  from the well-foundedness of the natural numbers), `TakenKeeps` and
  `ParsedKeeps` are the two halves of `Flow::add`. Results: `TlsInvariant`,
  `TlsTypes`, `NamesAreOfTheirConnection`, `TlsHellosAreNamed`.
- *QUIC.* `NearNumbersOpen` and `NearPacketsOpen`, for every width and every
  number space that is a multiple of it (`NumberParameters`): a number is its whole
  windows and its digits (`Digits`), two numbers near each other have the same
  windows or neighbouring ones (`WindowsApart`), and each of these cases is decided
  by one comparison of `decode_number`. `HelloInv` says that the flow has all the
  bytes that were opened until it is done, and is not complete before:
  `HellosAreNamed`, for a hello of any length within the limit.

### EtwWorkerProofs and PartsProofs

- The window, for any number of streams, any grace period and any ping of
  at least two seconds (`WindowParameters`). `ReloadDoesNotEnd` is not inductive:
  `wait_closed` counts its own seconds, and `gone` the ones in which no page was
  there. `CountInv` says that no more are counted than have passed, unless a
  stream has come just now; `FreshInv` says that such a stream is new, so that it
  cannot end before the count is set to zero. This is where two seconds are
  needed. `ClosingInv` bounds what is left of every stream of a closing server.
  `WatchInv` and `GoneInv` account for each second of `gone`: it went to the ping
  of a broken stream, then to the grace period, or to the search for the browser.
  Results: `WindowTypes`, `PageEndIsLate`, `ServerEndsInTime`, `ClosedWindowEnds`.
- The worker on Windows, for any size of the queue and of the memory of `Dedup`. Whoever
  waits has a request in the queue; a request leaves the queue only with a reply
  (`HandledStep`, `ShutdownStep`) and joins it only while the worker runs
  (`RequestStep`): `AnswersCome`. `DumpInv` follows a packet that was reported
  between the two requests: it is in the queue, in the file, or counted as lost,
  or an error has been kept; the order of the queue puts it before the `Stop`
  that would close the file. Results: `EtwTypes`, `SavedDumpsAreWhole`.

- The parts side by side: they share no state, so a behaviour of `PartsSpec` is one
  of each part by the form of `PartsNext` (the lemma `PartsAreApart`, which says
  nothing of the code). With it the theorems about each part give every property of
  the `parts` run for all constants that satisfy `PartsAssumption`: `PartsTypes`,
  `PartsAreCorrect`.

### Only model-checked

The liveness properties, `OperationsEnd`, `BrokenRecordingEnds` and `QuitLeads`:
they depend on fairness, that is on `ENABLED`, which is outside this prover's reach.
The runs that end in a violation are counterexamples, and need no proof.

## 5. What is not modelled, and why

- Windows: creating the ETW session (what fails before the threads exist), its
  socket and process tables, its DNS cache, and the pcapng blocks that are written.
- A run started while an earlier one finishes a dump at its exit: the port is free
  before `cache::save` is called (`main.rs:586`, `744`), so it may load the file too early, or remove
  the temporary file, and not know the names that are saved then. The model has
  these steps, `FileIsWhole` holds for them, and `ExitIsKept` is about runs that do
  not overlap.
- On other systems than Linux `Watch` follows a process handle; `api_elevate` and
  the search for an installed browser are left out everywhere.
- `self_pids` and `active_pids`, which only filter views.
- Starting with no capture available, and the fallback between capture modes.
- A panic inside a start or finish task (`phase` would stay as it is).
- In the `Store`: counters, `set_local_ips`; a tuple whose local
  address is not ours. The number `MAX_CONNS` is abstracted: eviction is a row
  that may vanish at any time.
- The start time of a UDP owner may be reread under a retained pid
  (`state.rs:309-311`) after a scan that could not see it. The model does this,
  and `OwnerIsFinal` compares the start time only for TCP.
- A packet that trails its closed UDP socket disputes the whole recorded flow
  (`state.rs:377`). The model does this too; `ConfirmedIsRetained` is violated
  by a shorter trace already.
- A process list remembered from earlier polls is taken to be current; the race
  between list and descriptors is modelled as a list that misses the process
  born last.
- In a process-only recording a foreign lifetime of a tuple that is forgotten
  before any row of ours appears is unknown to the plan
  (`main.rs:1855-1868`); `ClaimHasOneLifetime` excludes it by `forgot`.
- Parsing and rewriting of pcapng, IP, TLS, QUIC, DNS and whois bytes, the
  derivation of QUIC keys, and the read-only HTTP views.

## 6. Plan

Every component with state of its own is modelled, as far as section 5 says, and
every safety property that a run checks is stated by a theorem. What could be
added: the start and the failures of the ETW session, the fallback between
capture modes, and a second tuple in `SocketOwnership`, whose rows would compete
for `MAX_CONNS`.
