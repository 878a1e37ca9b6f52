# A TLA+ model of the WizFi250 firmware

The WizFi250 is a serial-to-Wi-Fi module: a host sends AT commands over a serial
line, opens sockets with them, and may switch the line to *data mode*, in which
serial bytes and one socket are connected directly. Its firmware is the
application `Apps/wizfi_wiced` on top of the WICED SDK 2.4.0 (ThreadX, NetX). This
directory holds TLA+ modules that model the firmware's own control, TLC
configurations that check them, and TLAPS proofs about them.

All paths below are relative to `src/WICED-SDK-2.4.0/`; `wx_*.c` are in
`Apps/wizfi_wiced/wizfimain/`.

## Inventory

| Component | State | Operations | Interacts with |
|---|---|---|---|
| **Socket table** (`wx_platform_rtos_socket.c`, `wx_commands_s.c`) | `g_scList[8]`, `g_socketopen_thread[8]`, one thread with its socket on its stack for each open scid, `g_isAutoconnected`, `g_currentScid`, `g_wxModeState`, `g_last_TSN_localport` | AT+SCON, AT+SMGMT, AT+SSEND, AT+SDATA; SocketOpenProcess (create, list, accept/connect, receive, clear, restart or exit); CloseSCList, CloseSCAllList; check_tcp_idle_time (options 5, 7, 9) | main thread, networking worker (link callbacks), reaper |
| **Thread reaper** (`ProcessWizFiQueue`) | `g_queue_handle_wizfiqueue` (20 messages) | 111: delete the thread of a scid; 101: flush the serial buffer | socket threads push 111, the Nagle timer pushes 101 |
| **Serial bridge** (`wx_s2w_process.c`, `wx_general_parse.c`) | `g_scTxBuffer`, `g_scTxIndex`, `g_auto_esc`, `g_s2w_wizmutex`, `g_nagle_timer`, `g_autoesc_timer` | SerialInput, CommandCharProcess, DataCharProcess, DataBufferTransmit, f_nagle_timer, f_autoesc_timer, StatusNotify | UART, sockets (NetTx, NetRx), reaper |
| **Wi-Fi link** (`wx_commands_w.c`, `wizfi_wiced.c`) | join state, `g_wifi_linkup`, link callbacks | AT+WJOIN, AT+WLEAVE, link-up and link-down callbacks, stored connection | closes all sockets; sends to the main queue |
| **Main queue and housekeeping** (`wizfi_wiced.c`, `send_maincommand_queue`) | main queue, counters of check_gpio_thread | messages 102 to 108, option 8 reset, status checks | main thread |
| **Air commands** (`wx_s2w_function.c`) | daemon status, receive buffer | AirCommandDaemonProcess, process_air_command_rx_data | main thread runs the command |
| **Profile and DCT** (`wx_commands_m.c`, `wx_commands_w.c`, `Apps/waf/bootloader/bootloader.c`, `stm32f2xx_platform.c`) | `g_wxProfile`, two copies of the device configuration table (DCT) in flash, with marks and a function to call | AT+MPROF, AT+WSET, AT+MFDEF, the web server and the backup timer save; bootloader and application load; platform_get_dct, platform_write_dct | flash; a reset at any time |
| **MQTT client** (`wiced_MQTT/`, `wx_commands_mqtt.c`) | `mqtt_object` (connection, queue, session, heartbeat), `semaphore`, `expected_event`, `g_mqtt_isconnected` | AT+MQTTCON, AT+MQTTSUB, AT+MQTTPUB; Mqttmain's requests and received packets; mqtt_manager_tick | main thread, Mqttmain, networking worker (heartbeat, link-down), broker |
| **WWD bus** (`Wiced/WWD/internal/SDPCM.c`, `wwd_thread.c`, `Bus_protocols/SDIO/wwd_bus_protocol.c`) | send queue, sequence number, last credit, flow control, `wiced_transceive_semaphore`, `wiced_bus_interrupt`; for IOCTLs `wiced_ioctl_response`, `wiced_ioctl_sleep`, `ioctl_abort_count` | send, receive, credit update, wiced_send_ioctl, replies | all threads that send; Wi-Fi chip |
| **System monitor, ring buffer** | deadlines of the monitored threads; head, tail | update, check; read, write | watchdog; UART driver |

Scheduling: ThreadX with fixed priorities and no time slices. The WICED thread of the bus has the highest priority, the networking
worker 3, the main thread 7, ProcessWizFiQueue and the air-command daemon
9, socket threads, Mqttmain and housekeeping 10. A thread of higher priority preempts at any
point; the only lock around sockets, `g_socketopen_wizmutex`, is taken by the main
thread and released by another one, which ThreadX's owner check makes ineffective.

What is hard: slots shared by threads of three priorities without a lock; a blocking
disconnect between a decision and its use; messages that name a scid rather than a
thread; the mode of one serial line kept once for all sockets; a server that
disappears from the table between two clients; replies that are late, lost or for somebody else,
matched by counting them; counters that wrap; power that fails between two writes to flash; an object freed while
a timer is still registered in it. PROJECT.json lists the hazards, each at its
line, with the property that covers it or the reason why none does yet.

What makes the components correct:

* *Socket table*: every socket is reachable through its slot as long as it exists;
  a slot never outlives its thread; one data-mode socket; the mode of the serial line
  follows the data-mode socket; closing is final; every scid becomes free again.
* *Reaper*: only threads that returned are deleted; each of them is.
* *Serial bridge*: bytes reach the socket in order, once, whoever flushes.
* *Wi-Fi link*: no socket survives the loss of the network under it; the stored
  connection is opened once per link-up.
* *Air commands*: a command is executed once, its answer goes to its sender.
* *Profile and DCT*: a write happens in full or not at all, the table is never lost, the two places of the network settings
  agree, an upgrade starts once.
* *MQTT*: a message of QoS 2 is delivered once; what a command reports as done was done; an exchange goes on although
  events are dropped; nothing uses the object when it is freed.
* *WWD bus*: never more frames in flight than the chip granted, and never fewer for ever; no wake-up is lost; each IOCTL gets its own reply.

## Modules

### SocketTable

One module for the socket table, the reaper's message 111 and the link events, because
they share `g_scList`. How its state corresponds to the code:

| Variable | Code |
|---|---|
| `scList[s]` | `g_scList[s]`: `pSocket` says that the pointer is not null, `remote` that `remotePort` is not 0 |
| `worker[s]` | `g_socketopen_thread[s]`; `pc` is the place in SocketOpenProcess, `req` its parameters, `restart` and `cmdWhenDisc` its locals |
| `sock[s]` | the thread's NetX socket: `open` (created or listening), `conn`, or `none` (unusable: not created, disconnected, deleted) |
| `auto`, `current`, `mode` | `g_isAutoconnected`, `g_currentScid`, `g_wxModeState` |
| `optTS`, `lastPort` | `g_wxProfile.scon_opt2` is "TS...", `g_last_TSN_localport` |
| `sending` | the main thread is inside AT+SSEND for this scid |
| `closer[c]` | progress of CloseSCAllList or CloseSCList on the main thread (`main`) and the networking worker (`net`), and of option 5's disconnect on the main thread |
| `reapQueue`, `reaper` | the 111 messages in the WizFi queue, and the one ProcessWizFiQueue has taken |
| `corrupted` | something happened after which the behaviour of the firmware is undefined (a control block created over a live thread, a use of a dangling pointer) |

Each action is a command, a part of SocketOpenProcess between two points at which the
thread can be delayed, a part of a close loop, a queue step, or an event of the
environment. A socket thread has the lowest priority, so that each of its shared writes that another thread can come between is a step: a connecting
data-mode thread writes `g_isAutoconnected`, `g_currentScid` and the mode in three of them. Code of the main thread between two blocking calls is one step. Only the
networking worker preempts it; where that makes a difference (between the test of AT+SDATA and its write), `CloseFinish` has the result. Where C has no defined outcome, the
action sets `corrupted` nondeterministically; a corrupted module can only be reset.

Abstractions: the listing of a slot (lines 399 to 411) is one step; the 100 ms delay after a launch
is not taken as a guarantee; UDP servers with a remote address given in advance are left out;
creation of a thread, a socket, a connection or a TLS session, and listening, may fail at any time; message 102 (link check for Wi-Fi
Direct), option 7 (a reset) and the data path of sockets are left out.

Definitions marked *mutant* are plausible errors of the code. No specification uses
them: they serve to show that each property notices one.

### SocketTable_proofs

Theorems about SocketTable for all values of its constants. See below.

### MCSocketTable

The constants of the runs: some kinds of requests, and the bound `OneAtATime`.

### SerialBridge

The serial line in data mode, for one connection: SocketTable shows that a data-mode socket has scid 0, so that there is one at a time,
and its state is a few flags here. Command-mode sockets may be listed beside it (opened later, while a data-mode server has no client); that AT+SSEND makes one
of them the current scid is left out.

| Variable | Code |
|---|---|
| `mode`, `current` | `g_wxModeState`; `g_currentScid` is not `WX_INVALID_SCID` |
| `open`, `opening`, `closing`, `escaped` | `g_scList[0].pSocket`; how far its thread is with opening; the slot is cleared and its end not announced yet; `command_mode_when_disconnected` |
| `esc`, `escBuf` | `g_auto_esc`, the static array `esc` of SerialInput |
| `at`, `byte`, `idx`, `many` | where the main thread, the networking worker and the queue thread are; the argument of their DataCharProcess; their loop variables |
| `txBuf`, `mutex` | `g_scTxBuffer` up to `g_scTxIndex`; the owner of `g_s2w_wizmutex` |
| `nagle`, `autoesc`, `events`, `flushes` | the two timers, the worker's queue, the 101 messages in the WizFi queue |
| `owed`, `net` | history: what the host typed for the connection and is not transmitted; what was transmitted |

The three threads share `esc` without a lock and the buffer under the mutex. Steps are as fine as the shared
variables: `g_auto_esc` is read and written in different steps, each round of the two loops over pluses is one,
and DataCharProcess is its test of mode and scid, its store under the mutex, and the transmission, in which
the thread blocks. `Turn` is the fixed-priority scheduler: a thread runs only when those above it wait.
Sends fail, also after a part; queues are full and drop messages; connections come and go. A connection opens in steps (its slot is listed,
`g_currentScid` written, the mode written), and may fail after the first. `g_isAutoconnected`, which only AT+SDATA reads here, is taken together with
`g_currentScid`: a link-down between their two writes would have AT+SDATA refused, where the model allows it.

Two constants name what the code does not guarantee. `Overlap`: the escape timer may expire while a byte is
processed. `Reuse`: a connection may open before the bytes typed for the previous one are dealt with.
Left out: receiving (NetRx), command lines, and AT+SSEND's use of the same buffer.

### ByteStream

What SerialBridge promises, with two variables: the bytes owed are transmitted in order and once each, except for the
pluses of an escape sequence, the rest of a failed send, and what is waiting when the connection ends.
`StreamKept` says that SerialBridge implements it.

### SerialBridge_proofs, SerialBridgeStream_proofs, MCSerialBridge

Theorems about SerialBridge for every alphabet, packet size and queue capacity; the refinement of ByteStream; the
alphabet of the runs: one plain byte and the plus. One plain byte is enough, because a byte that is lost, repeated
or overtaken by a plus changes the sequence.

### Sdpcm

Frames between host and Wi-Fi chip.

| Variable | Code |
|---|---|
| `queued`, `seq`, `credit`, `flow` | length of `wiced_sdpcm_send_queue`, `sdpcm_packet_transmit_sequence_number`, `last_bus_data_credit`, `wiced_bus_flow_controlled` |
| `thread` | where wiced_thread_func is: reading the interrupt status, its loop over received frames, its loop over the queue, asleep without a limit (`sleep`) or for 100 ms (`poll`) |
| `interrupt`, `wake` | `wiced_bus_interrupt`, `wiced_transceive_semaphore` |
| `chipSeq`, `chipFree`, `toHost`, `intStatus` | the chip: the sequence number it expects, its free buffers, frames for the host, the bit FRAME_AVAILABLE |
| `faults`, `lostTx`, `lostRx`, `garbled` | faults to come; whether a frame was lost, a credit read from the wrong place |

Each round of a loop is a step, so that interrupts and senders come between any two. Counters are modulo `SeqMod`. A
transfer may fail in both directions, and a receive buffer be missing.

### Ioctl

wiced_send_ioctl and the control channel of wiced_process_sdpcm: callers one at a time, a semaphore with a timeout, and the
count of replies to ignore. `at` is where each caller is; `response`, `sleep`, `abortCount` are the globals; the bus is one
channel `inFlight` that is slow and loses. Identifiers are only compared with the last one, so "own" and "old" are enough.

### AtomicStore, Dct, Profile, MCProfile

`AtomicStore` is what callers of the DCT may expect: a write replaces a section and the function to call, at once or not at all.
`Dct` is platform_get_dct and platform_write_dct in steps of one flash write: `copy` holds the two copies (sections, marks and function, each of which may be
erased or half programmed), `op` where each writer is, `unsafe` remembers what the code does not protect: writers that overlap, a mark that is not written.
`Atomic` says that Dct implements AtomicStore, with `Stored` and `Asked` as the mapping. `Profile` puts the program around it: bootloader (clear and call a
function), application (load the profile, apply it to the Wi-Fi section), commands that save, and the web server or the backup timer as a second writer that
resets when it has saved. `Resets` may happen between any two steps.

### OnceDelivery, Mqtt, MCMqtt

`OnceDelivery` is what QoS 2 promises for each identifier: published, delivered once, released, completed, in this order. `ExactlyOnce` says that Mqtt
implements it; the promise ends when the session is full or an item is mistaken for another, and starts again with the next connection.


| Variable | Code |
|---|---|
| `at` | what the main thread waits for (a command), and whether main thread or worker are in MQTTClearResource |
| `object`, `isconnected`, `beat` | `mqtt_object` is allocated and its thread runs; `g_mqtt_isconnected`; the heartbeat's timed event is registered |
| `open`, `queue`, `session`, `packetId` | the TCP connection; Mqttmain's queue; `session.used_list`; `packet_id` |
| `count`, `expected` | the semaphore of mqtt_wait_for; `expected_event` |
| `inbox`, `toBroker`, `subscribed`, `exchange` | frames of the broker, frames for it; the broker: the subscription, and where it is with each identifier of QoS 2 |
| `delivered`, `answered`, `resent`, `overflowed`, `mistaken`, `faults` | history, and frames for which there will be no packet |

AT commands publish with QoS 0 only, so that the client's side of QoS 1 and 2 is left out; the broker publishes with QoS 2, as lower levels keep
no state. The broker answers, repeats what is not acknowledged, and closes at any time. One subscription stands for all. The counters of the heartbeat are left out: a ping, or
giving up, may come at any tick; the heartbeat may not start at all, as with a `keep_alive` of 0. The semaphore of mqtt_wait_for (MQTTConsole.c:59) is a static
variable that nothing initialises, so the kernel never lists it; the model takes it as a working one with a count of 0, which is what its zeroed fields amount to (a release build of ThreadX checks no control blocks, tx_port.h:84). Two situations are not followed further: AT+MQTTCON after a failed AT+MQTTCON=0, which leaves
the object behind, and steps on freed memory.

## Runs

The runs of SocketTable have two scids: every property relates one socket to another, to the data
socket, or to another thread at the same scid, and the data socket is always scid 0, so
two scids show it and its neighbour. Counters and buffers that could grow: `reapQueue`, bounded by
`QueueLen` as in the code.

| Run | What it asks | Result |
|---|---|---|
| `table_free` | a host that opens a data-mode TCP server and UDP servers whenever AT+SCON lets it, option 9 (the firmware opens listeners itself), a queue of one message (so that it overflows): is the table consistent with threads and `g_isAutoconnected`? | holds, 6.2 million states |
| `table_paced` | a host with a data-mode server, a TLS server and a client, that opens a scid again only after its last thread was deleted; servers listen again themselves: are slots, threads and mode consistent, is a thread that returned ever forgotten, does a mark of AT+SMGMT stay on a socket that goes on, where can AT+SSEND's data go? | holds, 1.9 million |
| `table_live` | are threads deleted, and closed servers' scids freed, in the end? | holds, 0.6 million |
| `bridge_stream` | up to five bytes for a connection, without overlap and reuse: is every behaviour one of ByteStream, does only one thread transmit, does data mode end by an escape sequence only? | holds, 1.0 million |
| `bridge_live` | with overlap and queues of one place: do the counters stay in their arrays, does the buffer always have a transmission coming, do buffered bytes leave, are held-back pluses watched and decided on? | holds, 0.3 million |
| `bus` | a chip with two buffers, numbers modulo 5, one fault: is every frame granted, is no grant taken for stale, does a poke end a wait for credits, is no wake-up lost, does the queue move? | holds, 1.2 million |
| `ioctl` | two callers, timeouts, replies late or lost: does a caller read a live reply, do semaphore, count and channel agree, is a caller woken by its own reply, is each call answered? | holds, 655 states |
| `store` | bootloader, application, a second writer, resets between any two flash writes: is a write atomic, is the table never lost, do the settings agree, does an upgrade start once? | holds, 1.7 million |
| `mqtt` | all commands, a broker that repeats and closes, a queue of two, one lost frame: is every behaviour one of OnceDelivery, was what a command reports done, do exchanges go on? | holds, 0.9 million |
| `bug_*` | three statements of the repository that the code does not keep | violated, see below |

`table_free` bounds the interleavings by `OneAtATime`: the two closing threads do not run
at the same time, and AT+SSEND does not run. Both are free in `table_paced`.

In the runs of SerialBridge a packet holds two bytes, or one, so that the next stored byte transmits at once (1460 in the firmware), and the
Nagle timer restarts at every second byte (100); `MaxTyped` bounds the bytes of one connection. Five bytes are
an escape sequence with a byte before and one after it, or a full buffer with pluses in it. While the end of
a connection is being announced any number of bytes can be typed, so that the other bounds do not hide long inputs. `EventLen`
and `FlushLen` are 1 or 2, so that both queues overflow.

Bounds of the other runs. `bus`: numbers modulo 5 (256) with differences up to 2 (7) and a window of 2 keep the
relation that matters, Window <= MaxDiff < SeqMod, and wrap around within a few frames; the theorems hold for all values. `ioctl`: `MaxInFlight` and `MaxAbort`
only limit when a call may start. `store`: two sections (Wi-Fi and application) with two values, two writers. `mqtt`:
identifiers modulo 3 (65536), so that they wrap and meet the broker's only one; a queue of 2 (10) that overflows with one
event more, a session of 2 (20) items that overflows too; the next frame is put on the network while at most `NetLen` are on it.

`Paced` is an assumption about the host, not the firmware: it says which guarantees
a host gets that waits (a few tens of milliseconds are enough) between the
disconnection message and the next AT+SCON. Without it `DeletesTerminated`
fails (`bug_delete`), and with it `NoDangling`.

Fairness (`FairSpec`): every thread that can run does in the end. Fixed priorities justify it because all threads above the
socket threads block in each turn of their loops (UART, queue, delay). For SerialBridge it is strong fairness of each thread, which
runs again and again between those above it, and of the timers, which are periodic and expire again if the worker's queue is full. Nothing is assumed of peers, the host
or the link. `table_live` needs a queue as long as there are scids, which the firmware has (20 for 8).
In Sdpcm the WICED thread, which nothing preempts, runs whenever it can, and the chip sends what it buffers and answers pokes; `QueueMoves`
holds while no transfer fails and the chip does not stop the host for ever. In Ioctl a caller that was woken runs on and the chip replies ("The I/O control will
always respond", SDPCM.c:778); nothing is assumed of timeouts. In Mqtt Mqttmain gets turns again and again between threads of higher priority, the broker answers,
and a ping finds a packet in the end; events and frames may still be dropped.

### Findings

* `bug_close`: a server closed by AT+SMGMT while its thread disconnects a lost client
  listens again. The decision is taken before the disconnect (line 632), the mark
  erased after it (641), and the test meant for late marks (715) comes after that: `LateMarkNeverSeen`, a theorem, says that it is dead code.
* `bug_delete`: message 111 deletes the thread that has the scid when it is handled, not the one that sent it.
* `bug_mqtt`: MQTTClearResource frees the object with the heartbeat's timed event still registered in it (MQTTConsole.c:336), unless a disconnect went
  through before. A connection attempt that times out is enough.

What else the models show. They contain the behaviour, and no run that passes excludes it:

* *Sockets.* AT+SSEND keeps its scid in `g_currentScid`, which a connecting data-mode socket overwrites (`SsendReachesItsSocket` is violated; `SsendMissesToData` is what holds).
  AT+WLEAVE does not mark servers, so that one can open a socket behind the loop that closes all (wx_commands_w.c:463 says "close all scids opened").
  A link-down or AT+WLEAVE that ends between a connecting thread's write of `g_isAutoconnected` and that of the mode (wx_platform_rtos_socket.c:574, 580), or
  between AT+SDATA's test and write, leaves data mode on without `g_isAutoconnected`; the thread's announcement ends it (`ModeBacked` says no more than that).
  Option 5 waits for a disconnect with a pointer into another thread's stack (line 785); the thread may be deleted meanwhile, which no property excludes.
  A secure server between two clients is not in the table, so another socket can be opened beside it (against wx_commands_s.c:202).
* *Serial bridge.* With `Overlap`, `StreamKept` is violated: the loop of SerialInput over the held-back pluses and the escape timer's handler both use
  `g_auto_esc`, and a timer that expires between the loop and its reset sends a plus again; between bytes it cannot (`BridgeKeepsStream`). A byte typed while the end of the
  connection is announced is buffered, against the comment at wx_s2w_process.c:953, because ClearSCList resets `g_isAutoconnected` before StatusNotify tests it.
* *Bus.* The comment at wwd_thread.c:264 promises a sleep of 100 ms at most, but WICED_THREAD_POLL_TIMEOUT is infinite: after a failed read the thread sleeps on
  frames that wait (`NeverSleepsOnWork` is violated, `SleepsIdle` is what holds). Without a receive buffer, the credit is read from the wrong place
  (wwd_bus_protocol.c:494 to 497: the twelve bytes read are not where wiced_process_bus_credit_update looks). As many failed transfers as the window is long use up all credits for ever.
* *IOCTLs.* `ioctl_abort_count` counts a reply to ignore that may never come: after a lost reply the next caller's own reply is ignored, and it times out as well
  (`OwnReplyKept` is violated; `OwnReplyKeptInStep` is what holds while nothing is lost).
* *DCT.* platform_write_dct has no lock, and the last two writes, the marks, are not verified (2774, 2775). A save of the second writer between the write and the reset of start_ota_upgrade
  clears the request. The bootloader ignores the result of the write that clears a request (bootloader.c:272), so that an upgrade may start again.
* *MQTT.* A subscription sent again at a PINGRESP is answered twice, and the second SUBACK completes the next AT+MQTTSUB at once. Session items are compared by
  identifier alone, so that a message may be dropped as a repetition of a subscription. A full session is ignored, and a repetition delivered. A broker that is silent
  for long raises the semaphore at every tick, and each leftover makes a following AT+MQTTCON fail. A link-down that clears the object beside a command that fails clears it twice.
  Seen while reading, and abstracted: a refused CONNACK is reported as success, and CONNECT carries a keep-alive of 0 (mqtt_frame.c:420).

## Proofs

`SocketTable_proofs` proves, from the assumptions on the constants in SocketTable only:

* `TypeCorrect`: `TypeOK`. It contains what makes types inductive: a closer that is about to delete is at a
  valid scid.
* `SocketsAreListed`, `OneDataSocket`, `AutoHasSocket`, `MarkTestIsDead` for every
  host. None of the first three is inductive alone: that `g_isAutoconnected` set by a
  connecting thread is backed needs that the thread's slot is listed with
  its parameters, and that only scid 0 has a data-mode socket needs that a free slot is
  clean and that threads without a slot are before their listing or after their
  clearing. `SafetyInv` is their conjunction with `UnlistedIsClean` and `TakersAreData`. The
  proof works scid by scid: `SlotInv(s)` depends only on the slot and the thread of `s`
  (`SlotFrame`), and each action touches one scid.
* `SlotsPointToThreads`, `OnlyTerminatedDeleted`, `DataModeHasConnection` for a host
  that waits, without option 9. `ThreadsInv` adds that each thread that returned is in the queue
  or with the reaper at most once (`QueuedAreDone`), so that a deletion cannot meet a live thread.
  For the mode, `DataModeHasConnection` says that data mode lasts no longer than the thread of the data-mode socket, from its connection to the announcement of its end, whatever
  closers come between its writes. It needs that `g_isAutoconnected` is set only during the first part of that time (`AutoLive`), as AT+SDATA goes by it, and that only data-mode threads
  come to the second and third write (`TakersAreData`). The thread cannot end in data mode: the announcement resets it unless `g_isAutoconnected` is set, and by then it is not.
* `ReturnedThreadsAreQueued`: `ReturnedIsQueued`, if the queue has a place for each scid (`QueueLen >= MaxScid`; 20 and 8 in the firmware). The push does not wait, and nothing would repeat it. The
  messages are for different scids, none of them that of the thread which is about to push, so there are fewer of them than scids (`RoomForExit`, a pigeonhole argument). This is the safety half of
  `ThreadDeleted`; the other half is that the reaper runs.
* `MarkedServersAreClosing` for every host: `MarkedIsClosing`. AT+SMGMT marks first and closes in a loop, in which socket threads do not wait. The proof follows
  the mark scid by scid (`MarkInv`): until the loop has passed the scid (`Pending`) its socket may be anything; when it passes, the socket is gone, and a thread cannot make a new one before it has
  cleared the slot, mark included. This is the safety half of `MarkedIsFreed`.
* `SsendGoesNowhereElse` for every host: `SsendMissesToData`. While AT+SSEND waits, only a data-mode connection sets `g_currentScid`, and it has scid 0 (`SafetyInv`).

`SerialBridge_proofs` proves, for every interleaving (also with overlap and reuse):

* `BridgeTypeCorrect`: `TypeOK`, with the bounds of `g_auto_esc` and `g_scTxIndex`. What types alone do not say is why a fourth plus
  is not counted (`idx` is below 3 at `count`) and why the buffer never exceeds a packet by two (then somebody has the
  mutex): `SharingInv`.
* `MutexGuardsTransmission`: `OneTransmits`.
* `TransmissionComes`: `FlushOnTheWay`, inductive beside the types: each alternative passes into the next one.
* `PlusesNotForgotten`: `PlusesWatched`. The main thread counts a plus and starts the timer while the worker may be anywhere in its handler; what makes it hold is that the handler stops the timer
  before it passes the pluses on and that the count is reset only afterwards. It is the safety half of `PlusesDecided`.

`SerialBridgeStream_proofs` proves for `~Overlap` and `~Reuse`:

* `BridgeKeepsStream`: `StreamKept`, the refinement. The invariant `OwedInv` says that the owed bytes are the buffer followed by
  `Held` bytes in the hands of a thread: pluses, the last of which may be the byte that ended them (`LastHeld`). It needs
  `LoopInv` (what the loops have left to do) and `ModeInv` (bytes are held in data mode only, so that none is dropped).
  Host steps append to the owed bytes, a flush takes exactly the buffer from their front, and an escape removes three pluses from their end.
* `DataModeEndsByEscape`: `LeavesOnEscape`, from the same invariant.

`Sdpcm_proofs` proves, for every window, width of the counters and length of the queues:

* `SdpcmTypeCorrect`: `TypeOK`.
* `ChipAlwaysHasRoom`, `CreditsAreAccepted`: `ChipHasRoom`, `CreditsAccepted`. The argument (`CreditOrder`) is one chain around the circle of numbers: counted from the
  chip's number, what the host has sent comes first, then the last credit, then the credits under way in their order, and none is further than the chip has buffers
  free. "Further" is a difference modulo `SeqMod`, which a step changes by one without wrapping as `Window <= MaxDiff < SeqMod`. A frame
  whose transfer fails moves `seq` only, which keeps the chain.
* `SleepsOnlyIdle`: `SleepsIdle`: a set status bit has raised the semaphore (`StatusWatched`), a waiting frame has set the bit or is about to be
  read (`FramesAnnounced`), and so for senders (`SendersNotified`).
* `PokesBringCredits`: `PokeHelps`. While no frame was lost the chip expects the host's next number, whatever was read as a credit, and the thread polls only when credit and number are equal
  (`PokeInv`). Hence what the chip grants is ahead of the credit by as many as it has buffers, at most `MaxDiff`. A garbled credit is repaired as soon as the host waits for
  one. It is the safety half of `QueueMoves`, and the reason why that needs `~lostTx`.

`Ioctl_proofs` proves, for any number of callers:

* `IoctlTypeCorrect`: `TypeOK`, with at most one caller at work.
* `ResponsesAreLive`: `ResponseLive`. A semaphore count of one stands for one reply in the global variable, and no reply can follow before the caller has read it.
* `OwnRepliesAreKept`: `OwnReplyKeptInStep`. As long as nothing is lost, the channel and the semaphore hold one more reply than are to be ignored while a caller waits (`Count`), and its own is the last (`OwnIsLast`).
* `SemaphoreInSync`: `InSync`, from the same invariant: what the comment at SDPCM.c:607 calls "in sync", exactly. No run checks `OwnReplyKeptInStep` beside it: a channel that is in step and ends with the caller's own
  reply has nothing to ignore when that reply comes first.

`Dct_proofs` and `Profile_proofs` prove, for any sections, values and writers:

* `TableIsNeverLost`, `TableIsAtomic`: `NeverLost`, `Atomic`. While nothing is unsafe, one writer is at work; the copy it reads from stays valid until it is retired, and by then the other one is complete and
  holds exactly what was asked for. Until a new copy 2 is read nothing changes for readers (copy 1 comes first), and copy 1 takes effect as soon as it is complete: `Stored` changes in one step.
* `ProfileUsesTable`: Profile's steps are steps of Dct, so that its invariants hold in Profile (`DctTypeCorrect`, `ProfileTypeCorrect` are the types).
* `SettingsAlwaysAgree`: `SettingsAgree`. `Halfway` names, for each place of the main thread, which of the two sections already holds the value in `ram`.
* `UpgradeStartsOnce`: `UpgradesOnce`, from `Stored.func` being `ota` only while an upgrade is due.

`Mqtt_proofs` proves, for every size of the queue and the session and for connections that hold any number of frames and events:

* `MqttTypeCorrect`: `TypeOK`.
* `MqttDeliveredOnce`, `MqttCompletedIsDelivered`: `DeliveredOnce`, `CompletedIsDelivered`. What a frame means depends on the exchange it belongs to, and the broker reuses
  identifiers: a PUBREL before a PUBLISH in the connection is one of the exchange before. The invariant (`Good`) says for each state of the broker which frames may be left in both directions, in
  which order, and whether the session holds the identifier. A session item stands for a received message only if it is the first of its identifier
  (`RecFirst`), which is why both theorems need that no item is mistaken for another; `DeliveredOnce` also needs room in the session.
* `MqttImplementsOnceDelivery`: `ExactlyOnce`, the refinement of OnceDelivery. `Good` says of every packet that may be in a connection to which stage its exchange has come, so that each step that delivers,
  releases or completes is that step of OnceDelivery, and a packet of an earlier exchange is none of them. `Once` adds that a connection starts with nothing delivered.
* `MqttDoneIsAnswered`: `DoneIsAnswered`. At most one request is on its way, in the queue, to the broker or back (`OneLeft`), and its event comes when none is left (`OwnEvent`). This rests on
  two things in the code: a command that fails drops the connection and the queue, and Mqttmain does not run while the main thread may be woken.

Every safety invariant, action property and refinement that a passing run checks is a theorem. `DeliveredOnce`, `CompletedIsDelivered` and `OwnReplyKeptInStep` are theorems only: the runs check the stronger
`ExactlyOnce` and `InSync` in their place (`CompletedIsDelivered` alone says something of a session that is full).

Only model-checked: the liveness properties `ThreadDeleted`, `MarkedIsFreed`, `BytesLeave`, `PlusesDecided`, `QueueMoves`, `CallsAnswered` and `ExchangeMovesOn` (fairness and ENABLED are beyond the
prover; `ReturnedIsQueued`, `MarkedIsClosing`, `FlushOnTheWay`, `PlusesWatched`, `PokeHelps` and `InSync` are the invariants behind the first six), and that the three violated statements fail.

## Order of the work, and what is left

1. **SocketTable** with its proofs, **SerialBridge** with **ByteStream**, the refinement and its proof.
2. **Sdpcm** and **Ioctl**, **Dct** with **AtomicStore** and **Profile**, with their proofs.
3. **Mqtt**, with its proofs.

Left, in the order of what they would add: the receiving direction of the serial bridge (NetRx, StatusNotify and the UART mutex); air commands and the
main queue they pass through; the send loop of AT+SSEND with its 8-bit retry counter; joining a network and the stored connection after a link-up; the hand-over of a request to a
new socket thread, which rests on a delay of 100 ms and needs a model with time; the ring buffer of the UART and the system monitor.

## Not modelled

The repository is an SDK of which the firmware is a small part: of its 2801 files most are
third-party, prebuilt or generated: compiler headers and libraries (`Tools/ARM_GNU`), two RTOSes with
ports to many processors, several TCP/IP stacks, processor headers and drivers, and the firmware image of the Wi-Fi chip as an array. The application, the bootloader and the
WWD core are about one twentieth of the lines, and much of that is parsing and printing of commands. Modelling a noticeable share of all lines is therefore neither possible nor useful; the
map names what is modelled.

Not modelled as components: third-party and prebuilt code (ThreadX, NetX, LwIP, drivers, TLS), whose effects are external definitions of the modules that use them; the SDK's daemons and protocol
libraries, which the firmware uses unchanged; other applications of the SDK; the GMMP library of one customer's
build; the firmware commands, which are I/O; air commands, the main queue and housekeeping, whose effects on sockets are in SocketTable as steps
that may happen at any time; the factory restore of the bootloader, which erases the table before it writes it anew. Message texts, parsing of parameters, and values of
addresses are abstracted. PROJECT.json lists every component with its status.
