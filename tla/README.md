# rwifi in TLA+

Specifications of rwifi, the Wi-Fi manager and the TCP and UDP clients for ESP32
and ESP8266 devices, with the configurations that check them with TLC and proofs
checked by TLAPS. Paths below are relative to the repository
(`src/source/main/cpp` is abbreviated `cpp`).

## The system

An application owns one Wi-Fi manager and any number of clients, and calls their
`tick` functions from its main loop. Nothing blocks and nothing has a thread of its
own, except that on the ESP32 the driver's event-loop task runs beside the
application's.

    driver / event task --push_event--> event ring --poll_event--> Wi-Fi manager core
                                                                        |
                                       wifi_link_state_t (connected, generation)
                                                                        |
                 peers <--socket--> TCP client, UDP client <------------+
                                        |  acquire / commit / abort
                                     plugins (download, message) --> user callbacks

| component | source | state | operations |
|---|---|---|---|
| Wi-Fi manager core | `cpp/c_wifi_mgr_core.cpp` | connection state, back-off and wait, time of the last attempt, fast-connect flag, cached link parameters, generation | create, destroy, activate, deactivate, tick, getters |
| platform adapters | `cpp/c_wifi_mgr_esp32.cpp`, `..._esp8266.cpp` | ring of 8 events, latest link parameters, what it holds of the driver (interface, event loop, handlers) | init, shutdown, start, stop, connect, disconnect, poll_event, get_link_info, load and save the cache |
| TCP client, connection | `cpp/c_tcp_client.cpp` | enabled, state, back-off, time of the last attempt, link last seen | setup, connect, disconnect, tick, send |
| TCP client, receive loop | same | plugins, the buffer acquired and how much of it is filled | register, unregister, s_poll_connected |
| UDP client | `cpp/c_udp_client.cpp` | enabled, bound, link last seen, plugins | setup, bind, unbind, register, unregister, tick, send_to |
| download plugin | `cpp/c_tcp_client_plugins.cpp` | headers of the download and the block, blocks received, target buffer | acquire, commit, abort |
| message plugin | same | target buffer of one message; may be registered with a TCP and a UDP client | acquire, commit, abort |
| legacy facades | `cpp/c_wifi_mgr_*_legacy.cpp` | one core and one adapter | create with its undoing; forward every other call |
| socket shims and mocks | `cpp/c_*_espressif.cpp`, `cpp/c_*_mock.cpp` | none | one library call each |
| former manager | `cpp/c_wifi_mgr.cpp` | - | compiled out (`&& 0`) |

What is hard here, and what must hold all the same:

- **The event task against the tick** (ESP32). Events arrive between any two polls
  of a tick and between the last poll and the switch; the ring may be full; the link
  parameters are copied without a lock. The manager must end up agreeing with the
  station, and the parameters it saves must be those of the link.
- **Late and stale events.** Events outlive the attempt, the activation and the link
  they are about. The manager's state alone decides what they mean.
- **Links that change unnoticed.** A client sees the link only when it is ticked. A
  link lost and obtained again in between must not leave it on an old socket.
- **Retries.** Back-offs with jitter, on two levels, must stay in their bounds, must
  not be skipped, and must not end for ever; the clients' clock wraps.
- **Bytes that arrive when they like.** A message is split anywhere, or followed at
  once by another; a datagram lies about its size.
- **A connection that ends anywhere**, also in the middle of a download, with a
  user's buffer in the plugin's hands, or that goes on after a message was aborted or could
  not be read; and one plugin that two clients drive.
- **A driver call that fails** at any point of an init: nothing may be released twice,
  and the event task must find the interface its handler asks.
- **A manager that starts over.** Generations begin at 0 again under clients that live on.
- **Power cycles**, also during a save to the EEPROM.

`PROJECT.json` lists these hazards at their lines.

## The modules

| module | what it is | where its steps come from |
|---|---|---|
| `EventFifo` | `Offer`: pushing on a bounded queue | `push_event` |
| `LossyQueue` | abstract: a bounded FIFO that loses the newest event when full | - |
| `EventRing` | the array, the two indices and the count | `push_event`, `adapter_poll_event`, one critical section each |
| `WifiAdapter` | the life of adapters and cores around that ring: init and shutdown, driver call by driver call, on both platforms | `adapter_init`, `adapter_shutdown`, `create_...`, `destroy_...`, the facades |
| `LinkState` | abstract: what a client may rely on about the snapshot | `wifi_link_state_t` |
| `WifiManager` | the core, with the driver, the EEPROM and power as its environment | `c_wifi_mgr_core.cpp`, the event handler of the ESP32 adapter |
| `WifiRetries` | `WifiManager` with a history of requests and addresses | - |
| `TcpClient` | the connection state machine | `tick_tcp_client`, `connect`, `disconnect`, `send` |
| `TcpReceive` | the receive loop on a stream of messages | `s_poll_connected`, `s_abort`, the registry |
| `UdpClient` | binding and the packet loop | `tick_udp_client`, `s_read_packet`, `bind`, `unbind` |
| `DownloadPlugin` | the assembly of a download | `download_acquire_fn`, `download_commit_fn`, `download_abort_fn` |
| `MessagePlugin` | one target buffer, two clients | `message_acquire_fn`, `message_commit_fn`, `message_abort_fn` |
| `Plugins` | both plugins, fed from one user's buffers | - |
| `*_proofs` (eight) | theorems and proofs about the module of that name | - |
| `MC*` | constants and symmetry for TLC | - |

How they fit together. `EventRing` implements `LossyQueue`; `WifiManager` therefore
takes its events from a sequence and pushes with the same `Offer` as `LossyQueue`.
`WifiAdapter` extends `EventRing`: the ring is the one an adapter is created with, its
producer is the driver and its consumer the core, each only while the handlers or the
core are there; it implements `LossyQueue` all the same. `WifiManager` implements
`LinkState`; `TcpClient` and `UdpClient` therefore take their link from `LinkState`'s
actions `Up`, `Down` and `Reset` (a new manager) instead of a whole manager.
`TcpClient` keeps of the receive loop only whether a message is half received;
`TcpReceive` models the loop and keeps of the connection only that it ends and is
made again. `DownloadPlugin` is driven by what `TcpReceive` does with a plugin: acquire, then commit,
whether the payload was read or not, or abort, at the end of the connection
(`AbortAtEnd`) or on one that goes on (`AbortAndGoOn`), and nothing when the connection
ends between messages. What lies on the socket after an abort or a failed read is
`TcpReceive`'s subject; here any messages may be missed then (`MissMessage`) until the
next INFO that is read.
`Plugins` puts it beside an instance of `MessagePlugin`, so that a buffer that one hands
back is the next the other gets.

Names follow the code: variables with `m_` are its members, actions carry the names
of its functions, and the branches of `tick` are `Tick...` actions. Variables marked
*ghost* record what the properties need and influence nothing.

### Granularity

- `WifiManager`: a tick is several steps (`TickStart`, one `PollEvent` per event,
  `EventsDrained`, the switch), and the driver moves between any two of them. The
  clock is read once at the start of a tick, so time passes only between ticks. The
  GOT_IP handler is two steps, because it refills `m_link_info` before it pushes the
  event: `LinkInfoReads` lets a copy taken meanwhile be blank, torn or complete.
- `TcpClient`: one step per call. Everything runs in one thread and no callback
  re-enters the client. Only the socket, the clock and the link move by themselves.
  A tick that comes too early is a step, too (`TickTooEarly`): it changes nothing but the
  ghost `ticked`, by which `NoStaleSocket` speaks of the states after every tick.
- `TcpReceive` and `UdpClient`: one step per iteration of their loops, since bytes
  and datagrams arrive between the iterations.
- `WifiAdapter`: one step per driver call of an init or a shutdown, since the event
  task runs in between and each call of an init may fail.
- `DownloadPlugin`: one step per callback.
- `MessagePlugin`: one step per message that is there whole, since the client goes from
  acquire to commit without letting go of the thread; of a message of which a part is
  there, acquire and abort are two steps, and datagrams come in between.

### Abstractions

Link parameters are one value per access point, plus `Blank` (zeroed, or failing the
CRC) and `Torn`. Messages are their sizes, datagrams their size, whether the magic
fits, the announced payload and a type. Addresses, ports, RSSI, MAC and logging are
left out. In `WifiManager` the age of the last attempt saturates at `MaxAge`, above
every time-out; in `TcpClient` the clock is a counter modulo `ClockMod`, as the u32
of the code is modulo 2^32. A generation is taken modulo `GenerationMod`.

A driver's report is modelled with its order: a GOT_IP of a new link comes after the
report that the previous one is gone (the event loop delivers in order), and closing
a link that was up is always reported. In `LinkState` as the clients see it, a new
manager comes up only after the clients that are enabled were ticked and saw the link
down: it starts INACTIVE and needs ticks of the same main loop (`README.md:34`) to connect.

`WifiAdapter` counts what is held of each of the driver's resources and records in
`leaked` what an init that failed had taken by then. `TcpReceive` lets any read of a
header fail and any read of a payload fail or fall short; `cut` names the messages whose
payload was not read to the end. Two assumptions are made there. A read of a header, of
which the client asks no more than the socket said it has, takes all of it or fails and
takes nothing: the code tests for a negative result only. And a buffer that was acquired is
not null: `s_abort` skips a null one, which only a block at offset 0 of a download whose
user refused can have, and for which there is nothing to hand back. The
variable `paced`, which never changes, says whether the peer sends whole messages and
waits for each to be taken: one run has both peers.

`DownloadPlugin` records in `unread` that a message of the download was committed though
its read failed, in `missed` that one was aborted on a connection that goes on, or missed, or
that the INFO was not read, and in `cut` the buffers of downloads that were cut short
without the plugin being told. A read that fails or falls short may leave what was there before: the
total of an earlier download, the place of an earlier block.

## Runs

Each run finishes within three minutes.

| run, configuration | checks | bounds |
|---|---|---|
| `ring`, `MCWifiAdapter` | types, `CountersAgree`, `WrittenSlots`, `Balanced`, `HandlersServed`, `StationOwned`, implements `LossyQueue` | 5 slots, both events, both platforms, 2 failed inits |
| `wifi`, `MCWifiRetries` | types, `WaitInBounds`, `LinkAgreement`, `CacheIsCurrent`, `EveryIpCounted`, `RetryPaced`, `FastOnlyFirst` | 2 slots, back-off 2..3 with 75% jitter, 2 access points (symmetric), generations modulo 3 |
| `wifi_live`, `MCWifiManager` | implements `LinkState`, `ConnectingEnds`, `Recovers` | 2 slots, back-off 1..2, one access point, generations modulo 3 |
| `tcp`, `MCTcpClient` | types, `BackoffInBounds`, `HeldOnlyConnected`, `SendsOnKnownLink`, `NoStaleSocket`, `AttemptPaced`, `StableLinkConnects` | clock modulo 11, jitter 3 (odd, so that halving it rounds), 3 generations |
| `receive`, `MCTcpReceive` | types, `EveryMessageAccounted`, `BufferNeverForgotten`, `PacedFramed`, `PacedReturns` | 4 messages of 0 to 2 units, headers of 2 units, 2 plugins that answer differently, peers that wait and peers that do not |
| `udp`, `MCUdpClient` | types, `BoundOnLink`, `Drained`, `ReadsCurrentLink`, `TickReturns`, `Rebinds` | 7 kinds of datagram: every way a header can be wrong, and right ones; 2 plugins, 2 packets a tick, 3 generations |
| `plugins`, `MCPlugins` | types, `BuffersReturned`, `MessageBuffersReturned`, `CompletesWhole`, `CompletesInTime` | 3 blocks, counts modulo 5, 3 buffers (symmetric) |

What they show. `Balanced` and `HandlersServed` hold however often inits fail, but for
the one loss they name: what an init had taken when it failed stays taken, because
`adapter_shutdown` returns at once for an adapter that is not initialized; on the ESP32
that includes the handler for Wi-Fi events when registering the one for addresses fails.
`SendsOnKnownLink` is as much as `send` can promise, which looks at the state only: a
socket may be written whose link was lost since the last tick. `PacedFramed` and
`PacedReturns` are the assumptions under which the receive loop works. Five
properties name the cases in which the code does not keep what they promise:

- `NoStaleSocket`: disconnect() leaves the socket of an attempt (`c_tcp_client.cpp:324`). If
  a new manager then brings a link up under the generation the client has noted, before
  the client is enabled again, its ticks see no change of link (`:67`), and while they are
  too early for an attempt (`:82`) that socket stays open. It is neither read nor waited
  for, and the next attempt stops it.
- `CompletesWhole`: the result of the payload read is ignored (`c_tcp_client.cpp:209`), so a
  block that was not read is committed and counted, and the download may complete with a
  hole. Without a failed read it is whole, whatever was aborted or missed.
- `CompletesInTime`: after an abort on a connection that goes on (`c_tcp_client.cpp:178`,
  `:198`) the peer sends the rest of the download. The aborted block is never counted and
  the buffer was handed back, so the last block completes nothing, or another block
  completes the download without a buffer. If blocks could not be read but no
  message was missed, it completes in time.
- `BuffersReturned`: the plugin is not told that the connection ended between two messages
  of a download, or that one was missed; nor does it know that an INFO was not read. The
  next INFO forgets the buffer.
- `MessageBuffersReturned`: the plugin is asked for another message while the TCP client
  holds a half received one.

Why the bounds are enough. Two slots let the ring be empty, partly filled, full and
overflowing, and hold two opposite events; the ring itself is checked with five and
proved for every capacity. The back-offs grow, hit their cap and are clamped on
both sides by the jitter. A clock of eleven wraps several times within the waits of
one behaviour. Three generations let a link change twice between two ticks. A header
of two units can be cut in the middle, and payloads of 0, 1 and 2 units are empty,
indivisible and divisible. With three buffers each
plugin can hold one and lose one. A count modulo 5 wraps around when the INFOs of downloads
of three blocks are missed. Two failed inits let a resource be lost twice.

### What the code and its documents disagree about

These runs end in a counterexample on purpose.

| configuration | property | what happens |
|---|---|---|
| `MCTcpClientDisconnect` | `DisconnectCloses` | `README.md:20`: "disconnect() to close the connection". While CONNECTING the socket is not stopped and opens later. |
| `MCTcpReceiveParts` | `NeverMisframed` | `c_tcp_client.cpp:147`: the body "may be received in multiple parts". The second part is read as a header. |
| `MCTcpReceiveBlocks` | `TickReturns` | `README.md:3`: "designed to be non-blocking". After a message was taken, anything that is left on the socket keeps the loop running without reading. |
| `MCTcpReceiveScan` | `AllPluginsConsulted` | `README.md:12`: acquire is called to learn "which plugin will handle the message". The first plugin's refusal ends the tick. |
| `MCPluginsAbort` | `AbortHandsBack` | `README.md:15`: abort lets the plugin "clean up any resources it has allocated for the message", and `README.md:52` registers the plugins with a UDP client too. A datagram that comes while a TCP message is half received makes the plugin forget that message's buffer, and the abort hands the user a null pointer. |

`NeverMisframed` and `TickReturns` are stated for connections on which no read of a
payload failed, so that the counterexamples need no failure. For a peer that sends whole
messages and waits for each to be taken both questions have the good answer (`PacedFramed`,
`PacedReturns` in the `receive` run).

Three more disagreements need no search. An address obtained while the ring is full never
advances the generation, although `README.md:32` says that it "advances every time Wi-Fi
obtains an IP address"; `EveryIpCounted` therefore asks that no report was dropped. And
`download_commit_fn` ignores a user who refuses a buffer, so that the blocks that follow
are acquired at a null pointer plus their offset; `CompletesWhole` leaves that case out.
And the result of the payload read is ignored, so that a message whose read failed is
committed, although `README.md:14` has commit called for the entire message;
`EveryMessageAccounted` leaves the messages in `cut` out, and `CompletesWhole` the
downloads in which such a message was committed.

### Fairness

- `WifiManager`: the application keeps ticking (`WF` on the tick), time passes
  between ticks (`SF` on `Elapse`, which a tick disables), the driver ends the handler
  it is in and reports a link that was closed, and a driver that is asked again and
  again accepts a request in the end. Nothing is assumed about answers, so that
  `ConnectingEnds` rests on the time-outs alone. `Recovers` names what no code could do
  without (`JoinsSucceed`): joins stop failing, and a station that joins again and again
  obtains an address in the end.
- `TcpClient`: the same for its tick and clock. Since the clock wraps, `Passed` is
  true for a window and then false again: strong fairness on the ticks that test it
  says that the application ticks more often than once in 49 days. A socket that is
  asked to connect again and again opens in the end.
- `TcpReceive` and `UdpClient`: the processor goes on executing the loop it is in,
  and nothing more, which is what `PacedReturns` and `TickReturns` rest on; `Rebinds`
  adds ticks and a socket that binds in the end.

## Proofs

All theorems hold for every value of the constants that satisfies the named
assumptions of the modules. Those say that the bounds make sense (an initial back-off
that is positive and not above the maximum, a jitter whose half fits below the initial
back-off and above it, a clock wide enough for the waits) and that distinguished
values are distinct.

**EventRing.** `RingCorrect`: types, `CountersAgree` and `WrittenSlots` together, which
is inductive once it is known where modular arithmetic sends a slot; the lemmas on
`%` come first. `RingImplementsQueue`: a push appends to `Pending` and a poll removes
its head, for which the proof compares the slots that the two indices designate before
and after the step.

**WifiAdapter**. The ring: only creating an adapter, a poll and a report touch it, so
the lemmas about a push and a poll carry `CountersAgree`, `WrittenSlots` and the refinement
of `LossyQueue` through the whole life of adapters. The driver's resources: `Balanced` speaks
of the moments between two calls of the application only. `DriverInv` says what is held
in the middle of an init or a shutdown: the resources of a stage are those the calls that
are left have still to take or to release (`Stages`), and each is held at most once, plus
once for each init that failed holding it (`Counts`). `AdapterHandlersServed` reads off it
that the handler is registered after the interface was created and unregistered before
it is destroyed. `AdapterStationOwned` needs that a core that is being destroyed was
deactivated first.

**WifiManager**, in four layers. `RangeInv` gives `TypeCorrect` and `WaitsCorrect`:
`m_backoff_ms` need not reach the initial back-off, but every wait does, because the
clamp comes after the jitter. `LinkAgreement` alone is not inductive: it says nothing
while something is in flight. `Wiring` adds what is true then: who is active,
that a station whose notice is outstanding is not up, and that one whose GOT_IP handler
is running without a notice is. Together they are `LinkInv`, and its proof
has one step per action. `CacheFollows` rests on the types only, since what is saved
is `m_link_info` itself. `ManagerKeepsContract`: every step either obtains an
address, and then advances the generation by one, or leaves the generation alone and
does not come up, or is a power cycle; `Activate` and the rest stutter or go down.

**WifiRetries**. `Paced` ties the history to the manager's state: whoever is back in
DISCONNECTED after a normal request has been in BACKOFF, where `pace` is at least the age of
the back-off, and a wait is at least the initial back-off (`WaitInBounds`); a fast connect
that is still wanted in DISCONNECTED was never tried. `EveryIpCounted` is inductive, given
the ranges. Its proof needs that a sum may be reduced modulo `GenerationMod` before
something is added to it, and how many addresses a queue holds after a push and a poll: the
places of the rest of a queue are in bijection with those of the queue but the first.

**TcpClient.** One inductive invariant, `Inv`: the types, `BackoffInBounds`,
`HeldOnlyConnected`, `SocketOnLink` and `ClockIsTrue` (the time since the last attempt
is what the wrapped clock says as long as it has not saturated). `SocketOnLink` says that
while the client tries or uses a socket, either the socket is of the link that is up or the
client's next tick will notice. It holds also when a new manager starts counting over: the
generation the client has noted cannot come up again unnoticed, because a manager that was
reset is ticked before it comes up, and with it the clients that are enabled, which find
the link down; one that is not enabled neither tries nor uses a socket. From `Inv` follow
the other invariants of the run and the action property `AttemptPaced`. `NoStaleSocket` needs
`Noticed` as well: since its last tick, too early or not, an enabled client has seen the link
as it is, and a socket that is open while the client neither tries nor uses one was left
by disconnect(). That the back-off never wraps below zero needs `BackoffInBounds`
itself: the doubled back-off is at least twice the initial one before half the jitter is
subtracted.

**UdpClient.** The same argument about generations gives `BoundOnLink`, together with what
a tick that was entered knows of the link (`Wired`); `ReadsCurrentLink` follows because a
link does not move within a tick. `Drained` rests on one lemma, `ReadIterates`: on every path
through `s_read_packet` what was read and what is discarded add up to the datagram.

**Plugins.** `Assembly` relates the count of received blocks, the blocks written and the
message the peer is at, whatever was cut off before. Unless a message was missed, the blocks
below the current one are counted; unless one was not read either, they are written, in the
buffer of this download. Once a message was missed the plugin has no buffer, or one that is
in `cut` already. From it follow `CompletesWhole` (lemma `Written`) and `CompletesInTime`
(lemma `Counted`). The two `BuffersReturned` are inductive given the
types and, for the message plugin, that the null pointer is never owed (`MessageInv`).

**TcpReceive.** Where a message starts is a sum over the sizes of the messages before it.
What the proofs need of these sums (the recursive definition has a solution; positions
grow; no message starts inside another; reading one message adds exactly that one to what
was read) is by induction, stated as the least number principle (`LeastElement`): a set of
positions that fail would have a least one. The invariant is `Framing` beside
`EveryMessageAccounted`. Neither is inductive alone: what keeps a new header from overwriting
a buffer is that a message held starts before the position of the client and ends after it,
so that no header is read *in step* while it is held (`NothingHeldAtStart`). A header that is
read out of step makes `framed` false for good, and both hold emptily then. For a peer that
waits, `Pace` says what lies on the socket: nothing, or one message of which nothing was
taken, or the payload of a refused one. From it follow `PacedFramed` and `TicksBounded`.

The safety halves of the liveness properties. Six theorems say what remains of a liveness
property when fairness is taken away: what was reached is not given up, or a measure
bounds the way.

| theorem | belongs to | says |
|---|---|---|
| `WifiManager_proofs`, `SettledStays` | `Recovers` | a connected manager that was told nothing else stays so until the link is lost, given up or the device restarts |
| `WifiManager_proofs`, `AttemptsTimed` | `ConnectingEnds` | nothing sets the clock of an attempt back, and no tick lets it go on after its time-out |
| `TcpClient_proofs`, `ConnectionsKept` | `StableLinkConnects` | a connection on the link that is up ends with the socket, the link or `disconnect`, never by a tick |
| `UdpClient_proofs`, `BindingsKept` | `Rebinds` | the same of a bound socket |
| `UdpClient_proofs`, `TicksBounded` | `TickReturns` | a tick ends after at most `PacketsPerTick` datagrams |
| `TcpReceive_proofs`, `TicksBounded` | `PacedReturns` | each iteration ends the tick or takes something off a socket on which nothing arrives meanwhile |

These six are stated in the modules of their proofs; no run checks them.

Model-checked only: the liveness properties themselves (`PacedReturns`, `ConnectingEnds`,
`Recovers`, `StableLinkConnects`, `TickReturns`, `Rebinds`), since liveness under fairness is
out of the prover's reach. Every invariant and action property of the runs is proved.

## Not modelled

- The socket shims and mocks, which are one library call each; `c_wifi_mgr.cpp`, which is
  compiled out; `c_ethernet.h`, which declares functions nobody implements.
- `send_later`, a stub; `send_to`, which keeps no state, and the endpoint it answers to,
  a copy of what the socket said of the latest datagram.
- The getters for the RSSI, the IP and the MAC address.
- The lifetime of plugins: `destroy_...` only frees, and a plugin that is destroyed while
  a client still holds one of its messages is the application's affair.
- A second core on the adapter of an earlier one is in `WifiAdapter`, where it is seen to
  poll the events the earlier one left, since shutdown does not empty the ring. No doc says
  what it should do, and `WifiManager` starts each time with an empty queue, as the facades do.

## What could follow

1. `WifiSystem`: the manager and both clients in one main loop, to check
   `NoStaleSocket` and `ReadsCurrentLink` end to end instead of by way of `LinkState`.
2. `TcpSession`: the connection and the receive loop composed, showing that
   `TcpClient`'s `holding` is what `TcpReceive` does.
