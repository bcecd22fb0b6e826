# Verification of streamf

streamf forwards streams: it accepts connections over one transport (tcp, unix,
tls, http, websocket, an in-process pipe, a portal, udp) and joins each of them
to a connection that a dialer makes over another. This directory models what the
program does between its goroutines, checks the models with TLC on small
instances, and proves the most important facts for every instance with TLAPS.
Paths are relative to `src/`.

## 1. Inventory

| Component | State it keeps | Operations | Meets |
|---|---|---|---|
| basic, websocket dialer (`dialer/basic.go`, `dialer/websocket.go`) | the `done` channel, a flag | `Connect` (one worker goroutine per call, retries, deadline), `Close` | its callers; a rawDialer |
| http dialer (`dialer/http.go`, `internal/httpmux/http.go`) | the same, and for each attempt a request goroutine and its context | `Connect` through `ConnectHttp`, `Close` | the http client |
| socks dialer (`dialer/socks.go`) | the `done` channel, which it does not read | `Connect` (one dial in the goroutine of the caller, deadline), `Close` | a library |
| udp dialer (`dialer/udp.go`) | for each connection a socket, a pipe, the frame that is being read, an idle timer | `Read` with frames, `Write` through the pipe, `run`, the timer, `Close` | the bridge that uses it |
| bridging (`internal/network/bridging.go`, `internal/ioutil`) | a channel of capacity one between three goroutines | `Bridging`, four copy loops | two endpoints |
| udp forward (`internal/udp/udp.go`) | the map of sessions, and each session's socket, ticker and two goroutines | `Serve`, `Close`, `run`, `timer` | the network |
| udp listener (`internal/network/udp.go`) | the dispatcher's map, the queue of each session, pooled buffers, pipes and idle timers | `Accept`, `Read`, `Write`, `run`, the timer, `Close` | a basic listener, the pool |
| http listener (`listener/http.go`, `http_listener.go`) | the routes; for a portal route a listener that its handlers offer to | handlers, `Accept`, `Close` | portals, bridging |
| basic, portal listener (`listener/`) and bridges (`bridge/`) | a dialer and a listener, a flag | `Serve`: accept, back off, connect, bridge; `Close` | dialers, bridging |
| network registry (`internal/network`) | names of pipes and portals, dialers that wait for one | `Dialer`, `Listen`, `NewPortal` | every dialer and listener |
| application (`forwarding/application.go`) | arrays of everything built | `NewApplication`, `Serve` | all constructors |
| sniproxy (`sniproxy/`) | the routes by server name; for each connection what was read of it | `Serve` as above, after sniffing against a timer, routing, replay; `Close` | dialers, bridging |
| pool (`pool/pool.go`) | free buffers | `Get`, `Put` | udp listener, bridging |
| http mux, configuration, logger, API, program, websocket library | tables that are filled before they are read; input and output | | |

### What is hard here

* **A result that changes hands over an unbuffered channel.** `Connect` and
  `ConnectHttp` both start a goroutine, and both sides may leave first. A
  connection must end on exactly one side (`dialer/basic.go:129-178`), and the
  context of an http request must outlive the context of the call it was made
  for (`internal/httpmux/http.go:20`).
* **Two directions, one close.** A bridge ends with its first direction, but not
  at the expense of what the other one has still to deliver, unless the grace
  period says so (`internal/network/bridging.go:26-76`).
* **Sessions closed from three sides.** A session of a udp mapping is closed by
  the mapping, by its reader or by its timer, while `Serve` makes a new one for
  the same client (`internal/udp/udp.go:114-270`).
* **A dispatcher that waits for `Accept` while others wait for the dispatcher**
  (`internal/network/udp.go:160-270`), with pooled buffers whose owner changes
  with each step.
* **A response that is good only while its handler runs**, written to from the
  goroutines of a portal (`listener/http.go:403-504`).
* **Bytes that are read before it is known who they are for.** The sniproxy reads
  a name in one goroutine while another waits for it, for a timer and for
  `Close`; what was read must reach the route, and the reader must not stay
  (`sniproxy/listener.go:284-431`).
* **Datagrams over a stream that is cut anywhere**, through a pipe and a
  goroutine that may have ended, under an idle timer that only some traffic
  refreshes (`dialer/udp.go:177-287`, `internal/network/udp.go:205-388`).
* **A registry in which dialers are told of listeners that are made later**
  (`internal/network/network.go:40-160`), and a startup that fails half way.

`PROJECT.json` lists each hazard at its line, with the property that covers it
or the reason why none does yet.

### What makes each component correct

| Component | Correct means |
|---|---|
| dialers | a call is answered once; its stream is given or released; all retries are used, and stop with the caller but for one late dial; `Close` answers everybody |
| bridging | grace respected, nothing lost in order, both ends closed, both goroutines gone |
| udp forward | one open session for each client, and it is the one found; idle sessions end; `Close` ends all |
| udp listener | the same for its sessions; datagrams in order; every buffer freed once and not used after |
| portal routes | no handler returns under a write; none leaves a connection behind; none stays for nothing |
| datagrams over a stream | what goes in comes out whole, once and in order; an idle connection ends with its goroutines and frees its writer |
| relays (basic listener, bridges, sniproxy, dialer routes) | what is accepted is bridged or closed; the bytes of the client arrive from the first one on; a client that hangs up leaves nothing behind, if the dialed peer takes what it sent; `Close` ends the loop |
| registry, application | each name is resolved once, whatever the order; a failed startup closes what it opened |

## 2. Modules

### `Handoff`: what every dialer promises

For each call an answer and a stream. The stream is opened for a call, given to
its caller or released: never both, and with `Prompt` never neither.

### `Connect`, `MCConnect`, `ConnectProofs`: basic, websocket and socks dialer

| Variable | Code |
|---|---|
| `timed` | `d.timeout > 0`, fixed when the dialer is made |
| `inline` | the dialer is a `SocksDialer`, which dials in `Connect` itself |
| `done` | `d.done` is closed |
| `ctxDone` | the context of a call is done: deadline, caller or deferred cancel |
| `caller`, `result` | where the goroutine of `Connect` is, and what it returned |
| `worker`, `attempt`, `conn` | the goroutine with the retry loop, its `i`, the connection its dial made |

`Start` makes the context and starts the worker. `CallerClosed`, `CallerCtx`
and `Deliver` are the three cases of the caller's select; `Deliver` is one step
of two goroutines, as an unbuffered channel is. `DialOk` and `DialFail` end a
dial, `GiveUp`, `GoOn`, `Redial` and `Abandon` are what the worker does next. Go's
select takes any ready case, so the cases are disjuncts without priority; a
default (`GoOn`) needs that none is ready. The check between two dials and the
next dial are two steps, `GoOn` and `Redial`, and the caller may return between
them: `OneLateDial` says how much the loop can do for it then.

A socks dialer has no worker: caller and worker are one goroutine, `Deliver` is
the return of its dial, nothing but the context ends that dial early, and a
failed dial is not repeated (`Retries`), whatever its option `retry` says (section
6). `ErrorIsFinal` is therefore about dialers with a worker and claims nothing of
a socks dialer.

### `HttpConnect`, `MCHttpConnect`, `ConnectProofs`: http dialer

It extends `Connect`: the callers, the worker and `Close` are the same actions,
joined with the actions of `httpmux.ConnectHttp`, which adds to each attempt a
request goroutine (`request`), the context of that request (`cancelled`) and the
stream the request makes (`stream`). `ImplementsConnect == Spec` states that
with these variables hidden it is `Connect`, fairness included.

### `Bridging`, `MCBridging`, `BridgingProofs`

`fwd[f]` is a forwarder, which repeats `Read` and `Write`, ends on its first
error (`ReadEnds`, `WriteEnds`) and puts a value in the channel (`Signal`).
`main` is the goroutine of `Bridging`: `FirstDone`, then by the class of the
duration (`grace`) either straight to the closes, or through `Poll` to
`GraceElapses` or `SecondDone`, and then `Close1`, `Close0`. `peer` is the far side of an endpoint,
external: it sends, ends in order (`"eof"`) or goes away (`"gone"`). `http` says
that endpoint 0 is the request of an http handler, whose `Close` stops reads
only. The plain copy loop and the three websocket loops differ in framing only
and are one action each.

### `UdpForward`, `MCUdpForward`, `UdpForwardProofs`

`Serve` is `serve` with the client (`cur`) and session (`new`) it works on; a
session has a `stage` of closing, the goroutine that won its compare-and-swap
(`closer`), its reader (`run`) and its `timer` with a counter of `ticks`. The
lookup of `Serve` is a step of its own without the mutex, so that it can meet a
removal. That is a data race on a Go map; the model takes any of its outcomes:
the process ends (`fatal`), or the lookup sees the map before or after.
`ToNetwork` is the option of that name and `toNetwork` what `New` keeps of it.

### `UdpListener`, `MCUdpListener`, `UdpListenerProofs`

`reader` is `run`, `disp` is `onMessage`; between them the channel `msgs`, and
after the dispatcher the `queue` of each session. Datagrams are numbered in the
order of arrival. `freed` counts how often the buffer of each went back to the
pool, `held` is the datagram that a `Read` has begun. `Shut` and `ShutReturns`
are the two halves of a session's `Close`, with `DispatchClose` between them.

### `Datagrams`, `UdpStream`, `MCUdpStream`, `UdpStreamProofs`

`Datagrams` promises that what is taken comes out whole, once and in order while
both ends are open. `UdpStream` has one direction of two connections, one of the
udp listener (`udpToTcp`) and one of the udp dialer (`tcpFromUdp`), which have
the same halves: `Arrive` and `Read` put a length before each datagram and hand
out any part of the frame; `Write` takes any part of the stream (`chunk`) and
waits in the pipe while `run` collects first a length and then a datagram
(`buf`, `need`). `Tick`, `Signalled` and `Answer` are the idle timer and what
refreshes it: at a dialer every write, and no read. `side` says which of the two
is the near end. `taken` keeps the datagrams that are not empty, for the
refinement `ImplementsDatagrams`: those beyond `out` are underway. The liveness of
`Datagrams`, that what is underway comes out while both ends stay open, speaks
of behaviours in which the ticker is slower than the bytes: `Spec` does not
force the ticker, or it would close every connection. `IdleEnds` has the ticker
as its premise, `Ticking`.

### `Relay`, `MCRelay`, `RelayProofs`

The loops that accept, of the basic listener, the bridges, the sniproxy and the
routes of the http listener that lead to a dialer: `kind` says which. `loop` and
`closing` are `Serve` and the steps of `Close`, `Accept` starts a goroutine
(`serve`) for each connection. It calls the dialer, which is `Handoff` as
`Connect` and `HttpConnect` implement it, and bridges: of `Bridging` only what
its own runs show is used. `Forward` reads and begins a `Write`, which may stay
there (`writing`) until the dialed peer takes the data (`Written`); meanwhile
the forwarder sees nothing of its client. `BridgeEnds` is an end of the bridge
for any reason. At the sniproxy it first
starts the goroutine of `sniffSNI` (`sniff`), which reads the header and then
the body of a TLS record into `buffer`, while `serve` waits for it, for the
timer (`SniffTimeout`) and for `Close` (`SniffClosed`). `Forward` reads the
buffer first, as `sniConn` does. What a client sends is numbered.

### `HttpPortal`, `MCHttpPortal`, `HttpPortalProofs`

A portal route of the http listener. `handler` is the handler of a request: it
offers its connection and then, for the http kind, waits for the close of it.
`closed` and `doneCount` are `w.e` and the channel `w.done` of
`http2PortalWriter`, `writer` the goroutine of the portal that writes. The
portal itself is external and does whatever it is allowed to, in any order.

### `Startup`, `MCStartup`, `StartupProofs`

`NewApplication` with `Network.Dialer`, `Listen` and `NewPortal`. `entry` is the
three maps, `waiting` the two lists of dialers, `target` and `signals` what a
dialer was told and how often. Each step is one constructor (`NewDialer`,
`NewBridge`, `New`, `Fails`, `Refused`), and `Cleanup` what follows a failure.
The configuration is chosen as the steps go, so the runs cover all of them.

## 3. Runs

| Run | Instance | What it shows |
|---|---|---|
| `connect` | 2 calls, 2 retries, with and without a deadline, with a worker or inline | No connection leaks; a worker's errors are final (`ErrorIsFinal`); it begins at most one dial after its caller left (`OneLateDial`); calls end (`CallsEnd`: with `Close`, which a socks dialer does not heed, or with their deadline, workers included); `Connect` implements `Handoff` |
| `http_connect` | 1 call, 2 retries | A stream that was given lives on; every other request is cancelled and ends; it implements `Connect` |
| `bridging` | 2 messages each way, all three graces, http or not | Grace respected; no loss but by it; after the first direction both ends are closed and both forwarders end (`FirstEndEndsAll`); between peers that read, one end ends the other |
| `bridging_http` | 1 message | violation of `NoLateWrite`, see section 6 |
| `udp_forward` | 1 client, 2 session objects, limit of 1 tick, 3 datagrams, 1 reply | One open and reachable session; idle sessions end; `Close` ends all of them with their goroutines |
| `udp_forward_dead`, `udp_forward_network` | 2 datagrams; no `toNetwork` | violations of `NoDeadEntry` and `DialCanSucceed`, see section 6 |
| `udp_listener` | 2 clients, 2 sessions, queues of 2, channel of 1, 3 datagrams | Buffers freed once and not used after; order; the map has each open session and no other (`ExactMap`); `Close` of a session returns and closing the listener ends both goroutines (`ClosesFinish`) |
| `udp_stream` | 3 datagrams of 0, 1 or 3 bytes cut to 2, 1 answer, limit of 2 ticks, either side | Datagrams over a stream: it implements `Datagrams`, liveness included; with a ticker that ticks, idle connections end with both goroutines and free their writer |
| `relay` | 1 connection, 3 units, 1 error of `Accept`, all kinds | The bytes of a client arrive intact; nothing is left open or unbridged; sniffing ends; everything ends with the client, but for a bridge whose dialed peer takes no data (`EndsWithClient`); `Close` ends the loop |
| `http_portal` | 2 requests, both kinds of route | A handler outlives the writes to its response, leaves nothing open and does not stay for nothing |
| `startup` | 4 items, 2 names, 2 routes for each item, all configurations | Names are resolved exactly once; a failed startup closes what it opened, with one exception |

### Why these bounds are enough

* The calls of a dialer share only `done`. Two calls are one that `Close` finds
  waiting and one that it finds elsewhere. Two retries give a first, a middle
  and a last round of the loop.
* `Bridging` has no loop that depends on the number of messages: with two of
  them one is read while the other waits. The proofs are for any number.
* Sessions of different clients of `UdpForward` share `Serve` and the mutex;
  `Serve` handles one datagram at a time, so a second client adds no new
  meeting. Two session objects are one that closes and one that is made
  meanwhile; an object whose goroutines have all ended and that nobody refers
  to is used again, as memory is. One tick is idle or not idle.
* Queues of two can be read out of order and overflow with three datagrams.
  `Frame` and `MsgCap` are larger in the code; a full queue is what matters.
* Requests of a portal route meet at the listener only; connections of a relay
  meet at the loop only. Three units are the header of a TLS record, its body and
  something after it.
* `UdpStream`: lengths of 0, 1 and 3 with a limit of 2 are an empty datagram, one
  that fits and one that is cut off; frames of up to four bytes can be cut at
  every place of the length and of the datagram, and three datagrams put two
  frames in one slice while a third arrives. Two ticks let a signal come between.
* Four items of a configuration are two dialers with two listeners, or one item
  for each array that listens. The proofs are for any number.

Every property of a passing run has a mutant in its module: a definition next to
the original (`..._NoLock`, `..._Silent`), with a plausible mistake in place of
the code, that makes the property fail in the same run.

`CHECK_DEADLOCK FALSE` is in every configuration because every instance stops:
calls return, bridges end, traffic is bounded. That nothing is stuck before is
what the liveness properties state.

## 4. Fairness

Weak fairness only, of single goroutines. A goroutine that stands at a select
with a ready case, or has a plain step to take, takes one: the Go scheduler is
preemptive and starves no goroutine. What each specification assumes beyond that,
and the premise of each condition:

* **Connect, HttpConnect.** A dial need not end by itself (a silent peer): it ends
  when its context is done, as each `DialContext` promises, and only then is its end
  fair. The same holds for an http request. A deadline passes, in instances that
  have one (`timed`); a context is not cancelled for sure, and `Close` is not
  called for sure.
* **Bridging.** A read ends when there is a message, when its endpoint is closed or
  when the peer has ended, and is fair then; an idle peer keeps it for ever. A
  write ends for certain only when its endpoint is closed or the peer is gone: it
  has no deadline. The grace period elapses. `Draining`, that peers take what is
  written to them, is a premise of `EndSpreads` alone.
* **UdpForward.** `Serve` handles the datagram it has, and returns from a read once
  the mapping is closed; an error of a read, which ends it before that, is
  possible and not fair. Tickers tick. A reader returns from a read of a closed
  socket. All of it ends when the runtime ends the process (`fatal`).
* **UdpListener.** Somebody accepts until the listener is closed (its `Serve` loop
  does); after that nobody need.
* **UdpStream.** The bridge between the two ends reads, writes, and closes the
  connection after its forwarder has ended; `run` and the goroutine of the timer
  take what they are offered. Nothing arrives for sure, no end is closed for
  sure, and the ticker does not tick for sure; `Ticking` is a premise of
  `IdleEnds` alone.
* **Relay.** The dialer answers: the defaults give every dialer a timeout
  (`Prompt` of `Handoff`). A forwarder that is not in `Write` reads what there
  is. The bridge ends when three things hold: the client has hung up, all it
  sent was read, and the forwarder is not in `Write`. Then its next `Read` meets
  the end of the stream, its direction has ended, and `FirstEndEndsAll` of
  `Bridging`, which is about a bridge with a direction that has ended, gives the
  rest. A `Write` returns only if the dialed peer takes the data: `Draining` is a
  premise of the second part of `EndsWithClient` alone. `Accept` fails once its
  listener is closed, the sniffing goroutine reads what there is or meets the end
  of its connection, the timer of the sniproxy fires, the back-off ends, and a `Close` that was begun goes on.
* **HttpPortal.** A handler at a ready select goes on. The portal owes nothing: it
  may leave a connection offered or open for ever, and a write to a client that
  reads nothing may never end.

Clients, peers and `Close` owe nothing anywhere. `Startup` has safety properties
only.

## 5. Proofs

| Module | Theorems | Inductive invariant |
|---|---|---|
| `ConnectProofs` | `TypeCorrect`, `ConnectNoLeak`, `ConnectErrorIsFinal`, `ConnectOneLateDial`, `ConnectHandsOff`, `ConnectSelectsMeet` | `Begun`, `Held`, `Stopped`, `Within` for each call, `OneGoroutine` |
| `ConnectProofs` (http) | `HttpImplementsConnect`, `HttpHandsOff`, `HttpOwnedStreamLives`, `HttpNoRequestLeak`, `HttpRequestsAttended` | that of `Connect` with `Made`, `Kept`, `Watched` for each attempt, `CancelledByCall` |
| `BridgingProofs` | `TypeCorrect`, `BridgingRespectsGrace`, `BridgingLosesNothing`, `BridgingSignals` | `Values`, `Closes`, `Counts`, `Data`, `Room` |
| `UdpForwardProofs` | `TypeCorrect`, `UdpForwardOneReachable`, `UdpForwardAttended`, `UdpForwardDeadOnlyInserted` | `Own`, `Making` and the invariants themselves |
| `UdpListenerProofs` | `TypeCorrect`, `ListenerNoUseAfterFree`, `ListenerExactMap`, `ListenerInOrder` | `Line`, `Waiting` for each session, `Apart`, `Pooled`, `Mapped` |
| `UdpStreamProofs` | `UdpStreamTyped`, `UdpStreamPrefix`, `UdpStreamFramed`, `UdpStreamImplementsDatagrams` | `Typed`, `Prefix`, `Framed`, `Full` |
| `RelayProofs` | `TypeCorrect`, `RelayBytesIntact`, `RelayNoOrphan`, `RelayOneReader` | `Read`, `Agree` for each connection, `Alone` |
| `StartupProofs` | `TypeCorrect`, `StartupNamesResolved`, `StartupFailureCloses` | `NamesResolved` with `Blank`, `Early`, `Leftover` |
| `HttpPortalProofs` | `TypeCorrect`, `PortalResponseAlive`, `PortalNoOrphan`, `PortalHandlerWoken` | `Fresh`, `Counted`, `Waits`, `Writes` for each request |

* **Connect**, for any set of calls and any `Retry \in Nat`. `NoLeak` speaks of
  calls that have finished and says nothing of the steps before; `Held` says in
  every state where an open connection is. `ErrorIsFinal` needs `Stopped`: a
  worker offers an error early only when its context or the dialer is done.
  `ConnectOneLateDial` needs, from the return of the caller on, that a worker which
  has failed finds a channel ready, and that one between its check and its next
  dial has not dialed since (`Late`).
  `ConnectHandsOff` maps each step to a step of `Handoff` or to none: a dial
  that succeeds is `Open`, a delivery `Give` or `Refuse`, a worker that finds
  nobody `Release`. `ConnectSelectsMeet` is the safety part of `CallsEnd`: the
  channel of the result has no buffer, and each side has the other at it, or a
  closed channel. The socks dialer has none to close, and needs that its two
  ends are one goroutine (`OneGoroutine`).
* **HttpConnect**, for any calls and retries. Each step is one of `Connect` or
  leaves its variables alone (`HttpImplementsConnect`), so the invariant of
  `Connect` is at hand, and with it `HandoffSafe` and `NoLeak` (`HttpHandsOff`).
  `HttpRequestsAttended` is to a request what `ConnectSelectsMeet` is to a call;
  it needs that only the end of the call cancels a request whose goroutine is
  still at work (`CancelledByCall`). `Kept` says who holds a stream whose request goroutine is
  gone, `Watched` which request may still be live, and `Made` that attempts come
  one after the other, so that a retry finds its place empty.
* **Bridging**, for any `MaxMsgs \in Nat`, each grace, http or not. `Values`
  relates the values in the channel and the place of the main goroutine to the
  number of forwarders that have ended: without it the channel could be taken to
  overflow, and the main goroutine to close with one direction still going.
  `Counts` places the message a forwarder holds between its read and its write;
  `Data` says that before the closes only complete directions end.
  `BridgingSignals`: the channel holds one value, two are put in, and the main
  goroutine may return after the first; the second still finds room (`Room`).
* **UdpForward**, for any clients, sessions, traffic and idle time. A session may
  be closed and removed at any moment of the life of another; `Own` says that an
  entry belongs to its client, so that a removal reaches no other client, and
  `Making` that the client of the session `Serve` makes has no entry, so that the
  insertion hides no open session. Both rest on `Serve` alone inserting.
  `UdpForwardAttended` is why the sessions end: an open one has its goroutines,
  and of the three that may close it the one that wins the compare-and-swap stays
  until the session is out of the map. `NoDeadEntry` fails (section 6);
  `UdpForwardDeadOnlyInserted` proves that the way shown there is the only one.
* **UdpListener**, for any clients, sessions, capacities and datagrams. That a
  buffer is not put back twice (part of `TypeOK`) and not used afterwards needs
  that it is in one place. The places are in line (`Line`, `Waiting`): what a
  session has is older than what the dispatcher holds, that older than the
  channel, and that than what the reader holds; only the sessions have to be told
  apart (`Apart`). The same line gives the order of reading. `Mapped` adds to
  `ExactMap` that a session on offer has a client without an entry.
* **UdpStream**, for any lengths, size, wait and bounds. The bytes on their way
  are those `run` has read of its frame (`Seen`, with the header while it reads
  the body), then those in the slice, between the two ends and in `c.read`
  (`Flight`). `Framed` says that while the far end is open they can be cut into
  the frames of the datagrams underway, with empty frames between them; where the
  frames begin is a function `at` that the state does not have, and every step
  has its own: `CutGrows` and `CutPads` for what comes in, `CutSkips` and
  `CutDrops` for what `run` passes over or sends. `CutHeader` is the heart of it:
  two bytes at the front are the header of the next datagram, or of an empty
  frame, never a part of a body. A close loses bytes, and `Framed` with them;
  `Full` says what is left, that a body which was complete by then is still the
  next datagram. Nothing here needs induction over a sequence: `Ordered` states
  outright that the frames do not overlap.
* **Relay**, for any connections, any amount of data, every kind. `Read` says
  that what the bridge has passed on, followed by the buffer, is the beginning of
  what the client sent, up to what was read (`Joined`); the lemmas `JoinedBuffer`,
  `JoinedPass` and `JoinedMove` are the three ways in which that changes.
  `Agree` relates the goroutine of a connection to its call of the dialer.
  `RelayOneReader`: the goroutine that sniffs and the bridge read from the same
  connection without a lock, but never both; `Alone` follows the connection from
  the start of the sniffing, which alone closes it before it is dialed for.
* **Startup**, for any names, items and routes. `NamesResolved` is inductive
  once it is known that no listener exists before the third array (`Early`), so
  that a new dialer has missed nothing, and that items not yet placed are blank.
* **HttpPortal**, for any set of requests. `Waits` and `Writes` together say
  that whoever writes has an open connection, and an open http connection a
  handler that waits; the mutex is what keeps `Writes` under `CloseConn`.
  `Counted` gives `PortalHandlerWoken`: a handler waits exactly as long as its
  connection is open.

The assumptions are those on the constants, named in each module (numbers are in
`Nat` and capacities not zero, options in `BOOLEAN`, there is a client, `None` is
not a session); TLC evaluates them in the runs.

`SelectsMeet`, `RequestsAttended`, `NoSignalStuck`, `Woken` and `Attended` are the
part of the liveness properties that is safety: whoever waits has somebody who
will come, or another way out. They are stated with the theorems.

**Model-checked only**: all liveness (the prover has no rule for fairness that
it can use here), and the fairness part of the two refinements with one, of
`Connect` by `HttpConnect` and of `Datagrams` by `UdpStream`. Of the latter a mutant
of its own (`Header_Returns`, which leaves the connection open and delivers no
more) shows that the run can refute it.

## 6. Findings

Shown by a run:

* `bridging_http`: `internal/network/bridging.go` closes the http end by closing
  the body of the request, which stops its reads only. The handler returns
  (`listener/http.go:365`) while a forwarder may hold a message it has read, and
  which it then writes to a response whose handler has ended.
* `udp_forward_dead`: `newRemoteConn` starts the goroutines of a session before
  `Serve` puts it in the map (`internal/udp/udp.go:146`). A session that fails
  at once is removed before it is inserted, and then stays in the map for ever:
  its client is never served again.
* `udp_forward_network`: `New` puts the default `"udp"` for a missing `toNetwork`
  in a local variable, checks and prints that, and keeps the option itself
  (`internal/udp/udp.go:85`). `Serve` then dials the network `""`, which
  `net.DialUDP` refuses, for every datagram. The sample of `README.md:613-628`
  has no `toNetwork`.

Seen while modelling, without a run:

* `Serve` of a udp mapping looks a client up (`internal/udp/udp.go:121`) without
  the mutex under which sessions are removed. The runtime may end the process
  for it (`LookupRaces`); the safety properties hold for each other outcome.
* The socks dialer keeps the options `retry` and `done` and looks at neither
  (`dialer/socks.go:131`): `config/dialer.go:26` promises that a dial is repeated.
  `Retries` of `Connect` is where the model has it, and `ErrorIsFinal` says so by
  leaving socks dialers out.
* The retry loop of the other dialers dials once more when the caller returns
  between the check and the dial (`dialer/basic.go:174-184`). The dial has a
  context that is done by then, or is closed by the worker (`NoLeak`).
* A bridge does not see that its client hung up while it waits in `Write` for a
  peer that takes no data (`internal/network/bridging.go:181`); there is no
  write deadline.
* The parser of the sniproxy indexes past the end of a record whose body has the
  least length that is let through, 38 bytes (`sniproxy/sniff.go:38` and `:85`):
  `buf[43]` of 43 bytes. A session id that ends one byte before the record does
  leads to the same at `:92`.
* The startup leaves the socket of a portal listener open whose tag was taken
  (`listener/portal.go:62`). `FailureCloses` names it as its one exception.
* `http2PortalWriter.Flush` does not look at the error that `Close` leaves, so a
  flush may follow the return of the handler (`listener/http.go:464`). `Flush` of
  `HttpPortal` has no guard on the handler, as the code has none.
* The idle time of a udp mapping is `timeout / time.Second * 10` ticks of ten
  seconds, a hundred times the timeout (`internal/udp/udp.go:184`).
* The idle timer of the udp dialer is refreshed by writes and not by reads: a
  connection that only receives is closed as idle (`dialer/udp.go:177`). Its
  goroutine stays after `Close` until the timeout (`dialer/udp.go:217`; `IdleEnds`
  shows that it does end). A negative timeout never ends, as the counter is
  compared for equality.
* The grace period of the last sniproxy route overwrites the sniff timeout
  (`sniproxy/listener.go:144`); a negative one makes sniffing time out at once.
* The udp options of a listener are decoded into the outer structure and read
  from the embedded one (`listener/basic.go:46`).
* `bridge/http.go` parses `pingTimeout` from the option `ping`.
* The delay after an error of `Accept` is not reset by a success
  (`listener/basic.go`, `bridge/bridge.go`, `sniproxy/listener.go`).
* The udp dialer is chosen by the option `network` alone and not by the query of
  the URL, which the other dialers read (`dialer/dialer.go:55`).

## 7. Not modelled

* Bytes and encodings, except for the frames of `UdpStream`: a message is a
  number or a count, and a TLS record two units whose lengths are what they say.
  The parser (`parseClientHello`, `sniproxy/sniff.go:64-173`) is a choice between a
  name and an error for a record that was read in full; its arithmetic on
  lengths is left out, and with it the panic of section 6. So is which route a
  name takes: every route may.
* Durations: a deadline may pass at any time, a grace period is one of three
  classes, an idle time is a number of ticks, a back-off ends.
* TLS, the http and websocket libraries, and the `vnet`, `reverse` and `http2`
  packages, which are not in the repository: external, as the code uses them. With them goes how
  a bridge makes the session from which it accepts.
* Access tokens, the file server, the API and the logger: no state that a step
  could break.
* The http mux: a table that is filled before it is read.
* What is deliberately left in the code's own hands: the cache in front of
  `sync.Pool`, which decides only where a free buffer waits.

## 8. Plan

1. Done: `Handoff`, `Connect`, `HttpConnect`, `Bridging`, `UdpForward`,
   `UdpListener`, `Datagrams`, `UdpStream`, `HttpPortal`, `Relay`, `Startup`, with
   the proofs of section 5.
2. Durations as numbers: the conversions from timeouts to ticks of the three idle
   timers, and the back-off of the relays.
3. The udp listener and `UdpStream` as one, with the queue that drops in between.
