# Verification of httpmon

httpmon (`src/`) runs a command behind a local HTTP proxy and shows, records and
exports the exchanges the command makes. These modules model it in TLA+, from the
start of the command to the replay of what was recorded: TLC checks them on small
instances, and the TLA+ proof system proves the safety properties of every
component for every value of its constants.

## 1. The system

| Component | State | Operations | Where |
|---|---|---|---|
| Exchange joiner | `reqs`, `resps`, `dropped` under one mutex | `addRequest`, `addResponse`, `drop`, then `completeExchange` outside the mutex | `exchange.go` |
| Captures | record file (`recordMu`), HAR entries (`harMu`) | `writeRecord`, `addHAREntry`, `writeHARFile` | `record.go`, `har.go` |
| Forwarding | request number, `reqStartTimes`, `inflight` | `forwardRequest`, `logRequest`, `logResponse`, `discardReqID` | `tunnel.go`, `main.go` |
| Body sampler | buffer, counts, `fired` under a mutex per body | `Read`, `Close`, `fire` | `stream.go` |
| Event queue | `items`, one-token channel `ready` | `push`, `pop` | `tui.go` |
| Terminal UI | entries, cursor, detail panel | `Update` on events, keys and window sizes; `listenTUI` | `tui.go` |
| Certificate cache | `certCache` under `certMu` | `generateCert`, the janitor's sweep | `main.go` |
| CONNECT tunnels | one connection, its peeked bytes, its deadline | `handleConnect`, `relayOpaque`, `closeWrite` | `tunnel.go` |
| Tunnel servers | map connection to target, hand-fed listener | `serve`, `start`, `Accept`, `push` | `tunnel.go` |
| WebSocket | two connections | `handleWebSocket`, `spliceWebSocket` | `tunnel.go`, `websocket.go` |
| Upstream dialing | none | `dialUpstream`, `dialUpstreamTLS`, `dialProxyTunnel` | `main.go`, `tunnel.go` |
| Start and exit | cleanups, `exitCh`, `sigCh`, `cmd.Process` | `run`, the signal goroutine, `drainInflight`, `finishHAR`, `runCleanups` | `main.go`, `tunnel.go` |
| Replay | counters | `replayFile`, `replayOne` | `record.go` |
| Decoding and display | none | `decodeBody`, `decompressBody`, `grpcSummary`, `truncateForDisplay` | `stream.go`, `decompress.go`, `grpc.go`, `main.go` |

**How they interact.** A proxied request is handled by a goroutine of
`net/http`, in `forwardRequest`. `logRequest` wraps the request body in a sampler
and `logResponse` the response body; `client.Do` hands the request body to the
transport, which reads it in goroutines of its own and may still do so after
the handler is gone. Each sampler calls back when its body is over, from the
goroutine that read or closed it; the callbacks print, send to the UI's queue
and give the joiner its two halves, in either order. Errors call `discardReqID`.
The main goroutine waits for the command (and the UI), drains the in-flight
count for at most three seconds, writes the HAR, runs the cleanups and exits, and
takes every other goroutine with it wherever it stands.

**What is hard.** Halves that arrive in either order and a failure that
overtakes one of them; Read and Close of one body in different goroutines; a
channel used as a wake-up that may be stale or stand for several events; UI
commands that must re-arm exactly one listener; certificates signed outside the
lock; two directions of a relay that end independently, or end each other; a
map that must hold a connection's target before the server asks for it; a command
that is started, signalled and killed by three goroutines; an exit that cuts
everything short; and a recording that is to be compared with a response of which
it holds a prefix, decoded. `PROJECT.json` lists each such hazard at its line.

**What correctness means, per component.** Joiner and captures: each answered
exchange is written once, a failed one never, none left behind. Forwarding: text in
order, the protocol of the joiner kept, a drained exit complete. Sampler: one report,
true to what was read. Queue: nothing lost, reordered or slept on. UI: one listener, a
view that settles to what was sent. Certificates: one per host while it is fresh.
Tunnels and WebSocket: bytes and ends are passed on untouched. Tunnel servers: each
request goes to its own target. Start and exit: what is taken is released, the
command is never without its proxy, the exit code is its own. Replay and display:
exit codes and truncation markers tell the truth.

## 2. Modules

| Module | Models | Checked by |
|---|---|---|
| `ExchangeLog` | what a capture promises, with no implementation | as refinement target |
| `ExchangeJoiner` | joiner, `completeExchange`, both outputs | `joiner`, proofs (in `Forward_proofs`) |
| `Forward` | the path of an exchange and the exit; extends `ExchangeJoiner` | `forward`, `forward_exit`, `exit_loses_answered`, proofs |
| `BodySampler` | `bodySampler` | `body_sampler`, proofs |
| `EventQueue` | `eventQueue` | `event_queue`, proofs (in `Tui_proofs`) |
| `Tui` | `tuiModel`, its listeners and its senders | `tui`, proofs |
| `CertCache` | certificate cache and janitor | `cert_cache`, proofs |
| `Tunnel` | `handleConnect`, `relayOpaque`, dialing for it | `tunnel`, proofs |
| `TunnelServer` | `tunnelServer` and its hand-fed listener | in `serving`, proofs (in `Serving_proofs`) |
| `WebSocket` | `handleWebSocket`, `spliceWebSocket` | in `serving`, proofs (in `Serving_proofs`) |
| `Serving` | the composition of the last two | `serving`, proofs |
| `Lifecycle` | `run`: resources, the command, signals, exit codes | `lifecycle`, proofs |
| `BodyView` | what is kept, decoded and shown of a body (operators) | in `replay`, proofs (in `Replay_proofs`) |
| `Replay` | recording and replay; extends `BodyView` | `replay`, proofs |

`MC*` modules only give TLC its sets; `*_proofs` modules hold theorems. A
definition named `Op_Something` is a mutant of `Op`: a plausible bug, which breaks
the property that `PROJECT.json` pairs it with.

**ExchangeJoiner.** What a method does under the mutex is one action. A pair taken
out of the maps is a task in `completing`, whose writes are actions of their own,
since `completeExchange` runs after the mutex is released. The variables `given*`
and `abandoned` are history: they hold the joiner's callers to the protocol the
rest of the program follows (each half at most once, a drop at most once and only
without a response). That the callers do follow it is `CallsKeepProtocol` of `Forward`, checked and
proved there.

**Forward.** A handler's or a transport's step and the joiner operation it calls are one
action; the joiner's variables and actions are those of `ExchangeJoiner`, which it
extends. `pc` has a value for each point at which a handler can be overtaken.
`logRequest`, `logResponse` and the error paths are single actions wherever no other
goroutine can see the difference; a block of text and a joiner call by the same
goroutine are separate, in the code's order. `RequestBodyEnds` is the transport
(external): it may happen at any time between `client.Do` and long after the
handler has returned. `drainInflight` is one action that either sees zero or times
out. The three ways in which a copy can end are kept apart because the sampler and
the client see each differently.

**BodySampler.** Bodies are lengths: what is kept is always a prefix. `Read` is
split at the mutex (read of the wrapped body, `Count`, `fire`, callback) and any
number of closers run against it.

**EventQueue.** `push` is split where it releases the mutex, `pop` where it has
looked and where it waits; the channel `ready` is the variable `token`. `Tui` uses a plain sequence for it, which `InOrder` and
`NoLostWakeup` justify for one consumer; `Tui!OneListener` shows that there is one.

**Tui.** bubbletea runs each `listenTUI` in a goroutine and delivers messages one
at a time in any order, so what has been popped is a set, `inbox`. Texts are
reduced to "shown or not". `refreshDetail` is part of each action that calls it.

**CertCache.** The two lookups, the signing and the store are separate steps of a
call; the janitor reads the clock before it takes the mutex. `lease` is history:
when a call returned, and when the entry it used expires.

**Tunnel.** Streams are counts of bytes, cut into gone, buffered and in the
socket. An end may finish its stream ("eof") or go away ("gone"). A deadline left
on a connection may fire at any time. A tunnel given to a tunnel server ends as
"served".

**TunnelServer.** `stage` follows each connection from the goroutine of its tunnel
(`Serve`, `Store`, the push that meets `Accept`) through the accepting goroutine
(`ConnContext`) to the server's state hook (`Hijacked`, `Closed`). `targets` is the
map, `context` what `ConnContext` copied from it; `requests` is history. The
`http.Server` is external: it accepts one connection at a time, and reports each as
closed or hijacked once.

**WebSocket.** One upgrade, step by step through dialing, Hijack, the request, the
upstream's answer and the splice, every step of which may fail. What was read ahead on
either side (`rw.Reader`, `upReader`) is counted apart from what is in the socket,
since a closed connection still gives the former. Each copy that ends closes the
connection it writes to.

**Serving.** The server's own steps interleave with those of one upgrade in one of
its connections. They meet in three: the request that starts the upgrade, Hijack
(which runs the state hook inside the handler), and the handler's return. The
interface of `TunnelServer` is its abstract specification: `Serving` implements it.

**Lifecycle.** `pc` is the main goroutine in `run`, with each early return. `runner` is
`cmd.Run`: the fork and the assignment of `cmd.Process` are separate, as the signal
goroutine and the UI's exit read that field without synchronisation. The command and
its descendants are external: they may end, live on, or hold the output open at any
time. A signal nobody has asked for ends the program as "killed". The cleanups are a
list, run one at a time. The drain is one step here; `Forward` has it in detail.

**BodyView.** A body is a sequence of bytes. A coding makes of each byte the pair of itself
and that byte, between a header and a trailer, so that decoding a prefix gives a prefix:
all the code relies on. `IsMessage` says which bodies there are: how much of one arrived, and whether its
reader met the end (`ended`: EOF, or the declared length), which a body of which every
byte arrived may lack. What several codings
make of a body, what is decoded of it layer by layer, and what its messages come to are
recursive functions (`Encoded`, `Decoded`, `MessagesFrom`). The
limits, the cap on decoded output, the rune-wise cut, the count of gRPC messages and
what JSON makes of a stray byte are operators named as in the code.

**Replay.** One action per line, per step of `replayOne` and per branch of its counting.
The exchange as it went by (`original`) is kept beside its record, so that the
properties can say what one would say who had seen both responses whole
(`Verdict`); the code sees the record only. A response is "altered" if it differs from
the recording: in the prefix that was recorded, or anywhere if all of it was
(`Altered`, README.md:354-356). One that only goes on, behind a complete recording and
behind the bytes the replay reads (`GoesOn`, `Seen`), is told apart as "longer".

## 3. Runs, bounds, and what they show

| Run | States | Bounds | Why they are enough |
|---|---|---|---|
| `joiner` | 17 thousand | 3 exchanges, 2 values of a half, both outputs | the joiner treats exchanges independently; a second shows mixing, a third a hand-off that overlaps two others |
| `forward` | 33 thousand | 1 exchange, all 4 request and 3 response kinds | every path through one handler, with liveness |
| `forward_exit` | 1.1 million | 2 exchanges with symmetry, 2 kinds of each body, one value of a half, HAR only | the other branch of `completeExchange`; the in-flight count and the exit are shared; a second exchange races with the first |
| `event_queue` | 75 thousand | 3 producers, 2 events each | stale tokens, a full channel, and events that overtake their token all happen |
| `body_sampler` | 37 thousand | bodies to 3 bytes, limits to 2, 2 closers | below, at and above the limit, declared or not, empty too |
| `cert_cache` | 131 thousand | 2 hosts, 3 calls, entries live 2 ticks of 4 | a race on a host, a renewal, a sweep in between |
| `tui` | 354 thousand | 3 exchanges, the first settled when the run starts, 1 queued event | head and body in both orders, keys and the exit in between, an arrival while the cursor is, and is not, on the last entry; a longer queue adds no order, as there is one listener |
| `tunnel` | 58 thousand | streams of up to 3 bytes, every opening, both routes | bytes gone, in the buffer and in the socket at once |
| `serving` | 519 thousand | 2 connections, 2 targets, streams of up to 2 bytes | one connection is accepted while the other is stored, upgraded or closed; bytes read ahead and in the socket at once |
| `lifecycle` | 10 thousand | every combination of flags, 2 signals | a second signal finds the goroutine gone |
| `replay` | 57 thousand | 2 lines, texts of up to 4 bytes; limits 2 (display), 3 (capture), 2 (decoded), 5 (line) | bodies below, at and above each limit, cut inside a character and inside a coding; two lines show that one counts for the other |

What each shows is in `PROJECT.json`, per run and per property. No type
invariant is among the runs' properties where it is proved (section 4). Deadlock
checking is off in every run because each system really stops: the program exits,
every call has been made, a tunnel is closed, or the replay is over.

**Finding.** One run expects a violation. It checks a sentence of the changelog
against what the code does:

- `exit_loses_answered`: the exit drains handlers, not uploads. An exchange answered
  before its upload was read can be missing from the recording and the HAR
  although the drain ended normally (CHANGELOG.md:23-25). `DrainIsComplete` and
  `AnsweredIsCaptured` are what does hold.

The models show further divergences from the documentation, and no run is kept for
them. In the exchanges and the tunnels:

- Without a body, a response's closing rule is printed above its head
  (`main.go:707`, against the sample of README.md:20-30): `TextOrder` demands the
  order of head and end only of a response with a body.
- A request that `http.NewRequest` refuses leaves its number in the joiner for good
  (`tunnel.go:61`, against main.go:422-423): the exception in `NothingLeft`.
- In the UI a failed exchange stays pending for ever (`main.go:424`, against
  README.md:227): `SettledView` says nothing of `pending` for those.
- What a client sends right behind its CONNECT stays in the reader that Hijack
  returned (`tunnel.go:201`, against README.md:452): the `swallowed` bytes of `Tunnel`,
  which `RelayedUntouched` excepts by name.
- An upstream that breaks off a response of unknown length is relayed as a complete
  one: the error of the copy is dropped and `net/http` ends the response (`tunnel.go:107`,
  against README.md:44, "the full stream is forwarded unmodified"): `ClientSees` in
  `Forward`, which no property is about.
- Behind an upstream proxy, a server-first greeting that arrives with the proxy's answer
  makes the tunnel fail (`main.go:228`, against CHANGELOG.md:26-31): `RefuseGreeting` in
  `Tunnel`.
- A refused WebSocket upgrade loses its response if that has a body, which is closed before
  it is written (`websocket.go:31`): the exception in `HandshakeAnswered`.

In the start and the exit:

- A UI that is quit before `cmd.Process` is set, or while a descendant of the command
  holds its output open, waits for the command to end by itself (`main.go:1214`,
  against README.md:223): `StopsWhenAsked` excepts both. `CommandIsServed` shows that
  the command keeps its proxy and its bundle meanwhile.
- A signal that comes before `signal.Notify`, or around the UI's own handling, ends
  the program with no cleanup (against README.md:38): "killed", which `Released` leaves out.
- Only the first signal is passed on, and it is lost if the command has not started
  (`main.go:1240`): `StopsWhenAsked` speaks of the first, sent when the command runs.
- A CA bundle that could not be written to the end is left behind (`main.go:903`): the
  exception in `Released`.

In what is recorded, shown and replayed:

- With `--replay-fail-on-diff`, a response that goes on where a complete recording ends
  passes with code 0 if the recorded one just fits `--max-capture`: with a limit of three
  bytes, "xxx" recorded and "xxxx" answered. No more of the new one is read
  (`record.go:255`), and it is compared as if that were all (`record.go:265`). This is
  against README.md:121, where code 2 is for "at least one response differed from the
  recording", and README.md:354-356, where a prefix is compared only if a prefix was
  stored. It is `Verdict`'s "longer", which `SuccessIsEarned` excepts by name; that no other
  response that differs passes is what it checks, and `ExitZeroIsEarned` proves.
- A body that is binary, or of a coding httpmon does not know, is recorded as a
  placeholder, and a body cut inside a character has U+FFFD in its place: on replay, the
  same response differs. A body cut to nothing is recorded as a complete, empty one
  (README.md:354-356). These are `Verdict`'s "not in the recording".
- A request that was recorded as a placeholder, cut, or decoded with its
  Content-Encoding kept is sent again as it was recorded: `FailureIsReal` speaks of the
  others.
- An error while the replayed response is read is ignored (`record.go:255`): a response
  that broke off is compared by what arrived, and `Unchanged` holds of a whole one only.
  If what arrived is all of a complete recording it passes: "longer", too.
- A compressed response that is longer than `--max-capture` is compared by what its
  beginning decodes to: "longer" again, if that is all of a complete recording. Of one of
  several codings that is cut or exceeds the cap nothing is promised (`Seen`).
- A line longer than 4 MiB, which httpmon may write itself, ends its replay
  (`record.go:144`): "unreadable", code 1.
- Without captures the capture limit is the display limit, so a cut may fall inside a
  character although `main.go:808-812` says that none is split: `TextIsHonest` compares
  bytes. Of a body that went through several codings and was cut, bytes of the inner
  coding are shown as text (against `decompress.go:20-22`): its exception. A placeholder
  and a body cut to nothing have no truncation marker (against README.md:252): likewise.
- The gRPC count reads the body as it came, whatever its Content-Encoding
  (`grpc.go:28`): `SummaryIsHonest` speaks of bodies without one, as gRPC compresses
  message by message.

**Fairness.** Only what a scheduler owes is assumed, weakly: a goroutine that can
run does (a hand-off, a signal after an append, a callback, a copy that has bytes), a
timer that was set fires (the drain's deadline, the janitor's ticker, the
deadlines of a tunnel's setup), and bubbletea runs commands and delivers messages.
Nothing is assumed of clients, upstreams, users or producers, with one exception: a
peer that stays connected takes what is written to it. The copies of `Tunnel` and
`Serving` are fair whenever they have bytes and the other end is there, so `EndIsPassedOn` and
`UpgradeEnds` say nothing of a peer that is connected and never reads, on which a `Write`
may block for ever. In `Forward` the
upload of an exchange is bound to end only once its handler has returned, as the
server then closes the client's body. In `Lifecycle` it is the main goroutine, the
one in `cmd.Run` and the signal goroutine that go on when they can; the command may run
for ever, and `StopsWhenAsked` says what follows once it has ended or was killed. In
`Serving` the splice's two copies, the wait for both and the handler's return are fair;
`UpgradeEnds` starts when either end has finished. `Replay` has safety properties only.

## 4. Proofs

Eight `*_proofs` modules prove safety for every value of the constants, from the
assumptions the modules state on them (`ForwardSpec` for any set of exchanges, `Spec` of `Tui`
for any backlog of events, and so on). For each, an inductive invariant is
stated, shown to hold initially, and shown to be preserved action by action; PTL
combines the steps. Each proves its module's type invariant as `TypeCorrect`
(`ForwardTypeCorrect`, `UpgradeTypeCorrect` for the parts a composition adds,
`QueueTypeCorrect` for the queue), which the runs therefore need not check.

- **ExchangeJoiner** (in `Forward_proofs`). `TypeOK` alone does not imply that nothing is parked
  or that nothing is written twice. `IInv` adds what each map holds as a function of the
  calls made (`MapsInv`: for instance a request is in `reqs` exactly while it has
  no response and was not dropped) and where the pair of a completed exchange is:
  still to be recorded, still to be added to the HAR, or written. From it follow
  `NothingParkedForever`, `WrittenOnce`, `HarWithinRecording`, and that each output
  implements `ExchangeLog` (`RecordingIsALog`, `HarIsALog`): initial states map to initial
  states, and every step to a step or a stutter. `NothingLost` is the converse of
  `OutputsInv`: once both halves are given, the pair is in the output or a goroutine has it.
- **Forward.** Each action of the program is an action of the joiner whose guard, the
  protocol, follows from where the caller stands, or leaves the joiner alone
  (`ForwardImplementsJoiner`); so every theorem about the joiner holds in the program. What the
  joiner assumes of its callers is thus no assumption any more. `ForwardIInv` has one part per
  concern: `HandlerInv` and `TransportInv` relate the fields of an exchange to `pc` and
  `transport`; `CallsInv` gives the calls made so far; `TextInv` the blocks printed so far;
  `DrainInv` says that `inflight` is the number of handlers under way, which makes the zero the
  drain waits for mean something, and that no exchange owed at the exit is under way once the
  drain has seen it; `CapturedInv` carries `NothingLost` into the HAR file. The properties
  of the two `forward` runs follow: `CallsKeepProtocol`, `EmptyNeverChunked`, `NothingLeft`,
  `TextOrder`, `DrainIsComplete`.
- **EventQueue** (in `Tui_proofs`). `NoLostWakeup` needs which producers are between append and signal;
  with `TypeOK` it is inductive. `InOrder` is inductive by itself.
- **BodySampler.** At most one report is in the hands of a goroutine or made, and only
  after `fired`; a report that calls a body complete was taken when everything
  read so far fitted the limit and the body was at its end. The action property
  `DeliveredIsComplete` needs that no byte is returned before it is counted (`CountInv`).
- **CertCache.** Each `lease` is related to the entry it came from, so that a later
  return within it must have found that entry; `sweepTime <= now` keeps a sweep away from
  a fresh entry. That no step replaces or evicts a fresh entry (`FreshEntryStays`)
  needs no more than the types.
- **Tui.** `OneListener` counts; `Listener` says the same by cases: one listener waits and
  nothing is on its way, or none waits and one message is. `DetailIsCurrent` needs
  `OnEntry`: the cursor is on an entry if there is one, and the panel is open only
  then. Every branch that changes the selection, or the selected entry, renders it
  again. `ScrollFollowsSelection` is an action property and follows from the same invariant.
  `SettledView` speaks of the states where nothing is on its way; its invariant speaks of all.
  `Coming` is what `Update` has not seen yet, in order: the message of the listener in front of
  the queue. A step sends one event behind the others, takes the first, or (`Pop`) leaves
  `Coming` alone, which is where the one listener is needed. `Known` says that the first event
  of an exchange comes before the others and finds no entry, so that the others find one;
  `Truthful` that nothing is shown or on its way that has not happened; `ReqBodyComes`,
  `RespComes` and `RespBodyComes` that what has happened is shown or on its way. The last is
  the delicate one: the head erases the body of the entry, so the text of a response must not be
  in front of a head, which holds as the head goes first unless there is no text.
- **Tunnel.** `Order` says in which part of `handleConnect` the copies run and the
  deadline is gone; `Finished` why a copy may be over: an end is gone, or its stream
  has ended and all of it is delivered. `NoFalseEOF` and `RelayedUntouched` follow.
- **TunnelServer and Serving.** `ContextIsOwn` says where the target of a connection is
  once it is accepted. With the map (`TargetsFollowConns`) it gives `TargetIsOwn`, for
  any number of connections and targets. `ServingImplementsTunnelServer` shows that every
  step of the composition is one of the server's or leaves it alone, as an upgrade under
  way has a connection (`UpgradeHasConn`); so the server's theorems hold with upgrades
  going on.
- **WebSocket** (in `Serving_proofs`, in the composition). `UpgradeInv` relates the step the
  upgrade is at to what is open, read ahead and told (`StepInv`, `AnswerInv`), keeps the
  counts of each stream in order (`StreamsInv`), and says why a copy may be over (`EndedInv`: as for
  `Tunnel`, but a copy that ends closes the connection it writes to, `ClosedInv`).
  `SplicedUntouched` and `HandshakeAnswered` follow, for streams of any length.
- **Lifecycle.** `Held` relates what is open to the list of cleanups at each point of
  `run`; `Outcome` takes the command's end through `cmd.Run` and `exitCh` to the exit code.
  Without them `Released`, `CommandIsServed` and `CodeIsHonest` are not inductive.
- **Replay.** Of the control, `ReplayInv` says which branches of the counting the lines met
  and what each added. The rest is about data, for any bodies, codings and limits.
  `SuccessIsEarned` and `FailureIsReal` rest on two facts (`VerdictIs`): a response that
  differs from the recording never compares equal, unless it only goes on behind what is
  read (`AlteredDiffers`), and the same one, whole and with its recording true, always does
  (`UnchangedMatches`). The first needs that what is compared is a beginning of the body
  (`CompareIs`) that leaves out nothing within reach (`SeenIs`). `Stage` says
  what is left of a cut body when k of its codings are undone; from it come what
  `decompressBody` returns (`DecompressIs`), that what it returns of less than the body
  is marked (`CutIsMarked`), and that more input gives more output (`LongerCut`). `DisplayIsHonest`
  is `TextStaysHonest`, from the same lemmas, and `SummaryStaysHonest`: a prefix of a framed
  body has at most as many messages and as much payload (`PrefixHasFewer`), and a count that
  is not marked as incomplete was taken of the whole body.

The recursive functions of `BodyView` need what is otherwise an induction over data, and
the induction theorems of the library take an operator, which the installed provers
cannot instantiate. The proofs use the least counterexample instead (`LeastElement`,
from the library's theorem that < is well-founded): the set of stages at which a formula
fails, were there any, would have a least member, and the step before it contradicts that. In this way each
function is shown to exist and to satisfy its equation (`EncodedIs`, `DecodedIs`,
`MessagesFromIs`), and all else is proved from the equation.

`WrittenOnce` and `NothingLost` (joiner), `FreshEntryStays` (certificates) and `KeptIsPrefix`
(sampler) are proved and checked by no run.

**Model-checked only.** The liveness properties (the proof system has no rules for fairness
or ENABLED that could be used here), among them the liveness half of the refinement of
`ExchangeLog`. Every invariant and every safety action property of the runs is proved.
Of the codings the proofs about `Replay` assume what `EncodeLayer` says, and no more is
claimed: a decoder that holds bytes back, or gives some before it finds its input
broken, is not covered. No module here uses a RECURSIVE operator.

## 5. What is not modelled

- Formatting: headers, times, URLs, the layout of the HAR and of the text, the text of a
  replay, `grpcStatusLine`, and `View`, which only reads.
- Values of flags, the environment and the arguments the command is given
  (`main.go:909-982`, 1157-1188), and the configuration of the HTTP clients: data no
  property is about.
- TLS, the generation of the CA and the contents of certificates and of the bundle. Of
  a certificate only the age of its cache entry is kept.
- The codings (gzip, brotli and so on): external, but for prefixes that decode to
  prefixes.
- `net/http`, bubbletea, the command and the peers: external, used only through what
  they may do to this code.
- A proxy that stops serving while the command runs: `server.Serve` may fail
  (`main.go:1150`), which is printed and no more. `CommandIsServed` is about the listener
  and the bundle, which no cleanup takes from a running command.
- The validity of a certificate itself, a year (`main.go:361`), which a cached one outlives
  only in a run as long as that.
- Unbounded time: clocks are a few ticks, timeouts are steps that may happen.
- Record-file errors: `writeRecord` ignores them, and a write after the cleanup has
  closed the file is ignored as well.
- A replay with another `--max-capture` than the recording's: a smaller one makes
  every longer body differ.

## 6. Plan

1. Done: the exchanges, their captures and the exit; the UI; tunnels, tunnel servers
   and WebSocket; start-up, signals and exit codes; display and replay; proofs of
   every safety property of the runs.
2. In `BodyView`, codings that buffer: a decoder that gives less than what it was fed amounts to.
