# Verification of puup

puup connects a frontend to a backend over WebRTC. A signalling server carries
the session descriptions and candidates; once a peer connection is up, its data
channels are pooled and handed out as `net.Conn`s, over which web pages, files,
ssh and TCP connections run. This directory holds TLA+ models of the parts of
the program that carry its logic, the TLC runs that check them and TLAPS proofs
about them.

The models are written against the source as it stands. At this commit the Go
packages do not build (`cid` is undefined at `net/conn/ws-sig.go:105`,
`WsBackendSigClient` has `NewClient` where `Signalinger` asks for `NewPeer`,
`Listener.AcceptFile`, `AcceptSsh` and `AcceptProxy` do not exist). The models
read the missing names as what their callers need: the client id that comes with
the peer id, the channel `newClient`, and `Accept`.

## Inventory

| Component | State | Operations | Hard behaviour |
|---|---|---|---|
| Data channel (`net/conn/channel.go`, `net/conn.go`) | status, the current `ChannelReader` and its bufio buffer, open/close, each `Conn`'s `isRelease` | `OnMessage`, `TakeConn`, `Release`, `Read`, `Write`, `Accept`, `Close` | pion's goroutine, the users and the accept loop share the channel without a lock; one channel serves many sessions in turn |
| Peer and channel pool (`net/conn/peer.go`, `channel-pool.go`, `keepalive.go`) | idle and active channels, label counter, connected/close | `Get`, `OnChannelOpen`, `OnRelease`, `Connect`, `Listen`, `Close` | map writes under a read lock, state changes in goroutines of their own |
| Backend signalling client and listener (`net/conn/ws-sig*.go`, `net/listener.go`, `net/conn/peer-sdp.go`) | sessions with their bounded channels, `newClient`, current client, peers by id | `Run`, `GetSession`, `OnSdp`, `OnIceCandidate`, `loop`, `PollOffer` | a lock held while a bounded channel is full; clients replaced while they dial; timeouts that need the lock; one websocket written to by several goroutines |
| Signalling server (`server/`) | clusters with their backends and frontends, one handler per websocket | `AddBackend`, `AddFrontend`, `DelBackend`, `DelFrontend`, `HandleWs` | a client is looked up under a lock and used after it; re-registration under the same id; a receiver's failure ends the sender, a stalled one holds it up |
| File store (`backend/file.go`, `backend/web.go`, `db/`) | records and links in badger, files on disk | `upload`, `PreUpload`, `GetOrSet`, `Set`, `Get` | several writes with failures and crashes between them |
| Dialling (`net/clients.go`) | clusters and their peers in maps under one mutex | `Connect`, `addPeer`, `Dial` | maps read without the lock; two dialers connect at once; one of several connects fails; a padded list of ids; a signalling client without a websocket |
| Copying (`net/conn/go.go`) and the proxies (`backend/proxy.go`, `frontend/proxy.go`) | a pair of connections, their copiers, a report channel | `GoCopy`, `ServeConn`, `runForward`, `Channel.Write` | one direction ends, the other waits; a write goes on after the release |
| Services and the `puup` command (`cmd/main.go`, `backend/`, `frontend/`) | accept loops, forwards, the context | `Run` of each, start, interrupt, exit | no loop looks at the context; a nil result is dereferenced |
| Web requests of a page (`cmd/wasm/main.go`, `net/transport.go`, `backend/web.go`) | promises, bodies, the event loop | `GoHttp`, `GoHttpAsync`, `RoundTrip`, `cancel` | Go code that blocks the loop its messages come by; a body left unread when its Conn is released |
| ssh and scp clients, other commands, previews, configuration, middlewares | none | | not modelled |

How they interact: `HandleWs` forwards packets between the websockets of a
cluster. On the backend, `Run` puts each packet into the session of the remote
peer and announces new ones on `newClient`; `Listener.loop` makes a `Peer`,
which polls its session until it is connected or gives up. The connected peer
opens data channels; the first message on one takes the channel and queues it
on `accept`, and `Listener.Accept` turns it into a `Conn` for a server, which
releases it at the end so that the next message starts the next session. On the
frontend, forwards and page requests share one `PeersClient`: `Dial` connects to
every backend of the cluster if it has no peer yet, and takes a data channel of
any of them. `main` starts all of this and ends it on an interrupt.

`PROJECT.json` lists the hazards these parts are exposed to, each at its line.

## Modules

| Module | Models |
|---|---|
| `Pipe` | abstract: one byte stream handed out in sessions that do not overlap |
| `Channel` | one data channel's receiving end and the Conns made over it; implements `Pipe` |
| `SigServer` | the signalling server |
| `Signalling` | a backend's signalling clients, its listener's loop and its negotiating Peers |
| `WriteOnce` | abstract: files written once, sealed, then linked and acknowledged |
| `FileStore` | uploads, records, links and files; implements `WriteOnce` |
| `Peer` | one Peer: state changes, `Close`, loop, keepalive, commands |
| `Pool` | the channel pools of two connected peers |
| `Copy` | `GoCopy` and `Channel.Write` under the backend's or the frontend's proxy |
| `Dial` | `PeersClient`: dialers that share the maps of peers |
| `Services` | the `puup` command and its services, on top of `Dial` |
| `Web` | requests of a page: wasm callbacks, transport, web server |
| `MC...` | instances of these for TLC |
| `ChannelProofs`, `SigServerProofs`, `SignallingProofs`, `FileStoreProofs`, `PeerProofs`, `PoolProofs`, `CopyProofs`, `FrontendProofs` (`Dial`, `Services`, `Web`) | theorems and proofs |

The modules meet at a few points: `Signalling` ends where a Peer is connected and
`Peer` begins there (its `WaitConnected` and `WaitFails` are the end of
`PollOffer` and `WaitAnswer`); `Pool` gives a data channel its `Channel`; `Channel`
says what `Copy` may assume of a Conn: a released session's reader ends with EOF,
and a Read that starts later is one of the next session. `Services` extends `Dial`,
whose `Connect` stands for a negotiation as in `Signalling` and `Peer`; a forward of
`Services` hands its connection to a `GoCopy` as in `Copy`.

Definitions marked *Mutant* are variants of the definition that follows them, as
a mistake in the code would have it. No specification uses them; each is a
substitute with which some property must fail (`PROJECT.json`, `mutants`).

### Channel

`status`, `session` (which `ChannelReader` `c.rd` points to) and `rd` are the
channel; `om` is the `OnMessage` call in progress, one at a time because pion
reads a data channel in one goroutine; `conn[k]` is the k-th `Conn`. Every access
to shared state is a step of its own: `TakeConn` tests and sets the status and
later replaces the reader, `Release` tests the status, closes the reader and
later sets the status. Bytes are numbered, so order and loss can be seen.

- The reads and writes of `status` race. A string header that is read torn would
  compare as neither value that matters; the model gives each access the old or
  the new value.
- `getRdl` stops the timer it returns, so no deadline in the future ends a
  `Read`; one already past makes `Read` fail before it touches the channel. Neither
  changes the channel, so deadlines are no actions.
- A `Conn` used after its `Release` (as `net/http` does after `StateIdle`) reads
  from whatever session the channel is in. The model allows it; `OwnSession` is
  about Conns not yet released, and `raced` marks two Conns inside one
  `bufio.Reader`, after which the bytes returned are unspecified.
- Once the data channel is closed, `Channel.Read` returns what bufio has buffered and
  then a clean EOF: chunks still in `recvData` are dropped (`channel.go:196-200`), and
  the reader cannot tell. `Read` has that, and `StreamInOrder` and `Pipe` promise
  completeness only while the channel is open.
- `Channel.Close` has no caller and is left out. `Conn.Close` is called once per
  Conn by its users. `Write` belongs to the sending side (`Copy`).

`PipeSpec` maps the channel to `Pipe`: the current session is the one whose reader
`c.rd` points to, a session is over when the `Release` of its Conn has returned, a
byte is handed out when `Read` returns it, the pipe is broken once the
data channel has closed and misused once `raced`. A user of a Conn that is not yet
released can forget everything but `Pipe`.

### SigServer

A websocket is a member of `Conn` and is used once; `hs[c]` is its handler with
the phase it is in, `Backends` and `Frontends` the maps of the registry. A method
of `Server` holds the lock from start to end and is one step; the lookup of a
target and the write to it are two. `SendError` stands for a write that fails
and for gorilla's panic on concurrent writes, which the deferred functions treat
alike. A websocket the remote end has lost may still take a write. There is no write
deadline (`server/backend.go:27`): a write to a websocket whose remote end has stopped
reading, without closing it, does not return until that websocket is closed. `Stall`
makes one of `Slow` such a websocket, and `HeldUp` names the handlers that wait for it;
they do not read their own websocket meanwhile, and so cannot see it die.

`HandleWs` looks its target up by `packet.From.ClientId`, and the model takes
any id there. The senders in this repository put their own id into it, which is
registered on their own side of the cluster: such a packet finds no target.
`packet.To.ClientId` is always set to "" since `Client.Peers` is never filled.

### Signalling

`sig[g]` is the g-th signalling client with its `Run` (`pc`), its sessions and
their channels; `peer[k]` a `Peer` with its `Listen`. `c.Lock` is held from
"announce" to "insert" (`Locked`). `l.sig.IsClose()` is true for a client that has
not connected yet, so `Tick` may replace one that is dialling; it then goes on and
may connect (`DialOk`) unseen.

`NewListener` hands its `wsURL` to the first client but does not keep it: the
`Listener.wsURL` the loop makes every replacement with (`listener.go:115`) is empty, and
its `Dial` fails. `HasURL` says so. A client is therefore replaced again every five
seconds and none ever connects: once the first one has ended, or been replaced while it
was dialling, the listener gets no signalling again. The model follows the code in this,
and `OneNegotiation` states the consequence: a remote id has one Peer ever.

`RunEnds` is every way out of the read loop: the websocket's failure, and gorilla's panic
after repeated reads on a timed-out connection, which five silent seconds bring about.
The cancellation by an earlier client's goroutine (`listener.go:47` and `:120` close
`l.sig`, not their own client) hits a replacement, which has not connected.

`WriteJSON` takes no lock, and each Peer writes to the client's websocket from two
goroutines: `Listen`, which answers, and pion's, which sends candidates as it gathers
them (`Writers`). gorilla/websocket panics on concurrent writes, if it notices, and
neither goroutine recovers: `ConcurrentWrite` ends the process (`panic`). Nothing in the
code prevents it, so no property excludes it. `AnswerSent` is the return of a write: it
may never come while the server does not read and `Run` keeps the websocket open. A
candidate that is written, late or not at all, changes nothing here.

`CloseSession` has no caller and nobody writes to `onClose`, so sessions are never
closed and never removed, and connected Peers stay in `peers`. A Peer whose negotiation
has failed is not closed: pion goes on with it, unlisted. Packets with an empty
`To.PeerId` are ignored by `Run` and left out.

### FileStore

`files` are the keys with a record, `disk` how much of each real file is there,
`userFiles` the links, `up` the connection `FileServer.Run` serves (one after the
other). `Faults` lets badger's reads and writes fail. `Crash` ends the process at
any point; what badger and the file system were told stays (a power failure is
not modelled). `upload` swaps the two results of `GetFileName`, which only moves
the real file to where previews were meant to be; the two stay distinct, and the
model keeps one place per key. `ServeConn` reads the request through a buffered
reader and then copies from the connection itself: `Serve` may lose chunks.

`db.Get` returns `t, View(...)`. Go leaves open whether `t` is read before or after
the call; gc reads it after, and the model follows.

`StoreSpec` maps the store to `WriteOnce`: a file is being written while `upload` is
between the insertion of its record and the end of `io.Copy`, and sealed afterwards,
however that came about; an ack is pending from the step that fills it in. What
`WriteOnce` does not promise is that a sealed file is complete, or there at all, which
is the second finding below.

### Peer

pion runs the handler of each state change in a goroutine of its own: `h[e]` is the
handler of the e-th change, and `Close` is three steps of it (`IsClose`,
`close(p.close)`, `pc.Close`). `waiter` is the `WaitAnswer` or `PollOffer` call, `loop`,
`keep` and `lcmd` the goroutines (an offering Peer starts with its keepalive and gets no
other data channels: `lcmd` is "never"), `reader` the `OnMessage` of the command
channel. `Follows` is pion's state machine as far as this code drives it: nothing
restarts ICE, so a failed connection does not come back, a disconnected one may. pion
also closes or fails a connection by itself, from any state, when DTLS ends. The data
channels are reported late if pion's goroutines are late: `Up` asks only that the
connection has been up. A panic in a goroutine ends the process (`GoFunc`'s recover is
in the wrong goroutine), hence `panic` in the guard of `Next`.

Commands: an answering Peer has no active channels, so `OnRelease` does nothing
and the three kinds of command differ in nothing but their names.

### Pool

`get[c]` is the `Get` of one goroutine. It holds the read lock, so any number
run at once. Nothing is ever sent to `ChannelPool.release` (`Channel.Release` only
sets the status), so idles of an offering pool stay empty, actives only grows, and
`ChannelPool.loop`, `OnRelease` and the scan for an idle channel find nothing. Two
concurrent map writes are undefined: the runtime may notice and stop the process
(`fatal`), or entries may be lost. A label is the sequence of its parts; a type
without a name of its own becomes "unknown", so that labels of two types can only
be told apart by their index. `scp` in the run's `CallTypes` is such a type.

### Copy

`side` says whose proxy it is. The backend accepts a Conn, reads the port and dials
the TCP connection; the frontend accepts the TCP connection, dials a Conn and
writes the port. `c[k]` is the k-th connection: the steps before `GoCopy`, then
`GoCopy` (`pc`), its two copiers, its channel `ch` and the state of the two
connections. `io.Copy` returns nil at the end of its input,
and `GoCopy` passes nothing of it on: the other end is never told that there is no more
(no `CloseWrite`), and the other direction goes on. `Refuse` ends the accept
loop and leaves its connection as it is, as the code does. "stale" is a copier inside
the next session of its data channel.

What `up` has read from TCP goes out in batches (`left`); `Conn.Write` tests for
`Close` once, and `Channel.Write` tests for a closed data channel before each batch.
`dst.Close` releases first and closes the Conn later, in two steps, so batches can go
out between and after them: `late` counts those. Writes happen only if there is
something to write, so failed writes are possible but never promised.

### Dial

A dialer's call goes through `getRandPeer`, `Connect` (one backend after the other)
and the final `range` over the map; every lock, and the start and end of each map
write, is a step. `lock` is the set of holders, so that a write without the lock can
be expressed and shown to matter. The final read takes no lock: if it overlaps a
write the runtime may stop the process (`fatal`), which `touched` records. `crossed`
records that two dialers were in `Connect` at once.

`GetCluster` is a stub that returns no ids at this commit, so that every Dial as the code
stands ends in `IterNone`. `ids` is what the code that was to fill it says: none, or the
list of `GET /api/cluster`, which `GetBackends` (`server.go:64`) starts with as many empty
ids as there are backends before it appends the backends. `Connect` dials every
entry: the relay does not look at the id that is dialled, so an empty one connects like
any other, and each makes a Peer of its own.

`wired` says whether the signalling client has a websocket. Nobody starts the `Run` of the
frontend's, so that as the code stands it has none, and `SendOffer` dereferences nil
(`ws-sig.go:137`): `NilWebsocket` is the state before that, `FwdPanics` (in `Services`)
the panic. With one, `Connect` succeeds or fails. A Peer that loses its connection stays
in the map, and a Dial that picks it fails: `IterPeer` may fail for any Peer.

### Services

`main` starts a backend or a frontend, waits for an interrupt or for the services,
cancels the context and allows one more second. `loop[s]` are the accept loops of the
ssh, file and proxy servers; ssh and uploads are served inside the loop, proxied
connections in goroutines of their own. `fwd[d]` is a `runForward`, whose Dial is the
dialer `d` of `Dial`. A nil Conn, and a nil websocket inside the Dial, are dereferenced
in a goroutine without a recover and end the process. The web server and the file client
only wait for the context: `FileClient.ch` has no sender, so `FileClient.handle` is
unreachable.

### Web

`x[r]` is a request of the page with everything it touches: its goroutine, promise
and body, the messages sent, arrived and read, the server's handler and the
background `Read` that `net/http` starts beside it. Go functions called from
JavaScript run inside the page's event loop, which also delivers the messages of the
data channels: `events` is the request whose `cancel` occupies it, and `Arrive` and
`OnClose` need it free. Neither the close of a data channel nor the client's
`Timeout` ends a `Read` that already waits. `Channel.Write` waits until the data channel
is open or seen closed (`channel.go:211-214`), so `WriteRequest` does, and a channel need
not open (`ChannelOpens`). A response may be marked `Connection: close` (`closing`), as
net/http does when it leaves a request's body unread; the body of such a response, if it
has no trailer, is not read to its end by `Close`, and `CancelDrain` releases the Conn
with the rest under way. The model takes the backend's web server to be the acceptor of
the page's data channels, and the body of a response to end with its own length, not
with the connection. The model takes one data channel per
request, as nothing returns a channel to the pool.

## Runs

| Run | Checks | States |
|---|---|---|
| `channel` | `Ownership`, `ChunkFits`, `PanicNeedsOverlap`, `StreamInOrder`, `PipeSpec`, `ReleaseUnblocks`, `SessionAccepted` | 97,482 |
| `server` | `SessionHasBackend`, `RegistryLive`, `Isolation`, `FrontendsStay`, `BrokenLeaves` | 667,040 |
| `signalling` | `PollerUnique`, `PollerHasSession`, `OrphanHasNoPeer`, `PollEnds` | 82,842 |
| `signalling_poll` | `RunProceeds` | 45,195 |
| `files` | `LinkedHasRecord`, `LinkedUnchanged`, `StoreSpec` | 71,592 |
| `peer` | `ClosePanics`, `ConnectedNeverBlocks`, `CommandPanics`, `DownEndsPeer`, `CommandsServed` | 252,766 |
| `pool` | `EveryChannelServed` | 108,526 |
| `copy` | `HalfCloseSafe`, `StrandedByEOFOnly`, `NoCrossTalk`, `LateWriteBounded`, `LossReported`, `FailureEndsBoth` | 168,489 |
| `services` | `NilOnlyWithoutIds`, `DuplicateNeedsOverlap`, `FatalNeedsReader`, `InterruptExits`, `DialReturns` | 102,512 |
| `web` | `ReleaseAfterDrain`, `PromiseSettled`, `LoopReturns` | 426,421 |
| `files_new`, `files_exists` | found violated, see Findings | |

What they show, in words:

- **Channel.** Sessions, readers and Conns stay paired whatever the order of
  messages, accepts, reads and releases. The process can die in one way only:
  `OnMessage` sends on the `recvData` that a `Release` closes during that call. This
  is a defect the code has (nothing in it says otherwise), and the property pins
  down exactly how far it reaches.
  The channel implements `Pipe`.
- **Server.** A session exists exactly while its cluster has a backend; a
  registered websocket always has its handler, and one whose remote end is gone
  leaves, unless its handler is held up for good writing to a client that has stalled:
  without a write deadline one slow client keeps dead ones registered. A reconnecting
  client can still be deregistered by its former handler: `FrontendsStay` and
  `RegistryLive` allow that, since it is what the code does.
- **Signalling.** The Peer that negotiates or is connected is the listed one although
  deletion is by id; the lock closes the window between announcing and storing a
  session; held during a blocked announcement it delays pollers but does not stop them
  while the loop runs, nor does one negotiation stop another: `Run` waits for good
  only on an id whose own Peer no longer takes anything. A client replaced while it
  dials serves no Peer, and none of the replacements ever connects.
- **Peer.** Two handlers can both pass `IsClose` and the second `close` then
  panics; nothing else makes `Close` panic. One command that is not JSON is
  survived, a second may panic. A connection that goes down ends its Peer even if
  it recovers at once. `loopCommand` never ends with its Peer, and a Peer whose
  `Listen` failed is not closed: the code has no step for either.
- **Pool.** Labels never collide, so `OnChannelOpen` never passes over a channel.
- **Copy.** No direction's end cuts the other, no failure is lost, and a released
  session's copier never writes the next session's bytes to its TCP connection.
  Two clean ends strand `GoCopy` for good, with both connections open: the code
  does that, and `StrandedByEOFOnly` says that nothing else does. Bytes that go out
  after a release, into a session of somebody else, are those of one `Write` at most;
  a `Write` cut off half way always becomes a failure of its copier. That is about bytes
  read from TCP: in the other direction `Channel.Read` ends with a clean EOF when the
  data channel closes, whatever was still queued.
- **Services and Dial.** A Dial comes back with nil and no error, which ends the
  process, exactly when the cluster lists no backend: with the stub of `GetCluster`
  that is every Dial. With ids, a signalling client without a websocket ends it
  too. The padding of the list gives an empty id as many Peers as there are backends;
  a backend has one unless two Dials overlap. The read without a lock may stop the
  process; no two writers do. Every Dial returns or the process is gone, and an
  interrupted process ends.
- **Web.** A Conn is released only drained or with its data channel closed, but for the
  cancel of a response marked `Connection: close`. A promise is settled unless the data
  channel never opens, or closes under a `Read` that waits; `cancel` gives
  the event loop back unless it comes before the whole response has arrived, when the
  page hangs. The exceptions are what the code does.
- **Files.** Links never lead to unknown files, linked content never changes, no file
  is written twice and no ack precedes its link; but see the findings.

### Bounds

Channel: both types; two sessions, so that a late message, a second take and a stale
Conn occur; queue and accept capacities of 1 so that both fill; batch and buffer size 2
against messages and slices of 1 and 3, so that cutting, buffering and direct reads all
happen; 3 bytes (4 bytes, 314,596 states, give the same results in three minutes).
SigServer: three websockets, two names and two ids make a frontend, a backend and its
successor under the same id, two senders to one receiver, or two clusters; one of them
may stall (`Slow`), which is enough to hold another up while the third goes on.
Signalling: two clients, since every replacement fails like the first, and two ids,
which make concurrent writers; three ids for a full `newClient` with a third
announcement waiting and a poller alive; capacities 1. FileStore: two contents, two
paths, two chunks. Peer: three state changes allow connected, disconnected and failed,
or connected again, with all handlers pending; two commands, both bad, or a good one
before or after a bad one. Pool: two callers, two types, three indices, one of which may
be lost to a failed creation. Copy: two connections, the second accepted while the first
is copied or after it is stranded; writes of two batches, so that one can be cut in the
middle. Services: two forwards dial a cluster of no backend, of one or of two, padded to
twice its length, so that Connects overlap and a later Connect can fail; six Peers,
which is one full list and half of a second. Web: two requests, so that one occupies the
loop the other needs; two messages, so that a response can be half there when its
channel closes, or when it is cancelled and left unread.

`CHECK_DEADLOCK FALSE` in all runs: the remote ends may stop sending, a process
may have died, and the bounds on sessions, bytes and clients stop the model.

Symmetry is used for keys, paths and callers, in runs without liveness properties.

### Fairness

- `Channel`: pion's read loop, the accept loop and calls in progress continue when they
  can. That the accept loop does is `http.Serve`'s: the ssh, file and proxy loops stop
  at the first error, after which nobody accepts and the promise is void. Nothing is
  assumed of the remote end or of the Conns' users.
- `SigServer`: a handler continues, a write to a websocket whose remote end still reads
  returns, one to a stalled websocket need not, and a handler that keeps reading
  from a broken websocket meets the error (strong, because packets already
  received come first, and there are finitely many).
- `Signalling`: `Run` and the loop continue; a write returns once `Run` has closed the
  websocket, and need not before; nothing is assumed of dials and candidates; the lock
  is fair (strong: Go's RWMutex does not starve a waiting writer); an expired context
  stays ready in `PollOffer`'s select, which chooses among ready cases at random
  (strong).
- `Peer`: goroutines continue and the keepalive's one-minute timer fires. Neither
  state changes nor messages are assumed to come.
- `Copy`: an end of input or an error of the TCP connection is met, reports are
  sent, `GoCopy` continues. A write that would fail, and a Read that meets a closed
  data channel, need not happen; the next session may stay silent.
- `Services`: main's timer fires, a service that waits for the context sees it, and a
  Dial goes on: `sync.Mutex` starves no one (strong) and `Connect` ends after its two
  minutes. Nobody need connect, send a header or end a session.
- `Web`: the page's goroutines and the server's handlers run; messages are delivered if
  the loop is free again and again (strong). No data channel need open or close.
  `PromiseSettled` assumes that it is.

## Findings

1. `files_new`: `GetOrSet` (`db/kv.go:29`) returns `ErrKeyNotFound` for a key that is
   not there instead of setting it, so `upload` refuses every new file.
2. `files_exists`: the record is inserted before the file is created; after a
   failure or crash in between, the branch "exists, copy file" links a path to a
   file that does not exist.

Met while modelling, without a run of its own, as no comment, doc or test says
otherwise or the model simply takes it over:

- `PreUpload` answers 200 with the path of a copy that it never inserts
  (`backend/web.go:138`), so that `Head` and `Open` do not find it.
- `NewListener` does not keep its `wsURL` (`net/listener.go:34-42`), so that no
  signalling client after the first can connect (`:115`).
- Several goroutines write to one websocket without a lock (`net/conn/peer.go:184`).
- The frontend's signalling client never runs, and its nil websocket is dereferenced by
  the first Connect (`net/conn/ws-sig.go:137`).
- `GetBackends` pads its list with empty ids (`server/server.go:64`), and `GetCluster`
  does not ask for it (`net/clients.go:63-67`).
- The relay looks its target up by the sender's id (`server/ws.go:79` and `:81`).
- Writes of the server have no deadline (`server/backend.go:27`).
- `Channel.Read` drops queued chunks when the data channel closes, with a clean EOF
  (`net/conn/channel.go:196-200`), and `GoCopy` does not pass a half close on.

## Proofs

All proofs are for every value of the constants, under the `ASSUME` of each module.

- `ChannelProofs`. `Ownership` is the inductive invariant: sessions are accepted in
  order (`InvAccept`), all before the current one are over (`InvEnded`), an active
  channel's session is not (`InvActive`), a reader is closed only by the Conn of its
  session (`InvClosed`), an overlap is recorded while it can matter (`InvOverlap`), a
  Conn not yet released waits in its own reader (`InvReads`), chunks are bounded
  (`InvChunks`). None of the properties is inductive without it: that no reader is
  closed twice needs that a Conn cannot be at "close" unless its own session is current.
  From it follow `ReadNeverPanics` (from batchSize <= buffer size only),
  `ReleaseClosesOnce`, `PanicOnlyByOverlap`, `ConnReadsOwnSession`, `SessionsQueuedOnce`
  and the action property `ReadersReplacedAfterRelease`. The second half of the module
  proves `ByteStreamKept` and `ChannelImplementsPipe`. What `OnData` still holds,
  `recvData`, bufio's buffer and what each session has returned are one rising row of
  byte numbers, with nothing missing while the channel is open (`InvStream`, which adds
  that a reader somebody waits in is empty and has one user); the lemmas say that
  cutting, appending to and taking from such a row keep it one. The refinement then
  takes one step per action of `Channel`: most stutter, the replacement of the reader is
  `Start`, the end of `Release` is `End`, a `Read` that returns is `Deliver`.
- `SigServerProofs`. `IInv` adds to the properties that a name without a session
  has no frontends (`NoOrphans`), without which `DelFrontend` and `AddFrontend` could
  not be told apart from writes to a dropped session, and that handlers past their
  header have a name and id (`Headers`). `SessionsHaveBackends`, `RegistryIsLive`,
  `PacketsStayInCluster` and `FrontendsAreKept` follow.
- `SignallingProofs`. `IInv` says of a client that it announces nothing before it has
  connected, which only the first does, is closed only while it dials or once it has
  stopped, and knows the id it announces (`SigOK`); of a Peer that it is the one listed
  for its id until it is gone, that it is on the first client, which knows that id
  (`Known`: stored, or at "insert" under the lock), and that this client is the
  listener's or has stopped while it polls (`PeerOK`). `Known` is what makes
  `SessionFound` inductive: between the announcement and the store only the lock keeps
  the Peer from polling. `Distinct` says that what is announced has never had a Peer: an
  announcement needs an id without a session, and sessions are never removed.
  `OnePeerPerId` rests on it, and `OneNegotiation` states it. That the loop finds a free
  slot for a new Peer is a pigeonhole argument from `Distinct` (`SlotFree`).
- `FileStoreProofs`. `IInv` adds what `upload` knows in each branch (`Recorded`) and
  that a file being written is linked from nowhere (`Private`). `LinksHaveRecords`,
  `AcksAreLinked` and `LinkedContentIsStable` follow. The refinement `StoreIsWriteOnce`
  needs in addition that only files with a record are on disk, and so that the file
  `os.Create` is about to make is not there (`Fresh`, kept by `FilesCreatedOnce`):
  records are never deleted, and `upload` creates a file only after it has inserted the
  first record of its key. `InsertFile` is then `Record`, `Create` and `CopyChunk` are
  `Write`, both links are `Link`; the other steps end a write or an ack, or stutter, and
  a crash never does both, as an upload that writes has no ack yet.
- `PeerProofs`. `InvClose`: without an overlap at most one handler is past
  `IsClose`, and none once the channel is closed. `InvConnected`: every connected
  event but the first follows a disconnected one, and a token comes from a handler
  that has ended, so a full slot and a waiting handler are two connected events.
  `InvCommand` counts bad messages against the ends of `loopCommand`.
- `PoolProofs`. Labels are unique (`InvLabels`) because an index handed out and not
  yet used belongs to one Get and occurs in no label (`InvFresh`, `InvIndex`). That
  `parseLabel` accepts every label needs indices that fit an `int` (`PoolAssumption`).
  `ActivesMissNothing`: until two Gets write the map at once it has every channel that
  was returned.
- `CopyProofs`. `Sound` says of each connection that whatever follows a failure has a
  failed connection as its cause, how far the closes are, that a report made while
  `GoCopy` waits is in `ch`, that only a released session has a successor, and how
  much of a write can be left when the session is released.
- `FrontendProofs`, for `Services` with its `Dial`. `IInv` adds that a Connect has a
  Peer of its own (`MineOK`); that the mutex has one holder, about to write a map
  (`LockBrief`); that a Dial reaches its final `range` only with a Peer in the map or
  without ids, since as long as `Connect` has added none it still has all the ids before
  it and fails when they run out (`PeerOrNoIds`); that until two Connects overlap there
  is at most one, which has before it a list that repeats nothing but the empty id, and
  no backend that has a Peer (`Single`); that a Peer is in the map only once a Connect
  has succeeded, which takes ids and a websocket (`Signalled`, `ForwardOK`); and that a
  panic has the want of one of the two as its cause (`PanicOK`). `DuplicateNeedsOverlap`
  is not inductive without `Single`, nor `NilOnlyWithoutIds` without `PeerOrNoIds`.
  `PanicHasCause` and `ForwardNeedsSignalling` are the two sides of the frontend's state
  at this commit: its forwards get no Conn, and what they do instead. The one assumption
  besides the bound on Peers is that a cluster has finitely many backends: `ids` is a
  slice that lists them.
- `FrontendProofs`, for `Web`. `Drained` says of a request what has been read, arrived
  and sent, that nothing is released or cancelled before there is a body, and that a body
  about to be closed has been read to its end unless its channel has closed or its cancel
  has released already; the cancel of a response marked `Connection: close` is the case it
  excepts. `ReleaseAfterDrain` is its conclusion for the Conn. A response has
  at least one message, its head (`WebAssumption`).

Only model-checked: the liveness properties (`ReleaseUnblocks`, `SessionAccepted`,
`BrokenLeaves`, `PollEnds`, `RunProceeds`, `DownEndsPeer`, `CommandsServed`,
`FailureEndsBoth`, `InterruptExits`, `DialReturns`, `PromiseSettled`, `LoopReturns`),
which are out of the prover's reach: they rest on fairness, and so on ENABLED. Every
safety property that a passing run checks is also a theorem. Only proved, as the runs
ask other questions: `NoDoubleClose`, `OwnSession`, `AcceptedOnce` and `SessionEnds` of
`Channel`, `ActivesComplete` of `Pool`, `AckedIsLinked` and `Fresh` of `FileStore`,
`Distinct` of `Signalling`, `LockBrief`, `PanicOK` and `ForwardOK` of the frontend, and
the inductive invariants with the modules' `TypeOK`.

## Not modelled

- The frontend's signalling client beyond what a Dial sees of it: nobody starts its
  `Run`, so that it never connects at this commit; `Connect` panics without a websocket
  (`wired`), and with one is a success or a failure.
- A response whose body ends with the connection (neither a length nor chunks).
- Code without callers: `Channel.Close`, `CloseSession`, `ChannelPool.Close`,
  `Backend.Close`, `getPeer`, `FileClient.handle`, and `IncrReference`, `Rename`, `Scan`,
  `Delete` and the tree nodes of `db/file`.
- `net/conn/signalinger.go` and the polled handlers of the server: commented out but
  for the `Signalinger` interface and `GET /api/cluster`, which only reads.
- The ssh and scp clients: straight-line I/O over one Dial and, for ssh, terminal
  modes. `GoHttp1`: requests by the browser's own fetch. The read-only handlers of the
  web server.
- Previews, configuration, middlewares, message types, errors and the other commands:
  no state that outlives a call.

pion, gorilla, badger, bufio and net/http appear only through what the code can see of
them. The backend's side of a composition of `SigServer` and `Signalling` is covered
by letting `Signalling` receive any packets: what the server adds, that they come from
the same cluster, is `Isolation`.

## Plan

1. Abstract specifications of the signalling server (who may reach whom) and of a
   `PeersClient`, refined by `SigServer` and `Dial`.
2. The frontend's signalling client, once something runs it, and the negotiation of an
   offering Peer with an answering one.
