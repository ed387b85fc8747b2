-------------------------------- MODULE Web ---------------------------------
(***************************************************************************)
(* HTTP requests of a page to the backend's web server: the promises of    *)
(* GoHttp and GoHttpAsync (cmd/wasm/main.go), Transport.RoundTrip and the  *)
(* body it returns (net/transport.go), and the hooks of the web server     *)
(* (backend/web.go).  Each request has a Conn, and a data channel, of its  *)
(* own: nothing returns a channel to the pool.                             *)
(*                                                                         *)
(* A Go function that JavaScript calls runs inside the page's event loop,  *)
(* and the messages of the data channels arrive by that loop.  So while    *)
(* the "cancel" of a stream runs, nothing arrives.                         *)
(*                                                                         *)
(* Of net/http the model has: a body's mutex, held by a Read that waits;   *)
(* its Close, which reads to the end unless the response is marked         *)
(* Connection: close; and the server's background Read, which starts with  *)
(* the handler and has to end before the connection is idle.  Conn's       *)
(* SetReadDeadline does not reach a Read that waits, nor does the close of *)
(* the data channel; the client's Timeout does not reach a RoundTrip,      *)
(* which never looks at its context.                                       *)
(***************************************************************************)
EXTENDS Integers

CONSTANTS
    Request,    \* calls of GoHttp or GoHttpAsync
    Chunks,     \* messages of a response; the first holds its head
    Free        \* the event loop is idle

ASSUME WebAssumption == Chunks \in Nat \ {0} /\ Free \notin Request

VARIABLES
    hc,      \* Init: NewTransport running, hc set, or failed with hc nil
    events,  \* the event loop: Free, or the request whose cancel it runs
    x        \* x[r]: the request r, its response and its Conns

pageVars == <<hc, events, x>>

\* pc: the goroutine of the request and, for a stream, of its "start"; head and
\* body are between two Reads of the Conn, headWait and bodyWait in one that
\* waits.  sent, arrived, got: messages of the response sent, delivered to the
\* page's Channel, and read.  open: the page has seen the data channel open;
\* dead: it has closed; shut: the page has seen it.  closing: the response is
\* marked Connection: close, and has no trailer.  cancel: "cancel" waits for the
\* body's mutex, or drains.  early: (history) cancelled before all had arrived.
\* srv, bg: the handler, and the background Read, of the web server.
Exchange ==
    [kind : {"whole", "stream"},
     pc : {"none", "start", "dial", "write", "head", "headWait", "body",
           "bodyWait", "close", "done"},
     promise : {"none", "pending", "resolved", "rejected"},
     sent : 0 .. Chunks, arrived : 0 .. Chunks, got : 0 .. Chunks,
     open : BOOLEAN, dead : BOOLEAN, shut : BOOLEAN,
     closing : BOOLEAN, released : BOOLEAN,
     cancel : {"no", "lock", "drain", "done"}, early : BOOLEAN,
     srv : {"none", "request", "handle", "finish", "idle", "closed"},
     bg : {"none", "wait", "ended"}]

NewExchange(kind) ==
    [kind |-> kind, pc |-> "none", promise |-> "none",
     sent |-> 0, arrived |-> 0, got |-> 0,
     open |-> FALSE, dead |-> FALSE, shut |-> FALSE,
     closing |-> FALSE, released |-> FALSE,
     cancel |-> "no", early |-> FALSE, srv |-> "none", bg |-> "none"]

PageTypeOK ==
    /\ hc \in {"running", "set", "nil"}
    /\ events \in Request \cup {Free}
    /\ x \in [Request -> Exchange]

PageInit ==
    /\ hc = "running" /\ events = Free
    /\ \E k \in [Request -> {"whole", "stream"}] :
           x = [r \in Request |-> NewExchange(k[r])]

Set(r, y) == x' = [x EXCEPT ![r] = y] /\ UNCHANGED <<hc, events>>

PcIs(r, pc) == x[r].pc = pc
-----------------------------------------------------------------------------
(* The page: Init, and the goroutine of a request.                         *)

\* NewTransport connects, or fails; the functions are exported before it.
InitTransport ==
    /\ hc = "running"
    /\ hc' \in {"set", "nil"}
    /\ UNCHANGED <<events, x>>

\* Mutant: the request runs in the callback, not in a goroutine.
GoHttpInLoop(r) ==
    /\ PcIs(r, "none") /\ events = Free
    /\ x' = [x EXCEPT ![r].pc = "start", ![r].promise = "pending"]
    /\ events' = r
    /\ UNCHANGED hc

\* The page calls GoHttp or GoHttpAsync; the promise's handler starts a goroutine.
GoHttp(r) ==
    /\ PcIs(r, "none") /\ events = Free
    /\ Set(r, [x[r] EXCEPT !.pc = "start", !.promise = "pending"])

\* reject.Invoke(err), and the goroutine returns.
Rejected(y) == [y EXCEPT !.pc = "done", !.promise = "rejected"]

\* NewRequest fails, or hc is nil.
NewRequest(r) ==
    /\ PcIs(r, "start")
    /\ \/ Set(r, Rejected(x[r]))
       \/ hc = "set" /\ Set(r, [x[r] EXCEPT !.pc = "dial"])

\* Mutant: no connection is no error, and nothing is done.
DialIgnored(r) ==
    /\ PcIs(r, "dial")
    /\ \E pc \in {"write", "done"} : Set(r, [x[r] EXCEPT !.pc = pc])

\* RoundTrip: Dial gives a Conn, fails, or gives nil, which is "unknown conn".
Dial(r) ==
    /\ PcIs(r, "dial")
    /\ \/ Set(r, [x[r] EXCEPT !.pc = "write"])
       \/ Set(r, Rejected(x[r]))

\* RoundTrip fails after Dial: the deferred function releases the Conn.
RoundTripFails(r) == Set(r, [Rejected(x[r]) EXCEPT !.released = TRUE])

\* req.Write waits for the data channel to open, or to be seen closed; it fails
\* on one that has closed.
WriteRequest(r) ==
    /\ PcIs(r, "write")
    /\ \/ /\ x[r].open /\ ~x[r].dead
          /\ Set(r, [x[r] EXCEPT !.pc = "head", !.srv = "request"])
       \/ /\ x[r].dead /\ (x[r].open \/ x[r].shut)
          /\ RoundTripFails(r)

\* http.ReadResponse has the head of the response; GoHttpAsync resolves.
ReadHead(r) ==
    /\ x[r].pc \in {"head", "headWait"} /\ x[r].arrived > 0
    /\ Set(r, [x[r] EXCEPT !.pc = "body", !.got = 1,
                           !.promise = IF x[r].kind = "stream" THEN "resolved"
                                                               ELSE @])

\* A Read with nothing to return waits, unless the channel is seen to be closed.
ReadHeadWaits(r) ==
    /\ PcIs(r, "head") /\ x[r].arrived = 0 /\ ~x[r].shut
    /\ Set(r, [x[r] EXCEPT !.pc = "headWait"])

ReadHeadFails(r) ==
    /\ PcIs(r, "head") /\ x[r].arrived = 0 /\ x[r].shut
    /\ RoundTripFails(r)
-----------------------------------------------------------------------------
(* The body: ReadAll of GoHttp, the loop in "start" of GoHttpAsync.        *)

All(r) == x[r].got = Chunks

\* The body's mutex is free for the goroutine, and the body not closed.
Readable(r) == x[r].cancel \in {"no", "lock"}

\* A Read returns what has arrived.
ReadBody(r) ==
    /\ x[r].pc \in {"body", "bodyWait"} /\ Readable(r)
    /\ x[r].got < x[r].arrived
    /\ Set(r, [x[r] EXCEPT !.pc = "body", !.got = @ + 1])

ReadBodyWaits(r) ==
    /\ PcIs(r, "body") /\ Readable(r) /\ ~All(r)
    /\ x[r].got = x[r].arrived /\ ~x[r].shut
    /\ Set(r, [x[r] EXCEPT !.pc = "bodyWait"])

\* io.EOF: GoHttp resolves with the data, GoHttpAsync closes its stream.
ReadBodyEOF(r) ==
    /\ PcIs(r, "body") /\ Readable(r) /\ All(r)
    /\ Set(r, [x[r] EXCEPT !.pc = "close", !.promise = "resolved"])

\* The channel has closed too early, or "cancel" has closed the body: GoHttp
\* rejects; GoHttpAsync reports to its stream.
ReadBodyFails(r) ==
    /\ PcIs(r, "body")
    /\ \/ Readable(r) /\ ~All(r) /\ x[r].got = x[r].arrived /\ x[r].shut
       \/ x[r].cancel = "done"
    /\ Set(r, [x[r] EXCEPT !.pc = "close",
                           !.promise = IF x[r].kind = "whole" THEN "rejected"
                                                              ELSE @])

\* Deferred: res.Body.Close(), which has nothing left to read, then Release.
CloseBody(r) ==
    /\ PcIs(r, "close") /\ x[r].cancel # "drain"
    /\ Set(r, [x[r] EXCEPT !.pc = "done", !.released = TRUE])
-----------------------------------------------------------------------------
(* "cancel" of a stream: RespConnCloser.Close, in the event loop.          *)

\* The page cancels a stream that has been neither closed nor failed.
Cancel(r) ==
    /\ events = Free /\ x[r].kind = "stream" /\ x[r].cancel = "no"
    /\ x[r].pc \in {"body", "bodyWait"}
    /\ events' = r
    /\ x' = [x EXCEPT ![r].cancel = "lock",
                      ![r].early = x[r].arrived < Chunks]
    /\ UNCHANGED hc

\* Mutant: the Conn is released before the body is closed.
CancelLockReleases(r) ==
    /\ events = r /\ x[r].cancel = "lock" /\ x[r].pc # "bodyWait"
    /\ Set(r, [x[r] EXCEPT !.cancel = "drain", !.released = TRUE])

\* The body's mutex, which a Read that waits holds.
CancelLock(r) ==
    /\ events = r /\ x[r].cancel = "lock" /\ x[r].pc # "bodyWait"
    /\ Set(r, [x[r] EXCEPT !.cancel = "drain"])

\* The rest of the response is read, if it is there or the channel is seen to be
\* closed; with Connection: close it is left unread.  Then Release.
CancelDrain(r) ==
    /\ events = r /\ x[r].cancel = "drain"
    /\ x[r].closing \/ x[r].arrived = Chunks \/ x[r].shut
    /\ events' = Free
    /\ x' = [x EXCEPT ![r].cancel = "done", ![r].released = TRUE,
                      ![r].got = IF x[r].closing THEN @ ELSE x[r].arrived]
    /\ UNCHANGED hc
-----------------------------------------------------------------------------
(* The data channel and the web server.                                    *)

\* OnOpen, in the event loop.
ChannelOpens(r) ==
    /\ events = Free /\ x[r].pc \notin {"none", "start", "dial", "done"}
    /\ ~x[r].open /\ ~x[r].dead
    /\ Set(r, [x[r] EXCEPT !.open = TRUE])

Arrive(r) ==
    /\ events = Free /\ x[r].pc # "done" /\ ~x[r].shut
    /\ x[r].arrived < x[r].sent
    /\ Set(r, [x[r] EXCEPT !.arrived = @ + 1])

\* The data channel closes, while somebody can notice it; what is under way is
\* lost.
ChannelCloses(r) ==
    /\ \/ x[r].pc \notin {"none", "start", "dial", "done"}
       \/ x[r].srv \in {"request", "handle"}
    /\ ~x[r].dead
    /\ Set(r, [x[r] EXCEPT !.dead = TRUE])

OnClose(r) ==
    /\ events = Free /\ x[r].pc # "done" /\ x[r].dead /\ ~x[r].shut
    /\ Set(r, [x[r] EXCEPT !.shut = TRUE])

\* The request is accepted and read; a background Read starts, which ends at once
\* only if the channel is already closed: no second message ever comes.  net/http
\* may mark the response Connection: close, as when a body is left unread.
SrvRequest(r) ==
    /\ x[r].srv = "request"
    /\ \E closing \in BOOLEAN :
           Set(r, [x[r] EXCEPT !.srv = "handle", !.closing = closing,
                               !.bg = IF x[r].dead THEN "ended" ELSE "wait"])

\* The handler sends the response, and returns with the last message of it.
SrvSend(r) ==
    /\ x[r].srv = "handle" /\ ~x[r].dead
    /\ Set(r, [x[r] EXCEPT !.sent = @ + 1,
                           !.srv = IF x[r].sent + 1 = Chunks THEN "finish"
                                                             ELSE "handle"])

\* It fails to: the handler returns.
SrvSendFails(r) ==
    /\ x[r].srv = "handle" /\ x[r].dead
    /\ Set(r, [x[r] EXCEPT !.srv = "finish"])

\* Once the background Read has ended: ConnState gets StateIdle, and releases.
SrvIdle(r) ==
    /\ x[r].srv = "finish" /\ x[r].bg = "ended" /\ ~x[r].closing
    /\ Set(r, [x[r] EXCEPT !.srv = "idle"])

\* The next Read of the Conn fails, or there is none after Connection: close:
\* StateClosed, and Close.
SrvClosed(r) ==
    /\ \/ x[r].srv = "idle"
       \/ x[r].srv = "finish" /\ x[r].bg = "ended" /\ x[r].closing
    /\ Set(r, [x[r] EXCEPT !.srv = "closed"])
-----------------------------------------------------------------------------
Goroutine(r) ==
    \/ NewRequest(r) \/ Dial(r) \/ WriteRequest(r)
    \/ ReadHead(r) \/ ReadHeadWaits(r) \/ ReadHeadFails(r)
    \/ ReadBody(r) \/ ReadBodyWaits(r) \/ ReadBodyEOF(r) \/ ReadBodyFails(r)
    \/ CloseBody(r)

CancelRuns(r) == CancelLock(r) \/ CancelDrain(r)

WebServer(r) ==
    SrvRequest(r) \/ SrvSend(r) \/ SrvSendFails(r) \/ SrvIdle(r) \/ SrvClosed(r)

PageNext ==
    \/ InitTransport
    \/ \E r \in Request :
           \/ GoHttp(r) \/ Goroutine(r)
           \/ Cancel(r) \/ CancelRuns(r)
           \/ ChannelOpens(r) \/ Arrive(r) \/ ChannelCloses(r) \/ OnClose(r)
           \/ WebServer(r)

PageSpec == PageInit /\ [][PageNext]_pageVars

\* The goroutines run; the event loop, when it is free again and again, delivers
\* messages; handlers of the web server end.  No data channel need open.
FairPage ==
    /\ PageSpec
    /\ \A r \in Request :
           /\ WF_pageVars(Goroutine(r)) /\ WF_pageVars(CancelRuns(r))
           /\ SF_pageVars(Arrive(r)) /\ WF_pageVars(WebServer(r))
-----------------------------------------------------------------------------
(* Properties.                                                             *)

\* A Conn is released only when the response has been read to its end, or the
\* data channel has closed: a message that comes later would start a session
\* nobody has asked for.  So the streams, cancelled or not, drain first; the one
\* exception is the cancel of a response marked Connection: close.
ReleaseAfterDrain ==
    \A r \in Request :
        x[r].released =>
            All(r) \/ x[r].dead \/ (x[r].closing /\ x[r].cancel = "done")

\* The promise of a call is settled, if the event loop comes round, whatever
\* other requests do.  It stays pending only when its data channel never opens, or
\* closes while a Read waits: that ends neither the Write nor the Read, and the
\* client's Timeout reaches neither.
PromiseSettled ==
    []<>(events = Free) =>
        \A r \in Request :
            <>[](x[r].promise = "pending") =>
                <>[](x[r].dead \/ (PcIs(r, "write") /\ ~x[r].open))

\* A callback gives the event loop back, unless it cancels a stream whose
\* response has not all arrived: then the page hangs.
LoopReturns ==
    \A r \in Request : events = r ~> (events = Free \/ x[r].early)
=============================================================================
