------------------------------- MODULE Channel -------------------------------
(***************************************************************************)
(* The receiving end of one WebRTC data channel (net/conn/channel.go) and  *)
(* the net.Conn objects handed out over it (net/conn.go).                  *)
(*                                                                         *)
(* A channel is pooled: TakeConn starts a session with a fresh             *)
(* ChannelReader, Release ends it and makes the channel Idle again.  c.rd  *)
(* and c.buffer, the bufio.Reader over it, are replaced by each TakeConn;  *)
(* sessions are numbered 1, 2, ... and "session" is the number of the      *)
(* reader c.rd points to (0: nil).                                         *)
(*                                                                         *)
(* Goroutines: pion's read loop running OnMessage, one message at a time;  *)
(* the callbacks OnOpen and OnClose; the users of the Conns; the accept    *)
(* loop.  They share status, c.rd and c.buffer without a lock.             *)
(*                                                                         *)
(* Bytes are the numbers 1, 2, 3, ... in the order the remote end sent     *)
(* them; a message or a chunk is a sequence of them.                       *)
(***************************************************************************)
EXTENDS Integers, Sequences

CONSTANTS
    BatchSize,    \* Channel.batchSize (4096)
    BufSize,      \* buffer of bufio.NewReader (4096)
    QueueCap,     \* capacity of ChannelReader.recvData (10)
    AcceptCap,    \* capacity of Listener.accept (100)
    MsgSizes,     \* sizes of the messages the remote end sends
    ReadSizes,    \* sizes of the slices the users read into
    MaxSession,   \* bound: sessions of the channel
    MaxBytes      \* bound: bytes sent by the remote end

ASSUME ChannelAssumption ==
    /\ BatchSize \in Nat \ {0} /\ BufSize \in Nat /\ BatchSize <= BufSize
    /\ QueueCap \in Nat \ {0} /\ AcceptCap \in Nat \ {0}
    /\ MsgSizes \subseteq Nat \ {0} /\ ReadSizes \subseteq Nat \ {0}
    /\ MaxSession \in Nat \ {0} /\ MaxBytes \in Nat

Session == 1 .. MaxSession
Bytes == Seq(Nat)

VARIABLES
    type,      \* Channel.Type: "offer", taken by Get, or "answer", taken by
               \* OnMessage; it never changes
    status,    \* Channel.status: "idle" or "active"
    session,   \* the ChannelReader in c.rd / c.buffer, 0 when nil
    rd,        \* rd[s]: the ChannelReader of session s, and its bufio buffer
    opened,    \* c.open is closed
    closed,    \* c.close is closed
    wire,      \* messages pion has received and not yet handed to OnMessage
    sent,      \* number of bytes the remote end has sent
    om,        \* the OnMessage call in progress
    acceptq,   \* entries of this channel in Listener.accept
    nconns,    \* Conns created so far; Conn k is the k-th
    conn,      \* conn[k]: the Conn (net/conn.go) number k
    panic,     \* why the process died, "none" while it runs
    raced      \* two Conns were inside the same bufio.Reader at once

pion == <<opened, closed, wire, sent>>
chan == <<status, session>>
accepting == <<type, acceptq, nconns>>
vars == <<pion, chan, accepting, rd, om, conn, panic, raced>>

\* A ChannelReader: recvData and its closed flag, the bytes the bufio.Reader
\* over it holds, and (history) the bytes handed out.
Reader == [queue : Seq(Bytes), closed : BOOLEAN, buf : Bytes, got : Bytes]
NewChannelReader == [queue |-> <<>>, closed |-> FALSE, buf |-> <<>>,
                     got |-> <<>>]

\* OnMessage: the part of the message not yet in recvData, the reader it goes
\* to, and (history) whether a Release overlapped the call.
OnMessageState ==
    [pc : {"idle", "select", "take", "accept", "data", "push"},
     rest : Bytes, to : 0 .. MaxSession, overlap : BOOLEAN]

\* A Conn: how far its one Release (and the Close after it) has come, the Read
\* in progress ("at": its reader, 0 when there is none; "want": the slice's
\* size), and (history) the sessions it returned bytes of before its Release.
ConnState ==
    [release : {"no", "check", "close", "idle", "done", "closed"},
     at : 0 .. MaxSession, want : Nat, saw : SUBSET Session]
NewConn == [release |-> "no", at |-> 0, want |-> 0, saw |-> {}]

TypeOK ==
    /\ type \in {"offer", "answer"}
    /\ status \in {"idle", "active"}
    /\ session \in 0 .. MaxSession
    /\ rd \in [Session -> Reader]
    /\ opened \in BOOLEAN /\ closed \in BOOLEAN /\ raced \in BOOLEAN
    /\ wire \in Seq(Bytes)
    /\ sent \in 0 .. MaxBytes
    /\ om \in OnMessageState
    /\ acceptq \in 0 .. AcceptCap
    /\ nconns \in 0 .. MaxSession
    /\ conn \in [Session -> ConnState]
    /\ panic \in {"none", "send on closed channel", "close of closed channel",
                  "read out of memory"}

\* NewAnswerChannel registers an idle channel; an offering peer's Get creates
\* the channel with NewOfferChannel, takes it at once and wraps it in Conn 1.
Init ==
    /\ type \in {"offer", "answer"}
    /\ status = IF type = "offer" THEN "active" ELSE "idle"
    /\ session = IF type = "offer" THEN 1 ELSE 0
    /\ nconns = IF type = "offer" THEN 1 ELSE 0
    /\ rd = [s \in Session |-> NewChannelReader]
    /\ opened = FALSE /\ closed = FALSE /\ raced = FALSE
    /\ wire = <<>> /\ sent = 0 /\ acceptq = 0
    /\ om = [pc |-> "idle", rest |-> <<>>, to |-> 0, overlap |-> FALSE]
    /\ conn = [k \in Session |-> NewConn]
    /\ panic = "none"
-----------------------------------------------------------------------------
(* The data channel (pion).                                                *)

\* The remote end sends a message of n bytes; delivery is reliable and ordered.
RemoteSend(n) ==
    /\ sent + n <= MaxBytes
    /\ sent' = sent + n
    /\ wire' = Append(wire, [i \in 1 .. n |-> sent + i])
    /\ UNCHANGED <<opened, closed, chan, accepting, rd, om, conn, panic, raced>>

OnOpen ==
    /\ ~opened /\ opened' = TRUE
    /\ UNCHANGED <<closed, wire, sent, chan, accepting, rd, om, conn, panic,
                   raced>>

\* OnClose touches neither the status nor the reader.
OnClose ==
    /\ ~closed /\ closed' = TRUE
    /\ UNCHANGED <<opened, wire, sent, chan, accepting, rd, om, conn, panic,
                   raced>>
-----------------------------------------------------------------------------
(* OnMessage, run by pion's read loop for one message after the other.     *)

OnMessage ==
    /\ om.pc = "idle" /\ wire # <<>>
    /\ om' = [pc |-> "select", rest |-> Head(wire), to |-> 0,
              overlap |-> \E k \in Session : conn[k].release = "idle"]
    /\ wire' = Tail(wire)
    /\ UNCHANGED <<opened, closed, sent, chan, accepting, rd, conn, panic,
                   raced>>

\* case <-c.close: the message is dropped.
OnMessageClosed ==
    /\ om.pc = "select" /\ closed
    /\ om' = [om EXCEPT !.pc = "idle", !.rest = <<>>]
    /\ UNCHANGED <<pion, chan, accepting, rd, conn, panic, raced>>

\* Mutant: TakeConn without its test of the status.
TakeConnAnyStatus ==
    /\ om.pc = "select" /\ opened /\ session < MaxSession
    /\ status' = "active"
    /\ om' = [om EXCEPT !.pc = "take"]
    /\ UNCHANGED <<pion, session, accepting, rd, conn, panic, raced>>

\* case <-c.open, and TakeConn up to the assignment of the status.
TakeConnCheck ==
    /\ om.pc = "select" /\ opened
    /\ \/ /\ status = "idle" /\ session < MaxSession
          /\ status' = "active"
          /\ om' = [om EXCEPT !.pc = "take"]
       \/ /\ status # "idle"
          /\ om' = [om EXCEPT !.pc = "data"]
          /\ UNCHANGED status
    /\ UNCHANGED <<pion, session, accepting, rd, conn, panic, raced>>

\* Mutant: TakeConn keeps the reader it has.
TakeConnKeepReader ==
    /\ om.pc = "take"
    /\ session' = IF session = 0 THEN 1 ELSE session
    /\ om' = [om EXCEPT !.pc = IF type = "answer" THEN "accept" ELSE "data"]
    /\ UNCHANGED <<pion, status, accepting, rd, conn, panic, raced>>

\* The rest of TakeConn: a new reader for the new session.
TakeConn ==
    /\ om.pc = "take"
    /\ session' = session + 1
    /\ om' = [om EXCEPT !.pc = IF type = "answer" THEN "accept" ELSE "data"]
    /\ UNCHANGED <<pion, status, accepting, rd, conn, panic, raced>>

\* Mutant: a default case drops the channel instead of queueing it.
AcceptDropped ==
    /\ om.pc = "accept"
    /\ om' = [om EXCEPT !.pc = "data"]
    /\ UNCHANGED <<pion, chan, accepting, rd, conn, panic, raced>>

\* c.accept <- c blocks while the listener's queue is full.
OnMessageAccept ==
    /\ om.pc = "accept" /\ acceptq < AcceptCap
    /\ acceptq' = acceptq + 1
    /\ om' = [om EXCEPT !.pc = "data"]
    /\ UNCHANGED <<pion, chan, type, nconns, rd, conn, panic, raced>>

\* c.rd.OnData: c.rd is loaded once for the whole message.
OnData ==
    /\ om.pc = "data"
    /\ om' = [om EXCEPT !.pc = "push", !.to = session]
    /\ UNCHANGED <<pion, chan, accepting, rd, conn, panic, raced>>

min(a, b) == IF a < b THEN a ELSE b

\* Mutant: OnData sends the message as one chunk.
WholeMessage(rest) == Len(rest)

\* The next chunk of OnData's loop ends at min(i+batchSize, size).
ChunkLen(rest) == min(BatchSize, Len(rest))

\* r.recvData <- chunk: blocks on a full queue, panics on a closed one.
OnDataPush ==
    /\ om.pc = "push" /\ om.rest # <<>>
    /\ \/ /\ rd[om.to].closed
          /\ panic' = "send on closed channel"
          /\ UNCHANGED <<rd, om>>
       \/ /\ ~rd[om.to].closed /\ Len(rd[om.to].queue) < QueueCap
          /\ rd' = [rd EXCEPT ![om.to].queue =
                        Append(@, SubSeq(om.rest, 1, ChunkLen(om.rest)))]
          /\ om' = [om EXCEPT !.rest = SubSeq(@, ChunkLen(@) + 1, Len(@))]
          /\ UNCHANGED panic
    /\ UNCHANGED <<pion, chan, accepting, conn, raced>>

OnDataDone ==
    /\ om.pc = "push" /\ om.rest = <<>>
    /\ om' = [om EXCEPT !.pc = "idle"]
    /\ UNCHANGED <<pion, chan, accepting, rd, conn, panic, raced>>
-----------------------------------------------------------------------------
(* Listener.Accept and the methods of Conn k.  A past read deadline makes  *)
(* Read return before it touches the channel; any other deadline has no    *)
(* effect, because getRdl stops the timer it returns.                      *)

Conns == 1 .. nconns

Accept ==
    /\ acceptq > 0 /\ nconns < MaxSession
    /\ acceptq' = acceptq - 1
    /\ nconns' = nconns + 1
    /\ UNCHANGED <<pion, chan, type, rd, om, conn, panic, raced>>

\* Mutant: what does not fit the slice is dropped from the buffer.
ReturnedShort(r, bytes, n) ==
    [r EXCEPT !.buf = <<>>,
              !.got = @ \o SubSeq(bytes, 1, min(n, Len(bytes)))]

\* The reader after its bufio.Reader, holding bytes, has returned n of them.
Returned(r, bytes, n) ==
    [r EXCEPT !.buf = SubSeq(bytes, min(n, Len(bytes)) + 1, Len(bytes)),
              !.got = @ \o SubSeq(bytes, 1, min(n, Len(bytes)))]

\* The Conn after its Read has returned bytes of session s.
DoneReading(c, s) ==
    [c EXCEPT !.at = 0, !.want = 0,
              !.saw = IF c.release = "no" THEN @ \cup {s} ELSE @]

\* Another Conn is blocked inside the bufio.Reader of session s.
BufferBusy(k, s) == \E j \in Conns \ {k} : conn[j].at = s

\* Read into a slice of n bytes: buffered bytes are returned; with none, a
\* closed channel is EOF and an open one makes the caller wait for a chunk.
Read(k, n) ==
    /\ k \in Conns /\ conn[k].at = 0 /\ session > 0 /\ ~BufferBusy(k, session)
    /\ \/ /\ rd[session].buf # <<>>
          /\ rd' = [rd EXCEPT ![session] = Returned(@, @.buf, n)]
          /\ conn' = [conn EXCEPT ![k] = DoneReading(@, session)]
       \/ /\ rd[session].buf = <<>> /\ ~closed
          /\ conn' = [conn EXCEPT ![k].at = session, ![k].want = n]
          /\ UNCHANGED rd
    /\ UNCHANGED <<pion, chan, accepting, om, panic, raced>>

\* Two Conns of the channel inside one bufio.Reader: a data race.  What they
\* return is unspecified and not tracked.
ReadRace(k) ==
    /\ k \in Conns /\ conn[k].at = 0 /\ session > 0 /\ BufferBusy(k, session)
    /\ raced' = TRUE
    /\ UNCHANGED <<pion, chan, accepting, rd, om, conn, panic>>

\* ChannelReader.Read for the blocked Read of Conn k: the next chunk goes
\* into bufio's buffer, or straight into a slice at least as large.
ReadChunk(k) ==
    LET s == conn[k].at
        data == Head(rd[s].queue)
        dequeued == [rd[s] EXCEPT !.queue = Tail(rd[s].queue)]
        space == IF conn[k].want >= BufSize THEN conn[k].want ELSE BufSize
    IN
    /\ s > 0 /\ rd[s].queue # <<>>
    /\ panic' = IF Len(data) > space THEN "read out of memory" ELSE panic
    /\ rd' = [rd EXCEPT ![s] = Returned(dequeued, data, conn[k].want)]
    /\ conn' = [conn EXCEPT ![k] = DoneReading(@, s)]
    /\ UNCHANGED <<pion, chan, accepting, om, raced>>

\* recvData is closed and drained: io.EOF.
ReadEOF(k) ==
    /\ conn[k].at > 0 /\ rd[conn[k].at].queue = <<>> /\ rd[conn[k].at].closed
    /\ conn' = [conn EXCEPT ![k].at = 0, ![k].want = 0]
    /\ UNCHANGED <<pion, chan, accepting, rd, om, panic, raced>>

\* Conn.Release acts once: isRelease is tested and set under the Conn's lock,
\* which is held until Channel.Release returns.
MayRelease(k) == conn[k].release = "no"

Release(k) ==
    /\ k \in Conns /\ MayRelease(k)
    /\ conn' = [conn EXCEPT ![k].release = "check"]
    /\ UNCHANGED <<pion, chan, accepting, rd, om, panic, raced>>

\* Channel.Release: nothing to do unless the channel is Active.
ReleaseCheck(k) ==
    /\ conn[k].release = "check"
    /\ conn' = [conn EXCEPT ![k].release = IF status = "active" THEN "close"
                                                                ELSE "done"]
    /\ UNCHANGED <<pion, chan, accepting, rd, om, panic, raced>>

\* Mutant: Channel.Release does not close the reader.
ReleaseKeepsReader(k) ==
    /\ conn[k].release = "close"
    /\ conn' = [conn EXCEPT ![k].release = "idle"]
    /\ UNCHANGED <<pion, chan, accepting, rd, om, panic, raced>>

\* c.rd.Release() closes recvData of the reader now in c.rd.
ReleaseReader(k) ==
    /\ conn[k].release = "close"
    /\ panic' = IF rd[session].closed THEN "close of closed channel"
                                      ELSE panic
    /\ rd' = [rd EXCEPT ![session].closed = TRUE]
    /\ conn' = [conn EXCEPT ![k].release = "idle"]
    /\ om' = [om EXCEPT !.overlap = @ \/ om.pc # "idle"]
    /\ UNCHANGED <<pion, chan, accepting, raced>>

\* c.status = Idle, and the Conn's lock is released.
ReleaseIdle(k) ==
    /\ conn[k].release = "idle"
    /\ status' = "idle"
    /\ conn' = [conn EXCEPT ![k].release = "done"]
    /\ UNCHANGED <<pion, session, accepting, rd, om, panic, raced>>

\* Conn.Close: after its Release, closes Conn.close once.
Close(k) ==
    /\ conn[k].release = "done"
    /\ conn' = [conn EXCEPT ![k].release = "closed"]
    /\ UNCHANGED <<pion, chan, accepting, rd, om, panic, raced>>
-----------------------------------------------------------------------------
ReadLoop == \/ OnMessage \/ OnMessageClosed \/ TakeConnCheck \/ TakeConn
            \/ OnMessageAccept \/ OnData \/ OnDataPush \/ OnDataDone

ReadSteps(k) == ReadChunk(k) \/ ReadEOF(k)

ReleaseSteps(k) == ReleaseCheck(k) \/ ReleaseReader(k) \/ ReleaseIdle(k)

UserCalls(k) == \/ \E n \in ReadSizes : Read(k, n)
                \/ ReadRace(k) \/ Release(k) \/ Close(k)

\* A panic in any of these goroutines ends the process: none has a recover.
Next ==
    /\ panic = "none"
    /\ \/ OnOpen \/ OnClose \/ \E n \in MsgSizes : RemoteSend(n)
       \/ ReadLoop \/ Accept
       \/ \E k \in Session : UserCalls(k) \/ ReadSteps(k) \/ ReleaseSteps(k)

Spec == Init /\ [][Next]_vars

\* Goroutines that can run do run: pion's read loop, the accept loop, calls in
\* progress.  The remote end and the users of the Conns owe nothing.
Running(A) == panic = "none" /\ A

FairSpec ==
    /\ Spec
    /\ WF_vars(Running(ReadLoop)) /\ WF_vars(Running(Accept))
    /\ \A k \in Session : /\ WF_vars(Running(ReadSteps(k)))
                          /\ WF_vars(Running(ReleaseSteps(k)))
-----------------------------------------------------------------------------
(* Properties.                                                             *)

\* The assertion of ChannelReader.Read, panic("read out of memeroy!"), never
\* fires: OnData cuts every message into chunks that fit bufio's buffer.
ChunkFits == panic # "read out of memory"

\* recvData is closed at most once: no interleaving of the Releases of the
\* Conns that share a channel closes a reader twice.
NoDoubleClose == panic # "close of closed channel"

\* OnMessage sends on a closed recvData only when a Release overlapped this
\* very call; a channel released and taken again in sequence is safe.
PanicNeedsOverlap == panic = "send on closed channel" => om.overlap

\* A Conn that has not been released returns bytes of its own session only:
\* the k-th Conn of a channel reads the k-th session.
OwnSession == \A k \in Session : conn[k].saw \subseteq {k}

\* Every session OnMessage starts on an answering channel is queued for Accept
\* exactly once, before its first byte is readable.
AcceptedOnce ==
    (type = "answer" /\ om.pc # "accept") => session = nconns + acceptq

\* TakeConn replaces the reader of a session only after the session was
\* accepted and its Conn's Release has run to the end.
SessionEnds ==
    [][session' # session =>
         \A s \in 1 .. session :
             s \in Conns /\ conn[s].release \in {"done", "closed"}]_vars

\* A Read that waits for data of its session returns once its Conn is
\* released (GoCopy and the proxies end this way), unless the process dies.
ReleaseUnblocks ==
    \A k \in Session :
        (conn[k].at = k /\ conn[k].release # "no")
            ~> (conn[k].at = 0 \/ panic # "none")

\* Every session that starts on an answering channel gets its Conn from
\* Accept, unless the process dies.
SessionAccepted ==
    \A k \in Session :
        (type = "answer" /\ session >= k) ~> (nconns >= k \/ panic # "none")
-----------------------------------------------------------------------------
(* The inductive invariant behind the properties (see ChannelProofs).      *)

Released(k) == conn[k].release \in {"done", "closed"}

\* Every session started has been accepted, is queued, or is being queued; an
\* offering channel has the one Conn that Get made.
InvAccept ==
    IF type = "offer"
    THEN nconns = 1 /\ acceptq = 0 /\ session >= 1 /\ om.pc # "accept"
    ELSE session = nconns + acceptq + (IF om.pc = "accept" THEN 1 ELSE 0)

\* Conns that do not exist yet are untouched.
InvConns == \A k \in Session : k > nconns => conn[k] = NewConn

\* Sessions end in order: all before the current one are over, and the
\* current one too while the channel is Idle or is being taken.
InvEnded ==
    \A k \in Session :
        (k < session \/ (k = session /\ (status = "idle" \/ om.pc = "take")))
            => Released(k)

\* An Active channel has a session that is not over, and a message is
\* delivered to the session that is current.
InvActive ==
    /\ om.pc = "take" => status = "active" /\ session < MaxSession
    /\ (status = "active" /\ om.pc # "take") =>
           session > 0 /\ ~Released(session)
    /\ om.pc \in {"accept", "data", "push"} => session > 0
    /\ om.pc = "push" => om.to = session

\* A reader is closed by the Release of the Conn of its own session.
InvClosed ==
    \A s \in Session :
        rd[s].closed => /\ s <= session
                        /\ conn[s].release \in {"idle", "done", "closed"}

\* A Release between its two writes, or the closed reader it leaves behind, is
\* seen by the OnMessage call in progress as an overlap.
InvOverlap ==
    /\ (om.pc # "idle" /\ \E k \in Session : conn[k].release = "idle")
           => om.overlap
    /\ (om.pc \in {"accept", "data", "push"} /\ rd[session].closed)
           => om.overlap

\* A Conn not yet released waits inside the reader of its own session.
InvReads ==
    \A k \in Session :
        (conn[k].release = "no" /\ conn[k].at > 0) => conn[k].at = k

\* Chunks in recvData are at most batchSize long.
InvChunks ==
    \A s \in Session : \A i \in 1 .. Len(rd[s].queue) :
        Len(rd[s].queue[i]) <= BatchSize

\* The ownership discipline of a pooled channel: one session, one reader, one
\* Conn at a time, whatever the interleaving of OnMessage, Accept, Read and
\* Release.
Ownership ==
    /\ InvAccept /\ InvConns /\ InvEnded /\ InvActive
    /\ InvClosed /\ InvOverlap /\ InvReads /\ InvChunks
-----------------------------------------------------------------------------
(* The byte stream.                                                        *)

Elems(b) == {b[i] : i \in DOMAIN b}
Rising(b) == \A i, j \in DOMAIN b : i < j => b[i] < b[j]
Before(A, B) == \A x \in A, y \in B : x < y

\* A queue of messages or chunks: its bytes, and that they are in order.
All(q) == UNION {Elems(q[i]) : i \in DOMAIN q}
QueueInOrder(q) ==
    \A i \in DOMAIN q :
        /\ Rising(q[i])
        /\ \A j \in DOMAIN q : i < j => Before(Elems(q[i]), Elems(q[j]))

\* The bytes that have reached reader r, and those on their way to one.
HeldBy(r) == Elems(r.got) \cup Elems(r.buf) \cup All(r.queue)
OnTheWay == Elems(om.rest) \cup All(wire)

ReaderInOrder(r) ==
    /\ Rising(r.got) /\ Rising(r.buf) /\ QueueInOrder(r.queue)
    /\ Before(Elems(r.got), Elems(r.buf))
    /\ Before(Elems(r.got) \cup Elems(r.buf), All(r.queue))

PendingInOrder ==
    /\ Rising(om.rest) /\ QueueInOrder(wire)
    /\ Before(Elems(om.rest), All(wire))

\* What reached an earlier session was sent before what reached a later one,
\* and that before what is on its way.
SessionsInOrder ==
    \A s \in Session :
        /\ ReaderInOrder(rd[s])
        /\ Before(HeldBy(rd[s]), OnTheWay)
        /\ \A t \in Session : s < t => Before(HeldBy(rd[s]), HeldBy(rd[t]))

\* Every byte somewhere in the channel was sent, and while the channel is open
\* every byte sent is somewhere in the channel.
Conserved ==
    LET bytes == OnTheWay \cup UNION {HeldBy(rd[s]) : s \in Session}
    IN  bytes \subseteq 1 .. sent /\ (~closed => 1 .. sent \subseteq bytes)

\* Cutting messages into chunks, queueing, buffering and partial reads neither
\* duplicate nor reorder bytes, and lose none while the channel is open (OnData,
\* ChannelReader.Read and bufio's Read together), unless two Conns were inside
\* one bufio.Reader.
StreamInOrder == raced \/ (PendingInOrder /\ SessionsInOrder /\ Conserved)

\* A message is delivered before the next one is taken.
InvRest == om.pc = "idle" => om.rest = <<>>

\* Sessions not yet started hold nothing.
InvFuture == \A s \in Session : s > session => HeldBy(rd[s]) = {}

\* A bufio.Reader somebody waits in is empty and has no other user.
InvOneRead ==
    \A k \in Session :
        conn[k].at > 0 =>
            /\ rd[conn[k].at].buf = <<>>
            /\ \A j \in Session : conn[j].at = conn[k].at => j = k

\* The inductive invariant behind StreamInOrder (see ChannelProofs).
InvStream ==
    /\ PendingInOrder /\ SessionsInOrder /\ Conserved
    /\ InvRest /\ InvFuture /\ InvOneRead

\* Channel implements Pipe, the sequence of sessions over one byte stream that
\* the users of a pooled channel see.
Stream == INSTANCE Pipe WITH
    current <- session,
    over <- {s \in Session : Released(s)},
    broken <- closed,
    misused <- raced,
    got <- [s \in Session |-> rd[s].got]

PipeSpec == Stream!Spec
=============================================================================
