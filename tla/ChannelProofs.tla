---------------------------- MODULE ChannelProofs ----------------------------
(* Proofs, for every value of the constants, that the pooled channel of     *)
(* Channel.tla keeps its types and its ownership discipline, that the       *)
(* safety properties follow, and (from "Byte strings and queues of them"    *)
(* on) that it keeps its byte stream in order, loses nothing while it is    *)
(* open, and implements the sessions of Pipe.tla.                           *)
EXTENDS Channel, SequenceTheorems, TLAPS

USE DEF pion, chan, accepting

-----------------------------------------------------------------------------
(* Sequences of bytes.                                                      *)

\* A byte string has a length.
LEMMA BytesLen == \A b \in Bytes : Len(b) \in Nat
    BY DEF Bytes

\* The part of a byte string between two positions is a byte string.
LEMMA SubBytes ==
    ASSUME NEW b \in Bytes, NEW m \in Nat \ {0}, NEW n \in 0 .. Len(b)
    PROVE  SubSeq(b, m, n) \in Bytes
<1>1. /\ Len(b) \in Nat /\ b \in [1 .. Len(b) -> Nat]
    BY DEF Bytes
<1>2. \A i \in m .. n : i \in 1 .. Len(b) /\ b[i] \in Nat
    BY <1>1
<1> QED
    BY <1>1, <1>2, SubSeqProperties DEF Bytes

\* min, the cut of OnData and of bufio's copy, stays within both bounds.
LEMMA MinBounds ==
    ASSUME NEW a \in Nat, NEW b \in Nat
    PROVE  min(a, b) \in Nat /\ min(a, b) <= a /\ min(a, b) <= b
BY DEF min

\* Handing out bytes keeps a reader a reader, with the same queue and flag.
LEMMA ReturnedType ==
    ASSUME NEW r \in Reader, NEW b \in Bytes, NEW n \in Nat
    PROVE  /\ Returned(r, b, n) \in Reader
           /\ Returned(r, b, n).queue = r.queue
           /\ Returned(r, b, n).closed = r.closed
<1> DEFINE l == min(n, Len(b))
<1>1. Len(b) \in Nat
    BY DEF Bytes
<1>2. l \in 0 .. Len(b) /\ l + 1 \in Nat \ {0}
    BY <1>1 DEF min
<1>3. SubSeq(b, 1, l) \in Bytes /\ SubSeq(b, l + 1, Len(b)) \in Bytes
    BY <1>1, <1>2, SubBytes
<1>4. r.got \o SubSeq(b, 1, l) \in Bytes
    BY <1>3 DEF Reader, Bytes
<1> QED
    BY <1>3, <1>4 DEF Returned, Reader

\* A Conn whose Read has returned is a Conn.
LEMMA DoneReadingType ==
    ASSUME NEW c \in ConnState, NEW s \in Session
    PROVE  /\ DoneReading(c, s) \in ConnState
           /\ DoneReading(c, s).release = c.release
           /\ DoneReading(c, s).at = 0
           /\ DoneReading(c, s).saw \subseteq c.saw \cup {s}
           /\ c.release # "no" => DoneReading(c, s).saw = c.saw
<1> DEFINE saw == IF c.release = "no" THEN c.saw \cup {s} ELSE c.saw
<1>1. /\ saw \in SUBSET Session /\ saw \subseteq c.saw \cup {s}
      /\ c.release # "no" => saw = c.saw
    BY DEF ConnState
<1>2. 0 \in 0 .. MaxSession /\ 0 \in Nat
    BY ChannelAssumption
<1>3. DoneReading(c, s) = [c EXCEPT !.at = 0, !.want = 0, !.saw = saw]
    BY Zenon DEF DoneReading
<1> HIDE DEF saw
<1> QED
    BY <1>1, <1>2, <1>3 DEF ConnState
-----------------------------------------------------------------------------
(* Type correctness.  TakeConn needs Ownership: it starts a session only    *)
(* while one is left, which TakeConnCheck has tested.                       *)

\* The counters are naturals within their bounds.
LEMMA Counters ==
    ASSUME TypeOK
    PROVE  /\ session \in Nat /\ session <= MaxSession
           /\ nconns \in Nat /\ nconns <= MaxSession
           /\ acceptq \in Nat /\ acceptq <= AcceptCap
           /\ sent \in Nat /\ sent <= MaxBytes
<1>1. /\ session \in 0 .. MaxSession /\ nconns \in 0 .. MaxSession
      /\ acceptq \in 0 .. AcceptCap /\ sent \in 0 .. MaxBytes
    BY Zenon DEF TypeOK
<1> QED
    BY <1>1, ChannelAssumption

\* Channel's initial state is well typed.
LEMMA TypeInit == Init => TypeOK
<1> SUFFICES ASSUME Init PROVE TypeOK
    OBVIOUS
<1>1. NewChannelReader \in Reader
    BY DEF NewChannelReader, Reader, Bytes
<1>2. NewConn \in ConnState
    BY ChannelAssumption DEF NewConn, ConnState
<1>3. om \in OnMessageState
    BY ChannelAssumption DEF Init, OnMessageState, Bytes
<1>4. wire \in Seq(Bytes)
    BY DEF Init
<1>5. rd \in [Session -> Reader] /\ conn \in [Session -> ConnState]
    BY <1>1, <1>2 DEF Init
<1>6. /\ session \in 0 .. MaxSession /\ nconns \in 0 .. MaxSession
      /\ acceptq \in 0 .. AcceptCap /\ sent \in 0 .. MaxBytes
    BY ChannelAssumption DEF Init
<1> QED
    BY <1>3, <1>4, <1>5, <1>6 DEF Init, TypeOK

\* pion's callbacks and read loop keep the types.
LEMMA TypeReadLoop ==
    ASSUME TypeOK, Ownership,
           OnOpen \/ OnClose \/ (\E n \in MsgSizes : RemoteSend(n)) \/ ReadLoop
    PROVE  TypeOK'
<1> USE ChannelAssumption
<1>1. ASSUME NEW n \in MsgSizes, RemoteSend(n) PROVE TypeOK'
    <2>1. n \in Nat /\ sent \in Nat
        BY Counters
    <2>2. [i \in 1 .. n |-> sent + i] \in Bytes
        BY <2>1 DEF Bytes
    <2>3. wire' \in Seq(Bytes)
        BY <1>1, <2>2, AppendProperties DEF RemoteSend, TypeOK
    <2>4. sent' \in 0 .. MaxBytes
        BY <1>1, <2>1 DEF RemoteSend
    <2> QED
        BY <1>1, <2>3, <2>4 DEF RemoteSend, TypeOK
<1>2. CASE OnOpen \/ OnClose
    BY <1>2 DEF OnOpen, OnClose, TypeOK
<1>3. CASE OnMessage
    <2>0. wire \in Seq(Bytes) /\ wire # <<>>
        BY <1>3 DEF OnMessage, TypeOK
    <2>1. Head(wire) \in Bytes /\ Tail(wire) \in Seq(Bytes)
        BY <2>0, HeadTailProperties
    <2>2. om' \in OnMessageState
        BY <1>3, <2>1 DEF OnMessage, OnMessageState
    <2> QED
        BY <1>3, <2>1, <2>2 DEF OnMessage, TypeOK
<1>4. CASE OnMessageClosed
    <2>0. <<>> \in Bytes
        BY DEF Bytes
    <2>1. om' \in OnMessageState
        BY <1>4, <2>0 DEF OnMessageClosed, OnMessageState, TypeOK
    <2> QED
        BY <1>4, <2>1 DEF OnMessageClosed, TypeOK
<1>5. CASE TakeConnCheck
    <2>1. om' \in OnMessageState
        BY <1>5 DEF TakeConnCheck, OnMessageState, TypeOK
    <2> QED
        BY <1>5, <2>1 DEF TakeConnCheck, TypeOK
<1>6. CASE TakeConn
    <2>1. om' \in OnMessageState
        BY <1>6 DEF TakeConn, OnMessageState, TypeOK
    <2>2. session \in Nat /\ session < MaxSession
        BY <1>6, Counters DEF TakeConn, Ownership, InvActive
    <2>3. session' \in 0 .. MaxSession
        BY <1>6, <2>2 DEF TakeConn
    <2> QED
        BY <1>6, <2>1, <2>3 DEF TakeConn, TypeOK
<1>7. CASE OnMessageAccept
    <2>1. om' \in OnMessageState
        BY <1>7 DEF OnMessageAccept, OnMessageState, TypeOK
    <2>2. acceptq' \in 0 .. AcceptCap
        BY <1>7, Counters DEF OnMessageAccept
    <2> QED
        BY <1>7, <2>1, <2>2 DEF OnMessageAccept, TypeOK
<1>8. CASE OnData
    <2>1. om' \in OnMessageState
        BY <1>8 DEF OnData, OnMessageState, TypeOK
    <2> QED
        BY <1>8, <2>1 DEF OnData, TypeOK
<1>9. CASE OnDataPush
    <2> DEFINE l == ChunkLen(om.rest)
               chunk == SubSeq(om.rest, 1, l)
               rest == SubSeq(om.rest, l + 1, Len(om.rest))
    <2>0. om.rest \in Bytes /\ om.to \in 0 .. MaxSession
        BY DEF TypeOK, OnMessageState
    <2>1. om.rest \in Bytes /\ Len(om.rest) \in Nat
        BY <2>0 DEF Bytes
    <2>2. l \in 0 .. Len(om.rest) /\ l + 1 \in Nat \ {0}
        BY <2>1 DEF ChunkLen, min
    <2>3. chunk \in Bytes /\ rest \in Bytes
        BY <2>1, <2>2, SubBytes
    <2>t. om.to = session /\ session > 0
        BY <1>9 DEF OnDataPush, Ownership, InvActive
    <2>4. om.to \in Session
        BY <2>t, Counters DEF Session
    <2>5. CASE rd[om.to].closed /\ UNCHANGED <<rd, om>>
                 /\ panic' = "send on closed channel"
        BY <1>9, <2>5 DEF OnDataPush, TypeOK
    <2>6. CASE /\ rd' = [rd EXCEPT ![om.to].queue = Append(@, chunk)]
               /\ om' = [om EXCEPT !.rest = rest]
               /\ UNCHANGED panic
        <3> HIDE DEF chunk, rest
        <3>1. om' \in OnMessageState
            BY <2>3, <2>6 DEF TypeOK, OnMessageState
        <3>0. rd[om.to] \in Reader
            BY <2>4 DEF TypeOK
        <3>a. Append(rd[om.to].queue, chunk) \in Seq(Bytes)
            BY <2>3, <3>0, AppendProperties DEF Reader
        <3>2. [rd[om.to] EXCEPT !.queue = Append(@, chunk)] \in Reader
            BY <3>0, <3>a DEF Reader
        <3>3. rd' \in [Session -> Reader]
            BY <2>4, <2>6, <3>2 DEF TypeOK
        <3> QED
            BY <1>9, <2>6, <3>1, <3>3 DEF OnDataPush, TypeOK
    <2> QED
        BY <1>9, <2>5, <2>6 DEF OnDataPush
<1>10. CASE OnDataDone
    <2>1. om' \in OnMessageState
        BY <1>10 DEF OnDataDone, OnMessageState, TypeOK
    <2> QED
        BY <1>10, <2>1 DEF OnDataDone, TypeOK
<1> QED
    BY <1>1, <1>2, <1>3, <1>4, <1>5, <1>6, <1>7, <1>8, <1>9, <1>10
    DEF ReadLoop

\* The accept loop and the users of the Conns keep the types.
LEMMA TypeUsers ==
    ASSUME TypeOK, Ownership,
           \/ Accept
           \/ \E k \in Session : UserCalls(k) \/ ReadSteps(k) \/ ReleaseSteps(k)
    PROVE  TypeOK'
<1> USE ChannelAssumption
<1>1. CASE Accept
    <2>1. acceptq' \in 0 .. AcceptCap /\ nconns' \in 0 .. MaxSession
        BY <1>1, Counters DEF Accept
    <2> QED
        BY <1>1, <2>1 DEF Accept, TypeOK
<1>2. ASSUME NEW k \in Session, NEW n \in ReadSizes, Read(k, n)
      PROVE  TypeOK'
    <2>1. session \in Session /\ n \in Nat
        BY <1>2, Counters DEF Read, Session
    <2>2. rd[session] \in Reader /\ conn[k] \in ConnState
        BY <2>1 DEF TypeOK
    <2>3. CASE /\ rd' = [rd EXCEPT ![session] = Returned(@, @.buf, n)]
               /\ conn' = [conn EXCEPT ![k] = DoneReading(@, session)]
        <3>0. rd[session].buf \in Bytes
            BY <2>2 DEF Reader
        <3>1. Returned(rd[session], rd[session].buf, n) \in Reader
            BY <2>1, <2>2, <3>0, ReturnedType
        <3>2. DoneReading(conn[k], session) \in ConnState
            BY <2>1, <2>2, DoneReadingType
        <3>3. rd' \in [Session -> Reader] /\ conn' \in [Session -> ConnState]
            BY <2>3, <3>1, <3>2 DEF TypeOK
        <3> QED
            BY <1>2, <3>3 DEF Read, TypeOK
    <2>4. CASE /\ conn' = [conn EXCEPT ![k].at = session, ![k].want = n]
               /\ UNCHANGED rd
        <3>0. session \in 0 .. MaxSession
            BY Zenon DEF TypeOK
        <3>1. [conn[k] EXCEPT !.at = session, !.want = n] \in ConnState
            BY <2>1, <2>2, <3>0 DEF ConnState
        <3>2. conn' \in [Session -> ConnState]
            BY <2>4, <3>1 DEF TypeOK
        <3> QED
            BY <1>2, <2>4, <3>2 DEF Read, TypeOK
    <2> QED
        BY <1>2, <2>3, <2>4 DEF Read
<1>3. ASSUME NEW k \in Session, ReadRace(k) PROVE TypeOK'
    BY <1>3 DEF ReadRace, TypeOK
<1>4. ASSUME NEW k \in Session, ReadChunk(k) PROVE TypeOK'
    <2> DEFINE s == conn[k].at
               dequeued == [rd[s] EXCEPT !.queue = Tail(rd[s].queue)]
               r == Returned(dequeued, Head(rd[s].queue), conn[k].want)
    <2>1. conn[k] \in ConnState
        BY DEF TypeOK
    <2>a. s \in 0 .. MaxSession /\ conn[k].want \in Nat
        BY <2>1 DEF ConnState
    <2>b. s > 0
        BY <1>4 DEF ReadChunk
    <2>2. s \in Session /\ conn[k].want \in Nat
        BY <2>a, <2>b DEF Session
    <2>3. rd[s] \in Reader
        BY <2>2 DEF TypeOK
    <2>4. rd[s].queue \in Seq(Bytes) /\ rd[s].queue # <<>>
        BY <1>4, <2>3 DEF ReadChunk, Reader
    <2>5. Head(rd[s].queue) \in Bytes /\ Tail(rd[s].queue) \in Seq(Bytes)
        BY <2>4, HeadTailProperties
    <2>6. dequeued \in Reader
        BY <2>3, <2>5 DEF Reader
    <2>7. r \in Reader
        BY <2>2, <2>5, <2>6, ReturnedType
    <2>8. DoneReading(conn[k], s) \in ConnState
        BY <2>1, <2>2, DoneReadingType
    <2>9. rd' = [rd EXCEPT ![s] = r]
        BY <1>4 DEF ReadChunk
    <2>10. rd' \in [Session -> Reader]
        BY <2>7, <2>9 DEF TypeOK
    <2>11. conn' \in [Session -> ConnState]
        BY <1>4, <2>8 DEF ReadChunk, TypeOK
    <2> QED
        BY <1>4, <2>10, <2>11 DEF ReadChunk, TypeOK
<1>5. ASSUME NEW k \in Session, ReadEOF(k) PROVE TypeOK'
    <2>1. conn[k] \in ConnState
        BY DEF TypeOK
    <2>0. 0 \in 0 .. MaxSession /\ 0 \in Nat
        OBVIOUS
    <2>2. [conn[k] EXCEPT !.at = 0, !.want = 0] \in ConnState
        BY <2>0, <2>1 DEF ConnState
    <2>3. conn' \in [Session -> ConnState]
        BY <1>5, <2>2 DEF ReadEOF, TypeOK
    <2> QED
        BY <1>5, <2>3 DEF ReadEOF, TypeOK
<1>6. ASSUME NEW k \in Session,
             NEW p \in {"no", "check", "close", "idle", "done", "closed"}
      PROVE  [conn EXCEPT ![k].release = p] \in [Session -> ConnState]
    <2>1. conn[k] \in ConnState
        BY DEF TypeOK
    <2>2. [conn[k] EXCEPT !.release = p] \in ConnState
        BY <2>1 DEF ConnState
    <2> QED
        BY <2>2 DEF TypeOK
<1>7. ASSUME NEW k \in Session, Release(k) \/ ReleaseCheck(k) \/ Close(k)
      PROVE  TypeOK'
    <2>1. conn' \in [Session -> ConnState]
        <3>1. CASE Release(k) \/ Close(k)
            BY <1>6, <3>1 DEF Release, Close
        <3>2. CASE ReleaseCheck(k)
            BY <1>6, <3>2 DEF ReleaseCheck
        <3> QED
            BY <1>7, <3>1, <3>2
    <2> QED
        BY <1>7, <2>1 DEF Release, ReleaseCheck, Close, TypeOK
<1>8. ASSUME NEW k \in Session, ReleaseReader(k) PROVE TypeOK'
    <2>1. conn' \in [Session -> ConnState]
        BY <1>6, <1>8 DEF ReleaseReader
    <2>2. om' \in OnMessageState
        BY <1>8 DEF ReleaseReader, OnMessageState, TypeOK
    <2>3. rd' \in [Session -> Reader]
        BY <1>8 DEF ReleaseReader, TypeOK, Reader
    <2> QED
        BY <1>8, <2>1, <2>2, <2>3 DEF ReleaseReader, TypeOK
<1>9. ASSUME NEW k \in Session, ReleaseIdle(k) PROVE TypeOK'
    <2>1. conn' \in [Session -> ConnState]
        BY <1>6, <1>9 DEF ReleaseIdle
    <2> QED
        BY <1>9, <2>1 DEF ReleaseIdle, TypeOK
<1> QED
    BY <1>1, <1>2, <1>3, <1>4, <1>5, <1>7, <1>8, <1>9
    DEF UserCalls, ReadSteps, ReleaseSteps
-----------------------------------------------------------------------------
(* The ownership discipline.                                                *)

\* No Conn is ahead of the channel's sessions.
LEMMA ConnsWithinSessions ==
    ASSUME TypeOK, Ownership
    PROVE  nconns <= session
BY ChannelAssumption, Counters DEF Ownership, InvAccept

\* A Conn whose Release has not run to the end is the Conn of the current
\* session of an Active channel, and no TakeConn is in progress.
LEMMA Current ==
    ASSUME TypeOK, Ownership, NEW k \in Session, k <= nconns, ~Released(k)
    PROVE  k = session /\ status = "active" /\ om.pc # "take"
<1>1. k \in Nat /\ k <= session
    BY ConnsWithinSessions, Counters DEF Session
<1>2. k = session
    BY <1>1, Counters DEF Ownership, InvEnded
<1>3. status # "idle" /\ om.pc # "take"
    BY <1>2 DEF Ownership, InvEnded
<1> QED
    BY <1>2, <1>3 DEF TypeOK

\* The same for a Conn in the middle of its Release, which exists.
LEMMA Releasing ==
    ASSUME TypeOK, Ownership, NEW k \in Session,
           conn[k].release \in {"check", "close", "idle"}
    PROVE  k <= nconns /\ k = session /\ status = "active" /\ om.pc # "take"
<1>1. conn[k] # NewConn /\ ~Released(k)
    BY DEF NewConn, Released
<1>2. k <= nconns
    BY <1>1, Counters DEF Ownership, InvConns, Session
<1> QED
    BY <1>1, <1>2, Current

\* Channel's initial state satisfies the discipline.
LEMMA OwnershipInit == Init => Ownership
<1> SUFFICES ASSUME Init PROVE Ownership
    OBVIOUS
<1>1. \A k \in Session : conn[k] = NewConn /\ rd[k] = NewChannelReader
    BY DEF Init
<1>2. session \in {0, 1} /\ (session = 1 <=> status = "active")
        /\ nconns = session /\ acceptq = 0 /\ om.pc = "idle"
        /\ (type = "offer" => session = 1)
    BY DEF Init
<1>3. InvAccept
    BY <1>2, ChannelAssumption DEF InvAccept
<1>4. InvConns /\ InvReads
    BY <1>1 DEF InvConns, InvReads, NewConn
<1>5. InvClosed /\ InvChunks
    BY <1>1 DEF InvClosed, InvChunks, NewChannelReader
<1>6. InvOverlap
    BY <1>2 DEF InvOverlap
<1>7. InvEnded
    BY <1>2 DEF InvEnded, Session, Init
<1>8. InvActive
    <2>1. session = 1 => session \in Session
        BY ChannelAssumption DEF Session
    <2> QED
        BY <1>1, <1>2, <2>1 DEF InvActive, Released, NewConn
<1> QED
    BY <1>3, <1>4, <1>5, <1>6, <1>7, <1>8 DEF Ownership

\* Steps that leave the channel, the reader queue and the Conns alone keep it.
LEMMA OwnershipStutter ==
    ASSUME Ownership,
           UNCHANGED <<status, session, rd, om, type, acceptq, nconns, conn>>
    PROVE  Ownership'
BY DEF Ownership, InvAccept, InvConns, InvEnded, InvActive, InvClosed,
       InvOverlap, InvReads, InvChunks, Released

\* The read loop's steps before the message reaches the queue.
LEMMA OwnershipOnMessage ==
    ASSUME TypeOK, Ownership,
           OnMessage \/ OnMessageClosed \/ TakeConnCheck \/ OnData \/ OnDataDone
    PROVE  Ownership'
<1>1. UNCHANGED <<session, rd, type, acceptq, nconns, conn>>
    BY DEF OnMessage, OnMessageClosed, TakeConnCheck, OnData, OnDataDone
<1>2. om \in OnMessageState /\ status \in {"idle", "active"}
    BY DEF TypeOK
<1>3. (InvConns /\ InvClosed /\ InvReads /\ InvChunks)'
    BY <1>1 DEF Ownership, InvConns, InvClosed, InvReads, InvChunks
<1>c. (status = "active" /\ om.pc # "take" /\ rd[session].closed)
        => \E k \in Session : conn[k].release = "idle"
    <2> SUFFICES ASSUME status = "active", om.pc # "take", rd[session].closed
                 PROVE  conn[session].release = "idle" /\ session \in Session
        OBVIOUS
    <2>1. session \in Session /\ ~Released(session)
        BY Counters DEF Ownership, InvActive, Session
    <2> QED
        BY <2>1 DEF Ownership, InvClosed, Released
<1>4. CASE OnMessage
    <2>1. /\ om.pc = "idle" /\ om'.pc = "select" /\ status' = status
          /\ om'.overlap = \E k \in Session : conn[k].release = "idle"
        BY <1>4, <1>2 DEF OnMessage, OnMessageState
    <2>2. InvAccept' /\ InvEnded'
        BY <1>1, <2>1 DEF Ownership, InvAccept, InvEnded, Released
    <2>3. InvActive'
        BY <1>1, <1>2, <2>1 DEF Ownership, InvActive, Released
    <2>4. InvOverlap'
        BY <1>1, <1>2, <1>c, <2>1 DEF Ownership, InvOverlap
    <2> QED
        BY <1>3, <2>2, <2>3, <2>4 DEF Ownership
<1>5. CASE OnMessageClosed
    <2>1. /\ om.pc = "select" /\ om'.pc = "idle" /\ status' = status
        BY <1>5, <1>2 DEF OnMessageClosed, OnMessageState
    <2>2. InvAccept' /\ InvEnded'
        BY <1>1, <2>1 DEF Ownership, InvAccept, InvEnded, Released
    <2>3. InvActive'
        BY <1>1, <1>2, <2>1 DEF Ownership, InvActive, Released
    <2>4. InvOverlap'
        BY <1>1, <1>2, <1>c, <2>1 DEF Ownership, InvOverlap
    <2> QED
        BY <1>3, <2>2, <2>3, <2>4 DEF Ownership
<1>6. CASE TakeConnCheck
    <2>1. /\ om.pc = "select" /\ om'.overlap = om.overlap /\ status' = "active"
          /\ \/ status = "idle" /\ om'.pc = "take" /\ session < MaxSession
             \/ status = "active" /\ om'.pc = "data"
        BY <1>6, <1>2 DEF TakeConnCheck, OnMessageState
    <2>2. InvAccept' /\ InvEnded'
        BY <1>1, <2>1 DEF Ownership, InvAccept, InvEnded, Released
    <2>3. InvActive'
        BY <1>1, <1>2, <2>1 DEF Ownership, InvActive, Released
    <2>4. InvOverlap'
        BY <1>1, <1>2, <1>c, <2>1 DEF Ownership, InvOverlap
    <2> QED
        BY <1>3, <2>2, <2>3, <2>4 DEF Ownership
<1>7. CASE OnData
    <2>1. /\ om.pc = "data" /\ om'.pc = "push" /\ om'.to = session
          /\ om'.overlap = om.overlap /\ status' = status
        BY <1>7, <1>2 DEF OnData, OnMessageState
    <2>2. InvAccept' /\ InvEnded'
        BY <1>1, <2>1 DEF Ownership, InvAccept, InvEnded, Released
    <2>3. InvActive'
        BY <1>1, <1>2, <2>1 DEF Ownership, InvActive, Released
    <2>4. InvOverlap'
        BY <1>1, <1>2, <1>c, <2>1 DEF Ownership, InvOverlap
    <2> QED
        BY <1>3, <2>2, <2>3, <2>4 DEF Ownership
<1>8. CASE OnDataDone
    <2>1. /\ om.pc = "push" /\ om'.pc = "idle" /\ status' = status
        BY <1>8, <1>2 DEF OnDataDone, OnMessageState
    <2>2. InvAccept' /\ InvEnded'
        BY <1>1, <2>1 DEF Ownership, InvAccept, InvEnded, Released
    <2>3. InvActive'
        BY <1>1, <1>2, <2>1 DEF Ownership, InvActive, Released
    <2>4. InvOverlap'
        BY <1>1, <1>2, <1>c, <2>1 DEF Ownership, InvOverlap
    <2> QED
        BY <1>3, <2>2, <2>3, <2>4 DEF Ownership
<1> QED
    BY <1>4, <1>5, <1>6, <1>7, <1>8

\* TakeConn starts a session whose reader and Conn nobody has touched.
LEMMA OwnershipTakeConn ==
    ASSUME TypeOK, Ownership, TakeConn
    PROVE  Ownership'
<1>1. /\ UNCHANGED <<status, rd, type, acceptq, nconns, conn>>
      /\ om.pc = "take" /\ session' = session + 1 /\ om'.overlap = om.overlap
      /\ om'.pc = IF type = "answer" THEN "accept" ELSE "data"
    BY DEF TakeConn, TypeOK, OnMessageState
<1>2. session \in Nat /\ session < MaxSession /\ status = "active"
    BY <1>1, Counters DEF Ownership, InvActive
<1>3. session' \in Session
    BY <1>1, <1>2, ChannelAssumption DEF Session
<1>4. conn[session'] = NewConn
    BY <1>1, <1>2, <1>3, ConnsWithinSessions, Counters
    DEF Ownership, InvConns
<1>5. ~rd[session'].closed
    BY <1>1, <1>2, <1>3 DEF Ownership, InvClosed
<1>6. (InvConns /\ InvReads /\ InvChunks)'
    BY <1>1 DEF Ownership, InvConns, InvReads, InvChunks
<1>7. InvAccept'
    <2>1. type \in {"offer", "answer"}
        BY DEF TypeOK
    <2> QED
        BY <1>1, <1>2, <2>1, Counters DEF Ownership, InvAccept
<1>8. InvEnded'
    BY <1>1, <1>2 DEF Ownership, InvEnded, Released, Session
<1>9. InvActive'
    BY <1>1, <1>2, <1>3, <1>4 DEF InvActive, Released, NewConn
<1>10. InvClosed'
    BY <1>1, <1>2 DEF Ownership, InvClosed, Session
<1>11. InvOverlap'
    BY <1>1, <1>5 DEF Ownership, InvOverlap
<1> QED
    BY <1>6, <1>7, <1>8, <1>9, <1>10, <1>11 DEF Ownership

\* Queueing for Accept, and Accept: the session keeps its count.
LEMMA OwnershipAccept ==
    ASSUME TypeOK, Ownership, OnMessageAccept \/ Accept
    PROVE  Ownership'
<1>1. UNCHANGED <<type, status, session, rd, conn>>
    BY DEF OnMessageAccept, Accept
<1>2. (InvClosed /\ InvReads /\ InvChunks)'
    BY <1>1 DEF Ownership, InvClosed, InvReads, InvChunks
<1>3. CASE OnMessageAccept
    <2>1. /\ om.pc = "accept" /\ om'.pc = "data" /\ acceptq' = acceptq + 1
          /\ nconns' = nconns /\ om'.overlap = om.overlap
        BY <1>3 DEF OnMessageAccept, TypeOK, OnMessageState
    <2>2. InvAccept'
        BY <1>1, <2>1, Counters DEF Ownership, InvAccept
    <2>3. (InvConns /\ InvEnded /\ InvActive /\ InvOverlap)'
        BY <1>1, <2>1 DEF Ownership, InvConns, InvEnded, InvActive,
            InvOverlap, Released
    <2> QED
        BY <1>2, <2>2, <2>3 DEF Ownership
<1>4. CASE Accept
    <2>1. /\ UNCHANGED om /\ acceptq > 0 /\ acceptq' = acceptq - 1
          /\ nconns' = nconns + 1
        BY <1>4 DEF Accept
    <2>2. InvAccept'
        BY <1>1, <2>1, Counters DEF Ownership, InvAccept
    <2>3. InvConns'
        BY <1>1, <2>1, Counters DEF Ownership, InvConns, Session
    <2>4. (InvEnded /\ InvActive /\ InvOverlap)'
        BY <1>1, <2>1 DEF Ownership, InvEnded, InvActive, InvOverlap, Released
    <2> QED
        BY <1>2, <2>2, <2>3, <2>4 DEF Ownership
<1> QED
    BY <1>3, <1>4

\* A chunk is queued on the current reader.
LEMMA OwnershipPush ==
    ASSUME TypeOK, Ownership, OnDataPush
    PROVE  Ownership'
<1>1. /\ UNCHANGED <<status, session, type, acceptq, nconns, conn>>
      /\ om.pc = "push"
    BY DEF OnDataPush
<1>2. CASE UNCHANGED <<rd, om>>
    BY <1>1, <1>2, OwnershipStutter
<1>3. CASE ~UNCHANGED <<rd, om>>
    <2> DEFINE l == ChunkLen(om.rest)
               chunk == SubSeq(om.rest, 1, l)
    <2>1. /\ rd' = [rd EXCEPT ![om.to].queue = Append(@, chunk)]
          /\ om'.pc = om.pc /\ om'.to = om.to /\ om'.overlap = om.overlap
        BY <1>3 DEF OnDataPush, TypeOK, OnMessageState
    <2>2. om.rest \in Bytes
        BY DEF TypeOK, OnMessageState
    <2>3. Len(om.rest) \in Nat
        BY <2>2 DEF Bytes
    <2>4. l \in 0 .. Len(om.rest) /\ l <= BatchSize
        BY <2>3, ChannelAssumption DEF ChunkLen, min
    <2>5. Len(chunk) <= BatchSize
        BY <2>2, <2>3, <2>4, SubSeqProperties, ChannelAssumption DEF Bytes
    <2>6. chunk \in Bytes
        BY <2>2, <2>4, SubBytes
    <2> HIDE DEF chunk, l
    <2>7. \A s \in Session : rd'[s].closed = rd[s].closed
        BY <2>1 DEF TypeOK, Reader
    <2>8. (InvAccept /\ InvConns /\ InvEnded /\ InvActive /\ InvReads)'
        BY <1>1, <2>1 DEF Ownership, InvAccept, InvConns, InvEnded,
            InvActive, InvReads, Released
    <2>9. InvClosed'
        BY <1>1, <2>7 DEF Ownership, InvClosed
    <2>10. session \in Session
        BY <1>1, Counters DEF Ownership, InvActive, Session
    <2>11. InvOverlap'
        BY <1>1, <2>1, <2>7, <2>10 DEF Ownership, InvOverlap
    <2>12. InvChunks'
        <3> SUFFICES ASSUME NEW s \in Session, NEW i \in 1 .. Len(rd'[s].queue)
                     PROVE  Len(rd'[s].queue[i]) <= BatchSize
            BY DEF InvChunks
        <3>1. rd[s] \in Reader
            BY DEF TypeOK
        <3>2. rd[s].queue \in Seq(Bytes)
            BY <3>1 DEF Reader
        <3>3. CASE s # om.to
            <4>1. rd'[s] = rd[s]
                BY <2>1, <3>3 DEF TypeOK
            <4> QED
                BY <4>1 DEF Ownership, InvChunks
        <3>4. CASE s = om.to
            <4>1. rd'[s].queue = Append(rd[s].queue, chunk)
                BY <2>1, <3>1, <3>4 DEF TypeOK, Reader
            <4>2. /\ Len(rd'[s].queue) = Len(rd[s].queue) + 1
                  /\ i <= Len(rd[s].queue) => rd'[s].queue[i] = rd[s].queue[i]
                  /\ i = Len(rd[s].queue) + 1 => rd'[s].queue[i] = chunk
                BY <2>6, <3>2, <4>1, AppendProperties
            <4>3. Len(rd[s].queue) \in Nat
                BY <3>2
            <4>4. i \in 1 .. Len(rd[s].queue) \/ i = Len(rd[s].queue) + 1
                BY <4>2, <4>3
            <4>5. CASE i \in 1 .. Len(rd[s].queue)
                <5>1. Len(rd[s].queue[i]) <= BatchSize
                    BY <4>5 DEF Ownership, InvChunks
                <5> QED
                    BY <4>2, <4>3, <4>5, <5>1
            <4>6. CASE i = Len(rd[s].queue) + 1
                BY <2>5, <4>2, <4>6
            <4> QED
                BY <4>4, <4>5, <4>6
        <3> QED
            BY <3>3, <3>4
    <2> QED
        BY <2>8, <2>9, <2>11, <2>12 DEF Ownership
<1> QED
    BY <1>2, <1>3

\* The Conns' reads: a Conn not yet released reads the current session.
LEMMA OwnershipRead ==
    ASSUME TypeOK, Ownership, NEW k \in Session,
           (\E n \in ReadSizes : Read(k, n)) \/ ReadSteps(k)
    PROVE  Ownership'
<1>1. UNCHANGED <<status, session, om, type, acceptq, nconns>>
    BY DEF Read, ReadSteps, ReadChunk, ReadEOF
<1>2. conn[k] \in ConnState
    BY DEF TypeOK
<1>3. /\ conn[k].at > 0 => k <= nconns
      /\ k \in Conns => k <= nconns
    <2>1. conn[k].at > 0 => conn[k] # NewConn
        BY DEF NewConn
    <2> QED
        BY <2>1, Counters DEF Ownership, InvConns, Conns, Session
<1>4. ASSUME k <= nconns, NEW c \in ConnState,
             conn' = [conn EXCEPT ![k] = c], c.release = conn[k].release,
             c.release = "no" => c.at \in {0, k},
             \A s \in Session : rd'[s].closed = rd[s].closed,
             InvChunks'
      PROVE  Ownership'
    <2>0. conn'[k] = c /\ \A j \in Session : j # k => conn'[j] = conn[j]
        BY <1>4 DEF TypeOK
    <2>1. \A j \in Session : /\ conn'[j].release = conn[j].release
                             /\ j > nconns => conn'[j] = conn[j]
        BY <1>4, <2>0, Counters DEF Session
    <2>2. InvAccept' /\ InvConns' /\ InvEnded' /\ InvClosed'
        BY <1>1, <1>4, <2>1 DEF Ownership, InvAccept, InvConns, InvEnded,
            InvClosed, Released
    <2>3. session > 0 => session \in Session
        BY Counters DEF Session
    <2>4. InvActive'
        BY <1>1, <2>1, <2>3, Counters DEF Ownership, InvActive, Released
    <2>5. InvOverlap'
        BY <1>1, <1>4, <2>1, <2>3 DEF Ownership, InvActive, InvOverlap
    <2>6. InvReads'
        BY <1>4, <2>0 DEF Ownership, InvReads
    <2> QED
        BY <1>4, <2>2, <2>4, <2>5, <2>6 DEF Ownership
<1>5. ASSUME NEW n \in ReadSizes, Read(k, n) PROVE Ownership'
    <2>1. session \in Session /\ k <= nconns /\ n \in Nat
        BY <1>3, <1>5, Counters, ChannelAssumption DEF Read, Session
    <2>2. rd[session] \in Reader
        BY <2>1 DEF TypeOK
    <2>3. CASE /\ rd' = [rd EXCEPT ![session] = Returned(@, @.buf, n)]
               /\ conn' = [conn EXCEPT ![k] = DoneReading(@, session)]
        <3>1. rd[session].buf \in Bytes
            BY <2>2 DEF Reader
        <3>2. \A s \in Session : /\ rd'[s].closed = rd[s].closed
                                 /\ rd'[s].queue = rd[s].queue
            <4> DEFINE r == Returned(rd[session], rd[session].buf, n)
            <4>1. /\ r.closed = rd[session].closed
                  /\ r.queue = rd[session].queue
                BY <2>1, <2>2, <3>1, ReturnedType
            <4>2. rd' = [rd EXCEPT ![session] = r]
                BY <2>3
            <4> HIDE DEF r
            <4> QED
                BY <2>1, <4>1, <4>2 DEF TypeOK
        <3>3. InvChunks'
            BY <3>2 DEF Ownership, InvChunks
        <3> QED
            BY <1>2, <1>4, <2>1, <2>3, <3>2, <3>3, DoneReadingType
    <2>4. CASE /\ conn' = [conn EXCEPT ![k].at = session, ![k].want = n]
               /\ UNCHANGED rd
        <3> DEFINE c == [conn[k] EXCEPT !.at = session, !.want = n]
        <3>1. session \in 0 .. MaxSession
            BY Zenon DEF TypeOK
        <3>2. c \in ConnState /\ c.release = conn[k].release /\ c.at = session
            BY <1>2, <2>1, <3>1 DEF ConnState
        <3>3. c.release = "no" => c.at = k
            BY <2>1, <3>2, Current DEF Released
        <3>4. conn' = [conn EXCEPT ![k] = c]
            BY <2>4
        <3>5. InvChunks'
            BY <2>4 DEF Ownership, InvChunks
        <3> HIDE DEF c
        <3> QED
            BY <1>4, <2>1, <2>4, <3>2, <3>3, <3>4, <3>5
    <2> QED
        BY <1>5, <2>3, <2>4 DEF Read
<1>6. CASE ReadEOF(k)
    <2> DEFINE c == [conn[k] EXCEPT !.at = 0, !.want = 0]
    <2>0. 0 \in 0 .. MaxSession
        BY ChannelAssumption
    <2>1. c \in ConnState /\ c.release = conn[k].release /\ c.at = 0
        BY <1>2, <2>0 DEF ConnState
    <2>2. conn' = [conn EXCEPT ![k] = c] /\ UNCHANGED rd /\ conn[k].at > 0
        BY <1>6 DEF ReadEOF
    <2>3. InvChunks'
        BY <2>2 DEF Ownership, InvChunks
    <2> HIDE DEF c
    <2> QED
        BY <1>3, <1>4, <2>1, <2>2, <2>3
<1>7. CASE ReadChunk(k)
    <2> DEFINE s == conn[k].at
               dequeued == [rd[s] EXCEPT !.queue = Tail(rd[s].queue)]
               r == Returned(dequeued, Head(rd[s].queue), conn[k].want)
    <2>1. s \in 0 .. MaxSession /\ conn[k].want \in Nat
        BY <1>2 DEF ConnState
    <2>2. s > 0 /\ rd[s].queue # <<>> /\ rd' = [rd EXCEPT ![s] = r]
            /\ conn' = [conn EXCEPT ![k] = DoneReading(@, s)]
        BY <1>7 DEF ReadChunk
    <2>3. s \in Session
        BY <2>1, <2>2, ChannelAssumption DEF Session
    <2>4. rd[s] \in Reader
        BY <2>3 DEF TypeOK
    <2>5. rd[s].queue \in Seq(Bytes)
        BY <2>4 DEF Reader
    <2>6. Head(rd[s].queue) \in Bytes /\ Tail(rd[s].queue) \in Seq(Bytes)
        BY <2>2, <2>5, HeadTailProperties
    <2>7. dequeued \in Reader /\ dequeued.closed = rd[s].closed
            /\ dequeued.queue = Tail(rd[s].queue)
        BY <2>4, <2>6 DEF Reader
    <2>8. r.closed = rd[s].closed /\ r.queue = Tail(rd[s].queue)
        BY <2>1, <2>6, <2>7, ReturnedType
    <2> HIDE DEF r, dequeued
    <2>9. \A t \in Session : /\ rd'[t].closed = rd[t].closed
                             /\ t # s => rd'[t] = rd[t]
        BY <2>2, <2>3, <2>8 DEF TypeOK
    <2>10. rd'[s].queue = Tail(rd[s].queue)
        BY <2>2, <2>3, <2>8 DEF TypeOK
    <2>11. InvChunks'
        <3> SUFFICES ASSUME NEW t \in Session, NEW i \in 1 .. Len(rd'[t].queue)
                     PROVE  Len(rd'[t].queue[i]) <= BatchSize
            BY DEF InvChunks
        <3>1. CASE t # s
            BY <2>9, <3>1 DEF Ownership, InvChunks
        <3>2. CASE t = s
            <4> DEFINE q == rd[s].queue
            <4>0. q \in Seq(Bytes) /\ q # <<>> /\ i \in 1 .. Len(Tail(q))
                BY <2>2, <2>5, <2>10, <3>2
            <4>q. /\ Len(q) \in Nat /\ Len(Tail(q)) = Len(q) - 1
                  /\ Tail(q)[i] = q[i + 1]
                <5> HIDE DEF q
                <5> QED
                    BY <4>0, HeadTailProperties
            <4>1. /\ Len(rd[s].queue) \in Nat
                  /\ Len(rd'[s].queue) = Len(rd[s].queue) - 1
                  /\ rd'[s].queue[i] = rd[s].queue[i + 1]
                BY <2>10, <4>q
            <4>2. i + 1 \in 1 .. Len(rd[s].queue)
                BY <3>2, <4>1
            <4> QED
                BY <2>3, <3>2, <4>1, <4>2 DEF Ownership, InvChunks
        <3> QED
            BY <3>1, <3>2
    <2> QED
        BY <1>2, <1>3, <1>4, <2>2, <2>3, <2>9, <2>11, DoneReadingType
<1> QED
    BY <1>5, <1>6, <1>7 DEF ReadSteps

\* The Release of a Conn, step by step, and Close after it.
LEMMA OwnershipRelease ==
    ASSUME TypeOK, Ownership, NEW k \in Session,
           Release(k) \/ ReleaseSteps(k) \/ Close(k)
    PROVE  Ownership'
<1> DEFINE p == conn'[k].release
<1>1. /\ \A j \in Session : j # k => conn'[j] = conn[j]
      /\ conn'[k].at = conn[k].at
      /\ UNCHANGED <<session, type, acceptq, nconns>>
    <2>1. /\ \E q \in {"check", "close", "idle", "done", "closed"} :
                 conn' = [conn EXCEPT ![k].release = q]
          /\ UNCHANGED <<session, type, acceptq, nconns>>
        BY DEF Release, ReleaseSteps, ReleaseCheck, ReleaseReader,
               ReleaseIdle, Close
    <2> QED
        BY <2>1 DEF TypeOK, ConnState
<1>2. conn[k].release # "no" => k <= nconns
    <2>1. conn[k].release # "no" => conn[k] # NewConn
        BY DEF NewConn
    <2> QED
        BY <2>1, Counters DEF Ownership, InvConns, Session
<1>3. session > 0 => session \in Session
    BY Counters DEF Session
<1>4. ASSUME k <= nconns, p # "no"
      PROVE  InvConns' /\ InvReads'
    BY <1>1, <1>4, Counters DEF Ownership, InvConns, InvReads, Session
<1>5. CASE Release(k) \/ ReleaseCheck(k)
    <2>1. k <= nconns /\ ~Released(k)
        BY <1>2, <1>5, Counters DEF Release, ReleaseCheck, MayRelease, Conns,
            Released
    <2>2. k = session /\ status = "active" /\ om.pc # "take"
        BY <2>1, Current
    <2>3. /\ p \in {"check", "close"} /\ conn[k].release \in {"no", "check"}
          /\ UNCHANGED <<status, rd, om>>
        <3>1. conn \in [Session -> ConnState]
            BY DEF TypeOK
        <3>2. CASE Release(k)
            <4>1. /\ conn' = [conn EXCEPT ![k].release = "check"]
                  /\ conn[k].release = "no" /\ UNCHANGED <<status, rd, om>>
                BY <3>2 DEF Release, MayRelease, chan
            <4> QED
                BY <3>1, <4>1 DEF ConnState
        <3>3. CASE ReleaseCheck(k)
            <4>1. /\ conn' = [conn EXCEPT ![k].release = "close"]
                  /\ conn[k].release = "check" /\ UNCHANGED <<status, rd, om>>
                BY <2>2, <3>3 DEF ReleaseCheck, chan
            <4> QED
                BY <3>1, <4>1 DEF ConnState
        <3> QED
            BY <1>5, <3>2, <3>3
    <2>4. (InvAccept /\ InvChunks)'
        BY <1>1, <2>3 DEF Ownership, InvAccept, InvChunks
    <2>5. InvEnded'
        BY <1>1, <2>2, <2>3, Counters DEF Ownership, InvEnded, Released, Session
    <2>6. InvActive'
        BY <1>1, <2>2, <2>3 DEF Ownership, InvActive, Released
    <2>7. InvClosed'
        BY <1>1, <2>3 DEF Ownership, InvClosed
    <2>8. InvOverlap'
        BY <1>1, <2>3 DEF Ownership, InvOverlap
    <2> QED
        BY <1>4, <2>1, <2>3, <2>4, <2>5, <2>6, <2>7, <2>8 DEF Ownership
<1>6. CASE ReleaseReader(k)
    <2>1. /\ k <= nconns /\ k = session /\ status = "active" /\ om.pc # "take"
        BY <1>6, Releasing DEF ReleaseReader
    <2>2. /\ p = "idle" /\ conn[k].release = "close" /\ status' = status
          /\ om'.pc = om.pc /\ om'.to = om.to
          /\ om'.overlap = (om.overlap \/ om.pc # "idle")
        BY <1>6 DEF ReleaseReader, TypeOK, ConnState, OnMessageState
    <2>3. rd' = [rd EXCEPT ![session].closed = TRUE]
        BY <1>6 DEF ReleaseReader
    <2>4. \A s \in Session : /\ s # session => rd'[s] = rd[s]
                             /\ rd'[s].queue = rd[s].queue
        BY <2>1, <2>3 DEF TypeOK, Reader
    <2>5. (InvAccept /\ InvChunks)'
        BY <1>1, <2>2, <2>4 DEF Ownership, InvAccept, InvChunks
    <2>6. InvEnded'
        BY <1>1, <2>1, <2>2, Counters DEF Ownership, InvEnded, Released, Session
    <2>7. InvActive'
        BY <1>1, <2>1, <2>2 DEF Ownership, InvActive, Released
    <2>8. InvClosed'
        BY <1>1, <2>1, <2>2, <2>4 DEF Ownership, InvClosed, Session
    <2>9. InvOverlap'
        BY <2>2 DEF Ownership, InvOverlap
    <2> QED
        BY <1>4, <2>1, <2>2, <2>5, <2>6, <2>7, <2>8, <2>9 DEF Ownership
<1>7. CASE ReleaseIdle(k)
    <2>1. /\ k <= nconns /\ k = session /\ status = "active" /\ om.pc # "take"
        BY <1>7, Releasing DEF ReleaseIdle
    <2>2. /\ p = "done" /\ conn[k].release = "idle" /\ status' = "idle"
          /\ UNCHANGED <<rd, om>>
        BY <1>7 DEF ReleaseIdle, TypeOK, ConnState
    <2>3. (InvAccept /\ InvChunks)'
        BY <1>1, <2>2 DEF Ownership, InvAccept, InvChunks
    <2>4. InvEnded'
        BY <1>1, <2>1, <2>2, Counters DEF Ownership, InvEnded, Released, Session
    <2>5. InvActive'
        BY <1>1, <2>1, <2>2 DEF Ownership, InvActive
    <2>6. InvClosed'
        BY <1>1, <2>2 DEF Ownership, InvClosed
    <2>7. InvOverlap'
        BY <1>1, <2>2 DEF Ownership, InvOverlap
    <2> QED
        BY <1>4, <2>1, <2>2, <2>3, <2>4, <2>5, <2>6, <2>7 DEF Ownership
<1>8. CASE Close(k)
    <2>1. /\ p = "closed" /\ conn[k].release = "done"
          /\ UNCHANGED <<status, rd, om>>
        BY <1>8 DEF Close, TypeOK, ConnState
    <2>2. k <= nconns
        BY <1>2, <2>1
    <2>3. (InvAccept /\ InvChunks)'
        BY <1>1, <2>1 DEF Ownership, InvAccept, InvChunks
    <2>4. InvEnded'
        BY <1>1, <2>1 DEF Ownership, InvEnded, Released
    <2>5. InvActive'
        BY <1>1, <1>3, <2>1 DEF Ownership, InvActive, Released
    <2>6. InvClosed'
        BY <1>1, <2>1 DEF Ownership, InvClosed
    <2>7. InvOverlap'
        BY <1>1, <2>1 DEF Ownership, InvOverlap
    <2> QED
        BY <1>4, <2>1, <2>2, <2>3, <2>4, <2>5, <2>6, <2>7 DEF Ownership
<1> QED
    BY <1>5, <1>6, <1>7, <1>8 DEF ReleaseSteps
-----------------------------------------------------------------------------
(* The theorems.                                                            *)

\* Every step keeps the types and the discipline.
LEMMA OwnershipStep ==
    ASSUME TypeOK, Ownership, [Next]_vars
    PROVE  TypeOK' /\ Ownership'
<1>1. CASE Next
    <2>1. TypeOK'
        BY <1>1, TypeReadLoop, TypeUsers DEF Next
    <2>2. ASSUME \/ OnOpen \/ OnClose \/ \E n \in MsgSizes : RemoteSend(n)
                 \/ \E k \in Session : ReadRace(k)
          PROVE  Ownership'
        BY <2>2, OwnershipStutter DEF OnOpen, OnClose, RemoteSend, ReadRace
    <2>3. ASSUME ReadLoop \/ Accept PROVE Ownership'
        BY <2>3, OwnershipOnMessage, OwnershipTakeConn, OwnershipAccept,
           OwnershipPush DEF ReadLoop
    <2>4. ASSUME NEW k \in Session,
                 \/ \E n \in ReadSizes : Read(k, n)
                 \/ ReadSteps(k) \/ Release(k) \/ ReleaseSteps(k) \/ Close(k)
          PROVE  Ownership'
        BY <2>4, OwnershipRead, OwnershipRelease
    <2> QED
        BY <1>1, <2>1, <2>2, <2>3, <2>4 DEF Next, UserCalls
<1>2. CASE UNCHANGED vars
    <2>1. TypeOK'
        BY <1>2 DEF vars, TypeOK
    <2>2. Ownership'
        BY <1>2, OwnershipStutter DEF vars
    <2> QED
        BY <2>1, <2>2
<1> QED
    BY <1>1, <1>2

\* Type correctness and the ownership discipline hold in every state of every
\* channel, whatever its buffer sizes and queue capacities.
THEOREM ChannelOwnership == Spec => [](TypeOK /\ Ownership)
<1>1. Init => TypeOK /\ Ownership
    BY TypeInit, OwnershipInit
<1>2. TypeOK /\ Ownership /\ [Next]_vars => TypeOK' /\ Ownership'
    BY OwnershipStep
<1> QED
    BY <1>1, <1>2, PTL DEF Spec

\* What a step can do to the panic: it is one of three, each at its place.
LEMMA PanicStep ==
    ASSUME TypeOK, Ownership, Next, panic' # panic
    PROVE  /\ panic' # "close of closed channel"
           /\ panic' # "read out of memory"
           /\ panic' = "send on closed channel" => om'.overlap
<1>1. ASSUME OnDataPush
      PROVE  panic' = "send on closed channel" /\ om'.overlap
    <2>1. panic' = "send on closed channel" /\ om' = om /\ rd[om.to].closed
        BY <1>1 DEF OnDataPush
    <2>2. om.to = session /\ om.pc = "push"
        BY <1>1 DEF OnDataPush, Ownership, InvActive
    <2> QED
        BY <2>1, <2>2 DEF Ownership, InvOverlap
<1>2. ASSUME NEW k \in Session, ReadChunk(k) PROVE FALSE
    <2> DEFINE s == conn[k].at
               data == Head(rd[s].queue)
    <2>1. conn[k] \in ConnState
        BY DEF TypeOK
    <2>2. s \in 0 .. MaxSession /\ conn[k].want \in Nat
        BY <2>1 DEF ConnState
    <2>3. s > 0 /\ rd[s].queue # <<>>
        BY <1>2 DEF ReadChunk
    <2>4. s \in Session
        BY <2>2, <2>3, ChannelAssumption DEF Session
    <2>5. rd[s] \in Reader
        BY <2>4 DEF TypeOK
    <2>6. rd[s].queue \in Seq(Bytes)
        BY <2>5 DEF Reader
    <2>7. 1 \in 1 .. Len(rd[s].queue) /\ data = rd[s].queue[1]
        BY <2>3, <2>6, EmptySeq, HeadTailProperties
    <2>8. Len(data) <= BatchSize
        <3>1. \A i \in 1 .. Len(rd[s].queue) : Len(rd[s].queue[i]) <= BatchSize
            BY <2>4 DEF Ownership, InvChunks
        <3> QED
            BY <2>7, <3>1
    <2>9. data \in Bytes
        BY <2>3, <2>6, HeadTailProperties
    <2>10. Len(data) \in Nat
        <3> HIDE DEF data
        <3> QED
            BY <2>9, BytesLen
    <2>11. ~(Len(data) > (IF conn[k].want >= BufSize THEN conn[k].want
                                                     ELSE BufSize))
        BY <2>2, <2>8, <2>10, ChannelAssumption
    <2> QED
        BY <1>2, <2>11 DEF ReadChunk
<1>3. ASSUME NEW k \in Session, ReleaseReader(k) PROVE FALSE
    <2>1. k = session /\ conn[k].release = "close"
        BY <1>3, Releasing DEF ReleaseReader
    <2>2. ~rd[session].closed
        BY <2>1 DEF Ownership, InvClosed
    <2> QED
        BY <1>3, <2>2 DEF ReleaseReader
<1>4. OnDataPush \/ \E k \in Session : ReadChunk(k) \/ ReleaseReader(k)
    BY DEF Next, ReadLoop, OnOpen, OnClose, RemoteSend, OnMessage,
        OnMessageClosed, TakeConnCheck, TakeConn, OnMessageAccept, OnData,
        OnDataDone, Accept, UserCalls, Read, ReadRace, Release, Close,
        ReadSteps, ReadEOF, ReleaseSteps, ReleaseCheck, ReleaseIdle
<1> QED
    BY <1>1, <1>2, <1>3, <1>4

\* ChannelReader.Read never panics: every chunk fits bufio's buffer, since
\* OnData cuts at batchSize and batchSize is at most the buffer's size.
THEOREM ReadNeverPanics == Spec => []ChunkFits
<1>1. Init => ChunkFits
    BY DEF Init, ChunkFits
<1>2. TypeOK /\ Ownership /\ ChunkFits /\ [Next]_vars => ChunkFits'
    BY PanicStep DEF ChunkFits, vars
<1> QED
    BY <1>1, <1>2, ChannelOwnership, PTL DEF Spec

\* No reader's recvData is closed twice: the Release of one Conn never meets
\* a reader another Release has closed.
THEOREM ReleaseClosesOnce == Spec => []NoDoubleClose
<1>1. Init => NoDoubleClose
    BY DEF Init, NoDoubleClose
<1>2. TypeOK /\ Ownership /\ NoDoubleClose /\ [Next]_vars => NoDoubleClose'
    BY PanicStep DEF NoDoubleClose, vars
<1> QED
    BY <1>1, <1>2, ChannelOwnership, PTL DEF Spec

\* The only panic left, OnMessage's send on a closed recvData, needs a Release
\* that overlaps the very OnMessage call that panics.
THEOREM PanicOnlyByOverlap == Spec => []PanicNeedsOverlap
<1>1. Init => PanicNeedsOverlap
    BY DEF Init, PanicNeedsOverlap
<1>2. TypeOK /\ Ownership /\ PanicNeedsOverlap /\ [Next]_vars
        => PanicNeedsOverlap'
    <2> SUFFICES ASSUME TypeOK, Ownership, PanicNeedsOverlap, [Next]_vars
                 PROVE  PanicNeedsOverlap'
        OBVIOUS
    <2>1. CASE UNCHANGED vars
        BY <2>1 DEF PanicNeedsOverlap, vars
    <2>2. CASE Next /\ panic' = panic
        BY <2>2 DEF Next, PanicNeedsOverlap
    <2>3. CASE Next /\ panic' # panic
        BY <2>3, PanicStep DEF PanicNeedsOverlap
    <2> QED
        BY <2>1, <2>2, <2>3
<1> QED
    BY <1>1, <1>2, ChannelOwnership, PTL DEF Spec

\* Until it is released, the k-th Conn of a channel returns bytes of the k-th
\* session only: no stale or early bytes cross from one user to the next.
THEOREM ConnReadsOwnSession == Spec => []OwnSession
<1>1. Init => OwnSession
    BY DEF Init, OwnSession, NewConn
<1>2. TypeOK /\ Ownership /\ OwnSession /\ [Next]_vars => OwnSession'
    <2> SUFFICES ASSUME TypeOK, Ownership, OwnSession, [Next]_vars,
                        NEW j \in Session
                 PROVE  conn'[j].saw \subseteq {j}
        BY DEF OwnSession
    <2>0. conn[j].saw \subseteq {j} /\ conn[j] \in ConnState
        BY DEF OwnSession, TypeOK
    <2>1. ASSUME NEW k \in Session, NEW s \in Session,
                 conn' = [conn EXCEPT ![k] = DoneReading(@, s)],
                 conn[k].release = "no" => s = k
          PROVE  conn'[j].saw \subseteq {j}
        <3>1. CASE j # k
            BY <2>0, <2>1, <3>1 DEF TypeOK
        <3>2. CASE j = k
            <4>1. conn'[j] = DoneReading(conn[j], s)
                BY <2>1, <3>2 DEF TypeOK
            <4> QED
                BY <2>0, <2>1, <3>2, <4>1, DoneReadingType
        <3> QED
            BY <3>1, <3>2
    <2>2. ASSUME NEW k \in Session, NEW n \in ReadSizes, Read(k, n)
          PROVE  conn'[j].saw \subseteq {j}
        <3>1. session \in Session /\ k <= nconns
            BY <2>2, Counters DEF Read, Session, Conns
        <3>2. conn[k].release = "no" => session = k
            BY <3>1, Current DEF Released
        <3>3. CASE conn' = [conn EXCEPT ![k] = DoneReading(@, session)]
            BY <2>1, <3>1, <3>2, <3>3
        <3>4. CASE conn' = [conn EXCEPT ![k].at = session, ![k].want = n]
            BY <2>0, <3>4 DEF TypeOK, ConnState
        <3> QED
            BY <2>2, <3>3, <3>4 DEF Read
    <2>3. ASSUME NEW k \in Session, ReadChunk(k)
          PROVE  conn'[j].saw \subseteq {j}
        <3>1. /\ conn[k].at > 0
              /\ conn' = [conn EXCEPT ![k] = DoneReading(@, conn[k].at)]
            BY <2>3 DEF ReadChunk
        <3>2. conn[k].at \in 0 .. MaxSession
            BY DEF TypeOK, ConnState
        <3>3. conn[k].at \in Session
            BY <3>1, <3>2, ChannelAssumption DEF Session
        <3>4. conn[k].release = "no" => conn[k].at = k
            BY <3>1 DEF Ownership, InvReads
        <3> QED
            BY <2>1, <3>1, <3>3, <3>4
    <2>4. ASSUME NEW k \in Session,
                 ReadEOF(k) \/ Release(k) \/ ReleaseSteps(k) \/ Close(k)
          PROVE  conn'[j].saw \subseteq {j}
        <3>1. \/ \E q \in {"check", "close", "idle", "done", "closed"} :
                     conn' = [conn EXCEPT ![k].release = q]
              \/ conn' = [conn EXCEPT ![k].at = 0, ![k].want = 0]
            BY <2>4 DEF ReadEOF, Release, ReleaseSteps, ReleaseCheck,
                ReleaseReader, ReleaseIdle, Close
        <3>2. ASSUME NEW c, c.saw = conn[k].saw, conn' = [conn EXCEPT ![k] = c]
              PROVE  conn'[j].saw \subseteq {j}
            BY <2>0, <3>2 DEF TypeOK
        <3>3. conn[k] \in ConnState
            BY DEF TypeOK
        <3>4. ASSUME NEW q, conn' = [conn EXCEPT ![k].release = q]
              PROVE  conn'[j].saw \subseteq {j}
            <4>1. [conn[k] EXCEPT !.release = q].saw = conn[k].saw
                BY <3>3 DEF ConnState
            <4> QED
                BY <3>2, <3>4, <4>1
        <3>5. CASE conn' = [conn EXCEPT ![k].at = 0, ![k].want = 0]
            <4>1. [conn[k] EXCEPT !.at = 0, !.want = 0].saw = conn[k].saw
                BY <3>3 DEF ConnState
            <4> QED
                BY <3>2, <3>5, <4>1
        <3> QED
            BY <3>1, <3>4, <3>5
    <2>5. CASE UNCHANGED conn
        BY <2>0, <2>5
    <2>6. UNCHANGED conn \/ \E k \in Session :
              \/ \E n \in ReadSizes : Read(k, n)
              \/ ReadSteps(k) \/ Release(k) \/ ReleaseSteps(k) \/ Close(k)
        BY DEF vars, Next, ReadLoop, OnOpen, OnClose, RemoteSend, OnMessage,
            OnMessageClosed, TakeConnCheck, TakeConn, OnMessageAccept, OnData,
            OnDataPush, OnDataDone, Accept, UserCalls, ReadRace
    <2> QED
        BY <2>2, <2>3, <2>4, <2>5, <2>6 DEF ReadSteps
<1> QED
    BY <1>1, <1>2, ChannelOwnership, PTL DEF Spec

\* Every session of an answering channel is queued for Accept exactly once.
THEOREM SessionsQueuedOnce == Spec => []AcceptedOnce
<1>1. TypeOK /\ Ownership => AcceptedOnce
    BY Counters DEF Ownership, InvAccept, AcceptedOnce
<1> QED
    BY <1>1, ChannelOwnership, PTL

\* TakeConn replaces a reader only when its session was accepted and fully
\* released.
THEOREM ReadersReplacedAfterRelease == Spec => SessionEnds
<1> DEFINE Ended == session' # session =>
               \A s \in 1 .. session :
                   s \in Conns /\ conn[s].release \in {"done", "closed"}
<1>1. TypeOK /\ Ownership /\ [Next]_vars => [Ended]_vars
    <2> SUFFICES ASSUME TypeOK, Ownership, Next, session' # session,
                        NEW s \in 1 .. session
                 PROVE  s \in Conns /\ conn[s].release \in {"done", "closed"}
        BY DEF vars
    <2>1. TakeConn
        BY DEF Next, ReadLoop, OnOpen, OnClose, RemoteSend, OnMessage,
            OnMessageClosed, TakeConnCheck, OnMessageAccept, OnData,
            OnDataPush, OnDataDone, Accept, UserCalls, Read, ReadRace,
            Release, Close, ReadSteps, ReadChunk, ReadEOF, ReleaseSteps,
            ReleaseCheck, ReleaseReader, ReleaseIdle
    <2>2. s \in Session /\ s <= session /\ om.pc = "take"
        BY <2>1, Counters, ChannelAssumption DEF TakeConn, Session
    <2>3. Released(s)
        BY <2>2, Counters DEF Ownership, InvEnded, Session
    <2>4. conn[s] # NewConn
        BY <2>3 DEF Released, NewConn
    <2>5. s <= nconns
        BY <2>2, <2>4, Counters DEF Ownership, InvConns, Session
    <2> QED
        BY <2>2, <2>3, <2>5, Counters DEF Released, Conns, Session
<1> QED
    BY <1>1, ChannelOwnership, PTL DEF Spec, SessionEnds
-----------------------------------------------------------------------------
(* Byte strings and queues of them.                                          *)

\* The bytes of a byte string are naturals.
LEMMA ElemsType ==
    ASSUME NEW b \in Bytes
    PROVE  /\ Elems(b) \subseteq Nat
           /\ Len(b) \in Nat /\ DOMAIN b = 1 .. Len(b)
           /\ \A i \in 1 .. Len(b) : b[i] \in Nat
           /\ Elems(b) = {b[i] : i \in 1 .. Len(b)}
<1>1. /\ Len(b) \in Nat /\ DOMAIN b = 1 .. Len(b)
      /\ \A i \in 1 .. Len(b) : b[i] \in Nat
    BY DEF Bytes
<1> QED
    BY <1>1 DEF Elems

\* The bytes of a part of a byte string.
LEMMA SubPart ==
    ASSUME NEW b \in Bytes, NEW m \in Nat \ {0}, NEW n \in 0 .. Len(b)
    PROVE  /\ Len(SubSeq(b, m, n)) = IF m <= n THEN n - m + 1 ELSE 0
           /\ \A i \in 1 .. n - m + 1 : SubSeq(b, m, n)[i] = b[m + i - 1]
<1>1. Len(b) \in Nat /\ \A i \in 1 .. Len(b) : b[i] \in Nat
    BY ElemsType
<1>2. \A i \in m .. n : b[i] \in Nat
    BY <1>1
<1> QED
    BY <1>1, <1>2, SubSeqProperties

\* A byte string cut in two: the same bytes, the first part before the second.
LEMMA Cut ==
    ASSUME NEW b \in Bytes, NEW l \in 0 .. Len(b)
    PROVE  LET p == SubSeq(b, 1, l)
               q == SubSeq(b, l + 1, Len(b))
           IN  /\ p \in Bytes /\ q \in Bytes
               /\ Elems(b) = Elems(p) \cup Elems(q)
               /\ Rising(b) => /\ Rising(p) /\ Rising(q)
                               /\ Before(Elems(p), Elems(q))
<1> DEFINE p == SubSeq(b, 1, l)
           q == SubSeq(b, l + 1, Len(b))
<1>1. /\ Len(b) \in Nat /\ DOMAIN b = 1 .. Len(b) /\ l \in Nat /\ l <= Len(b)
      /\ Elems(b) = {b[i] : i \in 1 .. Len(b)}
    BY ElemsType
<1>2. p \in Bytes /\ q \in Bytes
    BY <1>1, SubBytes
<1>3. Len(p) = l /\ \A i \in 1 .. l : p[i] = b[i]
    BY <1>1, SubSeqProperties DEF Bytes
<1>4. Len(q) = Len(b) - l /\ \A i \in 1 .. Len(b) - l : q[i] = b[l + i]
    <2>0. ASSUME NEW n \in Nat, l <= n
          PROVE  /\ l + 1 \in Nat \ {0} /\ n \in 0 .. n
                 /\ n - (l + 1) + 1 = n - l
                 /\ (IF l + 1 <= n THEN n - (l + 1) + 1 ELSE 0) = n - l
        BY <2>0
    <2>1. /\ l + 1 \in Nat \ {0} /\ Len(b) \in 0 .. Len(b)
          /\ Len(b) - (l + 1) + 1 = Len(b) - l
          /\ (IF l + 1 <= Len(b) THEN Len(b) - (l + 1) + 1 ELSE 0)
                 = Len(b) - l
        BY <1>1, <2>0
    <2>2. /\ Len(q) = IF l + 1 <= Len(b) THEN Len(b) - (l + 1) + 1 ELSE 0
          /\ \A i \in 1 .. Len(b) - (l + 1) + 1 : q[i] = b[(l + 1) + i - 1]
        BY <2>1, SubPart
    <2>3. \A i \in 1 .. Len(b) - l : (l + 1) + i - 1 = l + i
        BY <1>1
    <2> HIDE DEF q
    <2>4. Len(q) = Len(b) - l
        BY Zenon, <2>1, <2>2
    <2>5. ASSUME NEW i \in 1 .. Len(b) - l PROVE q[i] = b[l + i]
        <3>1. i \in 1 .. Len(b) - (l + 1) + 1
            BY Zenon, <2>1
        <3>2. q[i] = b[(l + 1) + i - 1]
            BY Zenon, <2>2, <3>1
        <3> QED
            BY Zenon, <2>3, <3>2
    <2> QED
        BY Zenon, <2>4, <2>5
<1>5. /\ Elems(p) = {p[i] : i \in 1 .. Len(p)} /\ DOMAIN p = 1 .. Len(p)
      /\ Elems(q) = {q[i] : i \in 1 .. Len(q)} /\ DOMAIN q = 1 .. Len(q)
    BY <1>2, ElemsType
<1> HIDE DEF p, q
<1>6. Elems(p) = {b[i] : i \in 1 .. l}
    BY <1>1, <1>3, <1>5
<1>7. \A i \in 1 .. Len(b) - l : l + i \in l + 1 .. Len(b)
    BY <1>1
<1>8. \A i \in l + 1 .. Len(b) : i - l \in 1 .. Len(b) - l /\ l + (i - l) = i
    BY <1>1
<1>9. Elems(q) = {b[i] : i \in l + 1 .. Len(b)}
    <2>1. \A i \in 1 .. Len(q) : \E k \in l + 1 .. Len(b) : q[i] = b[k]
        BY <1>1, <1>4, <1>7
    <2>2. \A k \in l + 1 .. Len(b) : \E i \in 1 .. Len(q) : q[i] = b[k]
        BY <1>1, <1>4, <1>8
    <2> QED
        BY <1>5, <2>1, <2>2
<1>10. Elems(b) = Elems(p) \cup Elems(q)
    <2>1. 1 .. Len(b) = (1 .. l) \cup (l + 1 .. Len(b))
        BY <1>1
    <2> QED
        BY <1>1, <1>6, <1>9, <2>1
<1>11. ASSUME Rising(b)
       PROVE  Rising(p) /\ Rising(q) /\ Before(Elems(p), Elems(q))
    <2>1. Rising(p)
        BY <1>1, <1>3, <1>5, <1>11 DEF Rising
    <2>2. Rising(q)
        <3>1. ASSUME NEW i \in 1 .. Len(q), NEW j \in 1 .. Len(q), i < j
              PROVE  q[i] < q[j]
            <4>1. /\ l + i \in DOMAIN b /\ l + j \in DOMAIN b /\ l + i < l + j
                  /\ q[i] = b[l + i] /\ q[j] = b[l + j]
                BY <1>1, <1>4, <3>1
            <4> QED
                BY <1>11, <4>1 DEF Rising
        <3> QED
            BY <1>5, <3>1 DEF Rising
    <2>3. Before(Elems(p), Elems(q))
        BY <1>1, <1>6, <1>9, <1>11 DEF Rising, Before
    <2> QED
        BY <2>1, <2>2, <2>3
<1> QED
    BY <1>2, <1>10, <1>11 DEF p, q

\* One byte string after another.
LEMMA Join ==
    ASSUME NEW a \in Bytes, NEW b \in Bytes
    PROVE  /\ a \o b \in Bytes
           /\ Elems(a \o b) = Elems(a) \cup Elems(b)
           /\ Rising(a) /\ Rising(b) /\ Before(Elems(a), Elems(b))
                  => Rising(a \o b)
           /\ Len(a \o b) = Len(a) + Len(b)
           /\ \A i \in 1 .. Len(a) : (a \o b)[i] = a[i]
<1> DEFINE c == a \o b
<1>1. /\ Len(a) \in Nat /\ DOMAIN a = 1 .. Len(a)
      /\ Len(b) \in Nat /\ DOMAIN b = 1 .. Len(b)
      /\ Elems(a) = {a[i] : i \in 1 .. Len(a)}
      /\ Elems(b) = {b[i] : i \in 1 .. Len(b)}
    BY ElemsType
<1>2. c \in Bytes /\ Len(c) = Len(a) + Len(b)
    BY ConcatProperties DEF Bytes
<1>3. \A i \in 1 .. Len(c) : c[i] = IF i <= Len(a) THEN a[i] ELSE b[i - Len(a)]
    BY <1>2, ConcatProperties DEF Bytes
<1>4. Elems(c) = {c[i] : i \in 1 .. Len(c)} /\ DOMAIN c = 1 .. Len(c)
    BY <1>2, ElemsType
<1> HIDE DEF c
<1>5. \A i \in 1 .. Len(a) : i \in 1 .. Len(c) /\ c[i] = a[i]
    BY <1>1, <1>2, <1>3
<1>6. \A i \in 1 .. Len(b) : /\ Len(a) + i \in 1 .. Len(c)
                            /\ c[Len(a) + i] = b[i]
    BY <1>1, <1>2, <1>3
<1>7. \A i \in 1 .. Len(c) : \/ i \in 1 .. Len(a) /\ c[i] = a[i]
                             \/ /\ i - Len(a) \in 1 .. Len(b)
                                /\ i > Len(a) /\ c[i] = b[i - Len(a)]
    BY <1>1, <1>2, <1>3
<1>8. Elems(c) = Elems(a) \cup Elems(b)
    BY <1>1, <1>4, <1>5, <1>6, <1>7
<1>9. ASSUME Rising(a), Rising(b), Before(Elems(a), Elems(b))
      PROVE  Rising(c)
    <2> SUFFICES ASSUME NEW i \in 1 .. Len(c), NEW j \in 1 .. Len(c), i < j
                 PROVE  c[i] < c[j]
        BY <1>4 DEF Rising
    <2>1. CASE j <= Len(a)
        <3>1. i \in 1 .. Len(a) /\ j \in 1 .. Len(a)
            BY <1>1, <1>2, <2>1
        <3> QED
            BY <1>1, <1>5, <1>9, <3>1 DEF Rising
    <2>2. CASE i <= Len(a) /\ j > Len(a)
        <3>1. i \in 1 .. Len(a) /\ j - Len(a) \in 1 .. Len(b)
            BY <1>1, <1>2, <2>2
        <3>2. c[i] \in Elems(a) /\ c[j] \in Elems(b)
            BY <1>1, <1>5, <1>7, <2>2, <3>1
        <3> QED
            BY <1>9, <3>2 DEF Before
    <2>3. CASE i > Len(a)
        <3>1. /\ i - Len(a) \in 1 .. Len(b) /\ j - Len(a) \in 1 .. Len(b)
              /\ i - Len(a) < j - Len(a)
            BY <1>1, <1>2, <2>3
        <3>2. c[i] = b[i - Len(a)] /\ c[j] = b[j - Len(a)]
            BY <1>1, <1>2, <1>3, <2>3
        <3> QED
            BY <1>1, <1>9, <3>1, <3>2 DEF Rising
    <2> QED
        BY <1>1, <1>2, <2>1, <2>2, <2>3
<1> QED
    BY <1>2, <1>5, <1>8, <1>9 DEF c

\* A queue has the bytes of its entries.
LEMMA QueueType ==
    ASSUME NEW q \in Seq(Bytes)
    PROVE  /\ Len(q) \in Nat /\ DOMAIN q = 1 .. Len(q)
           /\ \A i \in 1 .. Len(q) : q[i] \in Bytes
           /\ All(q) = UNION {Elems(q[i]) : i \in 1 .. Len(q)}
<1>1. /\ Len(q) \in Nat /\ DOMAIN q = 1 .. Len(q)
      /\ \A i \in 1 .. Len(q) : q[i] \in Bytes
    OBVIOUS
<1> QED
    BY <1>1 DEF All

\* r.recvData <- chunk, and a message joining the wire.
LEMMA Enqueue ==
    ASSUME NEW q \in Seq(Bytes), NEW b \in Bytes
    PROVE  /\ Append(q, b) \in Seq(Bytes)
           /\ All(Append(q, b)) = All(q) \cup Elems(b)
           /\ QueueInOrder(q) /\ Rising(b) /\ Before(All(q), Elems(b))
                  => QueueInOrder(Append(q, b))
<1> DEFINE p == Append(q, b)
<1>1. /\ p \in Seq(Bytes) /\ Len(p) = Len(q) + 1
      /\ \A i \in 1 .. Len(q) : p[i] = q[i]
      /\ p[Len(q) + 1] = b
    BY AppendProperties
<1>2. /\ Len(q) \in Nat /\ DOMAIN q = 1 .. Len(q)
      /\ All(q) = UNION {Elems(q[i]) : i \in 1 .. Len(q)}
      /\ DOMAIN p = 1 .. Len(p)
      /\ All(p) = UNION {Elems(p[i]) : i \in 1 .. Len(p)}
    BY <1>1, QueueType
<1> HIDE DEF p
<1>3. 1 .. Len(p) = (1 .. Len(q)) \cup {Len(q) + 1}
    BY <1>1, <1>2
<1>4. All(p) = All(q) \cup Elems(b)
    BY <1>1, <1>2, <1>3
<1>5. ASSUME QueueInOrder(q), Rising(b), Before(All(q), Elems(b))
      PROVE  QueueInOrder(p)
    <2>1. \A i \in 1 .. Len(q) : Elems(q[i]) \subseteq All(q)
        BY <1>2
    <2>2. \A i \in 1 .. Len(p) : Rising(p[i])
        BY <1>1, <1>2, <1>3, <1>5 DEF QueueInOrder
    <2>3. ASSUME NEW i \in 1 .. Len(p), NEW j \in 1 .. Len(p), i < j
          PROVE  Before(Elems(p[i]), Elems(p[j]))
        <3>1. i \in 1 .. Len(q)
            BY <1>1, <1>2, <2>3
        <3>2. CASE j \in 1 .. Len(q)
            BY <1>1, <1>2, <1>5, <2>3, <3>1, <3>2 DEF QueueInOrder
        <3>3. CASE j = Len(q) + 1
            BY <1>1, <1>5, <2>1, <3>1, <3>3 DEF Before
        <3> QED
            BY <1>3, <3>2, <3>3
    <2> QED
        BY <1>2, <2>2, <2>3 DEF QueueInOrder
<1> QED
    BY <1>1, <1>4, <1>5 DEF p

\* <-r.recvData, and a message leaving the wire.
LEMMA Dequeue ==
    ASSUME NEW q \in Seq(Bytes), q # <<>>
    PROVE  /\ Head(q) \in Bytes /\ Tail(q) \in Seq(Bytes)
           /\ All(q) = Elems(Head(q)) \cup All(Tail(q))
           /\ QueueInOrder(q) => /\ Rising(Head(q)) /\ QueueInOrder(Tail(q))
                                 /\ Before(Elems(Head(q)), All(Tail(q)))
<1> DEFINE h == Head(q)
           p == Tail(q)
<1>1. h \in Bytes /\ p \in Seq(Bytes)
    BY HeadTailProperties
<1>2. /\ Len(q) \in Nat /\ DOMAIN q = 1 .. Len(q)
      /\ All(q) = UNION {Elems(q[i]) : i \in 1 .. Len(q)}
      /\ DOMAIN p = 1 .. Len(p) /\ Len(p) \in Nat
      /\ All(p) = UNION {Elems(p[i]) : i \in 1 .. Len(p)}
    BY <1>1, QueueType
<1>3. /\ h = q[1] /\ Len(q) >= 1 /\ Len(p) = Len(q) - 1
      /\ \A i \in 1 .. Len(p) : p[i] = q[i + 1]
    BY <1>2, HeadTailProperties, EmptySeq
<1> HIDE DEF h, p
<1>4. /\ \A i \in 1 .. Len(p) : i + 1 \in 1 .. Len(q)
      /\ \A i \in 1 .. Len(q) : i = 1 \/ (i - 1 \in 1 .. Len(p) /\ p[i - 1] = q[i])
      /\ 1 \in 1 .. Len(q)
    BY <1>2, <1>3
<1>5. All(q) = Elems(h) \cup All(p)
    <2>1. \A i \in 1 .. Len(q) : Elems(q[i]) \subseteq Elems(h) \cup All(p)
        BY <1>2, <1>3, <1>4
    <2>2. \A i \in 1 .. Len(p) : Elems(p[i]) \subseteq All(q)
        BY <1>2, <1>3, <1>4
    <2>3. Elems(h) \subseteq All(q)
        BY <1>2, <1>3, <1>4
    <2> QED
        BY <1>2, <2>1, <2>2, <2>3
<1>6. ASSUME QueueInOrder(q)
      PROVE  Rising(h) /\ QueueInOrder(p) /\ Before(Elems(h), All(p))
    <2>1. Rising(h)
        BY <1>2, <1>3, <1>4, <1>6 DEF QueueInOrder
    <2>2. QueueInOrder(p)
        <3>1. \A i \in 1 .. Len(p) : Rising(p[i])
            BY <1>2, <1>3, <1>4, <1>6 DEF QueueInOrder
        <3>2. ASSUME NEW i \in 1 .. Len(p), NEW j \in 1 .. Len(p), i < j
              PROVE  Before(Elems(p[i]), Elems(p[j]))
            <4>1. /\ i + 1 \in DOMAIN q /\ j + 1 \in DOMAIN q /\ i + 1 < j + 1
                  /\ p[i] = q[i + 1] /\ p[j] = q[j + 1]
                BY <1>2, <1>3, <1>4, <3>2
            <4> QED
                BY <1>6, <4>1 DEF QueueInOrder
        <3> QED
            BY <1>2, <3>1, <3>2 DEF QueueInOrder
    <2>3. \A i \in 1 .. Len(p) : Before(Elems(h), Elems(p[i]))
        BY <1>2, <1>3, <1>4, <1>6 DEF QueueInOrder
    <2>4. Before(Elems(h), All(p))
        BY <1>2, <2>3 DEF Before
    <2> QED
        BY <2>1, <2>2, <2>4
<1> QED
    BY <1>1, <1>5, <1>6 DEF h, p
-----------------------------------------------------------------------------
(* Readers.                                                                  *)

\* The empty string has no bytes.
LEMMA NoBytes == <<>> \in Bytes /\ Elems(<<>>) = {} /\ Rising(<<>>)
    BY DEF Bytes, Elems, Rising

\* What bufio's Read does with the bytes it has: some are handed out, the
\* others stay, none is lost.
LEMMA HandOut ==
    ASSUME NEW r \in Reader, NEW b \in Bytes, NEW n \in Nat
    PROVE  LET r2 == Returned(r, b, n)
           IN  /\ r2 \in Reader /\ r2.queue = r.queue
               /\ Elems(r2.got) \cup Elems(r2.buf) = Elems(r.got) \cup Elems(b)
               /\ /\ Rising(r.got) /\ Rising(b)
                  /\ Before(Elems(r.got), Elems(b))
                  => /\ Rising(r2.got) /\ Rising(r2.buf)
                     /\ Before(Elems(r2.got), Elems(r2.buf))
               /\ Len(r2.got) = Len(r.got) + min(n, Len(b))
               /\ \A i \in 1 .. Len(r.got) : r2.got[i] = r.got[i]
<1> DEFINE r2 == Returned(r, b, n)
           l == min(n, Len(b))
           p == SubSeq(b, 1, l)
           q == SubSeq(b, l + 1, Len(b))
<1>1. l \in 0 .. Len(b) /\ Len(b) \in Nat
    BY ElemsType DEF min
<1>2. /\ p \in Bytes /\ q \in Bytes /\ Elems(b) = Elems(p) \cup Elems(q)
      /\ Rising(b) => Rising(p) /\ Rising(q) /\ Before(Elems(p), Elems(q))
    <2> HIDE DEF l
    <2> QED
        BY <1>1, Cut
<1>3. Len(p) = l
    <2>1. 1 \in Nat \ {0} /\ (IF 1 <= l THEN l - 1 + 1 ELSE 0) = l
        BY <1>1
    <2> HIDE DEF l
    <2>2. Len(p) = IF 1 <= l THEN l - 1 + 1 ELSE 0
        BY <1>1, <2>1, SubPart
    <2> HIDE DEF p
    <2> QED
        BY <1>1, <2>2
<1>4. /\ r2 \in Reader /\ r2.queue = r.queue
      /\ r2.got = r.got \o p /\ r2.buf = q
    BY ReturnedType DEF Returned, Reader
<1>5. r.got \in Bytes
    BY DEF Reader
<1> HIDE DEF r2, l, p, q
<1>6. /\ Elems(r2.got) = Elems(r.got) \cup Elems(p)
      /\ Rising(r.got) /\ Rising(p) /\ Before(Elems(r.got), Elems(p))
             => Rising(r2.got)
      /\ Len(r2.got) = Len(r.got) + l
      /\ \A i \in 1 .. Len(r.got) : r2.got[i] = r.got[i]
    <2> DEFINE c == r.got \o p
    <2>1. /\ Elems(c) = Elems(r.got) \cup Elems(p)
          /\ Rising(r.got) /\ Rising(p) /\ Before(Elems(r.got), Elems(p))
                 => Rising(c)
          /\ Len(c) = Len(r.got) + Len(p)
          /\ \A i \in 1 .. Len(r.got) : c[i] = r.got[i]
        BY <1>2, <1>5, Join
    <2> HIDE DEF c
    <2>2. r2.got = c
        BY <1>4 DEF c
    <2> QED
        BY Zenon, <1>3, <2>1, <2>2
<1>7. ASSUME Rising(r.got), Rising(b), Before(Elems(r.got), Elems(b))
      PROVE  /\ Rising(r2.got) /\ Rising(r2.buf)
             /\ Before(Elems(r2.got), Elems(r2.buf))
    BY <1>2, <1>4, <1>6, <1>7 DEF Before
<1> QED
    BY <1>2, <1>4, <1>6, <1>7 DEF r2, l

\* A Read that finds bytes in the buffer.
LEMMA ReadBuffered ==
    ASSUME NEW r \in Reader, NEW n \in Nat
    PROVE  LET r2 == Returned(r, r.buf, n)
           IN  /\ HeldBy(r2) = HeldBy(r)
               /\ ReaderInOrder(r) => ReaderInOrder(r2)
               /\ Len(r2.got) = Len(r.got) + min(n, Len(r.buf))
               /\ \A i \in 1 .. Len(r.got) : r2.got[i] = r.got[i]
<1> DEFINE r2 == Returned(r, r.buf, n)
<1>0. r.buf \in Bytes
    BY DEF Reader
<1>1. /\ r2 \in Reader /\ r2.queue = r.queue
      /\ Elems(r2.got) \cup Elems(r2.buf) = Elems(r.got) \cup Elems(r.buf)
      /\ /\ Rising(r.got) /\ Rising(r.buf)
         /\ Before(Elems(r.got), Elems(r.buf))
         => /\ Rising(r2.got) /\ Rising(r2.buf)
            /\ Before(Elems(r2.got), Elems(r2.buf))
      /\ Len(r2.got) = Len(r.got) + min(n, Len(r.buf))
      /\ \A i \in 1 .. Len(r.got) : r2.got[i] = r.got[i]
    BY <1>0, HandOut
<1> HIDE DEF r2
<1>2. HeldBy(r2) = HeldBy(r)
    BY Zenon, <1>1 DEF HeldBy
<1>3. ReaderInOrder(r) => ReaderInOrder(r2)
    BY Zenon, <1>1 DEF ReaderInOrder
<1> QED
    BY <1>1, <1>2, <1>3 DEF r2

\* A Read that has waited for a chunk.
LEMMA ReadDequeued ==
    ASSUME NEW r \in Reader, NEW n \in Nat, r.queue # <<>>, r.buf = <<>>
    PROVE  LET r2 == Returned([r EXCEPT !.queue = Tail(r.queue)],
                              Head(r.queue), n)
           IN  /\ HeldBy(r2) = HeldBy(r)
               /\ ReaderInOrder(r) => ReaderInOrder(r2)
               /\ Len(r2.got) = Len(r.got) + min(n, Len(Head(r.queue)))
               /\ \A i \in 1 .. Len(r.got) : r2.got[i] = r.got[i]
<1> DEFINE d == [r EXCEPT !.queue = Tail(r.queue)]
           h == Head(r.queue)
           r2 == Returned(d, h, n)
<1>0. r.queue \in Seq(Bytes) /\ r.got \in Bytes
    BY DEF Reader
<1>1. /\ h \in Bytes /\ Tail(r.queue) \in Seq(Bytes)
      /\ All(r.queue) = Elems(h) \cup All(Tail(r.queue))
      /\ QueueInOrder(r.queue) => /\ Rising(h) /\ QueueInOrder(Tail(r.queue))
                                  /\ Before(Elems(h), All(Tail(r.queue)))
    BY <1>0, Dequeue
<1>2. d \in Reader /\ d.queue = Tail(r.queue) /\ d.got = r.got
    BY <1>1 DEF Reader
<1> HIDE DEF d, h
<1>3. /\ r2 \in Reader /\ r2.queue = d.queue
      /\ Elems(r2.got) \cup Elems(r2.buf) = Elems(d.got) \cup Elems(h)
      /\ /\ Rising(d.got) /\ Rising(h)
         /\ Before(Elems(d.got), Elems(h))
         => /\ Rising(r2.got) /\ Rising(r2.buf)
            /\ Before(Elems(r2.got), Elems(r2.buf))
      /\ Len(r2.got) = Len(d.got) + min(n, Len(h))
      /\ \A i \in 1 .. Len(d.got) : r2.got[i] = d.got[i]
    BY <1>1, <1>2, HandOut
<1> HIDE DEF r2
<1>4. Elems(r.buf) = {}
    BY NoBytes
<1>5. HeldBy(r2) = HeldBy(r)
    BY Zenon, <1>1, <1>2, <1>3, <1>4 DEF HeldBy
<1>6. ASSUME ReaderInOrder(r) PROVE ReaderInOrder(r2)
    <2>1. /\ Rising(r.got) /\ QueueInOrder(r.queue)
          /\ Before(Elems(r.got), All(r.queue))
        BY <1>4, <1>6 DEF ReaderInOrder, Before
    <2>2. Before(Elems(r.got), Elems(h))
        BY <1>1, <2>1 DEF Before
    <2>3. Before(Elems(r.got) \cup Elems(h), All(Tail(r.queue)))
        BY <1>1, <2>1 DEF Before
    <2> QED
        BY Zenon, <1>1, <1>2, <1>3, <2>1, <2>2, <2>3 DEF ReaderInOrder
<1> QED
    BY <1>2, <1>3, <1>5, <1>6 DEF r2, d, h

\* A chunk that joins the queue of a reader.
LEMMA PushChunk ==
    ASSUME NEW r \in Reader, NEW b \in Bytes
    PROVE  LET r2 == [r EXCEPT !.queue = Append(@, b)]
           IN  /\ r2.got = r.got /\ r2.buf = r.buf
               /\ HeldBy(r2) = HeldBy(r) \cup Elems(b)
               /\ /\ ReaderInOrder(r) /\ Rising(b)
                  /\ Before(HeldBy(r), Elems(b))
                  => ReaderInOrder(r2)
<1> DEFINE r2 == [r EXCEPT !.queue = Append(@, b)]
<1>0. r.queue \in Seq(Bytes)
    BY DEF Reader
<1>1. r2.got = r.got /\ r2.buf = r.buf /\ r2.queue = Append(r.queue, b)
    BY DEF Reader
<1>2. /\ All(Append(r.queue, b)) = All(r.queue) \cup Elems(b)
      /\ QueueInOrder(r.queue) /\ Rising(b) /\ Before(All(r.queue), Elems(b))
             => QueueInOrder(Append(r.queue, b))
    BY <1>0, Enqueue
<1> HIDE DEF r2
<1>3. HeldBy(r2) = HeldBy(r) \cup Elems(b)
    BY Zenon, <1>1, <1>2 DEF HeldBy
<1>4. ASSUME ReaderInOrder(r), Rising(b), Before(HeldBy(r), Elems(b))
      PROVE  ReaderInOrder(r2)
    <2>1. /\ Before(All(r.queue), Elems(b))
          /\ Before(Elems(r.got) \cup Elems(r.buf), Elems(b))
        BY <1>4 DEF HeldBy, Before
    <2>2. Before(Elems(r.got) \cup Elems(r.buf), All(r2.queue))
        BY <1>1, <1>2, <1>4, <2>1 DEF ReaderInOrder, Before
    <2> QED
        BY Zenon, <1>1, <1>2, <1>4, <2>1, <2>2 DEF ReaderInOrder
<1> QED
    BY <1>1, <1>3, <1>4 DEF r2
-----------------------------------------------------------------------------
(* InvStream is inductive.                                                   *)

\* Bytes of readers and messages are naturals.
LEMMA HeldNat ==
    ASSUME TypeOK
    PROVE  /\ sent \in Nat
           /\ \A s \in Session : rd[s] \in Reader
           /\ om.rest \in Bytes /\ wire \in Seq(Bytes)
           /\ OnTheWay = Elems(om.rest) \cup All(wire)
<1>1. om.rest \in Bytes
    BY DEF TypeOK, OnMessageState
<1> QED
    BY <1>1, Counters DEF TypeOK, OnTheWay

\* The initial channel is empty.
LEMMA StreamInit == Init => InvStream
<1> SUFFICES ASSUME Init PROVE InvStream
    OBVIOUS
<1>1. /\ om.rest = <<>> /\ wire = <<>> /\ sent = 0
      /\ \A s \in Session : /\ rd[s] = NewChannelReader
                            /\ conn[s] = NewConn
    BY DEF Init
<1>2. All(<<>>) = {} /\ QueueInOrder(<<>>)
    BY DEF All, QueueInOrder
<1>3. HeldBy(NewChannelReader) = {} /\ ReaderInOrder(NewChannelReader)
    BY <1>2, NoBytes DEF HeldBy, NewChannelReader, ReaderInOrder, Before
<1>4. OnTheWay = {}
    BY <1>1, <1>2, NoBytes DEF OnTheWay
<1>5. PendingInOrder
    BY <1>1, <1>2, NoBytes DEF PendingInOrder, Before
<1>6. SessionsInOrder
    BY <1>1, <1>3, <1>4 DEF SessionsInOrder, Before
<1>7. Conserved
    BY <1>1, <1>3, <1>4 DEF Conserved
<1>8. InvRest /\ InvFuture /\ InvOneRead
    BY <1>1, <1>3 DEF InvRest, InvFuture, InvOneRead, NewConn
<1> QED
    BY <1>5, <1>6, <1>7, <1>8 DEF InvStream

\* A step that leaves the bytes of every reader and of the messages where they
\* are, up to moves within a reader, keeps the stream in order.
LEMMA StreamKept ==
    ASSUME InvStream,
           \A s \in Session : /\ HeldBy(rd'[s]) = HeldBy(rd[s])
                              /\ ReaderInOrder(rd'[s]),
           om'.rest = om.rest, wire' = wire, sent' = sent,
           closed => closed', session' >= session, session \in Nat,
           session' \in Nat
    PROVE  PendingInOrder' /\ SessionsInOrder' /\ Conserved' /\ InvFuture'
<1>1. OnTheWay' = OnTheWay
    BY DEF OnTheWay
<1>2. PendingInOrder'
    BY DEF InvStream, PendingInOrder
<1>3. SessionsInOrder'
    BY Zenon, <1>1 DEF InvStream, SessionsInOrder
<1>4. UNION {HeldBy(rd'[s]) : s \in Session}
        = UNION {HeldBy(rd[s]) : s \in Session}
    OBVIOUS
<1>5. Conserved'
    BY <1>1, <1>4 DEF InvStream, Conserved
<1>6. InvFuture'
    BY DEF InvStream, InvFuture, Session
<1> QED
    BY <1>2, <1>3, <1>5, <1>6

\* The remote end sends.
LEMMA StreamSend ==
    ASSUME TypeOK, InvStream, NEW n \in MsgSizes, RemoteSend(n)
    PROVE  InvStream'
<1> DEFINE m == [i \in 1 .. n |-> sent + i]
<1>1. n \in Nat /\ sent \in Nat /\ wire \in Seq(Bytes)
    BY ChannelAssumption, HeldNat
<1>2. m \in Bytes /\ Len(m) = n /\ DOMAIN m = 1 .. n
    BY <1>1 DEF Bytes
<1>3. Rising(m)
    BY <1>1 DEF Rising
<1>4. Elems(m) = sent + 1 .. sent + n
    <2>1. \A x \in sent + 1 .. sent + n : x - sent \in 1 .. n /\ sent + (x - sent) = x
        BY <1>1
    <2>2. \A i \in 1 .. n : sent + i \in sent + 1 .. sent + n
        BY <1>1
    <2> QED
        BY <2>1, <2>2 DEF Elems
<1>5. /\ wire' = Append(wire, m) /\ sent' = sent + n
      /\ UNCHANGED <<rd, om, session, conn, closed>>
    BY DEF RemoteSend
<1>6. OnTheWay \subseteq 1 .. sent /\ \A s \in Session : HeldBy(rd[s]) \subseteq 1 .. sent
    BY DEF InvStream, Conserved
<1>7. Before(OnTheWay, Elems(m)) /\ \A s \in Session : Before(HeldBy(rd[s]), Elems(m))
    <2>1. \A x \in 1 .. sent, y \in sent + 1 .. sent + n : x < y
        BY <1>1
    <2> QED
        BY Zenon, <1>4, <1>6, <2>1 DEF Before
<1> HIDE DEF m
<1>8. All(wire) \subseteq OnTheWay /\ Elems(om.rest) \subseteq OnTheWay
    BY DEF OnTheWay
<1>9. All(wire') = All(wire) \cup Elems(m) /\ QueueInOrder(wire')
    <2>1. Before(All(wire), Elems(m)) /\ QueueInOrder(wire)
        BY <1>7, <1>8 DEF Before, InvStream, PendingInOrder
    <2> QED
        BY <1>1, <1>2, <1>3, <1>5, <2>1, Enqueue
<1>10. OnTheWay' = OnTheWay \cup Elems(m)
    BY <1>5, <1>9 DEF OnTheWay
<1>11. PendingInOrder'
    BY <1>5, <1>7, <1>8, <1>9 DEF InvStream, PendingInOrder, Before
<1>12. SessionsInOrder'
    BY <1>5, <1>7, <1>10 DEF InvStream, SessionsInOrder, Before
<1>13. Conserved'
    <2>1. 1 .. sent + n = (1 .. sent) \cup (sent + 1 .. sent + n)
        BY <1>1
    <2> QED
        BY <1>4, <1>5, <1>10, <2>1 DEF InvStream, Conserved
<1> QED
    BY <1>5, <1>11, <1>12, <1>13
    DEF InvStream, InvRest, InvFuture, InvOneRead

\* pion hands the next message to OnMessage.
LEMMA StreamTake ==
    ASSUME TypeOK, InvStream, OnMessage
    PROVE  InvStream'
<1>1. /\ wire \in Seq(Bytes) /\ wire # <<>> /\ om.rest = <<>>
      /\ om'.rest = Head(wire) /\ om'.pc = "select" /\ wire' = Tail(wire)
      /\ UNCHANGED <<rd, session, conn, closed, sent>>
    BY HeldNat DEF OnMessage, InvStream, InvRest
<1>2. /\ All(wire) = Elems(om'.rest) \cup All(wire')
      /\ Rising(om'.rest) /\ QueueInOrder(wire')
      /\ Before(Elems(om'.rest), All(wire'))
    BY <1>1, Dequeue DEF InvStream, PendingInOrder
<1>3. OnTheWay' = OnTheWay
    BY <1>1, <1>2, NoBytes DEF OnTheWay
<1>4. PendingInOrder'
    BY <1>2 DEF PendingInOrder
<1>5. SessionsInOrder' /\ Conserved'
    BY <1>1, <1>3 DEF InvStream, SessionsInOrder, Conserved
<1> QED
    BY <1>1, <1>4, <1>5 DEF InvStream, InvRest, InvFuture, InvOneRead

\* A message dropped because the channel has closed.
LEMMA StreamDrop ==
    ASSUME TypeOK, InvStream, OnMessageClosed
    PROVE  InvStream'
<1>1. /\ om'.rest = <<>> /\ closed /\ om \in OnMessageState
      /\ UNCHANGED <<rd, wire, session, conn, closed, sent>>
    BY DEF OnMessageClosed, TypeOK, OnMessageState
<1>2. OnTheWay' \subseteq OnTheWay
    BY <1>1, NoBytes DEF OnTheWay
<1>3. PendingInOrder'
    BY <1>1, NoBytes DEF InvStream, PendingInOrder, Before
<1>4. SessionsInOrder'
    BY <1>1, <1>2 DEF InvStream, SessionsInOrder, Before
<1>5. Conserved'
    BY <1>1, <1>2 DEF InvStream, Conserved
<1> QED
    BY <1>1, <1>3, <1>4, <1>5 DEF InvStream, InvRest, InvFuture, InvOneRead

\* A Conn that waits, waits in the reader of some session.
LEMMA WaitsInSession ==
    ASSUME TypeOK, NEW k \in Session
    PROVE  /\ conn[k] \in ConnState /\ conn[k].want \in Nat
           /\ conn[k].at \in Nat
           /\ conn[k].at > 0 => conn[k].at \in Session
<1>1. conn[k] \in ConnState
    BY DEF TypeOK
<1>2. conn[k].at \in 0 .. MaxSession /\ conn[k].want \in Nat
    BY <1>1 DEF ConnState
<1> QED
    BY <1>1, <1>2, ChannelAssumption DEF Session

\* OnData puts the next chunk into recvData of the current session.
LEMMA StreamPush ==
    ASSUME TypeOK, Ownership, InvStream, OnDataPush
    PROVE  InvStream'
<1> DEFINE l == ChunkLen(om.rest)
           b == SubSeq(om.rest, 1, l)
           e == SubSeq(om.rest, l + 1, Len(om.rest))
           s == om.to
           r == [rd[s] EXCEPT !.queue = Append(@, b)]
<1>1. /\ s = session /\ session \in Session /\ om.pc = "push"
      /\ om \in OnMessageState /\ rd[s] \in Reader /\ rd \in [Session -> Reader]
    <2>1. om.pc = "push" /\ s = session /\ session > 0
        BY DEF OnDataPush, Ownership, InvActive
    <2>2. session \in Session
        BY <2>1, Counters DEF Session
    <2>3. om \in OnMessageState /\ rd \in [Session -> Reader]
        BY DEF TypeOK
    <2> QED
        BY <2>1, <2>2, <2>3
<1>2. om.rest \in Bytes /\ Rising(om.rest)
    BY HeldNat DEF InvStream, PendingInOrder
<1>3. l \in 0 .. Len(om.rest)
    BY <1>2, ElemsType, ChannelAssumption DEF ChunkLen, min
<1>4. /\ b \in Bytes /\ e \in Bytes
      /\ Elems(om.rest) = Elems(b) \cup Elems(e)
      /\ Rising(b) /\ Rising(e) /\ Before(Elems(b), Elems(e))
    <2> HIDE DEF l
    <2> QED
        BY <1>2, <1>3, Cut
<1>5. CASE UNCHANGED <<rd, om>>
    <2>1. UNCHANGED <<rd, om, wire, sent, closed, session, conn>>
        BY <1>5 DEF OnDataPush
    <2>2. OnTheWay' = OnTheWay
        BY <2>1 DEF OnTheWay
    <2> HIDE DEF l, b, e, s, r
    <2>3. PendingInOrder'
        BY <2>1 DEF InvStream, PendingInOrder
    <2>4. SessionsInOrder'
        BY <2>1, <2>2 DEF InvStream, SessionsInOrder
    <2>5. Conserved'
        BY <2>1, <2>2 DEF InvStream, Conserved
    <2>6. InvRest' /\ InvFuture' /\ InvOneRead'
        BY <2>1 DEF InvStream, InvRest, InvFuture, InvOneRead
    <2> QED
        BY <2>3, <2>4, <2>5, <2>6 DEF InvStream
<1>6. CASE ~UNCHANGED <<rd, om>>
    <2>1. /\ rd' = [rd EXCEPT ![s].queue = Append(@, b)]
          /\ om' = [om EXCEPT !.rest = e]
          /\ UNCHANGED <<wire, sent, closed, session, conn>>
        BY <1>6 DEF OnDataPush
    <2>2. /\ rd'[s] = r /\ \A t \in Session \ {s} : rd'[t] = rd[t]
          /\ om'.rest = e /\ om'.pc = "push"
        BY <1>1, <2>1 DEF OnMessageState
    <2> HIDE DEF b, e, l
    <2>3. /\ Before(HeldBy(rd[s]), OnTheWay) /\ ReaderInOrder(rd[s])
          /\ Elems(b) \subseteq OnTheWay
        BY <1>1, <1>4 DEF InvStream, SessionsInOrder, OnTheWay
    <2>4. /\ r.got = rd[s].got /\ r.buf = rd[s].buf
          /\ HeldBy(r) = HeldBy(rd[s]) \cup Elems(b)
          /\ ReaderInOrder(r)
        <3>1. Before(HeldBy(rd[s]), Elems(b))
            BY <2>3 DEF Before
        <3> HIDE DEF s
        <3> QED
            BY <1>1, <1>4, <2>3, <3>1, PushChunk
    <2> HIDE DEF r, s
    <2>5. /\ OnTheWay' = Elems(e) \cup All(wire)
          /\ OnTheWay = Elems(b) \cup OnTheWay'
        BY <1>4, <2>1, <2>2 DEF OnTheWay
    <2>6. Before(Elems(b), OnTheWay')
        BY <1>4, <2>5 DEF InvStream, PendingInOrder, Before
    <2>7. PendingInOrder'
        BY <1>4, <2>1, <2>2 DEF InvStream, PendingInOrder, Before
    <2>8. \A t \in Session :
              /\ t < s => Before(HeldBy(rd[t]), HeldBy(rd[s]))
              /\ t > s => HeldBy(rd[t]) = {}
              /\ Before(HeldBy(rd[t]), OnTheWay) /\ ReaderInOrder(rd[t])
        BY <1>1 DEF InvStream, SessionsInOrder, InvFuture
    <2>9. SessionsInOrder'
        <3>1. \A t \in Session : ReaderInOrder(rd'[t])
            BY <2>2, <2>4, <2>8
        <3>2. \A t \in Session : Before(HeldBy(rd'[t]), OnTheWay')
            BY <2>2, <2>4, <2>5, <2>6, <2>8 DEF Before
        <3>3. ASSUME NEW t \in Session, NEW u \in Session, t < u
              PROVE  Before(HeldBy(rd'[t]), HeldBy(rd'[u]))
            <4>1. CASE u = s
                BY <1>1, <2>2, <2>3, <2>4, <2>8, <3>3, <4>1 DEF Before, Session
            <4>2. CASE t = s
                BY <1>1, <2>2, <2>8, <3>3, <4>2 DEF Before, Session
            <4>3. CASE t # s /\ u # s
                BY <2>2, <3>3, <4>3 DEF InvStream, SessionsInOrder
            <4> QED
                BY <4>1, <4>2, <4>3
        <3> QED
            BY <3>1, <3>2, <3>3 DEF SessionsInOrder
    <2>10. Conserved'
        <3>1. OnTheWay \cup UNION {HeldBy(rd[t]) : t \in Session}
                = OnTheWay' \cup UNION {HeldBy(rd'[t]) : t \in Session}
            <4>1. \A t \in Session :
                      /\ HeldBy(rd[t]) \subseteq HeldBy(rd'[t])
                      /\ HeldBy(rd'[t]) \subseteq HeldBy(rd[t]) \cup Elems(b)
                BY <2>2, <2>4
            <4>2. Elems(b) \subseteq HeldBy(rd'[s])
                BY <2>2, <2>4
            <4> QED
                BY <1>1, <2>5, <4>1, <4>2
        <3> QED
            BY <2>1, <3>1 DEF InvStream, Conserved
    <2>11. InvFuture'
        BY <1>1, <2>1, <2>2 DEF InvStream, InvFuture, Session
    <2>12. InvOneRead'
        <3>1. \A t \in Session : rd'[t].buf = rd[t].buf
            BY <2>2, <2>4
        <3>2. \A k \in Session : conn[k].at > 0 => conn[k].at \in Session
            BY WaitsInSession
        <3> QED
            BY <2>1, <3>1, <3>2 DEF InvStream, InvOneRead
    <2> QED
        BY <2>2, <2>7, <2>9, <2>10, <2>11, <2>12 DEF InvStream, InvRest
<1> QED
    BY <1>5, <1>6

\* A Read returns bytes from the buffer, or starts to wait for a chunk.
LEMMA StreamRead ==
    ASSUME TypeOK, Ownership, InvStream,
           NEW k \in Session, NEW n \in ReadSizes, Read(k, n)
    PROVE  InvStream'
<1>1. /\ session \in Session /\ n \in Nat /\ session \in Nat
      /\ rd \in [Session -> Reader] /\ conn \in [Session -> ConnState]
    <2>1. session \in Session /\ session \in Nat
        BY Counters DEF Read, Session
    <2>2. rd \in [Session -> Reader] /\ conn \in [Session -> ConnState]
        BY DEF TypeOK
    <2>3. n \in Nat
        BY ChannelAssumption
    <2> QED
        BY <2>1, <2>2, <2>3
<1>2. /\ UNCHANGED <<wire, sent, closed, session, om>>
      /\ conn[k].at = 0
    BY DEF Read
<1>3. \A j \in Session \ {k} : conn[j].at # session
    <2>1. \A j \in Session : j > nconns => conn[j].at = 0
        BY DEF Ownership, InvConns, NewConn
    <2>2. \A j \in Session \ {k} : j <= nconns => conn[j].at # session
        BY Counters DEF Read, BufferBusy, Conns, Session
    <2> QED
        BY <1>1, <2>1, <2>2, Counters DEF Session
<1>4. CASE /\ rd' = [rd EXCEPT ![session] = Returned(@, @.buf, n)]
           /\ conn' = [conn EXCEPT ![k] = DoneReading(@, session)]
    <2> DEFINE r == Returned(rd[session], rd[session].buf, n)
    <2>1. HeldBy(r) = HeldBy(rd[session]) /\ ReaderInOrder(r)
        BY <1>1, ReadBuffered DEF InvStream, SessionsInOrder
    <2> HIDE DEF r
    <2>2. rd'[session] = r /\ \A t \in Session \ {session} : rd'[t] = rd[t]
        BY <1>1, <1>4 DEF r
    <2>3. \A t \in Session : HeldBy(rd'[t]) = HeldBy(rd[t]) /\ ReaderInOrder(rd'[t])
        BY <2>1, <2>2 DEF InvStream, SessionsInOrder
    <2>4. PendingInOrder' /\ SessionsInOrder' /\ Conserved' /\ InvFuture'
        BY <1>1, <1>2, <2>3, StreamKept
    <2>5. conn'[k].at = 0 /\ \A j \in Session \ {k} : conn'[j] = conn[j]
        BY <1>1, <1>4, WaitsInSession, DoneReadingType
    <2>6. \A j \in Session :
              conn'[j].at > 0 => /\ conn'[j].at = conn[j].at
                                 /\ conn[j].at \in Session \ {session}
        BY <1>3, <2>5, WaitsInSession
    <2>7. InvOneRead'
        BY <2>2, <2>6 DEF InvStream, InvOneRead
    <2> QED
        BY <1>2, <2>4, <2>7 DEF InvStream, InvRest
<1>5. CASE /\ conn' = [conn EXCEPT ![k].at = session, ![k].want = n]
           /\ UNCHANGED rd /\ rd[session].buf = <<>>
    <2>1. \A t \in Session : HeldBy(rd'[t]) = HeldBy(rd[t]) /\ ReaderInOrder(rd'[t])
        BY <1>5 DEF InvStream, SessionsInOrder
    <2>2. PendingInOrder' /\ SessionsInOrder' /\ Conserved' /\ InvFuture'
        BY <1>1, <1>2, <2>1, StreamKept
    <2>3. conn'[k].at = session /\ \A j \in Session \ {k} : conn'[j] = conn[j]
        BY <1>1, <1>5, WaitsInSession DEF ConnState
    <2>4. InvOneRead'
        BY <1>1, <1>3, <1>5, <2>3 DEF InvStream, InvOneRead
    <2> QED
        BY <1>2, <2>2, <2>4 DEF InvStream, InvRest
<1> QED
    BY <1>4, <1>5 DEF Read

\* A waiting Read gets its chunk.
LEMMA StreamReadChunk ==
    ASSUME TypeOK, InvStream, NEW k \in Session, ReadChunk(k)
    PROVE  InvStream'
<1> DEFINE s == conn[k].at
           r == Returned([rd[s] EXCEPT !.queue = Tail(rd[s].queue)],
                         Head(rd[s].queue), conn[k].want)
<1>1. /\ s \in Session /\ conn[k].want \in Nat /\ session \in Nat
      /\ rd \in [Session -> Reader] /\ conn \in [Session -> ConnState]
    BY Counters, WaitsInSession DEF ReadChunk, TypeOK
<1>2. /\ UNCHANGED <<wire, sent, closed, session, om>>
      /\ rd' = [rd EXCEPT ![s] = r]
      /\ conn' = [conn EXCEPT ![k] = DoneReading(@, s)]
      /\ rd[s].queue # <<>>
    BY DEF ReadChunk
<1>3. /\ rd[s].buf = <<>>
      /\ \A j \in Session \ {k} : conn[j].at # s
    BY <1>1 DEF InvStream, InvOneRead, Session
<1>4. HeldBy(r) = HeldBy(rd[s]) /\ ReaderInOrder(r)
    <2> HIDE DEF s
    <2> QED
        BY <1>1, <1>2, <1>3, ReadDequeued DEF InvStream, SessionsInOrder
<1> HIDE DEF r
<1>5. rd'[s] = r /\ \A t \in Session \ {s} : rd'[t] = rd[t]
    BY <1>1, <1>2
<1>6. \A t \in Session : HeldBy(rd'[t]) = HeldBy(rd[t]) /\ ReaderInOrder(rd'[t])
    BY <1>4, <1>5 DEF InvStream, SessionsInOrder
<1>7. PendingInOrder' /\ SessionsInOrder' /\ Conserved' /\ InvFuture'
    BY <1>1, <1>2, <1>6, StreamKept
<1>8. conn'[k].at = 0 /\ \A j \in Session \ {k} : conn'[j] = conn[j]
    BY <1>1, <1>2, WaitsInSession, DoneReadingType
<1>9. \A j \in Session :
          conn'[j].at > 0 => /\ conn'[j].at = conn[j].at
                             /\ conn[j].at \in Session \ {s}
    BY <1>3, <1>8, WaitsInSession
<1>10. InvOneRead'
    BY <1>5, <1>9 DEF InvStream, InvOneRead
<1> QED
    BY <1>2, <1>7, <1>10 DEF InvStream, InvRest

\* Release closes recvData; its bytes stay.
LEMMA StreamReleaseReader ==
    ASSUME TypeOK, Ownership, InvStream, NEW k \in Session, ReleaseReader(k)
    PROVE  InvStream'
<1>1. /\ rd \in [Session -> Reader] /\ conn \in [Session -> ConnState]
      /\ om \in OnMessageState
    BY DEF TypeOK
<1>2. /\ rd' = [rd EXCEPT ![session].closed = TRUE]
      /\ conn' = [conn EXCEPT ![k].release = "idle"]
      /\ om' = [om EXCEPT !.overlap = @ \/ om.pc # "idle"]
      /\ UNCHANGED <<wire, sent, closed, session>>
    BY DEF ReleaseReader
<1>3. om'.pc = om.pc /\ om'.rest = om.rest
    BY <1>1, <1>2 DEF OnMessageState
<1>4. \A t \in Session : /\ rd'[t].got = rd[t].got /\ rd'[t].buf = rd[t].buf
                         /\ rd'[t].queue = rd[t].queue
    BY <1>1, <1>2 DEF Reader
<1>5. \A t \in Session : /\ HeldBy(rd'[t]) = HeldBy(rd[t])
                         /\ ReaderInOrder(rd'[t])
    BY <1>4 DEF HeldBy, ReaderInOrder, InvStream, SessionsInOrder
<1>6. PendingInOrder' /\ SessionsInOrder' /\ Conserved' /\ InvFuture'
    <2>1. session \in Nat /\ session' \in Nat /\ session' >= session
        BY <1>2, Counters
    <2>2. closed => closed'
        BY <1>2
    <2> QED
        BY <1>2, <1>3, <1>5, <2>1, <2>2, StreamKept
<1>7. \A j \in Session : conn'[j].at = conn[j].at
    BY <1>1, <1>2 DEF ConnState
<1>8. InvOneRead'
    BY <1>4, <1>7, WaitsInSession DEF InvStream, InvOneRead
<1> QED
    BY <1>3, <1>6, <1>8 DEF InvStream, InvRest

\* The steps that move no byte.
LEMMA StreamStill ==
    ASSUME TypeOK, InvStream,
           \/ OnOpen \/ OnClose \/ TakeConnCheck \/ TakeConn
           \/ OnMessageAccept \/ OnData \/ OnDataDone \/ Accept
           \/ \E k \in Session :
                  \/ ReadRace(k) \/ ReadEOF(k) \/ Release(k)
                  \/ ReleaseCheck(k) \/ ReleaseIdle(k) \/ Close(k)
    PROVE  InvStream'
<1>1. om \in OnMessageState /\ conn \in [Session -> ConnState] /\ session \in Nat
    BY Counters DEF TypeOK
<1>2. UNCHANGED <<rd, wire, sent>> /\ (closed => closed')
    <2>1. UNCHANGED rd /\ UNCHANGED wire /\ UNCHANGED sent
        BY DEF OnOpen, OnClose, TakeConnCheck, TakeConn, OnMessageAccept,
            OnData, OnDataDone, Accept, ReadRace, ReadEOF, Release,
            ReleaseCheck, ReleaseIdle, Close
    <2>2. closed => closed'
        BY Zenon DEF OnOpen, OnClose, TakeConnCheck, TakeConn,
            OnMessageAccept, OnData, OnDataDone, Accept, ReadRace, ReadEOF,
            Release, ReleaseCheck, ReleaseIdle, Close
    <2> QED
        BY <2>1, <2>2
<1>3. om'.rest = om.rest
    BY <1>1 DEF OnOpen, OnClose, TakeConnCheck, TakeConn, OnMessageAccept,
        OnData, OnDataDone, Accept, ReadRace, ReadEOF, Release, ReleaseCheck,
        ReleaseIdle, Close, OnMessageState
<1>4. session' = session \/ session' = session + 1
    BY DEF OnOpen, OnClose, TakeConnCheck, TakeConn, OnMessageAccept, OnData,
        OnDataDone, Accept, ReadRace, ReadEOF, Release, ReleaseCheck,
        ReleaseIdle, Close
<1>5. \A j \in Session : conn'[j].at = conn[j].at \/ conn'[j].at = 0
    <2>1. CASE UNCHANGED conn
        BY <2>1
    <2>2. ASSUME NEW k \in Session,
                 \/ ReadEOF(k) \/ Release(k) \/ ReleaseCheck(k)
                 \/ ReleaseIdle(k) \/ Close(k)
          PROVE  \A j \in Session : conn'[j].at = conn[j].at \/ conn'[j].at = 0
        <3>1. CASE ReadEOF(k)
            BY <1>1, <3>1 DEF ReadEOF, ConnState
        <3>2. CASE Release(k) \/ ReleaseIdle(k) \/ Close(k)
            BY <1>1, <3>2 DEF Release, ReleaseIdle, Close, ConnState
        <3>3. CASE ReleaseCheck(k)
            BY <1>1, <3>3 DEF ReleaseCheck, ConnState
        <3> QED
            BY <2>2, <3>1, <3>2, <3>3
    <2>3. UNCHANGED conn
            \/ \E k \in Session :
                  \/ ReadEOF(k) \/ Release(k) \/ ReleaseCheck(k)
                  \/ ReleaseIdle(k) \/ Close(k)
        BY DEF OnOpen, OnClose, TakeConnCheck, TakeConn, OnMessageAccept,
            OnData, OnDataDone, Accept, ReadRace
    <2> QED
        BY <2>1, <2>2, <2>3
<1>6. OnTheWay' = OnTheWay /\ PendingInOrder' /\ SessionsInOrder'
    BY <1>2, <1>3 DEF OnTheWay, InvStream, PendingInOrder, SessionsInOrder
<1>7. Conserved'
    BY <1>2, <1>6 DEF InvStream, Conserved
<1>8. InvFuture'
    BY <1>1, <1>2, <1>4 DEF InvStream, InvFuture, Session
<1>9. InvOneRead'
    BY <1>2, <1>5, WaitsInSession DEF InvStream, InvOneRead
<1>10. InvRest'
    <2>1. om'.pc = om.pc \/ om'.pc # "idle" \/ om.rest = <<>>
        BY DEF OnOpen, OnClose, TakeConnCheck, TakeConn, OnMessageAccept,
            OnData, OnDataDone, Accept, ReadRace, ReadEOF, Release,
            ReleaseCheck, ReleaseIdle, Close, OnMessageState, TypeOK
    <2> QED
        BY <1>3, <2>1 DEF InvStream, InvRest
<1> QED
    BY <1>6, <1>7, <1>8, <1>9, <1>10 DEF InvStream

\* Every step keeps the byte stream in order.
LEMMA StreamStep ==
    ASSUME TypeOK, Ownership, InvStream, [Next]_vars
    PROVE  InvStream'
<1>1. CASE Next
    <2>1. ASSUME NEW n \in MsgSizes, RemoteSend(n) PROVE InvStream'
        BY <2>1, StreamSend
    <2>2. ASSUME NEW k \in Session, NEW n \in ReadSizes, Read(k, n)
          PROVE  InvStream'
        BY <2>2, StreamRead
    <2>3. ASSUME NEW k \in Session, ReadChunk(k) \/ ReleaseReader(k)
          PROVE  InvStream'
        BY <2>3, StreamReadChunk, StreamReleaseReader
    <2>4. CASE OnMessage \/ OnMessageClosed \/ OnDataPush
        BY <2>4, StreamTake, StreamDrop, StreamPush
    <2>5. CASE \/ OnOpen \/ OnClose \/ TakeConnCheck \/ TakeConn
               \/ OnMessageAccept \/ OnData \/ OnDataDone \/ Accept
        BY Zenon, <2>5, StreamStill
    <2>6. ASSUME NEW k \in Session,
                 \/ ReadRace(k) \/ ReadEOF(k) \/ Release(k)
                 \/ ReleaseCheck(k) \/ ReleaseIdle(k) \/ Close(k)
          PROVE  InvStream'
        BY Zenon, <2>6, StreamStill
    <2>7. ASSUME NEW k \in Session,
                 UserCalls(k) \/ ReadSteps(k) \/ ReleaseSteps(k)
          PROVE  InvStream'
        BY Zenon, <2>2, <2>3, <2>6, <2>7
        DEF UserCalls, ReadSteps, ReleaseSteps
    <2> QED
        BY Zenon, <1>1, <2>1, <2>4, <2>5, <2>7 DEF Next, ReadLoop
<1>2. CASE UNCHANGED vars
    <2>1. UNCHANGED <<rd, wire, sent, om, closed, session, conn>>
        BY <1>2 DEF vars
    <2>2. PendingInOrder' /\ InvRest'
        BY <2>1 DEF InvStream, PendingInOrder, InvRest
    <2>3. SessionsInOrder'
        BY <2>1 DEF InvStream, SessionsInOrder, OnTheWay
    <2>4. Conserved'
        BY <2>1 DEF InvStream, Conserved, OnTheWay
    <2>5. InvFuture' /\ InvOneRead'
        BY <2>1 DEF InvStream, InvFuture, InvOneRead
    <2> QED
        BY <2>2, <2>3, <2>4, <2>5 DEF InvStream
<1> QED
    BY <1>1, <1>2

\* The strengthened invariant of the byte stream.
LEMMA StreamKeptAlways == Spec => [](TypeOK /\ Ownership /\ InvStream)
<1>1. Init => InvStream
    BY StreamInit
<1>2. TypeOK /\ Ownership /\ InvStream /\ [Next]_vars => InvStream'
    BY StreamStep
<1> QED
    BY <1>1, <1>2, ChannelOwnership, PTL DEF Spec

\* OnData's cutting, recvData, bufio's buffer and partial Reads neither
\* duplicate nor reorder bytes across all sessions of a channel, and lose none
\* while it is open.
THEOREM ByteStreamKept == Spec => []StreamInOrder
<1>1. InvStream => StreamInOrder
    BY DEF InvStream, StreamInOrder
<1> QED
    BY <1>1, StreamKeptAlways, PTL
-----------------------------------------------------------------------------
(* Channel implements Pipe.                                                  *)

\* What the sessions have handed out is in order, with no gap inside a session
\* while the channel is open.
LEMMA StreamPromise ==
    ASSUME TypeOK, InvStream
    PROVE  Stream!InOrder /\ Stream!NoGap
<1> DEFINE g(s) == rd[s].got
<1>1. \A s \in Session : g(s) \in Bytes /\ Rising(g(s))
    BY DEF TypeOK, Reader, InvStream, SessionsInOrder, ReaderInOrder
<1>2. \A s \in Session : Elems(g(s)) \subseteq HeldBy(rd[s])
    BY DEF HeldBy
<1>3. \A s \in Session : \A i \in DOMAIN g(s) :
          g(s)[i] \in Elems(g(s)) /\ g(s)[i] \in 1 .. sent
    BY <1>2 DEF Elems, InvStream, Conserved
<1>4. \A s, t \in Session : s < t => Before(Elems(g(s)), Elems(g(t)))
    BY <1>2 DEF Before, InvStream, SessionsInOrder
<1>5. ASSUME NEW s \in Session, NEW t \in Session,
             NEW i \in DOMAIN g(s), NEW j \in DOMAIN g(t),
             s < t \/ (s = t /\ i < j)
      PROVE  g(s)[i] < g(t)[j]
    <2>1. CASE s < t
        BY <1>3, <1>4, <2>1 DEF Before
    <2>2. CASE s = t /\ i < j
        BY <1>1, <2>2 DEF Rising
    <2> QED
        BY <1>5, <2>1, <2>2
<1>6. Stream!InOrder
    BY <1>3, <1>5 DEF Stream!InOrder, Stream!Session, Session
<1>7. ASSUME ~closed, NEW s \in Session, NEW i \in DOMAIN g(s),
             i + 1 \in DOMAIN g(s)
      PROVE  g(s)[i + 1] = g(s)[i] + 1
    <2> DEFINE x == g(s)[i]
               y == g(s)[i + 1]
    <2>1. /\ x \in 1 .. sent /\ y \in 1 .. sent /\ sent \in Nat
          /\ x \in Elems(g(s)) /\ y \in Elems(g(s))
        BY <1>3, <1>7, Counters
    <2>2. DOMAIN g(s) = 1 .. Len(g(s)) /\ Len(g(s)) \in Nat /\ i \in Nat
        BY <1>1, ElemsType
    <2>3. x < y
        BY <1>1, <1>7, <2>2 DEF Rising
    <2>4. \A j \in DOMAIN g(s) : g(s)[j] <= x \/ g(s)[j] >= y
        <3> SUFFICES ASSUME NEW j \in DOMAIN g(s)
                     PROVE  g(s)[j] <= x \/ g(s)[j] >= y
            OBVIOUS
        <3>1. g(s)[j] \in 1 .. sent
            BY <1>3
        <3>2. j < i \/ j = i \/ j = i + 1 \/ i + 1 < j
            BY <2>2
        <3>3. /\ j < i => g(s)[j] < x
              /\ i + 1 < j => y < g(s)[j]
            BY <1>1, <1>7 DEF Rising
        <3> QED
            BY <2>1, <3>1, <3>2, <3>3
    <2> HIDE DEF x, y
    <2>5. SUFFICES ASSUME y # x + 1 PROVE FALSE
        BY DEF x, y
    <2>6. x + 1 \in 1 .. sent /\ x + 1 < y /\ x + 1 \in Nat
        BY <2>1, <2>3, <2>5
    <2>7. x + 1 \in OnTheWay \/ \E t \in Session : x + 1 \in HeldBy(rd[t])
        BY <1>7, <2>6 DEF InvStream, Conserved
    <2>8. x \in HeldBy(rd[s]) /\ y \in HeldBy(rd[s])
        BY <1>2, <2>1
    <2>9. x + 1 \notin OnTheWay
        <3>1. x + 1 \in OnTheWay => y < x + 1
            BY <2>8 DEF InvStream, SessionsInOrder, Before
        <3> QED
            BY <2>1, <2>6, <3>1
    <2>10. ASSUME NEW t \in Session, x + 1 \in HeldBy(rd[t]) PROVE FALSE
        <3>1. CASE t < s
            <4>1. x + 1 < x
                BY <2>8, <2>10, <3>1 DEF InvStream, SessionsInOrder, Before
            <4> QED
                BY <2>1, <4>1
        <3>2. CASE t > s
            <4>1. y < x + 1
                <5>1. s < t
                    BY <3>2 DEF Session
                <5> QED
                    BY <2>8, <2>10, <5>1 DEF InvStream, SessionsInOrder, Before
            <4> QED
                BY <2>1, <2>6, <4>1
        <3>3. CASE t = s
            <4>1. CASE x + 1 \in Elems(g(s))
                <5>1. PICK j \in DOMAIN g(s) : x + 1 = g(s)[j]
                    BY <4>1 DEF Elems
                <5> QED
                    BY <2>1, <2>4, <2>6, <5>1
            <4>2. CASE x + 1 \in Elems(rd[s].buf) \/ x + 1 \in All(rd[s].queue)
                <5>1. y < x + 1
                    BY <2>1, <4>2 DEF InvStream, SessionsInOrder,
                        ReaderInOrder, Before
                <5> QED
                    BY <2>1, <2>6, <5>1
            <4> QED
                BY <2>10, <3>3, <4>1, <4>2 DEF HeldBy
        <3> QED
            BY <3>1, <3>2, <3>3 DEF Session
    <2> QED
        BY <2>7, <2>9, <2>10
<1>8. Stream!NoGap
    BY <1>7 DEF Stream!NoGap, Stream!Session, Session
<1> QED
    BY <1>6, <1>8

\* A Read that hands out bytes of session s is a Deliver of Pipe; one that
\* hands out none changes nothing a user sees.
LEMMA DeliverStep ==
    ASSUME TypeOK, NEW s \in Session, NEW r \in Reader, r.got = rd[s].got,
           NEW b \in Bytes, NEW n \in Nat,
           rd' = [rd EXCEPT ![s] = Returned(r, b, n)],
           UNCHANGED <<session, sent, closed, raced>>,
           \A k \in Session : Released(k)' = Released(k),
           Stream!InOrder', Stream!NoGap', s <= session \/ Len(b) = 0
    PROVE  Stream!Next \/ UNCHANGED Stream!vars
<1> DEFINE r2 == Returned(r, b, n)
<1>1. /\ r2.got \in Bytes /\ r.got \in Bytes
      /\ Len(r2.got) = Len(r.got) + min(n, Len(b))
      /\ \A i \in 1 .. Len(r.got) : r2.got[i] = r.got[i]
    BY HandOut DEF Reader
<1> HIDE DEF r2
<1>2. rd \in [Session -> Reader] /\ rd' = [rd EXCEPT ![s] = r2]
    BY DEF TypeOK, r2
<1>3. rd'[s].got = r2.got /\ \A t \in Session \ {s} : rd'[t].got = rd[t].got
    BY <1>2
<1>4. {k \in Session : Released(k)}' = {k \in Session : Released(k)}
    OBVIOUS
<1>5. Len(b) \in Nat /\ min(n, Len(b)) \in Nat /\ Len(r.got) \in Nat
    BY <1>1, ElemsType DEF min
<1>6. CASE min(n, Len(b)) = 0
    <2>1. r2.got = r.got
        <3>1. Len(r2.got) = Len(r.got)
            BY <1>1, <1>5, <1>6
        <3> QED
            BY <1>1, <3>1, SeqEqual DEF Bytes
    <2>2. [t \in Session |-> rd[t].got]' = [t \in Session |-> rd[t].got]
        BY <1>3, <2>1
    <2> QED
        BY <1>4, <2>2 DEF Stream!vars
<1>7. CASE min(n, Len(b)) > 0
    <2>1. s <= session
        BY <1>5, <1>7 DEF min
    <2>2. Len(rd'[s].got) > Len(rd[s].got)
        BY <1>1, <1>3, <1>5, <1>7
    <2>3. DOMAIN rd[s].got = 1 .. Len(rd[s].got)
        BY <1>1, ElemsType
    <2>4. \A i \in DOMAIN rd[s].got : rd'[s].got[i] = rd[s].got[i]
        BY <1>1, <1>3, <2>3
    <2>5. Stream!Deliver(s)
        BY <1>3, <1>4, <2>1, <2>2, <2>4 DEF Stream!Deliver, Stream!Session, Session
    <2> QED
        BY <2>5 DEF Stream!Next, Stream!Session, Session
<1> QED
    BY <1>5, <1>6, <1>7

\* Every step of the channel is a step of Pipe, or one its users cannot see.
LEMMA PipeStep ==
    ASSUME TypeOK, Ownership, InvStream, Stream!InOrder', Stream!NoGap',
           [Next]_vars
    PROVE  Stream!Next \/ UNCHANGED Stream!vars
<1> DEFINE Same == /\ UNCHANGED <<session, sent, closed, raced>>
                   /\ \A s \in Session : rd'[s].got = rd[s].got
                   /\ \A s \in Session : Released(s)' = Released(s)
<1>0. /\ rd \in [Session -> Reader] /\ conn \in [Session -> ConnState]
      /\ om \in OnMessageState
    BY DEF TypeOK
<1>1. ASSUME Same PROVE UNCHANGED Stream!vars
    <2>1. {s \in Session : Released(s)}' = {s \in Session : Released(s)}
        BY <1>1
    <2>2. [s \in Session |-> rd[s].got]' = [s \in Session |-> rd[s].got]
        BY <1>1
    <2> QED
        BY <1>1, <2>1, <2>2 DEF Stream!vars
<1>2. ASSUME NEW n \in MsgSizes, RemoteSend(n) PROVE Stream!Send
    <2>1. n \in Nat /\ n > 0 /\ sent \in Nat
        BY ChannelAssumption, Counters
    <2>2. sent' \in Nat /\ sent' > sent
        BY <1>2, <2>1 DEF RemoteSend
    <2>3. UNCHANGED <<session, conn, closed, raced, rd>>
        BY <1>2 DEF RemoteSend
    <2> QED
        BY <2>2, <2>3 DEF Stream!Send, Released
<1>3. CASE OnClose
    BY <1>3 DEF OnClose, Stream!Break, Stream!Next, Released
<1>4. ASSUME NEW k \in Session, ReadRace(k) PROVE Stream!Misuse
    BY <1>4 DEF ReadRace, Stream!Misuse, Released
<1>5. CASE TakeConn
    <2>1. session = 0 \/ (session \in Session /\ Released(session))
        BY <1>5, Counters DEF TakeConn, Ownership, InvEnded, Session
    <2>2. session' = session + 1 /\ UNCHANGED <<conn, sent, closed, raced, rd>>
        BY <1>5 DEF TakeConn
    <2>3. Stream!Start
        BY <2>1, <2>2 DEF Stream!Start, Released
    <2> QED
        BY <2>3 DEF Stream!Next
<1>6. ASSUME NEW k \in Session, ReleaseIdle(k) PROVE Stream!End
    <2>1. k = session /\ ~Released(k)
        BY <1>6, Releasing DEF ReleaseIdle, Released
    <2>2. /\ conn' = [conn EXCEPT ![k].release = "done"]
          /\ UNCHANGED <<session, sent, closed, raced, rd>>
        BY <1>6 DEF ReleaseIdle
    <2>3. Released(k)' /\ \A s \in Session \ {k} : Released(s)' = Released(s)
        BY <1>0, <2>2 DEF Released, ConnState
    <2>4. {s \in Session : Released(s)}'
              = {s \in Session : Released(s)} \cup {session}
        BY <2>1, <2>3
    <2> QED
        BY <2>1, <2>2, <2>4 DEF Stream!End, Stream!Session, Session
<1>7. ASSUME NEW k \in Session, NEW n \in ReadSizes, Read(k, n)
      PROVE  Stream!Next \/ UNCHANGED Stream!vars
    <2>1. session \in Session /\ session <= session
        BY <1>7, Counters DEF Read, Session
    <2>2. n \in Nat
        BY ChannelAssumption
    <2>3. /\ rd[session] \in Reader /\ rd[session].buf \in Bytes
          /\ UNCHANGED <<session, sent, closed, raced>>
        BY <1>0, <1>7, <2>1 DEF Reader, Read
    <2>4. CASE /\ rd' = [rd EXCEPT ![session] = Returned(@, @.buf, n)]
               /\ conn' = [conn EXCEPT ![k] = DoneReading(@, session)]
        <3>1. DoneReading(conn[k], session).release = conn[k].release
            BY <1>0, <2>1, DoneReadingType
        <3>2. \A j \in Session : Released(j)' = Released(j)
            BY <1>0, <2>4, <3>1 DEF Released
        <3>3. rd' = [rd EXCEPT ![session] =
                         Returned(rd[session], rd[session].buf, n)]
            BY <2>4
        <3> QED
            BY <2>1, <2>2, <2>3, <3>2, <3>3, DeliverStep
    <2>5. CASE /\ conn' = [conn EXCEPT ![k].at = session, ![k].want = n]
               /\ UNCHANGED rd
        <3>1. \A j \in Session : Released(j)' = Released(j)
            BY <1>0, <2>5 DEF Released, ConnState
        <3> QED
            BY <1>1, <2>3, <2>5, <3>1
    <2> QED
        BY <1>7, <2>4, <2>5 DEF Read
<1>8. ASSUME NEW k \in Session, ReadChunk(k)
      PROVE  Stream!Next \/ UNCHANGED Stream!vars
    <2> DEFINE s == conn[k].at
               d == [rd[s] EXCEPT !.queue = Tail(rd[s].queue)]
               b == Head(rd[s].queue)
    <2>1. /\ s \in Session /\ conn[k].want \in Nat /\ rd[s] \in Reader
          /\ rd[s].queue # <<>> /\ rd[s].queue \in Seq(Bytes)
        BY <1>0, <1>8, WaitsInSession DEF ReadChunk, Reader
    <2>2. /\ b \in Bytes /\ Tail(rd[s].queue) \in Seq(Bytes)
          /\ Elems(b) \subseteq All(rd[s].queue)
        BY <2>1, Dequeue
    <2>3. /\ rd' = [rd EXCEPT ![s] = Returned(d, b, conn[k].want)]
          /\ conn' = [conn EXCEPT ![k] = DoneReading(@, s)]
          /\ UNCHANGED <<session, sent, closed, raced>>
        BY <1>8 DEF ReadChunk
    <2>4. d \in Reader /\ d.got = rd[s].got
        BY <2>1, <2>2 DEF Reader
    <2>5. \A j \in Session : Released(j)' = Released(j)
        <3>1. DoneReading(conn[k], s).release = conn[k].release
            BY <1>0, <2>1, DoneReadingType
        <3> QED
            BY <1>0, <2>3, <3>1 DEF Released
    <2>6. s <= session \/ Len(b) = 0
        <3>1. s > session => Elems(b) = {}
            BY <2>1, <2>2 DEF InvStream, InvFuture, HeldBy
        <3>2. Elems(b) = {} => Len(b) = 0
            <4> HIDE DEF b
            <4>1. Len(b) \in Nat /\ Elems(b) = {b[i] : i \in 1 .. Len(b)}
                BY <2>2, ElemsType
            <4>2. Len(b) # 0 => 1 \in 1 .. Len(b)
                BY <4>1
            <4> QED
                BY <4>1, <4>2
        <3>3. s <= session \/ s > session
            BY <2>1, Counters DEF Session
        <3> QED
            BY <3>1, <3>2, <3>3
    <2> HIDE DEF s, d, b
    <2>7. conn[k].want \in Nat
        BY <2>1
    <2> QED
        BY <2>1, <2>2, <2>3, <2>4, <2>5, <2>6, <2>7, DeliverStep
<1>9. ASSUME NEW k \in Session,
             \/ ReadEOF(k) \/ Release(k) \/ ReleaseCheck(k)
             \/ ReleaseReader(k) \/ Close(k)
      PROVE  Same
    <2>1. UNCHANGED session /\ UNCHANGED sent /\ UNCHANGED closed /\ UNCHANGED raced
        BY <1>9 DEF ReadEOF, Release, ReleaseCheck, ReleaseReader, Close
    <2>2. \A s \in Session : rd'[s].got = rd[s].got
        <3>1. CASE ReleaseReader(k)
            BY <1>0, <3>1 DEF ReleaseReader, Reader
        <3>2. CASE ReadEOF(k) \/ Release(k) \/ ReleaseCheck(k) \/ Close(k)
            BY <3>2 DEF ReadEOF, Release, ReleaseCheck, Close
        <3> QED
            BY <1>9, <3>1, <3>2
    <2>3. \A s \in Session : Released(s)' = Released(s)
        <3>1. CASE ReadEOF(k)
            BY <1>0, <3>1 DEF ReadEOF, Released, ConnState
        <3>2. CASE Release(k) \/ ReleaseReader(k) \/ Close(k)
            <4>1. CASE Release(k)
                BY <1>0, <4>1 DEF Release, MayRelease, Released, ConnState
            <4>2. CASE ReleaseReader(k)
                <5>1. /\ conn[k].release = "close"
                      /\ conn' = [conn EXCEPT ![k].release = "idle"]
                    BY Zenon, <4>2 DEF ReleaseReader
                <5> QED
                    BY <1>0, <5>1 DEF Released, ConnState
            <4>3. CASE Close(k)
                <5>1. /\ conn[k].release = "done" /\ conn'[k].release = "closed"
                      /\ \A s \in Session \ {k} : conn'[s] = conn[s]
                    BY <1>0, <4>3 DEF Close, ConnState
                <5> QED
                    BY <5>1 DEF Released
            <4> QED
                BY <3>2, <4>1, <4>2, <4>3
        <3>3. CASE ReleaseCheck(k)
            <4>1. status = "active" /\ conn[k].release = "check"
                BY <3>3, Releasing DEF ReleaseCheck
            <4>2. conn' = [conn EXCEPT ![k].release = "close"]
                BY <3>3, <4>1 DEF ReleaseCheck
            <4> QED
                BY <1>0, <4>1, <4>2 DEF Released, ConnState
        <3> QED
            BY <1>9, <3>1, <3>2, <3>3
    <2> QED
        BY <2>1, <2>2, <2>3
<1>10. CASE \/ OnOpen \/ OnMessage \/ OnMessageClosed \/ TakeConnCheck
            \/ OnMessageAccept \/ OnData \/ OnDataDone \/ Accept
    <2>1. /\ UNCHANGED session /\ UNCHANGED sent /\ UNCHANGED closed
          /\ UNCHANGED raced /\ UNCHANGED rd /\ UNCHANGED conn
        BY <1>10 DEF OnOpen, OnMessage, OnMessageClosed, TakeConnCheck,
            OnMessageAccept, OnData, OnDataDone, Accept
    <2> QED
        BY <1>1, <2>1 DEF Released
<1>11. CASE OnDataPush
    <2>1. /\ UNCHANGED session /\ UNCHANGED sent /\ UNCHANGED closed
          /\ UNCHANGED raced /\ UNCHANGED conn
        BY <1>11 DEF OnDataPush
    <2>2. \A s \in Session : rd'[s].got = rd[s].got
        <3> DEFINE c == SubSeq(om.rest, 1, ChunkLen(om.rest))
        <3>1. CASE UNCHANGED rd
            BY <3>1
        <3>2. CASE rd' = [rd EXCEPT ![om.to].queue = Append(@, c)]
            <4> HIDE DEF c
            <4> QED
                BY <1>0, <3>2 DEF Reader
        <3> QED
            BY <1>11, <3>1, <3>2 DEF OnDataPush
    <2> QED
        BY <1>1, <2>1, <2>2 DEF Released
<1>12. CASE UNCHANGED vars
    BY <1>1, <1>12 DEF vars, Released
<1> HIDE DEF Same
<1>13. ASSUME NEW k \in Session,
              UserCalls(k) \/ ReadSteps(k) \/ ReleaseSteps(k)
       PROVE  Stream!Next \/ UNCHANGED Stream!vars
    <2>1. CASE ReadRace(k) \/ ReleaseIdle(k)
        BY Zenon, <1>4, <1>6, <2>1 DEF Stream!Next
    <2> QED
        BY Zenon, <1>1, <1>7, <1>8, <1>9, <1>13, <2>1
        DEF UserCalls, ReadSteps, ReleaseSteps
<1>14. ASSUME NEW n \in MsgSizes, RemoteSend(n) PROVE Stream!Next
    BY Zenon, <1>2, <1>14 DEF Stream!Next
<1> QED
    BY Zenon, <1>3, <1>5, <1>10, <1>11, <1>12, <1>13, <1>14
    DEF Next, ReadLoop

\* The pooled channel, with its readers, queues, buffers and unlocked status,
\* gives its users what Pipe promises: one ordered byte stream, handed out in
\* sessions that do not overlap.
THEOREM ChannelImplementsPipe == Spec => PipeSpec
<1> DEFINE Good == TypeOK /\ Ownership /\ InvStream
           Kept == Stream!InOrder /\ Stream!NoGap
<1>1. Init => Stream!Init
    BY DEF Init, NewConn, NewChannelReader, Released, Stream!Init,
        Stream!Session, Session
<1>2. Good => Kept
    BY StreamPromise
<1>3. Good /\ Kept' /\ [Next]_vars => [Stream!Next]_(Stream!vars)
    BY PipeStep
<1>4. Spec => []Good
    BY StreamKeptAlways
<1> HIDE DEF Good, Kept
<1> QED
    BY <1>1, <1>2, <1>3, <1>4, PTL DEF Spec, PipeSpec, Stream!Spec
=============================================================================
