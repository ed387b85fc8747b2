------------------------------ MODULE Signalling ------------------------------
(***************************************************************************)
(* A backend's signalling: the websocket client (net/conn/ws-sig.go,       *)
(* ws-sig-backend.go), the listener's loop (net/listener.go) and the       *)
(* answering peers that negotiate (net/conn/peer-sdp.go, PollOffer).       *)
(*                                                                         *)
(* Goroutines: Run of each signalling client, which hands packets to the   *)
(* sessions of their peers; Listener.loop, which replaces a client that    *)
(* has closed and makes a Peer for each new session; Listen of each Peer,  *)
(* which takes what arrives for its session and answers; and pion's, which *)
(* sends the candidates of each Peer.  The last two write to the websocket *)
(* of the client that announced the Peer without a lock.                   *)
(***************************************************************************)
EXTENDS Integers, Sequences, FiniteSets

CONSTANTS
    RemoteId,     \* remote peer ids (Packet.To.PeerId)
    MaxSig,       \* bound: signalling clients the listener creates
    MaxPeers,     \* Peer objects the loop makes; at least one per id
    Payloads,     \* what packets carry: "ice", "sdp"
    SdpCap,       \* capacity of Session.sdp (1)
    IceCap        \* capacity of Session.ice (5)

Sig == 1 .. MaxSig
Slots == 1 .. MaxPeers
NoPeer == 0

ASSUME SignallingAssumption ==
    /\ MaxSig \in Nat \ {0} /\ SdpCap \in Nat \ {0} /\ IceCap \in Nat \ {0}
    /\ Payloads \subseteq {"ice", "sdp"}
    /\ IsFiniteSet(RemoteId) /\ NoPeer \notin RemoteId
    /\ MaxPeers \in Nat /\ MaxPeers >= Cardinality(RemoteId)

VARIABLES
    cur,        \* Listener.sig, the number of the client
    looping,    \* Listener.loop is running
    peers,      \* Listener.peers: the slot of the Peer of each id, or NoPeer
    sig,        \* sig[g]: the signalling client number g
    peer,       \* peer[k]: the Peer in slot k
    panic       \* a goroutine without a recover has panicked: no process

vars == <<cur, looping, peers, sig, peer, panic>>

\* A packet for a peer: every sender puts in a candidate or a description.
Packet == [to : RemoteId, has : Payloads]
NoPacket == [to |-> NoPeer, has |-> "none"]

\* A signalling client: where Run is, isClose, the packet in hand, the sessions
\* in c.sessions with the fill of their channels, and newClient.
SigState ==
    [pc : {"none", "dial", "read", "announce", "insert", "deliver", "stop"},
     isClose : BOOLEAN, packet : Packet \cup {NoPacket},
     sessions : SUBSET RemoteId,
     sdp : [RemoteId -> 0 .. SdpCap], ice : [RemoteId -> 0 .. IceCap],
     newClient : Seq(RemoteId)]

\* A Peer: where Listen is ("none": no Peer yet, "gone": it has failed and is
\* no longer listed), its remote id, its client, and whether pion has begun to
\* gather candidates.
PeerState == [pc : {"none", "eval", "select", "answer", "failed", "gone",
                    "connected"},
              id : RemoteId \cup {NoPeer}, sig : Sig,
              gathers : BOOLEAN]
NewSlot == [pc |-> "none", id |-> NoPeer, sig |-> 1, gathers |-> FALSE]

TypeOK ==
    /\ cur \in Sig /\ looping \in BOOLEAN /\ panic \in BOOLEAN
    /\ peers \in [RemoteId -> Slots \cup {NoPeer}]
    /\ sig \in [Sig -> SigState]
    /\ peer \in [Slots -> PeerState]
    /\ \A g \in Sig : Len(sig[g].newClient) <= 1

\* NewWsSigClient: closed until Run has connected.
NewWsBackendSigClient(pc) ==
    [pc |-> pc, isClose |-> TRUE, packet |-> NoPacket,
     sessions |-> {}, sdp |-> [i \in RemoteId |-> 0],
     ice |-> [i \in RemoteId |-> 0], newClient |-> <<>>]

\* NewListener: the first client's Run and the loop have been started.
Init ==
    /\ cur = 1 /\ looping = TRUE
    /\ peers = [i \in RemoteId |-> NoPeer]
    /\ sig = [g \in Sig |-> NewWsBackendSigClient(IF g = 1 THEN "dial"
                                                           ELSE "none")]
    /\ peer = [k \in Slots |-> NewSlot]
    /\ panic = FALSE
-----------------------------------------------------------------------------
(* WsSigClient.Run of client g.                                            *)

\* Dial failed, or the header could not be written.
DialFailed(g) ==
    /\ sig[g].pc = "dial"
    /\ sig' = [sig EXCEPT ![g].pc = "stop"]
    /\ UNCHANGED <<cur, looping, peers, peer, panic>>

\* NewListener hands its wsURL to the first client and does not keep it: every
\* replacement is made with the empty Listener.wsURL.
HasURL(g) == g = 1

\* Connected, the header written: the client is open, whether or not the
\* listener still holds it.
DialOk(g) ==
    /\ sig[g].pc = "dial" /\ HasURL(g)
    /\ sig' = [sig EXCEPT ![g].pc = "read", ![g].isClose = FALSE]
    /\ UNCHANGED <<cur, looping, peers, peer, panic>>

\* The websocket fails, or the reads that follow a timed-out one panic.  The
\* deferred function marks the client closed.  (Nobody cancels the context: the
\* goroutines of the replacements close l.sig, which has not connected.)
RunEnds(g) ==
    /\ sig[g].pc = "read"
    /\ sig' = [sig EXCEPT ![g].pc = "stop", ![g].isClose = TRUE]
    /\ UNCHANGED <<cur, looping, peers, peer, panic>>

\* A packet is read, and GetSession finds its session or has to make it.
Receive(g, p) ==
    /\ sig[g].pc = "read"
    /\ sig' = [sig EXCEPT ![g].packet = p,
                          ![g].pc = IF p.to \in sig[g].sessions THEN "deliver"
                                                                ELSE "announce"]
    /\ UNCHANGED <<cur, looping, peers, peer, panic>>

\* Mutant: GetSession unlocks before it stores the session.
LockedToAnnounce(g) == sig[g].pc = "announce"

\* Mutant: Run keeps the lock while it delivers.
LockedToDeliver(g) == sig[g].pc \in {"announce", "insert", "deliver"}

\* GetSession holds c.Lock while OnSession announces and the session is stored.
Locked(g) == sig[g].pc \in {"announce", "insert"}

\* OnSession: c.newClient <- id, which blocks while the last one is waiting.
Announce(g) ==
    /\ sig[g].pc = "announce" /\ sig[g].newClient = <<>>
    /\ sig' = [sig EXCEPT ![g].newClient = Append(@, sig[g].packet.to),
                          ![g].pc = "insert"]
    /\ UNCHANGED <<cur, looping, peers, peer, panic>>

\* c.sessions[id] = sess, and the lock is released.
Insert(g) ==
    /\ sig[g].pc = "insert"
    /\ sig' = [sig EXCEPT ![g].sessions = @ \cup {sig[g].packet.to},
                          ![g].pc = "deliver"]
    /\ UNCHANGED <<cur, looping, peers, peer, panic>>

\* OnIceCandidate: a full channel blocks Run.
OnIceCandidate(g) ==
    LET id == sig[g].packet.to
    IN
    /\ sig[g].pc = "deliver" /\ sig[g].packet.has = "ice"
    /\ sig[g].ice[id] < IceCap
    /\ sig' = [sig EXCEPT ![g].pc = "read", ![g].packet = NoPacket,
                          ![g].ice[id] = @ + 1]
    /\ UNCHANGED <<cur, looping, peers, peer, panic>>

\* OnSdp: likewise.
OnSdp(g) ==
    LET id == sig[g].packet.to
    IN
    /\ sig[g].pc = "deliver" /\ sig[g].packet.has = "sdp"
    /\ sig[g].sdp[id] < SdpCap
    /\ sig' = [sig EXCEPT ![g].pc = "read", ![g].packet = NoPacket,
                          ![g].sdp[id] = @ + 1]
    /\ UNCHANGED <<cur, looping, peers, peer, panic>>

Deliver(g) == Announce(g) \/ Insert(g) \/ OnIceCandidate(g) \/ OnSdp(g)
-----------------------------------------------------------------------------
(* Listener.loop.                                                          *)

\* Mutant: the client is replaced on every tick.
TickAlways ==
    /\ looping /\ cur < MaxSig
    /\ cur' = cur + 1
    /\ sig' = [sig EXCEPT ![cur + 1] = NewWsBackendSigClient("dial")]
    /\ UNCHANGED <<looping, peers, peer, panic>>

\* Every 5 s a closed client is replaced and the new one's Run started; one
\* that is still dialling counts as closed and goes on dialling.
Tick ==
    /\ looping /\ sig[cur].isClose /\ cur < MaxSig
    /\ cur' = cur + 1
    /\ sig' = [sig EXCEPT ![cur + 1] = NewWsBackendSigClient("dial")]
    /\ UNCHANGED <<looping, peers, peer, panic>>

FreeSlot == CHOOSE k \in Slots : peer[k].pc = "none"

Popped == [sig EXCEPT ![cur].newClient = Tail(@)]

\* NewAnswerPeer, AddPeer and the goroutine that runs Listen.
AddPeer(id) ==
    /\ peer' = [peer EXCEPT ![FreeSlot] = [NewSlot EXCEPT !.pc = "eval", !.id = id,
                                                           !.sig = cur]]
    /\ peers' = [peers EXCEPT ![id] = FreeSlot]

\* Mutant: the loop itself runs Listen, and takes no client meanwhile.
NewPeerInLoop ==
    LET id == Head(sig[cur].newClient)
    IN
    /\ looping /\ sig[cur].newClient # <<>>
    /\ \A k \in Slots : peer[k].pc \in {"none", "gone", "connected"}
    /\ sig' = Popped
    /\ IF peers[id] = NoPeer THEN AddPeer(id) ELSE UNCHANGED <<peers, peer>>
    /\ UNCHANGED <<cur, looping, panic>>

\* A new client gets a Peer, unless it is "already connected".
NewPeer ==
    LET id == Head(sig[cur].newClient)
    IN
    /\ looping /\ sig[cur].newClient # <<>>
    /\ sig' = Popped
    /\ IF peers[id] = NoPeer THEN AddPeer(id) ELSE UNCHANGED <<peers, peer>>
    /\ UNCHANGED <<cur, looping, panic>>

\* NewAnswerPeer fails: the loop returns for good.
NewPeerFailed ==
    /\ looping /\ sig[cur].newClient # <<>>
    /\ peers[Head(sig[cur].newClient)] = NoPeer
    /\ sig' = Popped /\ looping' = FALSE
    /\ UNCHANGED <<cur, peers, peer, panic>>

\* Listener.Close.
CloseListener ==
    /\ looping /\ looping' = FALSE
    /\ UNCHANGED <<cur, peers, sig, peer, panic>>
-----------------------------------------------------------------------------
(* Peer.Listen and PollOffer of the Peer in slot k.                        *)

\* The select's channels are evaluated first: GetSession takes the client's
\* lock, and finds the session it announced (PollerHasSession).
PollEval(k) ==
    /\ peer[k].pc = "eval" /\ ~Locked(peer[k].sig)
    /\ peer' = [peer EXCEPT ![k].pc = "select"]
    /\ UNCHANGED <<cur, looping, peers, sig, panic>>

\* CreateAnswer and SetLocalDescription, which starts the gathering of
\* candidates, up to SendPacket on the Peer's own client, open or not.
SendAnswer(k) ==
    peer' = [peer EXCEPT ![k].pc = "answer", ![k].gathers = TRUE]

\* A description: SetRemoteDescription and SendAnswer, one of which may fail; it
\* is dropped when the connection is up.
PollSdp(k) ==
    LET g == peer[k].sig
    IN
    /\ peer[k].pc = "select" /\ sig[g].sdp[peer[k].id] > 0
    /\ sig' = [sig EXCEPT ![g].sdp[peer[k].id] = @ - 1]
    /\ \/ SendAnswer(k)
       \/ \E pc \in {"eval", "failed"} : peer' = [peer EXCEPT ![k].pc = pc]
    /\ UNCHANGED <<cur, looping, peers, panic>>

\* SendPacket returns: Listen goes on, or fails.  There is no write deadline.
AnswerSent(k) ==
    /\ peer[k].pc = "answer"
    /\ \E pc \in {"eval", "failed"} : peer' = [peer EXCEPT ![k].pc = pc]
    /\ UNCHANGED <<cur, looping, peers, sig, panic>>

\* The goroutines that may be writing to client g's websocket: a Listen that
\* answers, and OnICECandidate, on a goroutine of pion's for as long as pion
\* finds candidates, also after Listen has ended (a failed Peer is not closed).
Writers(g) ==
    {w \in Slots \X {"SendAnswer", "OnICECandidate"} :
        /\ peer[w[1]].sig = g /\ peer[w[1]].gathers
        /\ w[2] = "SendAnswer" => peer[w[1]].pc = "answer"}

\* Two writes overlap: gorilla/websocket may notice, and panics; neither
\* goroutine recovers.  (A candidate that is written has no other effect.)
ConcurrentWrite(g) ==
    /\ \E v, w \in Writers(g) : v # w
    /\ panic' = TRUE
    /\ UNCHANGED <<cur, looping, peers, sig, peer>>

\* A candidate: AddICECandidate may fail.
PollIce(k) ==
    LET g == peer[k].sig
    IN
    /\ peer[k].pc = "select" /\ sig[g].ice[peer[k].id] > 0
    /\ sig' = [sig EXCEPT ![g].ice[peer[k].id] = @ - 1]
    /\ \E pc \in {"eval", "failed"} : peer' = [peer EXCEPT ![k].pc = pc]
    /\ UNCHANGED <<cur, looping, peers, panic>>

\* Mutant: DelPeer is deferred, and runs on success too.
PollConnectedDels(k) ==
    /\ peer[k].pc = "select" /\ peer[k].gathers
    /\ peers' = [peers EXCEPT ![peer[k].id] = NoPeer]
    /\ peer' = [peer EXCEPT ![k].pc = "connected"]
    /\ UNCHANGED <<cur, looping, sig, panic>>

\* The connection came up, which takes a local description: Listen returns nil
\* and the Peer stays in peers.
PollConnected(k) ==
    /\ peer[k].pc = "select" /\ peer[k].gathers
    /\ peer' = [peer EXCEPT ![k].pc = "connected"]
    /\ UNCHANGED <<cur, looping, peers, sig, panic>>

\* The 2 minutes are over.
PollTimeout(k) ==
    /\ peer[k].pc = "select"
    /\ peer' = [peer EXCEPT ![k].pc = "failed"]
    /\ UNCHANGED <<cur, looping, peers, sig, panic>>

\* Listen returned an error: DelPeer removes whatever Peer has the id.
DelPeer(k) ==
    /\ peer[k].pc = "failed"
    /\ peers' = [peers EXCEPT ![peer[k].id] = NoPeer]
    /\ peer' = [peer EXCEPT ![k].pc = "gone"]
    /\ UNCHANGED <<cur, looping, sig, panic>>
-----------------------------------------------------------------------------
Run(g) == \/ DialFailed(g) \/ DialOk(g) \/ RunEnds(g)
          \/ (\E p \in Packet : Receive(g, p)) \/ Deliver(g)

Listen(k) == \/ PollEval(k) \/ PollSdp(k) \/ AnswerSent(k) \/ PollIce(k)
             \/ PollConnected(k) \/ PollTimeout(k) \/ DelPeer(k)

Next ==
    /\ ~panic
    /\ \/ \E g \in Sig : Run(g) \/ ConcurrentWrite(g)
       \/ Tick \/ NewPeer \/ NewPeerFailed \/ CloseListener
       \/ \E k \in Slots : Listen(k)

Spec == Init /\ [][Next]_vars

\* Run delivers what it can; the loop takes new clients; c.Lock, an RWMutex,
\* starves no one; the timer of PollOffer stays expired, so that a select that
\* is reached again and again takes it.  A write is sure to return only when
\* Run has closed the websocket: the server may have stopped reading.
FairSpec ==
    /\ Spec
    /\ \A g \in Sig : WF_vars(~panic /\ Deliver(g))
    /\ WF_vars(~panic /\ NewPeer)
    /\ \A k \in Slots :
         /\ SF_vars(~panic /\ PollEval(k)) /\ SF_vars(~panic /\ PollTimeout(k))
         /\ WF_vars(~panic /\ DelPeer(k))
         /\ WF_vars(~panic /\ sig[peer[k].sig].pc = "stop" /\ AnswerSent(k))
-----------------------------------------------------------------------------
(* Properties.                                                             *)

Polling(k) == peer[k].pc \in {"eval", "select", "answer", "failed"}

\* A Peer that negotiates or is connected is the one in Listener.peers: what a
\* failing Listen removes is its own Peer and no successor, and a connected one
\* stays listed, whatever becomes of the signalling client.
PollerUnique ==
    \A k \in Slots : peer[k].pc \notin {"none", "gone"} => peers[peer[k].id] = k

\* The session a Peer polls exists: GetSession announces it before it stores
\* it, and only the lock keeps the Peer from making, and announcing, a second.
PollerHasSession ==
    \A k \in Slots :
        peer[k].pc = "select" => peer[k].id \in sig[peer[k].sig].sessions

\* A client the listener has given up while it was dialling, and that connects
\* after all, has no Peers: all it receives is for nobody.
OrphanHasNoPeer ==
    \A k \in Slots :
        Polling(k) => peer[k].sig = cur \/ sig[peer[k].sig].pc = "stop"

\* PollOffer returns, at the latest on its timeout.  The select that holds the
\* timeout needs the client's lock, so this takes a loop that empties newClient.
\* A negotiation that goes on for good is stuck writing its answer to a server
\* that reads no more.
PollEnds ==
    \A k \in Slots :
        <>[](Polling(k) /\ looping /\ ~panic)
            => <>[](peer[k].pc = "answer" /\ sig[peer[k].sig].pc # "stop")

\* The Peer of id i takes what comes for it.
Takes(i) ==
    \E k \in Slots : peer[k].id = i /\ peer[k].pc \in {"eval", "select"}

\* One negotiation cannot wedge the client for the others while it runs: if Run
\* stays with a packet for good, it is past announcing and waits, without the
\* lock, to deliver to an id whose Peer has ended or is stuck writing.
RunProceeds ==
    \A g \in Sig :
        <>[](/\ sig[g].pc \in {"announce", "insert", "deliver"}
             /\ cur = g /\ looping /\ ~panic)
            => <>[](sig[g].pc = "deliver" /\ ~Takes(sig[g].packet.to))
=============================================================================
