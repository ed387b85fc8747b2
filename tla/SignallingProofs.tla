-------------------------- MODULE SignallingProofs --------------------------
(* Proofs, for any number of remote peers, signalling clients and packets,  *)
(* that a remote id has one Peer, on a session that exists, on a client the *)
(* listener still knows or that has stopped (Signalling.tla).               *)
EXTENDS Signalling, FiniteSetTheorems, SequenceTheorems, TLAPS

\* The session of id i is stored, or is about to be under the lock.
Known(s, i) == i \in s.sessions \/ (s.pc = "insert" /\ s.packet.to = i)

\* Client g announces nothing before it has connected, which only the first
\* does, is closed only while it dials or once it has stopped, and has what it
\* announced; Run has a packet in hand while it is busy with one, and announces
\* no session it has.
SigOK(s, g) ==
    /\ s.pc \in {"none", "dial"} => s.newClient = <<>>
    /\ s.isClose => s.pc \in {"none", "dial", "stop"}
    /\ Len(s.newClient) <= 1
    /\ s.newClient # <<>> => Known(s, s.newClient[1])
    /\ s.pc \in {"announce", "insert", "deliver"} => s.packet \in Packet
    /\ s.pc = "announce" => s.packet.to \notin s.sessions
    /\ g # 1 => s.pc \in {"none", "dial", "stop"} /\ s.newClient = <<>>

\* A Peer is on the first client, which has connected, and has the session it
\* polls; it is the listed one of its id until it is gone; the client is the
\* listener's or has stopped, as long as the Peer polls.
PeerOK(p, k) ==
    p.pc # "none" =>
        /\ p.id \in RemoteId
        /\ p.pc # "gone" => peers[p.id] = k
        /\ p.sig = 1 /\ sig[1].pc \notin {"none", "dial"}
        /\ Known(sig[1], p.id)
        /\ p.pc = "select" => p.id \in sig[1].sessions
        /\ p.pc \notin {"gone", "connected"} => cur = 1 \/ sig[1].pc = "stop"

\* An id gets one Peer, ever: no two have the same, and what is announced is new.
Distinct ==
    \A k \in Slots : peer[k].pc # "none" =>
        /\ \A j \in Slots : j # k /\ peer[j].pc # "none" => peer[j].id # peer[k].id
        /\ \A g \in Sig : sig[g].newClient # <<>> => sig[g].newClient[1] # peer[k].id

\* The inductive invariant.
IInv ==
    /\ TypeOK
    /\ \A g \in Sig : SigOK(sig[g], g)
    /\ \A k \in Slots : PeerOK(peer[k], k)
    /\ Distinct

\* NewListener's state.
LEMMA InitInv == Init => IInv
<1> SUFFICES ASSUME Init PROVE IInv
    OBVIOUS
<1>1. 1 \in Sig /\ MaxSig \in Nat /\ 0 \in 0 .. SdpCap /\ 0 \in 0 .. IceCap
    BY SignallingAssumption DEF Sig
<1>2. \A g \in Sig : /\ sig[g] \in SigState /\ sig[g].newClient = <<>>
                     /\ sig[g].pc \in {"none", "dial"} /\ Len(sig[g].newClient) = 0
    BY <1>1 DEF Init, NewWsBackendSigClient, SigState
<1>3. sig \in [Sig -> SigState]
    BY <1>2 DEF Init
<1>4. peer \in [Slots -> PeerState] /\ \A k \in Slots : peer[k].pc = "none"
    BY <1>1 DEF Init, NewSlot, PeerState
<1>5. TypeOK
    <2>1. looping \in BOOLEAN /\ panic \in BOOLEAN
        BY DEF Init
    <2>2. cur \in Sig /\ peers \in [RemoteId -> Slots \cup {NoPeer}]
        BY <1>1 DEF Init
    <2> QED
        BY <1>2, <1>3, <1>4, <2>1, <2>2 DEF TypeOK
<1>6. \A g \in Sig : SigOK(sig[g], g)
    BY <1>2 DEF SigOK
<1>7. (\A k \in Slots : PeerOK(peer[k], k)) /\ Distinct
    BY <1>4 DEF PeerOK, Distinct
<1> QED
    BY <1>5, <1>6, <1>7 DEF IInv

\* A client goes from s to r: what it knew it knows, what it stored it has, it
\* does not start again, a stop is for good, and what it announces is new.
Follows(s, r) ==
    /\ \A i \in RemoteId : Known(s, i) => Known(r, i)
    /\ s.sessions \subseteq r.sessions
    /\ s.pc \notin {"none", "dial"} => r.pc \notin {"none", "dial"}
    /\ s.pc = "stop" => r.pc = "stop"
    /\ r.newClient # <<>> => r.newClient = s.newClient \/ ~Known(s, r.newClient[1])

\* Peers stay distinct when the clients take such steps and no Peer is new.
LEMMA DistinctKept ==
    ASSUME IInv,
           \A h \in Sig : SigOK(sig'[h], h) /\ Follows(sig[h], sig'[h]),
           \A k \in Slots : /\ peer'[k].pc # "none" => peer[k].pc # "none"
                             /\ peer'[k].id = peer[k].id
    PROVE  Distinct'
<1>1. \A k \in Slots : peer'[k].pc # "none" => Known(sig[1], peer[k].id)
    BY DEF IInv, PeerOK
<1>2. ASSUME NEW k \in Slots, peer'[k].pc # "none",
             NEW h \in Sig, sig'[h].newClient # <<>>
      PROVE  sig'[h].newClient[1] # peer'[k].id
    <2>1. h = 1
        BY <1>2 DEF SigOK
    <2>2. \/ sig'[h].newClient = sig[h].newClient
          \/ ~Known(sig[h], sig'[h].newClient[1])
        BY <1>2 DEF Follows
    <2> QED
        BY <1>1, <1>2, <2>1, <2>2 DEF IInv, Distinct
<1> QED
    BY <1>2 DEF IInv, Distinct

\* A step of one client keeps the invariant, if the Peers' places do.
LEMMA ClientStep ==
    ASSUME IInv, NEW g \in Sig, NEW r \in SigState, SigOK(r, g),
           Follows(sig[g], r), sig' = [sig EXCEPT ![g] = r],
           looping' \in BOOLEAN, UNCHANGED <<cur, peers, peer, panic>>
    PROVE  IInv'
<1>1. sig \in [Sig -> SigState] /\ peer \in [Slots -> PeerState]
    BY DEF IInv, TypeOK
<1>2. /\ sig' \in [Sig -> SigState]
      /\ \A h \in Sig : sig'[h] = IF h = g THEN r ELSE sig[h]
    BY <1>1
<1>3. \A h \in Sig : SigOK(sig'[h], h) /\ Follows(sig[h], sig'[h])
    BY <1>2 DEF IInv, Follows
<1>4. TypeOK'
    BY <1>2, <1>3 DEF IInv, TypeOK, SigOK
<1>5. ASSUME NEW k \in Slots PROVE PeerOK(peer[k], k)'
    <2>1. PeerOK(peer[k], k) /\ 1 \in Sig
        BY SignallingAssumption DEF IInv, Sig
    <2>2. Follows(sig[1], sig'[1])
        BY <1>3, <2>1
    <2> QED
        BY <2>1, <2>2 DEF PeerOK, Follows
<1>6. Distinct'
    BY <1>3, DistinctKept
<1> QED
    BY <1>3, <1>4, <1>5, <1>6 DEF IInv

\* A step of Run keeps the invariant.
LEMMA RunStep ==
    ASSUME IInv, NEW g \in Sig, Run(g)
    PROVE  IInv'
<1>1. /\ sig[g] \in SigState /\ SigOK(sig[g], g)
      /\ looping' \in BOOLEAN /\ UNCHANGED <<cur, peers, peer, panic>>
    BY DEF IInv, TypeOK, Run, DialFailed, DialOk, RunEnds, Receive, Deliver,
           Announce, Insert, OnIceCandidate, OnSdp
<1>2. PICK s \in SigState : s = sig[g] /\ SigOK(s, g)
    BY <1>1
<1>3. ASSUME NEW r \in SigState, SigOK(r, g), Follows(s, r),
             sig' = [sig EXCEPT ![g] = r]
      PROVE  IInv'
    BY <1>1, <1>2, <1>3, ClientStep
<1>4. sig \in [Sig -> SigState]
    BY DEF IInv, TypeOK
<1>5. CASE DialFailed(g) \/ DialOk(g) \/ RunEnds(g)
    <2>1. PICK r : /\ sig' = [sig EXCEPT ![g] = r]
                   /\ \/ s.pc = "dial" /\ r = [s EXCEPT !.pc = "stop"]
                      \/ /\ s.pc = "dial" /\ g = 1
                         /\ r = [s EXCEPT !.pc = "read", !.isClose = FALSE]
                      \/ s.pc = "read" /\ r = [s EXCEPT !.pc = "stop",
                                                        !.isClose = TRUE]
        BY <1>2, <1>5, <1>4 DEF DialFailed, DialOk, HasURL, RunEnds
    <2>2. /\ r \in SigState /\ r.newClient = s.newClient
          /\ r.sessions = s.sessions /\ r.pc \in {"read", "stop"}
          /\ r.isClose => r.pc = "stop" \/ s.isClose
          /\ r.pc = "stop" \/ g = 1
        BY <2>1 DEF SigState
    <2>3. r.isClose => r.pc = "stop"
        BY <2>1, <2>2 DEF SigState
    <2>4. SigOK(r, g) /\ Follows(s, r)
        BY <1>2, <2>1, <2>2, <2>3 DEF SigOK, Follows, Known
    <2> QED
        BY <1>3, <2>1, <2>2, <2>4
<1>6. CASE \E p \in Packet : Receive(g, p)
    <2>1. PICK p \in Packet : Receive(g, p)
        BY <1>6
    <2>2. PICK q \in {"deliver", "announce"} :
              /\ sig' = [sig EXCEPT ![g].packet = p, ![g].pc = q]
              /\ q = "announce" => p.to \notin s.sessions
        BY <1>2, <2>1 DEF Receive
    <2>3. PICK r : r = [s EXCEPT !.packet = p, !.pc = q]
        OBVIOUS
    <2>4. s.pc = "read"
        BY <1>2, <2>1 DEF Receive
    <2>5. /\ r \in SigState /\ r.newClient = s.newClient /\ r.pc = q
          /\ r.sessions = s.sessions /\ r.isClose = s.isClose /\ r.packet = p
        BY <2>3 DEF SigState
    <2>6. SigOK(r, g) /\ Follows(s, r)
        BY <1>2, <2>2, <2>4, <2>5 DEF SigOK, Follows, Known
    <2>7. sig' = [sig EXCEPT ![g] = r]
        BY <1>2, <1>4, <2>2, <2>3
    <2> QED
        BY <1>3, <2>5, <2>6, <2>7
<1>7. CASE Announce(g)
    <2>1. PICK i : i = s.packet.to
        OBVIOUS
    <2>2. PICK r : r = [s EXCEPT !.newClient = <<i>>, !.pc = "insert"]
        OBVIOUS
    <2>3. s.pc = "announce" /\ s.newClient = <<>> /\ s.packet \in Packet
        BY <1>2, <1>7 DEF Announce, SigOK
    <2>4. i \in RemoteId
        BY <2>1, <2>3 DEF Packet
    <2>5. Append(<<>>, i) = <<i>> /\ <<i>> \in Seq(RemoteId) /\ Len(<<i>>) = 1
          /\ <<i>>[1] = i
        BY <2>4
    <2>6. /\ r \in SigState /\ r.newClient = <<i>> /\ r.pc = "insert"
          /\ r.sessions = s.sessions /\ r.isClose = s.isClose
          /\ r.packet = s.packet
        BY <2>2, <2>5 DEF SigState
    <2>7. SigOK(r, g)
        BY <1>2, <2>1, <2>3, <2>5, <2>6 DEF SigOK, Known
    <2>8. Follows(s, r)
        BY <1>2, <2>1, <2>3, <2>5, <2>6 DEF SigOK, Follows, Known
    <2>9. sig' = [sig EXCEPT ![g] = r]
        BY <1>2, <1>7, <1>4, <2>1, <2>2, <2>3, <2>5 DEF Announce
    <2> QED
        BY <1>3, <2>6, <2>7, <2>8, <2>9
<1>8. CASE Insert(g)
    <2>1. PICK i : i = s.packet.to
        OBVIOUS
    <2>2. PICK r : r = [s EXCEPT !.sessions = @ \cup {i}, !.pc = "deliver"]
        OBVIOUS
    <2>3. s.pc = "insert" /\ s.packet \in Packet
        BY <1>2, <1>8 DEF Insert, SigOK
    <2>4. i \in RemoteId
        BY <2>1, <2>3 DEF Packet
    <2>5. /\ r \in SigState /\ r.newClient = s.newClient /\ r.pc = "deliver"
          /\ r.sessions = s.sessions \cup {i} /\ r.isClose = s.isClose
          /\ r.packet = s.packet
        BY <2>2, <2>4 DEF SigState
    <2>6. \A j : Known(s, j) => Known(r, j)
        BY <2>1, <2>5 DEF Known
    <2>7. SigOK(r, g) /\ Follows(s, r)
        BY <1>2, <2>3, <2>5, <2>6 DEF SigOK, Follows
    <2>8. sig' = [sig EXCEPT ![g] = r]
        BY <1>2, <1>4, <1>8, <2>1, <2>2 DEF Insert
    <2> QED
        BY <1>3, <2>5, <2>7, <2>8
<1>9. CASE OnIceCandidate(g)
    <2>1. PICK i : i = s.packet.to
        OBVIOUS
    <2>2. PICK r : r = [s EXCEPT !.pc = "read", !.packet = NoPacket,
                                 !.ice[i] = @ + 1]
        OBVIOUS
    <2>3. s.pc = "deliver" /\ s.packet \in Packet /\ s.ice[i] < IceCap
        BY <1>2, <1>9, <2>1 DEF OnIceCandidate, SigOK
    <2>4. i \in RemoteId
        BY <2>1, <2>3 DEF Packet
    <2>5. s.ice[i] + 1 \in 0 .. IceCap
        BY <2>3, <2>4, SignallingAssumption DEF SigState
    <2>6. /\ r \in SigState /\ r.newClient = s.newClient /\ r.pc = "read"
          /\ r.sessions = s.sessions /\ r.isClose = s.isClose
        BY <2>2, <2>4, <2>5 DEF SigState
    <2>7. SigOK(r, g) /\ Follows(s, r)
        BY <1>2, <2>3, <2>6 DEF SigOK, Follows, Known
    <2>8. sig' = [sig EXCEPT ![g] = r]
        BY <1>2, <1>4, <1>9, <2>1, <2>2 DEF OnIceCandidate
    <2> QED
        BY <1>3, <2>6, <2>7, <2>8
<1>10. CASE OnSdp(g)
    <2>1. PICK i : i = s.packet.to
        OBVIOUS
    <2>2. PICK r : r = [s EXCEPT !.pc = "read", !.packet = NoPacket,
                                 !.sdp[i] = @ + 1]
        OBVIOUS
    <2>3. s.pc = "deliver" /\ s.packet \in Packet /\ s.sdp[i] < SdpCap
        BY <1>2, <1>10, <2>1 DEF OnSdp, SigOK
    <2>4. i \in RemoteId
        BY <2>1, <2>3 DEF Packet
    <2>5. s.sdp[i] + 1 \in 0 .. SdpCap
        BY <2>3, <2>4, SignallingAssumption DEF SigState
    <2>6. /\ r \in SigState /\ r.newClient = s.newClient /\ r.pc = "read"
          /\ r.sessions = s.sessions /\ r.isClose = s.isClose
        BY <2>2, <2>4, <2>5 DEF SigState
    <2>7. SigOK(r, g) /\ Follows(s, r)
        BY <1>2, <2>3, <2>6 DEF SigOK, Follows, Known
    <2>8. sig' = [sig EXCEPT ![g] = r]
        BY <1>2, <1>4, <1>10, <2>1, <2>2 DEF OnSdp
    <2> QED
        BY <1>3, <2>6, <2>7, <2>8
<1> QED
    BY <1>5, <1>6, <1>7, <1>8, <1>9, <1>10 DEF Run, Deliver

\* A step of the Peer in slot k to p, which may take something from its
\* client's session, keeps the invariant.
LEMMA PollStep ==
    ASSUME IInv, NEW k \in Slots, NEW r \in SigState, NEW p \in PeerState,
           peer[k].pc \notin {"none", "gone", "connected"},
           p.pc \notin {"none", "gone"}, p.id = peer[k].id, p.sig = peer[k].sig,
           p.pc = "select" => p.id \in r.sessions,
           SigOK(r, 1), Follows(sig[1], r),
           sig' = [sig EXCEPT ![1] = r], peer' = [peer EXCEPT ![k] = p],
           UNCHANGED <<cur, looping, peers, panic>>
    PROVE  IInv'
<1>1. /\ sig \in [Sig -> SigState] /\ peer \in [Slots -> PeerState] /\ 1 \in Sig
    BY SignallingAssumption DEF IInv, TypeOK, Sig
<1>2. /\ sig' \in [Sig -> SigState]
      /\ \A h \in Sig : sig'[h] = IF h = 1 THEN r ELSE sig[h]
    BY <1>1
<1>3. \A h \in Sig : SigOK(sig'[h], h) /\ Follows(sig[h], sig'[h])
    BY <1>2 DEF IInv, Follows
<1>4. /\ peer' \in [Slots -> PeerState] /\ peer'[k] = p
      /\ \A j \in Slots : j # k => peer'[j] = peer[j]
    BY <1>1
<1>5. TypeOK'
    BY <1>2, <1>3, <1>4 DEF IInv, TypeOK, SigOK
<1>6. ASSUME NEW j \in Slots PROVE PeerOK(peer[j], j)'
    <2>1. PeerOK(peer[j], j) /\ PeerOK(peer[k], k)
        BY DEF IInv
    <2>2. Follows(sig[1], sig'[1]) /\ sig'[1] = r
        BY <1>1, <1>2, <1>3
    <2>3. CASE j # k
        BY <1>4, <2>1, <2>2, <2>3 DEF PeerOK, Follows
    <2>4. CASE j = k
        BY <1>4, <2>1, <2>2, <2>4 DEF PeerOK, Follows
    <2> QED
        BY <2>3, <2>4
<1>7. Distinct'
    BY <1>3, <1>4, DistinctKept
<1> QED
    BY <1>3, <1>5, <1>6, <1>7 DEF IInv

\* A step of Listen keeps the invariant.
LEMMA ListenStep ==
    ASSUME IInv, NEW k \in Slots, Listen(k)
    PROVE  IInv'
<1>1. /\ PeerOK(peer[k], k) /\ 1 \in Sig /\ SigOK(sig[1], 1)
      /\ sig \in [Sig -> SigState] /\ peer \in [Slots -> PeerState]
      /\ sig[1] \in SigState /\ peer[k] \in PeerState
    BY SignallingAssumption DEF IInv, TypeOK, Sig
<1>2. Follows(sig[1], sig[1]) /\ sig = [sig EXCEPT ![1] = sig[1]]
    BY <1>1 DEF Follows
<1>3. peer[k].pc # "none" /\ peer[k].sig = 1
    BY <1>1 DEF PeerOK, Listen, PollEval, PollSdp, AnswerSent, PollIce,
                PollConnected, PollTimeout, DelPeer
<1>4. ASSUME NEW q \in {"eval", "select", "failed", "connected"},
             peer[k].pc \notin {"none", "gone", "connected"},
             q = "select" => peer[k].id \in sig[1].sessions,
             peer' = [peer EXCEPT ![k].pc = q],
             UNCHANGED <<cur, looping, peers, sig, panic>>
      PROVE  IInv'
    <2>1. PICK p : p = [peer[k] EXCEPT !.pc = q]
        OBVIOUS
    <2>2. /\ p \in PeerState /\ p.pc = q /\ p.id = peer[k].id
          /\ p.sig = peer[k].sig /\ peer' = [peer EXCEPT ![k] = p]
        BY <1>1, <1>4, <2>1 DEF PeerState
    <2>3. sig' = [sig EXCEPT ![1] = sig[1]] /\ UNCHANGED <<cur, looping, peers, panic>>
        BY <1>2, <1>4
    <2>4. p.pc \notin {"none", "gone"} /\ (p.pc = "select" => p.id \in sig[1].sessions)
        BY <1>4, <2>2
    <2> QED
        BY <1>1, <1>2, <1>4, <2>2, <2>3, <2>4, PollStep
<1>5. CASE PollEval(k)
    <2>1. /\ peer[k].pc = "eval" /\ sig[1].pc # "insert"
          /\ peer' = [peer EXCEPT ![k].pc = "select"]
          /\ UNCHANGED <<cur, looping, peers, sig, panic>>
        BY <1>3, <1>5 DEF PollEval, Locked
    <2>2. peer[k].id \in sig[1].sessions
        BY <1>1, <2>1 DEF PeerOK, Known
    <2> QED
        BY <1>4, <2>1, <2>2
<1>6. CASE PollConnected(k) \/ PollTimeout(k) \/ AnswerSent(k)
    BY <1>4, <1>6 DEF PollConnected, PollTimeout, AnswerSent
<1>7. CASE PollSdp(k)
    <2>1. PICK i : i = peer[k].id
        OBVIOUS
    <2>2. PICK r : r = [sig[1] EXCEPT !.sdp[i] = @ - 1]
        OBVIOUS
    <2>3. /\ peer[k].pc = "select" /\ sig[1].sdp[i] > 0
          /\ sig' = [sig EXCEPT ![1].sdp[i] = @ - 1]
          /\ UNCHANGED <<cur, looping, peers, panic>>
        BY <1>3, <1>7, <2>1 DEF PollSdp
    <2>4. PICK q \in {"answer", "eval", "failed"}, b \in BOOLEAN :
              peer' = [peer EXCEPT ![k].pc = q, ![k].gathers = b]
        <3>1. \/ peer' = [peer EXCEPT ![k].pc = "answer", ![k].gathers = TRUE]
              \/ \E q \in {"eval", "failed"} : peer' = [peer EXCEPT ![k].pc = q]
            BY <1>7 DEF PollSdp, SendAnswer
        <3>2. \A q : [peer EXCEPT ![k].pc = q]
                        = [peer EXCEPT ![k].pc = q, ![k].gathers = peer[k].gathers]
            BY <1>1 DEF PeerState
        <3>3. peer[k].gathers \in BOOLEAN
            BY <1>1 DEF PeerState
        <3> QED
            BY <3>1, <3>2, <3>3
    <2>5. PICK p : p = [peer[k] EXCEPT !.pc = q, !.gathers = b]
        OBVIOUS
    <2>6. /\ p \in PeerState /\ p.pc = q /\ p.id = i
          /\ p.sig = peer[k].sig /\ peer' = [peer EXCEPT ![k] = p]
        BY <1>1, <2>1, <2>4, <2>5 DEF PeerState
    <2>7. i \in RemoteId
        BY <1>1, <1>3, <2>1 DEF PeerOK
    <2>8. sig[1].sdp[i] - 1 \in 0 .. SdpCap
        BY <1>1, <2>3, <2>7, SignallingAssumption DEF SigState
    <2>9. /\ r \in SigState /\ r.newClient = sig[1].newClient /\ r.pc = sig[1].pc
          /\ r.sessions = sig[1].sessions /\ r.isClose = sig[1].isClose
          /\ r.packet = sig[1].packet
        BY <1>1, <2>2, <2>7, <2>8 DEF SigState
    <2>10. SigOK(r, 1) /\ Follows(sig[1], r)
        BY <1>1, <2>9 DEF SigOK, Follows, Known
    <2>11. sig' = [sig EXCEPT ![1] = r]
        BY <1>1, <2>2, <2>3
    <2> QED
        BY <1>1, <2>1, <2>3, <2>6, <2>9, <2>10, <2>11, PollStep
<1>8. CASE PollIce(k)
    <2>1. PICK i : i = peer[k].id
        OBVIOUS
    <2>2. PICK r : r = [sig[1] EXCEPT !.ice[i] = @ - 1]
        OBVIOUS
    <2>3. /\ peer[k].pc = "select" /\ sig[1].ice[i] > 0
          /\ sig' = [sig EXCEPT ![1].ice[i] = @ - 1]
          /\ UNCHANGED <<cur, looping, peers, panic>>
        BY <1>3, <1>8, <2>1 DEF PollIce
    <2>4. PICK q \in {"eval", "failed"}, b \in BOOLEAN :
              peer' = [peer EXCEPT ![k].pc = q, ![k].gathers = b]
        <3>1. \E q \in {"eval", "failed"} : peer' = [peer EXCEPT ![k].pc = q]
            BY <1>8 DEF PollIce
        <3>2. \A q : [peer EXCEPT ![k].pc = q]
                        = [peer EXCEPT ![k].pc = q, ![k].gathers = peer[k].gathers]
            BY <1>1 DEF PeerState
        <3>3. peer[k].gathers \in BOOLEAN
            BY <1>1 DEF PeerState
        <3> QED
            BY <3>1, <3>2, <3>3
    <2>5. PICK p : p = [peer[k] EXCEPT !.pc = q, !.gathers = b]
        OBVIOUS
    <2>6. /\ p \in PeerState /\ p.pc = q /\ p.id = i
          /\ p.sig = peer[k].sig /\ peer' = [peer EXCEPT ![k] = p]
        BY <1>1, <2>1, <2>4, <2>5 DEF PeerState
    <2>7. i \in RemoteId
        BY <1>1, <1>3, <2>1 DEF PeerOK
    <2>8. sig[1].ice[i] - 1 \in 0 .. IceCap
        BY <1>1, <2>3, <2>7, SignallingAssumption DEF SigState
    <2>9. /\ r \in SigState /\ r.newClient = sig[1].newClient /\ r.pc = sig[1].pc
          /\ r.sessions = sig[1].sessions /\ r.isClose = sig[1].isClose
          /\ r.packet = sig[1].packet
        BY <1>1, <2>2, <2>7, <2>8 DEF SigState
    <2>10. SigOK(r, 1) /\ Follows(sig[1], r)
        BY <1>1, <2>9 DEF SigOK, Follows, Known
    <2>11. sig' = [sig EXCEPT ![1] = r]
        BY <1>1, <2>2, <2>3
    <2> QED
        BY <1>1, <2>1, <2>3, <2>6, <2>9, <2>10, <2>11, PollStep
<1>9. CASE DelPeer(k)
    <2>1. PICK i : i = peer[k].id
        OBVIOUS
    <2>2. /\ peer[k].pc = "failed" /\ peers' = [peers EXCEPT ![i] = NoPeer]
          /\ peer' = [peer EXCEPT ![k].pc = "gone"]
          /\ UNCHANGED <<cur, looping, sig, panic>>
        BY <1>9, <2>1 DEF DelPeer
    <2>3. i \in RemoteId
        BY <1>1, <1>3, <2>1 DEF PeerOK
    <2>4. /\ peers \in [RemoteId -> Slots \cup {NoPeer}]
          /\ peers' \in [RemoteId -> Slots \cup {NoPeer}]
          /\ \A j \in RemoteId : j # i => peers'[j] = peers[j]
        BY <2>2, <2>3 DEF IInv, TypeOK
    <2>5. /\ peer' \in [Slots -> PeerState] /\ peer'[k].pc = "gone"
          /\ peer'[k].id = i /\ peer'[k].sig = peer[k].sig
          /\ \A j \in Slots : j # k => peer'[j] = peer[j]
        BY <1>1, <2>1, <2>2 DEF PeerState
    <2>6. TypeOK'
        BY <2>2, <2>4, <2>5 DEF IInv, TypeOK
    <2>7. ASSUME NEW j \in Slots PROVE PeerOK(peer[j], j)'
        <3>1. CASE j = k
            BY <1>1, <1>3, <2>1, <2>2, <2>5, <3>1 DEF PeerOK, Known
        <3>2. CASE j # k
            <4>1. PeerOK(peer[j], j) /\ peer'[j] = peer[j]
                BY <2>5, <3>2 DEF IInv
            <4>2. peer[j].pc # "none" => peer[j].id # i
                BY <1>3, <2>1, <3>2 DEF IInv, Distinct
            <4> QED
                BY <2>2, <2>4, <4>1, <4>2 DEF PeerOK, Known
        <3> QED
            BY <3>1, <3>2
    <2>8. \A h \in Sig : SigOK(sig'[h], h) /\ Follows(sig[h], sig'[h])
        BY <2>2 DEF IInv, Follows
    <2>9. Distinct'
        BY <1>3, <2>1, <2>5, <2>8, DistinctKept
    <2> QED
        BY <2>6, <2>7, <2>8, <2>9 DEF IInv
<1> QED
    BY <1>5, <1>6, <1>7, <1>8, <1>9 DEF Listen

\* There is a slot for the Peer of an id that never had one: the other Peers
\* have the other ids.
LEMMA SlotFree ==
    ASSUME IInv, NEW i \in RemoteId,
           \A k \in Slots : peer[k].pc # "none" => peer[k].id # i
    PROVE  FreeSlot \in Slots /\ peer[FreeSlot].pc = "none"
<1> SUFFICES \E k \in Slots : peer[k].pc = "none"
    BY DEF FreeSlot
<1> SUFFICES ASSUME \A k \in Slots : peer[k].pc # "none"
             PROVE  FALSE
    OBVIOUS
<1>1. \A k \in Slots : peer[k].id \in RemoteId /\ peer[k].id # i
    BY DEF IInv, PeerOK
<1>2. PICK f : f = [k \in Slots |-> peer[k].id]
    OBVIOUS
<1>3. f \in [Slots -> RemoteId \ {i}]
    BY <1>1, <1>2
<1>4. /\ IsFiniteSet(RemoteId \ {i})
      /\ Cardinality(RemoteId \ {i}) = Cardinality(RemoteId) - 1
    BY FS_RemoveElement, SignallingAssumption
<1>5. Cardinality(RemoteId) \in Nat
    BY FS_CardinalityType, SignallingAssumption
<1>6. IsFiniteSet(Slots) /\ Cardinality(Slots) = MaxPeers
    <2>1. MaxPeers \in Nat /\ MaxPeers \in Int /\ 1 \in Int
        BY SignallingAssumption
    <2>2. /\ IsFiniteSet(1 .. MaxPeers)
          /\ Cardinality(1 .. MaxPeers) = IF 1 > MaxPeers THEN 0
                                                          ELSE MaxPeers - 1 + 1
        BY <2>1, FS_Interval
    <2>3. Cardinality(1 .. MaxPeers) = MaxPeers
        BY <2>1, <2>2
    <2> QED
        BY <2>2, <2>3 DEF Slots
<1>7. Cardinality(RemoteId \ {i}) < Cardinality(Slots)
    BY <1>4, <1>5, <1>6, SignallingAssumption
<1>8. \E x, y \in Slots : x # y /\ f[x] = f[y]
    BY <1>3, <1>4, <1>6, <1>7, FS_PigeonHole
<1>9. PICK x \in Slots, y \in Slots : x # y /\ f[x] = f[y]
    BY <1>8
<1>10. peer[x].id = peer[y].id
    BY <1>2, <1>9
<1> QED
    BY <1>9, <1>10 DEF IInv, Distinct

\* What the loop takes from newClient: an id that never had a Peer, from the
\* first client, which is left with an empty one.
LEMMA Taken ==
    ASSUME IInv, sig[cur].newClient # <<>>
    PROVE  /\ cur = 1 /\ 1 \in Sig /\ Head(sig[1].newClient) \in RemoteId
           /\ Known(sig[1], Head(sig[1].newClient))
           /\ sig[1].pc \notin {"none", "dial"}
           /\ \A k \in Slots : peer[k].pc # "none"
                                  => peer[k].id # Head(sig[1].newClient)
           /\ \E r \in SigState : /\ SigOK(r, 1) /\ Follows(sig[1], r)
                                  /\ r.newClient = <<>>
                                  /\ Popped = [sig EXCEPT ![1] = r]
<1>1. /\ cur \in Sig /\ sig[cur] \in SigState /\ SigOK(sig[cur], cur)
      /\ sig \in [Sig -> SigState] /\ cur = 1
    BY DEF IInv, TypeOK, SigOK
<1>2. PICK q : q = sig[cur].newClient
    OBVIOUS
<1>3. q \in Seq(RemoteId) /\ Len(q) <= 1 /\ q # <<>>
    BY <1>1, <1>2 DEF SigState, SigOK
<1>4. Head(q) \in RemoteId /\ Head(q) = q[1] /\ Tail(q) \in Seq(RemoteId)
    BY <1>3, HeadTailProperties
<1>5. Tail(q) = <<>>
    <2>1. Len(Tail(q)) = Len(q) - 1 /\ Len(q) \in Nat \ {0}
        BY <1>3, EmptySeq, HeadTailProperties
    <2>2. Len(Tail(q)) \notin Nat \ {0}
        BY <1>3, <2>1
    <2> QED
        BY <1>4, <2>2, EmptySeq
<1>6. PICK r : r = [sig[cur] EXCEPT !.newClient = Tail(q)]
    OBVIOUS
<1>7. /\ r \in SigState /\ r.newClient = <<>> /\ r.pc = sig[cur].pc
      /\ r.sessions = sig[cur].sessions /\ r.isClose = sig[cur].isClose
      /\ r.packet = sig[cur].packet
    BY <1>1, <1>4, <1>5, <1>6 DEF SigState
<1>8. Len(r.newClient) = 0
    BY <1>7
<1>9. SigOK(r, 1) /\ Follows(sig[cur], r)
    BY <1>1, <1>7, <1>8 DEF SigOK, Follows, Known
<1>10. Popped = [sig EXCEPT ![cur] = r]
    BY <1>1, <1>2, <1>6 DEF Popped
<1>11. Known(sig[cur], Head(sig[cur].newClient)) /\ sig[cur].pc \notin {"none", "dial"}
    BY <1>1, <1>2, <1>3, <1>4 DEF SigOK
<1>12. \A k \in Slots : peer[k].pc # "none" => peer[k].id # Head(q)
    BY <1>1, <1>2, <1>3, <1>4 DEF IInv, Distinct
<1> QED
    BY <1>1, <1>2, <1>4, <1>7, <1>9, <1>10, <1>11, <1>12

\* A replaced client keeps the invariant: it was dialling, and has no Peers, or
\* it has stopped.
LEMMA TickStep ==
    ASSUME IInv, Tick
    PROVE  IInv'
<1>1. /\ cur \in Sig /\ cur < MaxSig /\ MaxSig \in Nat /\ sig[cur].isClose
      /\ sig \in [Sig -> SigState] /\ peer \in [Slots -> PeerState]
    BY SignallingAssumption DEF IInv, TypeOK, Tick
<1>2. cur + 1 \in Sig /\ cur' = cur + 1 /\ cur + 1 # cur
    BY <1>1 DEF Tick, Sig
<1>3. PICK r : r = NewWsBackendSigClient("dial")
    OBVIOUS
<1>4. 0 \in 0 .. SdpCap /\ 0 \in 0 .. IceCap
    BY SignallingAssumption
<1>5. r \in SigState /\ r.newClient = <<>> /\ r.pc = "dial" /\ Len(r.newClient) = 0
    BY <1>3, <1>4 DEF NewWsBackendSigClient, SigState
<1>6. SigOK(r, cur + 1)
    BY <1>5 DEF SigOK
<1>7. sig' = [sig EXCEPT ![cur + 1] = r] /\ UNCHANGED <<looping, peers, peer, panic>>
    BY <1>3 DEF Tick
<1>8. /\ sig' \in [Sig -> SigState]
      /\ \A h \in Sig : sig'[h] = IF h = cur + 1 THEN r ELSE sig[h]
    BY <1>1, <1>2, <1>5, <1>7
<1>9. \A h \in Sig : SigOK(sig'[h], h)
    BY <1>6, <1>8 DEF IInv
<1>10. TypeOK'
    BY <1>2, <1>7, <1>8, <1>9 DEF IInv, TypeOK, SigOK
<1>11. sig[cur].pc \in {"none", "dial", "stop"}
    BY <1>1 DEF IInv, SigOK
<1>12. sig'[1] = sig[1]
    BY <1>1, <1>2, <1>8, <1>11 DEF Sig
<1>13. ASSUME NEW k \in Slots PROVE PeerOK(peer[k], k)'
    <2>1. PeerOK(peer[k], k)
        BY DEF IInv
    <2>2. peer[k].pc \notin {"none", "gone", "connected"} => sig[1].pc = "stop"
        BY <1>11, <2>1 DEF PeerOK
    <2> QED
        BY <1>7, <1>12, <2>1, <2>2 DEF PeerOK, Known
<1>14. Distinct'
    BY <1>5, <1>7, <1>8 DEF IInv, Distinct
<1> QED
    BY <1>9, <1>10, <1>13, <1>14 DEF IInv

\* A new Peer keeps the invariant: it gets a slot of its own, and its session
\* is known.
LEMMA NewPeerStep ==
    ASSUME IInv, NewPeer
    PROVE  IInv'
<1>1. PICK i : i = Head(sig[1].newClient)
    OBVIOUS
<1>2. /\ cur = 1 /\ 1 \in Sig /\ i \in RemoteId /\ Known(sig[1], i)
      /\ sig[1].pc \notin {"none", "dial"}
      /\ \A k \in Slots : peer[k].pc # "none" => peer[k].id # i
    BY <1>1, Taken DEF NewPeer
<1>3. PICK r \in SigState : /\ SigOK(r, 1) /\ Follows(sig[1], r)
                            /\ r.newClient = <<>>
                            /\ sig' = [sig EXCEPT ![1] = r]
    BY Taken DEF NewPeer
<1>4. /\ UNCHANGED <<cur, looping, panic>>
      /\ (peers[i] = NoPeer /\ AddPeer(i)) \/ UNCHANGED <<peers, peer>>
    BY <1>1, <1>2 DEF NewPeer
<1>5. CASE UNCHANGED <<peers, peer>>
    <2>1. looping' \in BOOLEAN
        BY <1>4 DEF IInv, TypeOK
    <2> QED
        BY <1>2, <1>3, <1>4, <1>5, <2>1, ClientStep
<1>6. CASE peers[i] = NoPeer /\ AddPeer(i)
    <2>1. PICK f \in Slots : f = FreeSlot /\ peer[f].pc = "none"
        BY <1>2, SlotFree
    <2>2. PICK p : p = [NewSlot EXCEPT !.pc = "eval", !.id = i, !.sig = 1]
        OBVIOUS
    <2>3. peer' = [peer EXCEPT ![f] = p] /\ peers' = [peers EXCEPT ![i] = f]
        BY <1>2, <1>6, <2>1, <2>2 DEF AddPeer
    <2>4. /\ sig \in [Sig -> SigState] /\ peer \in [Slots -> PeerState]
          /\ peers \in [RemoteId -> Slots \cup {NoPeer}]
        BY DEF IInv, TypeOK
    <2>5. p \in PeerState /\ p.pc = "eval" /\ p.id = i /\ p.sig = 1
        BY <1>2, <2>2 DEF PeerState, NewSlot
    <2>6. /\ peer' \in [Slots -> PeerState] /\ peer'[f] = p
          /\ \A j \in Slots : j # f => peer'[j] = peer[j]
        BY <2>3, <2>4, <2>5
    <2>7. /\ peers' \in [RemoteId -> Slots \cup {NoPeer}] /\ peers'[i] = f
          /\ \A j \in RemoteId : j # i => peers'[j] = peers[j]
        BY <1>2, <2>3, <2>4
    <2>8. /\ sig' \in [Sig -> SigState] /\ sig'[1] = r
          /\ \A h \in Sig : h # 1 => sig'[h] = sig[h]
        BY <1>2, <1>3, <2>4
    <2>9. \A h \in Sig : SigOK(sig'[h], h)
        BY <1>3, <2>8 DEF IInv
    <2>10. TypeOK'
        BY <1>4, <2>6, <2>7, <2>8, <2>9 DEF IInv, TypeOK, SigOK
    <2>11. ASSUME NEW j \in Slots PROVE PeerOK(peer[j], j)'
        <3>1. CASE j = f
            BY <1>2, <1>3, <1>4, <2>5, <2>6, <2>7, <2>8, <3>1 DEF PeerOK, Follows
        <3>2. CASE j # f
            <4>1. PeerOK(peer[j], j) /\ peer'[j] = peer[j]
                BY <2>6, <3>2 DEF IInv
            <4>2. peer[j].pc # "none" => peer[j].id # i
                BY <1>2
            <4> QED
                BY <1>3, <1>4, <2>7, <2>8, <4>1, <4>2 DEF PeerOK, Follows
        <3> QED
            BY <3>1, <3>2
    <2>12. Distinct'
        <3>1. \A h \in Sig : sig'[h].newClient = <<>>
            BY <1>3, <2>8 DEF IInv, SigOK
        <3> QED
            BY <1>2, <2>5, <2>6, <3>1 DEF IInv, Distinct
    <2> QED
        BY <2>9, <2>10, <2>11, <2>12 DEF IInv
<1> QED
    BY <1>4, <1>5, <1>6

\* Every step keeps the invariant.
LEMMA StepInv == IInv /\ [Next]_vars => IInv'
<1> SUFFICES ASSUME IInv, [Next]_vars PROVE IInv'
    OBVIOUS
<1>1. CASE \E g \in Sig : Run(g)
    BY <1>1, RunStep
<1>2. CASE Tick
    BY <1>2, TickStep
<1>3. CASE NewPeer
    BY <1>3, NewPeerStep
<1>4. CASE NewPeerFailed
    <2>1. /\ sig[cur].newClient # <<>> /\ sig' = Popped /\ looping' \in BOOLEAN
          /\ UNCHANGED <<cur, peers, peer, panic>>
        BY <1>4 DEF NewPeerFailed
    <2>2. PICK r \in SigState : /\ SigOK(r, 1) /\ Follows(sig[1], r) /\ 1 \in Sig
                                /\ sig' = [sig EXCEPT ![1] = r]
        BY <2>1, Taken
    <2> QED
        BY <2>1, <2>2, ClientStep
<1>5. CASE CloseListener \/ (\E g \in Sig : ConcurrentWrite(g)) \/ UNCHANGED vars
    <2>1. /\ looping' \in BOOLEAN /\ panic' \in BOOLEAN
          /\ UNCHANGED <<cur, peers, sig, peer>>
        BY <1>5 DEF CloseListener, ConcurrentWrite, vars, IInv, TypeOK
    <2> QED
        BY <2>1 DEF IInv, TypeOK, SigOK, PeerOK, Known, Distinct
<1>6. CASE \E k \in Slots : Listen(k)
    BY <1>6, ListenStep
<1> QED
    BY <1>1, <1>2, <1>3, <1>4, <1>5, <1>6 DEF Next

\* The invariant holds in every state of every behaviour.
THEOREM Invariance == Spec => []IInv
<1>1. Init => IInv
    BY InitInv
<1>2. IInv /\ [Next]_vars => IInv'
    BY StepInv
<1> QED
    BY <1>1, <1>2, PTL DEF Spec

\* The Peer DelPeer removes is the one whose Listen has failed, and a connected
\* Peer is listed.
THEOREM OnePeerPerId == Spec => []PollerUnique
<1>1. IInv => PollerUnique
    BY DEF IInv, PeerOK, PollerUnique
<1> QED
    BY <1>1, Invariance, PTL

\* PollOffer finds the session that announced its Peer, because GetSession
\* holds the lock from the announcement to the store.
THEOREM SessionFound == Spec => []PollerHasSession
<1>1. IInv => PollerHasSession
    BY DEF IInv, PeerOK, PollerHasSession
<1> QED
    BY <1>1, Invariance, PTL

\* A client that was given up while it dialled never has a Peer that polls it.
THEOREM OrphanServesNobody == Spec => []OrphanHasNoPeer
<1>1. IInv => OrphanHasNoPeer
    BY DEF IInv, PeerOK, OrphanHasNoPeer, Polling
<1> QED
    BY <1>1, Invariance, PTL

\* A remote id gets one negotiation for as long as the process lives, on the
\* first client: what is announced has never had a Peer, whether that one failed
\* or not.
THEOREM OneNegotiation ==
    Spec => [](Distinct /\ \A k \in Slots : peer[k].pc # "none" => peer[k].sig = 1)
<1>1. IInv => Distinct /\ \A k \in Slots : peer[k].pc # "none" => peer[k].sig = 1
    BY DEF IInv, PeerOK
<1> QED
    BY <1>1, Invariance, PTL
=============================================================================
