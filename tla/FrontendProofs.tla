--------------------------- MODULE FrontendProofs ---------------------------
(* Proofs, for any number of forwards, backends and Peers, about the Dials   *)
(* of a frontend and the process they run in (Dial.tla, Services.tla), and   *)
(* about the requests of a page (Web.tla).                                   *)
EXTENDS Services, Web, FiniteSetTheorems, SequenceTheorems, TLAPS

\* A Connect has a Peer of its own while it works on one.
MineOK ==
    \A d \in Dialer : dial[d].pc \in {"connect", "add"} => dial[d].mine \in 1 .. npeers

\* The mutex has at most one holder, which is about to write one of the maps: it
\* is never held across a Connect or by a Dial that has returned.
LockBrief ==
    /\ \A d \in lock : dial[d].pc \in {"cluster", "add"}
    /\ \A d, e \in lock : d = e

\* A Dial looks for a Peer only once there is one, or with no ids at all; while
\* Connect has not added one it has all the ids before it.
PeerOrNoIds ==
    \A d \in Dialer :
        /\ dial[d].pc \in {"iter", "read"} => peers # {} \/ ids = <<>>
        /\ dial[d].pc = "offer" => peers # {} \/ dial[d].todo = ids

\* A Peer, and with it a Conn, needs ids and a websocket.
Signalled ==
    /\ peers # {} => ids # <<>> /\ wired
    /\ \A d \in Dialer :
           /\ dial[d].todo # <<>> \/ dial[d].pc \in {"connect", "add"} => ids # <<>>
           /\ dial[d].pc = "add" => wired
           /\ dial[d].res = "conn" => ids # <<>> /\ wired

\* A list without repetition, but for the empty ids it is padded with.
NoRepeat(s) ==
    \A i, j \in 1 .. Len(s) : s[i] = s[j] /\ s[i] # Empty => i = j

\* Backend b has no Peer in the map.
Unserved(b) == b = Empty \/ \A k \in peers : peer[k] # b

\* The Connect of d has each backend before it once, and none that has a Peer.
OnceEach(d) ==
    LET s == dial[d]
    IN  /\ s.pc = "cluster" => peers = {}
        /\ s.pc \in {"offer", "connect", "add"} =>
               /\ NoRepeat(s.todo)
               /\ \A i \in 1 .. Len(s.todo) : Unserved(s.todo[i])
        /\ s.pc \in {"connect", "add"} =>
               /\ Unserved(peer[s.mine])
               /\ \A i \in 1 .. Len(s.todo) :
                      s.todo[i] = Empty \/ s.todo[i] # peer[s.mine]

\* Until two Connects overlap there is one at most, and Peers are one per backend.
Single ==
    ~crossed =>
        /\ \A d, e \in Connecting : d = e
        /\ \A d \in Connecting : OnceEach(d)
        /\ \A j, k \in peers : peer[j] = peer[k] /\ peer[j] # Empty => j = k

\* The process panics on the nil of a Dial without ids, or in a Connect without a
\* websocket.
PanicOK == main = "panic" => ids = <<>> \/ ~wired

\* A forward that has a Conn, and writes its header.
Forwards == \E d \in Dialer : fwd[d] = "header"

ForwardOK == Forwards => ids # <<>> /\ wired

\* The inductive invariant: the part of the Dials, and of the process.
DialInv ==
    /\ DialTypeOK /\ NoRepeat(ids)
    /\ MineOK /\ LockBrief /\ PeerOrNoIds /\ Signalled /\ Single
    /\ NilOnlyWithoutIds /\ FatalNeedsReader

IInv == TypeOK /\ DialInv /\ PanicOK /\ ForwardOK

-----------------------------------------------------------------------------
(* What the types say.                                                       *)

LEMMA TypeFacts ==
    ASSUME DialTypeOK
    PROVE  /\ npeers \in Nat /\ npeers <= MaxPeers /\ MaxPeers \in Nat
           /\ peer \in Seq(ClientId) /\ Len(peer) = npeers
           /\ \A k \in 1 .. npeers : peer[k] \in ClientId
           /\ peers \subseteq 1 .. npeers
           /\ dial \in [Dialer -> DialState]
           /\ \A d \in Dialer : dial[d] \in DialState
<1>1. /\ npeers \in Nat /\ npeers <= MaxPeers /\ MaxPeers \in Nat
      /\ peer \in [1 .. npeers -> ClientId]
    BY DialAssumption DEF DialTypeOK
<1>2. peer \in Seq(ClientId) /\ Len(peer) = npeers
    BY <1>1
<1> QED
    BY <1>1, <1>2 DEF DialTypeOK

\* The call of d changes and no other; what it becomes is a call.
LEMMA SetDial ==
    ASSUME DialTypeOK, NEW d \in Dialer, NEW r \in DialState,
           dial' = [dial EXCEPT ![d] = r]
    PROVE  /\ dial' \in [Dialer -> DialState]
           /\ dial'[d] = r
           /\ \A e \in Dialer \ {d} : dial'[e] = dial[e]
BY DEF DialTypeOK

\* A call goes on to pc.
LEMMA GotoDial ==
    ASSUME DialTypeOK, NEW d \in Dialer, Goto(d, dial'[d].pc),
           dial'[d].pc \in {"rand", "cluster", "offer", "connect", "add", "iter",
                            "read"}
    PROVE  /\ dial' \in [Dialer -> DialState]
           /\ dial'[d] = [dial[d] EXCEPT !.pc = dial'[d].pc]
           /\ \A e \in Dialer \ {d} : dial'[e] = dial[e]
BY DEF DialTypeOK, DialState, Goto

\* A step of d that adds no Peer to the map keeps the invariant if what d has
\* become satisfies it.
LEMMA StepOfOne ==
    ASSUME DialInv, NEW d \in Dialer,
           DialTypeOK', LockBrief', FatalNeedsReader',
           \A e \in Dialer \ {d} : dial'[e] = dial[e],
           UNCHANGED <<ids, wired, peers>>, npeers <= npeers', crossed => crossed',
           \A k \in 1 .. npeers : peer'[k] = peer[k],
           dial'[d].pc \in {"connect", "add"} => dial'[d].mine \in 1 .. npeers',
           dial'[d].pc \in {"iter", "read"} => peers # {} \/ ids = <<>>,
           dial'[d].pc = "offer" => peers # {} \/ dial'[d].todo = ids,
           dial'[d].res = "nil" => ids = <<>>,
           dial'[d].todo # <<>> \/ dial'[d].pc \in {"connect", "add"} => ids # <<>>,
           dial'[d].pc = "add" => wired,
           dial'[d].res = "conn" => ids # <<>> /\ wired,
           d \in Connecting' /\ ~crossed' =>
               (\A e \in Connecting : e = d) /\ OnceEach(d)'
    PROVE  DialInv'
<1> USE DEF DialInv
<1>1. /\ npeers \in Nat /\ npeers' \in Nat /\ peers \subseteq 1 .. npeers
      /\ \A e \in Dialer : dial[e] \in DialState
    BY TypeFacts DEF DialTypeOK
<1>2. MineOK'
    BY <1>1 DEF MineOK
<1>3. PeerOrNoIds' /\ NilOnlyWithoutIds' /\ NoRepeat(ids)' /\ Signalled'
    <2>1. PeerOrNoIds' /\ NilOnlyWithoutIds' /\ NoRepeat(ids)'
        BY DEF PeerOrNoIds, NilOnlyWithoutIds, NoRepeat
    <2>2. Signalled'
        BY DEF Signalled
    <2> QED
        BY <2>1, <2>2
<1>4. ASSUME ~crossed' PROVE Single'
    <2>1. /\ ~crossed /\ \A e, f \in Connecting : e = f
          /\ \A e \in Connecting : OnceEach(e)
          /\ \A j, k \in peers : peer[j] = peer[k] /\ peer[j] # Empty => j = k
        BY <1>4 DEF Single
    <2>2. \A k \in peers : peer'[k] = peer[k]
        BY <1>1
    <2>3. \A e \in Dialer \ {d} : e \in Connecting' <=> e \in Connecting
        BY DEF Connecting
    <2>4. ASSUME NEW e \in Connecting, e # d PROVE OnceEach(e)'
        <3>1. e \in Dialer /\ dial'[e] = dial[e] /\ OnceEach(e)
            BY <2>1, <2>4 DEF Connecting
        <3>2. dial[e].pc \in {"connect", "add"} =>
                  peer'[dial[e].mine] = peer[dial[e].mine]
            BY <3>1 DEF MineOK
        <3>3. ASSUME NEW b PROVE Unserved(b)' <=> Unserved(b)
            BY <2>2 DEF Unserved
        <3> QED
            BY <3>1, <3>2, <3>3 DEF OnceEach, NoRepeat
    <2>5. \A e, f \in Connecting' : e = f
        <3>1. \A e \in Connecting' : e \in Dialer
            BY DEF Connecting
        <3> QED
            BY <3>1, <1>4, <2>1, <2>3
    <2>6. \A e \in Connecting' : OnceEach(e)'
        <3>1. \A e \in Connecting' : e \in Dialer
            BY DEF Connecting
        <3> QED
            BY <3>1, <1>4, <2>3, <2>4
    <2> QED
        BY <2>1, <2>2, <2>5, <2>6 DEF Single
<1>5. Single'
    BY <1>4 DEF Single
<1> QED
    BY <1>2, <1>3, <1>5

\* A new call, at pc or returned with res.
LEMMA NewDialType ==
    ASSUME NEW pc \in {"idle", "rand"}, NEW res \in {"none", "conn", "nil", "err"}
    PROVE  [pc |-> pc, todo |-> <<>>, mine |-> 0, res |-> res] \in DialState
<1>1. 0 \in 0 .. MaxPeers /\ <<>> \in Seq(ClientId)
    BY DialAssumption
<1> QED
    BY <1>1 DEF DialState

\* Who does not hold the mutex may go on without it.
LEMMA LockKept ==
    ASSUME DialTypeOK, LockBrief, NEW d \in Dialer, lock' = lock,
           d \notin lock \/ dial'[d].pc \in {"cluster", "add"},
           \A e \in Dialer \ {d} : dial'[e] = dial[e]
    PROVE  LockBrief'
BY DEF DialTypeOK, LockBrief

-----------------------------------------------------------------------------
(* The steps of a Dial.                                                      *)

LEMMA CallStep ==
    ASSUME DialInv, NEW d \in Dialer, Call(d)
    PROVE  DialInv'
<1> DEFINE r == [pc |-> "rand", todo |-> <<>>, mine |-> 0, res |-> "none"]
<1>1. r \in DialState /\ r.pc = "rand" /\ r.res = "none" /\ r.todo = <<>>
    <2>1. r \in DialState
        BY Zenon, NewDialType
    <2> QED
        BY <2>1
<1>2. /\ dial' = [dial EXCEPT ![d] = r] /\ dial[d].pc = "idle"
      /\ UNCHANGED <<ids, wired, entry, peers, fatal, touched, peer, npeers, lock, crossed>>
    <2>1. [NewDial EXCEPT !.pc = "rand"] = r
        BY DEF NewDial
    <2> QED
        BY <2>1 DEF Call, Quiet, At
<1> HIDE DEF r
<1>3. /\ dial' \in [Dialer -> DialState] /\ dial'[d] = r
      /\ \A e \in Dialer \ {d} : dial'[e] = dial[e]
    BY <1>1, <1>2, SetDial DEF DialInv
<1>4. DialTypeOK'
    BY <1>2, <1>3 DEF DialInv, DialTypeOK
<1>5. LockBrief'
    BY <1>2, <1>3, LockKept DEF DialInv, LockBrief
<1>6. FatalNeedsReader' /\ d \notin Connecting' /\ npeers <= npeers'
    BY <1>1, <1>2, <1>3, TypeFacts DEF DialInv, FatalNeedsReader, Connecting
<1> QED
    BY <1>1, <1>2, <1>3, <1>4, <1>5, <1>6, StepOfOne

\* A Dial that returns, with nil only if there are no ids, with a Conn only if
\* there are and the client has a websocket.
LEMMA ReturnStep ==
    ASSUME DialInv, NEW d \in Dialer, NEW res \in {"conn", "nil", "err"},
           Return(d, res), d \notin lock, res = "nil" => ids = <<>>,
           res = "conn" => ids # <<>> /\ wired,
           UNCHANGED <<ids, wired, entry, peers, fatal, touched, peer, npeers, lock, crossed>>
    PROVE  DialInv'
<1> DEFINE r == [pc |-> "idle", todo |-> <<>>, mine |-> 0, res |-> res]
<1>1. r \in DialState /\ r.pc = "idle" /\ r.res = res /\ r.todo = <<>>
    <2>1. r \in DialState
        BY Zenon, NewDialType
    <2> QED
        BY <2>1
<1>2. dial' = [dial EXCEPT ![d] = r]
    <2>1. [NewDial EXCEPT !.res = res] = r
        BY DEF NewDial
    <2> QED
        BY <2>1 DEF Return
<1> HIDE DEF r
<1>3. /\ dial' \in [Dialer -> DialState] /\ dial'[d] = r
      /\ \A e \in Dialer \ {d} : dial'[e] = dial[e]
    BY <1>1, <1>2, SetDial DEF DialInv
<1>4. DialTypeOK'
    BY <1>2, <1>3 DEF DialInv, DialTypeOK
<1>5. LockBrief'
    BY <1>2, <1>3, LockKept DEF DialInv
<1>6. FatalNeedsReader' /\ d \notin Connecting' /\ npeers <= npeers'
    BY <1>1, <1>2, <1>3, TypeFacts DEF DialInv, FatalNeedsReader, Connecting
<1> QED
    BY <1>1, <1>2, <1>3, <1>4, <1>5, <1>6, StepOfOne

\* The ways a Dial returns.
LEMMA ReturnSteps ==
    ASSUME DialInv, NEW d \in Dialer,
           NewOfferPeerFails(d) \/ ConnectFails(d) \/ IterPeer(d) \/ IterNone(d)
    PROVE  DialInv'
<1>1. /\ UNCHANGED <<ids, wired, entry, peers, fatal, touched, peer, npeers, lock, crossed>>
      /\ dial[d].pc \in {"offer", "connect", "read"}
    BY DEF NewOfferPeerFails, ConnectFails, IterPeer, IterNone, Quiet, At
<1>2. d \notin lock
    BY <1>1 DEF DialInv, LockBrief
<1>3. CASE NewOfferPeerFails(d) \/ ConnectFails(d) \/ IterPeer(d)
    <2>1. Return(d, "err") \/ (Return(d, "conn") /\ peers # {})
        BY <1>3 DEF NewOfferPeerFails, ConnectFails, IterPeer
    <2>2. peers # {} => ids # <<>> /\ wired
        BY DEF DialInv, Signalled
    <2> QED
        BY <1>1, <1>2, <2>1, <2>2, ReturnStep
<1>4. CASE IterNone(d)
    <2>1. Return(d, "nil") /\ ids = <<>>
        BY <1>4 DEF IterNone, At, DialInv, PeerOrNoIds
    <2> QED
        BY <1>1, <1>2, <2>1, ReturnStep
<1> QED
    BY <1>3, <1>4

\* getRandPeer: with no Peer Connect starts, the only one unless crossed.
LEMMA RandStep ==
    ASSUME DialInv, NEW d \in Dialer, GetRandPeer(d)
    PROVE  DialInv'
<1>1. /\ UNCHANGED <<ids, wired, entry, peers, fatal, touched, peer, npeers, lock>>
      /\ dial[d].pc = "rand" /\ lock = {}
      /\ crossed' = (crossed \/ (peers = {} /\ Connecting # {}))
    BY DEF GetRandPeer, Quiet, At
<1>2. /\ dial'[d].pc = IF peers # {} THEN "iter" ELSE "cluster"
      /\ Goto(d, dial'[d].pc)
    BY DEF GetRandPeer, Goto, DialInv, DialTypeOK
<1>3. /\ dial' \in [Dialer -> DialState]
      /\ dial'[d] = [dial[d] EXCEPT !.pc = dial'[d].pc]
      /\ \A e \in Dialer \ {d} : dial'[e] = dial[e]
    BY <1>2, GotoDial DEF DialInv
<1>4. DialTypeOK'
    BY <1>1, <1>3 DEF DialInv, DialTypeOK
<1>5. LockBrief' /\ FatalNeedsReader' /\ npeers <= npeers'
    BY <1>1, <1>3, LockKept, TypeFacts DEF DialInv, FatalNeedsReader
<1>6. dial'[d].res = dial[d].res /\ dial'[d].todo = dial[d].todo
    BY <1>3, TypeFacts DEF DialInv, DialState
<1>7. /\ dial'[d].res = "nil" => ids = <<>>
      /\ dial'[d].todo # <<>> => ids # <<>>
      /\ dial'[d].res = "conn" => ids # <<>> /\ wired
    BY <1>6 DEF DialInv, NilOnlyWithoutIds, Signalled
<1>8. ASSUME d \in Connecting', ~crossed'
      PROVE  (\A e \in Connecting : e = d) /\ OnceEach(d)'
    <2>1. dial'[d].pc = "cluster" /\ peers = {} /\ Connecting = {}
        BY <1>1, <1>2, <1>8 DEF Connecting
    <2> QED
        BY <1>1, <2>1 DEF OnceEach
<1> QED
    BY <1>1, <1>2, <1>3, <1>4, <1>5, <1>7, <1>8, StepOfOne

\* The iteration over the map: a Connect that has been through all its ids has
\* left a Peer, or there were none.
LEMMA IterSteps ==
    ASSUME DialInv, NEW d \in Dialer, Connected(d) \/ IterBegin(d)
    PROVE  DialInv'
<1>1. /\ UNCHANGED <<ids, wired, entry, peers, peer, npeers, lock, crossed>>
      /\ dial[d].pc \in {"offer", "iter"}
      /\ dial'[d].pc \in {"iter", "read"} /\ Goto(d, dial'[d].pc)
    <2>1. dial \in [Dialer -> DialState]
        BY DEF DialInv, DialTypeOK
    <2>2. CASE Connected(d)
        BY <2>1, <2>2 DEF Connected, Quiet, At, Goto
    <2>3. CASE IterBegin(d)
        BY <2>1, <2>3 DEF IterBegin, At, Goto
    <2> QED
        BY <2>2, <2>3
<1>2. /\ dial' \in [Dialer -> DialState]
      /\ dial'[d] = [dial[d] EXCEPT !.pc = dial'[d].pc]
      /\ \A e \in Dialer \ {d} : dial'[e] = dial[e]
    BY <1>1, GotoDial DEF DialInv
<1>3. fatal' \in BOOLEAN /\ touched' \in BOOLEAN /\ FatalNeedsReader'
    <2>1. touched \in BOOLEAN /\ fatal \in BOOLEAN /\ FatalNeedsReader
        BY DEF DialInv, DialTypeOK
    <2>2. CASE Connected(d)
        BY <2>1, <2>2 DEF Connected, Quiet, FatalNeedsReader
    <2>3. CASE IterBegin(d)
        BY Zenon, <2>1, <2>3 DEF IterBegin, FatalNeedsReader
    <2> QED
        BY <2>2, <2>3
<1>4. DialTypeOK'
    BY <1>1, <1>2, <1>3 DEF DialInv, DialTypeOK
<1>5. d \notin lock
    BY <1>1 DEF DialInv, LockBrief
<1>6. LockBrief' /\ npeers <= npeers' /\ d \notin Connecting'
    BY <1>1, <1>2, <1>5, LockKept, TypeFacts DEF DialInv, Connecting
<1>7. dial'[d].res = dial[d].res /\ dial'[d].todo = dial[d].todo
    BY <1>2, TypeFacts DEF DialInv, DialState
<1>8. /\ dial'[d].res = "nil" => ids = <<>>
      /\ peers # {} \/ ids = <<>>
      /\ dial'[d].todo # <<>> => ids # <<>>
      /\ dial'[d].res = "conn" => ids # <<>> /\ wired
    BY <1>1, <1>7 DEF DialInv, NilOnlyWithoutIds, PeerOrNoIds, Signalled, Connected,
        IterBegin, At
<1> QED
    BY <1>1, <1>2, <1>3, <1>4, <1>6, <1>8, StepOfOne

\* The mutex is taken, free as it is, for a write: an iteration that reads at the
\* same time is recorded, and another writer there is none.
LEMMA LockStep ==
    ASSUME DialInv, NEW d \in Dialer, lock = {}, WriteBegins(d),
           dial[d].pc \in {"cluster", "add"},
           UNCHANGED <<ids, wired, entry, peers, peer, npeers, dial, crossed>>
    PROVE  DialInv'
<1>1. touched \in BOOLEAN /\ fatal \in BOOLEAN /\ dial \in [Dialer -> DialState]
    BY DEF DialInv, DialTypeOK
<1>2. touched' \in BOOLEAN /\ fatal' \in BOOLEAN /\ FatalNeedsReader'
    BY Zenon, <1>1 DEF WriteBegins, FatalNeedsReader
<1>3. lock' = {d}
    BY DEF WriteBegins
<1>4. DialTypeOK'
    BY <1>2, <1>3 DEF DialInv, DialTypeOK
<1>5. LockBrief'
    BY <1>3 DEF LockBrief
<1>6. npeers <= npeers' /\ \A k \in 1 .. npeers : peer'[k] = peer[k]
    BY TypeFacts DEF DialInv
<1>7. /\ dial'[d].pc \in {"connect", "add"} => dial'[d].mine \in 1 .. npeers'
      /\ dial'[d].pc \in {"iter", "read"} => peers # {} \/ ids = <<>>
      /\ dial'[d].pc = "offer" => peers # {} \/ dial'[d].todo = ids
      /\ dial'[d].res = "nil" => ids = <<>>
      /\ dial'[d].todo # <<>> \/ dial'[d].pc \in {"connect", "add"} => ids # <<>>
      /\ dial'[d].pc = "add" => wired
      /\ dial'[d].res = "conn" => ids # <<>> /\ wired
    BY DEF DialInv, MineOK, PeerOrNoIds, NilOnlyWithoutIds, Signalled
<1>8. ASSUME d \in Connecting', ~crossed'
      PROVE  (\A e \in Connecting : e = d) /\ OnceEach(d)'
    BY <1>8 DEF DialInv, Single, Connecting, OnceEach, Unserved
<1> QED
    BY <1>2, <1>4, <1>5, <1>6, <1>7, <1>8, StepOfOne

\* The entry is there, or is put: Connect has all ids before it.
LEMMA EntryStep ==
    ASSUME DialInv, NEW d \in Dialer, dial[d].pc = "cluster",
           dial' = [dial EXCEPT ![d].pc = "offer", ![d].todo = ids],
           lock' = lock \ {d}, entry' \in BOOLEAN,
           UNCHANGED <<ids, wired, peers, peer, npeers, fatal, touched, crossed>>
    PROVE  DialInv'
<1> DEFINE r == [dial[d] EXCEPT !.pc = "offer", !.todo = ids]
<1>1. dial[d] \in DialState /\ ids \in Seq(ClientId)
    BY DEF DialInv, DialTypeOK
<1>2. /\ r \in DialState /\ r.pc = "offer" /\ r.todo = ids /\ r.res = dial[d].res
      /\ dial' = [dial EXCEPT ![d] = r]
    BY <1>1 DEF DialState
<1> HIDE DEF r
<1>3. /\ dial' \in [Dialer -> DialState] /\ dial'[d] = r
      /\ \A e \in Dialer \ {d} : dial'[e] = dial[e]
    BY <1>2, SetDial DEF DialInv
<1>4. DialTypeOK'
    BY <1>3 DEF DialInv, DialTypeOK
<1>5. LockBrief'
    BY <1>3 DEF DialInv, DialTypeOK, LockBrief
<1>6. /\ FatalNeedsReader' /\ npeers <= npeers'
      /\ \A k \in 1 .. npeers : peer'[k] = peer[k]
    BY TypeFacts DEF DialInv, FatalNeedsReader
<1>7. /\ dial'[d].res = "nil" => ids = <<>>
      /\ dial'[d].todo # <<>> => ids # <<>>
      /\ dial'[d].res = "conn" => ids # <<>> /\ wired
    BY <1>2, <1>3 DEF DialInv, NilOnlyWithoutIds, Signalled
<1>8. ASSUME ~crossed'
      PROVE  (\A e \in Connecting : e = d) /\ OnceEach(d)'
    <2>1. d \in Connecting
        BY DEF Connecting
    <2>2. peers = {} /\ \A e \in Connecting : e = d
        BY <1>8, <2>1 DEF DialInv, Single, OnceEach
    <2>3. NoRepeat(dial'[d].todo) /\ \A b : Unserved(b)'
        BY <1>2, <1>3, <2>2 DEF DialInv, Unserved
    <2> QED
        BY <1>2, <1>3, <2>2, <2>3 DEF OnceEach, NoRepeat
<1> QED
    BY <1>2, <1>3, <1>4, <1>5, <1>6, <1>7, <1>8, StepOfOne

LEMMA ClusterStep ==
    ASSUME DialInv, NEW d \in Dialer, GetCluserClient(d)
    PROVE  DialInv'
<1>1. dial[d].pc = "cluster" /\ entry \in BOOLEAN
    BY DEF GetCluserClient, At, DialInv, DialTypeOK
<1>2. CASE entry /\ lock = {}
    <2>1. /\ dial' = [dial EXCEPT ![d].pc = "offer", ![d].todo = ids]
          /\ lock' = lock /\ entry' = entry
          /\ UNCHANGED <<ids, wired, peers, peer, npeers, fatal, touched, crossed>>
        BY <1>2 DEF GetCluserClient, Quiet
    <2>2. lock' = lock \ {d}
        BY <1>2, <2>1
    <2> QED
        BY <1>1, <2>1, <2>2, EntryStep
<1>3. CASE ~entry /\ lock = {}
    <2>1. WriteBegins(d) /\ UNCHANGED <<ids, wired, entry, peers, peer, npeers, dial, crossed>>
        BY <1>3 DEF GetCluserClient
    <2> QED
        BY <1>1, <1>3, <2>1, LockStep
<1>4. CASE lock # {}
    <2>1. /\ dial' = [dial EXCEPT ![d].pc = "offer", ![d].todo = ids]
          /\ lock' = lock \ {d} /\ entry' = TRUE
          /\ UNCHANGED <<ids, wired, peers, peer, npeers, fatal, touched, crossed>>
        BY <1>4 DEF GetCluserClient
    <2> QED
        BY <1>1, <2>1, EntryStep
<1> QED
    BY <1>2, <1>3, <1>4

\* The next backend of the list gets a Peer, which no other has.
LEMMA OfferStep ==
    ASSUME DialInv, NEW d \in Dialer, NewOfferPeer(d)
    PROVE  DialInv'
<1> DEFINE s == dial[d]
           new == Head(s.todo)
           r == [s EXCEPT !.pc = "connect", !.mine = npeers + 1,
                          !.todo = Tail(s.todo)]
<1>1. /\ s \in DialState /\ s.pc = "offer" /\ s.todo \in Seq(ClientId)
      /\ s.todo # <<>> /\ npeers < MaxPeers
      /\ npeers' = npeers + 1 /\ peer' = Append(peer, new)
      /\ UNCHANGED <<ids, wired, entry, peers, fatal, touched, lock, crossed>>
      /\ dial' = [dial EXCEPT ![d].pc = "connect", ![d].mine = npeers + 1,
                              ![d].todo = Tail(@)]
    BY TypeFacts DEF NewOfferPeer, At, Quiet, DialInv, DialState
<1>2. /\ npeers \in Nat /\ peer \in Seq(ClientId) /\ Len(peer) = npeers
      /\ peers \subseteq 1 .. npeers
      /\ MaxPeers \in Nat /\ \A k \in 1 .. npeers : peer[k] \in ClientId
    BY TypeFacts DEF DialInv
<1>3. /\ Head(s.todo) \in ClientId /\ Tail(s.todo) \in Seq(ClientId)
      /\ Len(Tail(s.todo)) = Len(s.todo) - 1 /\ Len(s.todo) \in Nat
      /\ Head(s.todo) = s.todo[1] /\ Len(s.todo) >= 1
      /\ \A i \in 1 .. Len(Tail(s.todo)) : Tail(s.todo)[i] = s.todo[i + 1]
    BY <1>1, HeadTailProperties, EmptySeq
<1>4. /\ r \in DialState /\ r.pc = "connect" /\ r.mine = npeers + 1
      /\ r.todo = Tail(s.todo) /\ r.res = s.res
      /\ dial' = [dial EXCEPT ![d] = r]
    <2>1. npeers + 1 \in 0 .. MaxPeers
        BY <1>1, <1>2
    <2>2. /\ r.pc = "connect" /\ r.mine = npeers + 1
          /\ r.todo = Tail(s.todo) /\ r.res = s.res /\ r \in DialState
        BY <1>1, <1>3, <2>1 DEF DialState
    <2>3. dial' = [dial EXCEPT ![d] = r]
        BY <1>1
    <2> QED
        BY <2>2, <2>3
<1>5. /\ peer' \in [1 .. npeers' -> ClientId]
      /\ \A k \in 1 .. npeers : peer'[k] = peer[k]
      /\ peer'[npeers + 1] = Head(s.todo)
    <2>1. new \in ClientId /\ new = Head(s.todo)
        BY <1>3
    <2> HIDE DEF new
    <2>2. /\ peer' \in Seq(ClientId) /\ Len(peer') = npeers + 1
          /\ \A k \in 1 .. npeers : peer'[k] = peer[k]
          /\ peer'[npeers + 1] = new
        BY <1>1, <1>2, <2>1, AppendProperties
    <2>3. peer' \in [1 .. npeers + 1 -> ClientId]
        BY <2>2
    <2> QED
        BY <1>1, <2>1, <2>2, <2>3
<1> HIDE DEF r, new
<1>6. /\ dial' \in [Dialer -> DialState] /\ dial'[d] = r
      /\ \A e \in Dialer \ {d} : dial'[e] = dial[e]
    BY <1>4, SetDial DEF DialInv
<1>7. DialTypeOK'
    BY <1>1, <1>2, <1>5, <1>6 DEF DialInv, DialTypeOK
<1>8. d \notin lock
    BY <1>1 DEF DialInv, LockBrief
<1>9. LockBrief' /\ FatalNeedsReader' /\ npeers <= npeers'
    BY <1>1, <1>2, <1>6, <1>8, LockKept DEF DialInv, FatalNeedsReader
<1>10. /\ dial'[d].res = "nil" => ids = <<>>
       /\ ids # <<>>
       /\ dial'[d].res = "conn" => ids # <<>> /\ wired
    BY <1>1, <1>4, <1>6 DEF DialInv, NilOnlyWithoutIds, Signalled
<1>11. ASSUME ~crossed'
       PROVE  (\A e \in Connecting : e = d) /\ OnceEach(d)'
    <2>1. d \in Connecting /\ ~crossed
        BY <1>1, <1>11 DEF Connecting
    <2>2. /\ \A e \in Connecting : e = d
          /\ NoRepeat(s.todo) /\ \A i \in 1 .. Len(s.todo) : Unserved(s.todo[i])
        BY <1>1, <2>1 DEF DialInv, Single, OnceEach
    <2>3. \A i \in 1 .. Len(s.todo), k \in peers :
             s.todo[i] = Empty \/ peer'[k] # s.todo[i]
        BY <1>2, <1>5, <2>2 DEF Unserved
    <2>4. \A i \in 1 .. Len(r.todo) : r.todo[i] = s.todo[i + 1] /\ i + 1 \in 1 .. Len(s.todo)
        BY <1>3, <1>4
    <2>5. NoRepeat(r.todo)
        BY <1>3, <1>4, <2>2, <2>4 DEF NoRepeat
    <2>6. \A i \in 1 .. Len(r.todo), k \in peers :
             r.todo[i] = Empty \/ peer'[k] # r.todo[i]
        BY <2>3, <2>4
    <2>7. \A k \in peers : Head(s.todo) = Empty \/ peer'[k] # Head(s.todo)
        BY <1>3, <2>3
    <2>8. \A i \in 1 .. Len(r.todo) : r.todo[i] = Empty \/ r.todo[i] # Head(s.todo)
        <3> SUFFICES ASSUME NEW i \in 1 .. Len(r.todo), r.todo[i] = Head(s.todo),
                            r.todo[i] # Empty
                     PROVE  FALSE
            OBVIOUS
        <3>1. /\ s.todo[i + 1] = s.todo[1] /\ s.todo[1] # Empty
              /\ i + 1 \in 1 .. Len(s.todo) /\ 1 \in 1 .. Len(s.todo)
            BY <1>3, <2>4
        <3>2. i + 1 = 1
            BY <2>2, <3>1 DEF NoRepeat
        <3> QED
            BY <1>3, <1>4, <3>2
    <2>9. peer'[dial'[d].mine] = Head(s.todo) /\ dial'[d] = r
        BY <1>4, <1>5, <1>6
    <2>10. dial'[d].pc = "connect" /\ peers' = peers
        BY <1>1, <1>4, <1>6
    <2> HIDE DEF s
    <2> QED
        BY <2>2, <2>5, <2>6, <2>7, <2>8, <2>9, <2>10 DEF OnceEach, NoRepeat, Unserved
<1>12. dial'[d].mine \in 1 .. npeers' /\ dial'[d].pc = "connect"
    BY <1>1, <1>2, <1>4, <1>6
<1> QED
    BY <1>1, <1>5, <1>6, <1>7, <1>9, <1>10, <1>11, <1>12, StepOfOne

LEMMA ConnectStep ==
    ASSUME DialInv, NEW d \in Dialer, Connect(d)
    PROVE  DialInv'
<1>1. /\ dial[d].pc = "connect" /\ dial'[d].pc = "add" /\ Goto(d, dial'[d].pc)
      /\ UNCHANGED <<ids, wired, entry, peers, fatal, touched, peer, npeers, lock, crossed>>
      /\ wired
    BY DEF Connect, At, Goto, Quiet, DialInv, DialTypeOK
<1>2. dial[d].mine \in 1 .. npeers /\ dial[d] \in DialState /\ npeers \in Nat
    BY <1>1, TypeFacts DEF DialInv, MineOK
<1>3. /\ peer' \in [1 .. npeers -> ClientId]
      /\ peer' = peer
    BY <1>1 DEF DialInv, DialTypeOK
<1>4. /\ dial' \in [Dialer -> DialState]
      /\ dial'[d] = [dial[d] EXCEPT !.pc = "add"]
      /\ \A e \in Dialer \ {d} : dial'[e] = dial[e]
    BY <1>1, GotoDial DEF DialInv
<1>5. /\ dial'[d].mine = dial[d].mine /\ dial'[d].todo = dial[d].todo
      /\ dial'[d].res = dial[d].res
    BY <1>2, <1>4 DEF DialState
<1>6. DialTypeOK'
    BY <1>1, <1>3, <1>4 DEF DialInv, DialTypeOK
<1>7. LockBrief' /\ FatalNeedsReader' /\ npeers <= npeers'
    <2>1. d \notin lock
        BY <1>1 DEF DialInv, LockBrief
    <2>2. LockBrief'
        BY <1>1, <1>4, <2>1, LockKept DEF DialInv
    <2> QED
        BY <1>1, <1>2, <2>2 DEF DialInv, FatalNeedsReader
<1>8. /\ dial'[d].res = "nil" => ids = <<>>
      /\ ids # <<>>
    BY <1>1, <1>5 DEF DialInv, NilOnlyWithoutIds, Signalled
<1>9. ASSUME ~crossed'
      PROVE  (\A e \in Connecting : e = d) /\ OnceEach(d)'
    <2>1. d \in Connecting /\ ~crossed
        BY <1>1, <1>9 DEF Connecting
    <2>2. (\A e \in Connecting : e = d) /\ OnceEach(d)
        BY <2>1 DEF DialInv, Single
    <2>3. \A k \in peers : peer'[k] = peer[k]
        BY <1>3, TypeFacts DEF DialInv
    <2>4. peer'[dial[d].mine] = peer[dial[d].mine]
        BY <1>2, <1>3
    <2> QED
        BY <1>1, <1>5, <2>2, <2>3, <2>4 DEF OnceEach, NoRepeat, Unserved
<1> QED
    BY <1>1, <1>2, <1>3, <1>4, <1>5, <1>6, <1>7, <1>8, <1>9, StepOfOne

\* The Peer of a Connect enters the map.
LEMMA AddStep ==
    ASSUME DialInv, NEW d \in Dialer, AddPeer(d)
    PROVE  DialInv'
<1>1. dial[d].pc = "add" /\ dial[d].mine \in 1 .. npeers /\ dial[d] \in DialState
    BY TypeFacts DEF AddPeer, At, DialInv, MineOK
<1>2. CASE d \notin lock
    <2>1. /\ lock = {} /\ WriteBegins(d)
          /\ UNCHANGED <<ids, wired, entry, peers, peer, npeers, dial, crossed>>
        BY <1>2 DEF AddPeer, AddPeerMayLock
    <2> QED
        BY <1>1, <2>1, LockStep
<1>3. CASE d \in lock
    <2> DEFINE m == dial[d].mine
               r == [dial[d] EXCEPT !.pc = "offer", !.mine = 0]
    <2>1. /\ peers' = peers \cup {m} /\ lock' = lock \ {d}
          /\ dial' = [dial EXCEPT ![d].pc = "offer", ![d].mine = 0]
          /\ UNCHANGED <<ids, wired, entry, peer, npeers, fatal, touched, crossed>>
        BY <1>3 DEF AddPeer
    <2>2. /\ r \in DialState /\ r.pc = "offer" /\ r.todo = dial[d].todo
          /\ r.res = dial[d].res /\ dial' = [dial EXCEPT ![d] = r]
        BY <1>1, <2>1, TypeFacts DEF DialState, DialInv
    <2> HIDE DEF r
    <2>3. /\ dial' \in [Dialer -> DialState] /\ dial'[d] = r
          /\ \A e \in Dialer \ {d} : dial'[e] = dial[e]
        BY <2>2, SetDial DEF DialInv
    <2>4. DialTypeOK'
        BY <1>1, <2>1, <2>3 DEF DialInv, DialTypeOK
    <2>5. LockBrief'
        BY <2>1, <2>3 DEF DialInv, DialTypeOK, LockBrief
    <2>6. MineOK' /\ FatalNeedsReader' /\ NoRepeat(ids)'
        BY <2>1, <2>2, <2>3 DEF DialInv, MineOK, FatalNeedsReader, NoRepeat
    <2>7. PeerOrNoIds' /\ NilOnlyWithoutIds' /\ Signalled'
        <3>1. PeerOrNoIds' /\ NilOnlyWithoutIds'
            BY <2>1, <2>2, <2>3 DEF DialInv, PeerOrNoIds, NilOnlyWithoutIds
        <3>2. ids # <<>> /\ wired
            BY <1>1 DEF DialInv, Signalled
        <3>3. Signalled'
            BY <2>1, <2>2, <2>3, <3>2 DEF DialInv, Signalled
        <3> QED
            BY <3>1, <3>3
    <2>8. ASSUME ~crossed' PROVE Single'
        <3>1. d \in Connecting /\ ~crossed
            BY <1>1, <2>1, <2>8 DEF Connecting
        <3>2. /\ \A e \in Connecting : e = d
              /\ OnceEach(d)
              /\ \A j, k \in peers : peer[j] = peer[k] /\ peer[j] # Empty => j = k
            BY <3>1 DEF DialInv, Single
        <3>3. \A e \in Connecting' : e = d
            BY <2>3, <3>2 DEF Connecting
        <3>4. \A k \in peers : peer[m] = Empty \/ peer[k] # peer[m]
            BY <1>1, <3>2 DEF OnceEach, Unserved
        <3>5. \A j, k \in peers' : peer'[j] = peer'[k] /\ peer'[j] # Empty => j = k
            BY <2>1, <3>2, <3>4
        <3>6. OnceEach(d)'
            BY <1>1, <2>1, <2>2, <2>3, <3>2 DEF OnceEach, Unserved, NoRepeat
        <3> QED
            BY <3>3, <3>5, <3>6 DEF Single
    <2>9. Single'
        BY <2>8 DEF Single
    <2> QED
        BY <2>4, <2>5, <2>6, <2>7, <2>9 DEF DialInv
<1> QED
    BY <1>2, <1>3

\* Every step of a Dial keeps the invariant.
LEMMA DialSteps ==
    ASSUME DialInv, NEW d \in Dialer, DialStep(d)
    PROVE  DialInv'
BY RandStep, ClusterStep, OfferStep, ConnectStep, AddStep, IterSteps, ReturnSteps
   DEF DialStep

\* The Dials do nothing.
LEMMA DialIdle ==
    ASSUME DialInv, UNCHANGED dialVars
    PROVE  DialInv'
BY DEF dialVars, DialInv, DialTypeOK, NoRepeat, MineOK, LockBrief, PeerOrNoIds,
    Signalled, Single, Connecting, OnceEach, Unserved, NilOnlyWithoutIds, FatalNeedsReader
-----------------------------------------------------------------------------
(* The process.                                                              *)

LEMMA InitInv == Init => IInv
<1> SUFFICES ASSUME Init PROVE IInv
    OBVIOUS
<1>1. /\ ids \in GetCluster /\ entry = FALSE /\ peers = {} /\ npeers = 0
      /\ peer = <<>> /\ lock = {} /\ dial = [d \in Dialer |-> NewDial]
      /\ fatal = FALSE /\ touched = FALSE /\ crossed = FALSE /\ main = "start"
      /\ wired \in BOOLEAN
    BY DEF Init, DialInit
<1>2. ids \in Seq(ClientId) /\ NoRepeat(ids)
    <2>1. Cardinality(Backend) \in Nat
        BY DialAssumption, FS_CardinalityType
    <2>2. PICK n \in 0 .. Cardinality(Backend) : ids \in GetBackends(n)
        BY <1>1 DEF GetCluster
    <2>3. n \in Nat
        BY <2>1
    <2>4. /\ ids \in [1 .. 2 * n -> ClientId]
          /\ \A i \in 1 .. 2 * n : ids[i] = Empty <=> i <= n
          /\ \A i, j \in n + 1 .. 2 * n : ids[i] = ids[j] => i = j
        BY <2>2 DEF GetBackends
    <2>5. ids \in Seq(ClientId) /\ Len(ids) = 2 * n
        BY <2>3, <2>4
    <2>6. ASSUME NEW i \in 1 .. 2 * n, NEW j \in 1 .. 2 * n,
                 ids[i] = ids[j], ids[i] # Empty
          PROVE  i = j
        <3>1. i \in n + 1 .. 2 * n /\ j \in n + 1 .. 2 * n
            BY <2>3, <2>4, <2>6
        <3> QED
            BY <2>4, <2>6, <3>1
    <2> QED
        BY <2>5, <2>6 DEF NoRepeat
<1>3. dial \in [Dialer -> DialState]
    BY <1>1, NewDialType DEF NewDial
<1>4. \A d \in Dialer : /\ dial[d].pc = "idle" /\ dial[d].res = "none"
                        /\ dial[d].todo = <<>>
    BY <1>1 DEF NewDial
<1>5. DialTypeOK
    <2>1. npeers \in 0 .. MaxPeers /\ 1 .. npeers = {} /\ peer \in Seq(ClientId)
        BY <1>1, DialAssumption
    <2>2. peer \in [1 .. npeers -> ClientId]
        BY <1>1, <2>1
    <2> QED
        BY <1>1, <1>2, <1>3, <2>1, <2>2 DEF DialTypeOK
<1>6. /\ MineOK /\ LockBrief /\ PeerOrNoIds /\ Signalled
      /\ NilOnlyWithoutIds /\ FatalNeedsReader
    BY <1>1, <1>4 DEF MineOK, LockBrief, PeerOrNoIds, Signalled, NilOnlyWithoutIds,
        FatalNeedsReader
<1>7. Single
    BY <1>1, <1>4 DEF Single, Connecting
<1>8. TypeOK /\ PanicOK /\ ForwardOK
    <2>1. \A d \in Dialer : fwd[d] = "listen"
        BY DEF Init
    <2> QED
        BY <1>1, <1>5, <2>1 DEF Init, TypeOK, PanicOK, ForwardOK, Forwards, BackService,
            FwdState, LoopState
<1> QED
    BY <1>2, <1>5, <1>6, <1>7, <1>8 DEF IInv, DialInv

\* The services go on, and the Dials with them.
LEMMA StepInv ==
    ASSUME IInv, Next
    PROVE  IInv'
<1> USE DEF IInv
<1>1. /\ mode \in {"back", "front"} /\ ctx \in BOOLEAN /\ waiter \in {"run", "done"}
      /\ main \in {"start", "run", "wait", "exit", "failed", "panic"}
      /\ fwd \in [Dialer -> FwdState] /\ loop \in [BackService -> LoopState]
    BY DEF TypeOK
<1>2. CASE Start \/ Interrupt \/ Exit \/ Timeout \/ WaiterEnds
    <2>1. main' # "panic" \/ main' = main
        BY <1>2 DEF Start, Interrupt, Exit, Timeout, WaiterEnds, WebServerEnds,
            FileClientEnds
    <2>2. UNCHANGED <<dialVars, mode, fwd, loop>>
        BY <1>2 DEF Start, Interrupt, Exit, Timeout, WaiterEnds, WebServerEnds,
            FileClientEnds
    <2>3. DialInv' /\ UNCHANGED <<ids, wired>>
        BY <2>2, DialIdle DEF dialVars
    <2>4. /\ main' \in {"start", "run", "wait", "exit", "failed", "panic"}
          /\ ctx' \in BOOLEAN /\ waiter' \in {"run", "done"}
        BY <1>1, <1>2 DEF Start, Interrupt, Exit, Timeout, WaiterEnds,
            WebServerEnds, FileClientEnds
    <2> QED
        BY <1>1, <2>1, <2>2, <2>3, <2>4 DEF TypeOK, PanicOK, ForwardOK, Forwards, DialInv
<1>3. ASSUME NEW d \in Dialer, Listen(d) \/ FwdAccept(d) \/ FwdHeader(d)
      PROVE  IInv'
    <2>1. PICK pc \in FwdState \ {"header"} : SetFwd(d, pc)
        BY <1>3 DEF Listen, FwdAccept, FwdHeader, FwdState
    <2>2. Call(d) \/ UNCHANGED dialVars
        BY <1>3 DEF Listen, FwdAccept, FwdHeader
    <2>3. DialInv' /\ UNCHANGED <<ids, wired>>
        BY <2>2, CallStep, DialIdle DEF dialVars, Call, Quiet
    <2>4. fwd' \in [Dialer -> FwdState] /\ UNCHANGED <<mode, main, ctx, waiter, loop>>
        BY <1>1, <2>1 DEF SetFwd
    <2>5. \A e \in Dialer : fwd'[e] = "header" => fwd[e] = "header"
        BY <1>1, <2>1 DEF SetFwd
    <2>6. ForwardOK'
        BY <2>3, <2>5 DEF ForwardOK, Forwards
    <2> QED
        BY <1>1, <2>3, <2>4, <2>6 DEF TypeOK, PanicOK, DialInv
<1>4. ASSUME NEW d \in Dialer, FwdDial(d) PROVE IInv'
    <2>1. DialInv' /\ UNCHANGED procVars
        BY <1>4, DialSteps DEF FwdDial
    <2>2. UNCHANGED <<ids, wired>>
        BY <1>4 DEF FwdDial, DialStep, GetRandPeer, GetCluserClient, NewOfferPeer,
            NewOfferPeerFails, Connect, ConnectFails, AddPeer, Connected, IterBegin,
            IterPeer, IterNone, Quiet
    <2> QED
        BY <2>1, <2>2 DEF TypeOK, PanicOK, ForwardOK, Forwards, procVars, DialInv
<1>5. ASSUME NEW d \in Dialer, FwdDialled(d) PROVE IInv'
    <2>1. DialInv' /\ UNCHANGED <<ids, wired>>
        BY <1>5, DialIdle DEF FwdDialled, dialVars
    <2>2. CASE dial[d].res = "nil"
        <3>1. ids = <<>>
            BY <2>2 DEF DialInv, NilOnlyWithoutIds
        <3>2. main' = "panic" /\ UNCHANGED <<mode, ctx, waiter, fwd, loop>>
            BY <1>5, <2>2 DEF FwdDialled
        <3> QED
            BY <1>1, <2>1, <3>1, <3>2 DEF TypeOK, PanicOK, ForwardOK, Forwards, DialInv
    <2>3. CASE dial[d].res # "nil"
        <3>1. PICK pc \in FwdState :
                  SetFwd(d, pc) /\ (pc = "header" => dial[d].res = "conn")
            BY <1>5, <2>3 DEF FwdDialled, FwdState
        <3>2. fwd' \in [Dialer -> FwdState] /\ UNCHANGED <<mode, main, ctx, waiter, loop>>
            BY <1>1, <3>1 DEF SetFwd
        <3>3. pc = "header" => ids # <<>> /\ wired
            BY <3>1 DEF DialInv, Signalled
        <3>4. \A e \in Dialer : fwd'[e] = "header" => fwd[e] = "header" \/ pc = "header"
            BY <1>1, <3>1 DEF SetFwd
        <3>5. ForwardOK'
            BY <2>1, <3>3, <3>4 DEF ForwardOK, Forwards
        <3> QED
            BY <1>1, <2>1, <3>2, <3>5 DEF TypeOK, PanicOK, DialInv
    <2> QED
        BY <2>2, <2>3
<1>6. ASSUME NEW s \in BackService, Serve(s) PROVE IInv'
    <2>1. UNCHANGED dialVars
        BY <1>6 DEF Serve, LoopAccept, LoopFails, LoopHeader, LoopServed
    <2>2. PICK pc \in LoopState : SetLoop(s, pc)
        BY <1>6 DEF Serve, LoopAccept, LoopFails, LoopHeader, LoopServed, LoopState
    <2>3. DialInv' /\ UNCHANGED <<ids, wired>>
        BY <2>1, DialIdle DEF dialVars
    <2>4. loop' \in [BackService -> LoopState] /\ UNCHANGED <<mode, main, ctx, waiter, fwd>>
        BY <1>1, <2>2 DEF SetLoop
    <2> QED
        BY <1>1, <2>3, <2>4 DEF TypeOK, PanicOK, ForwardOK, Forwards, DialInv
<1>7. ASSUME NEW d \in Dialer, FwdPanics(d) PROVE IInv'
    <2>1. ~wired /\ main' = "panic" /\ UNCHANGED <<mode, ctx, waiter, fwd, loop>>
        BY <1>7 DEF FwdPanics, NilWebsocket
    <2>2. DialInv' /\ UNCHANGED <<ids, wired>>
        BY <1>7, DialIdle DEF FwdPanics, dialVars
    <2> QED
        BY <1>1, <2>1, <2>2 DEF TypeOK, PanicOK, ForwardOK, Forwards, DialInv
<1> QED
    BY <1>2, <1>3, <1>4, <1>5, <1>6, <1>7 DEF Next, Forward

\* The Dials of a frontend, and the process, for any number of forwards and
\* backends.
THEOREM DialInvariant == Spec => []IInv
<1>1. Init => IInv
    BY InitInv
<1>2. IInv /\ [Next]_vars => IInv'
    <2>1. ASSUME IInv, UNCHANGED vars PROVE IInv'
        <3>1. DialInv' /\ UNCHANGED <<dialVars, procVars>>
            BY <2>1, DialIdle DEF vars, IInv
        <3> QED
            BY <2>1, <3>1 DEF IInv, TypeOK, PanicOK, ForwardOK, Forwards, procVars, dialVars,
                DialInv
    <2> QED
        BY <2>1, StepInv
<1> QED
    BY <1>1, <1>2, PTL DEF Spec

\* Dial returns nil without an error only when the cluster has no backend.
THEOREM NilOnlyIfNoBackend == Spec => []NilOnlyWithoutIds
<1>1. IInv => NilOnlyWithoutIds
    BY DEF IInv, DialInv
<1> QED
    BY <1>1, DialInvariant, PTL

\* A backend has two Peers only if two Connects were under way at once, whatever
\* empty ids its cluster's list is padded with.
THEOREM OnePeerPerBackend == Spec => []DuplicateNeedsOverlap
<1>1. IInv => DuplicateNeedsOverlap
    BY DEF IInv, DialInv, DialTypeOK, Single, DuplicateNeedsOverlap
<1> QED
    BY <1>1, DialInvariant, PTL

\* Only the iteration in Dial, which does not lock, can make the runtime stop the
\* process: the writers exclude each other.
THEOREM FatalOnlyByReader == Spec => []FatalNeedsReader
<1>1. IInv => FatalNeedsReader
    BY DEF IInv, DialInv
<1> QED
    BY <1>1, DialInvariant, PTL

\* A forward panics for one of two reasons, a cluster that lists no backend and a
\* signalling client without a websocket: with ids and a websocket no Dial that
\* fails half way, and no other forward, brings the process down.
THEOREM PanicHasCause == Spec => []PanicOK
<1>1. IInv => PanicOK
    BY DEF IInv
<1> QED
    BY <1>1, DialInvariant, PTL

\* A forward gets a Conn only if the cluster lists ids and the signalling client
\* has a websocket.  GetCluster returns no ids and nobody starts the client's Run,
\* so that as the code stands no forward ever gets one.
THEOREM ForwardNeedsSignalling == Spec => [](Forwards => ids # <<>> /\ wired)
<1>1. IInv => (Forwards => ids # <<>> /\ wired)
    BY DEF IInv, ForwardOK
<1> QED
    BY <1>1, DialInvariant, PTL

\* The mutex of PeersClient is held for map writes only, never across a Connect.
THEOREM LockNeverAcrossConnect == Spec => []LockBrief
<1>1. IInv => LockBrief
    BY DEF IInv, DialInv
<1> QED
    BY <1>1, DialInvariant, PTL
-----------------------------------------------------------------------------
(* The requests of a page (Web.tla), a process of their own: they share with *)
(* the above only what a Dial may return.                                    *)

\* What has been read has arrived.  The page sees a data channel closed only when
\* it is.  Before the body nothing is released or cancelled, and the request is
\* not with the web server before it is written; the handler has not sent all
\* before it ends, and a response is marked only once it has its request.  A Conn
\* is released, and a body about to be closed, only when all has been read, the
\* channel is closed or the response, marked Connection: close, is cancelled; a
\* cancel that has ended has released.
Drained(y) ==
    /\ y.got <= y.arrived
    /\ y.shut => y.dead
    /\ y.pc \in {"none", "start", "dial", "write"} => y.srv = "none"
    /\ y.srv \in {"none", "request", "handle"} => y.sent < Chunks
    /\ y.srv \in {"none", "request"} => ~y.closing
    /\ y.pc \in {"none", "start", "dial", "write", "head", "headWait"} =>
           y.cancel = "no" /\ ~y.released
    /\ y.released => y.got = Chunks \/ y.dead \/ (y.closing /\ y.cancel = "done")
    /\ y.cancel = "done" => y.released
    /\ y.pc = "close" => y.got = Chunks \/ y.dead \/ y.released

PageInv ==
    /\ x \in [Request -> Exchange]
    /\ \A r \in Request : Drained(x[r])

LEMMA PageStarts ==
    ASSUME Chunks \in Nat \ {0}, PageInit
    PROVE  PageInv
<1>1. PICK kind \in [Request -> {"whole", "stream"}] :
          x = [r \in Request |-> NewExchange(kind[r])]
    BY DEF PageInit
<1>2. ASSUME NEW r \in Request
      PROVE  NewExchange(kind[r]) \in Exchange /\ Drained(NewExchange(kind[r]))
    <2>1. 0 \in 0 .. Chunks /\ kind[r] \in {"whole", "stream"}
        OBVIOUS
    <2>2. 0 <= 0 /\ 0 < Chunks
        OBVIOUS
    <2> QED
        BY <2>1, <2>2 DEF NewExchange, Exchange, Drained
<1> QED
    BY <1>1, <1>2 DEF PageInv

\* A request becomes y, the others stay.
LEMMA SetRequest ==
    ASSUME PageInv, NEW r \in Request, NEW y \in Exchange, Drained(y),
           x' = [x EXCEPT ![r] = y]
    PROVE  PageInv'
BY DEF PageInv, Drained

\* The request's goroutine, from the call to the head of the response.
LEMMA HeadSteps ==
    ASSUME Chunks \in Nat \ {0}, PageInv, NEW r \in Request,
           \/ GoHttp(r) \/ NewRequest(r) \/ Dial(r) \/ WriteRequest(r)
           \/ ReadHead(r) \/ ReadHeadWaits(r) \/ ReadHeadFails(r)
    PROVE  PageInv'
<1>1. x[r] \in Exchange /\ Drained(x[r]) /\ x \in [Request -> Exchange]
    BY DEF PageInv
<1>2. \E y \in Exchange : Drained(y) /\ x' = [x EXCEPT ![r] = y]
    <2>1. CASE GoHttp(r)
        <3> DEFINE y == [x[r] EXCEPT !.pc = "start", !.promise = "pending"]
        <3>1. y \in Exchange
            BY <1>1 DEF Exchange
        <3>2. Drained(y)
            BY <1>1, <2>1 DEF GoHttp, Set, PcIs, Exchange, Drained
        <3>3. x' = [x EXCEPT ![r] = y]
            BY <1>1, <2>1 DEF GoHttp, Set, PcIs
        <3> QED
            BY <3>1, <3>2, <3>3
    <2>2. CASE (NewRequest(r) \/ Dial(r)) /\ x' = [x EXCEPT ![r] = Rejected(x[r])]
        <3> DEFINE y == [x[r] EXCEPT !.pc = "done", !.promise = "rejected"]
        <3>1. y \in Exchange
            BY <1>1 DEF Exchange
        <3>2. Drained(y)
            BY <1>1, <2>2 DEF Rejected, Exchange, Drained
        <3>3. x' = [x EXCEPT ![r] = y]
            BY <1>1, <2>2 DEF Rejected
        <3> QED
            BY <3>1, <3>2, <3>3
    <2>3. CASE NewRequest(r) /\ x' = [x EXCEPT ![r] = [x[r] EXCEPT !.pc = "dial"]]
        <3> DEFINE y == [x[r] EXCEPT !.pc = "dial"]
        <3>1. y \in Exchange
            BY <1>1 DEF Exchange
        <3>2. Drained(y)
            BY <1>1, <2>3 DEF NewRequest, PcIs, Exchange, Drained
        <3>3. x' = [x EXCEPT ![r] = y]
            BY <1>1, <2>3 DEF NewRequest, PcIs
        <3> QED
            BY <3>1, <3>2, <3>3
    <2>4. CASE Dial(r) /\ x' = [x EXCEPT ![r] = [x[r] EXCEPT !.pc = "write"]]
        <3> DEFINE y == [x[r] EXCEPT !.pc = "write"]
        <3>1. y \in Exchange
            BY <1>1 DEF Exchange
        <3>2. Drained(y)
            BY <1>1, <2>4 DEF Dial, PcIs, Exchange, Drained
        <3>3. x' = [x EXCEPT ![r] = y]
            BY <1>1, <2>4 DEF Dial, PcIs
        <3> QED
            BY <3>1, <3>2, <3>3
    <2>5. CASE WriteRequest(r) /\ x[r].open /\ ~x[r].dead
        <3> DEFINE y == [x[r] EXCEPT !.pc = "head", !.srv = "request"]
        <3>1. y \in Exchange
            BY <1>1 DEF Exchange
        <3>2. Drained(y)
            BY <1>1, <2>5 DEF WriteRequest, Set, PcIs, Exchange, Drained
        <3>3. x' = [x EXCEPT ![r] = y]
            BY <1>1, <2>5 DEF WriteRequest, Set, PcIs
        <3> QED
            BY <3>1, <3>2, <3>3
    <2>6. CASE WriteRequest(r) /\ x[r].dead
        <3> DEFINE y == [x[r] EXCEPT !.pc = "done", !.promise = "rejected", !.released = TRUE]
        <3>1. y \in Exchange
            BY <1>1 DEF Exchange
        <3>2. Drained(y)
            BY <1>1, <2>6 DEF WriteRequest, RoundTripFails, Rejected, Set, PcIs, Exchange,
                Drained
        <3>3. x' = [x EXCEPT ![r] = y]
            BY <1>1, <2>6 DEF WriteRequest, RoundTripFails, Rejected, Set, PcIs
        <3> QED
            BY <3>1, <3>2, <3>3
    <2>7. CASE ReadHead(r)
        <3> DEFINE y == [x[r] EXCEPT !.pc = "body", !.got = 1,
                        !.promise = IF x[r].kind = "stream" THEN "resolved" ELSE @]
        <3>1. 1 \in 0 .. Chunks /\ 1 <= x[r].arrived
            BY <1>1, <2>7 DEF ReadHead, Set, Exchange, Drained
        <3>2. (IF x[r].kind = "stream" THEN "resolved" ELSE x[r].promise)
                \in {"none", "pending", "resolved", "rejected"}
            BY <1>1, <2>7 DEF ReadHead, Set, Exchange, Drained
        <3>3. y \in Exchange
            BY <1>1, <3>1, <3>2 DEF Exchange
        <3>4. Drained(y)
            BY <1>1, <2>7, <3>1, <3>2 DEF ReadHead, Set, Exchange, Drained
        <3>5. x' = [x EXCEPT ![r] = y]
            BY <1>1, <2>7 DEF ReadHead, Set
        <3> QED
            BY <3>3, <3>4, <3>5
    <2>8. CASE ReadHeadWaits(r)
        <3> DEFINE y == [x[r] EXCEPT !.pc = "headWait"]
        <3>1. y \in Exchange
            BY <1>1 DEF Exchange
        <3>2. Drained(y)
            BY <1>1, <2>8 DEF ReadHeadWaits, Set, PcIs, Exchange, Drained
        <3>3. x' = [x EXCEPT ![r] = y]
            BY <1>1, <2>8 DEF ReadHeadWaits, Set, PcIs
        <3> QED
            BY <3>1, <3>2, <3>3
    <2>9. CASE ReadHeadFails(r)
        <3> DEFINE y == [x[r] EXCEPT !.pc = "done", !.promise = "rejected", !.released = TRUE]
        <3>1. y \in Exchange
            BY <1>1 DEF Exchange
        <3>2. Drained(y)
            BY <1>1, <2>9 DEF ReadHeadFails, RoundTripFails, Rejected, Set, PcIs, Exchange,
                Drained
        <3>3. x' = [x EXCEPT ![r] = y]
            BY <1>1, <2>9 DEF ReadHeadFails, RoundTripFails, Rejected, Set, PcIs
        <3> QED
            BY <3>1, <3>2, <3>3
    <2> QED
        BY <2>1, <2>2, <2>3, <2>4, <2>5, <2>6, <2>7, <2>8, <2>9
           DEF NewRequest, Dial, WriteRequest, Set
<1> QED
    BY <1>2, SetRequest

\* The body is read to its end, or fails, and is closed.
LEMMA BodySteps ==
    ASSUME Chunks \in Nat \ {0}, PageInv, NEW r \in Request,
           \/ ReadBody(r) \/ ReadBodyWaits(r) \/ ReadBodyEOF(r)
           \/ ReadBodyFails(r) \/ CloseBody(r)
    PROVE  PageInv'
<1>1. x[r] \in Exchange /\ Drained(x[r]) /\ x \in [Request -> Exchange]
    BY DEF PageInv
<1>2. \E y \in Exchange : Drained(y) /\ x' = [x EXCEPT ![r] = y]
    <2>1. CASE ReadBody(r)
        <3> DEFINE y == [x[r] EXCEPT !.pc = "body", !.got = x[r].got + 1]
        <3>1. x[r].got + 1 \in 0 .. Chunks /\ x[r].got + 1 <= x[r].arrived
            BY <1>1, <2>1 DEF ReadBody, Readable, Set, Exchange, Drained
        <3>2. x[r].got # Chunks
            BY <1>1, <2>1 DEF ReadBody, Readable, Set, Exchange, Drained
        <3>3. y \in Exchange
            BY <1>1, <3>1, <3>2 DEF Exchange
        <3>4. Drained(y)
            BY <1>1, <2>1, <3>1, <3>2 DEF ReadBody, Readable, Set, Exchange, Drained
        <3>5. x' = [x EXCEPT ![r] = y]
            BY <1>1, <2>1 DEF ReadBody, Readable, Set
        <3> QED
            BY <3>3, <3>4, <3>5
    <2>2. CASE ReadBodyWaits(r)
        <3> DEFINE y == [x[r] EXCEPT !.pc = "bodyWait"]
        <3>1. y \in Exchange
            BY <1>1 DEF Exchange
        <3>2. Drained(y)
            BY <1>1, <2>2 DEF ReadBodyWaits, Set, PcIs, Exchange, Drained
        <3>3. x' = [x EXCEPT ![r] = y]
            BY <1>1, <2>2 DEF ReadBodyWaits, Set, PcIs
        <3> QED
            BY <3>1, <3>2, <3>3
    <2>3. CASE ReadBodyEOF(r)
        <3> DEFINE y == [x[r] EXCEPT !.pc = "close", !.promise = "resolved"]
        <3>1. y \in Exchange
            BY <1>1 DEF Exchange
        <3>2. Drained(y)
            BY <1>1, <2>3 DEF ReadBodyEOF, All, Set, PcIs, Exchange, Drained
        <3>3. x' = [x EXCEPT ![r] = y]
            BY <1>1, <2>3 DEF ReadBodyEOF, All, Set, PcIs
        <3> QED
            BY <3>1, <3>2, <3>3
    <2>4. CASE ReadBodyFails(r)
        <3> DEFINE y == [x[r] EXCEPT !.pc = "close",
                        !.promise = IF x[r].kind = "whole" THEN "rejected" ELSE @]
        <3>1. (IF x[r].kind = "whole" THEN "rejected" ELSE x[r].promise)
                \in {"none", "pending", "resolved", "rejected"}
            BY <1>1, <2>4 DEF ReadBodyFails, Set, PcIs, Exchange, Drained
        <3>2. y \in Exchange
            BY <1>1, <3>1 DEF Exchange
        <3>3. Drained(y)
            BY <1>1, <2>4, <3>1 DEF ReadBodyFails, Set, PcIs, Exchange, Drained
        <3>4. x' = [x EXCEPT ![r] = y]
            BY <1>1, <2>4 DEF ReadBodyFails, Set, PcIs
        <3> QED
            BY <3>2, <3>3, <3>4
    <2>5. CASE CloseBody(r)
        <3> DEFINE y == [x[r] EXCEPT !.pc = "done", !.released = TRUE]
        <3>1. y \in Exchange
            BY <1>1 DEF Exchange
        <3>2. Drained(y)
            BY <1>1, <2>5 DEF CloseBody, Set, PcIs, Exchange, Drained
        <3>3. x' = [x EXCEPT ![r] = y]
            BY <1>1, <2>5 DEF CloseBody, Set, PcIs
        <3> QED
            BY <3>1, <3>2, <3>3
    <2> QED
        BY <2>1, <2>2, <2>3, <2>4, <2>5
<1> QED
    BY <1>2, SetRequest

\* "cancel" drains before it releases, unless the response is marked Connection:
\* close.
LEMMA CancelSteps ==
    ASSUME Chunks \in Nat \ {0}, PageInv, NEW r \in Request,
           Cancel(r) \/ CancelRuns(r)
    PROVE  PageInv'
<1>1. x[r] \in Exchange /\ Drained(x[r]) /\ x \in [Request -> Exchange]
    BY DEF PageInv
<1>2. \E y \in Exchange : Drained(y) /\ x' = [x EXCEPT ![r] = y]
    <2>1. CASE Cancel(r)
        <3> DEFINE y == [x[r] EXCEPT !.cancel = "lock", !.early = x[r].arrived < Chunks]
        <3>1. (x[r].arrived < Chunks) \in BOOLEAN
            BY <1>1, <2>1 DEF Cancel, Exchange, Drained
        <3>2. y \in Exchange
            BY <1>1, <3>1 DEF Exchange
        <3>3. Drained(y)
            BY <1>1, <2>1, <3>1 DEF Cancel, Exchange, Drained
        <3>4. x' = [x EXCEPT ![r] = y]
            BY <1>1, <2>1 DEF Cancel
        <3> QED
            BY <3>2, <3>3, <3>4
    <2>2. CASE CancelLock(r)
        <3> DEFINE y == [x[r] EXCEPT !.cancel = "drain"]
        <3>1. y \in Exchange
            BY <1>1 DEF Exchange
        <3>2. Drained(y)
            BY <1>1, <2>2 DEF CancelLock, Set, Exchange, Drained
        <3>3. x' = [x EXCEPT ![r] = y]
            BY <1>1, <2>2 DEF CancelLock, Set
        <3> QED
            BY <3>1, <3>2, <3>3
    <2>3. CASE CancelDrain(r)
        <3>0. PICK g \in 0 .. Chunks :
                  g = IF x[r].closing THEN x[r].got ELSE x[r].arrived
            BY <1>1 DEF Exchange
        <3> DEFINE y == [x[r] EXCEPT !.cancel = "done", !.released = TRUE, !.got = g]
        <3>1. x[r].closing \/ g = Chunks \/ x[r].dead
            BY <1>1, <2>3, <3>0 DEF CancelDrain, Exchange, Drained
        <3>2. g <= x[r].arrived
            BY <1>1, <3>0 DEF Exchange, Drained
        <3>3. x[r].pc \notin {"none", "start", "dial", "write", "head", "headWait"}
            BY <1>1, <2>3 DEF CancelDrain, Exchange, Drained
        <3>4. y \in Exchange
            BY <1>1, <3>1, <3>2, <3>3 DEF Exchange
        <3>5. Drained(y)
            BY <1>1, <2>3, <3>1, <3>2, <3>3 DEF CancelDrain, Exchange, Drained
        <3>6. x' = [x EXCEPT ![r] = y]
            BY <1>1, <2>3, <3>0 DEF CancelDrain
        <3> QED
            BY <3>4, <3>5, <3>6
    <2> QED
        BY <2>1, <2>2, <2>3 DEF CancelRuns
<1> QED
    BY <1>2, SetRequest

\* The data channel and the web server.
LEMMA ServerSteps ==
    ASSUME Chunks \in Nat \ {0}, PageInv, NEW r \in Request,
           \/ ChannelOpens(r) \/ Arrive(r) \/ ChannelCloses(r) \/ OnClose(r)
           \/ WebServer(r)
    PROVE  PageInv'
<1>1. x[r] \in Exchange /\ Drained(x[r]) /\ x \in [Request -> Exchange]
    BY DEF PageInv
<1>2. \E y \in Exchange : Drained(y) /\ x' = [x EXCEPT ![r] = y]
    <2>1. CASE Arrive(r)
        <3> DEFINE y == [x[r] EXCEPT !.arrived = x[r].arrived + 1]
        <3>1. x[r].arrived + 1 \in 0 .. Chunks /\ x[r].got <= x[r].arrived + 1
            BY <1>1, <2>1 DEF Arrive, Set, Exchange, Drained
        <3>2. y \in Exchange
            BY <1>1, <3>1 DEF Exchange
        <3>3. Drained(y)
            BY <1>1, <2>1, <3>1 DEF Arrive, Set, Exchange, Drained
        <3>4. x' = [x EXCEPT ![r] = y]
            BY <1>1, <2>1 DEF Arrive, Set
        <3> QED
            BY <3>2, <3>3, <3>4
    <2>2. CASE ChannelCloses(r)
        <3> DEFINE y == [x[r] EXCEPT !.dead = TRUE]
        <3>1. y \in Exchange
            BY <1>1 DEF Exchange
        <3>2. Drained(y)
            BY <1>1, <2>2 DEF ChannelCloses, Set, Exchange, Drained
        <3>3. x' = [x EXCEPT ![r] = y]
            BY <1>1, <2>2 DEF ChannelCloses, Set
        <3> QED
            BY <3>1, <3>2, <3>3
    <2>3. CASE OnClose(r)
        <3> DEFINE y == [x[r] EXCEPT !.shut = TRUE]
        <3>1. y \in Exchange
            BY <1>1 DEF Exchange
        <3>2. Drained(y)
            BY <1>1, <2>3 DEF OnClose, Set, Exchange, Drained
        <3>3. x' = [x EXCEPT ![r] = y]
            BY <1>1, <2>3 DEF OnClose, Set
        <3> QED
            BY <3>1, <3>2, <3>3
    <2>4. CASE SrvRequest(r)
        <3>1. PICK b \in {"none", "wait", "ended"} :
                  b = IF x[r].dead THEN "ended" ELSE "wait"
            OBVIOUS
        <3>2. PICK closing \in BOOLEAN :
                  x' = [x EXCEPT ![r] = [x[r] EXCEPT !.srv = "handle",
                            !.closing = closing,
                            !.bg = IF x[r].dead THEN "ended" ELSE "wait"]]
            BY <2>4 DEF SrvRequest, Set
        <3> DEFINE y == [x[r] EXCEPT !.srv = "handle", !.closing = closing, !.bg = b]
        <3>3. y \in Exchange
            <4>1. [x[r] EXCEPT !.srv = "handle", !.closing = closing] \in Exchange
                BY <1>1 DEF Exchange
            <4>2. ASSUME NEW z \in Exchange PROVE [z EXCEPT !.bg = b] \in Exchange
                BY DEF Exchange
            <4>3. y = [[x[r] EXCEPT !.srv = "handle", !.closing = closing]
                           EXCEPT !.bg = b]
                BY <1>1 DEF Exchange
            <4> QED
                BY <4>1, <4>2, <4>3
        <3>4. Drained(y)
            BY <1>1, <2>4, <3>1 DEF SrvRequest, Set, Exchange, Drained
        <3>5. x' = [x EXCEPT ![r] = y]
            BY <3>1, <3>2
        <3> QED
            BY <3>3, <3>4, <3>5
    <2>5. CASE SrvSend(r) /\ x[r].sent + 1 = Chunks
        <3> DEFINE y == [x[r] EXCEPT !.sent = x[r].sent + 1, !.srv = "finish"]
        <3>1. x[r].sent + 1 \in 0 .. Chunks
            BY <1>1, <2>5 DEF SrvSend, Set, Exchange, Drained
        <3>2. y \in Exchange
            BY <1>1, <3>1 DEF Exchange
        <3>3. Drained(y)
            BY <1>1, <2>5, <3>1 DEF SrvSend, Set, Exchange, Drained
        <3>4. x' = [x EXCEPT ![r] = y]
            BY <1>1, <2>5 DEF SrvSend, Set
        <3> QED
            BY <3>2, <3>3, <3>4
    <2>6. CASE SrvSend(r) /\ x[r].sent + 1 # Chunks
        <3> DEFINE y == [x[r] EXCEPT !.sent = x[r].sent + 1, !.srv = "handle"]
        <3>1. x[r].sent + 1 \in 0 .. Chunks /\ x[r].sent + 1 < Chunks
            BY <1>1, <2>6 DEF SrvSend, Set, Exchange, Drained
        <3>2. y \in Exchange
            BY <1>1, <3>1 DEF Exchange
        <3>3. Drained(y)
            BY <1>1, <2>6, <3>1 DEF SrvSend, Set, Exchange, Drained
        <3>4. x' = [x EXCEPT ![r] = y]
            BY <1>1, <2>6 DEF SrvSend, Set
        <3> QED
            BY <3>2, <3>3, <3>4
    <2>7. CASE SrvSendFails(r)
        <3> DEFINE y == [x[r] EXCEPT !.srv = "finish"]
        <3>1. y \in Exchange
            BY <1>1 DEF Exchange
        <3>2. Drained(y)
            BY <1>1, <2>7 DEF SrvSendFails, Set, Exchange, Drained
        <3>3. x' = [x EXCEPT ![r] = y]
            BY <1>1, <2>7 DEF SrvSendFails, Set
        <3> QED
            BY <3>1, <3>2, <3>3
    <2>8. CASE SrvIdle(r)
        <3> DEFINE y == [x[r] EXCEPT !.srv = "idle"]
        <3>1. y \in Exchange
            BY <1>1 DEF Exchange
        <3>2. Drained(y)
            BY <1>1, <2>8 DEF SrvIdle, Set, Exchange, Drained
        <3>3. x' = [x EXCEPT ![r] = y]
            BY <1>1, <2>8 DEF SrvIdle, Set
        <3> QED
            BY <3>1, <3>2, <3>3
    <2>9. CASE SrvClosed(r)
        <3> DEFINE y == [x[r] EXCEPT !.srv = "closed"]
        <3>1. y \in Exchange
            BY <1>1 DEF Exchange
        <3>2. Drained(y)
            BY <1>1, <2>9 DEF SrvClosed, Set, Exchange, Drained
        <3>3. x' = [x EXCEPT ![r] = y]
            BY <1>1, <2>9 DEF SrvClosed, Set
        <3> QED
            BY <3>1, <3>2, <3>3
    <2>10. CASE ChannelOpens(r)
        <3> DEFINE y == [x[r] EXCEPT !.open = TRUE]
        <3>1. y \in Exchange
            BY <1>1 DEF Exchange
        <3>2. Drained(y)
            BY <1>1, <2>10 DEF ChannelOpens, Set, Exchange, Drained
        <3>3. x' = [x EXCEPT ![r] = y]
            BY <1>1, <2>10 DEF ChannelOpens, Set
        <3> QED
            BY <3>1, <3>2, <3>3
    <2> QED
        BY <2>1, <2>2, <2>3, <2>4, <2>5, <2>6, <2>7, <2>8, <2>9, <2>10 DEF WebServer
<1> QED
    BY <1>2, SetRequest

\* A Conn of a page is released only drained, with its data channel closed or by
\* the cancel of a response marked Connection: close, for any number of requests
\* and any length of their responses.
THEOREM ConnsReleasedDrained == PageSpec => []ReleaseAfterDrain
<1> USE WebAssumption
<1>1. PageInit => PageInv
    BY PageStarts
<1>2. PageInv /\ [PageNext]_pageVars => PageInv'
    <2>1. ASSUME PageInv, UNCHANGED x PROVE PageInv'
        BY <2>1 DEF PageInv, Drained
    <2>2. ASSUME PageInv, PageNext PROVE PageInv'
        <3>1. CASE InitTransport
            BY <2>1, <2>2, <3>1 DEF InitTransport
        <3>2. ASSUME NEW r \in Request,
                     GoHttp(r) \/ Goroutine(r)
              PROVE  PageInv'
            BY <2>2, <3>2, HeadSteps, BodySteps DEF Goroutine
        <3> QED
            BY <2>2, <3>1, <3>2, CancelSteps, ServerSteps DEF PageNext
    <2> QED
        BY <2>1, <2>2 DEF pageVars
<1>3. PageInv => ReleaseAfterDrain
    BY DEF PageInv, Drained, ReleaseAfterDrain, All
<1> QED
    BY <1>1, <1>2, <1>3, PTL DEF PageSpec
=============================================================================
