-------------------------------- MODULE Dial --------------------------------
(***************************************************************************)
(* PeersClient (net/clients.go): the frontend's goroutines Dial a cluster  *)
(* through one shared map of Peers.  A Dial that finds no Peer connects to *)
(* every backend of the cluster first, one after the other, without the    *)
(* lock; it then takes any Peer of the map, again without the lock.        *)
(*                                                                         *)
(* GetCluster is a stub that returns no ids at this commit, and nobody     *)
(* starts the Run of the frontend's signalling client.  The model covers   *)
(* what the code does with ids and with a websocket too: ids is none or a  *)
(* list as GET /api/cluster makes it, wired says whether the client has a  *)
(* websocket.  A Peer negotiates as in Signalling and Peer; here its       *)
(* Connect succeeds or fails, and so does its Get, as it does once the     *)
(* connection is lost: the Peer stays in the map.                          *)
(***************************************************************************)
EXTENDS Integers, FiniteSets, Sequences

CONSTANTS
    Dialer,     \* goroutines that call Dial
    Backend,    \* client ids of the cluster's backends
    Empty,      \* the empty client id
    MaxPeers    \* bound: Peers made

ASSUME DialAssumption ==
    MaxPeers \in Nat /\ IsFiniteSet(Backend) /\ Empty \notin Backend

ClientId == Backend \cup {Empty}

VARIABLES
    ids,      \* what GetCluster returns, in order
    wired,    \* the frontend's signalling client has a websocket
    entry,    \* cluster has an entry for the name
    peers,    \* keys of the entry's map of Peers
    peer,     \* peer[k]: the id the k-th Peer was made for
    npeers,   \* Peers made so far
    lock,     \* the dialers that hold PeersClient's mutex
    dial,     \* dial[d]: the call of Dial in progress, or its result
    fatal,    \* the runtime stopped the process
    touched,  \* (history) an unlocked read has overlapped a write of the maps
    crossed   \* (history) two Connects have overlapped

dialVars == <<ids, wired, entry, peers, peer, npeers, lock, dial, fatal, touched,
              crossed>>

\* todo: backends Connect has still to connect to.  mine: the Peer it has made.
\* res: what Dial returns.
DialState ==
    [pc : {"idle", "rand", "cluster", "offer", "connect", "add", "iter", "read"},
     todo : Seq(ClientId), mine : 0 .. MaxPeers,
     res : {"none", "conn", "nil", "err"}]

NewDial == [pc |-> "idle", todo |-> <<>>, mine |-> 0, res |-> "none"]

DialTypeOK ==
    /\ ids \in Seq(ClientId) /\ entry \in BOOLEAN
    /\ npeers \in 0 .. MaxPeers /\ peers \subseteq 1 .. npeers
    /\ peer \in [1 .. npeers -> ClientId]
    /\ lock \subseteq Dialer
    /\ dial \in [Dialer -> DialState]
    /\ {wired, fatal, touched, crossed} \subseteq BOOLEAN

\* What GetBackends makes of n backends: n empty ids, as it appends to a slice
\* that has their length, then the n in some order.
GetBackends(n) ==
    {s \in [1 .. 2 * n -> ClientId] :
        /\ \A i \in 1 .. 2 * n : s[i] = Empty <=> i <= n
        /\ \A i, j \in n + 1 .. 2 * n : s[i] = s[j] => i = j}

\* No ids, as the stub returns, also stands for a cluster without a session.
GetCluster == UNION {GetBackends(n) : n \in 0 .. Cardinality(Backend)}

DialInit ==
    /\ ids \in GetCluster /\ wired \in BOOLEAN
    /\ entry = FALSE /\ peers = {} /\ npeers = 0 /\ peer = <<>>
    /\ lock = {} /\ dial = [d \in Dialer |-> NewDial]
    /\ fatal = FALSE /\ touched = FALSE /\ crossed = FALSE
-----------------------------------------------------------------------------
At(d, pc) == dial[d].pc = pc

Goto(d, pc) == dial' = [dial EXCEPT ![d].pc = pc]

Return(d, res) == dial' = [dial EXCEPT ![d] = [NewDial EXCEPT !.res = res]]

\* Nothing written to the maps, nobody looking at them.
Quiet == UNCHANGED <<ids, wired, entry, peers, fatal, touched>>

Connecting == {d \in Dialer : dial[d].pc \in {"cluster", "offer", "connect",
                                              "add"}}

\* A dialer calls Dial.
Call(d) ==
    /\ At(d, "idle")
    /\ dial' = [dial EXCEPT ![d] = [NewDial EXCEPT !.pc = "rand"]]
    /\ Quiet /\ UNCHANGED <<peer, npeers, lock, crossed>>

\* Mutant: Dial connects whether or not there is a Peer.
GetRandPeerNone(d) ==
    /\ At(d, "rand") /\ lock = {}
    /\ Goto(d, "cluster")
    /\ crossed' = (crossed \/ Connecting # {})
    /\ Quiet /\ UNCHANGED <<peer, npeers, lock>>

\* Mutant: the return of a Peer forgets to unlock.
GetRandPeerHolds(d) ==
    /\ At(d, "rand") /\ lock = {}
    /\ Goto(d, IF peers # {} THEN "iter" ELSE "cluster")
    /\ crossed' = (crossed \/ (peers = {} /\ Connecting # {}))
    /\ lock' = IF peers # {} THEN {d} ELSE {}
    /\ Quiet /\ UNCHANGED <<peer, npeers>>

\* getRandPeer, under the lock: with a Peer in the map, lost or not, Dial goes
\* on to take one; else it calls Connect.
GetRandPeer(d) ==
    /\ At(d, "rand") /\ lock = {}
    /\ Goto(d, IF peers # {} THEN "iter" ELSE "cluster")
    /\ crossed' = (crossed \/ (peers = {} /\ Connecting # {}))
    /\ Quiet /\ UNCHANGED <<peer, npeers, lock>>

\* A write of one of the maps starts.  The runtime may notice that somebody else
\* is writing, or reading.
WriteBegins(d) ==
    LET read == \E e \in Dialer : At(e, "read")
    IN
    /\ touched' = (touched \/ read)
    /\ fatal' \in {FALSE, read \/ lock # {}}
    /\ lock' = lock \cup {d}

\* Connect: GetCluster, and GetCluserClient, which takes the lock and puts an
\* entry for the name if there is none.
GetCluserClient(d) ==
    /\ At(d, "cluster")
    /\ \/ /\ entry /\ lock = {}
          /\ dial' = [dial EXCEPT ![d].pc = "offer", ![d].todo = ids]
          /\ Quiet /\ UNCHANGED <<peer, npeers, lock, crossed>>
       \/ /\ ~entry /\ lock = {}
          /\ WriteBegins(d)
          /\ UNCHANGED <<ids, wired, entry, peers, peer, npeers, dial, crossed>>
       \/ /\ d \in lock
          /\ entry' = TRUE
          /\ dial' = [dial EXCEPT ![d].pc = "offer", ![d].todo = ids]
          /\ lock' = lock \ {d}
          /\ UNCHANGED <<ids, wired, peers, peer, npeers, fatal, touched, crossed>>

\* NewOfferPeer for the next backend, whose Peer gets an id of its own.
NewOfferPeer(d) ==
    /\ At(d, "offer") /\ dial[d].todo # <<>> /\ npeers < MaxPeers
    /\ npeers' = npeers + 1
    /\ peer' = Append(peer, Head(dial[d].todo))
    /\ dial' = [dial EXCEPT ![d].pc = "connect", ![d].mine = npeers + 1,
                            ![d].todo = Tail(@)]
    /\ Quiet /\ UNCHANGED <<lock, crossed>>

\* NewOfferPeer fails, and with it Connect and Dial.
NewOfferPeerFails(d) ==
    /\ At(d, "offer") /\ dial[d].todo # <<>>
    /\ Return(d, "err")
    /\ Quiet /\ UNCHANGED <<peer, npeers, lock, crossed>>

\* peer.Connect returns when the connection is up.  The relay does not look at
\* the id that is dialled, so an empty one makes no difference here.
Connect(d) ==
    /\ At(d, "connect") /\ wired
    /\ Goto(d, "add")
    /\ Quiet /\ UNCHANGED <<peer, npeers, lock, crossed>>

\* Mutant: a backend that cannot be connected to is skipped.
ConnectSkips(d) ==
    /\ At(d, "connect")
    /\ Goto(d, "offer")
    /\ Quiet /\ UNCHANGED <<peer, npeers, lock, crossed>>

\* It fails, before the offer is sent or at the latest after its two minutes:
\* the backends that follow are not tried, and the Peer is left as it is.
ConnectFails(d) ==
    /\ At(d, "connect")
    /\ Return(d, "err")
    /\ Quiet /\ UNCHANGED <<peer, npeers, lock, crossed>>

\* SendOffer writes to a client without a websocket.
NilWebsocket(d) == At(d, "connect") /\ ~wired

\* Mutant: addPeer takes no lock.
Unlocked == TRUE

\* c.Lock() of addPeer.
AddPeerMayLock == lock = {}

\* addPeer: the lock, and the write of the entry's map.
AddPeer(d) ==
    /\ At(d, "add")
    /\ \/ /\ d \notin lock /\ AddPeerMayLock
          /\ WriteBegins(d)
          /\ UNCHANGED <<ids, wired, entry, peers, peer, npeers, dial, crossed>>
       \/ /\ d \in lock
          /\ peers' = peers \cup {dial[d].mine}
          /\ dial' = [dial EXCEPT ![d].pc = "offer", ![d].mine = 0]
          /\ lock' = lock \ {d}
          /\ UNCHANGED <<ids, wired, entry, peer, npeers, fatal, touched, crossed>>

\* Connect has been through all ids.
Connected(d) ==
    /\ At(d, "offer") /\ dial[d].todo = <<>>
    /\ Goto(d, "iter")
    /\ Quiet /\ UNCHANGED <<peer, npeers, lock, crossed>>

\* range c.cluster[clusterName].peers, without the lock: the runtime may notice
\* that somebody is writing.
IterBegin(d) ==
    /\ At(d, "iter")
    /\ touched' = (touched \/ lock # {})
    /\ fatal' \in {FALSE, lock # {}}
    /\ Goto(d, "read")
    /\ UNCHANGED <<ids, wired, entry, peers, peer, npeers, lock, crossed>>

\* The first Peer the iteration finds: its Get makes a channel, or fails, as it
\* does once the connection is lost; no other Peer is tried.
IterPeer(d) ==
    /\ At(d, "read") /\ peers # {}
    /\ Return(d, "conn") \/ Return(d, "err")
    /\ Quiet /\ UNCHANGED <<peer, npeers, lock, crossed>>

\* There is none: nil, and no error.
IterNone(d) ==
    /\ At(d, "read") /\ peers = {}
    /\ Return(d, "nil")
    /\ Quiet /\ UNCHANGED <<peer, npeers, lock, crossed>>
-----------------------------------------------------------------------------
\* What Dial does on its way to its return.
DialStep(d) ==
    \/ GetRandPeer(d) \/ GetCluserClient(d)
    \/ NewOfferPeer(d) \/ NewOfferPeerFails(d) \/ Connect(d) \/ ConnectFails(d)
    \/ AddPeer(d) \/ Connected(d)
    \/ IterBegin(d) \/ IterPeer(d) \/ IterNone(d)
-----------------------------------------------------------------------------
(* Properties.                                                             *)

\* Dial returns nil without an error, which its callers dereference, only when
\* the cluster has no backend: a Connect that fails half way is an error, and a
\* Peer that was found stays.
NilOnlyWithoutIds == \A d \in Dialer : dial[d].res = "nil" => ids = <<>>

\* The frontend keeps one Peer per backend, unless two Dials were in Connect at
\* once, each of which then connects to every backend: a list that is padded, a
\* Connect that fails half way and a Dial that is repeated make no second one.
DuplicateNeedsOverlap ==
    \A j, k \in peers :
        peer[j] = peer[k] /\ j # k => peer[j] = Empty \/ crossed

\* The runtime stops the process only for a read of the maps in Dial, which does
\* not lock, never for two writers.
FatalNeedsReader == fatal => touched
=============================================================================
