------------------------------ MODULE SigServer ------------------------------
(***************************************************************************)
(* The signalling server (server/server.go, server/ws.go): a registry of   *)
(* clusters, each with its backends and frontends, and one HandleWs        *)
(* goroutine per websocket that registers its client, forwards packets to  *)
(* the other side of the cluster and deregisters when it ends.             *)
(*                                                                         *)
(* The registry is guarded by s.RWMutex; a *Client found in it is used     *)
(* after the lock is released.  A websocket is used once: a client that    *)
(* reconnects is another member of Conn, with the name and id it chooses.  *)
(***************************************************************************)
CONSTANTS Conn, Name, Id,
          Slow,         \* bound: the websockets that may stall
          None          \* no connection, name or id

ASSUME ServerAssumption ==
    /\ None \notin Conn /\ None \notin Name /\ None \notin Id
    /\ Slow \subseteq Conn

VARIABLES
    sessions,    \* keys of Server.sessions
    Backends,    \* Backends[n][i]: the websocket registered, None if absent
    Frontends,
    hs,          \* hs[c]: the HandleWs goroutine of websocket c
    broken,      \* open websockets the remote end has closed or lost
    stalled      \* open websockets whose remote end reads no more, and whose
                 \* buffers are full

registry == <<sessions, Backends, Frontends>>
remote == <<broken, stalled>>
vars == <<registry, hs, remote>>

\* A handler: where it is, its header, and the *Client it is sending to.
Handler == [pc : {"none", "header", "loop", "send", "del", "close", "gone"},
            type : {"none", "answer", "offer"},
            name : Name \cup {None}, id : Id \cup {None},
            client : Conn \cup {None}]

Table == [Name -> [Id -> Conn \cup {None}]]
NoClients == [i \in Id |-> None]

TypeOK ==
    /\ sessions \subseteq Name
    /\ Backends \in Table /\ Frontends \in Table
    /\ hs \in [Conn -> Handler]
    /\ broken \subseteq Conn /\ stalled \subseteq Conn
    /\ \A c \in Conn : hs[c].pc = "send" => hs[c].client # None

Init ==
    /\ sessions = {}
    /\ Backends = [n \in Name |-> NoClients]
    /\ Frontends = [n \in Name |-> NoClients]
    /\ hs = [c \in Conn |-> [pc |-> "none", type |-> "none", name |-> None,
                             id |-> None, client |-> None]]
    /\ broken = {} /\ stalled = {}

Goto(c, pc) == hs' = [hs EXCEPT ![c].pc = pc]
-----------------------------------------------------------------------------
(* The remote ends.                                                        *)

\* The remote end closes the websocket, or the network does.
Break(c) ==
    /\ hs[c].pc \notin {"none", "gone"} /\ c \notin broken
    /\ broken' = broken \cup {c}
    /\ UNCHANGED <<registry, hs, stalled>>

\* The remote end of a registered websocket stops reading, for good, but keeps
\* it open.
Stall(c) ==
    /\ hs[c].pc \in {"loop", "send"} /\ c \in Slow \ (broken \cup stalled)
    /\ stalled' = stalled \cup {c}
    /\ UNCHANGED <<registry, hs, broken>>

\* Upgrade, and the goroutine that runs HandleWs.
WsSignalling(c) ==
    /\ hs[c].pc = "none" /\ Goto(c, "header")
    /\ UNCHANGED <<registry, remote>>
-----------------------------------------------------------------------------
(* HandleWs.                                                               *)

\* The header cannot be read (or the upgrade had failed and conn is nil): the
\* deferred Close alone runs.
HeaderError(c) ==
    /\ hs[c].pc = "header" /\ Goto(c, "close")
    /\ UNCHANGED <<registry, remote>>

\* A header whose type is neither answer nor offer: an error, nothing to
\* deregister.
HeaderUnknown(c) ==
    /\ hs[c].pc = "header" /\ Goto(c, "del")
    /\ UNCHANGED <<registry, remote>>

\* A backend's header: AddBackend creates the session if need be and replaces
\* the client that has the same id.
AddBackend(c, n, i) ==
    /\ hs[c].pc = "header"
    /\ hs' = [hs EXCEPT ![c] = [pc |-> "loop", type |-> "answer", name |-> n,
                                id |-> i, client |-> None]]
    /\ sessions' = sessions \cup {n}
    /\ Backends' = [Backends EXCEPT ![n][i] = c]
    /\ UNCHANGED <<Frontends, remote>>

\* A frontend's header: refused when the cluster has no session, and then
\* DelFrontend runs all the same.
AddFrontend(c, n, i) ==
    /\ hs[c].pc = "header"
    /\ hs' = [hs EXCEPT ![c] = [pc |-> IF n \in sessions THEN "loop" ELSE "del",
                                type |-> "offer", name |-> n, id |-> i,
                                client |-> None]]
    /\ Frontends' = IF n \in sessions THEN [Frontends EXCEPT ![n][i] = c]
                                      ELSE Frontends
    /\ UNCHANGED <<sessions, Backends, remote>>

\* Mutant: a read error is skipped like an unknown target.
ReadContinues(c) ==
    /\ hs[c].pc = "loop" /\ Goto(c, "loop")
    /\ UNCHANGED <<registry, remote>>

\* ReadJSON fails: the remote end is gone, or what it sent is no packet.
ReadError(c) ==
    /\ hs[c].pc = "loop" /\ Goto(c, "del")
    /\ UNCHANGED <<registry, remote>>

\* None also stands for the nil of a name without a session.
GetBackend(n, i) == Backends[n][i]
GetFrontend(n, i) == Frontends[n][i]

\* Mutant: the packet's own side of the cluster is searched.
SameSide(c, i) ==
    IF hs[c].type = "answer" THEN GetBackend(hs[c].name, i)
                             ELSE GetFrontend(hs[c].name, i)

\* A backend's packet goes to a frontend, a frontend's to a backend.
Target(c, i) ==
    IF hs[c].type = "answer" THEN GetFrontend(hs[c].name, i)
                             ELSE GetBackend(hs[c].name, i)

\* A packet with From.ClientId = i is read and its target looked up; without
\* one the loop goes on.
Forward(c, i) ==
    /\ hs[c].pc = "loop" /\ Target(c, i) # None
    /\ hs' = [hs EXCEPT ![c].pc = "send", ![c].client = Target(c, i)]
    /\ UNCHANGED <<registry, remote>>

\* The websocket of target t takes no more data: closed by its handler, or
\* broken.
Unwritable(t) == hs[t].pc = "gone" \/ t \in broken

\* client.Send wrote the packet (a broken websocket may still take one).  There
\* is no write deadline: a stalled websocket holds the sender up.
SendOk(c) ==
    /\ hs[c].pc = "send" /\ hs[hs[c].client].pc # "gone"
    /\ hs[c].client \notin stalled
    /\ hs' = [hs EXCEPT ![c].pc = "loop", ![c].client = None]
    /\ UNCHANGED <<registry, remote>>

\* Another handler is writing to the same websocket: gorilla/websocket panics.
Overlapping(c) ==
    \E d \in Conn \ {c} : hs[d].pc = "send" /\ hs[d].client = hs[c].client

\* Mutant: an early return past the deferred deregistration.
SendErrorKeeps(c) ==
    /\ hs[c].pc = "send" /\ (Unwritable(hs[c].client) \/ Overlapping(c))
    /\ hs' = [hs EXCEPT ![c].pc = "close", ![c].client = None]
    /\ UNCHANGED <<registry, remote>>

\* client.Send failed or panicked: the sender's handler ends, and the deferred
\* functions run on either path.
SendError(c) ==
    /\ hs[c].pc = "send" /\ (Unwritable(hs[c].client) \/ Overlapping(c))
    /\ hs' = [hs EXCEPT ![c].pc = "del", ![c].client = None]
    /\ UNCHANGED <<registry, remote>>

\* Mutant: a session stays when its last backend leaves.
DelBackendKeeps(c) ==
    /\ hs[c].pc = "del" /\ hs[c].type = "answer"
    /\ Backends' = [Backends EXCEPT ![hs[c].name][hs[c].id] = None]
    /\ Goto(c, "close")
    /\ UNCHANGED <<sessions, Frontends, remote>>

\* Mutant: a session goes when any of its backends leaves.
DelBackendDrops(c) ==
    LET n == hs[c].name
    IN
    /\ hs[c].pc = "del" /\ hs[c].type = "answer"
    /\ sessions' = sessions \ {n}
    /\ Backends' = [Backends EXCEPT ![n] = NoClients]
    /\ Frontends' = [Frontends EXCEPT ![n] = NoClients]
    /\ Goto(c, "close")
    /\ UNCHANGED remote

\* DelBackend: whichever backend has the id is removed, and with the last one
\* the session and all its frontends (a name without a session has neither).
DelBackend(c) ==
    LET n == hs[c].name
        left == [Backends[n] EXCEPT ![hs[c].id] = None]
    IN
    /\ hs[c].pc = "del" /\ hs[c].type = "answer"
    /\ Backends' = [Backends EXCEPT ![n] = left]
    /\ \/ /\ left = NoClients
          /\ sessions' = sessions \ {n}
          /\ Frontends' = [Frontends EXCEPT ![n] = NoClients]
       \/ /\ left # NoClients
          /\ UNCHANGED <<sessions, Frontends>>
    /\ Goto(c, "close")
    /\ UNCHANGED remote

DelFrontend(c) ==
    /\ hs[c].pc = "del" /\ hs[c].type = "offer"
    /\ Frontends' = [Frontends EXCEPT ![hs[c].name][hs[c].id] = None]
    /\ Goto(c, "close")
    /\ UNCHANGED <<sessions, Backends, remote>>

DelNothing(c) ==
    /\ hs[c].pc = "del" /\ hs[c].type = "none"
    /\ Goto(c, "close")
    /\ UNCHANGED <<registry, remote>>

\* The outer deferred function: recover, conn.Close.
Close(c) ==
    /\ hs[c].pc = "close" /\ Goto(c, "gone")
    /\ broken' = broken \ {c} /\ stalled' = stalled \ {c}
    /\ UNCHANGED registry
-----------------------------------------------------------------------------
HandleWs(c) ==
    \/ HeaderError(c) \/ HeaderUnknown(c)
    \/ \E n \in Name, i \in Id : AddBackend(c, n, i) \/ AddFrontend(c, n, i)
    \/ ReadError(c) \/ (\E i \in Id : Forward(c, i))
    \/ SendOk(c) \/ SendError(c)
    \/ DelBackend(c) \/ DelFrontend(c) \/ DelNothing(c) \/ Close(c)

Next == \E c \in Conn : Break(c) \/ Stall(c) \/ WsSignalling(c) \/ HandleWs(c)

Spec == Init /\ [][Next]_vars

\* A handler that can go on does; a write to a stalled websocket cannot.  A
\* broken websocket has finitely many packets left to read: a handler that keeps
\* reading from one meets the error (strong fairness: it reads again after each).
FairSpec ==
    /\ Spec
    /\ \A c \in Conn :
         /\ SF_vars(c \in broken /\ (HeaderError(c) \/ ReadError(c)))
         /\ WF_vars(\/ SendOk(c) \/ SendError(c) \/ DelBackend(c)
                    \/ DelFrontend(c) \/ DelNothing(c) \/ Close(c))
-----------------------------------------------------------------------------
(* Properties.                                                             *)

\* The registry holds a session exactly while the cluster has a backend: a
\* frontend is refused with "cluster has no backend" when that is the case and
\* only then, whatever sequence of joins, re-registrations and failures.
SessionHasBackend ==
    \A n \in Name : n \in sessions <=> Backends[n] # NoClients

\* The header and the phase of a handler that is registered.
Serves(h, t, n, i) ==
    /\ h.type = t /\ h.name = n /\ h.id = i
    /\ h.pc \in {"loop", "send", "del"}

\* A registered websocket is still served by the handler that registered it,
\* under the same name and id: no exit, error or panic leaves a dead client
\* in the registry for packets to be routed to.
RegistryLive ==
    \A n \in Name, i \in Id :
        /\ Backends[n][i] # None => Serves(hs[Backends[n][i]], "answer", n, i)
        /\ Frontends[n][i] # None => Serves(hs[Frontends[n][i]], "offer", n, i)

\* A packet is written only to a client that registered on the other side of
\* the sender's own cluster, even when the client found has left since.
Isolation ==
    \A c \in Conn :
        hs[c].pc = "send" =>
            LET t == hs[hs[c].client]
            IN  /\ t.name = hs[c].name
                /\ {t.type, hs[c].type} = {"answer", "offer"}

\* A frontend loses its registration only when a handler with its own name and
\* id ends or registers, or the last backend of its cluster leaves.
FrontendsStay ==
    [][\A n \in Name, i \in Id :
         (Frontends[n][i] # None /\ Frontends'[n][i] # Frontends[n][i]) =>
             \/ Frontends'[n][i] # None
             \/ \E d \in Conn : hs[d].pc = "del" /\ hs[d].name = n /\
                  \/ hs[d].type = "offer" /\ hs[d].id = i
                  \/ /\ hs[d].type = "answer"
                     /\ \A j \in Id \ {hs[d].id} : Backends[n][j] = None]_vars

\* The handler of c is writing to a websocket that neither takes the packet nor
\* fails.
HeldUp(c) ==
    /\ hs[c].pc = "send" /\ hs[c].client \in stalled
    /\ ~Unwritable(hs[c].client)

\* A websocket whose remote end is gone is closed by the server, and with
\* RegistryLive its registration is gone too, unless its handler is held up for
\* good by a receiver that has stalled: one slow client can keep a dead one
\* registered, and nothing else can.  (A websocket breaks once, so this says of
\* each that broken leads to closed or to held up for good.)
BrokenLeaves == <>[](\A c \in broken : HeldUp(c))
-----------------------------------------------------------------------------
(* The inductive invariant behind the properties (see SigServerProofs).    *)

\* A name without a session has no frontends.
NoOrphans == \A n \in Name : n \notin sessions => Frontends[n] = NoClients

\* Only a handler past its header has a type, and then a name and an id.
Headers ==
    \A c \in Conn :
        /\ hs[c].pc \in {"none", "header"} => hs[c].type = "none"
        /\ hs[c].pc \in {"loop", "send"} => hs[c].type # "none"
        /\ hs[c].type # "none" => hs[c].name \in Name /\ hs[c].id \in Id

IInv == /\ TypeOK /\ Headers /\ NoOrphans
        /\ SessionHasBackend /\ RegistryLive /\ Isolation
=============================================================================
