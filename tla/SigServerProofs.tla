--------------------------- MODULE SigServerProofs ---------------------------
(* Proofs of SigServer's properties for any sets of websockets, cluster     *)
(* names and client ids.                                                    *)
EXTENDS SigServer, TLAPS

USE DEF registry

-----------------------------------------------------------------------------
\* The empty registry satisfies the invariant.
LEMMA InvInit == Init => IInv
<1> SUFFICES ASSUME Init PROVE IInv
    OBVIOUS
<1>1. TypeOK
    BY DEF Init, TypeOK, Table, NoClients, Handler
<1>2. Headers /\ NoOrphans /\ SessionHasBackend /\ Isolation
    BY DEF Init, Headers, NoOrphans, SessionHasBackend, Isolation
<1>3. RegistryLive
    BY DEF Init, RegistryLive, NoClients
<1> QED
    BY <1>1, <1>2, <1>3 DEF IInv

\* The registry as it is now stays right when handlers only move between
\* phases in which they serve their registration, or own none.
LEMMA HandlerStep ==
    ASSUME IInv, NEW c \in Conn, UNCHANGED registry,
           broken' \subseteq Conn, stalled' \subseteq Conn,
           NEW h \in Handler, hs' = [hs EXCEPT ![c] = h],
           h.type = hs[c].type, h.name = hs[c].name, h.id = hs[c].id,
           h.pc \in {"none", "header"} => h.type = "none",
           h.pc \in {"loop", "send"} => h.type # "none",
           \/ hs[c].type = "none" \/ h.pc \in {"loop", "send", "del"}
           \/ hs[c].pc \in {"close", "gone"},
           h.pc = "send" => /\ h.client # None
                            /\ hs[h.client].name = h.name
                            /\ {hs[h.client].type, h.type} = {"answer", "offer"}
    PROVE  IInv'
<1>1. hs'[c] = h /\ \A d \in Conn : d # c => hs'[d] = hs[d]
    BY DEF IInv, TypeOK
<1>2. \A d \in Conn : /\ hs'[d].type = hs[d].type /\ hs'[d].name = hs[d].name
                      /\ hs'[d].id = hs[d].id
    BY <1>1
<1>3. TypeOK'
    <2>1. hs' \in [Conn -> Handler]
        BY DEF IInv, TypeOK
    <2> QED
        BY <1>1, <2>1 DEF IInv, TypeOK
<1>4. Headers'
    BY <1>1, <1>2 DEF IInv, Headers
<1>5. NoOrphans' /\ SessionHasBackend'
    BY DEF IInv, NoOrphans, SessionHasBackend
<1>6. RegistryLive'
    <2> SUFFICES ASSUME NEW n \in Name, NEW i \in Id
                 PROVE  /\ Backends[n][i] # None
                            => Serves(hs'[Backends[n][i]], "answer", n, i)
                        /\ Frontends[n][i] # None
                            => Serves(hs'[Frontends[n][i]], "offer", n, i)
        BY DEF RegistryLive
    <2>1. /\ Backends[n][i] # None => Serves(hs[Backends[n][i]], "answer", n, i)
          /\ Frontends[n][i] # None => Serves(hs[Frontends[n][i]], "offer", n, i)
        BY DEF IInv, RegistryLive
    <2>2. ASSUME NEW d \in Conn, NEW t \in {"answer", "offer"},
                 Serves(hs[d], t, n, i)
          PROVE  Serves(hs'[d], t, n, i)
        BY <1>1, <2>2 DEF Serves
    <2>3. Backends[n][i] \in Conn \cup {None} /\ Frontends[n][i] \in Conn \cup {None}
        BY DEF IInv, TypeOK, Table
    <2> QED
        BY <2>1, <2>2, <2>3 DEF Serves
<1>7. Isolation'
    <2> SUFFICES ASSUME NEW d \in Conn, hs'[d].pc = "send"
                 PROVE  /\ hs'[hs'[d].client].name = hs'[d].name
                        /\ {hs'[hs'[d].client].type, hs'[d].type}
                             = {"answer", "offer"}
        BY DEF Isolation
    <2>1. hs'[d].client \in Conn
        BY <1>3 DEF TypeOK, Handler
    <2>2. CASE d = c
        BY <1>1, <1>2, <2>1, <2>2
    <2>3. CASE d # c
        <3>1. hs'[d] = hs[d]
            BY <1>1, <2>3
        <3>2. /\ hs[hs[d].client].name = hs[d].name
              /\ {hs[hs[d].client].type, hs[d].type} = {"answer", "offer"}
            BY <3>1 DEF IInv, Isolation
        <3> QED
            BY <1>2, <2>1, <3>1, <3>2
    <2> QED
        BY <2>2, <2>3
<1> QED
    BY <1>3, <1>4, <1>5, <1>6, <1>7 DEF IInv

\* The steps of a handler that leave the registry alone.
LEMMA PhaseStep ==
    ASSUME IInv, NEW c \in Conn,
           \/ WsSignalling(c) \/ HeaderError(c) \/ HeaderUnknown(c)
           \/ ReadError(c) \/ (\E i \in Id : Forward(c, i))
           \/ SendOk(c) \/ SendError(c) \/ DelNothing(c) \/ Close(c)
    PROVE  IInv'
<1>1. /\ hs[c] \in Handler /\ UNCHANGED registry
      /\ broken' \subseteq Conn /\ stalled' \subseteq Conn
      /\ hs[c].pc \in {"none", "header"} => hs[c].type = "none"
      /\ hs[c].pc \in {"loop", "send"} => hs[c].type # "none"
    BY DEF WsSignalling, HeaderError, HeaderUnknown, ReadError, Forward,
        SendOk, SendError, DelNothing, Close, remote, IInv, TypeOK, Headers
<1>2. ASSUME NEW p \in {"header", "loop", "del", "close", "gone"},
             hs' = [hs EXCEPT ![c].pc = p],
             p = "header" => hs[c].type = "none",
             p = "loop" => hs[c].type # "none",
             \/ hs[c].type = "none" \/ p \in {"loop", "del"}
             \/ hs[c].pc \in {"close", "gone"}
      PROVE  IInv'
    <2> DEFINE h == [hs[c] EXCEPT !.pc = p]
    <2>1. h \in Handler /\ h.pc = p /\ h.type = hs[c].type
            /\ h.name = hs[c].name /\ h.id = hs[c].id
        BY <1>1 DEF Handler
    <2>2. hs' = [hs EXCEPT ![c] = h]
        BY <1>2
    <2> HIDE DEF h
    <2> QED
        BY <1>1, <1>2, <2>1, <2>2, HandlerStep
<1>3. CASE WsSignalling(c) \/ HeaderError(c) \/ HeaderUnknown(c)
              \/ DelNothing(c) \/ ReadError(c) \/ Close(c)
    BY <1>1, <1>2, <1>3 DEF WsSignalling, HeaderError, HeaderUnknown,
        DelNothing, ReadError, Close, Goto
<1>4. ASSUME NEW i \in Id, Forward(c, i) PROVE IInv'
    <2> DEFINE t == Target(c, i)
               h == [hs[c] EXCEPT !.pc = "send", !.client = t]
    <2>1. hs[c].pc = "loop" /\ t # None
        BY <1>4 DEF Forward
    <2>2. hs[c].name \in Name /\ hs[c].type \in {"answer", "offer"}
        BY <1>1, <2>1 DEF IInv, Headers, Handler
    <2>3. t \in Conn
        BY <2>1, <2>2 DEF IInv, TypeOK, Table, Target, GetBackend, GetFrontend
    <2>4. /\ hs[t].name = hs[c].name
          /\ {hs[t].type, hs[c].type} = {"answer", "offer"}
        BY <2>1, <2>2, <2>3 DEF IInv, RegistryLive, Serves, Target, GetBackend, GetFrontend
    <2> HIDE DEF t
    <2>5. h \in Handler /\ h.pc = "send" /\ h.client = t
            /\ h.type = hs[c].type /\ h.name = hs[c].name /\ h.id = hs[c].id
        BY <1>1, <2>3 DEF Handler
    <2>6. hs' = [hs EXCEPT ![c] = h]
        BY <1>4 DEF Forward, t
    <2> HIDE DEF h
    <2> QED
        BY <1>1, <2>1, <2>2, <2>4, <2>5, <2>6, HandlerStep
<1>5. CASE SendOk(c) \/ SendError(c)
    <2>1. PICK p \in {"loop", "del"} :
              hs' = [hs EXCEPT ![c].pc = p, ![c].client = None]
        BY <1>5 DEF SendOk, SendError
    <2>2. hs[c].pc = "send"
        BY <1>5 DEF SendOk, SendError
    <2> DEFINE h == [hs[c] EXCEPT !.pc = p, !.client = None]
    <2>3. h \in Handler /\ h.pc = p /\ h.type = hs[c].type
            /\ h.name = hs[c].name /\ h.id = hs[c].id
        BY <1>1 DEF Handler
    <2>4. hs' = [hs EXCEPT ![c] = h]
        BY <2>1
    <2> HIDE DEF h
    <2> QED
        BY <1>1, <2>2, <2>3, <2>4, HandlerStep
<1> QED
    BY <1>3, <1>4, <1>5

\* A handler registers its client and enters its loop, or is refused.
LEMMA RegisterStep ==
    ASSUME IInv, NEW c \in Conn, NEW n \in Name, NEW i \in Id,
           AddBackend(c, n, i) \/ AddFrontend(c, n, i)
    PROVE  IInv'
<1>1. PICK h \in Handler :
          /\ hs' = [hs EXCEPT ![c] = h] /\ h.name = n /\ h.id = i
          /\ \/ AddBackend(c, n, i) /\ h.type = "answer" /\ h.pc = "loop"
             \/ AddFrontend(c, n, i) /\ h.type = "offer"
                  /\ h.pc = IF n \in sessions THEN "loop" ELSE "del"
    <2> DEFINE g(p, t) == [pc |-> p, type |-> t, name |-> n, id |-> i,
                           client |-> None]
               q == IF n \in sessions THEN "loop" ELSE "del"
    <2>1. CASE AddBackend(c, n, i)
        <3>1. g("loop", "answer") \in Handler
            BY DEF Handler
        <3>2. hs' = [hs EXCEPT ![c] = g("loop", "answer")]
            BY <2>1 DEF AddBackend
        <3> QED
            BY <2>1, <3>1, <3>2
    <2>2. CASE AddFrontend(c, n, i)
        <3>1. g(q, "offer") \in Handler
            BY DEF Handler
        <3>2. hs' = [hs EXCEPT ![c] = g(q, "offer")]
            BY <2>2 DEF AddFrontend
        <3> QED
            BY <2>2, <3>1, <3>2
    <2> QED
        BY <2>1, <2>2
<1>2. hs[c].pc = "header" /\ hs[c].type = "none" /\ UNCHANGED remote
    BY DEF AddBackend, AddFrontend, IInv, Headers
<1>3. hs'[c] = h /\ \A d \in Conn : d # c => hs'[d] = hs[d]
    BY <1>1 DEF IInv, TypeOK
<1>4. hs' \in [Conn -> Handler]
    BY <1>1 DEF IInv, TypeOK
<1>5. \A d \in Conn, t \in {"answer", "offer"}, m \in Name, j \in Id :
          Serves(hs[d], t, m, j) => d # c /\ Serves(hs'[d], t, m, j)
    BY <1>2, <1>3 DEF Serves
<1>6. Headers'
    BY <1>1, <1>3 DEF IInv, Headers
<1>7. Isolation'
    <2> SUFFICES ASSUME NEW d \in Conn, hs'[d].pc = "send"
                 PROVE  /\ hs'[hs'[d].client].name = hs'[d].name
                        /\ {hs'[hs'[d].client].type, hs'[d].type}
                             = {"answer", "offer"}
        BY DEF Isolation
    <2>1. d # c /\ hs'[d] = hs[d]
        BY <1>1, <1>3
    <2>2. /\ hs[hs[d].client].name = hs[d].name
          /\ {hs[hs[d].client].type, hs[d].type} = {"answer", "offer"}
        BY <2>1 DEF IInv, Isolation
    <2>3. hs[d].client \in Conn /\ hs[d].client # c
        BY <1>2, <2>1, <2>2 DEF IInv, TypeOK, Handler
    <2> QED
        BY <1>3, <2>1, <2>2, <2>3
<1>8. CASE AddBackend(c, n, i)
    <2>1. /\ sessions' = sessions \cup {n} /\ Frontends' = Frontends
          /\ Backends' = [Backends EXCEPT ![n][i] = c]
        BY <1>8 DEF AddBackend
    <2>2. /\ Backends'[n][i] = c
          /\ \A m \in Name, j \in Id :
                 m # n \/ j # i => Backends'[m][j] = Backends[m][j]
          /\ \A m \in Name : m # n => Backends'[m] = Backends[m]
          /\ Backends' \in Table
        BY <2>1 DEF IInv, TypeOK, Table
    <2>3. TypeOK'
        BY <1>1, <1>2, <1>3, <1>4, <1>8, <2>1, <2>2 DEF remote, IInv, TypeOK, AddBackend
    <2>4. NoOrphans'
        BY <2>1 DEF IInv, NoOrphans
    <2>5. SessionHasBackend'
        <3>1. Backends'[n] # NoClients
            BY <2>2, ServerAssumption DEF NoClients
        <3> QED
            BY <2>1, <2>2, <3>1 DEF IInv, SessionHasBackend
    <2>6. RegistryLive'
        <3>1. h.type = "answer" /\ h.pc = "loop"
            BY <1>1, <1>2, <1>3, <1>8 DEF AddBackend, IInv, TypeOK
        <3>2. Serves(hs'[c], "answer", n, i)
            BY <1>1, <1>3, <3>1 DEF Serves
        <3> SUFFICES ASSUME NEW m \in Name, NEW j \in Id
                     PROVE  /\ Backends'[m][j] # None
                                => Serves(hs'[Backends'[m][j]], "answer", m, j)
                            /\ Frontends'[m][j] # None
                                => Serves(hs'[Frontends'[m][j]], "offer", m, j)
            BY DEF RegistryLive
        <3>3. /\ Backends[m][j] \in Conn \cup {None}
              /\ Frontends[m][j] \in Conn \cup {None}
            BY DEF IInv, TypeOK, Table
        <3>4. /\ Backends[m][j] # None => Serves(hs[Backends[m][j]], "answer", m, j)
              /\ Frontends[m][j] # None => Serves(hs[Frontends[m][j]], "offer", m, j)
            BY DEF IInv, RegistryLive
        <3>5. /\ Backends[m][j] # None => Serves(hs'[Backends[m][j]], "answer", m, j)
              /\ Frontends[m][j] # None => Serves(hs'[Frontends[m][j]], "offer", m, j)
            BY <1>5, <3>3, <3>4
        <3> QED
            BY <2>1, <2>2, <3>2, <3>5
    <2> QED
        BY <1>6, <1>7, <2>3, <2>4, <2>5, <2>6 DEF IInv
<1>9. CASE AddFrontend(c, n, i)
    <2>1. /\ UNCHANGED <<sessions, Backends>>
          /\ Frontends' = IF n \in sessions THEN [Frontends EXCEPT ![n][i] = c]
                                            ELSE Frontends
        BY <1>9 DEF AddFrontend
    <2>2. /\ n \in sessions => Frontends'[n][i] = c
          /\ \A m \in Name, j \in Id :
                 (m # n \/ j # i \/ n \notin sessions)
                     => Frontends'[m][j] = Frontends[m][j]
          /\ \A m \in Name : m # n => Frontends'[m] = Frontends[m]
          /\ Frontends' \in Table
        BY <2>1 DEF IInv, TypeOK, Table
    <2>3. TypeOK'
        BY <1>1, <1>2, <1>3, <1>4, <2>1, <2>2 DEF remote, IInv, TypeOK
    <2>4. NoOrphans'
        BY <2>1, <2>2 DEF IInv, NoOrphans
    <2>5. SessionHasBackend'
        BY <2>1 DEF IInv, SessionHasBackend
    <2>6. RegistryLive'
        <3>1. n \in sessions => h.type = "offer" /\ h.pc = "loop"
            BY <1>3, <1>9 DEF AddFrontend, IInv, TypeOK
        <3>2. n \in sessions => Serves(hs'[c], "offer", n, i)
            BY <1>1, <1>3, <3>1 DEF Serves
        <3> SUFFICES ASSUME NEW m \in Name, NEW j \in Id
                     PROVE  /\ Backends'[m][j] # None
                                => Serves(hs'[Backends'[m][j]], "answer", m, j)
                            /\ Frontends'[m][j] # None
                                => Serves(hs'[Frontends'[m][j]], "offer", m, j)
            BY DEF RegistryLive
        <3>3. /\ Backends[m][j] \in Conn \cup {None}
              /\ Frontends[m][j] \in Conn \cup {None}
            BY DEF IInv, TypeOK, Table
        <3>4. /\ Backends[m][j] # None => Serves(hs[Backends[m][j]], "answer", m, j)
              /\ Frontends[m][j] # None => Serves(hs[Frontends[m][j]], "offer", m, j)
            BY DEF IInv, RegistryLive
        <3>5. /\ Backends[m][j] # None => Serves(hs'[Backends[m][j]], "answer", m, j)
              /\ Frontends[m][j] # None => Serves(hs'[Frontends[m][j]], "offer", m, j)
            BY <1>5, <3>3, <3>4
        <3> QED
            BY <2>1, <2>2, <3>2, <3>5
    <2> QED
        BY <1>6, <1>7, <2>3, <2>4, <2>5, <2>6 DEF IInv
<1> QED
    BY <1>8, <1>9

\* A handler's deferred deregistration.
LEMMA DeregisterStep ==
    ASSUME IInv, NEW c \in Conn, DelBackend(c) \/ DelFrontend(c)
    PROVE  IInv'
<1> DEFINE n == hs[c].name
           i == hs[c].id
<1>1. n \in Name /\ i \in Id /\ hs[c].pc = "del" /\ UNCHANGED remote
    BY DEF DelBackend, DelFrontend, IInv, Headers
<1>2. hs[c] \in Handler /\ hs' = [hs EXCEPT ![c].pc = "close"]
    BY DEF DelBackend, DelFrontend, Goto, IInv, TypeOK
<1>3. /\ hs'[c].pc = "close" /\ hs'[c].type = hs[c].type
      /\ hs'[c].name = hs[c].name /\ hs'[c].id = hs[c].id
      /\ \A d \in Conn : d # c => hs'[d] = hs[d]
      /\ hs' \in [Conn -> Handler]
    BY <1>2 DEF IInv, TypeOK, Handler
<1>4. Headers'
    BY <1>3 DEF IInv, Headers
<1>5. Isolation'
    <2> SUFFICES ASSUME NEW d \in Conn, hs'[d].pc = "send"
                 PROVE  /\ hs'[hs'[d].client].name = hs'[d].name
                        /\ {hs'[hs'[d].client].type, hs'[d].type}
                             = {"answer", "offer"}
        BY DEF Isolation
    <2>1. hs'[d] = hs[d]
        BY <1>3
    <2>2. /\ hs[hs[d].client].name = hs[d].name
          /\ {hs[hs[d].client].type, hs[d].type} = {"answer", "offer"}
        BY <2>1 DEF IInv, Isolation
    <2>3. hs[d].client \in Conn
        BY <2>1 DEF IInv, TypeOK, Handler
    <2> QED
        BY <1>3, <2>1, <2>2, <2>3
<1>6. ASSUME Backends' \in Table, Frontends' \in Table,
             \A m \in Name, j \in Id :
                 /\ Backends'[m][j] \in {Backends[m][j], None}
                 /\ Frontends'[m][j] \in {Frontends[m][j], None}
                 /\ Backends'[m][j] # c /\ Frontends'[m][j] # c
      PROVE  RegistryLive'
    <2> SUFFICES ASSUME NEW m \in Name, NEW j \in Id
                 PROVE  /\ Backends'[m][j] # None
                            => Serves(hs'[Backends'[m][j]], "answer", m, j)
                        /\ Frontends'[m][j] # None
                            => Serves(hs'[Frontends'[m][j]], "offer", m, j)
        BY DEF RegistryLive
    <2>1. /\ Backends[m][j] # None => Serves(hs[Backends[m][j]], "answer", m, j)
          /\ Frontends[m][j] # None => Serves(hs[Frontends[m][j]], "offer", m, j)
        BY DEF IInv, RegistryLive
    <2>2. /\ Backends[m][j] \in Conn \cup {None}
          /\ Frontends[m][j] \in Conn \cup {None}
        BY DEF IInv, TypeOK, Table
    <2> QED
        BY <1>3, <1>6, <2>1, <2>2
<1>7. \A m \in Name, j \in Id :
          /\ Backends[m][j] = c => hs[c].type = "answer" /\ m = n /\ j = i
          /\ Frontends[m][j] = c => hs[c].type = "offer" /\ m = n /\ j = i
    BY ServerAssumption DEF IInv, RegistryLive, Serves
<1>8. CASE DelBackend(c)
    <2> DEFINE left == [Backends[n] EXCEPT ![i] = None]
    <2>1. /\ hs[c].type = "answer"
          /\ Backends' = [Backends EXCEPT ![n] = left]
          /\ \/ /\ left = NoClients /\ sessions' = sessions \ {n}
                /\ Frontends' = [Frontends EXCEPT ![n] = NoClients]
             \/ left # NoClients /\ UNCHANGED <<sessions, Frontends>>
        BY <1>8 DEF DelBackend
    <2>2. /\ Backends'[n] = left /\ left[i] = None
          /\ \A j \in Id : j # i => left[j] = Backends[n][j]
          /\ \A m \in Name : m # n => Backends'[m] = Backends[m]
          /\ left \in [Id -> Conn \cup {None}] /\ Backends' \in Table
        BY <1>1, <2>1 DEF IInv, TypeOK, Table
    <2> HIDE DEF left
    <2>3. /\ left = NoClients => Frontends'[n] = NoClients
          /\ left # NoClients => Frontends' = Frontends
          /\ \A m \in Name : m # n => Frontends'[m] = Frontends[m]
          /\ Frontends' \in Table
        <3>1. NoClients \in [Id -> Conn \cup {None}]
            BY DEF NoClients
        <3> QED
            BY <1>1, <2>1, <3>1 DEF IInv, TypeOK, Table
    <2>4. TypeOK'
        BY <1>1, <1>3, <2>1, <2>2, <2>3 DEF remote, IInv, TypeOK
    <2>5. NoOrphans'
        BY <2>1, <2>3 DEF IInv, NoOrphans
    <2>6. SessionHasBackend'
        <3> SUFFICES ASSUME NEW m \in Name
                     PROVE  m \in sessions' <=> Backends'[m] # NoClients
            BY DEF SessionHasBackend
        <3>1. m \in sessions <=> Backends[m] # NoClients
            BY DEF IInv, SessionHasBackend
        <3>2. CASE m # n
            BY <2>1, <2>2, <3>1, <3>2
        <3>3. CASE m = n /\ left = NoClients
            BY <2>1, <2>2, <3>3
        <3>4. CASE m = n /\ left # NoClients
            <4>1. Backends[n] # NoClients
                BY <2>2, <3>4 DEF left, NoClients
            <4> QED
                BY <2>1, <2>2, <3>1, <3>4, <4>1
        <3> QED
            BY <3>2, <3>3, <3>4
    <2>7. RegistryLive'
        <3>1. \A m \in Name, j \in Id :
                  /\ Backends'[m][j] \in {Backends[m][j], None}
                  /\ Frontends'[m][j] \in {Frontends[m][j], None}
                  /\ Backends'[m][j] # c /\ Frontends'[m][j] # c
            BY <1>7, <2>1, <2>2, <2>3, ServerAssumption DEF NoClients
        <3> QED
            BY <1>6, <2>2, <2>3, <3>1
    <2> QED
        BY <1>4, <1>5, <2>4, <2>5, <2>6, <2>7 DEF IInv
<1>9. CASE DelFrontend(c)
    <2>1. /\ hs[c].type = "offer" /\ UNCHANGED <<sessions, Backends>>
          /\ Frontends' = [Frontends EXCEPT ![n][i] = None]
        BY <1>9 DEF DelFrontend
    <2>2. /\ Frontends'[n][i] = None /\ Frontends' \in Table
          /\ \A m \in Name, j \in Id :
                 m # n \/ j # i => Frontends'[m][j] = Frontends[m][j]
          /\ \A m \in Name : m # n => Frontends'[m] = Frontends[m]
        BY <1>1, <2>1 DEF IInv, TypeOK, Table
    <2>3. TypeOK'
        BY <1>1, <1>3, <2>1, <2>2 DEF remote, IInv, TypeOK
    <2>4. SessionHasBackend'
        BY <2>1 DEF IInv, SessionHasBackend
    <2>5. NoOrphans'
        <3>1. ASSUME n \notin sessions PROVE Frontends'[n] = NoClients
            <4>1. Frontends[n] = NoClients
                BY <1>1, <3>1 DEF IInv, NoOrphans
            <4>2. Frontends'[n] = [Frontends[n] EXCEPT ![i] = None]
                BY <1>1, <2>1 DEF IInv, TypeOK, Table
            <4> QED
                BY <4>1, <4>2 DEF NoClients
        <3> QED
            BY <2>1, <2>2, <3>1 DEF IInv, NoOrphans
    <2>6. RegistryLive'
        <3>1. \A m \in Name, j \in Id :
                  /\ Backends'[m][j] \in {Backends[m][j], None}
                  /\ Frontends'[m][j] \in {Frontends[m][j], None}
                  /\ Backends'[m][j] # c /\ Frontends'[m][j] # c
            BY <1>7, <2>1, <2>2, ServerAssumption
        <3>2. Backends' \in Table
            BY <2>1 DEF IInv, TypeOK
        <3> QED
            BY <1>6, <2>2, <3>1, <3>2
    <2> QED
        BY <1>4, <1>5, <2>3, <2>4, <2>5, <2>6 DEF IInv
<1> QED
    BY <1>8, <1>9
-----------------------------------------------------------------------------
(* The theorems.                                                            *)

\* The invariant is inductive.
LEMMA InvStep == IInv /\ [Next]_vars => IInv'
<1> SUFFICES ASSUME IInv, [Next]_vars PROVE IInv'
    OBVIOUS
<1>1. CASE UNCHANGED vars
    BY <1>1 DEF vars, remote, IInv, TypeOK, Headers, NoOrphans, SessionHasBackend,
        RegistryLive, Isolation
<1>2. ASSUME NEW c \in Conn, Break(c) \/ Stall(c) PROVE IInv'
    <2>1. UNCHANGED <<registry, hs>> /\ broken' \subseteq Conn /\ stalled' \subseteq Conn
        BY <1>2 DEF Break, Stall, IInv, TypeOK
    <2> QED
        BY <2>1 DEF IInv, TypeOK, Headers, NoOrphans, SessionHasBackend,
            RegistryLive, Isolation
<1> QED
    BY <1>1, <1>2, PhaseStep, RegisterStep, DeregisterStep DEF Next, HandleWs

\* The registry's invariant holds in every reachable state, for any number of
\* websockets, clusters and clients.
THEOREM RegistryInvariant == Spec => []IInv
BY InvInit, InvStep, PTL DEF Spec

\* A cluster's session is registered exactly while it has a backend.
THEOREM SessionsHaveBackends == Spec => []SessionHasBackend
<1>1. IInv => SessionHasBackend
    BY DEF IInv
<1> QED
    BY <1>1, RegistryInvariant, PTL

\* Every registered websocket is served by the handler that registered it.
THEOREM RegistryIsLive == Spec => []RegistryLive
<1>1. IInv => RegistryLive
    BY DEF IInv
<1> QED
    BY <1>1, RegistryInvariant, PTL

\* Packets stay in the sender's cluster and cross to its other side.
THEOREM PacketsStayInCluster == Spec => []Isolation
<1>1. IInv => Isolation
    BY DEF IInv
<1> QED
    BY <1>1, RegistryInvariant, PTL

\* A frontend is deregistered only by a handler of its own name and id, or
\* with the last backend of its cluster.
THEOREM FrontendsAreKept == Spec => FrontendsStay
<1> DEFINE Left(n, i, d) ==
        hs[d].pc = "del" /\ hs[d].name = n /\
            \/ hs[d].type = "offer" /\ hs[d].id = i
            \/ /\ hs[d].type = "answer"
               /\ \A j \in Id \ {hs[d].id} : Backends[n][j] = None
<1> DEFINE Stay == \A n \in Name, i \in Id :
        (Frontends[n][i] # None /\ Frontends'[n][i] # Frontends[n][i]) =>
            \/ Frontends'[n][i] # None
            \/ \E d \in Conn : Left(n, i, d)
<1>1. IInv /\ [Next]_vars => [Stay]_vars
    <2> SUFFICES ASSUME IInv, Next, NEW n \in Name, NEW i \in Id,
                        Frontends[n][i] # None,
                        Frontends'[n][i] # Frontends[n][i]
                 PROVE  Frontends'[n][i] # None \/ \E d \in Conn : Left(n, i, d)
        BY DEF vars
    <2>1. ASSUME NEW c \in Conn, NEW m \in Name, NEW j \in Id,
                 AddFrontend(c, m, j)
          PROVE  Frontends'[n][i] # None
        BY <2>1, ServerAssumption DEF AddFrontend, IInv, TypeOK, Table
    <2>2. ASSUME NEW c \in Conn, DelBackend(c) PROVE Left(n, i, c)
        <3> DEFINE m == hs[c].name
                   left == [Backends[m] EXCEPT ![hs[c].id] = None]
        <3>1. m \in Name /\ hs[c].id \in Id
            BY <2>2 DEF DelBackend, IInv, Headers
        <3>2. left = NoClients /\ n = m
            BY <2>2, <3>1 DEF DelBackend, IInv, TypeOK, Table
        <3>3. \A j \in Id \ {hs[c].id} : left[j] = Backends[m][j]
            BY <3>1 DEF IInv, TypeOK, Table
        <3>4. \A j \in Id \ {hs[c].id} : Backends[n][j] = None
            BY <3>2, <3>3 DEF NoClients
        <3> QED
            BY <2>2, <3>2, <3>4 DEF DelBackend
    <2>3. ASSUME NEW c \in Conn, DelFrontend(c) PROVE Left(n, i, c)
        BY <2>3 DEF DelFrontend, IInv, TypeOK, Table, Headers
    <2>4. UNCHANGED Frontends => FALSE
        OBVIOUS
    <2> QED
        BY <2>1, <2>2, <2>3, <2>4 DEF Next, HandleWs, Break, Stall, WsSignalling,
            HeaderError, HeaderUnknown, AddBackend, ReadError, Forward, SendOk,
            SendError, DelNothing, Close, Goto, registry, remote
<1> QED
    BY <1>1, RegistryInvariant, PTL DEF Spec, FrontendsStay
=============================================================================
