----------------------------- MODULE PeerProofs -----------------------------
(* Proofs, for any number of state changes and commands, of the safety      *)
(* properties of Peer.tla.                                                  *)
EXTENDS Peer, TLAPS

USE DEF closing, keepalive, commands

\* While no two handlers have been past IsClose at once, at most one is, and
\* none is once the channel is closed.
InvClose ==
    ~overlap => /\ \A e, f \in Event : h[e].pc = "close" /\ h[f].pc = "close"
                                           => e = f
                /\ closed => \A e \in Event : h[e].pc # "close"

\* Handlers are numbered in the order of the state changes; every change to
\* Connected but the first comes from Disconnected; a token is from a handler
\* that has ended.
InvConnected ==
    /\ state = "new" <=> nevents = 0
    /\ \A e \in Event : e = nevents => h[e].of = state
    /\ \A e \in Event : h[e].of = "none" <=> e > nevents
    /\ \A e \in Event : h[e].of = "none" => h[e].pc = "none"
    /\ \A e, f \in Event : f = e + 1 /\ h[f].of = "connected"
                               => h[e].of = "disconnected"
    /\ connected > 0 => \E e \in Event : h[e].of = "connected"
                                         /\ h[e].pc = "end"

\* loopCommand has ended only if a message was not JSON, and an OnMessage that
\* finds it ended is handling another one.
InvCommand ==
    /\ bad <= ncmds
    /\ reader.pc = "select" \/ lcmd \in {"return", "closed"} => bad >= 1
    /\ reader.pc = "select" /\ lcmd \in {"return", "closed"} => bad >= 2

IInv == /\ TypeOK /\ InvClose /\ InvConnected /\ InvCommand
        /\ ClosePanics /\ CommandPanics

\* The invariant holds at first.
LEMMA InitInv == Init => IInv
<1> SUFFICES ASSUME Init PROVE IInv
    OBVIOUS
<1>1. /\ \A e \in Event : h[e] = [of |-> "none", pc |-> "none"]
      /\ h \in [Event -> Handler]
    BY DEF Init, Handler
<1>2. reader \in [pc : {"idle", "select", "push"}, cmd : Command]
    BY DEF Init, Command
<1>3. cmdChan \in Seq(Command) /\ Len(cmdChan) <= 1
    BY DEF Init
<1>4. /\ nevents \in 0 .. MaxEvents /\ connected \in 0 .. 1
      /\ ncmds \in 0 .. MaxCmds /\ bad \in 0 .. MaxCmds
    BY PeerAssumption DEF Init
<1>7. TypeOK
    BY <1>1, <1>2, <1>3, <1>4 DEF Init, TypeOK
<1>5. InvClose /\ InvConnected
    BY <1>1 DEF Init, InvClose, InvConnected, Event
<1>6. InvCommand /\ ClosePanics /\ CommandPanics
    BY DEF Init, InvCommand, ClosePanics, CommandPanics
<1> QED
    BY <1>5, <1>6, <1>7 DEF IInv

\* A state change keeps the invariant.
LEMMA StateChangeInv ==
    ASSUME IInv, NEW s \in {"connected"} \cup Down, StateChange(s)
    PROVE  IInv'
<1>0. h \in [Event -> Handler] /\ nevents \in 0 .. MaxEvents /\ TypeOK
    BY DEF IInv, TypeOK
<1>1. /\ h \in [Event -> Handler] /\ nevents \in 0 .. MaxEvents
      /\ nevents + 1 \in Event /\ nevents' = nevents + 1 /\ state' = s
      /\ MaxEvents \in Nat /\ nevents' \in 0 .. MaxEvents
    BY <1>0, PeerAssumption DEF StateChange, Event
<1>2. PICK n \in Event : n = nevents + 1
    BY <1>1
<1>3. PICK x \in Handler : x = [of |-> s, pc |-> "switch"]
    BY DEF Handler, Down
<1>4. /\ h' = [h EXCEPT ![n] = x] /\ h' \in [Event -> Handler]
      /\ \A e \in Event : h'[e] = IF e = n THEN x ELSE h[e]
    BY <1>1, <1>2, <1>3 DEF StateChange
<1>5. s = "connected" => state \in {"new", "disconnected"}
    BY DEF StateChange, Follows, Down
<1>6. TypeOK'
    <2>1. state' \in {"new", "connected"} \cup Down
        BY <1>1
    <2>2. h' \in [Event -> Handler] /\ nevents' \in 0 .. MaxEvents
        BY <1>1, <1>4
    <2> QED
        BY <1>0, <2>1, <2>2 DEF TypeOK, StateChange
<1>7. InvClose'
    BY <1>3, <1>4 DEF IInv, InvClose, StateChange
<1>8. InvConnected'
    <2>1. h[n].of = "none" /\ h[n].pc = "none"
        BY <1>1, <1>2 DEF IInv, InvConnected
    <2>2. \A e, f \in Event : f = e + 1 /\ h'[f].of = "connected"
                                  => h'[e].of = "disconnected"
        <3> SUFFICES ASSUME NEW e \in Event, NEW f \in Event, f = e + 1,
                            h'[f].of = "connected"
                     PROVE  h'[e].of = "disconnected"
            OBVIOUS
        <3>1. CASE f = n
            <4>1. e = nevents /\ e # n /\ s = "connected" /\ nevents # 0
                BY <1>1, <1>2, <1>3, <1>4, <3>1 DEF Event
            <4> QED
                BY <1>4, <1>5, <4>1 DEF IInv, InvConnected
        <3>2. CASE f # n
            <4>1. h[f].of = "connected" /\ f <= nevents /\ e # n
                BY <1>1, <1>2, <1>4, <3>2 DEF IInv, InvConnected, Event
            <4> QED
                BY <1>4, <4>1 DEF IInv, InvConnected
        <3> QED
            BY <3>1, <3>2
    <2>3. connected' > 0 => \E e \in Event : h'[e].of = "connected"
                                             /\ h'[e].pc = "end"
        BY <1>4, <2>1 DEF IInv, InvConnected, StateChange
    <2>4. /\ \A e \in Event : e = nevents' => h'[e].of = state'
          /\ \A e \in Event : h'[e].of = "none" <=> e > nevents'
          /\ \A e \in Event : h'[e].of = "none" => h'[e].pc = "none"
        BY <1>1, <1>2, <1>3, <1>4 DEF IInv, InvConnected, Down, Event
    <2>5. state' # "new" /\ nevents' # 0
        BY <1>1 DEF Down
    <2> QED
        BY <2>2, <2>3, <2>4, <2>5 DEF InvConnected
<1>9. InvCommand' /\ ClosePanics' /\ CommandPanics'
    BY DEF IInv, InvCommand, ClosePanics, CommandPanics, StateChange
<1> QED
    BY <1>6, <1>7, <1>8, <1>9 DEF IInv

\* A step of a handler that leaves its state change alone keeps InvConnected,
\* if it adds a token only when it ends.
LEMMA HandlerConnected ==
    ASSUME IInv, NEW e \in Event, NEW pc \in {"close", "pcclose", "end"},
           h[e].pc \in {"switch", "close", "pcclose"}, At(e, pc),
           UNCHANGED <<state, nevents>>,
           \/ connected' = connected
           \/ h[e].of = "connected" /\ pc = "end"
    PROVE  InvConnected' /\ h' \in [Event -> Handler]
<1>1. h \in [Event -> Handler]
    BY DEF IInv, TypeOK
<1>2. PICK x \in Handler : x = [h[e] EXCEPT !.pc = pc]
    BY <1>1 DEF Handler
<1>3. /\ h' \in [Event -> Handler]
      /\ \A f \in Event : h'[f] = IF f = e THEN x ELSE h[f]
    BY <1>1, <1>2 DEF At
<1>4. x.of = h[e].of /\ x.pc = pc
    BY <1>1, <1>2 DEF Handler
<1>5. \A f \in Event : h'[f].of = h[f].of
    BY <1>3, <1>4
<1>6. \A f \in Event : h[f].pc = "end" => h'[f].pc = "end"
    BY <1>3
<1>7. connected' > 0 => \E f \in Event : h'[f].of = "connected"
                                         /\ h'[f].pc = "end"
    <2>1. CASE connected' = connected
        BY <2>1, <1>5, <1>6 DEF IInv, InvConnected
    <2>2. CASE h[e].of = "connected" /\ pc = "end"
        BY <2>2, <1>3, <1>4
    <2> QED
        BY <2>1, <2>2
<1>8. h[e].of # "none"
    BY DEF IInv, InvConnected
<1>9. \A f \in Event : h'[f].of = "none" => h'[f].pc = "none"
    BY <1>3, <1>5, <1>8 DEF IInv, InvConnected
<1> QED
    BY <1>3, <1>5, <1>7, <1>9 DEF IInv, InvConnected

\* The handlers keep the invariant.
LEMMA HandlerInv ==
    ASSUME IInv, panic = "none", NEW e \in Event,
           OnConnected(e) \/ CloseCheck(e) \/ CloseChan(e) \/ ClosePc(e)
    PROVE  IInv'
<1>0. h \in [Event -> Handler] /\ TypeOK
    BY DEF IInv, TypeOK
<1>1. CASE OnConnected(e)
    <2>1. InvConnected' /\ h' \in [Event -> Handler]
        BY <1>1, HandlerConnected DEF OnConnected
    <2>2. connected' \in 0 .. 1
        BY <1>0, <1>1 DEF OnConnected, TypeOK, ConnectedCap
    <2>3. TypeOK'
        BY <1>0, <1>1, <2>1, <2>2 DEF OnConnected, TypeOK
    <2>4. \A f \in Event : h'[f].pc = "close" => h[f].pc = "close"
        BY <1>0, <1>1 DEF OnConnected, At, Handler
    <2>5. InvClose'
        BY <1>1, <2>4 DEF IInv, InvClose, OnConnected
    <2>6. InvCommand' /\ ClosePanics' /\ CommandPanics'
        BY <1>1 DEF IInv, InvCommand, ClosePanics, CommandPanics, OnConnected
    <2> QED
        BY <2>1, <2>3, <2>5, <2>6 DEF IInv
<1>2. CASE CloseCheck(e)
    <2>1. InvConnected' /\ h' \in [Event -> Handler]
        BY <1>2, HandlerConnected DEF CloseCheck
    <2>2. overlap' \in BOOLEAN
        BY <1>2 DEF CloseCheck
    <2>3. TypeOK'
        BY <1>0, <1>2, <2>1, <2>2 DEF CloseCheck, TypeOK
    <2>4. /\ \A f \in Event : f # e => h'[f].pc = h[f].pc
          /\ h'[e].pc = IF closed THEN "end" ELSE "close"
        BY <1>0, <1>2 DEF CloseCheck, At, Handler
    <2>5. InvClose'
        <3>1. CASE closed
            <4>1. \A f \in Event : h'[f].pc = "close" => h[f].pc = "close"
                BY <2>4, <3>1
            <4>2. overlap' = overlap /\ closed' = closed
                BY <1>0, <1>2, <3>1 DEF CloseCheck, TypeOK
            <4> QED
                BY <4>1, <4>2 DEF IInv, InvClose
        <3>2. CASE ~closed
            <4>1. SUFFICES ASSUME ~overlap' PROVE InvClose'
                BY DEF InvClose
            <4>2. \A f \in Event : h[f].pc # "close"
                BY <1>2, <3>2, <4>1 DEF CloseCheck
            <4>3. \A f \in Event : h'[f].pc = "close" => f = e
                BY <2>4, <4>2
            <4>4. ~closed'
                BY <1>2, <3>2 DEF CloseCheck
            <4> QED
                BY <4>3, <4>4 DEF InvClose
        <3> QED
            BY <3>1, <3>2
    <2>6. InvCommand' /\ ClosePanics' /\ CommandPanics'
        BY <1>2 DEF IInv, InvCommand, ClosePanics, CommandPanics, CloseCheck
    <2> QED
        BY <2>1, <2>3, <2>5, <2>6 DEF IInv
<1>3. CASE CloseChan(e)
    <2>1. InvConnected' /\ h' \in [Event -> Handler]
        BY <1>3, HandlerConnected DEF CloseChan
    <2>2. closed' \in BOOLEAN /\ panic' \in {"none", "CloseOfClosed"}
        BY <1>0, <1>3 DEF CloseChan, TypeOK
    <2>3. TypeOK'
        BY <1>0, <1>3, <2>1, <2>2 DEF CloseChan, TypeOK
    <2>4. /\ \A f \in Event : f # e => h'[f].pc = h[f].pc
          /\ h'[e].pc = "pcclose" /\ h[e].pc = "close"
        BY <1>0, <1>3 DEF CloseChan, At, Handler
    <2>5. overlap' = overlap
        BY <1>3 DEF CloseChan
    <2>6. InvClose'
        <3>1. SUFFICES ASSUME ~overlap PROVE \A f \in Event : h'[f].pc # "close"
            BY <2>5 DEF InvClose
        <3>2. \A f \in Event : h[f].pc = "close" => f = e
            BY <2>4, <3>1 DEF IInv, InvClose
        <3> QED
            BY <2>4, <3>2
    <2>7. ClosePanics'
        <3>1. closed => overlap
            BY <2>4 DEF IInv, InvClose
        <3> QED
            BY <1>3, <2>5, <3>1 DEF CloseChan, ClosePanics
    <2>8. InvCommand' /\ CommandPanics'
        BY <1>3, <2>2 DEF IInv, InvCommand, CommandPanics, CloseChan
    <2> QED
        BY <2>1, <2>3, <2>6, <2>7, <2>8 DEF IInv
<1>4. CASE ClosePc(e)
    <2>1. InvConnected' /\ h' \in [Event -> Handler]
        BY <1>4, HandlerConnected DEF ClosePc
    <2>2. TypeOK'
        BY <1>0, <1>4, <2>1 DEF ClosePc, TypeOK
    <2>3. \A f \in Event : h'[f].pc = "close" => h[f].pc = "close"
        BY <1>0, <1>4 DEF ClosePc, At, Handler
    <2>4. InvClose'
        BY <1>4, <2>3 DEF IInv, InvClose, ClosePc
    <2>5. InvCommand' /\ ClosePanics' /\ CommandPanics'
        BY <1>4 DEF IInv, InvCommand, ClosePanics, CommandPanics, ClosePc
    <2> QED
        BY <2>1, <2>2, <2>4, <2>5 DEF IInv
<1> QED
    BY <1>1, <1>2, <1>3, <1>4

\* The waiter, the loop and the keepalive keep the invariant.
LEMMA LoopsInv ==
    ASSUME IInv,
           \/ WaitConnected \/ WaitFails \/ LoopCommand \/ LoopClose
           \/ HandleKeepalive \/ KeepaliveOpen \/ KeepaliveClose
           \/ KeepaliveRuns \/ KeepaliveTimeout \/ KeepaliveEnds
    PROVE  IInv'
<1> USE DEF WaitConnected, WaitFails, LoopCommand, LoopClose, HandleKeepalive,
        KeepaliveOpen, KeepaliveClose, KeepaliveRuns, KeepaliveTimeout,
        KeepaliveEnds
<1>0. TypeOK
    BY DEF IInv
<1>1. UNCHANGED <<state, nevents, h, closed, pcClosed, overlap, lcmd, reader,
                  ncmds, bad, panic>>
    OBVIOUS
<1>2. /\ connected' \in 0 .. 1
      /\ waiter' \in {"wait", "connected", "failed"}
    BY <1>0 DEF TypeOK
<1>3. /\ loop' \in {"select", "end"}
      /\ keep' \in {"none", "wait", "loop", "end"}
      /\ keepdc' \in {"new", "open", "closed"}
    BY <1>0 DEF TypeOK
<1>4. cmdChan' \in Seq(Command) /\ Len(cmdChan') <= 1
    <2>1. cmdChan' = cmdChan \/ (cmdChan # <<>> /\ cmdChan' = Tail(cmdChan))
        OBVIOUS
    <2>2. cmdChan \in Seq(Command) /\ Len(cmdChan) <= 1
        BY <1>0 DEF TypeOK
    <2> QED
        BY <2>1, <2>2
<1>5. TypeOK'
    BY <1>0, <1>1, <1>2, <1>3, <1>4 DEF TypeOK
<1>6. connected' > 0 => connected > 0
    BY <1>0 DEF TypeOK
<1>7. InvConnected'
    BY <1>1, <1>6 DEF IInv, InvConnected
<1>8. InvClose' /\ InvCommand' /\ ClosePanics' /\ CommandPanics'
    BY <1>1 DEF IInv, InvClose, InvCommand, ClosePanics, CommandPanics
<1> QED
    BY <1>5, <1>7, <1>8 DEF IInv

\* loopCommand and its OnMessage keep the invariant.
LEMMA CommandInv ==
    ASSUME IInv, panic = "none",
           \/ HandleCommand \/ (\E cmd \in Command : OnMessage(cmd))
           \/ ReportError \/ CommandEnds \/ ReportToClosed \/ PushCommand
    PROVE  IInv'
<1> USE DEF HandleCommand, OnMessage, ReportError, CommandEnds, ReportToClosed,
        PushCommand
<1>0. /\ TypeOK /\ InvCommand /\ MaxCmds \in Nat
      /\ reader.pc \in {"idle", "select", "push"} /\ reader.cmd \in Command
    BY PeerAssumption DEF IInv, TypeOK
<1>1. UNCHANGED <<state, nevents, h, connected, waiter, closed, pcClosed,
                  overlap, loop, keep, keepdc>>
    OBVIOUS
<1>2. InvClose' /\ InvConnected'
    BY <1>1 DEF IInv, InvClose, InvConnected
<1>3. panic' \in {"none", "SendOnClosed"}
    OBVIOUS
<1>4. lcmd' \in {"never", "none", "wait", "return", "closed"}
    BY <1>0 DEF TypeOK
<1>5. reader' \in [pc : {"idle", "select", "push"}, cmd : Command]
    BY <1>0 DEF TypeOK
<1>6. cmdChan' \in Seq(Command) /\ Len(cmdChan') <= 1
    <2>1. \/ cmdChan' = cmdChan
          \/ Len(cmdChan) < 1 /\ cmdChan' = Append(cmdChan, reader.cmd)
        OBVIOUS
    <2>2. cmdChan \in Seq(Command) /\ Len(cmdChan) <= 1
        BY <1>0 DEF TypeOK
    <2> QED
        BY <1>0, <2>1, <2>2
<1>7. /\ bad \in Nat /\ ncmds \in 0 .. MaxCmds /\ bad <= ncmds
      /\ bad' \in Nat /\ ncmds' \in 0 .. MaxCmds /\ bad' <= ncmds'
      /\ bad' >= bad
    <2>1. bad \in Nat /\ ncmds \in 0 .. MaxCmds /\ bad <= ncmds
        BY <1>0 DEF TypeOK, InvCommand
    <2>2. \/ bad' = bad /\ ncmds' = ncmds
          \/ /\ ncmds < MaxCmds /\ ncmds' = ncmds + 1
             /\ bad' = bad \/ bad' = bad + 1
        OBVIOUS
    <2> QED
        BY <1>0, <2>1, <2>2
<1>8. TypeOK'
    BY <1>0, <1>1, <1>3, <1>4, <1>5, <1>6, <1>7 DEF TypeOK
<1>9. InvCommand'
    <2>1. reader'.pc = "select"
              => \/ bad' = bad /\ reader.pc = "select" /\ lcmd' = lcmd
                 \/ bad' = bad /\ reader.pc = "select" /\ lcmd = "return"
                 \/ bad' = bad /\ reader.pc = "select" /\ lcmd' = "wait"
                 \/ bad' = bad + 1 /\ lcmd' = lcmd
        BY <1>0 DEF TypeOK
    <2>2. lcmd' \in {"return", "closed"}
              => lcmd \in {"return", "closed"} \/ reader.pc = "select"
        BY <1>0 DEF TypeOK
    <2> QED
        BY <1>0, <1>7, <2>1, <2>2 DEF InvCommand
<1>10. ClosePanics' /\ CommandPanics'
    <2>1. panic' = "SendOnClosed" => reader.pc = "select" /\ lcmd = "closed"
        OBVIOUS
    <2> QED
        BY <1>0, <1>3, <1>7, <2>1 DEF ClosePanics, CommandPanics, InvCommand
<1> QED
    BY <1>2, <1>8, <1>9, <1>10 DEF IInv

\* Every step keeps the invariant.
LEMMA StepInv == IInv /\ [Next]_vars => IInv'
<1> SUFFICES ASSUME IInv, [Next]_vars PROVE IInv'
    OBVIOUS
<1>1. CASE Next
    BY <1>1, StateChangeInv, HandlerInv, LoopsInv, CommandInv, PeerAssumption
    DEF Next, OnConnectionStateChange
<1>2. CASE UNCHANGED vars
    BY <1>2 DEF vars, IInv, TypeOK, InvClose, InvConnected, InvCommand,
        ClosePanics, CommandPanics
<1> QED
    BY <1>1, <1>2

\* The Peer keeps its types, and the handlers, the tokens and the command
\* channel keep the order the three properties below rest on.
THEOREM PeerInvariant == Spec => []IInv
    BY InitInv, StepInv, PTL DEF Spec

\* Close panics only if two handlers were past IsClose at once.
THEOREM CloseIsGuarded == Spec => []ClosePanics
<1>1. IInv => ClosePanics
    BY DEF IInv
<1> QED
    BY <1>1, PeerInvariant, PTL

\* It takes two messages that are not JSON to make OnMessage panic.
THEOREM OneBadCommandIsSafe == Spec => []CommandPanics
<1>1. IInv => CommandPanics
    BY DEF IInv
<1> QED
    BY <1>1, PeerInvariant, PTL

\* A Connected handler blocks only after the connection has been down: the
\* handler that filled p.connected is another one, and between two changes to
\* Connected lies one to Disconnected.
THEOREM ConnectedIsNotBlocked == Spec => []ConnectedNeverBlocks
<1>1. ASSUME IInv, NEW e \in Event, Stuck(e)
      PROVE  \E f \in Event : h[f].of \in Down
    <2>1. connected > 0
        BY <1>1 DEF Stuck, ConnectedCap
    <2>2. PICK g \in Event : h[g].of = "connected" /\ h[g].pc = "end"
        BY <1>1, <2>1 DEF IInv, InvConnected
    <2>3. g # e /\ h[e].of = "connected"
        BY <1>1, <2>2 DEF Stuck
    <2>4. PICK b \in Event : b > 1 /\ h[b].of = "connected"
        BY <2>2, <2>3 DEF Event
    <2>5. b - 1 \in Event /\ b = (b - 1) + 1
        BY <2>4, PeerAssumption DEF Event
    <2>6. h[b - 1].of = "disconnected"
        BY <1>1, <2>4, <2>5 DEF IInv, InvConnected
    <2> QED
        BY <2>5, <2>6 DEF Down
<1>2. IInv => ConnectedNeverBlocks
    BY <1>1 DEF ConnectedNeverBlocks
<1> QED
    BY <1>2, PeerInvariant, PTL
=============================================================================
