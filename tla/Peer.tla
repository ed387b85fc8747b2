-------------------------------- MODULE Peer --------------------------------
(***************************************************************************)
(* The life of one Peer (net/conn/peer.go): the state changes of its       *)
(* peer connection, Close, its loop, the keepalive and the command         *)
(* channel (net/conn/keepalive.go), and the Connect or Listen that waits   *)
(* for the connection (net/conn/peer-sdp.go).                              *)
(*                                                                         *)
(* pion runs the handler of every state change in a goroutine of its own,  *)
(* so handlers overlap and finish in any order; the e-th state change has  *)
(* the e-th handler.  It runs the OnMessage of one data channel for one    *)
(* message after the other.                                                *)
(***************************************************************************)
EXTENDS Integers, Sequences

CONSTANTS
    Cmds,       \* commands the remote end sends
    MaxEvents,  \* bound: state changes of the connection
    MaxCmds     \* bound: messages on the command channel

Event == 1 .. MaxEvents

\* The states OnConnectionStateChange closes the Peer in.
Down == {"failed", "disconnected", "closed"}

\* Commands; "zero" is what a message that is not JSON leaves in cmd.
Command == {"connnect", "disconnect", "EOF", "zero"}

ASSUME PeerAssumption ==
    Cmds \subseteq Command /\ MaxEvents \in Nat /\ MaxCmds \in Nat

\* Mutant: an unbuffered channel.
Unbuffered == 0

\* Capacity of Peer.connected.
ConnectedCap == 1

VARIABLES
    state,      \* the state of the peer connection
    nevents,    \* state changes so far
    h,          \* h[e]: the handler of the e-th state change
    connected,  \* tokens in Peer.connected
    waiter,     \* the WaitAnswer or PollOffer call
    closed,     \* Peer.close is closed
    pcClosed,   \* pc.Close has been called
    loop,       \* Peer.loop
    keep,       \* loopKeepalive
    keepdc,     \* the keepalive data channel: what pion has reported of it
    lcmd,       \* loopCommand: "never" if no data channels arrive at the Peer,
                \* "closed" once it has closed its channel ch
    reader,     \* OnMessage of the command channel
    cmdChan,    \* Peer.cmdChan
    ncmds,      \* messages on the command channel so far
    bad,        \* (history) how many of them were not JSON
    overlap,    \* (history) two handlers were past IsClose at once
    panic       \* the panic that ended the process, "none" while it runs

closing == <<closed, pcClosed, overlap>>
keepalive == <<keep, keepdc>>
commands == <<lcmd, reader, cmdChan, ncmds, bad>>
vars == <<state, nevents, h, connected, waiter, closing, loop, keepalive,
          commands, panic>>

\* A handler: the state it was called with and where it is.
Handler == [of : {"none", "connected"} \cup Down,
            pc : {"none", "switch", "close", "pcclose", "end"}]

TypeOK ==
    /\ state \in {"new", "connected"} \cup Down
    /\ nevents \in 0 .. MaxEvents
    /\ h \in [Event -> Handler]
    /\ connected \in 0 .. 1
    /\ waiter \in {"wait", "connected", "failed"}
    /\ closed \in BOOLEAN /\ pcClosed \in BOOLEAN /\ overlap \in BOOLEAN
    /\ loop \in {"select", "end"}
    /\ keep \in {"none", "wait", "loop", "end"}
    /\ keepdc \in {"new", "open", "closed"}
    /\ lcmd \in {"never", "none", "wait", "return", "closed"}
    /\ reader \in [pc : {"idle", "select", "push"}, cmd : Command]
    /\ cmdChan \in Seq(Command) /\ Len(cmdChan) <= 1
    /\ ncmds \in 0 .. MaxCmds /\ bad \in 0 .. MaxCmds
    /\ panic \in {"none", "CloseOfClosed", "SendOnClosed"}

\* newPeer starts the loop; NewOfferPeer also creates the keepalive channel and
\* starts its loop, and data channels arrive only at a NewAnswerPeer.
\* The handlers are registered before anything is negotiated.
Init ==
    /\ state = "new" /\ nevents = 0
    /\ h = [e \in Event |-> [of |-> "none", pc |-> "none"]]
    /\ connected = 0 /\ waiter = "wait"
    /\ closed = FALSE /\ pcClosed = FALSE /\ overlap = FALSE
    /\ loop = "select"
    /\ \/ keep = "wait" /\ lcmd = "never"
       \/ keep = "none" /\ lcmd = "none"
    /\ keepdc = "new"
    /\ cmdChan = <<>> /\ ncmds = 0 /\ bad = 0
    /\ reader = [pc |-> "idle", cmd |-> "zero"]
    /\ panic = "none"
-----------------------------------------------------------------------------
(* The peer connection (pion).                                             *)

\* The states that can follow one another.  Nobody restarts ICE: a connection
\* that failed stays so until it is closed.  pion closes or fails a connection by
\* itself too, when DTLS ends.
Follows(s) ==
    IF pcClosed THEN {"closed"} \ {s}
    ELSE CASE s = "new" -> {"connected", "failed", "closed"}
           [] s = "connected" -> {"disconnected", "failed", "closed"}
           [] s = "disconnected" -> {"connected", "failed", "closed"}
           [] s = "failed" -> {"closed"}
           [] OTHER -> {}

\* The connection has been up, so pion may report data channels and messages,
\* in goroutines of its own that can run late.
Up == \E e \in Event : h[e].of = "connected"

\* A state change starts its handler.
StateChange(s) ==
    /\ nevents < MaxEvents
    /\ s \in Follows(state)
    /\ state' = s
    /\ nevents' = nevents + 1
    /\ h' = [h EXCEPT ![nevents + 1] = [of |-> s, pc |-> "switch"]]
    /\ UNCHANGED <<connected, waiter, closing, loop, keepalive, commands,
                   panic>>
-----------------------------------------------------------------------------
(* OnConnectionStateChange and Close.                                      *)

At(e, pc) == h' = [h EXCEPT ![e].pc = pc]

\* case Connected: p.connected <- struct{}{}, which blocks while it is full.
OnConnected(e) ==
    /\ h[e].pc = "switch" /\ h[e].of = "connected"
    /\ connected < ConnectedCap
    /\ connected' = connected + 1
    /\ At(e, "end")
    /\ UNCHANGED <<state, nevents, waiter, closing, loop, keepalive, commands,
                   panic>>

\* Mutant: a disconnected peer is left alone.
CloseFailedOnly(e) ==
    /\ h[e].pc = "switch" /\ h[e].of \in Down \ {"disconnected"}
    /\ At(e, IF closed THEN "end" ELSE "close")
    /\ overlap' = (overlap \/ (~closed /\ \E f \in Event : h[f].pc = "close"))
    /\ UNCHANGED <<state, nevents, connected, waiter, closed, pcClosed, loop,
                   keepalive, commands, panic>>

\* Mutant: Close does not ask IsClose.
CloseUnchecked(e) ==
    /\ h[e].pc = "switch" /\ h[e].of \in Down
    /\ At(e, "close")
    /\ overlap' = (overlap \/ (~closed /\ \E f \in Event : h[f].pc = "close"))
    /\ UNCHANGED <<state, nevents, connected, waiter, closed, pcClosed, loop,
                   keepalive, commands, panic>>

\* case Failed, Disconnected, Closed: Close, up to IsClose.
CloseCheck(e) ==
    /\ h[e].pc = "switch" /\ h[e].of \in Down
    /\ At(e, IF closed THEN "end" ELSE "close")
    /\ overlap' = (overlap \/ (~closed /\ \E f \in Event : h[f].pc = "close"))
    /\ UNCHANGED <<state, nevents, connected, waiter, closed, pcClosed, loop,
                   keepalive, commands, panic>>

\* close(p.close) panics when another handler has closed it since IsClose.
CloseChan(e) ==
    /\ h[e].pc = "close"
    /\ IF closed THEN panic' = "CloseOfClosed" /\ UNCHANGED closed
                 ELSE closed' = TRUE /\ UNCHANGED panic
    /\ At(e, "pcclose")
    /\ UNCHANGED <<state, nevents, connected, waiter, pcClosed, overlap, loop,
                   keepalive, commands>>

ClosePc(e) ==
    /\ h[e].pc = "pcclose"
    /\ pcClosed' = TRUE
    /\ At(e, "end")
    /\ UNCHANGED <<state, nevents, connected, waiter, closed, overlap, loop,
                   keepalive, commands, panic>>

OnConnectionStateChange ==
    \E e \in Event :
        OnConnected(e) \/ CloseCheck(e) \/ CloseChan(e) \/ ClosePc(e)
-----------------------------------------------------------------------------
(* WaitAnswer and PollOffer: the select of both.  The descriptions and the  *)
(* candidates they take meanwhile are in Signalling; here they are stutters *)
(* or failures.                                                             *)

WaitConnected ==
    /\ waiter = "wait" /\ connected > 0
    /\ connected' = connected - 1
    /\ waiter' = "connected"
    /\ UNCHANGED <<state, nevents, h, closing, loop, keepalive, commands,
                   panic>>

\* SendOffer or SendAnswer failed, the two minutes are over, or a description or
\* a candidate was refused.  The Peer is not closed.
WaitFails ==
    /\ waiter = "wait"
    /\ waiter' = "failed"
    /\ UNCHANGED <<state, nevents, h, connected, closing, loop, keepalive,
                   commands, panic>>
-----------------------------------------------------------------------------
(* Peer.loop.                                                              *)

\* case cmd := <-p.cmdChan.  Commands come over a data channel of the remote
\* peer, so only an answering Peer has any, and it has no active channels (only
\* Get makes one active): OnRelease finds nothing to release.
LoopCommand ==
    /\ loop = "select" /\ cmdChan # <<>>
    /\ cmdChan' = Tail(cmdChan)
    /\ UNCHANGED <<state, nevents, h, connected, waiter, closing, loop,
                   keepalive, lcmd, reader, ncmds, bad, panic>>

LoopClose ==
    /\ loop = "select" /\ closed
    /\ loop' = "end"
    /\ UNCHANGED <<state, nevents, h, connected, waiter, closing, keepalive,
                   commands, panic>>
-----------------------------------------------------------------------------
(* loopKeepalive.  A tick sends two bytes and, if that fails, only logs: it *)
(* changes nothing here.                                                    *)

\* handleChannel: the keepalive channel arrives at the answering peer.
HandleKeepalive ==
    /\ keep = "none" /\ Up
    /\ keep' = "wait"
    /\ UNCHANGED <<state, nevents, h, connected, waiter, closing, loop, keepdc,
                   commands, panic>>

\* pion opens and closes the data channel: OnOpen, OnClose (cancel).
KeepaliveOpen ==
    /\ keep # "none" /\ keepdc = "new" /\ Up
    /\ keepdc' = "open"
    /\ UNCHANGED <<state, nevents, h, connected, waiter, closing, loop, keep,
                   commands, panic>>

KeepaliveClose ==
    /\ keepdc = "open"
    /\ keepdc' = "closed"
    /\ UNCHANGED <<state, nevents, h, connected, waiter, closing, loop, keep,
                   commands, panic>>

\* The first select: the channel has opened.
KeepaliveRuns ==
    /\ keep = "wait" /\ keepdc # "new"
    /\ keep' = "loop"
    /\ UNCHANGED <<state, nevents, h, connected, waiter, closing, loop, keepdc,
                   commands, panic>>

\* The first select: the minute is over.
KeepaliveTimeout ==
    /\ keep = "wait"
    /\ keep' = "end"
    /\ UNCHANGED <<state, nevents, h, connected, waiter, closing, loop, keepdc,
                   commands, panic>>

\* The second select: ctx.Done() or p.close.
KeepaliveEnds ==
    /\ keep = "loop" /\ (keepdc = "closed" \/ closed)
    /\ keep' = "end"
    /\ UNCHANGED <<state, nevents, h, connected, waiter, closing, loop, keepdc,
                   commands, panic>>
-----------------------------------------------------------------------------
(* loopCommand and the OnMessage it registers.                             *)

HandleCommand ==
    /\ lcmd = "none" /\ Up
    /\ lcmd' = "wait"
    /\ UNCHANGED <<state, nevents, h, connected, waiter, closing, loop,
                   keepalive, reader, cmdChan, ncmds, bad, panic>>

\* Mutant: the error is reported whether or not there is one.
OnMessageNoTest(cmd) ==
    /\ lcmd \notin {"never", "none"} /\ reader.pc = "idle" /\ ncmds < MaxCmds
    /\ ncmds' = ncmds + 1
    /\ bad' = IF cmd = "zero" THEN bad + 1 ELSE bad
    /\ reader' = [pc |-> "select", cmd |-> cmd]
    /\ UNCHANGED <<state, nevents, h, connected, waiter, closing, loop,
                   keepalive, lcmd, cmdChan, panic>>

\* A message: a command, or something that is not JSON.
OnMessage(cmd) ==
    /\ lcmd \notin {"never", "none"} /\ reader.pc = "idle" /\ ncmds < MaxCmds
    /\ ncmds' = ncmds + 1
    /\ bad' = IF cmd = "zero" THEN bad + 1 ELSE bad
    /\ reader' = [pc |-> IF cmd = "zero" THEN "select" ELSE "push",
                  cmd |-> cmd]
    /\ UNCHANGED <<state, nevents, h, connected, waiter, closing, loop,
                   keepalive, lcmd, cmdChan, panic>>

\* case ch <- err, while loopCommand waits for it.
ReportError ==
    /\ reader.pc = "select" /\ lcmd = "wait"
    /\ lcmd' = "return"
    /\ reader' = [reader EXCEPT !.pc = "push"]
    /\ UNCHANGED <<state, nevents, h, connected, waiter, closing, loop,
                   keepalive, cmdChan, ncmds, bad, panic>>

\* Mutant: loopCommand returns without closing ch.
CommandEndsOpen == lcmd = "return" /\ UNCHANGED vars

\* loopCommand returns and closes ch.
CommandEnds ==
    /\ lcmd = "return"
    /\ lcmd' = "closed"
    /\ UNCHANGED <<state, nevents, h, connected, waiter, closing, loop,
                   keepalive, reader, cmdChan, ncmds, bad, panic>>

\* With ch closed both cases of the select are ready: the receive goes on, the
\* send panics.
ReportToClosed ==
    /\ reader.pc = "select" /\ lcmd = "closed"
    /\ \/ reader' = [reader EXCEPT !.pc = "push"] /\ UNCHANGED panic
       \/ panic' = "SendOnClosed" /\ UNCHANGED reader
    /\ UNCHANGED <<state, nevents, h, connected, waiter, closing, loop,
                   keepalive, lcmd, cmdChan, ncmds, bad>>

\* p.cmdChan <- cmd, of capacity 1.
PushCommand ==
    /\ reader.pc = "push" /\ Len(cmdChan) < 1
    /\ cmdChan' = Append(cmdChan, reader.cmd)
    /\ reader' = [reader EXCEPT !.pc = "idle"]
    /\ UNCHANGED <<state, nevents, h, connected, waiter, closing, loop,
                   keepalive, lcmd, ncmds, bad, panic>>
-----------------------------------------------------------------------------
Next ==
    /\ panic = "none"
    /\ \/ \E s \in {"connected"} \cup Down : StateChange(s)
       \/ OnConnectionStateChange
       \/ WaitConnected \/ WaitFails
       \/ LoopCommand \/ LoopClose
       \/ HandleKeepalive \/ KeepaliveOpen \/ KeepaliveClose
       \/ KeepaliveRuns \/ KeepaliveTimeout \/ KeepaliveEnds
       \/ HandleCommand \/ (\E cmd \in Cmds : OnMessage(cmd))
       \/ ReportError \/ CommandEnds \/ ReportToClosed \/ PushCommand

Spec == Init /\ [][Next]_vars

\* Every goroutine that can go on does, and the keepalive's timer fires.  Events
\* of the connection and messages need not come.
Fairness ==
    /\ \A e \in Event :
           WF_vars(panic = "none" /\ (OnConnected(e) \/ CloseCheck(e)
                                      \/ CloseChan(e) \/ ClosePc(e)))
    /\ WF_vars(panic = "none" /\ LoopCommand)
    /\ WF_vars(panic = "none" /\ LoopClose)
    /\ WF_vars(panic = "none" /\ KeepaliveRuns)
    /\ WF_vars(panic = "none" /\ KeepaliveTimeout)
    /\ WF_vars(panic = "none" /\ KeepaliveEnds)
    /\ WF_vars(panic = "none" /\ CommandEnds)
    /\ WF_vars(panic = "none" /\ (ReportError \/ ReportToClosed))
    /\ WF_vars(panic = "none" /\ PushCommand)

FairSpec == Spec /\ Fairness
-----------------------------------------------------------------------------
(* Properties.                                                             *)

\* Close panics only when two handlers were between IsClose and close(p.close)
\* at once: a Close that starts after another has closed the channel returns.
ClosePanics == panic = "CloseOfClosed" => overlap

\* The handler of a state change to Connected can block on p.connected only
\* after the peer has gone down, and so is being closed: while it stays up, one
\* slot is enough even if nobody waits any more.
Stuck(e) == /\ h[e].pc = "switch" /\ h[e].of = "connected"
            /\ connected = ConnectedCap
ConnectedNeverBlocks ==
    \A e \in Event : Stuck(e) => \E f \in Event : h[f].of \in Down

\* One message that is not JSON ends loopCommand and no more; it takes a second
\* to panic.
CommandPanics == panic = "SendOnClosed" => bad >= 2

\* loop and loopKeepalive have ended (or were never started).
Ended == loop = "end" /\ keep \in {"none", "end"}

\* A connection that goes down, even if it comes back at once, ends its Peer:
\* the connection is closed and loop and loopKeepalive end for good, wherever
\* the keepalive was.
DownEndsPeer ==
    state \in Down
        ~> [](panic # "none" \/ (pcClosed /\ Ended))

\* While the Peer is open the loop takes every command, also after a message
\* that was not JSON has ended loopCommand.
CommandsServed ==
    reader.pc # "idle" ~> (reader.pc = "idle" \/ closed \/ panic # "none")
=============================================================================
