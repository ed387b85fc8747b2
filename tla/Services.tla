------------------------------ MODULE Services ------------------------------
(***************************************************************************)
(* The puup command (cmd/main.go) running a backend or a frontend, down to *)
(* the loops of their services: Backend.Run starts the web, file, ssh and  *)
(* proxy servers (backend/), FrontEnd.Run the file client and one forward  *)
(* per port (frontend/), whose Dials share one PeersClient (Dial.tla).     *)
(* What a proxied connection does once it is copied is in Copy.            *)
(*                                                                         *)
(* AcceptSsh, AcceptFile and AcceptProxy are not defined at this commit;   *)
(* they are read as Listener.Accept, which fails once the listener is      *)
(* closed.  FileClient.ch has no sender, so that the file client only      *)
(* waits for its context.                                                  *)
(***************************************************************************)
EXTENDS Dial

VARIABLES
    mode,    \* -b or -f
    main,    \* main: in its first select, its second, or ended and why
    ctx,     \* main's context is cancelled
    waiter,  \* WebServer.Run or FileClient.Run, which wait for the context
    fwd,     \* fwd[d]: the runForward that dials as d
    loop     \* loop[s]: the accept loop of the backend's service s

procVars == <<mode, main, ctx, waiter, fwd, loop>>
vars == <<dialVars, procVars>>

BackService == {"file", "ssh", "proxy"}

FwdState == {"listen", "accept", "dial", "header", "done"}
LoopState == {"accept", "header", "serve", "done"}

TypeOK ==
    /\ DialTypeOK
    /\ mode \in {"back", "front"}
    /\ main \in {"start", "run", "wait", "exit", "failed", "panic"}
    /\ ctx \in BOOLEAN /\ waiter \in {"run", "done"}
    /\ fwd \in [Dialer -> FwdState]
    /\ loop \in [BackService -> LoopState]

Init ==
    /\ DialInit
    /\ mode \in {"back", "front"} /\ main = "start" /\ ctx = FALSE
    /\ waiter = "run"
    /\ fwd = [d \in Dialer |-> "listen"]
    /\ loop = [s \in BackService |-> "accept"]

Up == main \in {"run", "wait"} /\ ~fatal
-----------------------------------------------------------------------------
(* main.                                                                   *)

\* NewBackend or NewFrontEnd, then the goroutine that runs it; without a
\* configuration main returns.
Start ==
    /\ main = "start"
    /\ main' \in {"run", "failed"}
    /\ UNCHANGED <<dialVars, mode, ctx, waiter, fwd, loop>>

\* Backend.Run and FrontEnd.Run wait for all they have started.
BackendDone ==
    mode = "back" /\ waiter = "done" /\ \A s \in BackService : loop[s] = "done"
FrontEndDone ==
    mode = "front" /\ waiter = "done" /\ \A d \in Dialer : fwd[d] = "done"

\* wg.Wait returns, and exit is closed.
AllDone == BackendDone \/ FrontEndDone

\* The first select: an interrupt cancels the context.
Interrupt ==
    /\ main = "run"
    /\ main' = "wait" /\ ctx' = TRUE
    /\ UNCHANGED <<dialVars, mode, waiter, fwd, loop>>

\* exit, in the first select or in the second.
Exit ==
    /\ Up /\ AllDone
    /\ main' = "exit"
    /\ UNCHANGED <<dialVars, mode, ctx, waiter, fwd, loop>>

\* Mutant: main waits for its services however long they take.
NoTimeout ==
    /\ main = "wait" /\ AllDone
    /\ main' = "exit"
    /\ UNCHANGED <<dialVars, mode, ctx, waiter, fwd, loop>>

\* The second select: force quit after a second.
Timeout ==
    /\ main = "wait"
    /\ main' = "exit"
    /\ UNCHANGED <<dialVars, mode, ctx, waiter, fwd, loop>>
-----------------------------------------------------------------------------
(* The services.                                                           *)

\* <-ctx.Done().  net/http goes on serving until the process ends.
WebServerEnds ==
    /\ mode = "back" /\ waiter = "run" /\ ctx
    /\ waiter' = "done"
    /\ UNCHANGED <<dialVars, mode, main, ctx, fwd, loop>>

\* <-ctx.Done(), the only case of FileClient.Run's select that is ever ready.
FileClientEnds ==
    /\ mode = "front" /\ waiter = "run" /\ ctx
    /\ waiter' = "done"
    /\ UNCHANGED <<dialVars, mode, main, ctx, fwd, loop>>

WaiterEnds == WebServerEnds \/ FileClientEnds

SetFwd(d, pc) ==
    fwd' = [fwd EXCEPT ![d] = pc] /\ UNCHANGED <<mode, main, ctx, waiter, loop>>

\* runForward: net.Listen.
Listen(d) ==
    /\ mode = "front" /\ fwd[d] = "listen"
    /\ \E pc \in {"accept", "done"} : SetFwd(d, pc)
    /\ UNCHANGED dialVars

\* A TCP connection comes in and is dialled for; or Accept fails.
FwdAccept(d) ==
    /\ mode = "front" /\ fwd[d] = "accept"
    /\ \/ SetFwd(d, "dial") /\ Call(d)
       \/ SetFwd(d, "done") /\ UNCHANGED dialVars

FwdDial(d) == fwd[d] = "dial" /\ DialStep(d) /\ UNCHANGED procVars

\* The nil dereference in Connect, on the forward's own goroutine.
FwdPanics(d) ==
    /\ fwd[d] = "dial" /\ NilWebsocket(d)
    /\ main' = "panic"
    /\ UNCHANGED <<dialVars, mode, ctx, waiter, fwd, loop>>

\* Dial has returned: an error ends the forward, nil panics, in a goroutine
\* GoFunc does not recover for.
FwdDialled(d) ==
    /\ fwd[d] = "dial" /\ At(d, "idle")
    /\ \/ dial[d].res = "conn" /\ SetFwd(d, "header")
       \/ dial[d].res = "err" /\ SetFwd(d, "done")
       \/ /\ dial[d].res = "nil"
          /\ main' = "panic"
          /\ UNCHANGED <<mode, ctx, waiter, fwd, loop>>
    /\ UNCHANGED dialVars

\* The port is written and GoCopy started; or the write fails.
FwdHeader(d) ==
    /\ fwd[d] = "header"
    /\ \E pc \in {"accept", "done"} : SetFwd(d, pc)
    /\ UNCHANGED dialVars

SetLoop(s, pc) ==
    loop' = [loop EXCEPT ![s] = pc] /\ UNCHANGED <<mode, main, ctx, waiter, fwd>>

\* Run of the ssh, file or proxy server: a Conn, and ServeConn reads its header.
LoopAccept(s) ==
    /\ mode = "back" /\ loop[s] = "accept"
    /\ SetLoop(s, "header")
    /\ UNCHANGED dialVars

\* The listener is closed, or the header cannot be read or parsed: the loop ends.
LoopFails(s) ==
    /\ mode = "back" /\ loop[s] \in {"accept", "header"}
    /\ SetLoop(s, "done")
    /\ UNCHANGED dialVars

\* The header is good.  The ssh session or upload is served in the loop itself,
\* a proxied connection in a goroutine once the port is dialled.
LoopHeader(s) ==
    /\ loop[s] = "header"
    /\ SetLoop(s, IF s = "proxy" THEN "accept" ELSE "serve")
    /\ UNCHANGED dialVars

\* ServeConn releases the Conn.  A failed ssh session or upload is logged and the
\* loop goes on; an acknowledgement that cannot be written ends it.
LoopServed(s) ==
    /\ loop[s] = "serve"
    /\ \/ SetLoop(s, "accept")
       \/ s = "file" /\ SetLoop(s, "done")
    /\ UNCHANGED dialVars
-----------------------------------------------------------------------------
Forward(d) ==
    \/ Listen(d) \/ FwdAccept(d) \/ FwdDial(d) \/ FwdPanics(d) \/ FwdDialled(d)
    \/ FwdHeader(d)

Serve(s) == LoopAccept(s) \/ LoopFails(s) \/ LoopHeader(s) \/ LoopServed(s)

Next ==
    \/ Start
    \/ /\ Up
       /\ \/ Interrupt \/ Exit \/ Timeout \/ WaiterEnds
          \/ \E d \in Dialer : Forward(d)
          \/ \E s \in BackService : Serve(s)

Spec == Init /\ [][Next]_vars

\* The timer fires; a service that sees its context returns; a Dial goes on, as
\* sync.Mutex starves no one and Connect ends after two minutes.  Nobody need
\* connect, send a header or end a session.
FairSpec ==
    /\ Spec
    /\ WF_vars(Up /\ Timeout) /\ WF_vars(Up /\ Exit) /\ WF_vars(Up /\ WaiterEnds)
    /\ \A d \in Dialer : /\ SF_vars(Up /\ (FwdDial(d) \/ FwdPanics(d)))
                         /\ WF_vars(Up /\ (FwdDialled(d) \/ FwdHeader(d)))
-----------------------------------------------------------------------------
(* Properties.                                                             *)

\* An interrupted process ends, although no accept loop looks at the context.
InterruptExits == main = "wait" ~> (main \in {"exit", "panic"} \/ fatal)

\* A forward that has accepted a connection gets an answer of Dial, a Conn or
\* none: it dials on, holds no lock while it connects, and is not starved.
DialReturns ==
    \A d \in Dialer : fwd[d] = "dial" ~> (fwd[d] # "dial" \/ ~Up)
=============================================================================
