-------------------------------- MODULE Copy --------------------------------
(***************************************************************************)
(* A proxy, the backend's (backend/proxy.go) or the frontend's             *)
(* (frontend/proxy.go): one accept loop, and for each connection a GoCopy  *)
(* (net/conn/go.go) between the TCP connection lconn (src) and the Conn    *)
(* over a data channel rconn (dst).  The backend accepts rconn, reads the  *)
(* port from it and dials lconn; the frontend accepts lconn, dials rconn   *)
(* and writes the port to it.                                              *)
(*                                                                         *)
(* GoCopy runs two copiers, "up" from lconn to rconn and "down" from rconn *)
(* to lconn.  io.Copy returns nil at the end of its input, so a copier     *)
(* reports only failures, on ch; GoCopy waits for the first report and     *)
(* then closes both connections.  Of what is copied only the number of     *)
(* batches of a Write matters, which Channel.Write sends one by one.       *)
(***************************************************************************)
EXTENDS Integers

CONSTANTS
    MaxConns,   \* bound: connections the proxy accepts
    MaxWrite    \* batches of io.Copy's buffer (32 KB in batches of 4096: 8)

ASSUME CopyAssumption == MaxConns \in Nat /\ MaxWrite \in Nat \ {0}

Id == 1 .. MaxConns

\* Mutant: an unbuffered channel.
NoBuffer == 0

\* Capacity of GoCopy's ch.
ErrCap == 1

VARIABLES
    side,   \* "back": backend.ProxyServer, "front": frontend.ProxyClient
    run,    \* Run or runForward: accepting, busy with one connection, returned,
            \* or ended with the whole process by a panic
    nconns, \* connections accepted so far; the k-th is c[k]
    c       \* c[k]: ServeConn and GoCopy of the k-th connection

vars == <<side, run, nconns, c>>

\* A copier reads, has met the end of its input, has failed and is about to
\* report, or has reported.  Up also is about to write what it has read, or in
\* Channel.Write; down may read the session that follows its own.
Copier == {"none", "run", "eof", "fail", "reported"}

\* pc: where the proxy is with the connection, then GoCopy and the defers that
\* follow it.  lconn: an error of the connection, closed here.  rconn: data
\* channel closed (dead), Conn released, Conn closed.  left: batches read from
\* lconn and not sent.  late: (history) batches sent after the session was
\* released, as far as they matter.
Serve ==
    [pc : {"none", "header", "dial", "refused", "wait", "closeSrc", "closeDst",
           "done"},
     up : Copier \cup {"write", "send"}, left : 0 .. MaxWrite,
     late : 0 .. MaxWrite + 1,
     down : Copier \cup {"stale"}, ch : 0 .. 1,
     lerr : BOOLEAN, lclosed : BOOLEAN,
     dead : BOOLEAN, released : BOOLEAN, rclosed : BOOLEAN]

NewServe ==
    [pc |-> "none", up |-> "none", left |-> 0, late |-> 0,
     down |-> "none", ch |-> 0,
     lerr |-> FALSE, lclosed |-> FALSE,
     dead |-> FALSE, released |-> FALSE, rclosed |-> FALSE]

TypeOK ==
    /\ side \in {"back", "front"}
    /\ run \in {"accept", "serve", "returned", "panic"}
    /\ nconns \in 0 .. MaxConns
    /\ c \in [Id -> Serve]

Init ==
    /\ side \in {"back", "front"} /\ run = "accept" /\ nconns = 0
    /\ c = [k \in Id |-> NewServe]
-----------------------------------------------------------------------------
(* Run and ServeConn of the backend, runForward of the frontend.           *)

Busy(pc) == run = "serve" /\ c[nconns].pc = pc

\* Accept returns the next Conn, or the next TCP connection.
Accept ==
    /\ run = "accept" /\ nconns < MaxConns
    /\ run' = "serve"
    /\ nconns' = nconns + 1
    /\ c' = [c EXCEPT ![nconns + 1].pc = IF side = "back" THEN "header"
                                                          ELSE "dial"]
    /\ UNCHANGED side

\* Backend: two bytes, and not port 0.  Frontend: Dial over the peers.
FirstStep ==
    /\ Busy(IF side = "back" THEN "header" ELSE "dial")
    /\ c' = [c EXCEPT ![nconns].pc = IF side = "back" THEN "dial" ELSE "header"]
    /\ UNCHANGED <<side, run, nconns>>

\* Dial has no peer: it returns nil and no error, and the call of RemoteAddr on
\* nil panics in a goroutine that does not recover.
DialNil ==
    /\ side = "front" /\ Busy("dial")
    /\ run' = "panic"
    /\ UNCHANGED <<side, nconns, c>>

\* A bad header, a failed Dial or a failed Write of the header ends the accept
\* loop.  The connection at fault is neither released nor closed.
Refuse ==
    /\ Busy("header") \/ Busy("dial")
    /\ c' = [c EXCEPT ![nconns].pc = "refused"]
    /\ run' = "returned"
    /\ UNCHANGED <<side, nconns>>

\* lconn is dialled, or the header is written, and GoCopy starts in a goroutine.
StartCopy ==
    /\ Busy(IF side = "back" THEN "dial" ELSE "header")
    /\ c' = [c EXCEPT ![nconns].pc = "wait", ![nconns].up = "run",
                      ![nconns].down = "run"]
    /\ run' = "accept"
    /\ UNCHANGED <<side, nconns>>
-----------------------------------------------------------------------------
(* The connections: what their remote ends and the network do.  Of a TCP   *)
(* connection closed here, or failed, nothing more is seen.                *)

Connected(k) == c[k].pc \notin {"none", "header", "dial", "refused"}

Change(k, r) == c' = [c EXCEPT ![k] = r] /\ UNCHANGED <<side, run, nconns>>

LocalError(k) ==
    /\ Connected(k) /\ ~c[k].lerr /\ ~c[k].lclosed
    /\ Change(k, [c[k] EXCEPT !.lerr = TRUE])

ChannelCloses(k) ==
    /\ Connected(k) /\ ~c[k].dead
    /\ Change(k, [c[k] EXCEPT !.dead = TRUE])
-----------------------------------------------------------------------------
(* GoCopy's copiers.                                                       *)

\* Mutant: a copier reports nil at the end of its input.
UpEOFReports(k) ==
    /\ c[k].up = "run" /\ ~c[k].lclosed
    /\ Change(k, [c[k] EXCEPT !.up = "fail"])

\* The remote end of lconn has closed its half: io.Copy(rconn, lconn) returns nil.
UpEOF(k) ==
    /\ c[k].up = "run" /\ ~c[k].lclosed
    /\ Change(k, [c[k] EXCEPT !.up = "eof"])

\* Reading lconn fails.
UpReadFails(k) ==
    /\ c[k].up = "run" /\ (c[k].lerr \/ c[k].lclosed)
    /\ Change(k, [c[k] EXCEPT !.up = "fail"])

\* A Read of lconn returns data for n batches, after an error of the connection
\* what had been received before it.
UpRead(k, n) ==
    /\ c[k].up = "run" /\ ~c[k].lclosed
    /\ Change(k, [c[k] EXCEPT !.up = "write", !.left = n])

\* Conn.Write fails on a closed Conn, and is not stopped by a later Close.
UpWrite(k) ==
    /\ c[k].up = "write"
    /\ Change(k, [c[k] EXCEPT !.up = IF c[k].rclosed THEN "fail" ELSE "send"])

\* Channel.Write sends the next batch, whoever has the channel by now.
UpSend(k) ==
    /\ c[k].up = "send" /\ ~c[k].dead
    /\ Change(k, [c[k] EXCEPT
                    !.up = IF c[k].left = 1 THEN "run" ELSE "send",
                    !.left = @ - 1,
                    !.late = IF c[k].released /\ @ <= MaxWrite THEN @ + 1
                                                               ELSE @])

\* Mutant: a data channel that closes between two batches is no error.
UpSendStops(k) ==
    /\ c[k].up = "send" /\ c[k].dead
    /\ Change(k, [c[k] EXCEPT !.up = "run"])

\* The data channel has closed: Channel.Write fails, with 0 for what it has
\* sent, or Send fails, with the batch counted.
UpSendFails(k) ==
    /\ c[k].up = "send" /\ c[k].dead
    /\ Change(k, [c[k] EXCEPT !.up = "fail"])

\* io.Copy(lconn, rconn) returns nil after a Release.
DownEOF(k) ==
    /\ c[k].down = "run" /\ c[k].released
    /\ Change(k, [c[k] EXCEPT !.down = "eof"])

\* Down was between two Reads at the Release, and a message has started the next
\* session before it reads again: its Read is one of that session, and ends like
\* the others of it.
DownStale(k) ==
    /\ c[k].down = "run" /\ c[k].released /\ ~c[k].dead
    /\ Change(k, [c[k] EXCEPT !.down = "stale"])

DownStaleEOF(k) ==
    /\ c[k].down = "stale"
    /\ Change(k, [c[k] EXCEPT !.down = "eof"])

\* A closed data channel ends a Read that starts after it, but not one that is
\* already waiting for data.
DownDead(k) ==
    /\ c[k].down = "run" /\ c[k].dead
    /\ Change(k, [c[k] EXCEPT !.down = "eof"])

\* Writing lconn fails, when there is something to write.
DownWriteFails(k) ==
    /\ c[k].down \in {"run", "stale"} /\ (c[k].lerr \/ c[k].lclosed)
    /\ Change(k, [c[k] EXCEPT !.down = "fail"])

\* Mutant: the report is dropped when nobody waits for it.
SendErrOrDrop(k, d) ==
    /\ c[k][d] = "fail"
    /\ Change(k, [c[k] EXCEPT ![d] = "reported"])

\* ch <- err: to GoCopy if it waits, else into the buffer.
SendErr(k, d) ==
    /\ c[k][d] = "fail"
    /\ \/ /\ c[k].pc = "wait" /\ c[k].ch = 0
          /\ Change(k, [c[k] EXCEPT ![d] = "reported", !.pc = "closeSrc"])
       \/ /\ c[k].ch < ErrCap
          /\ Change(k, [c[k] EXCEPT ![d] = "reported", !.ch = @ + 1])
-----------------------------------------------------------------------------
(* GoCopy itself.                                                          *)

\* err := <-ch
Receive(k) ==
    /\ c[k].pc = "wait" /\ c[k].ch > 0
    /\ Change(k, [c[k] EXCEPT !.pc = "closeSrc", !.ch = @ - 1])

\* Deferred: src.Close()
CloseSrc(k) ==
    /\ c[k].pc = "closeSrc"
    /\ Change(k, [c[k] EXCEPT !.pc = "closeDst", !.lclosed = TRUE])

\* Deferred: dst.Close(), which is Release and then close(c.close).  The Release
\* that ServeConn defers then returns at once.
CloseDst(k) ==
    /\ c[k].pc = "closeDst"
    /\ \/ /\ ~c[k].released
          /\ Change(k, [c[k] EXCEPT !.released = TRUE])
       \/ /\ c[k].released
          /\ Change(k, [c[k] EXCEPT !.pc = "done", !.rclosed = TRUE])
-----------------------------------------------------------------------------
Write(k) == UpWrite(k) \/ UpSend(k) \/ UpSendFails(k)
Up(k) ==
    \/ UpEOF(k) \/ UpReadFails(k) \/ (\E n \in 1 .. MaxWrite : UpRead(k, n))
    \/ Write(k) \/ SendErr(k, "up")
Down(k) ==
    \/ DownEOF(k) \/ DownDead(k) \/ DownStale(k) \/ DownStaleEOF(k)
    \/ DownWriteFails(k) \/ SendErr(k, "down")

\* Mutant: dst is closed before src.
GoCopySwapped(k) ==
    \/ Receive(k)
    \/ /\ c[k].pc = "closeSrc"
       /\ Change(k, [c[k] EXCEPT !.pc = "closeDst", !.released = TRUE])
    \/ /\ c[k].pc = "closeDst"
       /\ Change(k, [c[k] EXCEPT !.pc = "done", !.rclosed = TRUE,
                                 !.lclosed = TRUE])

GoCopy(k) == Receive(k) \/ CloseSrc(k) \/ CloseDst(k)

Next ==
    /\ run # "panic"
    /\ \/ Accept \/ FirstStep \/ DialNil \/ Refuse \/ StartCopy
       \/ \E k \in Id :
              \/ LocalError(k) \/ ChannelCloses(k)
              \/ Up(k) \/ Down(k) \/ GoCopy(k)

Spec == Init /\ [][Next]_vars

\* The goroutines of GoCopy take the steps they can; the other end of lconn need
\* not close its half, a write that would fail is attempted only if there is
\* something to write, a Read may have started before its data channel closed,
\* and the next session may stay silent for ever.
Running(A) == run # "panic" /\ A

Fairness ==
    \A k \in Id :
        /\ WF_vars(Running(UpReadFails(k)))
        /\ WF_vars(Running(Write(k)))
        /\ WF_vars(Running(SendErr(k, "up")))
        /\ WF_vars(Running(DownEOF(k)))
        /\ WF_vars(Running(SendErr(k, "down")))
        /\ WF_vars(Running(GoCopy(k)))

FairSpec == Spec /\ Fairness
-----------------------------------------------------------------------------
(* Properties.                                                             *)

\* The end of one direction does not cut the other: GoCopy closes a connection
\* or releases the session only once the TCP connection has failed or the data
\* channel has closed, so a client that has sent its request and closed its half
\* still gets the answer.
HalfCloseSafe ==
    \A k \in Id : c[k].lclosed \/ c[k].released => c[k].lerr \/ c[k].dead

\* GoCopy waits for a report that never comes only when both directions have
\* ended without an error; no failure is lost between a copier and GoCopy.
Stranded(k) == /\ c[k].pc = "wait" /\ c[k].ch = 0
               /\ {c[k].up, c[k].down} \subseteq {"eof", "reported"}
StrandedByEOFOnly ==
    \A k \in Id : Stranded(k) => c[k].up = "eof" /\ c[k].down = "eof"

\* Bytes of another client's session never reach this TCP connection: a copier
\* that gets into the next session of its data channel finds lconn closed, as
\* GoCopy closes src before dst.
NoCrossTalk == \A k \in Id : c[k].down = "stale" => c[k].lclosed

\* One failure ends it all: GoCopy returns, the session is released, and the
\* other copier ends too, whether it meets an error of its own or not, although
\* nobody receives its report any more; unless it has got into the next session,
\* in which it waits as long as that is silent, or the process dies.
FailureEndsBoth ==
    \A k \in Id :
        "fail" \in {c[k].up, c[k].down}
            ~> \/ run = "panic"
               \/ /\ c[k].pc = "done" /\ c[k].released
                  /\ {c[k].up, c[k].down} \subseteq {"eof", "reported", "stale"}

\* Bytes that go out on the data channel after its session was released, into
\* whatever session comes next, are those of one Write at most, the one that was
\* past the test of c.close: GoCopy closes src before it releases dst, so that up
\* reads nothing more.
LateWriteBounded == \A k \in Id : c[k].late <= MaxWrite

\* io.Copy never ends as if all had been sent when it read more than it sent:
\* whatever Channel.Write drops, between two batches too, becomes a failure.
LossReported ==
    \A k \in Id :
        c[k].left > 0 => c[k].up \in {"write", "send", "fail", "reported"}
=============================================================================
