----------------------------- MODULE CopyProofs -----------------------------
(* Proofs, for any number of connections, that GoCopy closes nothing before *)
(* something has failed and that it loses no failure (Copy.tla).            *)
EXTENDS Copy, TLAPS

\* What up still holds of a Read, and what it has sent after the release: up reads
\* no more once lconn is closed, so the two together are one Read's at most.
Counted(r) ==
    /\ r.up \in {"write", "send"} => r.left # 0
    /\ r.left # 0 => r.up \in {"write", "send", "fail", "reported"}
    /\ ~r.released => r.late = 0
    /\ r.released => r.late + r.left <= MaxWrite

\* What holds of one connection's record.  Whatever follows a failure (a copier
\* past it, a report, GoCopy on its way out) has a failed connection as its
\* cause; the closed connections tell how far GoCopy is; a report made while
\* GoCopy waits is in ch; lconn is closed before the session is released, and
\* only a released session has a successor.
Sound(r) ==
    /\ (\/ r.ch # 0 \/ r.pc \in {"closeSrc", "closeDst", "done"}
        \/ r.up \in {"fail", "reported"} \/ r.down \in {"fail", "reported"})
           => r.lerr \/ r.dead
    /\ r.lclosed \/ r.released \/ r.rclosed => r.pc \in {"closeDst", "done"}
    /\ r.pc = "wait" /\ (r.up = "reported" \/ r.down = "reported") => r.ch # 0
    /\ r.pc \in {"none", "header", "dial", "refused"}
           => r.ch = 0 /\ r.up = "none" /\ r.down = "none"
    /\ r.released \/ r.pc \in {"closeDst", "done"} => r.lclosed
    /\ r.down = "stale" => r.released
    /\ Counted(r)

\* The inductive invariant; connections not yet accepted are untouched.
IInv ==
    /\ TypeOK
    /\ \A k \in Id : Sound(c[k])
    /\ \A k \in Id : k > nconns => c[k].pc = "none"
    /\ run = "serve" => nconns > 0

\* The starting record is sound.
LEMMA InitInv == Init => IInv
    BY CopyAssumption DEF Init, IInv, TypeOK, Sound, Counted, Serve, NewServe, Copier

\* Replacing the record of an accepted connection by a sound one keeps the
\* invariant.
LEMMA RecordInv ==
    ASSUME IInv, NEW k \in Id, NEW r \in Serve, Sound(r),
           c' = [c EXCEPT ![k] = r],
           side' = side, run' \in {"accept", "serve", "returned", "panic"},
           nconns' \in nconns .. MaxConns, k <= nconns'
    PROVE  IInv'
<1>1. c \in [Id -> Serve] /\ nconns \in Nat /\ MaxConns \in Nat
    BY CopyAssumption DEF IInv, TypeOK
<1>2. c' \in [Id -> Serve] /\ \A j \in Id : c'[j] = IF j = k THEN r ELSE c[j]
    BY <1>1
<1>3. \A j \in Id : Sound(c'[j])
    BY <1>2 DEF IInv
<1>4. \A j \in Id : j > nconns' => c'[j].pc = "none"
    BY <1>1, <1>2 DEF IInv, Id
<1>5. nconns' \in 0 .. MaxConns /\ nconns' > 0
    BY <1>1 DEF Id
<1> QED
    BY <1>2, <1>3, <1>4, <1>5 DEF IInv, TypeOK

\* A step of the accept loop keeps the invariant.
LEMMA RunInv ==
    ASSUME IInv, Accept \/ FirstStep \/ DialNil \/ Refuse \/ StartCopy
    PROVE  IInv'
<1>1. /\ c \in [Id -> Serve] /\ nconns \in 0 .. MaxConns /\ MaxConns \in Nat
      /\ \A j \in Id : c[j] \in Serve /\ Sound(c[j])
    BY CopyAssumption DEF IInv, TypeOK
<1>2. CASE Accept
    <2>1. nconns + 1 \in Id /\ nconns' = nconns + 1 /\ run' = "serve"
        BY <1>1, <1>2 DEF Accept, Id
    <2>2. PICK k \in Id : k = nconns + 1
        BY <2>1
    <2>3. c[k].pc = "none" /\ c[k] \in Serve /\ Sound(c[k])
        BY <1>1, <2>2 DEF IInv
    <2>4. PICK p \in {"header", "dial"} : c' = [c EXCEPT ![k].pc = p]
        BY <1>2, <2>2 DEF Accept
    <2>5. PICK r : r = [c[k] EXCEPT !.pc = p]
        OBVIOUS
    <2>6. r \in Serve /\ Sound(r)
        BY <2>3, <2>5 DEF Serve, Sound, Counted
    <2>7. c' = [c EXCEPT ![k] = r] /\ side' = side
        BY <1>2, <2>4, <2>5 DEF Accept
    <2> QED
        <3>1. /\ nconns' \in nconns .. MaxConns /\ k <= nconns'
              /\ run' \in {"accept", "serve", "returned", "panic"}
            BY <1>1, <2>1, <2>2 DEF Id
        <3> QED
            BY <2>6, <2>7, <3>1, RecordInv
<1>3. CASE FirstStep \/ Refuse \/ StartCopy
    <2>1. /\ run = "serve" /\ c[nconns].pc \in {"header", "dial"}
          /\ nconns' = nconns /\ side' = side
          /\ run' \in {"accept", "serve", "returned", "panic"}
        BY <1>1, <1>3 DEF FirstStep, Refuse, StartCopy, Busy, IInv, TypeOK
    <2>2. PICK k \in Id : k = nconns
        <3>1. nconns > 0
            BY <2>1 DEF IInv
        <3> QED
            BY <1>1, <3>1 DEF Id
    <2>3. c[k].pc \in {"header", "dial"} /\ c[k] \in Serve /\ Sound(c[k])
        BY <1>1, <2>1, <2>2
    <2>4. ASSUME NEW r \in Serve, Sound(r), c' = [c EXCEPT ![k] = r]
          PROVE  IInv'
        <3>1. nconns' \in nconns .. MaxConns /\ k <= nconns'
            BY <1>1, <2>1, <2>2
        <3> QED
            BY <2>1, <2>4, <3>1, RecordInv
    <2>5. CASE FirstStep \/ Refuse
        <3>1. PICK p \in {"header", "dial", "refused"} :
                  c' = [c EXCEPT ![k].pc = p]
            BY <2>2, <2>5 DEF FirstStep, Refuse
        <3>2. PICK r : r = [c[k] EXCEPT !.pc = p]
            OBVIOUS
        <3>3. r \in Serve /\ Sound(r)
            BY <2>3, <3>2 DEF Serve, Sound, Counted
        <3> QED
            BY <2>4, <3>1, <3>2, <3>3
    <2>6. CASE StartCopy
        <3>1. PICK r : r = [c[k] EXCEPT !.pc = "wait", !.up = "run",
                                        !.down = "run"]
            OBVIOUS
        <3>2. r \in Serve
            BY <2>3, <3>1 DEF Serve, Copier
        <3>3. Sound(r)
            BY <2>3, <3>1 DEF Serve, Sound, Counted
        <3>4. c' = [c EXCEPT ![k] = r]
            BY <1>1, <2>2, <2>6, <3>1 DEF StartCopy
        <3> QED
            BY <2>4, <3>2, <3>3, <3>4
    <2> QED
        BY <1>3, <2>5, <2>6
<1>4. CASE DialNil
    BY <1>4 DEF DialNil, IInv, TypeOK
<1> QED
    BY <1>2, <1>3, <1>4

\* A step of a connection, of a copier or of GoCopy keeps the invariant.
LEMMA ConnInv ==
    ASSUME IInv, NEW k \in Id,
           \/ LocalError(k) \/ ChannelCloses(k)
           \/ Up(k) \/ Down(k) \/ GoCopy(k)
    PROVE  IInv'
<1>1. c[k] \in Serve /\ Sound(c[k])
    BY DEF IInv, TypeOK
<1>2. ASSUME NEW r \in Serve, Sound(r), Change(k, r), c[k].pc # "none"
      PROVE  IInv'
    <2>1. /\ c' = [c EXCEPT ![k] = r] /\ nconns' = nconns
          /\ side' = side /\ run' \in {"accept", "serve", "returned", "panic"}
        BY <1>2 DEF Change, IInv, TypeOK
    <2>2. k <= nconns
        BY <1>2, CopyAssumption DEF IInv, TypeOK, Id
    <2>3. nconns' \in nconns .. MaxConns /\ k <= nconns'
        BY <2>1, <2>2, CopyAssumption DEF IInv, TypeOK
    <2> QED
        BY <1>2, <2>1, <2>3, RecordInv
<1>3. PICK x \in Serve : x = c[k]
    BY <1>1
<1>4. Sound(x) /\ x.ch \in {0, 1} /\ 0 \in 0 .. 1 /\ 1 \in 0 .. 1
    BY <1>1, <1>3 DEF Serve
<1>5. CASE LocalError(k) \/ ChannelCloses(k)
    <2>1. PICK r : /\ \/ r = [x EXCEPT !.lerr = TRUE]
                      \/ r = [x EXCEPT !.dead = TRUE]
                   /\ Change(k, r) /\ x.pc # "none"
        BY <1>3, <1>5 DEF LocalError, ChannelCloses, Connected
    <2>2. r \in Serve
        BY <1>3, <2>1 DEF Serve
    <2>3. /\ r.pc = x.pc /\ r.ch = x.ch /\ r.up = x.up /\ r.down = x.down
          /\ r.lclosed = x.lclosed /\ r.released = x.released
          /\ r.rclosed = x.rclosed /\ r.left = x.left /\ r.late = x.late
        BY <1>3, <2>1 DEF Serve
    <2>4. x.lerr \/ x.dead => r.lerr \/ r.dead
        BY <1>3, <2>1 DEF Serve
    <2>5. Sound(r)
        BY <1>4, <2>3, <2>4 DEF Sound, Counted
    <2> QED
        BY <1>2, <1>3, <2>1, <2>2, <2>5
<1>6. CASE UpEOF(k) \/ UpReadFails(k) \/ UpSendFails(k)
    <2>1. PICK r : /\ x.up \in {"run", "send"} /\ Change(k, r)
                   /\ \/ r = [x EXCEPT !.up = "eof"] /\ x.up = "run"
                      \/ /\ r = [x EXCEPT !.up = "fail"]
                         /\ x.lerr \/ x.lclosed \/ x.dead
        BY <1>3, <1>6 DEF UpEOF, UpReadFails, UpSendFails
    <2>2. r \in Serve /\ Sound(r) /\ x.pc # "none"
        BY <1>3, <1>4, <2>1 DEF Serve, Sound, Counted, Copier
    <2> QED
        BY <1>2, <1>3, <2>1, <2>2
<1>15. CASE \E n \in 1 .. MaxWrite : UpRead(k, n)
    <2>1. PICK n \in 1 .. MaxWrite : UpRead(k, n)
        BY <1>15
    <2>2. n \in 0 .. MaxWrite /\ n # 0
        BY <2>1, CopyAssumption
    <2>3. PICK r : r = [x EXCEPT !.up = "write", !.left = n]
        OBVIOUS
    <2>4. x.up = "run" /\ ~x.lclosed /\ Change(k, r)
        BY <1>3, <2>1, <2>3 DEF UpRead
    <2>5. r \in Serve
        BY <1>3, <2>2, <2>3 DEF Serve
    <2>6. ~x.released /\ x.pc # "none"
        BY <1>4, <2>4 DEF Sound
    <2>7. Sound(r)
        BY <1>3, <1>4, <2>2, <2>3, <2>4, <2>6 DEF Serve, Sound, Counted
    <2> QED
        BY <1>2, <1>3, <2>4, <2>5, <2>6, <2>7
<1>16. CASE UpWrite(k)
    <2>1. PICK r : /\ x.up = "write" /\ Change(k, r)
                   /\ \/ r = [x EXCEPT !.up = "send"]
                      \/ r = [x EXCEPT !.up = "fail"] /\ x.rclosed
        BY <1>3, <1>16 DEF UpWrite
    <2>2. r \in Serve /\ Sound(r) /\ x.pc # "none"
        BY <1>3, <1>4, <2>1 DEF Serve, Sound, Counted, Copier
    <2> QED
        BY <1>2, <1>3, <2>1, <2>2
<1>17. CASE UpSend(k)
    <2>1. /\ x.up = "send" /\ x.left \in Nat /\ x.late \in Nat /\ x.left # 0
          /\ x.left <= MaxWrite /\ MaxWrite \in Nat /\ x.pc # "none"
          /\ x.released => x.late + x.left <= MaxWrite
          /\ ~x.released => x.late = 0
        BY <1>3, <1>4, <1>17, CopyAssumption
        DEF UpSend, Serve, Sound, Counted
    <2>2. PICK u \in {"run", "send"}, l \in 0 .. MaxWrite, t \in 0 .. MaxWrite :
              /\ Change(k, [x EXCEPT !.up = u, !.left = l, !.late = t])
              /\ u = "run" <=> l = 0
              /\ x.released => t + l <= MaxWrite
              /\ ~x.released => t = 0
        <3>1. /\ x.left - 1 \in 0 .. MaxWrite /\ (x.left = 1 <=> x.left - 1 = 0)
              /\ x.released => /\ x.late <= MaxWrite /\ x.late + 1 \in 0 .. MaxWrite
                               /\ x.late + 1 + (x.left - 1) <= MaxWrite
              /\ 0 \in 0 .. MaxWrite
            BY <2>1
        <3>2. CASE x.released
            BY <1>3, <1>17, <3>1, <3>2 DEF UpSend
        <3>3. CASE ~x.released
            BY <1>3, <1>17, <2>1, <3>1, <3>3 DEF UpSend
        <3> QED
            BY <3>2, <3>3
    <2>3. PICK r : r = [x EXCEPT !.up = u, !.left = l, !.late = t]
        OBVIOUS
    <2>4. r \in Serve
        <3>1. t \in 0 .. MaxWrite + 1
            BY <2>1, <2>2
        <3> QED
            BY <1>3, <2>2, <2>3, <3>1 DEF Serve, Copier
    <2>5. /\ r.pc = x.pc /\ r.ch = x.ch /\ r.up = u /\ r.down = x.down
          /\ r.lclosed = x.lclosed /\ r.released = x.released
          /\ r.rclosed = x.rclosed /\ r.left = l /\ r.late = t
          /\ r.lerr = x.lerr /\ r.dead = x.dead
        BY <1>3, <2>3 DEF Serve
    <2>6. Counted(r)
        BY <2>2, <2>5 DEF Counted
    <2>7. Sound(r)
        BY <1>4, <2>1, <2>2, <2>5, <2>6 DEF Sound
    <2> QED
        BY <1>2, <1>3, <2>1, <2>2, <2>3, <2>4, <2>7
<1>7. CASE \/ DownEOF(k) \/ DownDead(k) \/ DownStale(k) \/ DownStaleEOF(k)
            \/ DownWriteFails(k)
    <2>1. PICK r : /\ x.down \in {"run", "stale"} /\ Change(k, r)
                   /\ \/ r = [x EXCEPT !.down = "eof"]
                      \/ r = [x EXCEPT !.down = "stale"] /\ x.released
                      \/ /\ r = [x EXCEPT !.down = "fail"]
                         /\ x.lerr \/ x.lclosed
        BY <1>3, <1>7 DEF DownEOF, DownDead, DownStale, DownStaleEOF,
                          DownWriteFails
    <2>2. r \in Serve /\ Sound(r) /\ x.pc # "none"
        BY <1>3, <1>4, <2>1 DEF Serve, Sound, Counted, Copier
    <2> QED
        BY <1>2, <1>3, <2>1, <2>2
<1>8. CASE SendErr(k, "up")
    <2>1. x.up = "fail" /\ x.pc # "none"
        BY <1>3, <1>4, <1>8 DEF SendErr, Sound
    <2>2. CASE /\ x.pc = "wait" /\ x.ch = 0
               /\ Change(k, [x EXCEPT !.up = "reported", !.pc = "closeSrc"])
        <3>1. PICK r : r = [x EXCEPT !.up = "reported", !.pc = "closeSrc"]
            OBVIOUS
        <3>2. r \in Serve
            BY <1>3, <3>1 DEF Serve, Copier
        <3>3. Sound(r)
            BY <1>3, <1>4, <2>1, <2>2, <3>1 DEF Serve, Sound, Counted
        <3> QED
            BY <1>2, <1>3, <2>1, <2>2, <3>1, <3>2, <3>3
    <2>3. CASE /\ x.ch = 0
               /\ Change(k, [x EXCEPT !.up = "reported", !.ch = 1])
        <3>1. PICK r : r = [x EXCEPT !.up = "reported", !.ch = 1]
            OBVIOUS
        <3>2. r \in Serve
            BY <1>3, <1>4, <3>1 DEF Serve, Copier
        <3>3. Sound(r)
            BY <1>3, <1>4, <2>1, <2>3, <3>1 DEF Serve, Sound, Counted
        <3> QED
            BY <1>2, <1>3, <2>1, <2>3, <3>1, <3>2, <3>3
    <2>4. x.ch < 1 => x.ch = 0 /\ x.ch + 1 = 1
        BY <1>4
    <2> QED
        BY <1>3, <1>8, <2>2, <2>3, <2>4 DEF SendErr, ErrCap
<1>9. CASE SendErr(k, "down")
    <2>1. x.down = "fail" /\ x.pc # "none"
        BY <1>3, <1>4, <1>9 DEF SendErr, Sound
    <2>2. CASE /\ x.pc = "wait" /\ x.ch = 0
               /\ Change(k, [x EXCEPT !.down = "reported", !.pc = "closeSrc"])
        <3>1. PICK r : r = [x EXCEPT !.down = "reported", !.pc = "closeSrc"]
            OBVIOUS
        <3>2. r \in Serve
            BY <1>3, <3>1 DEF Serve, Copier
        <3>3. Sound(r)
            BY <1>3, <1>4, <2>1, <2>2, <3>1 DEF Serve, Sound, Counted
        <3> QED
            BY <1>2, <1>3, <2>1, <2>2, <3>1, <3>2, <3>3
    <2>3. CASE /\ x.ch = 0
               /\ Change(k, [x EXCEPT !.down = "reported", !.ch = 1])
        <3>1. PICK r : r = [x EXCEPT !.down = "reported", !.ch = 1]
            OBVIOUS
        <3>2. r \in Serve
            BY <1>3, <1>4, <3>1 DEF Serve, Copier
        <3>3. Sound(r)
            BY <1>3, <1>4, <2>1, <2>3, <3>1 DEF Serve, Sound, Counted
        <3> QED
            BY <1>2, <1>3, <2>1, <2>3, <3>1, <3>2, <3>3
    <2>4. x.ch < 1 => x.ch = 0 /\ x.ch + 1 = 1
        BY <1>4
    <2> QED
        BY <1>3, <1>9, <2>2, <2>3, <2>4 DEF SendErr, ErrCap
<1>10. CASE Receive(k)
    <2>1. x.pc = "wait" /\ x.ch = 1
        BY <1>3, <1>4, <1>10 DEF Receive
    <2>2. PICK r : r = [x EXCEPT !.pc = "closeSrc", !.ch = 0]
        OBVIOUS
    <2>3. r \in Serve
        BY <1>3, <1>4, <2>2 DEF Serve
    <2>4. Sound(r)
        BY <1>3, <1>4, <2>1, <2>2 DEF Serve, Sound, Counted
    <2>5. Change(k, r)
        BY <1>3, <1>10, <2>1, <2>2 DEF Receive
    <2> QED
        BY <1>2, <1>3, <2>1, <2>3, <2>4, <2>5
<1>11. CASE CloseSrc(k)
    <2>1. PICK r : r = [x EXCEPT !.pc = "closeDst", !.lclosed = TRUE]
        OBVIOUS
    <2>2. x.pc = "closeSrc" /\ Change(k, r)
        BY <1>3, <1>11, <2>1 DEF CloseSrc
    <2>3. r \in Serve
        BY <1>3, <2>1 DEF Serve
    <2>4. Sound(r)
        BY <1>3, <1>4, <2>1, <2>2 DEF Serve, Sound, Counted
    <2> QED
        BY <1>2, <1>3, <2>2, <2>3, <2>4
<1>12. CASE /\ x.pc = "closeDst"
             /\ Change(k, [x EXCEPT !.released = TRUE])
    <2>1. PICK r : r = [x EXCEPT !.released = TRUE]
        OBVIOUS
    <2>2. x.pc = "closeDst" /\ Change(k, r)
        BY <1>12, <2>1
    <2>3. r \in Serve
        BY <1>3, <2>1 DEF Serve
    <2>4. Sound(r)
        <3>1. /\ x.late \in Nat /\ x.left \in Nat /\ x.left <= MaxWrite
              /\ x.late = 0 \/ x.late + x.left <= MaxWrite
            BY <1>3, <1>4, CopyAssumption DEF Serve, Sound, Counted
        <3>2. x.late + x.left <= MaxWrite
            BY <3>1
        <3> QED
            BY <1>3, <1>4, <2>1, <2>2, <3>2 DEF Serve, Sound, Counted
    <2> QED
        BY <1>2, <1>3, <2>2, <2>3, <2>4
<1>13. CASE /\ x.pc = "closeDst"
             /\ Change(k, [x EXCEPT !.pc = "done", !.rclosed = TRUE])
    <2>1. PICK r : r = [x EXCEPT !.pc = "done", !.rclosed = TRUE]
        OBVIOUS
    <2>2. x.pc = "closeDst" /\ Change(k, r)
        BY <1>13, <2>1
    <2>3. r \in Serve
        BY <1>3, <2>1 DEF Serve
    <2>4. Sound(r)
        BY <1>3, <1>4, <2>1, <2>2 DEF Serve, Sound, Counted
    <2> QED
        BY <1>2, <1>3, <2>2, <2>3, <2>4
<1>14. CASE CloseDst(k)
    BY <1>3, <1>12, <1>13, <1>14 DEF CloseDst
<1> QED
    BY <1>5, <1>6, <1>7, <1>8, <1>9, <1>10, <1>11, <1>14, <1>15,
       <1>16, <1>17
    DEF Up, Write, Down, GoCopy

\* Every step keeps the invariant.
LEMMA StepInv == IInv /\ [Next]_vars => IInv'
<1> SUFFICES ASSUME IInv, [Next]_vars PROVE IInv'
    OBVIOUS
<1>1. CASE Next
    BY <1>1, RunInv, ConnInv DEF Next
<1>2. CASE UNCHANGED vars
    BY <1>2 DEF vars, IInv, TypeOK
<1> QED
    BY <1>1, <1>2

\* The accept loop, the copiers and GoCopy keep their types, and what follows a
\* failure has a failed connection as its cause.
THEOREM CopyInvariant == Spec => []IInv
    BY InitInv, StepInv, PTL DEF Spec

\* GoCopy closes lconn, or releases rconn's session, only once the TCP
\* connection has failed or the data channel has closed: the end of one
\* direction never cuts the other.
THEOREM HalfCloseIsSafe == Spec => []HalfCloseSafe
<1>1. IInv => HalfCloseSafe
    BY DEF IInv, Sound, HalfCloseSafe
<1> QED
    BY <1>1, CopyInvariant, PTL

\* No failure is lost between a copier and GoCopy: it waits in vain only when
\* both copiers have met the end of their input.
THEOREM NoFailureIsLost == Spec => []StrandedByEOFOnly
<1>1. ASSUME IInv, NEW k \in Id, Stranded(k)
      PROVE  c[k].up = "eof" /\ c[k].down = "eof"
    BY <1>1 DEF IInv, Sound, Stranded
<1>2. IInv => StrandedByEOFOnly
    BY <1>1 DEF StrandedByEOFOnly
<1> QED
    BY <1>2, CopyInvariant, PTL

\* No byte of a later session of the data channel is written to this session's
\* TCP connection, which is closed before the session is released.
THEOREM SessionsDoNotMix == Spec => []NoCrossTalk
<1>1. IInv => NoCrossTalk
    BY DEF IInv, Sound, NoCrossTalk
<1> QED
    BY <1>1, CopyInvariant, PTL

\* What goes out on the data channel after a session's release is the rest of one
\* Write at most.
THEOREM LateWritesAreBounded == Spec => []LateWriteBounded
<1>1. ASSUME IInv, NEW k \in Id
      PROVE  c[k].late <= MaxWrite
    <2>1. c[k] \in Serve /\ Counted(c[k])
        BY <1>1 DEF IInv, TypeOK, Sound
    <2>2. /\ c[k].late \in Nat /\ c[k].left \in Nat /\ MaxWrite \in Nat
          /\ c[k].late = 0 \/ c[k].late + c[k].left <= MaxWrite
        BY <2>1, CopyAssumption DEF Serve, Counted
    <2> QED
        BY <2>2
<1>2. IInv => LateWriteBounded
    BY <1>1 DEF LateWriteBounded
<1> QED
    BY <1>2, CopyInvariant, PTL

\* A copier that read more than it sent does not end as if all were well.
THEOREM LossIsReported == Spec => []LossReported
<1>1. ASSUME IInv, NEW k \in Id, c[k].left > 0
      PROVE  c[k].up \in {"write", "send", "fail", "reported"}
    <2>1. c[k] \in Serve /\ Counted(c[k])
        BY <1>1 DEF IInv, TypeOK, Sound
    <2>2. c[k].left # 0
        BY <1>1, <2>1, CopyAssumption DEF Serve
    <2> QED
        BY <2>1, <2>2 DEF Counted
<1>2. IInv => LossReported
    BY <1>1 DEF LossReported
<1> QED
    BY <1>2, CopyInvariant, PTL
=============================================================================
