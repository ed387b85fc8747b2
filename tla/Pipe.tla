-------------------------------- MODULE Pipe --------------------------------
(***************************************************************************)
(* What the users of a pooled data channel may rely on, without readers,   *)
(* queues, buffers or locks: one stream of bytes, numbered as the remote   *)
(* end sent them, handed out in sessions that do not overlap.  Channel     *)
(* implements it (Channel!PipeSpec, proved in ChannelProofs).              *)
(***************************************************************************)
EXTENDS Integers, Sequences

CONSTANT MaxSession   \* bound: sessions of the channel

Session == 1 .. MaxSession

VARIABLES
    current,   \* the session the channel is in, 0 before the first
    over,      \* sessions whose user has given the channel back
    sent,      \* bytes the remote end has sent
    broken,    \* the data channel has closed: messages may be dropped
    misused,   \* a user went on reading after it gave the channel back, beside
               \* its successor: nothing is promised of the bytes
    got        \* got[s]: the bytes session s has handed out

vars == <<current, over, sent, broken, misused, got>>

\* Bytes come out in the order they were sent, each once, whatever the session.
InOrder ==
    \A s, t \in Session : \A i \in DOMAIN got[s], j \in DOMAIN got[t] :
        /\ got[s][i] \in 1 .. sent
        /\ s < t \/ (s = t /\ i < j) => got[s][i] < got[t][j]

\* While the channel is open no byte is missing inside a session.
NoGap ==
    broken \/ \A s \in Session : \A i \in DOMAIN got[s] :
                  i + 1 \in DOMAIN got[s] => got[s][i + 1] = got[s][i] + 1

Init ==
    /\ current \in {0, 1} /\ over = {} /\ sent = 0
    /\ broken = FALSE /\ misused = FALSE
    /\ got = [s \in Session |-> <<>>]

Send ==
    /\ sent' \in Nat /\ sent' > sent
    /\ UNCHANGED <<current, over, broken, misused, got>>

Break ==
    /\ broken' = TRUE
    /\ UNCHANGED <<current, over, sent, misused, got>>

Misuse ==
    /\ misused' = TRUE
    /\ UNCHANGED <<current, over, sent, broken, got>>

\* The next session starts once the one before it is over.
Start ==
    /\ current \in over \cup {0} /\ current' = current + 1
    /\ UNCHANGED <<over, sent, broken, misused, got>>

\* A session ends by the act of its own user, while it is the current one.
End ==
    /\ current \in Session \ over /\ over' = over \cup {current}
    /\ UNCHANGED <<current, sent, broken, misused, got>>

\* Session s hands out some more bytes, and takes none back.
Deliver(s) ==
    /\ s <= current
    /\ \A t \in Session \ {s} : got'[t] = got[t]
    /\ Len(got'[s]) > Len(got[s])
    /\ \A i \in DOMAIN got[s] : got'[s][i] = got[s][i]
    /\ misused \/ (InOrder' /\ NoGap')
    /\ UNCHANGED <<current, over, sent, broken, misused>>

Next ==
    \/ Send \/ Break \/ Misuse \/ Start \/ End
    \/ \E s \in Session : Deliver(s)

Spec == Init /\ [][Next]_vars
=============================================================================
