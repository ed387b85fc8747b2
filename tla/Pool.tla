-------------------------------- MODULE Pool --------------------------------
(***************************************************************************)
(* The channel pools of two connected peers (net/conn/channel-pool.go):    *)
(* Get on the offering side creates data channels under labels it makes    *)
(* up (net/conn/addr.go), OnChannelOpen on the answering side registers    *)
(* them by label.                                                          *)
(*                                                                         *)
(* Get holds the read lock only, so any number of Gets run at once, and    *)
(* they write the map of active channels.  The offering pool's idles stay  *)
(* empty: nothing is ever sent to ChannelPool.release, and no data channel *)
(* arrives at an offering peer.  So Get finds no idle channel to take, and *)
(* ChannelPool.loop and OnRelease never have a channel to move or release. *)
(*                                                                         *)
(* A label on the wire is the sequence of its parts between colons.        *)
(***************************************************************************)
EXTENDS Integers, Sequences

CONSTANTS
    Caller,       \* goroutines that call Get
    CallTypes,    \* the channel types they ask for
    MaxInt,       \* largest int of the answering side, which Atoi returns
    MaxIdx        \* bound: channels Get tries to create

ASSUME PoolAssumption ==
    /\ MaxIdx \in Nat
    /\ MaxInt \in Nat /\ MaxIdx <= MaxInt
    /\ {"keepalive", "command"} \cap CallTypes = {}

\* The named channel types.
ChannelTypes == {"keepalive", "command", "web", "proxy", "ssh", "file"}

\* ChannelType.String, and Label.String, which formats the type with it.
TypeString(t) == IF t \in ChannelTypes THEN t ELSE "unknown"
LabelString(t, i) == <<TypeString(t), i>>

\* The label of the channel NewOfferPeer creates.
KeepaliveLabel == <<"keepalive">>

\* parseLabel succeeds on two parts of which the second is an int.
ParseLabel(s) == Len(s) = 2 /\ s[2] <= MaxInt

WireLabel == {KeepaliveLabel} \cup {LabelString(t, i) : t \in CallTypes,
                                                        i \in 1 .. MaxIdx}

VARIABLES
    idx,       \* ChannelPool.idx of the offering pool
    get,       \* get[c]: the Get of caller c in progress
    dcs,       \* labels of the data channels created, in order; the n-th
               \* data channel is "n" below
    actives,   \* offering pool: keys of the map of active channels
    arrived,   \* data channels pion has handed to the answering peer
    answer,    \* answering pool: data channels that got a Channel (in idles)
    raced,     \* (history) two Gets were writing actives at once
    fatal      \* the runtime stopped the offering process

vars == <<idx, get, dcs, actives, arrived, answer, raced, fatal>>

GetState == [pc : {"idle", "index", "create", "put", "write"},
             type : CallTypes, index : 0 .. MaxIdx]

DataChannel == 1 .. Len(dcs)

TypeOK ==
    /\ idx \in 0 .. MaxIdx
    /\ get \in [Caller -> GetState]
    /\ dcs \in Seq(WireLabel)
    /\ actives \subseteq WireLabel
    /\ arrived \subseteq DataChannel
    /\ answer \subseteq arrived
    /\ raced \in BOOLEAN /\ fatal \in BOOLEAN

\* NewOfferPeer has created the keepalive channel.
Init ==
    /\ idx = 0
    /\ get \in [Caller -> [pc : {"idle"}, type : CallTypes, index : {0}]]
    /\ dcs = <<KeepaliveLabel>>
    /\ actives = {} /\ arrived = {} /\ answer = {}
    /\ raced = FALSE /\ fatal = FALSE
-----------------------------------------------------------------------------
(* The offering side: Get.                                                 *)

\* RLock; there is no idle channel to scan.
Get(c, t) ==
    /\ get[c].pc = "idle"
    /\ get' = [get EXCEPT ![c] = [pc |-> "index", type |-> t, index |-> 0]]
    /\ UNCHANGED <<idx, dcs, actives, arrived, answer, raced, fatal>>

\* Mutant: p.idx++ without the atomic package loses an update.
NextIndexRacy(c) ==
    /\ get[c].pc = "index" /\ idx < MaxIdx
    /\ idx' \in {idx, idx + 1}
    /\ get' = [get EXCEPT ![c].pc = "create", ![c].index = idx + 1]
    /\ UNCHANGED <<dcs, actives, arrived, answer, raced, fatal>>

\* atomic.AddUint64(&p.idx, 1)
NextIndex(c) ==
    /\ get[c].pc = "index" /\ idx < MaxIdx
    /\ idx' = idx + 1
    /\ get' = [get EXCEPT ![c].pc = "create", ![c].index = idx + 1]
    /\ UNCHANGED <<dcs, actives, arrived, answer, raced, fatal>>

Label(c) == LabelString(get[c].type, get[c].index)

\* CreateDataChannel, NewOfferChannel, and TakeConn, which succeeds on a channel
\* nobody else has yet.
CreateDataChannel(c) ==
    /\ get[c].pc = "create"
    /\ dcs' = Append(dcs, Label(c))
    /\ get' = [get EXCEPT ![c].pc = "put"]
    /\ UNCHANGED <<idx, actives, arrived, answer, raced, fatal>>

\* CreateDataChannel fails: Get returns the error and puts nothing.
CreateFails(c) ==
    /\ get[c].pc = "create"
    /\ get' = [get EXCEPT ![c].pc = "idle"]
    /\ UNCHANGED <<idx, dcs, actives, arrived, answer, raced, fatal>>

\* p.actives[label] = ch.  The runtime stops the process if it notices that
\* another Get is writing the map.
PutBegin(c) ==
    /\ get[c].pc = "put"
    /\ LET two == \E d \in Caller : get[d].pc = "write"
       IN  /\ raced' = (raced \/ two)
           /\ fatal' \in {FALSE, two}
    /\ get' = [get EXCEPT ![c].pc = "write"]
    /\ UNCHANGED <<idx, dcs, actives, arrived, answer>>

\* After an unnoticed race some entries may be missing.  RUnlock.
PutEnd(c) ==
    /\ get[c].pc = "write"
    /\ IF raced THEN actives' \in SUBSET (actives \cup {Label(c)})
                ELSE actives' = actives \cup {Label(c)}
    /\ get' = [get EXCEPT ![c].pc = "idle"]
    /\ UNCHANGED <<idx, dcs, arrived, answer, raced, fatal>>
-----------------------------------------------------------------------------
(* The answering side: handleChannel.                                      *)

\* pion hands over data channels in any order.  The keepalive channel goes to
\* its loop.
HandleKeepalive(n) ==
    /\ n \in DataChannel \ arrived /\ dcs[n] = KeepaliveLabel
    /\ arrived' = arrived \cup {n}
    /\ UNCHANGED <<idx, get, dcs, actives, answer, raced, fatal>>

\* OnChannelOpen: a label that does not parse, or that the pool has, is passed
\* over; otherwise the data channel gets a Channel, idle.  The answering pool's
\* actives are empty: nobody calls its Get.
OnChannelOpen(n) ==
    /\ n \in DataChannel \ arrived /\ dcs[n] # KeepaliveLabel
    /\ arrived' = arrived \cup {n}
    /\ answer' = IF ParseLabel(dcs[n]) /\ \A m \in answer : dcs[m] # dcs[n]
                 THEN answer \cup {n} ELSE answer
    /\ UNCHANGED <<idx, get, dcs, actives, raced, fatal>>
-----------------------------------------------------------------------------
Next ==
    /\ ~fatal
    /\ \/ \E c \in Caller :
              \/ \E t \in CallTypes : Get(c, t)
              \/ NextIndex(c)
              \/ CreateDataChannel(c) \/ CreateFails(c)
              \/ PutBegin(c) \/ PutEnd(c)
       \/ \E n \in DataChannel : HandleKeepalive(n) \/ OnChannelOpen(n)

Spec == Init /\ [][Next]_vars
-----------------------------------------------------------------------------
(* Properties.                                                             *)

\* OnChannelOpen silently passes over a data channel whose label the pool has;
\* its messages would reach nobody.  It never does: whatever Gets run at once
\* or fail half way, no two data channels have one label, and every one that
\* arrives, the keepalive apart, gets a Channel.
EveryChannelServed ==
    \A n \in arrived : dcs[n] # KeepaliveLabel => n \in answer

\* The map of active channels has every channel Get has returned, until two
\* Gets write it at once, which the read lock permits.
ActivesComplete ==
    raced \/ \A n \in DataChannel :
                 \/ dcs[n] = KeepaliveLabel
                 \/ dcs[n] \in actives
                 \/ \E c \in Caller : get[c].pc \in {"put", "write"}
                                      /\ Label(c) = dcs[n]
=============================================================================
