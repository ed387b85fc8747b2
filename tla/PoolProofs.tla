----------------------------- MODULE PoolProofs -----------------------------
(* Proofs, for any number of callers, types and channels, that every data   *)
(* channel Get creates has a label of its own, is served, and is missing    *)
(* from the map of active channels only after a race (Pool.tla).            *)
EXTENDS Pool, SequenceTheorems, TLAPS

\* A label Get made has an index that was handed out.
InvIndex == \A n \in DataChannel : dcs[n] # KeepaliveLabel
                => \E t \in CallTypes, i \in 1 .. idx : dcs[n] = LabelString(t, i)

\* The index a Get holds and has not used yet is its own.
InvFresh ==
    \A c \in Caller : get[c].pc = "create" =>
        /\ get[c].index \in 1 .. idx
        /\ \A d \in Caller : get[d].pc = "create" /\ get[d].index = get[c].index
                                 => d = c
        /\ \A n \in DataChannel, t \in CallTypes :
               dcs[n] # LabelString(t, get[c].index)

\* No two data channels have one label.
InvLabels == \A m, n \in DataChannel : dcs[m] = dcs[n] => m = n

\* What the answering pool has arrived, and what arrived was served.
InvServed == EveryChannelServed /\ answer \subseteq arrived
             /\ arrived \subseteq DataChannel

\* The types the argument needs.
InvTypes ==
    /\ idx \in 0 .. MaxIdx
    /\ get \in [Caller -> GetState]
    /\ dcs \in Seq(WireLabel)

IInv == InvTypes /\ InvIndex /\ InvFresh /\ InvLabels /\ InvServed

\* Labels with different indices differ, and a label of Get is never the
\* keepalive's.
LEMMA LabelsDiffer ==
    \A t, u, i, j : /\ LabelString(t, i) = LabelString(u, j) => i = j
                    /\ LabelString(t, i) # KeepaliveLabel
                    /\ LabelString(t, i)[2] = i /\ Len(LabelString(t, i)) = 2
    BY DEF LabelString, KeepaliveLabel

\* parseLabel accepts every label Get makes.
LEMMA LabelsParse ==
    ASSUME NEW t \in CallTypes, NEW i \in 1 .. MaxIdx
    PROVE  ParseLabel(LabelString(t, i)) /\ LabelString(t, i) \in WireLabel
    BY LabelsDiffer, PoolAssumption DEF ParseLabel, WireLabel

\* The invariant holds at first.
LEMMA InitInv == Init => IInv
<1> SUFFICES ASSUME Init PROVE IInv
    OBVIOUS
<1>1. get \in [Caller -> GetState] /\ \A c \in Caller : get[c].pc = "idle"
    BY PoolAssumption DEF Init, GetState
<1>2. dcs \in Seq(WireLabel) /\ DataChannel = {1} /\ dcs[1] = KeepaliveLabel
    BY DEF Init, WireLabel, DataChannel
<1>3. InvTypes
    BY <1>1, <1>2, PoolAssumption DEF Init, InvTypes
<1>4. InvIndex /\ InvFresh /\ InvLabels
    BY <1>1, <1>2 DEF InvIndex, InvFresh, InvLabels
<1>5. InvServed
    BY DEF Init, InvServed, EveryChannelServed
<1> QED
    BY <1>3, <1>4, <1>5 DEF IInv

\* Get's first step, its end and its writing of the map hand out no index and
\* create no channel.
LEMMA OtherInv ==
    ASSUME IInv, NEW c \in Caller, NEW g \in GetState, g.pc # "create",
           get' = [get EXCEPT ![c] = g],
           UNCHANGED <<idx, dcs, arrived, answer>>
    PROVE  IInv'
<1>1. /\ get \in [Caller -> GetState] /\ get' \in [Caller -> GetState]
      /\ \A d \in Caller : get'[d] = IF d = c THEN g ELSE get[d]
    BY DEF IInv, InvTypes
<1>2. InvFresh'
    BY <1>1 DEF IInv, InvFresh, DataChannel
<1> QED
    BY <1>1, <1>2 DEF IInv, InvTypes, InvIndex, InvLabels, InvServed,
        EveryChannelServed, DataChannel

\* A new index is held by nobody else and in no label.
LEMMA NextIndexInv ==
    ASSUME IInv, NEW c \in Caller, NextIndex(c)
    PROVE  IInv'
<1>1. /\ get \in [Caller -> GetState] /\ idx \in 0 .. MaxIdx /\ MaxIdx \in Nat
      /\ idx' = idx + 1 /\ idx' \in 0 .. MaxIdx
    BY PoolAssumption DEF IInv, InvTypes, NextIndex
<1>2. PICK g \in GetState : g = [get[c] EXCEPT !.pc = "create", !.index = idx']
    BY <1>1 DEF GetState
<1>3. /\ get' \in [Caller -> GetState]
      /\ \A d \in Caller : get'[d] = IF d = c THEN g ELSE get[d]
      /\ g.pc = "create" /\ g.index = idx'
    BY <1>1, <1>2 DEF NextIndex, GetState
<1>4. \A n \in DataChannel, t \in CallTypes : dcs[n] # LabelString(t, idx')
    BY <1>1, LabelsDiffer DEF IInv, InvIndex
<1>5. \A d \in Caller : get[d].pc = "create" => get[d].index # idx'
    BY <1>1 DEF IInv, InvFresh
<1>6. UNCHANGED <<dcs, arrived, answer>>
    BY DEF NextIndex
<1>7. InvFresh'
    <2> SUFFICES ASSUME NEW d \in Caller, get'[d].pc = "create"
                 PROVE  /\ get'[d].index \in 1 .. idx'
                        /\ \A e \in Caller :
                               get'[e].pc = "create"
                               /\ get'[e].index = get'[d].index => e = d
                        /\ \A n \in DataChannel, t \in CallTypes :
                               dcs[n] # LabelString(t, get'[d].index)
        BY <1>6 DEF InvFresh, DataChannel
    <2>1. CASE d = c
        BY <1>1, <1>3, <1>4, <1>5, <2>1
    <2>2. CASE d # c
        BY <1>1, <1>3, <1>5, <2>2 DEF IInv, InvFresh
    <2> QED
        BY <2>1, <2>2
<1>8. InvIndex'
    BY <1>1, <1>6 DEF IInv, InvIndex, DataChannel
<1> QED
    BY <1>1, <1>3, <1>6, <1>7, <1>8
    DEF IInv, InvTypes, InvLabels, InvServed, EveryChannelServed, DataChannel

\* A label with a fresh index is new.
LEMMA CreateInv ==
    ASSUME IInv, NEW c \in Caller, CreateDataChannel(c)
    PROVE  IInv'
<1>1. /\ get \in [Caller -> GetState] /\ get[c].pc = "create"
      /\ get[c].index \in 1 .. idx /\ get[c].type \in CallTypes
      /\ idx \in 0 .. MaxIdx /\ MaxIdx \in Nat /\ idx' = idx
    BY PoolAssumption
    DEF IInv, InvTypes, InvFresh, CreateDataChannel, GetState
<1>2. PICK g \in GetState : g = [get[c] EXCEPT !.pc = "put"]
    BY <1>1 DEF GetState
<1>3. /\ get' \in [Caller -> GetState]
      /\ \A d \in Caller : get'[d] = IF d = c THEN g ELSE get[d]
      /\ g.pc = "put"
    BY <1>1, <1>2 DEF CreateDataChannel, GetState
<1>4. PICK l \in WireLabel : l = LabelString(get[c].type, get[c].index)
    BY <1>1, LabelsParse
<1>5. dcs \in Seq(WireLabel) /\ dcs' = Append(dcs, l)
    BY <1>4 DEF IInv, InvTypes, CreateDataChannel, Label
<1>6. /\ dcs' \in Seq(WireLabel) /\ Len(dcs') = Len(dcs) + 1
      /\ \A n \in 1 .. Len(dcs) : dcs'[n] = dcs[n]
      /\ dcs'[Len(dcs) + 1] = l /\ Len(dcs) \in Nat
    BY <1>5
<1>7. \A n \in DataChannel' : n \in DataChannel \/ (n = Len(dcs) + 1 /\ dcs'[n] = l)
    BY <1>6 DEF DataChannel
<1>8. \A n \in DataChannel : dcs[n] # l
    BY <1>1, <1>4 DEF IInv, InvFresh
<1>9. InvLabels'
    BY <1>6, <1>7, <1>8 DEF IInv, InvLabels, DataChannel
<1>10. InvIndex'
    BY <1>1, <1>4, <1>6, <1>7 DEF IInv, InvIndex, DataChannel
<1>11. InvFresh'
    <2> SUFFICES ASSUME NEW d \in Caller, get'[d].pc = "create"
                 PROVE  /\ get'[d].index \in 1 .. idx
                        /\ \A e \in Caller :
                               get'[e].pc = "create"
                               /\ get'[e].index = get'[d].index => e = d
                        /\ \A n \in DataChannel', t \in CallTypes :
                               dcs'[n] # LabelString(t, get'[d].index)
        BY <1>1 DEF InvFresh
    <2>1. d # c /\ get'[d] = get[d]
        BY <1>3
    <2>2. get[d].index # get[c].index
        BY <1>1, <2>1 DEF IInv, InvFresh
    <2>3. \A t \in CallTypes : l # LabelString(t, get[d].index)
        BY <1>4, <2>2, LabelsDiffer
    <2>4. \A n \in DataChannel', t \in CallTypes :
              dcs'[n] # LabelString(t, get[d].index)
        BY <1>6, <1>7, <2>1, <2>3 DEF IInv, InvFresh, DataChannel
    <2> QED
        BY <1>3, <2>1, <2>4 DEF IInv, InvFresh
<1>12. InvServed'
    <2>1. arrived' = arrived /\ answer' = answer
        BY DEF CreateDataChannel
    <2> QED
        BY <1>6, <2>1 DEF IInv, InvServed, EveryChannelServed, DataChannel
<1> QED
    BY <1>1, <1>3, <1>6, <1>9, <1>10, <1>11, <1>12 DEF IInv, InvTypes

\* A data channel that arrives is served.
LEMMA ArrivalInv ==
    ASSUME IInv, NEW n \in DataChannel, HandleKeepalive(n) \/ OnChannelOpen(n)
    PROVE  IInv'
<1>1. UNCHANGED <<idx, get, dcs>> /\ arrived' = arrived \cup {n}
    BY DEF HandleKeepalive, OnChannelOpen
<1>2. InvServed'
    <2>1. CASE HandleKeepalive(n)
        BY <1>1, <2>1 DEF IInv, InvServed, EveryChannelServed,
            HandleKeepalive, DataChannel
    <2>2. CASE OnChannelOpen(n)
        <3>1. PICK t \in CallTypes, i \in 1 .. idx : dcs[n] = LabelString(t, i)
            BY <2>2 DEF OnChannelOpen, IInv, InvIndex
        <3>2. i \in 1 .. MaxIdx
            BY PoolAssumption DEF IInv, InvTypes
        <3>3. ParseLabel(dcs[n])
            BY <3>1, <3>2, LabelsParse
        <3>4. \A m \in answer : dcs[m] # dcs[n]
            BY <2>2 DEF OnChannelOpen, IInv, InvLabels, InvServed
        <3>5. answer' = answer \cup {n}
            BY <2>2, <3>3, <3>4 DEF OnChannelOpen
        <3> QED
            BY <1>1, <3>5 DEF IInv, InvServed, EveryChannelServed, DataChannel
    <2> QED
        BY <2>1, <2>2
<1> QED
    BY <1>1, <1>2 DEF IInv, InvTypes, InvIndex, InvFresh, InvLabels, DataChannel

\* Every step keeps the invariant.
LEMMA StepInv == IInv /\ [Next]_vars => IInv'
<1> SUFFICES ASSUME IInv, [Next]_vars PROVE IInv'
    OBVIOUS
<1>0. get \in [Caller -> GetState]
    BY DEF IInv, InvTypes
<1>1. ASSUME NEW c \in Caller,
             (\E t \in CallTypes : Get(c, t)) \/ CreateFails(c)
             \/ PutBegin(c) \/ PutEnd(c)
      PROVE  IInv'
    <2>1. UNCHANGED <<idx, dcs, arrived, answer>>
        BY <1>1 DEF Get, CreateFails, PutBegin, PutEnd
    <2>2. PICK g \in GetState : g.pc # "create" /\ get' = [get EXCEPT ![c] = g]
        <3>1. CASE \E t \in CallTypes : Get(c, t)
            <4>1. PICK t \in CallTypes : Get(c, t)
                BY <3>1
            <4>2. 0 \in 0 .. MaxIdx
                BY PoolAssumption
            <4>3. [pc |-> "index", type |-> t, index |-> 0] \in GetState
                BY <4>2 DEF GetState
            <4> QED
                BY <4>1, <4>3 DEF Get
        <3>2. CASE CreateFails(c) \/ PutBegin(c) \/ PutEnd(c)
            <4>1. PICK p \in {"idle", "write"} :
                      get' = [get EXCEPT ![c].pc = p]
                BY <3>2 DEF CreateFails, PutBegin, PutEnd
            <4>2. PICK g \in GetState : g = [get[c] EXCEPT !.pc = p]
                BY <1>0, <4>1 DEF GetState
            <4>3. g.pc = p
                BY <1>0, <4>2 DEF GetState
            <4> QED
                BY <4>1, <4>2, <4>3
        <3> QED
            BY <1>1, <3>1, <3>2
    <2> QED
        BY <2>1, <2>2, OtherInv
<1>2. CASE Next
    BY <1>1, <1>2, NextIndexInv, CreateInv, ArrivalInv DEF Next
<1>3. CASE UNCHANGED vars
    BY <1>3 DEF vars, IInv, InvTypes, InvIndex, InvFresh, InvLabels, InvServed,
        EveryChannelServed, DataChannel
<1> QED
    BY <1>2, <1>3

\* Whatever Gets run at once or fail, no two data channels have one label.
THEOREM LabelsAreUnique == Spec => []InvLabels
<1>1. IInv => InvLabels
    BY DEF IInv
<1> QED
    BY <1>1, InitInv, StepInv, PTL DEF Spec

\* OnChannelOpen passes over no data channel that Get has created.
THEOREM ChannelsAreServed == Spec => []EveryChannelServed
<1>1. IInv => EveryChannelServed
    BY DEF IInv, InvServed
<1> QED
    BY <1>1, InitInv, StepInv, PTL DEF Spec

\* The map's part of the invariant: a Get between its channel and its map entry
\* holds the label of the channel.
Putting(c) == get[c].pc \in {"put", "write"}

\* A step of a Get that changes neither its label nor the data channels, and is
\* not done before the map has the label.
LEMMA ActivesKept ==
    ASSUME IInv, ActivesComplete, NEW c \in Caller, NEW g \in GetState,
           get' = [get EXCEPT ![c] = g],
           Putting(c) => \/ /\ g.pc \in {"put", "write"} /\ g.type = get[c].type
                            /\ g.index = get[c].index
                         \/ Label(c) \in actives',
           actives \subseteq actives', raced => raced', dcs' = dcs
    PROVE  ActivesComplete'
<1>1. /\ get \in [Caller -> GetState]
      /\ \A d \in Caller : get'[d] = IF d = c THEN g ELSE get[d]
    BY DEF IInv, InvTypes
<1>2. \A d \in Caller : Putting(d) =>
          (Putting(d)' /\ Label(d)' = Label(d)) \/ Label(d) \in actives'
    BY <1>1 DEF Putting, Label
<1> QED
    BY <1>2 DEF ActivesComplete, DataChannel, Putting

\* A channel that is created is held by its Get.
LEMMA ActivesCreated ==
    ASSUME IInv, ActivesComplete, NEW c \in Caller, CreateDataChannel(c)
    PROVE  ActivesComplete'
<1>1. /\ get \in [Caller -> GetState] /\ get[c].pc = "create"
      /\ dcs \in Seq(WireLabel) /\ dcs' = Append(dcs, Label(c))
      /\ get' = [get EXCEPT ![c].pc = "put"]
      /\ UNCHANGED <<actives, raced>>
    BY DEF IInv, InvTypes, CreateDataChannel
<1>2. /\ \A d \in Caller \ {c} : get'[d] = get[d]
      /\ get'[c].pc = "put" /\ get'[c].type = get[c].type
      /\ get'[c].index = get[c].index
    BY <1>1 DEF GetState
<1>3. Putting(c)' /\ Label(c)' = Label(c)
    BY <1>2 DEF Putting, Label
<1>4. \A d \in Caller : Putting(d) => Putting(d)' /\ Label(d)' = Label(d)
    BY <1>1, <1>2 DEF Putting, Label
<1>5. /\ Len(dcs') = Len(dcs) + 1 /\ Len(dcs) \in Nat
      /\ \A n \in 1 .. Len(dcs) : dcs'[n] = dcs[n]
      /\ dcs'[Len(dcs) + 1] = Label(c)
    <2>1. PICK l : l = Label(c)
        OBVIOUS
    <2>2. dcs' = Append(dcs, l)
        BY <1>1, <2>1
    <2>3. /\ Len(Append(dcs, l)) = Len(dcs) + 1 /\ Len(dcs) \in Nat
          /\ \A n \in 1 .. Len(dcs) : Append(dcs, l)[n] = dcs[n]
          /\ Append(dcs, l)[Len(dcs) + 1] = l
        BY <1>1
    <2> QED
        BY <2>1, <2>2, <2>3
<1>6. ASSUME NEW n \in DataChannel', ~raced
      PROVE  \/ dcs'[n] = KeepaliveLabel \/ dcs'[n] \in actives
             \/ \E d \in Caller : Putting(d)' /\ Label(d)' = dcs'[n]
    <2>1. CASE n = Len(dcs) + 1
        BY <1>3, <1>5, <2>1
    <2>2. CASE n # Len(dcs) + 1
        <3>1. n \in DataChannel /\ dcs'[n] = dcs[n]
            BY <1>5, <2>2 DEF DataChannel
        <3> QED
            BY <1>4, <1>6, <3>1 DEF ActivesComplete, Putting
    <2> QED
        BY <2>1, <2>2
<1> QED
    BY <1>1, <1>6 DEF ActivesComplete, Putting

\* Every step keeps the map complete.
LEMMA ActivesStep == IInv /\ ActivesComplete /\ [Next]_vars => ActivesComplete'
<1> SUFFICES ASSUME IInv, ActivesComplete, [Next]_vars PROVE ActivesComplete'
    OBVIOUS
<1>0. get \in [Caller -> GetState] /\ idx \in 0 .. MaxIdx /\ MaxIdx \in Nat
    BY PoolAssumption DEF IInv, InvTypes
<1>1. ASSUME NEW c \in Caller, NEW t \in CallTypes, Get(c, t)
      PROVE  ActivesComplete'
    <2>1. [pc |-> "index", type |-> t, index |-> 0] \in GetState
        BY <1>0 DEF GetState
    <2>2. ~Putting(c)
        BY <1>1 DEF Get, Putting
    <2> QED
        BY <1>1, <2>1, <2>2, ActivesKept DEF Get
<1>2. ASSUME NEW c \in Caller, NextIndex(c) PROVE ActivesComplete'
    <2>0. idx + 1 \in 0 .. MaxIdx
        BY <1>0, <1>2 DEF NextIndex
    <2>1. PICK g \in GetState :
              g = [get[c] EXCEPT !.pc = "create", !.index = idx + 1]
        BY <1>0, <2>0 DEF GetState
    <2>2. get' = [get EXCEPT ![c] = g] /\ ~Putting(c)
        BY <1>0, <1>2, <2>1 DEF NextIndex, Putting
    <2> QED
        BY <1>2, <2>1, <2>2, ActivesKept DEF NextIndex
<1>3. ASSUME NEW c \in Caller, CreateFails(c) PROVE ActivesComplete'
    <2>1. PICK g \in GetState : g = [get[c] EXCEPT !.pc = "idle"]
        BY <1>0 DEF GetState
    <2>2. get' = [get EXCEPT ![c] = g] /\ ~Putting(c)
        BY <1>0, <1>3, <2>1 DEF CreateFails, Putting
    <2> QED
        BY <1>3, <2>1, <2>2, ActivesKept DEF CreateFails
<1>4. ASSUME NEW c \in Caller, PutBegin(c) PROVE ActivesComplete'
    <2>1. PICK g \in GetState : g = [get[c] EXCEPT !.pc = "write"]
        BY <1>0 DEF GetState
    <2>2. /\ get' = [get EXCEPT ![c] = g]
          /\ g.pc = "write" /\ g.type = get[c].type /\ g.index = get[c].index
        BY <1>0, <1>4, <2>1 DEF PutBegin, GetState
    <2>3. actives' = actives /\ dcs' = dcs /\ (raced => raced')
        BY <1>4 DEF PutBegin
    <2> QED
        BY <2>1, <2>2, <2>3, ActivesKept
<1>5. ASSUME NEW c \in Caller, PutEnd(c) PROVE ActivesComplete'
    <2>1. CASE raced
        BY <1>5, <2>1 DEF PutEnd, ActivesComplete
    <2>2. CASE ~raced
        <3>1. PICK g \in GetState : g = [get[c] EXCEPT !.pc = "idle"]
            BY <1>0 DEF GetState
        <3>2. /\ get' = [get EXCEPT ![c] = g]
              /\ actives' = actives \cup {Label(c)} /\ UNCHANGED <<dcs, raced>>
            BY <1>0, <1>5, <2>2, <3>1 DEF PutEnd
        <3> QED
            BY <3>1, <3>2, ActivesKept
    <2> QED
        BY <2>1, <2>2
<1>6. ASSUME NEW n \in DataChannel, HandleKeepalive(n) \/ OnChannelOpen(n)
      PROVE  ActivesComplete'
    BY <1>6 DEF HandleKeepalive, OnChannelOpen, ActivesComplete, DataChannel,
        Label
<1>7. CASE UNCHANGED vars
    BY <1>7 DEF vars, ActivesComplete, DataChannel, Label
<1> QED
    BY <1>1, <1>2, ActivesCreated, <1>3, <1>4, <1>5, <1>6, <1>7 DEF Next

\* The map of active channels misses no channel before two Gets write it at once.
THEOREM ActivesMissNothing == Spec => []ActivesComplete
<1>1. Init => ActivesComplete
    BY DEF Init, ActivesComplete, DataChannel
<1> QED
    BY <1>1, InitInv, StepInv, ActivesStep, PTL DEF Spec
=============================================================================
