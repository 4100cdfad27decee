------------------------------ MODULE LowpanTx ------------------------------
(***************************************************************************)
(* The way of a packet out of the border router: the transmit queue of the *)
(* 6LoWPAN adaptation layer (adaptation_interface.c), the message list of   *)
(* the Wi-SUN LLC below it (ws_llc_data_service.c), which it shares with    *)
(* EAPOL, PAN advertisements, PAN configurations and LFN frames, and the    *)
(* confirms of the radio (RCP).                                             *)
(*                                                                         *)
(* The two layers call each other within one event: a request may be        *)
(* confirmed before it returns, a confirm sends what waits.  The operators  *)
(* below therefore pass the state S of both layers on from call to call,    *)
(* and an action is the whole event.  Packets are buffers: what they carry  *)
(* is left out, but for their destination, priority and number of frames.   *)
(* Handles are 8-bit counters that skip the values in use; here a handle    *)
(* is the smallest number not in use, which stands for a counter that does  *)
(* not come round while a frame is on its way.                              *)
(***************************************************************************)
EXTENDS Naturals, Sequences, FiniteSets, SequencesExt

CONSTANTS
    Packet,       \* the buffers
    Neighbour,    \* unicast destinations
    Broadcast,    \* the destination of a broadcast packet
    To,           \* To[p]: the destination of p
    Priority,     \* Priority[p]: 0 normal, 1 high, 2 network control, 3 expedited
    Frames,       \* Frames[p]: the frames p needs, more than one if fragmented
    UnicastMax,   \* LOWPAN_ACTIVE_UNICAST_ONGOING_MAX
    LlcMax,       \* LLC_MESSAGE_QUEUE_LIST_SIZE_MAX
    RcpDrops,     \* BOOLEAN: the RCP can drop a frame, its API is 0.4.0 or newer
    Async,        \* the frames of the PAN that are sent asynchronously: PA and PC
    MaxPending,   \* bound on the EAPOL messages that wait
    MaxLfn        \* bound on the LFN frames on their way

ASSUME PacketAssumption ==
    /\ To \in [Packet -> Neighbour \cup {Broadcast}]
    /\ Broadcast \notin Neighbour
    /\ Priority \in [Packet -> 0..3]
    /\ Frames \in [Packet -> Nat \ {0}]
ASSUME LimitAssumption ==
    /\ UnicastMax \in Nat \ {0}
    /\ LlcMax \in Nat \ {0}
    /\ RcpDrops \in BOOLEAN
    /\ Async \subseteq {"PA", "PC"}
    /\ MaxPending \in Nat
    /\ MaxLfn \in Nat

VARIABLES
    queue,    \* directTxQueue
    active,   \* activeUnicastList: packet, handle and frames still to be confirmed
    bcast,    \* active_broadcast_tx_buf, a sequence of at most one such entry
    fragmenter, \* fragmenter_active
    high,     \* last_rx_high_priority: "off", "recent", or "over" after its time
    llc,      \* llc_message_list: type, MAC handle, handle of the MPX user, destination
    old,      \* the packets of the queue that are past their age limit
    nbr,      \* the neighbours of the MAC neighbour table
    pending,  \* the size of llc_eap_pending_list
    session,  \* active_eapol_session
    running,  \* pan_advert_running and pan_config_running
    cut       \* (ghost) a removed neighbour took a packet from the active list
              \* and the queue has not been read since

vars == <<queue, active, bcast, fragmenter, high, llc, old, nbr, pending, session,
          running, cut>>

Expedite == 3
Status == {"ok", "fail", "expired"}

\* The state of the two layers that the calls pass on.
State == [queue |-> queue, active |-> active, bcast |-> bcast, frag |-> fragmenter,
          high |-> high, llc |-> llc, old |-> old, cut |-> cut]

Unicast(p) == To[p] # Broadcast
Least(used) == CHOOSE n \in 0..Cardinality(used) :
                  n \notin used /\ \A m \in 0..(n - 1) : m \in used

InQueue(S) == {S.queue[i] : i \in 1..Len(S.queue)}
OnAir(S) == {e.pkt : e \in Range(S.active) \cup Range(S.bcast)}
InStack == InQueue(State) \cup OnAir(State)

-----------------------------------------------------------------------------
(* The queue.                                                              *)

TxQueueWriteLast(q, p) == Append(q, p)
\* Behind everything of its priority.
TxQueueWrite(q, p) ==
    LET i == SelectInSeq(q, LAMBDA x : Priority[x] < Priority[p])
    IN  IF i = 0 THEN Append(q, p) ELSE InsertAt(q, i, p)
\* In front of everything of its priority.
TxQueueWriteToFront(q, p) ==
    LET i == SelectInSeq(q, LAMBDA x : Priority[x] <= Priority[p])
    IN  IF i = 0 THEN Append(q, p) ELSE InsertAt(q, i, p)

\* Nothing between two fragments, one broadcast, one unicast per destination,
\* UnicastMax in all, and only expedited ones in the high priority state.
TxAllowed(S, p) ==
    /\ ~S.frag
    /\ IF Unicast(p)
       THEN /\ Len(S.active) < UnicastMax
            /\ \A e \in Range(S.active) : To[e.pkt] # To[p]
            /\ S.high # "off" => Priority[p] = Expedite
       ELSE S.bcast = <<>>

\* The place of the packet to be sent next, 0 if there is none: reading stops at
\* the first unicast packet the high priority state holds back.
TxQueueRead(S) ==
    LET Stops(x) == Unicast(x) /\ S.high # "off" /\ Priority[x] < Expedite
        i == SelectInSeq(S.queue, LAMBDA x : Stops(x) \/ TxAllowed(S, x))
    IN  IF i # 0 /\ Stops(S.queue[i]) THEN 0 ELSE i

CanExit(S) ==
    /\ S.high = "over"
    /\ S.queue # <<>> => Priority[Head(S.queue)] # Expedite
    /\ \A e \in Range(S.active) : Priority[e.pkt] # Expedite

HighPriorityStateExit(S) == IF CanExit(S) THEN [S EXCEPT !.high = "off"] ELSE S

-----------------------------------------------------------------------------
(* The message list of the LLC.                                            *)

DataMessages(S, user) == {m \in S.llc : m.type = "data" /\ m.user = user}
LlcFull(S) == Cardinality(S.llc) >= LlcMax
Queued(S, type, user, to) ==
    S.llc \cup {[type |-> type, handle |-> Least({m.handle : m \in S.llc}),
                 user |-> user, to |-> to]}

\* ws_llc_mpx_data_purge_request and what the caller does when it succeeds: the
\* radio is told to drop the frame, the packet goes back to the queue.
PurgedInPlace(S, e) == [S EXCEPT !.llc = @ \ DataMessages(S, e.handle)]
Purge(S, e) ==
    IF ~RcpDrops \/ DataMessages(S, e.handle) = {}
    THEN S
    ELSE [S EXCEPT !.llc = @ \ DataMessages(S, e.handle),
                   !.active = SelectSeq(@, LAMBDA x : x # e),
                   !.queue = TxQueueWriteToFront(@, e.pkt)]

\* The active packets make room for the expedited ones, unless a fragmented
\* packet is among them.
HighPriorityStateEnable(S) ==
    LET purged == IF S.high = "off" /\ ~S.frag
                  THEN FoldLeft(Purge, S, Reverse(S.active))
                  ELSE S
    IN  [purged EXCEPT !.high = "recent"]

PriorityStatusUpdate(S, p) ==
    IF Priority[p] = Expedite THEN HighPriorityStateEnable(S) ELSE HighPriorityStateExit(S)

-----------------------------------------------------------------------------
(* Sending and confirming.                                                 *)

Entry(S, p) ==
    [pkt |-> p, left |-> Frames[p],
     handle |-> Least({e.handle : e \in Range(S.active) \cup Range(S.bcast)}
                      \cup {m.user : m \in {m \in S.llc : m.type = "data"}})]

\* lowpan_adaptation_data_process_clean, with fragmenter_active, which its callers
\* in tx_confirm reset first.
DataProcessClean(S, e) ==
    [S EXCEPT !.active = SelectSeq(@, LAMBDA x : x # e),
              !.bcast = SelectSeq(@, LAMBDA x : x # e),
              !.old = @ \ {e.pkt},
              !.frag = @ /\ Frames[e.pkt] = 1]

\* The radio gave the frame up unsent: the packet is to be sent again, and its
\* entry goes.  fragmenter_active stays.
ToBeSentAgain(S, e) ==
    [S EXCEPT !.active = SelectSeq(@, LAMBDA x : x # e),
              !.queue = TxQueueWriteToFront(@, e.pkt)]

NextFrame(S, e) ==
    LET Less(s) == [i \in DOMAIN s |-> IF s[i] = e THEN [e EXCEPT !.left = @ - 1] ELSE s[i]]
    IN  [S EXCEPT !.active = Less(@), !.bcast = Less(@)]

\* Random early detection drops the oldest packet of normal priority.
EarlyDetection(S, red) ==
    LET i == SelectInSeq(S.queue, LAMBDA x : Priority[x] = 0)
    IN  IF red /\ i # 0
        THEN [S EXCEPT !.queue = RemoveAt(@, i), !.old = @ \ {S.queue[i]}]
        ELSE S

NeverTimedOut(S, p) == FALSE
\* A packet that has been here before may be too old.
BufferTimeout(S, p) == p \in S.old

RECURSIVE Tx(_, _, _), DataRequest(_, _), TxConfirm(_, _, _), ReadQueue(_)

\* ws_llc_lowpan_mpx_data_request: a full list confirms before the call returns.
DataRequest(S, e) ==
    IF LlcFull(S)
    THEN TxConfirm(S, e.handle, "overflow")
    ELSE [S EXCEPT !.llc = Queued(S, "data", e.handle, To[e.pkt])]

\* lowpan_adaptation_interface_tx.
Tx(S, p, red) ==
    LET R == PriorityStatusUpdate(S, p)
        e == Entry(R, p)
        W == EarlyDetection(R, red)
    IN  IF BufferTimeout(S, p)
        THEN [S EXCEPT !.old = @ \ {p}]
        ELSE IF ~TxAllowed(R, p)
        THEN [W EXCEPT !.queue = TxQueueWrite(@, p)]
        ELSE DataRequest([R EXCEPT !.active = IF Unicast(p) THEN Append(@, e) ELSE @,
                                   !.bcast = IF Unicast(p) THEN @ ELSE <<e>>,
                                   !.frag = Frames[p] > 1], e)

\* The loop at the end of tx_confirm and of the slow timer.
ReadQueue(S) ==
    LET i == TxQueueRead(S)
    IN  IF i = 0
        THEN [S EXCEPT !.cut = FALSE]
        ELSE ReadQueue(Tx([S EXCEPT !.queue = RemoveAt(@, i)], S.queue[i], FALSE))

\* lowpan_adaptation_interface_tx_confirm: nothing for a handle of no packet.
TxConfirm(S, handle, status) ==
    LET found == {e \in Range(S.active) \cup Range(S.bcast) : e.handle = handle}
        e == CHOOSE x \in found : TRUE
        done == IF status = "ok" /\ e.left > 1
                THEN DataRequest(NextFrame(S, e), e)
                ELSE IF status = "expired" /\ Unicast(e.pkt)
                THEN ToBeSentAgain(S, e)
                ELSE DataProcessClean(S, e)
    IN  IF found = {} THEN S ELSE ReadQueue(HighPriorityStateExit(done))

\* lowpan_adaptation_free_messages_from_queues_by_address: neither the LLC is
\* told, nor fragmenter_active reset, nor the queue read.
FreeByAddress(S, d) ==
    LET kept == SelectSeq(S.active, LAMBDA e : To[e.pkt] # d)
    IN  [S EXCEPT !.active = kept,
                  !.queue = SelectSeq(@, LAMBDA p : To[p] # d),
                  !.old = {p \in @ : To[p] # d},
                  !.cut = @ \/ Len(kept) < Len(S.active)]

-----------------------------------------------------------------------------
(* The events.                                                             *)

Becomes(S) ==
    /\ queue' = S.queue /\ active' = S.active /\ bcast' = S.bcast
    /\ fragmenter' = S.frag /\ high' = S.high /\ llc' = S.llc
    /\ old' = S.old /\ cut' = S.cut

Init ==
    /\ queue = <<>> /\ active = <<>> /\ bcast = <<>>
    /\ fragmenter = FALSE
    /\ high = "off"
    /\ llc = {}
    /\ old = {}
    /\ nbr = Neighbour
    /\ pending = 0
    /\ session = FALSE
    /\ running = [t \in Async |-> FALSE]
    /\ cut = FALSE

\* IPv6 sends a packet.  One to an unknown neighbour is refused
\* (lowpan_adaptation_data_process_tx_preprocess).
Send(p) ==
    /\ p \notin InStack
    /\ Unicast(p) => To[p] \in nbr
    /\ \E red \in BOOLEAN : Becomes(Tx(State, p, red))
    /\ UNCHANGED <<nbr, pending, session, running>>

\* An expedited packet is forwarded to the backbone.
ExpediteForwardEnable ==
    /\ Becomes(HighPriorityStateEnable(State))
    /\ UNCHANGED <<nbr, pending, session, running>>

\* The radio confirms a frame of a packet.  Its message is freed after the callback;
\* a temporary neighbour is removed in between.
DataConfirm(m, status, gone) ==
    LET called == TxConfirm(State, m.user, status)
        after == IF gone THEN FreeByAddress(called, m.to) ELSE called
    IN  /\ m.type = "data"
        /\ gone => m.to \in nbr
        /\ Becomes([after EXCEPT !.llc = @ \ {m}])
        /\ nbr' = IF gone THEN nbr \ {m.to} ELSE nbr
        /\ UNCHANGED <<pending, session, running>>

\* The radio confirms an EAPOL frame: the next one that waits is sent.
EapolConfirm(m) ==
    LET next == pending > 0
        sent == IF next THEN Queued(State, "eapol", 0, Broadcast) ELSE llc
    IN  /\ m.type = "eapol"
        /\ llc' = sent \ {m}
        /\ session' = next
        /\ pending' = IF next THEN pending - 1 ELSE 0
        /\ UNCHANGED <<queue, active, bcast, fragmenter, high, old, nbr, running, cut>>

\* The radio confirms an advertisement or a configuration, or an LFN frame, for
\* which nothing is called.
ManagementConfirm(m) ==
    /\ m.type \in Async \cup {"lfn"}
    /\ llc' = llc \ {m}
    /\ running' = [t \in Async |-> running[t] /\ t # m.type]
    /\ UNCHANGED <<queue, active, bcast, fragmenter, high, old, nbr, pending, session, cut>>

EapolRequest ==
    /\ ~LlcFull(State)
    /\ IF session
       THEN /\ pending < MaxPending
            /\ pending' = pending + 1
            /\ UNCHANGED <<llc, session>>
       ELSE /\ llc' = Queued(State, "eapol", 0, Broadcast)
            /\ session' = TRUE
            /\ UNCHANGED pending
    /\ UNCHANGED <<queue, active, bcast, fragmenter, high, old, nbr, running, cut>>

\* Refused in the high priority state and while one of its kind is on its way; a
\* full list confirms at once.
AsynchRequest(t) ==
    /\ high = "off"
    /\ ~running[t]
    /\ running' = [running EXCEPT ![t] = ~LlcFull(State)]
    /\ llc' = IF LlcFull(State) THEN llc ELSE Queued(State, t, 0, Broadcast)
    /\ UNCHANGED <<queue, active, bcast, fragmenter, high, old, nbr, pending, session, cut>>

MngtLfnRequest ==
    /\ Cardinality({m \in llc : m.type = "lfn"}) < MaxLfn
    /\ ~LlcFull(State)
    /\ llc' = Queued(State, "lfn", 0, Broadcast)
    /\ UNCHANGED <<queue, active, bcast, fragmenter, high, old, nbr, pending, session,
                   running, cut>>

RemoveNeighbour(d) ==
    /\ d \in nbr
    /\ nbr' = nbr \ {d}
    /\ Becomes(FreeByAddress(State, d))
    /\ UNCHANGED <<pending, session, running>>

AddNeighbour(d) ==
    /\ d \notin nbr
    /\ nbr' = nbr \cup {d}
    /\ UNCHANGED <<queue, active, bcast, fragmenter, high, llc, old, pending, session,
                   running, cut>>

\* Time passes: the high priority state is over, a packet is too old.
Elapse ==
    /\ high = "recent"
    /\ high' = "over"
    /\ UNCHANGED <<queue, active, bcast, fragmenter, llc, old, nbr, pending, session,
                   running, cut>>
Age(p) ==
    /\ p \in InStack \ old
    /\ old' = old \cup {p}
    /\ UNCHANGED <<queue, active, bcast, fragmenter, high, llc, nbr, pending, session,
                   running, cut>>

SlowTimerExits(S) == HighPriorityStateExit(S)
SlowTimerReads(S) == ReadQueue(HighPriorityStateExit(S))
SlowTimer ==
    /\ CanExit(State)
    /\ Becomes(SlowTimerReads(State))
    /\ UNCHANGED <<nbr, pending, session, running>>

\* ws_llc_clean: messages are dropped, not confirmed.
LlcClean ==
    /\ llc' = {}
    /\ pending' = 0
    /\ session' = FALSE

\* lowpan_adaptation_interface_reset.
InterfaceReset ==
    /\ queue' = <<>> /\ active' = <<>> /\ bcast' = <<>>
    /\ fragmenter' = FALSE
    /\ high' = "off"
    /\ old' = {}
    /\ cut' = FALSE

\* WS_DISCOVERY_START: the radio, the LLC and the adaptation layer start anew, and
\* the neighbours too if the border router may start; pan_advert_running and
\* pan_config_running stay.
DiscoveryStart ==
    /\ LlcClean
    /\ InterfaceReset
    /\ nbr' \in {nbr, {}}
    /\ UNCHANGED running

Next ==
    \/ \E p \in Packet : Send(p) \/ Age(p)
    \/ ExpediteForwardEnable
    \/ \E m \in llc : \/ \E status \in Status, gone \in BOOLEAN : DataConfirm(m, status, gone)
                      \/ EapolConfirm(m)
                      \/ ManagementConfirm(m)
    \/ EapolRequest
    \/ \E t \in Async : AsynchRequest(t)
    \/ MngtLfnRequest
    \/ \E d \in Neighbour : RemoveNeighbour(d) \/ AddNeighbour(d)
    \/ Elapse
    \/ SlowTimer
    \/ DiscoveryStart

Spec == Init /\ [][Next]_vars

\* The radio answers every frame, time passes, the slow timer runs every second.
Fairness ==
    /\ \A h \in 0..LlcMax : []<>(\A m \in llc : m.handle # h)
    /\ []<>(high # "recent")
    /\ \A p \in Packet : []<>(p \in InStack => p \in old)
    /\ []<>(~CanExit(State))
FairSpec == Spec /\ Fairness

-----------------------------------------------------------------------------
(* Properties.                                                             *)

EntryType == [pkt : Packet, handle : 0..(LlcMax + UnicastMax + 1), left : Nat \ {0}]

\* Types, the limits of the lists, the order of the queue by priority, and that a
\* packet is in one place only, whichever of the calls above moved it.
TypeOK ==
    /\ queue \in Seq(Packet) /\ active \in Seq(EntryType) /\ bcast \in Seq(EntryType)
    /\ Len(active) <= UnicastMax /\ Len(bcast) <= 1
    /\ fragmenter \in BOOLEAN /\ session \in BOOLEAN /\ cut \in BOOLEAN
    /\ high \in {"off", "recent", "over"}
    /\ llc \subseteq [type : Async \cup {"data", "eapol", "lfn"}, handle : 0..LlcMax,
                      user : 0..(LlcMax + UnicastMax + 1), to : Neighbour \cup {Broadcast}]
    /\ Cardinality(llc) <= LlcMax
    /\ nbr \subseteq Neighbour
    /\ pending \in 0..MaxPending
    /\ running \in [Async -> BOOLEAN]
    /\ old \subseteq InStack
    /\ \A i, j \in 1..Len(queue) : i < j => Priority[queue[i]] >= Priority[queue[j]]
    /\ Cardinality(InStack) = Len(queue) + Len(active) + Len(bcast)

\* A packet handed down has exactly one message in the LLC that will be confirmed
\* under its handle, however confirms, purges and refusals at a full list nest; and
\* EAPOL counts as busy exactly while one EAPOL message is on its way, so that the
\* ones that wait are sent.
Awaited ==
    /\ \A e \in Range(active) \cup Range(bcast) : Cardinality(DataMessages(State, e.handle)) = 1
    /\ Cardinality({m \in llc : m.type = "eapol"}) = (IF session THEN 1 ELSE 0)
    /\ pending > 0 => session

\* fragmenter_active without a fragmented packet among the active ones.
Orphaned == fragmenter /\ \A e \in Range(active) \cup Range(bcast) : Frames[e.pkt] = 1

\* A packet waits in the queue only while something is there that will read the
\* queue: a packet on its way, or the high priority state, which the slow timer
\* ends.  The exceptions are those of a removed neighbour and of an interrupted
\* fragmented packet.
Served ==
    queue # <<>> => \/ active # <<>> \/ bcast # <<>>
                    \/ high # "off"
                    \/ cut
                    \/ Orphaned

\* No packet enters the stack and no expedited one is seen.
Quiet ==
    /\ InStack' \subseteq InStack
    /\ high' = "recent" => high = "recent"

\* Once nothing new comes, every packet gets out of the queue and is confirmed or
\* dropped, through priorities, retries and refusals, but for the two exceptions.
Drained == <>[][Quiet]_vars => <>[](InStack = {} \/ cut \/ Orphaned)

\* "Do not accept any other TX when fragmented TX active": the flag that stops all
\* sending is set only while a fragmented packet is being sent.
FragmentedTxActive == ~Orphaned
=============================================================================
