------------------------- MODULE PaeAuthSupplicants -------------------------
(***************************************************************************)
(* The supplicants the authenticator (ws_pae_auth.c, ws_pae_lib.c) deals    *)
(* with: the lists of active and waiting supplicants, the instances of the  *)
(* key management protocols (KMP) of each, the events between the KMPs'     *)
(* handlers, and the fast timer that ends KMPs and entries.                 *)
(*                                                                         *)
(* The main loop (wsbr.c) handles one datagram per round and dispatches     *)
(* events only in the round after the one that posted the first of them,    *)
(* and then all of them.  Between a handler that posts an event and its     *)
(* dispatch there may thus be another datagram and the timer.               *)
(*                                                                         *)
(* Abstractions.  What a supplicant still needs is a value that comes with  *)
(* its messages and that a protocol changes when it ends well (KeyHandshake *)
(* has the keys behind it).  Retransmissions change nothing here.           *)
(***************************************************************************)
EXTENDS Integers, Sequences, FiniteSets, SequencesExt

CONSTANTS
    Supp,           \* supplicants
    MinActive,      \* below this many active ones another is always welcome
    MaxActive,      \* from this many on it never is (in between: by chance)
    WaitMax,        \* WAITING_SUPPLICANT_LIST_MAX_SIZE
    AuthTicks,      \* WAIT_FOR_AUTHENTICATION_TICKS
    AfterTicks,     \* WAIT_AFTER_AUTHENTICATION_TICKS
    RetryTicks,     \* ticks of a waiting supplicant
    KmpTicks,       \* time a KMP may take
    EndTicks,       \* SEC_FINISHED_TIMEOUT: time a KMP stays after its end
    MaxMsgs         \* bound: datagrams

VARIABLES
    active,         \* active_supp_list, newest first
    waiting,        \* waiting_supp_list, newest first
    size,           \* waiting_supp_list_size
    ent,            \* ent[x]: the entry of supplicant x
    events,         \* events posted: the KMP they are for, and its type
    round,          \* datagrams and timer since the first event was posted, and
                    \* whether events are being dispatched
    running,        \* timer_running
    msgs

vars == <<active, waiting, size, ent, events, round, running, msgs>>

ASSUME PoolAssumption ==
    /\ MinActive \in Nat /\ MaxActive \in Nat \ {0} /\ MinActive <= MaxActive
    /\ WaitMax \in Nat \ {0, 1}
    /\ {AuthTicks, AfterTicks, RetryTicks, KmpTicks, EndTicks} \subseteq Nat \ {0}
    /\ MaxMsgs \in Nat /\ IsFiniteSet(Supp)

Needs == {"MKA", "4WH", "GKH", "none"}
Types == {"KEY", "MKA", "TLS", "4WH", "GKH"}
NoEntry == [kmps |-> {}, ticks |-> 0, wait |-> 0, need |-> "none"]
Calm == [datagrams |-> 0, ticked |-> FALSE, dispatching |-> FALSE]

-----------------------------------------------------------------------------
(***************************************************************************)
(* A handler's effects, threaded through the calls it makes.                *)
(***************************************************************************)
Here == [active |-> active, waiting |-> waiting, size |-> size, ent |-> ent,
         events |-> events, running |-> running]

Become(s) ==
    /\ active' = s.active /\ waiting' = s.waiting /\ size' = s.size
    /\ ent' = s.ent /\ events' = s.events /\ running' = s.running

\* A KMP instance is named by the first number that nothing refers to.
NewId(s) ==
    LET used == {k.id : k \in UNION {s.ent[x].kmps : x \in Supp}} \cup {v.id : v \in Range(s.events)}
    IN  CHOOSE n \in 1..(Cardinality(used) + 1) :
            n \notin used /\ \A m \in 1..(n - 1) : m \in used

OfType(s, x, type) == {k \in s.ent[x].kmps : k.type = type}

\* ws_pae_auth_kmp_create_and_start(): the instance starts the timer.
Create(s, x, type, st) ==
    [s EXCEPT !.ent[x].kmps = @ \cup {[id |-> NewId(s), type |-> type, st |-> st,
                                       left |-> KmpTicks]},
              !.running = TRUE]

\* prot->state_machine_call()
Post(s, id, type) == [s EXCEPT !.events = Append(@, [id |-> id, type |-> type])]
CreateAndPost(s, x, type) == Post(Create(s, x, type, "posted"), NewId(s), type)

Delete(s, x, kmps) == [s EXCEPT !.ent[x].kmps = @ \ kmps]

(***************************************************************************)
(* ws_pae_auth_next_kmp_trigger().  An instance that is already there is    *)
(* deleted, unless it is a GKH; a TLS instance that is left stops EAP-TLS.  *)
(***************************************************************************)
PreviousKept(s, x, type) == {}
Previous(s, x, type) == IF type = "GKH" THEN {} ELSE OfType(s, x, type)
Trigger(s, x) ==
    LET need == s.ent[x].need
        s1 == Delete([s EXCEPT !.ent[x].ticks = AuthTicks], x, Previous(s, x, need))
    IN  IF need = "none" THEN [s EXCEPT !.ent[x].ticks = AfterTicks]
        ELSE IF need # "MKA" THEN CreateAndPost(s1, x, need)
        ELSE IF OfType(s1, x, "TLS") # {} THEN [s1 EXCEPT !.running = TRUE]
        ELSE CreateAndPost(Create(s1, x, "TLS", "run"), x, "MKA")

\* ws_bootstrap_congestion_get(): by chance, between the limits.
LimitPassed(n, chance) == n > MaxActive \/ (n >= MinActive /\ chance)
LimitReached(n, chance) == n >= MaxActive \/ (n >= MinActive /\ chance)

\* ns_list_remove(): those after x move up.
Without(list, x) ==
    IF x \notin Range(list) THEN list
    ELSE [i \in 1..(Len(list) - 1) |->
             IF \E j \in 1..i : list[j] = x THEN list[i + 1] ELSE list[i]]

\* ws_pae_lib_supp_list_remove(): its KMPs go with the entry, events do not.
RemoveWaiting(s, x) ==
    [s EXCEPT !.waiting = Without(@, x), !.size = @ - 1, !.ent[x] = NoEntry]

(***************************************************************************)
(* ws_pae_auth_active_supp_deleted(): the newest waiting supplicant takes   *)
(* the place, if the limit allows.                                          *)
(***************************************************************************)
PromotedUncounted(s) ==
    LET x == Head(s.waiting)
    IN  [s EXCEPT !.waiting = Tail(@), !.active = <<x>> \o @, !.ent[x].wait = 0]
Promoted(s) ==
    LET x == Head(s.waiting)
    IN  [s EXCEPT !.waiting = Tail(@), !.size = @ - 1, !.active = <<x>> \o @,
                  !.ent[x].wait = 0]
RemoveActive(s, x, chance) ==
    LET s1 == [s EXCEPT !.active = Without(@, x), !.ent[x] = NoEntry]
    IN  IF LimitReached(Len(s1.active), chance) \/ s1.waiting = <<>> THEN s1
        ELSE Trigger(Promoted(s1), Head(s1.waiting))

\* ws_pae_auth_waiting_supp_list_add(): the oldest goes if there are too many.
VictimNewest(s) == Head(s.waiting)
Victim(s) == Last(s.waiting)
WaitingAdd(s, x) ==
    LET s1 == IF s.size >= WaitMax THEN RemoveWaiting(s, Victim(s)) ELSE s
    IN  [s1 EXCEPT !.waiting = <<x>> \o @, !.size = @ + 1, !.ent[x].wait = RetryTicks]

(***************************************************************************)
(* ws_pae_auth_kmp_incoming_ind(): the entry of the sender, which is        *)
(* active, waits or is read from the key storage.                           *)
(***************************************************************************)
TakenFromWaiting(s, x) ==
    IF x \notin Range(s.waiting) THEN s
    ELSE [s EXCEPT !.waiting = Without(@, x), !.size = @ - 1, !.ent[x].wait = 0]

Placed(s, x, chance) ==
    LET s1 == TakenFromWaiting(s, x)
        s2 == IF x \in Range(s.active) THEN s
              ELSE IF LimitReached(Len(s.active), chance) THEN WaitingAdd(s1, x)
              ELSE [s1 EXCEPT !.active = <<x>> \o @]
    IN  [s2 EXCEPT !.ent[x].ticks = AuthTicks]
-----------------------------------------------------------------------------
(***************************************************************************)
(* Actions.                                                                 *)
(***************************************************************************)
Init ==
    /\ active = <<>> /\ waiting = <<>> /\ size = 0
    /\ ent = [x \in Supp |-> NoEntry]
    /\ events = <<>> /\ round = Calm
    /\ running = FALSE
    /\ msgs = 0

\* The main loop gets to another datagram.
Datagram(s) ==
    /\ msgs < MaxMsgs /\ msgs' = msgs + 1
    /\ ~round.dispatching /\ round.datagrams < 2
    /\ Become(s)
    /\ round' = IF s.events = <<>> THEN Calm ELSE [round EXCEPT !.datagrams = @ + 1]

\* The initial EAPOL-Key message: it wipes an EAP-TLS of the supplicant and
\* says what it needs; a KEY instance goes on with an event.
InitialKey(x, need, chance) ==
    LET s1 == Placed(Here, x, chance)
        wiped == IF OfType(s1, x, "MKA") = {} THEN {}
                 ELSE OfType(s1, x, "MKA") \cup OfType(s1, x, "TLS")
        s2 == Delete([s1 EXCEPT !.ent[x].need = need], x, wiped)
    IN  Datagram(CreateAndPost(s2, x, "KEY"))

\* What a supplicant needs when a protocol has ended well.
NextNeeds(need, type) ==
    IF type = "MKA" THEN {"4WH"}
    ELSE IF need = "MKA" \/ (need = "4WH" /\ type = "GKH") THEN {need}
    ELSE {"GKH", "none"}

Ended(k) == [k EXCEPT !.st = "end", !.left = EndTicks]

\* finished_ind(): the next protocol, for a supplicant that is active.
Finished(s, x, kmps) ==
    LET s1 == [s EXCEPT !.ent[x].kmps = (@ \ kmps) \cup {Ended(k) : k \in kmps}]
    IN  IF x \in Range(s.active) THEN Trigger(s1, x) ELSE s1

\* A message that ends a protocol well; EAP-TLS with its TLS half.
LastMessage(x, k, need) ==
    LET s1 == Placed(Here, x, FALSE)
        half == IF k.type = "MKA" THEN OfType(s1, x, "TLS") ELSE {}
    IN  /\ k \in ent[x].kmps /\ k.type \in {"MKA", "4WH", "GKH"} /\ k.st = "run"
        /\ need \in NextNeeds(ent[x].need, k.type)
        /\ Datagram(Finished([s1 EXCEPT !.ent[x].need = need], x, {k} \cup half))

\* A message of a protocol of which there is no instance, or that does not end
\* it.  For EAP and GKH an instance is made that ends at once, for the 4WH none.
OtherMessage(x, type, chance) ==
    LET s1 == Placed(Here, x, chance)
    IN  Datagram(IF OfType(s1, x, type) = {} /\ type # "4WH" THEN [s1 EXCEPT !.running = TRUE]
                 ELSE s1)

(***************************************************************************)
(* An event is dispatched, and after it all that were posted meanwhile.     *)
(* KMP-CREATE.request starts a protocol; a KEY instance is finished.        *)
(***************************************************************************)
Owners(v) == {x \in Supp : \E k \in ent[x].kmps : k.id = v.id}

Dispatched(s, x, k) ==
    IF k.type = "KEY" THEN Finished(s, x, {k})
    ELSE [s EXCEPT !.ent[x].kmps = (@ \ {k}) \cup {[k EXCEPT !.st = "run"]}]

Dispatch ==
    LET s == [Here EXCEPT !.events = Tail(@)]
        s1 == IF Owners(Head(events)) = {} THEN s
              ELSE LET x == CHOOSE x \in Owners(Head(events)) : TRUE
                       k == CHOOSE k \in ent[x].kmps : k.id = Head(events).id
                   IN  Dispatched(s, x, k)
    IN  /\ events # <<>>
        /\ Become(s1)
        /\ round' = IF s1.events = <<>> THEN Calm ELSE [round EXCEPT !.dispatching = TRUE]
        /\ UNCHANGED msgs

\* The event of an instance that was deleted: freed memory is used, and the
\* daemon may come down.
UseAfterFree ==
    /\ events # <<>> /\ Owners(Head(events)) = {}
    /\ active' = <<>> /\ waiting' = <<>> /\ size' = 0
    /\ ent' = [x \in Supp |-> NoEntry]
    /\ events' = <<>> /\ round' = Calm
    /\ running' = FALSE
    /\ UNCHANGED msgs

(***************************************************************************)
(* ws_pae_auth_fast_timer().  An entry's own time runs while it has no KMP, *)
(* as seen before the KMPs' timers.                                         *)
(***************************************************************************)
Less(n) == IF n > 0 THEN n - 1 ELSE 0
KmpTick(kmps) ==
    LET on(k) == [k EXCEPT !.left = @ - 1]
    IN  {k \in kmps : k.st = "posted"}
        \cup {on(k) : k \in {k \in kmps : k.st # "posted" /\ k.left > 1}}
        \cup {Ended(k) : k \in {k \in kmps : k.st = "run" /\ k.left = 1}}

EntryTickNoWait(e) ==
    [e EXCEPT !.kmps = KmpTick(@), !.ticks = IF e.kmps = {} THEN Less(@) ELSE @]
EntryTick(e) ==
    [e EXCEPT !.kmps = KmpTick(@), !.ticks = IF e.kmps = {} THEN Less(@) ELSE @,
              !.wait = Less(@)]
KeepsRunning(e) == e.kmps # {} \/ e.ticks > 1 \/ e.wait > 1

\* ws_pae_lib_supp_list_timer_update() of the active list: the list may get
\* new entries at its start meanwhile, which are not looked at.
ActiveStep(t, x, chance) ==
    IF KeepsRunning(t.ent[x]) THEN [t EXCEPT !.ent[x] = EntryTick(@)]
    ELSE RemoveActive(t, x, chance)
ActiveTick(s, list, chances) ==
    LET after[n \in 0..Len(list)] ==
            IF n = 0 THEN s ELSE ActiveStep(after[n - 1], list[n], list[n] \in chances)
    IN  after[Len(list)]

WaitingStep(t, x) ==
    IF KeepsRunning(t.ent[x]) THEN [t EXCEPT !.ent[x] = EntryTick(@)]
    ELSE RemoveWaiting(t, x)
WaitingTick(s, list) ==
    LET after[n \in 0..Len(list)] ==
            IF n = 0 THEN s ELSE WaitingStep(after[n - 1], list[n])
    IN  after[Len(list)]

Timed(chances) ==
    LET s1 == ActiveTick(Here, active, chances)
        s2 == WaitingTick(s1, s1.waiting)
        keep == \/ \E x \in Range(active) : KeepsRunning(ent[x])
                \/ \E x \in Range(s1.waiting) : KeepsRunning(s1.ent[x])
    IN  [s2 EXCEPT !.running = @ /\ keep]

RoundTimed(s) ==
    IF s.events = <<>> THEN Calm ELSE [datagrams |-> 1, ticked |-> TRUE, dispatching |-> FALSE]

FastTimer(chances) ==
    LET s == Timed(chances)
    IN  /\ running /\ ~round.dispatching /\ ~round.ticked /\ round.datagrams < 2
        /\ Become(s) /\ round' = RoundTimed(s)
        /\ UNCHANGED msgs

Tick == \E chances \in SUBSET Range(active) : FastTimer(chances)

Next ==
    \/ \E x \in Supp, need \in Needs, chance \in BOOLEAN : InitialKey(x, need, chance)
    \/ \E x \in Supp, need \in Needs : \E k \in ent[x].kmps : LastMessage(x, k, need)
    \/ \E x \in Supp, type \in {"MKA", "4WH", "GKH"}, chance \in BOOLEAN : OtherMessage(x, type, chance)
    \/ Dispatch
    \/ UseAfterFree
    \/ Tick

Spec == Init /\ [][Next]_vars

\* Where a Tick that changes something is enabled.
TimerDue ==
    /\ running /\ ~round.dispatching /\ ~round.ticked /\ round.datagrams < 2
    /\ \E chances \in SUBSET Range(active) :
          LET s == Timed(chances) IN <<s, RoundTimed(s)>> # <<Here, round>>

\* The main loop dispatches events and calls the timer: WF_vars(Dispatch) and
\* WF_vars(Tick), written out.
FairSpec ==
    /\ Spec
    /\ []<>(events = <<>>) \/ []<><<Dispatch \/ UseAfterFree>>_vars
    /\ []<>~TimerDue \/ []<><<Tick>>_vars

-----------------------------------------------------------------------------
(***************************************************************************)
(* Properties.                                                              *)
(***************************************************************************)
Kmp == [id : Nat, type : Types, st : {"posted", "run", "end"}, left : Nat \ {0}]
Entry == [kmps : SUBSET Kmp, ticks : Nat, wait : 0..RetryTicks, need : Needs]
Event == [id : Nat, type : Types]

\* Every entry is on one list at most and has at most the time the code gives
\* it; KMPs belong to an entry on a list.  The counter of the waiting list, kept
\* at five places, is its length.
TypeOK ==
    /\ active \in Seq(Supp) /\ IsInjective(active)
    /\ waiting \in Seq(Supp) /\ IsInjective(waiting)
    /\ Range(active) \cap Range(waiting) = {}
    /\ size = Len(waiting) /\ size <= WaitMax
    /\ ent \in [Supp -> Entry]
    /\ \A x \in Supp \ (Range(active) \cup Range(waiting)) : ent[x] = NoEntry
    /\ events \in Seq(Event) /\ running \in BOOLEAN
    /\ round \in [datagrams : 0..2, ticked : BOOLEAN, dispatching : BOOLEAN]
    /\ msgs \in 0..MaxMsgs

\* ws_pae_auth.c: "For other types than GTK, only one ongoing negotiation at
\* the same time".
OneNegotiation ==
    \A x \in Supp, type \in {"MKA", "TLS", "4WH"} :
        Cardinality({k \in ent[x].kmps : k.type = type}) <= 1

\* The event of an initial EAPOL-Key message finds its KMP, whatever the other
\* supplicants, the limits and the timer did to the entry meanwhile: a message
\* that was taken is acted on.
KeyHeard == \A v \in Range(events) : v.type = "KEY" => Owners(v) # {}

Pool == INSTANCE SuppPool WITH active <- Range(active), waiting <- Range(waiting)

\* The lists of ws_pae_auth.c, with the KMPs, events and timers that move
\* entries between them, keep the promises of SuppPool: the limits, who may be
\* given up for whom, and at most one promotion for each place that gets free.
PoolSpec == Pool!Spec

\* While the timer runs no supplicant waits for ever.
WaitingLeaves == \A x \in Supp : (running /\ x \in Range(waiting)) ~> (x \notin Range(waiting))
=============================================================================
