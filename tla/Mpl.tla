-------------------------------- MODULE Mpl --------------------------------
(***************************************************************************)
(* The MPL forwarder (stack/source/mpl/mpl.c) of the border router: the set *)
(* of seeds with the window of sequence numbers and the messages buffered   *)
(* of each, the Trickle timers that send them again, and the two timers.    *)
(*                                                                         *)
(* Abstractions.  There is the one domain that ws_bootstrap.c creates, with *)
(* its control messages off (TimerExpirations = 0): they are heard but not  *)
(* sent.  The network hands over copies of a seed's messages in any order   *)
(* and number; all that are about span less than half the sequence numbers. *)
(* Ages count runs of the slow timer, up to the age that lets a message go; *)
(* which of two messages of the same age is older is open.  The flipping    *)
(* colours of a seed or message stand for "mentioned", which is what they   *)
(* are computed for.  What is sent is left out, and memory never runs out.  *)
(***************************************************************************)
EXTENDS Integers, Sequences, FiniteSets, SequencesExt, FiniteSetsExt

CONSTANTS
    Seeds,          \* seeds, the border router's own among them
    Own,            \* the border router's own seed
    Mod,            \* sequence numbers are counted modulo this: 256
    First,          \* the number before the first message's
    Size,           \* Size[n]: IP length of the nth message of a seed
    Reports,        \* what a neighbour may say of a seed: [min, have]
    MaxBuffered,    \* MAX_BUFFERED_MESSAGES_SIZE
    Proactive,      \* proactive_forwarding
    Data,           \* data_trickle_params
    Lifetime,       \* seed_set_entry_lifetime
    AgeLimit,       \* message_age_limit
    MaxSent,        \* bound: messages of a seed
    MaxHeard,       \* bound: copies and control messages heard
    TimeMax, Infinite

T == INSTANCE Trickle

VARIABLES
    seed,           \* seed[s]: its entry, or NoSeed
    total,          \* mpl_total_buffered
    timer,          \* mpl_timer_running: the fast timer is armed
    own,            \* messages the border router has sent as a seed
    heard,          \* copies and control messages heard
    taken           \* taken[s][n]: how often message n of s was passed on to
                    \* the IP layer since the entry of s was made

vars == <<seed, total, timer, own, heard, taken>>

ASSUME MplAssumption ==
    /\ Own \in Seeds /\ IsFiniteSet(Seeds)
    /\ Mod \in Nat /\ Mod % 2 = 0 /\ First \in 0..(Mod - 1)
    /\ MaxBuffered \in Nat /\ Size \in [1..MaxSent -> 1..MaxBuffered]
    /\ Reports \subseteq [min : 0..(Mod - 1), have : SUBSET (0..(Mod - 1))]
    /\ TimeMax \in Nat /\ Infinite \in Nat
    /\ Data \in [Imin : Nat \ {0}, Imax : Nat, k : Nat, Expirations : 0..Infinite]
    /\ Data.Imin <= Data.Imax /\ Data.Imax < TimeMax
    /\ Lifetime \in Nat \ {0} /\ AgeLimit \in Nat \ {0}
    /\ MaxSent \in 1..((Mod \div 2) - 1) /\ MaxHeard \in Nat /\ Proactive \in BOOLEAN

Seqs == 0..(Mod - 1)
NoSeed == [alive |-> FALSE, life |-> 0, min |-> 0, msgs |-> <<>>]

\* serial_number_cmp8(): a is after b.  Numbers half the range apart are not
\* in order.
Half == Mod \div 2
After(a, b) == (a > b /\ a - b < Half) \/ (a < b /\ b - a > Half)

SeqNo(n) == (First + n) % Mod

-----------------------------------------------------------------------------
(***************************************************************************)
(* A handler's effects on the seeds and on what is buffered.                *)
(***************************************************************************)
Here == [seed |-> seed, total |-> total]
Become(s) == seed' = s.seed /\ total' = s.total

\* mpl_buffer_delete()
Deleted(st, s, i) ==
    [st EXCEPT !.seed[s].msgs = RemoveAt(@, i), !.total = @ - st.seed[s].msgs[i].len]

\* The messages at some places are deleted, the last one first, so that the
\* others keep their places.
Purged(st, s, places) ==
    LET n == Len(st.seed[s].msgs)
        walk[i \in 0..n] ==
            IF i = 0 THEN st
            ELSE IF n + 1 - i \in places THEN Deleted(walk[i - 1], s, n + 1 - i)
            ELSE walk[i - 1]
    IN  walk[n]

\* mpl_seed_delete()
SeedFreed(st, s) == [st EXCEPT !.seed[s] = NoSeed]
SeedDeleted(st, s) == [Purged(st, s, DOMAIN st.seed[s].msgs) EXCEPT !.seed[s] = NoSeed]

\* mpl_seed_create()
SeedCreated(st, s, q) ==
    IF st.seed[s].alive THEN st
    ELSE [st EXCEPT !.seed[s] = [alive |-> TRUE, life |-> Lifetime, min |-> q, msgs |-> <<>>]]

\* mpl_seed_advance_min_sequence()
MinAdvanced(st, s, q) ==
    Purged([st EXCEPT !.seed[s].min = q], s,
           {i \in DOMAIN st.seed[s].msgs : After(q, st.seed[s].msgs[i].seq)})

(***************************************************************************)
(* mpl_free_space(): the first message of the seed whose first message is   *)
(* oldest goes, and the window moves past it.                               *)
(***************************************************************************)
Oldest(st) ==
    LET holders == {s \in Seeds : st.seed[s].msgs # <<>>}
    IN  {s \in holders : \A x \in holders : Head(st.seed[s].msgs).age >= Head(st.seed[x].msgs).age}
NextSeq(q) == (q + 1) % Mod
FreeSpace(st) ==
    {Deleted([st EXCEPT !.seed[s].min = NextSeq(Head(st.seed[s].msgs).seq)], s, 1) : s \in Oldest(st)}

\* The loop of mpl_buffer_create().
Freed(st, len) ==
    LET f[k \in 0..MaxBuffered] ==
            IF k = 0 THEN {st}
            ELSE UNION {IF t.total + len > MaxBuffered THEN FreeSpace(t) ELSE {t} : t \in f[k - 1]}
    IN  f[MaxBuffered]

(***************************************************************************)
(* mpl_buffer_create(): room is made, which may move the window past the    *)
(* message; else it is inserted in order.                                   *)
(***************************************************************************)
InsertLast(msgs, m) == Append(msgs, m)
Insert(msgs, m) ==
    LET before == {i \in DOMAIN msgs : After(m.seq, msgs[i].seq)}
    IN  InsertAt(msgs, IF before = {} THEN 1 ELSE Max(before) + 1, m)
TooOld(st, s, q) == After(st.seed[s].min, q)
NeverPassedBy(st, s, q) == FALSE
PassedBy(st, s, q) == TooOld(st, s, q)
Trickles == IF Proactive THEN T!Start(Data) ELSE {T!Stop(tr) : tr \in T!Start(Data)}

Buffered(st, s, q, len) ==
    UNION {IF PassedBy(t, s, q) THEN {t}
           ELSE {[t EXCEPT !.seed[s].msgs = Insert(@, [seq |-> q, len |-> len, age |-> 0, tr |-> tr]),
                           !.total = @ + len] : tr \in Trickles}
           : t \in Freed(st, len)}

\* Every list whose message i is one of those of choice[i].
Outcomes(choice) ==
    {l \in [DOMAIN choice -> UNION Range(choice)] : \A i \in DOMAIN choice : l[i] \in choice[i]}

\* mpl_buffer_inconsistent(), for the messages that differ.
Inconsistent(m, differs) ==
    IF differs THEN {[m EXCEPT !.tr = tr] : tr \in T!InconsistentHeard(m.tr, Data)} ELSE {m}

-----------------------------------------------------------------------------
(***************************************************************************)
(* mpl_forwarder_process_message().                                         *)
(***************************************************************************)
\* The M flag says that the sender has nothing newer.
MarkedStates(st, s, q, newest) ==
    LET msgs == st.seed[s].msgs
        marked == [i \in DOMAIN msgs |-> Inconsistent(msgs[i], newest /\ After(msgs[i].seq, q))]
    IN  {[st EXCEPT !.seed[s].msgs = l] : l \in Outcomes(marked)}
Marks(st, s, q, newest) == newest /\ \E m \in Range(st.seed[s].msgs) : After(m.seq, q)

Holds(st, s, q) == \E m \in Range(st.seed[s].msgs) : m.seq = q
HeardAgain(st, s, q) ==
    LET mark(m) == IF m.seq = q THEN [m EXCEPT !.tr = T!ConsistentHeard(@)] ELSE m
    IN  [st EXCEPT !.seed[s].msgs = [i \in DOMAIN @ |-> mark(@[i])]]

IsNew(st, s, q) == ~TooOld(st, s, q) /\ ~Holds(st, s, q)

\* What becomes of a message, and whether the fast timer is armed by it.
Processed(st, s, q, len, lasthop) ==
    LET st1 == [st EXCEPT !.seed[s].life = Lifetime]
    IN  IF TooOld(st, s, q) THEN {st}
        ELSE IF Holds(st, s, q) THEN {HeardAgain(st, s, q)}
        ELSE IF Data.Expirations = 0 \/ lasthop THEN {MinAdvanced(st1, s, NextSeq(q))}
        ELSE Buffered(st1, s, q, len)

ProcessMessage(s, n, newest, lasthop) ==
    LET q == SeqNo(n)
        st == SeedCreated(Here, s, q)
    IN  \E st1 \in MarkedStates(st, s, q, newest) :
            /\ \E st2 \in Processed(st1, s, q, Size[n], lasthop) :
                  /\ Become(st2)
                  /\ timer' = \/ timer \/ Marks(st, s, q, newest)
                              \/ (IsNew(st1, s, q) /\ Holds(st2, s, q))
            /\ taken' = [taken EXCEPT ![s][n] = IF IsNew(st1, s, q) THEN @ + 1 ELSE @]

\* A copy of a message is received; lasthop: its hop limit is used up.
Receive(s, n, newest, lasthop) ==
    /\ heard < MaxHeard /\ heard' = heard + 1
    /\ s = Own => n <= own
    /\ ProcessMessage(s, n, newest, lasthop)
    /\ UNCHANGED own

\* mpl_exthdr_provider(): the border router sends a message as a seed.
SeedMessage ==
    /\ own < MaxSent /\ own' = own + 1
    /\ ProcessMessage(Own, own + 1, FALSE, FALSE)
    /\ UNCHANGED heard

(***************************************************************************)
(* mpl_control_handler(): a neighbour reports, for some seeds, the start of *)
(* its window and the messages it holds.                                    *)
(***************************************************************************)
Unmentioned(s, m, said) ==
    s \notin DOMAIN said \/ (~After(said[s].min, m.seq) /\ m.seq \notin said[s].have)
TheyHaveNew(said) ==
    \E s \in DOMAIN said :
        \/ ~seed[s].alive
        \/ \E q \in said[s].have : ~Holds(Here, s, q) /\ After(q, seed[s].min)
WeHaveNew(said) ==
    \E s \in {s \in Seeds : seed[s].alive} :
        s \notin DOMAIN said \/ \E m \in Range(seed[s].msgs) : Unmentioned(s, m, said)

Reported(s, said) ==
    LET msgs == seed[s].msgs
    IN  Outcomes([i \in DOMAIN msgs |-> Inconsistent(msgs[i], Unmentioned(s, msgs[i], said))])

ControlHandler(said) ==
    /\ heard < MaxHeard /\ heard' = heard + 1
    /\ \E lists \in [Seeds -> UNION {Reported(s, said) : s \in Seeds}] :
          /\ \A s \in Seeds : lists[s] \in Reported(s, said)
          /\ seed' = [s \in Seeds |-> [seed[s] EXCEPT !.msgs = lists[s]]]
    /\ timer' = (timer \/ TheyHaveNew(said) \/ WeHaveNew(said))
    /\ UNCHANGED <<total, own, taken>>

(***************************************************************************)
(* mpl_fast_timer(): one tick of every Trickle timer.  It is armed again    *)
(* while one of them runs.                                                  *)
(***************************************************************************)
TickedMessage(m) == {[m EXCEPT !.tr = tr] : tr \in T!Ticked(m.tr, Data)}
TickedLists(s) ==
    LET msgs == seed[s].msgs
    IN  Outcomes([i \in DOMAIN msgs |-> TickedMessage(msgs[i])])
AnyRunning(seeds) ==
    \E s \in Seeds : \E m \in Range(seeds[s].msgs) : T!Running(m.tr, Data)
LastRunning(seeds) ==
    \E s \in Seeds : seeds[s].msgs # <<>> /\ T!Running(Last(seeds[s].msgs).tr, Data)
TimerNeeded(seeds) == AnyRunning(seeds)

FastTimer ==
    /\ timer
    /\ \E lists \in [Seeds -> UNION {TickedLists(s) : s \in Seeds}] :
          /\ \A s \in Seeds : lists[s] \in TickedLists(s)
          /\ seed' = [s \in Seeds |-> [seed[s] EXCEPT !.msgs = lists[s]]]
    /\ timer' = TimerNeeded(seed')
    /\ UNCHANGED <<total, own, heard, taken>>

(***************************************************************************)
(* mpl_slow_timer(): seeds come to the end of their life, and the first     *)
(* messages of a seed go that are old enough and no longer sent.            *)
(***************************************************************************)
Done(m) == ~T!Running(m.tr, Data) /\ m.age >= AgeLimit
Expired(msgs) ==
    {i \in DOMAIN msgs : \A j \in 1..i : Done(msgs[j])}
Older(m) == [m EXCEPT !.age = IF @ < AgeLimit THEN @ + 1 ELSE @]
Aged(e) == [e EXCEPT !.msgs = [i \in DOMAIN @ |-> Older(@[i])]]
SlowSeed(st, s) ==
    LET msgs == st.seed[s].msgs
        gone == Expired(msgs)
    IN  IF ~st.seed[s].alive THEN st
        ELSE IF st.seed[s].life <= 1 THEN SeedDeleted(st, s)
        ELSE IF gone = {} THEN [st EXCEPT !.seed[s].life = @ - 1]
        ELSE Purged([st EXCEPT !.seed[s].life = @ - 1,
                               !.seed[s].min = NextSeq(msgs[Max(gone)].seq)], s, gone)

\* The seeds are gone through one by one; the order does not matter.
SeedList == SetToSeq(Seeds)
SlowWalk(st) ==
    LET walk[i \in 0..Len(SeedList)] ==
            IF i = 0 THEN st ELSE SlowSeed(walk[i - 1], SeedList[i])
    IN  walk[Len(SeedList)]

SlowTimer ==
    LET st == SlowWalk([Here EXCEPT !.seed = [s \in Seeds |-> Aged(@[s])]])
    IN  /\ \E s \in Seeds : seed[s].alive
        /\ Become(st)
        /\ taken' = [s \in Seeds |-> IF st.seed[s].alive THEN taken[s] ELSE [n \in 1..MaxSent |-> 0]]
        /\ UNCHANGED <<timer, own, heard>>

\* mpl_clear_realm_scope_seeds()
ClearWalk(st) ==
    LET walk[i \in 0..Len(SeedList)] ==
            IF i = 0 THEN st ELSE SeedDeleted(walk[i - 1], SeedList[i])
    IN  walk[Len(SeedList)]

ClearSeeds ==
    /\ \E s \in Seeds : seed[s].alive
    /\ Become(ClearWalk(Here))
    /\ taken' = [s \in Seeds |-> [n \in 1..MaxSent |-> 0]]
    /\ UNCHANGED <<timer, own, heard>>

-----------------------------------------------------------------------------
Init ==
    /\ seed = [s \in Seeds |-> NoSeed]
    /\ total = 0 /\ timer = FALSE
    /\ own = 0 /\ heard = 0
    /\ taken = [s \in Seeds |-> [n \in 1..MaxSent |-> 0]]

Next ==
    \/ \E s \in Seeds, n \in 1..MaxSent, newest, lasthop \in BOOLEAN :
          Receive(s, n, newest, lasthop)
    \/ SeedMessage
    \/ \E known \in SUBSET Seeds : \E said \in [known -> Reports] : ControlHandler(said)
    \/ FastTimer
    \/ SlowTimer
    \/ ClearSeeds

Spec == Init /\ [][Next]_vars

-----------------------------------------------------------------------------
(***************************************************************************)
(* Properties.                                                              *)
(***************************************************************************)
Message == [seq : Seqs, len : 1..MaxBuffered, age : 0..AgeLimit, tr : T!Timers(Data)]
Entry == [alive : BOOLEAN, life : 0..Lifetime, min : Seqs, msgs : Seq(Message)]

\* Entries and their Trickle timers are well formed, and a seed that is not
\* known has nothing left in its entry.
TypeOK ==
    /\ seed \in [Seeds -> Entry]
    /\ \A s \in Seeds : seed[s].alive \/ seed[s] = NoSeed
    /\ timer \in BOOLEAN /\ own \in 0..MaxSent /\ heard \in 0..MaxHeard

\* mpl_buffer_create(): "If we forced min_sequence to 2, we'd end up processing
\* message 3 again".  Whatever order copies come in and space is freed, a
\* message is taken at most once in the life of its seed's entry.
AtMostOnce == \A s \in Seeds, n \in 1..MaxSent : taken[s][n] <= 1

\* The messages of a seed are held in order, across the wrap of the sequence
\* numbers, and none is before the window: what mpl_seed_bm_len(), the M flag
\* and the freeing of the first message rest on.
Ordered ==
    \A s \in Seeds : LET msgs == seed[s].msgs IN
        \A i \in DOMAIN msgs :
            /\ ~After(seed[s].min, msgs[i].seq)
            /\ \A j \in 1..(i - 1) : After(msgs[i].seq, msgs[j].seq)

\* Each byte that is held: its seed, its message, its place in the message.
Bytes(seeds) ==
    {b \in Seeds \X Seqs \X (1..MaxBuffered) :
        \E m \in Range(seeds[b[1]].msgs) : m.seq = b[2] /\ b[3] <= m.len}

\* mpl_total_buffered is the size of what is held, and within its limit.
Accounted == total = Cardinality(Bytes(seed)) /\ total <= MaxBuffered

\* While a message is to be sent again the fast timer, which fires only once
\* each time it is armed, is armed.
TimerArmed == AnyRunning(seed) => timer
=============================================================================
