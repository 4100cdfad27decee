---------------------------- MODULE FrameCounters ----------------------------
(***************************************************************************)
(* The frame counters of the group keys.  Every frame the radio (RCP) sends *)
(* under a key takes the next value of that key's counter, and no value may *)
(* be used twice with one key, not even across a restart of the daemon.     *)
(* The PAE controller (ws_pae_controller.c) therefore reads the counters    *)
(* from the RCP, writes them to the file "counters" now and then, and sets  *)
(* them again, raised by FRAME_COUNTER_INCREMENT, when it starts.           *)
(*                                                                         *)
(* A read sends a request and returns at once; the RCP's answer is dealt    *)
(* with after the handler, and there is one place for all answers:          *)
(* rcp.frame_counter, here `mailbox`.                                       *)
(*                                                                         *)
(* The authenticator's part is abstract here: `table` and `active` are the  *)
(* keys and the active key of PaeAuthKeys, which the MAC follows (MacInSync *)
(* there) and which the file network-keys keeps (KeysSaved there).          *)
(***************************************************************************)
EXTENDS Integers, Sequences

CONSTANTS
    GtkNum, LgtkNum,        \* GTK_NUM and LGTK_NUM
    Keys, NoKey,
    MaxCounter,             \* UINT32_MAX
    Increment,              \* FRAME_COUNTER_INCREMENT
    StoreThreshold,         \* FRAME_COUNTER_STORE_THRESHOLD
    StoreInterval,          \* FRAME_COUNTER_STORE_INTERVAL
    ForceInterval,          \* FRAME_COUNTER_STORE_FORCE_INTERVAL
    Rate,                   \* bound: frames sent under a key in one second
    DbusActive,             \* BOOLEAN: setWisunGtkActiveKey is used
    MaxUnderWay,            \* bound: answers under way when another handler runs
    MaxRestarts             \* bound: number of times the daemon goes down

VARIABLES
    mode,       \* "down", "stopped" or "run"
    table,      \* table[kind][slot]: the group keys, in the MAC while running
    active,     \* active[kind]: the slot frames are sent with (gtk_index)
    counters,   \* counters[kind][slot]: frame_counters.counter
    activeIdx,  \* activeIdx[kind]: frame_counters.active_gtk_index
    rcp,        \* rcp[kind][slot]: the counter in the RCP
    mailbox,    \* rcp.frame_counter: the last answer received
    answers,    \* the answers under way, in the order they will arrive
    file,       \* the file counters
    storeTimer, \* frame_cnt_store_timer
    forceTimer, \* frame_cnt_store_force_timer
    top,        \* top[key]: first counter value never used with the key
    restarts

vars == <<mode, table, active, counters, activeIdx, rcp, mailbox, answers, file,
          storeTimer, forceTimer, top, restarts>>

Kinds == {"gtk", "lgtk"}
None == -1
NumOf(k) == IF k = "gtk" THEN GtkNum ELSE LgtkNum
SlotsOf(k) == 0..(NumOf(k) - 1)
Counter == 0..MaxCounter
PerSlot(S) == {f \in [Kinds -> [SlotsOf("gtk") -> S] \cup [SlotsOf("lgtk") -> S]] :
                  \A k \in Kinds : f[k] \in [SlotsOf(k) -> S]}

ASSUME SlotsAssumption == GtkNum \in Nat \ {0} /\ LgtkNum \in Nat \ {0}
ASSUME KeysAssumption == NoKey \notin Keys
ASSUME CountersAssumption ==
    /\ MaxCounter \in Nat /\ Increment \in Nat /\ StoreThreshold \in Nat
    /\ 2 * Increment <= MaxCounter
    /\ StoreInterval \in Nat \ {0} /\ ForceInterval \in Nat \ {0}
    /\ Rate \in Nat /\ MaxRestarts \in Nat /\ MaxUnderWay \in Nat /\ DbusActive \in BOOLEAN

NoCounter == [set |-> FALSE, key |-> NoKey, count |-> 0, stored |-> 0]
NoCounters == [k \in Kinds |-> [i \in SlotsOf(k) |-> NoCounter]]
Larger(a, b) == IF a > b THEN a ELSE b

-----------------------------------------------------------------------------
(***************************************************************************)
(* A handler's effects, threaded through the calls it makes.  The value     *)
(* every read of the handler returns is the mailbox's: the RCP's answers    *)
(* are received after the handler.                                          *)
(***************************************************************************)
Here == [counters |-> counters, activeIdx |-> activeIdx, rcp |-> rcp,
         answers |-> answers, file |-> file, force |-> forceTimer]

Become(s) ==
    /\ counters' = s.counters /\ activeIdx' = s.activeIdx /\ rcp' = s.rcp
    /\ answers' = s.answers /\ file' = s.file
    /\ forceTimer' = s.force

\* mac_helper_key_link_frame_counter_read() of the slots in S, in order.  An
\* answer equal to the one before it changes nothing and is left out.
Answered(q, v) == IF q # <<>> /\ q[Len(q)] = v THEN q ELSE Append(q, v)
Asked(s, k, S) ==
    LET after[n \in 0..NumOf(k)] ==
            IF n = 0 THEN s.answers
            ELSE IF n - 1 \in S THEN Answered(after[n - 1], s.rcp[k][n - 1])
            ELSE after[n - 1]
    IN  [s EXCEPT !.answers = after[NumOf(k)]]

Known(s, k, i, keys) == s.counters[k][i].set /\ s.counters[k][i].key = keys[k][i]

(***************************************************************************)
(* ws_pae_controller_frame_counter_store().  The sum is one of 32-bit       *)
(* numbers.                                                                 *)
(***************************************************************************)
Due(c, count, useThreshold) ==
    \/ ~useThreshold
    \/ /\ count > (c.stored + StoreThreshold) % (MaxCounter + 1)
       /\ ~(c.stored = MaxCounter /\ count >= MaxCounter - StoreThreshold)

\* stored_frame_counter is not written.
FileOf(cs) ==
    [exists |-> TRUE,
     counters |-> [k \in Kinds |-> [i \in SlotsOf(k) |-> [cs[k][i] EXCEPT !.stored = 0]]]]

\* The counter of a slot after the read: it never goes back for one key.
ReadCount(c, key, read) == IF c.set /\ c.key = key THEN Larger(c.count, read) ELSE read

\* The active key is changed, or set for the first time.
ActivatedAgain(s, k, index, keys) == index \in SlotsOf(k) /\ keys[k][index] # NoKey
Activated(s, k, index, keys) ==
    index \in SlotsOf(k) /\ keys[k][index] # NoKey /\ s.activeIdx[k] # index

UpdateNeededLate(activated, due) == due # {}
UpdateNeeded(activated, due) == activated \/ due # {}

Store(s, k, useThreshold, keys, index, read) ==
    LET installed == {i \in SlotsOf(k) : keys[k][i] # NoKey}
        asked == Asked(s, k, installed)
        count(i) == ReadCount(s.counters[k][i], keys[k][i], read)
        due == {i \in installed : Known(s, k, i, keys)
                                  /\ Due(s.counters[k][i], count(i), useThreshold)}
        stored(i) == IF Known(s, k, i, keys) /\ i \notin due
                     THEN s.counters[k][i].stored ELSE count(i)
        new == [s.counters EXCEPT ![k] = [i \in SlotsOf(k) |->
                   IF i \in installed
                   THEN [set |-> TRUE, key |-> keys[k][i], count |-> count(i), stored |-> stored(i)]
                   ELSE s.counters[k][i]]]
        activated == Activated(s, k, index, keys)
        needed == UpdateNeeded(activated, due)
    IN  [asked EXCEPT
            !.counters = new,
            !.activeIdx[k] = IF activated THEN index ELSE @,
            !.rcp[k] = [i \in SlotsOf(k) |->
                           IF activated /\ i = index THEN count(i) ELSE s.rcp[k][i]],
            !.file = IF needed \/ s.force = 0 THEN FileOf(new) ELSE @]

(***************************************************************************)
(* ws_pae_controller_nw_key_check_and_insert(): the counter of a key that   *)
(* is installed starts from 0 in the RCP; it is set to the stored value if  *)
(* there is one for this key and it exceeds the value that was read.        *)
(***************************************************************************)
Insert(s, k, old, keys, read) ==
    LET fresh == {i \in SlotsOf(k) : keys[k][i] # NoKey /\ keys[k][i] # old[k][i]}
        known == {i \in fresh : Known(s, k, i, keys)}
        reset == [s EXCEPT !.rcp[k] = [i \in SlotsOf(k) |->
                                          IF i \in fresh \/ keys[k][i] = NoKey THEN 0
                                          ELSE s.rcp[k][i]]]
        asked == Asked(reset, k, known)
    IN  [asked EXCEPT !.rcp[k] = [i \in SlotsOf(k) |->
            IF i \in known /\ s.counters[k][i].count > read
            THEN s.counters[k][i].count ELSE @[i]]]

(***************************************************************************)
(* ws_pae_controller_frame_counter_read(): counters read from the file are  *)
(* raised, those of the GTKs at least.                                      *)
(***************************************************************************)
RaisedUnchecked(c) ==
    IF c.set THEN [c EXCEPT !.count = @ + Increment, !.stored = c.count + Increment] ELSE c
Raised(c) ==
    LET count == IF c.count < MaxCounter - Increment * 2 THEN c.count + Increment ELSE MaxCounter
    IN  IF c.set THEN [c EXCEPT !.count = count, !.stored = count] ELSE c

FrameCounterRead(f) ==
    [k \in Kinds |-> [i \in SlotsOf(k) |->
        IF ~f.exists THEN NoCounter
        ELSE IF k = "gtk" THEN Raised(f.counters[k][i])
        ELSE f.counters[k][i]]]
-----------------------------------------------------------------------------
(***************************************************************************)
(* Actions.                                                                 *)
(***************************************************************************)
NoKeys == [k \in Kinds |-> [i \in SlotsOf(k) |-> NoKey]]
Zero == [k \in Kinds |-> [i \in SlotsOf(k) |-> 0]]

\* A random key is a new one.
NewKeys ==
    {key \in Keys :
        /\ top[key] = 0
        /\ \A k \in Kinds : \A i \in SlotsOf(k) :
              key \notin {table[k][i], counters[k][i].key, file.counters[k][i].key}}

Init ==
    /\ mode = "down"
    /\ active = [k \in Kinds |-> 0]
    /\ \E g, l \in Keys :
        /\ g # l
        /\ table = [NoKeys EXCEPT !["gtk"][active["gtk"]] = g, !["lgtk"][active["lgtk"]] = l]
    /\ counters = NoCounters
    /\ activeIdx = [k \in Kinds |-> None]
    /\ rcp = Zero
    /\ mailbox = 0 /\ answers = <<>>
    /\ file = [exists |-> FALSE, counters |-> NoCounters]
    /\ storeTimer = StoreInterval /\ forceTimer = ForceInterval
    /\ top = [key \in Keys |-> 0]
    /\ restarts = 0

\* auth_init and ws_pae_auth_start.  A new process has an empty mailbox.
Start ==
    LET read == IF mode = "down" THEN 0 ELSE mailbox
        s0 == [Here EXCEPT !.counters = FrameCounterRead(file),
                           !.answers = IF mode = "down" THEN <<>> ELSE @]
        s1 == Insert(Insert(s0, "gtk", NoKeys, table, read), "lgtk", NoKeys, table, read)
        s2 == Store(Store(s1, "gtk", TRUE, table, active["gtk"], read),
                    "lgtk", TRUE, table, active["lgtk"], read)
    IN  /\ mode \in {"down", "stopped"}
        /\ mode' = "run"
        /\ mailbox' = read
        /\ Become(s2)
        /\ UNCHANGED <<table, active, storeTimer, top, restarts>>

\* The RCP's answer arrives; which key it is about is not looked at.
Answer ==
    /\ answers # <<>>
    /\ mailbox' = Head(answers) /\ answers' = Tail(answers)
    /\ UNCHANGED <<mode, table, active, counters, activeIdx, rcp, file, storeTimer,
                   forceTimer, top, restarts>>

\* The authenticator installs a key, or a key expires or is revoked.
ChangeKey(k, i, key) ==
    LET keys == [table EXCEPT ![k][i] = key]
    IN  /\ mode = "run" /\ Len(answers) <= MaxUnderWay
        /\ i # active[k] /\ key # table[k][i]
        /\ table' = keys
        /\ Become(Insert(Here, k, table, keys, mailbox))
        /\ UNCHANGED <<mode, active, mailbox, storeTimer, top, restarts>>

\* ws_pae_controller_nw_key_index_check_and_set().  The authenticator makes a
\* key active that has not been, D-Bus any key.
Activate(k, i) ==
    LET s == Store(Here, k, TRUE, table, i, mailbox)
    IN  /\ mode = "run" /\ Len(answers) <= MaxUnderWay
        /\ i # active[k] /\ table[k][i] # NoKey
        /\ top[table[k][i]] = 0 \/ (DbusActive /\ k = "gtk")
        /\ active' = [active EXCEPT ![k] = i]
        /\ Become(s)
        /\ UNCHANGED <<mode, table, mailbox, storeTimer, top, restarts>>

StoreBoth(s) ==
    Store(Store(s, "gtk", TRUE, table, active["gtk"], mailbox),
          "lgtk", TRUE, table, active["lgtk"], mailbox)

\* A second passes, in which frames[k] frames are sent under the active key
\* of kind k; then ws_pae_controller_frame_counter_timer() runs.  The RCP
\* answers a request within a second, and sends nothing at the last counter.
SlowTimer(frames) ==
    LET sent == [k \in Kinds |-> [rcp[k] EXCEPT ![active[k]] = @ + frames[k]]]
        s0 == [Here EXCEPT !.rcp = sent]
        s1 == IF storeTimer > 1 THEN s0 ELSE StoreBoth(s0)
        s2 == IF forceTimer > 1 THEN [s1 EXCEPT !.force = @ - 1]
              ELSE StoreBoth([s1 EXCEPT !.force = 0])
    IN  /\ mode = "run" /\ answers = <<>>
        /\ \A k \in Kinds : sent[k][active[k]] <= MaxCounter
        /\ Become(s2)
        /\ storeTimer' = IF storeTimer > 1 THEN storeTimer - 1 ELSE StoreInterval
        /\ top' = [key \in Keys |->
                      IF \E k \in Kinds : key = table[k][active[k]] /\ frames[k] > 0
                      THEN LET k == CHOOSE k \in Kinds : key = table[k][active[k]] /\ frames[k] > 0
                           IN  Larger(top[key], sent[k][active[k]])
                      ELSE top[key]]
        /\ UNCHANGED <<mode, table, active, mailbox, restarts>>

\* Only the keys and the file survive.
Down(m, f) ==
    /\ restarts < MaxRestarts
    /\ restarts' = restarts + 1
    /\ mode' = m
    /\ counters' = NoCounters
    /\ activeIdx' = [k \in Kinds |-> None]
    /\ rcp' = Zero
    /\ file' = f
    /\ storeTimer' = StoreInterval /\ forceTimer' = ForceInterval
    /\ UNCHANGED <<table, active, top>>

\* ws_pae_controller_stop(): counters are stored whatever they are.
Stop ==
    LET s == Store(Store(Here, "gtk", FALSE, table, active["gtk"], mailbox),
                   "lgtk", FALSE, table, active["lgtk"], mailbox)
    IN  /\ mode = "run"
        /\ Down("stopped", s.file)
        /\ answers' = s.answers
        /\ UNCHANGED mailbox

Crash ==
    /\ mode = "run"
    /\ Down("down", file)
    /\ mailbox' = 0 /\ answers' = <<>>

Next ==
    \/ Start
    \/ Answer
    \/ \E k \in Kinds : \E i \in SlotsOf(k), key \in NewKeys \cup {NoKey} : ChangeKey(k, i, key)
    \/ \E k \in Kinds : \E i \in SlotsOf(k) : Activate(k, i)
    \/ \E frames \in [Kinds -> 0..Rate] : SlowTimer(frames)
    \/ Stop
    \/ Crash

Spec == Init /\ [][Next]_vars

-----------------------------------------------------------------------------
(***************************************************************************)
(* Properties.                                                              *)
(***************************************************************************)
CounterEntry == [set : BOOLEAN, key : Keys \cup {NoKey}, count : Counter, stored : Counter]

\* Indices, counters and timers are in range; a counter read from the file
\* and raised never wraps.
TypeOK ==
    /\ mode \in {"down", "stopped", "run"}
    /\ table \in PerSlot(Keys \cup {NoKey})
    /\ \A k \in Kinds : active[k] \in SlotsOf(k) /\ activeIdx[k] \in SlotsOf(k) \cup {None}
    /\ counters \in PerSlot(CounterEntry)
    /\ rcp \in PerSlot(Counter)
    /\ mailbox \in Counter /\ answers \in Seq(Counter)
    /\ file \in [exists : BOOLEAN, counters : PerSlot(CounterEntry)]
    /\ storeTimer \in 1..StoreInterval /\ forceTimer \in 0..ForceInterval
    /\ top \in [Keys -> Counter] /\ restarts \in 0..MaxRestarts

InUse(k) == table[k][active[k]]

\* ws_pae_controller.c: "this is the last check that stored counters are in
\* sync before activating key".  A key that frames are sent with has an entry
\* of its own in the file, so that a crash at any time does not start its
\* counter from 0 again.
StoredBeforeUse ==
    mode = "run" => \A k \in Kinds :
        LET c == file.counters[k][active[k]] IN c.set /\ c.key = InUse(k)

RcpForward ==
    mode = "run" /\ mode' = "run" => \A k \in Kinds :
        InUse(k)' = InUse(k) => rcp'[k][active[k]] >= rcp[k][active[k]]

FileForward ==
    \A k \in Kinds : \A i \in SlotsOf(k) :
        LET old == file.counters[k][i]
            new == file'.counters[k][i]
        IN  old.set /\ new.set /\ old.key = new.key => new.count >= old.count

\* The counter of the active key is never set back while the daemon runs, and
\* what the file promises for a key never goes back at all, whatever stale
\* answers the RCP gave.
CountersForward == [][RcpForward /\ FileForward]_vars

\* ws_pae_controller.c: "Reads MAC frame counter for the key".  No frame is
\* sent with a counter that was used with the GTK before: the counter in the
\* RCP is never below the first unused one.
GtkCounterUnused == mode = "run" => rcp["gtk"][active["gtk"]] >= top[InUse("gtk")]
=============================================================================
