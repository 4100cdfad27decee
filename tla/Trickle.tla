------------------------------ MODULE Trickle ------------------------------
(***************************************************************************)
(* The Trickle timer of src/common/trickle.c (RFC 6206): what each call     *)
(* makes of a timer [e, I, t, now, c].  The code draws random times, so an  *)
(* operator returns the set of timers that a call may leave behind.         *)
(* A parameter set is [Imin, Imax, k, Expirations].                         *)
(***************************************************************************)
EXTENDS Integers

CONSTANTS TimeMax, Infinite     \* TRICKLE_TIME_MAX, TRICKLE_EXPIRATIONS_INFINITE

CounterMax == 255               \* UINT8_MAX

\* trickle_begin_interval()
FireTimes(I) == IF I > 2 THEN (I \div 2)..(I - 1) ELSE {1}
BeginInterval(tr) == {[tr EXCEPT !.c = 0, !.t = x, !.now = 0] : x \in FireTimes(tr.I)}

\* trickle_start()
Start(p) ==
    UNION {BeginInterval([e |-> 0, I |-> I, t |-> 1, now |-> 0, c |-> 0]) : I \in p.Imin..p.Imax}

\* trickle_stop()
Stop(tr) == [tr EXCEPT !.e = Infinite]

\* trickle_running()
Running(tr, p) == tr.e < p.Expirations

\* trickle_reset_timer()
ResetTimer(tr, p) == BeginInterval([tr EXCEPT !.e = 0, !.I = p.Imin])

\* trickle_consistent_heard()
ConsistentHeard(tr) == [tr EXCEPT !.c = IF @ < CounterMax THEN @ + 1 ELSE @]

\* trickle_inconsistent_heard()
InconsistentHeard(tr, p) ==
    IF tr.I # p.Imin \/ ~Running(tr, p) THEN ResetTimer(tr, p) ELSE {tr}

\* trickle_timer(), of one tick.
DoubledNoLimit(I, p) == IF I <= TimeMax \div 2 THEN 2 * I ELSE TimeMax
Doubled(I, p) ==
    LET twice == IF I <= TimeMax \div 2 THEN 2 * I ELSE TimeMax
    IN  IF twice > p.Imax THEN p.Imax ELSE twice

Ticked(tr, p) ==
    LET now == IF tr.now = TimeMax THEN TimeMax ELSE tr.now + 1
    IN  IF ~Running(tr, p) THEN {tr}
        ELSE IF now < tr.I THEN {[tr EXCEPT !.now = now]}
        ELSE BeginInterval([tr EXCEPT !.I = Doubled(@, p),
                                      !.e = IF @ < Infinite - 1 THEN @ + 1 ELSE @])

\* What a timer may hold between calls.
Timers(p) ==
    [e : 0..Infinite, I : p.Imin..p.Imax, t : 1..p.Imax, now : 0..p.Imax, c : 0..CounterMax]
=============================================================================
