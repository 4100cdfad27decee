----------------------------- MODULE PaeAuthKeys -----------------------------
(***************************************************************************)
(* The life of the group keys (GTK, and LGTK for low-power nodes) on the    *)
(* border router: the authenticator (ws_pae_auth.c) that installs, rotates, *)
(* revokes and expires them, the PAE controller (ws_pae_controller.c) that  *)
(* mirrors them to the MAC and to the storage file "network-keys", and the  *)
(* restart of the daemon from that file.                                    *)
(*                                                                         *)
(* The daemon is single threaded: a handler runs to its end before the next *)
(* event, so each handler is one action.  The one-second slow timer calls   *)
(* ws_pae_auth_slow_timer_key() once per slot; each call is one action and  *)
(* no other handler runs in between, but the process may be killed there.   *)
(***************************************************************************)
EXTENDS SecProtKeys

CONSTANTS
    Kinds,                  \* the key sets modelled, of {"gtk", "lgtk"}
    ExpireOffset,           \* seconds a key lives after its predecessor
    NewActTime,             \* gtk_new_activation_time: a fraction of ExpireOffset
    NewInstallReq,          \* gtk_new_install_required: percent of ExpireOffset
    RevocatLifetimeReduct,  \* ffn_revocation_lifetime_reduction
    Forced,                 \* Forced[kind][slot]: gtk[slot] of wsbrd.conf, or NoKey
    DbusCalls,              \* D-Bus methods in use, of {"install", "revoke", "revokeWith", "active"}
    FrameCntCheck,          \* BOOLEAN: the MAC may run short of frame counters
    FrameCntTimer,          \* FRAME_CNT_TIMER: seconds between two looks at them
    PanConfigDelay,         \* bound: seconds until a PAN configuration is sent
    TornWrites,             \* BOOLEAN: the process may be killed while it writes
    MaxDowntime,            \* bound: seconds the daemon stays down
    MaxRestarts,            \* bound: number of times it goes down
    MaxLifetime             \* bound: longest lifetime of a key installed over D-Bus

VARIABLES
    mode,       \* "down", "stopped" (controller_stop), "init" (after auth_init), "run"
    gtks,       \* gtks[kind]: sec_keys_nw_info.gtks and .lgtks
    next,       \* next[kind]: next_gtks, keys the configuration wants next
    instReq,    \* instReq[kind]: gtk_new_inst_req_exp
    cntTimer,   \* gtks.prev_frame_cnt_timer (runs if FrameCntCheck)
    mac,        \* mac[kind][slot]: key installed in the MAC
    send,       \* send[kind]: mac_default_(ff|lf)n_key_index, the key frames are sent with
    pend,       \* pending_key_index_info, and the seconds since it was set
    disk,       \* the file network-keys
    wrote,      \* the last handler wrote the file (tracked if TornWrites)
    timer,      \* next <<kind, slot>> of the running slow timer, or Idle
    restarts,   \* times the daemon went down
    silentCut   \* history: kinds with a lifetime cut that nothing marked as due for
                \* a write, and that no write has followed

vars == <<mode, gtks, next, instReq, cntTimer, mac, send, pend, disk, wrote, timer, restarts,
          silentCut>>

(***************************************************************************)
(* The configuration: a key is installed before it is due for activation,   *)
(* and divisors are not zero.                                               *)
(***************************************************************************)
ASSUME KindsAssumption == Kinds # {} /\ Kinds \subseteq {"gtk", "lgtk"}
ASSUME TimersAssumption ==
    /\ ExpireOffset \in Nat \ {0} /\ NewActTime \in Nat \ {0}
    /\ NewInstallReq \in 0..100 /\ RevocatLifetimeReduct \in Nat \ {0}
ASSUME ForcedAssumption == Forced \in [Kinds -> [Slots -> Keys \cup {NoKey}]]
ASSUME BoundsAssumption ==
    /\ MaxDowntime \in Nat /\ MaxRestarts \in Nat /\ MaxLifetime \in Nat
    /\ PanConfigDelay \in Nat
    /\ FrameCntCheck \in BOOLEAN /\ FrameCntTimer \in Nat \ {0} /\ TornWrites \in BOOLEAN

IsLgtk(k) == k = "lgtk"
NoForced == [k \in Kinds |-> [i \in Slots |-> NoKey]]
Idle == <<"idle", 0>>
TimerPoints == (Kinds \X Slots) \cup {Idle}

-----------------------------------------------------------------------------
(***************************************************************************)
(* ws_pae_timers.c                                                          *)
(***************************************************************************)
NewInstallReqSeconds == ExpireOffset - (NewInstallReq * ExpireOffset) \div 100
NewActivationSeconds == ExpireOffset \div NewActTime

NewInstallRequired(seconds) == NewInstallReq > 0 /\ seconds < NewInstallReqSeconds
NewActivationTime(seconds) == seconds < NewActivationSeconds
RevocationLifetime == ExpireOffset \div RevocatLifetimeReduct

-----------------------------------------------------------------------------
(***************************************************************************)
(* The file network-keys.  It keeps absolute expiry times; the model keeps  *)
(* the time that is left, which the passing of time reduces.                *)
(***************************************************************************)
NoDisk == [exists |-> FALSE, own_eui64 |-> FALSE,
           keys |-> [k \in Kinds |-> [i \in Slots |-> EmptyEntry]]]

DiskOf(ks, eui) == [exists |-> TRUE, own_eui64 |-> eui,
                    keys |-> [k \in Kinds |-> ks[k].gtk]]

Aged(d, seconds) ==
    [d EXCEPT !.keys = [k \in Kinds |-> [i \in Slots |->
        [d.keys[k][i] EXCEPT !.lifetime = IF @ > seconds THEN @ - seconds ELSE 0]]]]

(***************************************************************************)
(* A handler's effects, threaded through the calls it makes.                *)
(***************************************************************************)
Here == [gtks |-> gtks, next |-> next, instReq |-> instReq, mac |-> mac,
         send |-> send, pend |-> pend, disk |-> disk, wrote |-> FALSE]

Become(s) ==
    /\ gtks' = s.gtks /\ next' = s.next /\ instReq' = s.instReq
    /\ mac' = s.mac /\ send' = s.send /\ pend' = s.pend
    /\ disk' = s.disk /\ wrote' = s.wrote

\* Writes both key sets, but looks at the GTK set's flag only.
NwInfoUpdatedCheck(s) ==
    IF "gtk" \in Kinds /\ s.gtks["gtk"].updated
    THEN [s EXCEPT !.gtks = [k \in Kinds |-> UpdatedReset(s.gtks[k])],
                   !.disk = DiskOf(s.gtks, TRUE), !.wrote = TornWrites]
    ELSE s

\* What nw_key_check_and_insert leaves in the MAC: exactly the keys that are set.
NwKeys(ks, k) ==
    [i \in Slots |-> IF i < NumKeys(IsLgtk(k)) THEN KeyAt(ks, i) ELSE NoKey]

NetworkKeysFromGtksSet(s, k) ==
    [s EXCEPT !.gtks[k] = StatusAllFreshSet(@),
              !.mac[k] = NwKeys(s.gtks[k], k)]

(***************************************************************************)
(* The index of the key to send with.  Once it sends with a GTK, the border *)
(* router first sends a PAN configuration under the new GTK and switches    *)
(* when that frame has gone out (ws_bootstrap_nw_key_index_set).            *)
(***************************************************************************)
NoPending == [state |-> "none", index |-> 0, age |-> 0]

NetworkKeyIndexSet(s, k, i) ==
    IF k = "gtk" /\ s.send[k] \notin {None, i}
    THEN [s EXCEPT !.pend = [@ EXCEPT !.state = "advertise", !.index = i]]
    ELSE [s EXCEPT !.send[k] = i]

(***************************************************************************)
(* Installing a key: it expires ExpireOffset after the last installed one.  *)
(***************************************************************************)
GtkInsert(ks, key, k) ==
    StatusAllFreshSet(GtkSet(ks, InstallIndex(ks, IsLgtk(k)), key,
                             ExpireOffset + InstallOrderLastLifetime(ks)))

\* Takes the first of the configured next keys, if there is one and a second
\* key is installed already, and otherwise a random key.
GtkKeyInsert(s, k, random) ==
    LET n == InstallOrderFirstIndex(s.next[k])
        useNext == n # None /\ InstallOrderSecondIndex(s.gtks[k]) # None
        value == IF useNext THEN KeyAt(s.next[k], n) ELSE random
    IN  [s EXCEPT !.gtks[k] = GtkInsert(@, value, k),
                  !.next[k] = IF useNext THEN GtkSet(@, n, value, 0) ELSE @]

\* A random key is none of the keys in use.
Random == Keys \ UNION {{gtks[k].gtk[i].key : i \in Slots} \cup
                        {next[k].gtk[i].key : i \in Slots} : k \in Kinds}

RandomKeys == {r \in [Kinds -> Random] : \A k, l \in Kinds : k # l => r[k] # r[l]}

-----------------------------------------------------------------------------
(***************************************************************************)
(* The steps of ws_pae_auth_slow_timer_key() for the active key.            *)
(*                                                                         *)
(* gtk_new_act_time_exp is set and reset in one pass, so it is always false *)
(* between handlers and is no variable.                                     *)
(***************************************************************************)
NewInstall(s, k, left, random) ==
    IF s.instReq[k] \/ ~NewInstallRequired(left) THEN s
    ELSE LET due == [s EXCEPT !.instReq[k] = TRUE]
         IN  IF InstallOrderSecondIndex(s.gtks[k]) # None THEN due
             ELSE NwInfoUpdatedCheck(
                      NetworkKeysFromGtksSet(GtkKeyInsert(due, k, random), k))

NewActivationKeepsIndex(s, k, left) ==
    IF ~NewActivationTime(left) THEN s
    ELSE LET second == InstallOrderSecondIndex(s.gtks[k])
         IN  NwInfoUpdatedCheck(
                 [s EXCEPT !.gtks[k] = StatusActiveSet(@, second),
                           !.instReq[k] = FALSE])

NewActivation(s, k, left) ==
    IF ~NewActivationTime(left) THEN s
    ELSE LET second == InstallOrderSecondIndex(s.gtks[k])
             active == [s EXCEPT !.gtks[k] = StatusActiveSet(@, second)]
             sent == IF second # None THEN NetworkKeyIndexSet(active, k, second)
                                      ELSE active
         IN  NwInfoUpdatedCheck([sent EXCEPT !.instReq[k] = FALSE])

ExpireKeepsMac(s, k, i) == NwInfoUpdatedCheck([s EXCEPT !.gtks[k] = GtkClear(@, i)])

Expire(s, k, i) ==
    NwInfoUpdatedCheck(
        NetworkKeysFromGtksSet([s EXCEPT !.gtks[k] = GtkClear(@, i)], k))

(***************************************************************************)
(* ws_pae_auth_lifetime_key_frame_cnt_check(): how far the lifetime of the  *)
(* active GTK may be cut because frame counters are used up too fast.  The  *)
(* counters are data; what the function can return is a cut that leaves at  *)
(* least the time of the next install, or exactly the time of the next      *)
(* install or of the next activation.  The counters are looked at every     *)
(* FRAME_CNT_TIMER seconds.                                                 *)
(***************************************************************************)
FrameCntCut(k, left) ==
    IF k # "gtk" \/ ~FrameCntCheck \/ cntTimer > 1 THEN {0}
    ELSE {c \in 0..left : \/ left - c > NewInstallReqSeconds
                          \/ c = 0
                          \/ left - c = NewInstallReqSeconds
                          \/ left - c = NewActivationSeconds}

FrameCntTimerNext(k, i) ==
    IF ~FrameCntCheck \/ k # "gtk" \/ StatusActiveGet(gtks[k]) # i THEN cntTimer
    ELSE IF cntTimer > 1 THEN cntTimer - 1
    ELSE FrameCntTimer

SlowTimerKey(s, k, i, cut, random) ==
    LET active == StatusActiveGet(s.gtks[k]) = i
        older == [s EXCEPT !.gtks[k] = LifetimeDecrement(@, i, 1 + cut)]
        left == older.gtks[k].gtk[i].lifetime
        rotated == NewActivation(NewInstall(older, k, left, random), k, left)
        kept == IF ~active THEN older
                ELSE IF cut # 0 THEN NwInfoUpdatedCheck(rotated)
                ELSE rotated
    IN  IF ~s.gtks[k].gtk[i].set THEN s
        ELSE IF left = 0 THEN Expire(kept, k, i)
        ELSE kept

(***************************************************************************)
(* Revocation of a node: the active key, or else the one after it, is cut   *)
(* short, the keys installed after that one are removed (the last first)    *)
(* and a new key is installed.                                              *)
(***************************************************************************)
RevokeIndex(ks) ==
    LET active == StatusActiveGet(ks)
        second == InstallOrderSecondIndex(ks)
    IN  IF ks.gtk[active].lifetime > RevocationLifetime \/ second = None
        THEN active ELSE second

RevokeCutSecondOnly(ks) ==
    LET active == StatusActiveGet(ks)
        second == InstallOrderSecondIndex(ks)
    IN  IF ks.gtk[active].lifetime <= RevocationLifetime /\ second # None
        THEN LifetimeDecrement(ks, second, ks.gtk[second].lifetime)
        ELSE ks

RevokeCut(ks) ==
    LET active == StatusActiveGet(ks)
        second == InstallOrderSecondIndex(ks)
        left == ks.gtk[active].lifetime
        limit == left + RevocationLifetime
    IN  IF left > RevocationLifetime
        THEN LifetimeDecrement(ks, active, left - RevocationLifetime)
        ELSE IF second # None /\ ks.gtk[second].lifetime > limit
        THEN LifetimeDecrement(ks, second, ks.gtk[second].lifetime - limit)
        ELSE ks

ClearLast(ks, keep) ==
    LET last == InstallOrderLastIndex(ks)
    IN  IF last \in {None, keep} THEN ks ELSE GtkClear(ks, last)

\* The loop ends after at most GTK_NUM (four) turns.
ClearAfter(ks, keep) ==
    ClearLast(ClearLast(ClearLast(ClearLast(ks, keep), keep), keep), keep)

RevokeKeysAll(ks) ==
    IF StatusActiveGet(ks) = None THEN ks ELSE ClearAfter(RevokeCut(ks), None)

RevokeKeys(ks) ==
    IF StatusActiveGet(ks) = None THEN ks
    ELSE ClearAfter(RevokeCut(ks), RevokeIndex(ks))

RevokeStartCutLate(s, k, given, random) ==
    LET saved == NwInfoUpdatedCheck(
                     NetworkKeysFromGtksSet(GtkKeyInsert(s, k, random), k))
    IN  [saved EXCEPT !.gtks[k] = IF StatusActiveGet(@) = None THEN @ ELSE RevokeCut(@)]

RevokeStart(s, k, given, random) ==
    LET cut == [s EXCEPT !.gtks[k] = RevokeKeys(@)]
        new == IF given # NoKey
               THEN [cut EXCEPT !.gtks[k] = GtkInsert(@, given, k)]
               ELSE GtkKeyInsert(cut, k, random)
    IN  NwInfoUpdatedCheck(NetworkKeysFromGtksSet(new, k))

RevokeAll(s, given, random) ==
    LET g == IF "gtk" \in Kinds THEN RevokeStart(s, "gtk", given["gtk"], random["gtk"])
             ELSE s
    IN  IF "lgtk" \in Kinds THEN RevokeStart(g, "lgtk", given["lgtk"], random["lgtk"])
        ELSE g

-----------------------------------------------------------------------------
(***************************************************************************)
(* Start of the daemon: keys forced by wsbrd.conf (wsbr_configure_ws), then *)
(* ws_pae_controller_auth_init().                                           *)
(***************************************************************************)
ForceKey(ks, i, value, lifetime) ==
    IF i \in Slots /\ value[i] # NoKey THEN GtkSet(ks, i, value[i], lifetime) ELSE ks

ForceNextKey(ks, i, value) == ForceKey(ks, i, value, 0)

ForceGtk(ks, i, value) ==
    ForceKey(ks, i, value, InstallOrderLastLifetime(ks) + ExpireOffset)

IsForced(k) == \E i \in Slots : Forced[k][i] # NoKey

GtkUpdate(k) ==
    LET ks == ForceGtk(ForceGtk(ForceGtk(ForceGtk(
                  GtksInit, 0, Forced[k]), 1, Forced[k]), 2, Forced[k]), 3, Forced[k])
    IN  IF ~IsForced(k) THEN GtksInit
        ELSE StatusActiveSet(StatusAllFreshSet(ks), InstallOrderFirstIndex(ks))

\* wsbr_configure_ws passes the GTKs, not the LGTKs, as the next LGTKs.
NextGtkUpdate(k) ==
    LET value == IF "gtk" \in Kinds THEN Forced["gtk"] ELSE Forced[k]
        n(ks, i) == IF i < NumKeys(IsLgtk(k)) THEN ForceNextKey(ks, i, value) ELSE ks
    IN  IF ~IsForced(k) THEN GtksInit
        ELSE n(n(n(n(GtksInit, 0), 1), 2), 3)

\* Keys that have not expired are copied to the slots that are not set.
ReadKeys(ks, entries) ==
    [ks EXCEPT !.gtk = [i \in Slots |->
        IF ~ks.gtk[i].set /\ entries[i].set /\ entries[i].lifetime > 0
        THEN entries[i] ELSE ks.gtk[i]]]

\* A file written under another EUI-64 clears every key.
NwInfoRead(ks, d) ==
    IF ~d.exists THEN ks
    ELSE [k \in Kinds |-> IF d.own_eui64 THEN ReadKeys(ks[k], d.keys[k]) ELSE GtksInit]

\* auth_init: forced keys go to the MAC, then the file is read, and written
\* back without the EUI-64 if one of the key sets came out empty.
AuthInit(d, configured) ==
    LET none == [k \in Kinds |-> GtksInit]
        forced == IF configured THEN [k \in Kinds |-> GtkUpdate(k)] ELSE none
        read == NwInfoRead([k \in Kinds |-> UpdatedReset(forced[k])], d)
        rewrite == d.exists /\ \E k \in Kinds : SetSlots(read[k]) = {}
    IN  [gtks |-> read,
         next |-> IF configured THEN [k \in Kinds |-> NextGtkUpdate(k)] ELSE none,
         instReq |-> [k \in Kinds |-> FALSE],
         mac |-> [k \in Kinds |-> NwKeys(forced[k], k)],
         send |-> [k \in Kinds |-> None], pend |-> NoPending,
         disk |-> IF rewrite THEN DiskOf(read, FALSE) ELSE d,
         wrote |-> rewrite /\ TornWrites]

\* ws_pae_auth_start for one key set: without an active key, a new key is
\* installed and the first key in install order is made active.
StartKind(s, k, random) ==
    LET inserted == GtkKeyInsert(s, k, random)
        first == InstallOrderFirstIndex(inserted.gtks[k])
    IN  IF StatusActiveGet(s.gtks[k]) # None THEN s
        ELSE [inserted EXCEPT !.gtks[k] = StatusActiveSet(@, first)]

\* The index it is told to send with is the one computed above.
StartIndex(s, k, random) ==
    IF StatusActiveGet(s.gtks[k]) # None THEN StatusActiveGet(s.gtks[k])
    ELSE InstallOrderFirstIndex(GtkKeyInsert(s, k, random).gtks[k])

StartAll(s, random) ==
    LET g == IF "gtk" \in Kinds THEN StartKind(s, "gtk", random["gtk"]) ELSE s
        l == IF "lgtk" \in Kinds THEN StartKind(g, "lgtk", random["lgtk"]) ELSE g
        n == NwInfoUpdatedCheck(l)
    IN  [n EXCEPT !.gtks = [k \in Kinds |-> StatusAllFreshSet(n.gtks[k])],
                  !.mac = [k \in Kinds |-> NwKeys(n.gtks[k], k)],
                  !.send = [k \in Kinds |-> StartIndex(s, k, random[k])]]

-----------------------------------------------------------------------------
(***************************************************************************)
(* Actions.                                                                 *)
(***************************************************************************)
Down(d) ==
    /\ gtks' = [k \in Kinds |-> GtksInit]
    /\ next' = [k \in Kinds |-> GtksInit]
    /\ instReq' = [k \in Kinds |-> FALSE]
    /\ cntTimer' = FrameCntTimer
    /\ mac' = [k \in Kinds |-> [i \in Slots |-> NoKey]]
    /\ send' = [k \in Kinds |-> None]
    /\ pend' = NoPending
    /\ disk' = d
    /\ wrote' = FALSE
    /\ timer' = Idle
    /\ silentCut' = {}

Init ==
    /\ mode = "down"
    /\ gtks = [k \in Kinds |-> GtksInit]
    /\ next = [k \in Kinds |-> GtksInit]
    /\ instReq = [k \in Kinds |-> FALSE]
    /\ cntTimer = FrameCntTimer
    /\ mac = [k \in Kinds |-> [i \in Slots |-> NoKey]]
    /\ send = [k \in Kinds |-> None]
    /\ pend = NoPending
    /\ disk = NoDisk
    /\ wrote = FALSE
    /\ timer = Idle
    /\ restarts = 0
    /\ silentCut = {}

\* The process starts (mode down), or the interface is brought up again after
\* a stop, when the configured keys are not set a second time.
Boot(seconds) ==
    /\ mode \in {"down", "stopped"}
    /\ Become(AuthInit(Aged(disk, seconds), mode = "down"))
    /\ mode' = "init"
    /\ cntTimer' = FrameCntTimer
    /\ UNCHANGED <<timer, restarts, silentCut>>

\* Runs in the same handler as auth_init: only a crash can come in between.
Start(random) ==
    /\ mode = "init"
    /\ Become(StartAll(Here, random))
    /\ mode' = "run"
    /\ UNCHANGED <<cntTimer, timer, restarts, silentCut>>

FirstPoint == IF "gtk" \in Kinds THEN <<"gtk", 0>> ELSE <<"lgtk", 0>>

\* The trickle timer does not let a PAN configuration wait for ever.
PanConfigInTime == pend.state # "none" => pend.age < PanConfigDelay

\* A second has passed.
SlowTimer ==
    /\ mode = "run" /\ timer = Idle
    /\ PanConfigInTime
    /\ timer' = FirstPoint
    /\ pend' = IF pend.state = "none" THEN pend ELSE [pend EXCEPT !.age = @ + 1]
    /\ disk' = Aged(disk, 1)
    /\ wrote' = FALSE
    /\ UNCHANGED <<mode, gtks, next, instReq, cntTimer, mac, send, restarts, silentCut>>

AfterPastEnd(k, i) ==
    IF i < NumKeys(IsLgtk(k)) THEN <<k, i + 1>>
    ELSE IF k = "gtk" /\ "lgtk" \in Kinds THEN <<"lgtk", 0>>
    ELSE Idle

After(k, i) ==
    IF i + 1 < NumKeys(IsLgtk(k)) THEN <<k, i + 1>>
    ELSE IF k = "gtk" /\ "lgtk" \in Kinds THEN <<"lgtk", 0>>
    ELSE Idle

\* A write of the file saves the lifetimes of both key sets.
StillSilent(cuts) == IF disk' = disk THEN cuts ELSE {}

\* The cut for the frame counters (cut # 0) sets no updated flag.
TimerKey(k, i, cut, random) ==
    /\ mode = "run" /\ timer = <<k, i>>
    /\ cut # 0 => StatusActiveGet(gtks[k]) = i
    /\ Become(SlowTimerKey(Here, k, i, cut, random))
    /\ cntTimer' = FrameCntTimerNext(k, i)
    /\ timer' = After(k, i)
    /\ silentCut' = StillSilent(IF cut = 0 THEN silentCut ELSE silentCut \cup {k})
    /\ UNCHANGED <<mode, restarts>>

\* D-Bus InstallGtk / InstallLgtk.  Does not call nw_info_updated.
InstallGtk(k, key) ==
    /\ "install" \in DbusCalls
    /\ mode = "run" /\ timer = Idle
    /\ InstallOrderLastLifetime(gtks[k]) + ExpireOffset <= MaxLifetime
    /\ Become(NetworkKeysFromGtksSet([Here EXCEPT !.gtks[k] = GtkInsert(@, key, k)], k))
    /\ UNCHANGED <<mode, cntTimer, timer, restarts, silentCut>>

InUse(key, k) == \E i \in SetSlots(gtks[k]) : gtks[k].gtk[i].key = key

\* D-Bus RevokeGroupKeys: the GTKs, then the LGTKs.  given[k] is the caller's
\* new key, or NoKey.  A key that is in its slot already is not set again, and
\* then nothing marks the lifetimes that were cut.
RevokeGroupKeys(given, random) ==
    /\ \A k \in Kinds :
        /\ IF given[k] = NoKey THEN "revoke" \in DbusCalls ELSE "revokeWith" \in DbusCalls
        /\ InstallOrderLastLifetime(RevokeKeys(gtks[k])) + ExpireOffset <= MaxLifetime
    /\ mode = "run" /\ timer = Idle
    /\ Become(RevokeAll(Here, given, random))
    /\ silentCut' = StillSilent(silentCut) \cup {k \in Kinds : InUse(given[k], k)}
    /\ UNCHANGED <<mode, cntTimer, timer, restarts>>

\* D-Bus setWisunGtkActiveKey: the MAC is given the index whatever the slot holds.
ActiveKeyUpdate(i) ==
    /\ "active" \in DbusCalls /\ "gtk" \in Kinds
    /\ mode = "run" /\ timer = Idle
    /\ Become(NetworkKeyIndexSet(
                  [Here EXCEPT !.gtks["gtk"] = StatusActiveSet(@, i)], "gtk", i))
    /\ UNCHANGED <<mode, cntTimer, timer, restarts, silentCut>>

\* A PAN configuration is sent, under the pending key if there is one.
PanConfigSend ==
    /\ mode = "run" /\ timer = Idle /\ pend.state = "advertise"
    /\ pend' = [pend EXCEPT !.state = "activate"]
    /\ wrote' = FALSE
    /\ UNCHANGED <<mode, gtks, next, instReq, cntTimer, mac, send, disk, timer, restarts, silentCut>>

\* It has gone out.
PanConfigConfirm ==
    /\ mode = "run" /\ timer = Idle /\ pend.state = "activate"
    /\ pend' = NoPending
    /\ send' = [send EXCEPT !["gtk"] = pend.index]
    /\ wrote' = FALSE
    /\ UNCHANGED <<mode, gtks, next, instReq, cntTimer, mac, disk, timer, restarts, silentCut>>

\* ws_pae_controller_stop()
Stop ==
    /\ mode = "run" /\ timer = Idle
    /\ restarts < MaxRestarts
    /\ restarts' = restarts + 1
    /\ Down(NwInfoUpdatedCheck(Here).disk)
    /\ mode' = "stopped"

\* storage_open(.., "w") truncates the file: killed while it writes, the
\* process leaves the entries of some of the first slots, or nothing.
Torn(d, n) ==
    [exists |-> TRUE, own_eui64 |-> d.own_eui64,
     keys |-> [k \in Kinds |-> [i \in Slots |->
                  IF k = "gtk" /\ i < n THEN d.keys[k][i] ELSE EmptyEntry]]]

\* The process is killed: only the file survives.
Crash ==
    /\ mode \in {"init", "run"}
    /\ restarts < MaxRestarts
    /\ restarts' = restarts + 1
    /\ \/ Down(disk)
       \/ TornWrites /\ wrote /\ \E n \in Slots : Down(Torn(disk, n))
    /\ mode' = "down"

Next ==
    \/ \E seconds \in 0..MaxDowntime : Boot(seconds)
    \/ \E random \in RandomKeys : Start(random)
    \/ SlowTimer
    \/ \E k \in Kinds, i \in Slots, random \in Random :
          \E cut \in FrameCntCut(k, gtks[k].gtk[i].lifetime) : TimerKey(k, i, cut, random)
    \/ \E k \in Kinds, key \in Keys : InstallGtk(k, key)
    \/ \E given \in [Kinds -> Keys \cup {NoKey}], random \in RandomKeys :
          RevokeGroupKeys(given, random)
    \/ \E i \in Slots : ActiveKeyUpdate(i)
    \/ PanConfigSend
    \/ PanConfigConfirm
    \/ Stop
    \/ Crash

(***************************************************************************)
(* The main loop serves every timer event, auth_init and start follow each  *)
(* other, and a supervisor restarts the daemon.  Each formula names the one *)
(* variable that the step moves, under Next it can be moved by that step    *)
(* only.                                                                    *)
(***************************************************************************)
Fairness ==
    /\ WF_timer(mode = "run" /\ timer = Idle /\ PanConfigInTime /\ timer' = FirstPoint)
    /\ WF_vars(PanConfigSend) /\ WF_vars(PanConfigConfirm)
    /\ WF_timer(mode = "run" /\ timer # Idle /\ timer' = After(timer[1], timer[2]))
    /\ WF_mode(mode \in {"down", "stopped"} /\ mode' = "init")
    /\ WF_mode(mode = "init" /\ mode' = "run")

Spec == Init /\ [][Next]_vars
FairSpec == Spec /\ Fairness

-----------------------------------------------------------------------------
(***************************************************************************)
(* Properties.                                                              *)
(***************************************************************************)
DiskType == [exists : BOOLEAN, own_eui64 : BOOLEAN,
             keys : [Kinds -> [Slots -> GtkEntry]]]

PendType == [state : {"none", "advertise", "activate"}, index : Slots,
             age : 0..PanConfigDelay]

\* Slots, install orders, lifetimes and timers are in range: in particular the
\* walk of the slow timer over the slots never leaves the tables.
TypeOK ==
    /\ mode \in {"down", "stopped", "init", "run"}
    /\ gtks \in [Kinds -> KeySet]
    /\ next \in [Kinds -> KeySet]
    /\ instReq \in [Kinds -> BOOLEAN]
    /\ cntTimer \in 1..FrameCntTimer
    /\ mac \in [Kinds -> [Slots -> Keys \cup {NoKey}]]
    /\ send \in [Kinds -> Slots \cup {None}]
    /\ pend \in PendType
    /\ disk \in DiskType
    /\ wrote \in BOOLEAN
    /\ timer \in TimerPoints
    /\ restarts \in 0..MaxRestarts
    /\ silentCut \subseteq Kinds

\* No two keys of a set share an install order, over every sequence of
\* installs, expiries, revocations, crashes in the middle of a write and
\* restarts, as long as the configuration forces no key: the scans for the
\* first, second and last key in sec_prot_keys.c have one answer.  (At a
\* restart, keys of the file fill the slots between forced keys, and the two
\* are numbered independently.)
InstallOrderDistinct == \A k \in Kinds : DistinctOrders(gtks[k].gtk)

\* At most one key of a set is active, and an active key is set.
SingleActive ==
    \A k \in Kinds :
        OneActive(gtks[k].gtk) /\ ActiveIsSet(gtks[k].gtk)

\* Once started, the MAC holds exactly the keys of the authenticator: no
\* expired or revoked key stays installed, and no advertised key is missing.
MacInSync == mode = "run" => \A k \in Kinds : mac[k] = NwKeys(gtks[k], k)

\* Once started, frames are sent with a key that the MAC has, and it is the
\* active key unless the switch to that one is still being advertised: the
\* old key does not expire before the switch is made.
SendsWithActive ==
    mode = "run" => \A k \in Kinds :
        /\ send[k] # None /\ mac[k][send[k]] # NoKey
        /\ LET active == StatusActiveGet(gtks[k])
           IN  \/ active = send[k] /\ (k = "gtk" => pend.state = "none")
               \/ k = "gtk" /\ pend.state # "none" /\ active = pend.index

\* wsbrd.conf: "The point (in percentage of (L)GTK's lifetime) at which a new
\* (L)GTK must be installed on the border router (supporting overlapping
\* lifespans)".  When the timer has passed that point, and until the next
\* activation, a key that outlives the active one is installed.
SuccessorInstalled ==
    mode = "run" /\ timer = Idle => \A k \in Kinds : instReq[k] =>
        LET a == StatusActiveGet(gtks[k])
        IN  a # None /\ \E i \in SetSlots(gtks[k]) :
                /\ gtks[k].gtk[i].status = "fresh"
                /\ gtks[k].gtk[i].lifetime > gtks[k].gtk[a].lifetime

\* Keys expire in the order they were installed in.
ExpireInOrder ==
    timer = Idle => \A k \in Kinds : \A i, j \in SetSlots(gtks[k]) :
        gtks[k].gtk[i].install_order < gtks[k].gtk[j].install_order
        => gtks[k].gtk[i].lifetime <= gtks[k].gtk[j].lifetime

\* The file holds every key the running border router has, with its install
\* order, and no key that is out of use (old) is usable there, up to changes
\* made over D-Bus that no later event has saved.  Making a key active when
\* none was is not saved either (sec_prot_keys_gtk_status_active_set).
KeysSaved ==
    mode = "run" /\ timer = Idle => \A k \in Kinds :
        ~gtks[k].updated => \A i \in SetSlots(gtks[k]) :
            LET saved == disk.keys[k][i]
                entry == gtks[k].gtk[i]
            IN  /\ disk.own_eui64
                /\ saved.set /\ saved.key = entry.key
                /\ saved.install_order = entry.install_order
                /\ \/ saved.status = entry.status
                   \/ saved.status = "fresh" /\ entry.status = "active"

\* The file promises no key a longer life than the running border router
\* does: a restart does not undo a revocation.  (A file written in the middle
\* of a timer round is one second behind.)  Two cuts are left out until the
\* next write, since they set no updated flag: the one for the frame counters
\* (ws_pae_auth.c:868), which a restart does undo, and that of a revocation
\* whose caller gives a key the set already has.
LifetimesSaved ==
    mode = "run" /\ timer = Idle => \A k \in Kinds \ silentCut :
        ~gtks[k].updated => \A i \in SetSlots(gtks[k]) :
            disk.keys[k][i].lifetime <= gtks[k].gtk[i].lifetime + 1

\* A running border router never takes the active key away while it has time
\* left: it stays in its slot, active or old, until it expires.
ActiveKeyStays ==
    [][mode = "run" /\ mode' = "run" =>
        \A k \in Kinds, i \in Slots :
            gtks[k].gtk[i].status = "active" /\ gtks[k].gtk[i].lifetime > 1
            => /\ gtks'[k].gtk[i].key = gtks[k].gtk[i].key
               /\ gtks'[k].gtk[i].status \in {"active", "old"}]_vars

\* Every key that is active is replaced by another one some day: the points in
\* its lifetime at which the slow timer installs and activates the next key
\* are not missed.
Rotates ==
    \A k \in Kinds, key \in Keys :
        (\E i \in Slots : gtks[k].gtk[i].status = "active" /\ gtks[k].gtk[i].key = key)
        ~> (\E i \in Slots : gtks[k].gtk[i].status = "active" /\ gtks[k].gtk[i].key # key)
=============================================================================
