---------------------------- MODULE KeyHandshake ----------------------------
(***************************************************************************)
(* How one node gets its keys from the border router: the initial EAPOL-Key *)
(* message of the node, EAP-TLS for a new pairwise master key (PMK), the    *)
(* 4-way handshake (4WH) for a pairwise transient key (PTK) and the group   *)
(* key handshake (GKH) for each further group key (GTK), with both ends,    *)
(* the messages between them, the node's file keys-<EUI-64> and a restart   *)
(* of the border router.                                                    *)
(*                                                                         *)
(* Abstractions.  A PTK is the triple of what it is computed from; a MIC is *)
(* the PTK that made it.  EAP-TLS is one step that gives both ends a new    *)
(* PMK.  A handler and the start of the protocol it triggers are one step   *)
(* (the event between them is in PaeAuthSupplicants).  Key lifetimes and    *)
(* LGTKs are left out; the node keeps listening.                            *)
(***************************************************************************)
EXTENDS Integers, Sequences, FiniteSets, SequencesExt

CONSTANTS
    Slots,      \* 0..GTK_NUM-1
    LongLifetime,   \* BOOLEAN: expire_offset > SHORT_GTK_LIFETIME
    CntLimit,   \* PMK_KEY_REPLAY_CNT_LIMIT: 60000
    CntMask,    \* PMK_KEY_REPLAY_CNT_LIMIT_MASK: 65535
    MaxGtk,     \* bound: group keys there will ever be
    MaxTries,   \* times a message is sent before a handshake is given up
    MaxFaults   \* bound: losses, duplicates, early timeouts, crashes, revocations

VARIABLES
    gtk,        \* gtk[i]: the group key in slot i, a number, 0 if none
    act,        \* the slot of the active group key
    auth,       \* the border router's entry of the node (supp_entry_t.sec_keys)
    fwh,        \* its 4WH
    gkh,        \* the tries of its GKHs, newest first
    mka,        \* its EAP-TLS: "none", "run" or "tls" (only the TLS half is left)
    file,       \* the file keys-<EUI-64>
    node,       \* the node's keys
    nfwh,       \* the node's 4WH
    net,        \* messages under way
    fresh,      \* the last PMK or nonce made up
    faults,
    installs,   \* PTKs in the order the node installed them
    dead        \* PMKs that were revoked

vars == <<gtk, act, auth, fwh, gkh, mka, file, node, nfwh, net, fresh, faults,
          installs, dead>>

ASSUME SlotsAssumption == 0 \in Slots /\ Slots \subseteq Nat /\ IsFiniteSet(Slots)
ASSUME LimitsAssumption ==
    LongLifetime \in BOOLEAN /\ CntLimit \in Nat /\ CntMask \in Nat /\ CntLimit < CntMask
ASSUME BoundsAssumption == MaxGtk \in Nat \ {0} /\ MaxTries \in Nat \ {0} /\ MaxFaults \in Nat

None == -1
NoPmk == 0
NoPtk == <<>>
Ptk(pmk, anonce, snonce) == <<pmk, anonce, snonce>>
NoKmp == [st |-> "none"]

\* sec_prot_keys_init() on a new entry.
NewEntry ==
    [live |-> TRUE, pmk |-> NoPmk, cnt |-> None, ptk |-> NoPtk, pmkMis |-> FALSE,
     ptkMis |-> FALSE, gtkl |-> {}, set |-> None, hash |-> [i \in Slots |-> 0],
     bits |-> {}, revoked |-> FALSE]
NoEntry == [NewEntry EXCEPT !.live = FALSE]
NoFile == [exists |-> FALSE]

-----------------------------------------------------------------------------
(***************************************************************************)
(* The replay counter of the PMK.  None: it is not set, and then it is 0.   *)
(* Above the limit it is spent: the increment fails, and a message that     *)
(* needs it is not sent, whatever else its sender goes on to do.            *)
(***************************************************************************)
CntGet(c) == IF c = None THEN 0 ELSE c
Spent(c) == c > CntLimit
Incremented(c) == IF Spent(c) THEN CntMask ELSE c + 1
SentIfCounted(s, m) == IF Spent(s.auth.cnt) THEN s.sent ELSE s.sent \cup {m}
Newer(received, c) == received > c

(***************************************************************************)
(* ws_pae_key_storage.c.  The bit of an installed hash is set from the      *)
(* text of the hash and not from its index: any slot's, or none's.          *)
(***************************************************************************)
SuppWrite(e) ==
    [exists |-> TRUE, pmk |-> e.pmk, cnt |-> e.cnt, ptk |-> e.ptk,
     hash |-> [i \in Slots |-> IF i \in e.bits THEN e.hash[i] ELSE 0],
     stored |-> Cardinality(e.bits)]

SuppRead(f, bits) ==
    IF ~f.exists THEN NewEntry
    ELSE [NewEntry EXCEPT !.pmk = f.pmk, !.cnt = f.cnt,
                          !.ptk = IF f.pmk = NoPmk THEN NoPtk ELSE f.ptk,
                          !.hash = f.hash, !.bits = bits]

BitsRead(f) ==
    IF ~f.exists THEN {{}} ELSE {b \in SUBSET Slots : Cardinality(b) <= f.stored}
-----------------------------------------------------------------------------
(***************************************************************************)
(* The border router.  A handler's effects are threaded through the calls   *)
(* it makes.                                                                *)
(***************************************************************************)
Here == [auth |-> auth, fwh |-> fwh, gkh |-> gkh, mka |-> mka, sent |-> {},
         fresh |-> fresh]

Become(s, received) ==
    /\ auth' = s.auth /\ fwh' = s.fwh /\ gkh' = s.gkh /\ mka' = s.mka
    /\ fresh' = s.fresh
    /\ net' = (net \ received) \cup s.sent

\* sec_prot_keys_gtk_insert_index_from_gtkl_get(); None leaves gtk_set_index.
MissingSlots(e) == {i \in Slots : gtk[i] # 0 /\ i \notin e.gtkl}
InsertIndexActive(e) == IF act \in MissingSlots(e) THEN act ELSE None
InsertIndex(e) ==
    IF act \in MissingSlots(e) THEN act
    ELSE IF MissingSlots(e) = {} THEN None
    ELSE CHOOSE i \in MissingSlots(e) : \A j \in MissingSlots(e) : i <= j

\* sec_prot_keys_get_gtk_to_insert()
ToInsert(e) == IF e.set # None /\ gtk[e.set] # 0 THEN e.set ELSE None

\* sec_prot_keys_ptk_installed_gtk_hash_set()
HashSet(e) ==
    IF ToInsert(e) = None THEN e
    ELSE [e EXCEPT !.hash[e.set] = gtk[e.set], !.bits = @ \cup {e.set}]

\* sec_prot_keys_ptk_installed_gtk_hash_mismatch_check(): the bit of slot 0
\* is 1 and taken for no mismatch.
HashMismatch(e, i) == e.set \in e.bits /\ e.set # 0 /\ gtk[i] # 0 /\ e.hash[e.set] # gtk[i]

\* auth_fwh_sec_prot_message_send() of message 1, with a new nonce.
SendM1(s, tries) ==
    LET cnt == Incremented(s.auth.cnt)
        anonce == s.fresh + 1
    IN  [s EXCEPT !.auth.cnt = cnt, !.fresh = anonce,
                  !.fwh = [st |-> "msg2", anonce |-> anonce, ptk |-> NoPtk, tries |-> tries],
                  !.sent = SentIfCounted(s, [t |-> "m1", cnt |-> cnt, pmk |-> s.auth.pmk,
                                             a |-> anonce])]

\* Message 3: it has to hold a group key, the active one if none is to be inserted.
SendM3(s, ptk, tries) ==
    LET cnt == Incremented(s.auth.cnt)
        i == IF ToInsert(s.auth) # None THEN ToInsert(s.auth) ELSE act
    IN  [s EXCEPT !.auth.cnt = cnt,
                  !.fwh = [@ EXCEPT !.st = "msg4", !.ptk = ptk, !.tries = tries],
                  !.sent = SentIfCounted(s, [t |-> "m3", cnt |-> cnt, a |-> s.fwh.anonce,
                                             mic |-> ptk, idx |-> i, key |-> gtk[i]])]

\* auth_gkh_sec_prot_message_send(); without a key to insert the message has no KDEs.
SendG1(s) ==
    LET cnt == Incremented(s.auth.cnt)
        i == ToInsert(s.auth)
        key == IF i = None THEN 0 ELSE gtk[i]
    IN  [s EXCEPT !.auth.cnt = cnt,
                  !.sent = SentIfCounted(s, [t |-> "g1", cnt |-> cnt, mic |-> s.auth.ptk,
                                             idx |-> i, key |-> key])]

\* The state machines on KMP-CREATE.request.
StartFwh(s) == IF s.auth.pmk = NoPmk THEN [s EXCEPT !.fwh = NoKmp] ELSE SendM1(s, 1)
StartGkh(s) == LET sent == SendG1(s)
               IN  [sent EXCEPT !.gkh = <<1>> \o @, !.auth = HashSet(@)]

\* With an EAP-TLS there already, the new one is deleted because of the TLS
\* instance that is left.
StartMka(s) == [s EXCEPT !.mka = IF @ = "none" THEN "run" ELSE "tls"]

(***************************************************************************)
(* ws_pae_auth_next_kmp_trigger() and ws_pae_auth_next_protocol_get().      *)
(***************************************************************************)
Trigger(s) ==
    LET e == s.auth
        i == InsertIndex(e)
        e1 == IF i = None THEN e ELSE [e EXCEPT !.set = i]
        reuse == LongLifetime /\ i # None /\ HashMismatch(e1, i)
    IN  IF e.pmkMis THEN StartMka([s EXCEPT !.auth.ptkMis = TRUE])
        ELSE IF e.ptkMis THEN StartFwh([s EXCEPT !.auth = e1])
        ELSE IF reuse THEN StartFwh([s EXCEPT !.auth = [e1 EXCEPT !.ptkMis = TRUE]])
        ELSE IF i # None THEN StartGkh([s EXCEPT !.auth = e1])
        ELSE [s EXCEPT !.auth = e1]
-----------------------------------------------------------------------------
(***************************************************************************)
(* What the environment may do a limited number of times.  A timeout is     *)
(* free once nothing is under way.                                          *)
(***************************************************************************)
Fault == faults < MaxFaults /\ faults' = faults + 1
FreeIf(quiet) == IF quiet THEN UNCHANGED faults ELSE Fault

\* The messages a receiver takes off the network: a duplicate stays.
Taken(m, received) == \/ received = {m} /\ UNCHANGED faults
                      \/ received = {} /\ Fault

Init ==
    /\ gtk = [i \in Slots |-> IF i = 0 THEN 1 ELSE 0] /\ act = 0
    /\ auth = NoEntry /\ fwh = NoKmp /\ gkh = <<>> /\ mka = "none"
    /\ file = NoFile
    /\ node = [pmk |-> NoPmk, cnt |-> None, ptk |-> NoPtk, gtks |-> [i \in Slots |-> 0]]
    /\ nfwh = NoKmp
    /\ net = {} /\ fresh = 0 /\ faults = 0
    /\ installs = <<>> /\ dead = {}

(***************************************************************************)
(* Group keys, as PaeAuthKeys changes them: a key is put in a slot that is  *)
(* not active, and the newest key becomes active.                           *)
(***************************************************************************)
Newest == CHOOSE i \in Slots : \A j \in Slots : gtk[j] <= gtk[i]

NewGtk(i) ==
    /\ i # act /\ act = Newest /\ gtk[Newest] < MaxGtk
    /\ gtk' = [gtk EXCEPT ![i] = gtk[Newest] + 1]
    /\ UNCHANGED <<act, auth, fwh, gkh, mka, file, node, nfwh, net, fresh, faults,
                   installs, dead>>

Activate ==
    /\ act # Newest
    /\ act' = Newest
    /\ UNCHANGED <<gtk, auth, fwh, gkh, mka, file, node, nfwh, net, fresh, faults,
                   installs, dead>>

-----------------------------------------------------------------------------
(***************************************************************************)
(* The border router's handlers.                                            *)
(***************************************************************************)
Router == <<gtk, act, file, node, nfwh, installs, dead>>   \* what they leave alone

\* ws_pae_auth_kmp_incoming_ind(): the entry is there or is read from the file.
EntryFor(bits) == IF auth.live THEN auth ELSE SuppRead(file, bits)
EntryBits == IF auth.live THEN {{}} ELSE BitsRead(file)

\* The initial EAPOL-Key message (key_sec_prot_receive): it wipes a running
\* EAP-TLS and tells which keys the node has.
PtkMismatchIfNone(e, ptk) == ptk = NoPtk
PtkMismatch(e, ptk) == ptk = NoPtk \/ ptk # e.ptk
RecvKey(m, received, bits) ==
    LET e == EntryFor(bits)
        known == [e EXCEPT !.pmkMis = m.pmk = NoPmk \/ m.pmk # e.pmk,
                           !.ptkMis = PtkMismatch(e, m.ptk), !.gtkl = m.gtkl]
    IN  /\ m.t = "key"
        /\ Taken(m, received)
        /\ Become(Trigger([Here EXCEPT !.auth = known, !.mka = IF @ = "run" THEN "none" ELSE @]),
                  received)
        /\ UNCHANGED Router

M2Valid(m) ==
    /\ fwh.st = "msg2" /\ m.cnt = CntGet(auth.cnt) /\ auth.pmk # NoPmk
    /\ m.mic = Ptk(auth.pmk, fwh.anonce, m.s)

RecvM2(m, received) ==
    /\ m.t = "m2" /\ M2Valid(m)
    /\ Taken(m, received)
    /\ Become(SendM3(Here, m.mic, 1), received)
    /\ UNCHANGED Router

\* The PTK is written only now, and is fresh for any GTK.
M4CounterValid(m) == fwh.st = "msg4" /\ m.cnt = CntGet(auth.cnt)
M4Valid(m) == fwh.st = "msg4" /\ m.cnt = CntGet(auth.cnt) /\ m.mic = fwh.ptk
GtklFromInsertIndex(e) ==
    IF e.set = None THEN e ELSE [e EXCEPT !.gtkl = @ \cup {e.set}, !.set = None]
PtkWrittenOnly(e, ptk) ==
    [GtklFromInsertIndex(HashSet(e)) EXCEPT !.ptkMis = FALSE, !.ptk = ptk]
PtkWritten(e, ptk) ==
    LET cleared == [e EXCEPT !.hash = [i \in Slots |-> 0], !.bits = {}]
    IN  [GtklFromInsertIndex(HashSet(cleared)) EXCEPT !.ptkMis = FALSE, !.ptk = ptk]

RecvM4(m, received) ==
    /\ m.t = "m4" /\ M4Valid(m)
    /\ Taken(m, received)
    /\ Become(Trigger([Here EXCEPT !.auth = PtkWritten(@, fwh.ptk), !.fwh = NoKmp]), received)
    /\ UNCHANGED Router

\* The newest GKH takes the message.
G2Valid(m) == gkh # <<>> /\ m.cnt = CntGet(auth.cnt) /\ m.mic = auth.ptk
RecvG2(m, received) ==
    /\ m.t = "g2" /\ G2Valid(m)
    /\ Taken(m, received)
    /\ Become(Trigger([Here EXCEPT !.auth = GtklFromInsertIndex(@), !.gkh = Tail(@)]), received)
    /\ UNCHANGED Router

\* A message no instance takes still makes an entry.
AuthDiscard(m, bits) ==
    /\ \/ m.t = "m2" /\ ~M2Valid(m) /\ ~(fwh.st = "msg2" /\ auth.pmk = NoPmk /\ m.cnt = CntGet(auth.cnt))
       \/ m.t = "m4" /\ ~M4Valid(m)
       \/ m.t = "g2" /\ ~G2Valid(m)
    /\ Become([Here EXCEPT !.auth = EntryFor(bits)], {m})
    /\ UNCHANGED <<gtk, act, file, node, nfwh, faults, installs, dead>>

\* The trickle timer of the 4WH: message 1 with a new nonce, message 3 with
\* the old one, or the end.  Without a PMK there is no message 1.
FwhTimeout ==
    LET s == CASE fwh.tries >= MaxTries -> [Here EXCEPT !.fwh = NoKmp]
               [] fwh.tries < MaxTries /\ fwh.st = "msg2" ->
                     IF auth.pmk = NoPmk THEN [Here EXCEPT !.fwh.tries = @ + 1]
                     ELSE SendM1(Here, fwh.tries + 1)
               [] OTHER -> SendM3(Here, fwh.ptk, fwh.tries + 1)
    IN  /\ fwh # NoKmp
        /\ FreeIf(net = {})
        /\ Become(s, {})
        /\ UNCHANGED Router

GkhTimeout(n) ==
    LET s == IF gkh[n] >= MaxTries THEN [Here EXCEPT !.gkh = RemoveAt(@, n)]
             ELSE [SendG1(Here) EXCEPT !.gkh[n] = @ + 1]
    IN  /\ FreeIf(net = {})
        /\ Become(s, {})
        /\ UNCHANGED Router

\* EAP-TLS ends well: both ends have a new PMK, whose counter is not set.
MkaDone ==
    LET pmk == fresh + 1
        e == [auth EXCEPT !.pmk = pmk, !.cnt = None, !.pmkMis = FALSE]
    IN  /\ mka = "run"
        /\ node' = [node EXCEPT !.pmk = pmk, !.cnt = None]
        /\ Become(Trigger([Here EXCEPT !.auth = e, !.fresh = pmk, !.mka = "none"]), {})
        /\ UNCHANGED <<gtk, act, file, nfwh, faults, installs, dead>>

\* EAP-TLS, or what is left of it, times out.
MkaTimeout ==
    /\ mka # "none"
    /\ FreeIf(mka = "tls")
    /\ Become([Here EXCEPT !.mka = "none"], {})
    /\ UNCHANGED Router

\* ws_pae_lib_supp_list_to_inactive(): nothing is written for a revoked node.
KmpsDoneButMka == fwh = NoKmp /\ gkh = <<>>
KmpsDone == fwh = NoKmp /\ gkh = <<>> /\ mka = "none"
SavedAs(e) == IF e.revoked THEN file ELSE SuppWrite(e)
Inactive ==
    /\ auth.live /\ KmpsDone
    /\ FreeIf(net = {})
    /\ file' = SavedAs(auth)
    /\ auth' = NoEntry
    /\ UNCHANGED <<gtk, act, fwh, gkh, mka, node, nfwh, net, fresh, installs, dead>>

\* The storing interval of an active entry is over.
StoreTimeout ==
    /\ auth.live
    /\ Fault
    /\ file' = SuppWrite(auth)
    /\ UNCHANGED <<gtk, act, auth, fwh, gkh, mka, node, nfwh, net, fresh, installs, dead>>

\* ws_pae_auth_node_keys_remove()
FileKept == file
FileAfterRevoke == NoFile
Revoke ==
    /\ auth.live \/ file.exists
    /\ Fault
    /\ auth' = IF auth.live THEN [auth EXCEPT !.pmk = NoPmk, !.cnt = None, !.ptk = NoPtk,
                                             !.revoked = TRUE]
               ELSE auth
    /\ file' = FileAfterRevoke
    /\ dead' = dead \cup ({auth.pmk, IF file.exists THEN file.pmk ELSE NoPmk} \ {NoPmk})
    /\ UNCHANGED <<gtk, act, fwh, gkh, mka, node, nfwh, net, fresh, installs>>

\* Only the group keys and the file survive.
Down(received) ==
    /\ auth' = NoEntry /\ fwh' = NoKmp /\ gkh' = <<>> /\ mka' = "none"
    /\ net' = net \ received
    /\ UNCHANGED <<gtk, act, file, node, nfwh, fresh, installs, dead>>

Crash == auth.live /\ Fault /\ Down({})

\* auth_fwh_sec_prot_ptk_generate() reads the PMK that was revoked meanwhile
\* through a null pointer.
NullPmk(m) ==
    /\ m.t = "m2" /\ fwh.st = "msg2" /\ auth.pmk = NoPmk /\ m.cnt = CntGet(auth.cnt)
    /\ Down({m})
    /\ UNCHANGED faults
-----------------------------------------------------------------------------
(***************************************************************************)
(* The node's handlers.                                                     *)
(***************************************************************************)
Supplicant == <<gtk, act, auth, fwh, gkh, mka, file, dead>>

HasAll == node.ptk # NoPtk /\ \A i \in Slots : gtk[i] # 0 => node.gtks[i] = gtk[i]

\* The node sees that the hashes of the group keys are not those of its own,
\* drops the keys that do not fit and sends the initial EAPOL-Key message.
NodeStart ==
    LET fit == {i \in Slots : gtk[i] # 0 /\ node.gtks[i] = gtk[i]}
    IN  /\ ~HasAll
        /\ FreeIf(net = {} /\ KmpsDone /\ nfwh = NoKmp)
        /\ node' = [node EXCEPT !.gtks = [i \in Slots |-> IF i \in fit THEN @[i] ELSE 0]]
        /\ net' = net \cup {[t |-> "key", pmk |-> node.pmk, ptk |-> node.ptk, gtkl |-> fit]}
        /\ UNCHANGED Supplicant /\ UNCHANGED <<nfwh, fresh, installs>>

\* supp_fwh_sec_prot_recv_replay_cnt_compare(): the counter of the session.
SessionNewer(m) == nfwh # NoKmp => Newer(m.cnt, nfwh.rcnt)

\* Message 1 in the states MESSAGE_1 and MESSAGE_3: a new nonce and a new PTK.
M1Valid(m) ==
    /\ nfwh.st # "retry" /\ Newer(m.cnt, node.cnt) /\ SessionNewer(m)
    /\ m.pmk = node.pmk

RecvM1(m, received) ==
    LET snonce == fresh + 1
        ptk == Ptk(node.pmk, m.a, snonce)
    IN  /\ m.t = "m1" /\ M1Valid(m)
        /\ Taken(m, received)
        /\ nfwh' = [st |-> "msg3", anonce |-> m.a, ptk |-> ptk, rcnt |-> m.cnt]
        /\ fresh' = snonce
        /\ net' = (net \ received) \cup {[t |-> "m2", cnt |-> m.cnt, s |-> snonce, mic |-> ptk]}
        /\ UNCHANGED Supplicant /\ UNCHANGED <<node, installs>>

\* Message 3 in the states MESSAGE_3 and MESSAGE_3_RETRY_WAIT: the PTK is
\* written the first time only.
M3Valid(m) ==
    /\ nfwh.st \in {"msg3", "retry"} /\ Newer(m.cnt, node.cnt)
    /\ m.mic = nfwh.ptk /\ m.a = nfwh.anonce

InstallsPtkAgain == TRUE
InstallsPtk == nfwh.st = "msg3"

RecvM3(m, received) ==
    /\ m.t = "m3" /\ M3Valid(m)
    /\ Taken(m, received)
    /\ node' = [node EXCEPT !.gtks[m.idx] = m.key, !.cnt = m.cnt, !.ptk = nfwh.ptk]
    /\ nfwh' = [nfwh EXCEPT !.st = "retry", !.rcnt = m.cnt]
    /\ installs' = IF InstallsPtk THEN Append(installs, nfwh.ptk) ELSE installs
    /\ net' = (net \ received) \cup {[t |-> "m4", cnt |-> m.cnt, mic |-> nfwh.ptk]}
    /\ UNCHANGED Supplicant /\ UNCHANGED fresh

\* The node's GKH.
G1Valid(m) == Newer(m.cnt, node.cnt) /\ m.mic = node.ptk /\ m.idx # None

RecvG1(m, received) ==
    /\ m.t = "g1" /\ G1Valid(m)
    /\ Taken(m, received)
    /\ node' = [node EXCEPT !.gtks[m.idx] = m.key, !.cnt = m.cnt]
    /\ net' = (net \ received) \cup {[t |-> "g2", cnt |-> m.cnt, mic |-> node.ptk]}
    /\ UNCHANGED Supplicant /\ UNCHANGED <<nfwh, fresh, installs>>

NodeDiscard(m) ==
    /\ \/ m.t = "m1" /\ ~M1Valid(m)
       \/ m.t = "m3" /\ ~M3Valid(m)
       \/ m.t = "g1" /\ ~G1Valid(m)
    /\ net' = net \ {m}
    /\ UNCHANGED Supplicant /\ UNCHANGED <<node, nfwh, fresh, faults, installs>>

\* The node's 4WH times out, or has waited for a repeated message 3 long enough.
NodeTimeout ==
    /\ nfwh # NoKmp
    /\ FreeIf(net = {} /\ fwh = NoKmp)
    /\ nfwh' = NoKmp
    /\ UNCHANGED Supplicant /\ UNCHANGED <<node, net, fresh, installs>>

Lose(m) ==
    /\ Fault
    /\ net' = net \ {m}
    /\ UNCHANGED Supplicant /\ UNCHANGED <<node, nfwh, fresh, installs>>

-----------------------------------------------------------------------------
Receive(m) ==
    \/ \E received \in {{}, {m}} :
          \/ \E bits \in EntryBits : RecvKey(m, received, bits)
          \/ RecvM2(m, received) \/ RecvM4(m, received) \/ RecvG2(m, received)
          \/ RecvM1(m, received) \/ RecvM3(m, received) \/ RecvG1(m, received)
    \/ \E bits \in EntryBits : AuthDiscard(m, bits)
    \/ NodeDiscard(m)
    \/ NullPmk(m)

Step ==
    \/ \E m \in net : Receive(m)
    \/ FwhTimeout
    \/ \E n \in DOMAIN gkh : GkhTimeout(n)
    \/ MkaDone \/ MkaTimeout
    \/ Inactive
    \/ NodeStart \/ NodeTimeout

Next ==
    \/ Step
    \/ \E i \in Slots : NewGtk(i)
    \/ Activate
    \/ \E m \in net : Lose(m)
    \/ StoreTimeout \/ Revoke \/ Crash

Spec == Init /\ [][Next]_vars

\* Where Step is enabled.
Busy ==
    \/ net # {} \/ fwh # NoKmp \/ gkh # <<>> \/ mka # "none" \/ auth.live
    \/ nfwh # NoKmp \/ ~HasAll

\* The main loop keeps handling messages and timers: WF_vars(Step), written out.
FairSpec == Spec /\ ([]<>~Busy \/ []<><<Step>>_vars)

-----------------------------------------------------------------------------
(***************************************************************************)
(* Properties.                                                              *)
(***************************************************************************)
IsPtk(p) == p = NoPtk \/ p \in (1..fresh) \X (1..fresh) \X (1..fresh)

\* Records have their fields, keys and nonces were made up before they are
\* used, and a GKH or 4WH belongs to an entry.
TypeOK ==
    /\ gtk \in [Slots -> 0..MaxGtk] /\ act \in Slots /\ gtk[act] # 0
    /\ auth.pmk \in 0..fresh /\ auth.cnt \in Nat \cup {None} /\ IsPtk(auth.ptk)
    /\ auth.gtkl \subseteq Slots /\ auth.bits \subseteq Slots /\ auth.set \in Slots \cup {None}
    /\ auth.hash \in [Slots -> 0..MaxGtk]
    /\ ~auth.live => auth = NoEntry /\ fwh = NoKmp /\ gkh = <<>> /\ mka = "none"
    /\ fwh # NoKmp => fwh.st \in {"msg2", "msg4"} /\ fwh.tries \in 1..MaxTries /\ IsPtk(fwh.ptk)
    /\ \A n \in DOMAIN gkh : gkh[n] \in 1..MaxTries
    /\ mka \in {"none", "run", "tls"}
    /\ file.exists => file.pmk \in 0..fresh /\ IsPtk(file.ptk)
    /\ node.pmk \in 0..fresh /\ node.gtks \in [Slots -> 0..MaxGtk] /\ IsPtk(node.ptk)
    /\ nfwh # NoKmp => nfwh.st \in {"msg3", "retry"} /\ nfwh.anonce \in 1..fresh
    /\ \A m \in net : m.t \in {"key", "m1", "m2", "m3", "m4", "g1", "g2"}
    /\ faults \in 0..MaxFaults

\* The border router holds a PTK for the node, in memory or in the file, only
\* after the node has installed it: message 4 comes last.
PtkAgreed ==
    \A p \in {auth.ptk, IF file.exists THEN file.ptk ELSE NoPtk} \ {NoPtk} : p \in Range(installs)

\* A PTK is installed once, however often message 3 is sent again.
InstalledOnce == \A j, k \in DOMAIN installs : installs[j] = installs[k] => j = k

\* A GKH sends group keys only under a PTK of which the node has proved that it
\* has installed it, as long as no node's access is revoked under way.
GroupKeyProtected ==
    dead = {} => \A m \in net : m.t = "g1" => m.mic \in Range(installs)

\* A revoked PMK never comes back, be it from the entry that was active or
\* from the file.
RevokedStaysOut ==
    auth.pmk \notin dead /\ (file.exists => file.pmk \notin dead)

\* auth_fwh_sec_prot.c goes on with its instance after finished_ind(): the 4WH
\* that just made a PTK must not have been deleted for another 4WH.
NoSelfDelete ==
    [][auth'.ptk \notin {NoPtk, auth.ptk} /\ auth.live => fwh' = NoKmp]_vars

\* The node ends up with a PTK and with every group key.
EventuallyKeyed == <>[]HasAll
=============================================================================
