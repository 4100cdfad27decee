------------------------- MODULE KeyHandshakeProofs -------------------------
(***************************************************************************)
(* Theorems about KeyHandshake, for every number of slots, group keys,      *)
(* tries and faults.                                                        *)
(*                                                                         *)
(* The border router's handlers thread a record through the calls they      *)
(* make, so there is one lemma per call about what it does to that record;  *)
(* then the conjuncts of the inductive invariant, one by one, and one step  *)
(* per action under each.                                                   *)
(***************************************************************************)
EXTENDS KeyHandshake, NatInductionLemmas, FiniteSetTheorems

-----------------------------------------------------------------------------
(***************************************************************************)
(* The inductive invariant.  f is the last PMK or nonce made up.            *)
(***************************************************************************)
Ptks(f) == (1..f) \X (1..f) \X (1..f)
Tries == 1..MaxTries
GtkNumber == 0..MaxGtk

EntryType(f) ==
    [live : BOOLEAN, pmk : 0..f, cnt : Nat \cup {None}, ptk : Ptks(f) \cup {NoPtk},
     pmkMis : BOOLEAN, ptkMis : BOOLEAN, gtkl : SUBSET Slots, set : Slots \cup {None},
     hash : [Slots -> GtkNumber], bits : SUBSET Slots, revoked : BOOLEAN]

FwhType(f) ==
    [st : {"msg2", "msg4"}, anonce : 1..f, ptk : Ptks(f) \cup {NoPtk}, tries : Tries]
    \cup {NoKmp}

FileType(f) ==
    [exists : {TRUE}, pmk : 0..f, cnt : Nat \cup {None}, ptk : Ptks(f) \cup {NoPtk},
     hash : [Slots -> GtkNumber], stored : Nat] \cup {NoFile}

NodeType(f) ==
    [pmk : 0..f, cnt : Nat \cup {None}, ptk : Ptks(f) \cup {NoPtk},
     gtks : [Slots -> GtkNumber]]

NFwhType(f) ==
    [st : {"msg3", "retry"}, anonce : 1..f, ptk : Ptks(f), rcnt : Nat] \cup {NoKmp}

KeyMsg(f) == [t : {"key"}, pmk : 0..f, ptk : Ptks(f) \cup {NoPtk}, gtkl : SUBSET Slots]
M1(f) == [t : {"m1"}, cnt : Nat, pmk : 1..f, a : 1..f]
M2(f) == [t : {"m2"}, cnt : Nat, s : 1..f, mic : Ptks(f)]
M3(f) == [t : {"m3"}, cnt : Nat, a : 1..f, mic : Ptks(f) \cup {NoPtk}, idx : Slots, key : GtkNumber]
M4(f) == [t : {"m4"}, cnt : Nat, mic : Ptks(f)]
G1(f) == [t : {"g1"}, cnt : Nat, mic : Ptks(f) \cup {NoPtk}, idx : Slots \cup {None},
          key : GtkNumber]
G2(f) == [t : {"g2"}, cnt : Nat, mic : Ptks(f) \cup {NoPtk}]
Msg(f) == KeyMsg(f) \cup M1(f) \cup M2(f) \cup M3(f) \cup M4(f) \cup G1(f) \cup G2(f)

KeysTyped == gtk \in [Slots -> GtkNumber] /\ act \in Slots /\ gtk[act] # 0

Typed ==
    /\ KeysTyped
    /\ fresh \in Nat /\ faults \in 0..MaxFaults
    /\ auth \in EntryType(fresh) /\ fwh \in FwhType(fresh)
    /\ gkh \in Seq(Tries) /\ mka \in {"none", "run", "tls"}
    /\ file \in FileType(fresh) /\ node \in NodeType(fresh) /\ nfwh \in NFwhType(fresh)
    /\ net \subseteq Msg(fresh)
    /\ installs \in Seq(Ptks(fresh)) /\ dead \subseteq 1..fresh

\* Nothing runs without an entry.
Idle == ~auth.live => auth = NoEntry /\ fwh = NoKmp /\ gkh = <<>> /\ mka = "none"

\* The PTK a node waits to install is new; the one it has installed, the ones
\* it has confirmed and the ones the border router keeps are installed ones.
Agreed ==
    /\ nfwh.st = "msg3" => nfwh.ptk \notin Range(installs)
    /\ nfwh.st = "retry" => nfwh.ptk \in Range(installs)
    /\ \A m \in net : m.t = "m4" => m.mic \in Range(installs)
    /\ auth.ptk # NoPtk => auth.ptk \in Range(installs)
    /\ file.exists => (file.ptk # NoPtk => file.ptk \in Range(installs))

\* Until somebody's access is revoked, a group key is sent, or will be, only
\* with a PTK.
Protected ==
    dead = {} =>
        /\ auth.pmk = NoPmk => auth.ptk = NoPtk /\ gkh = <<>> /\ fwh.st # "msg4"
        /\ gkh # <<>> => auth.ptk # NoPtk
        /\ mka = "run" => auth.ptkMis \/ auth.ptk # NoPtk
        /\ \A m \in net : m.t = "g1" => m.mic # NoPtk /\ m.mic \in Range(installs)

Inv == Typed /\ Idle /\ Agreed /\ InstalledOnce /\ Protected /\ RevokedStaysOut

-----------------------------------------------------------------------------
(***************************************************************************)
(* Types grow with the keys and nonces made up.                             *)
(***************************************************************************)
LEMMA PtksGrow ==
    ASSUME NEW f \in Nat, NEW g \in Nat, f <= g
    PROVE  Ptks(f) \subseteq Ptks(g) /\ 1..f \subseteq 1..g /\ 0..f \subseteq 0..g
BY DEF Ptks

LEMMA TypesGrow ==
    ASSUME NEW f \in Nat, NEW g \in Nat, f <= g
    PROVE  /\ EntryType(f) \subseteq EntryType(g) /\ FwhType(f) \subseteq FwhType(g)
           /\ FileType(f) \subseteq FileType(g) /\ NodeType(f) \subseteq NodeType(g)
           /\ NFwhType(f) \subseteq NFwhType(g)
<1>1. Ptks(f) \subseteq Ptks(g) /\ 1..f \subseteq 1..g /\ 0..f \subseteq 0..g  BY PtksGrow
<1>2. EntryType(f) \subseteq EntryType(g)  BY <1>1 DEF EntryType
<1>3. FwhType(f) \subseteq FwhType(g)  BY <1>1 DEF FwhType
<1>4. FileType(f) \subseteq FileType(g)  BY <1>1 DEF FileType
<1>5. NodeType(f) \subseteq NodeType(g)  BY <1>1 DEF NodeType
<1>6. NFwhType(f) \subseteq NFwhType(g)  BY <1>1 DEF NFwhType
<1> QED  BY <1>2, <1>3, <1>4, <1>5, <1>6

LEMMA MsgGrow ==
    ASSUME NEW f \in Nat, NEW g \in Nat, f <= g
    PROVE  Msg(f) \subseteq Msg(g)
<1>1. Ptks(f) \subseteq Ptks(g) /\ 1..f \subseteq 1..g /\ 0..f \subseteq 0..g  BY PtksGrow
<1>2. KeyMsg(f) \subseteq KeyMsg(g)  BY <1>1 DEF KeyMsg
<1>3. M1(f) \subseteq M1(g)  BY <1>1 DEF M1
<1>4. M2(f) \subseteq M2(g)  BY <1>1 DEF M2
<1>5. M3(f) \subseteq M3(g)  BY <1>1 DEF M3
<1>6. M4(f) \subseteq M4(g)  BY <1>1 DEF M4
<1>7. G1(f) \subseteq G1(g)  BY <1>1 DEF G1
<1>8. G2(f) \subseteq G2(g)  BY <1>1 DEF G2
<1> QED  BY <1>2, <1>3, <1>4, <1>5, <1>6, <1>7, <1>8 DEF Msg

\* A message's tag tells its fields.
LEMMA MsgByTag ==
    ASSUME NEW f \in Nat, NEW m \in Msg(f)
    PROVE  /\ m.t = "key" => m \in KeyMsg(f)
           /\ m.t = "m1" => m \in M1(f)
           /\ m.t = "m2" => m \in M2(f)
           /\ m.t = "m3" => m \in M3(f)
           /\ m.t = "m4" => m \in M4(f)
           /\ m.t = "g1" => m \in G1(f)
           /\ m.t = "g2" => m \in G2(f)
           /\ m.t \in {"key", "m1", "m2", "m3", "m4", "g1", "g2"}
BY DEF Msg, KeyMsg, M1, M2, M3, M4, G1, G2

LEMMA SeqGrow ==
    ASSUME NEW S, NEW T, S \subseteq T, NEW q \in Seq(S)
    PROVE  q \in Seq(T)
OBVIOUS

\* Nothing is no PTK.
LEMMA NoPtkIsNone == ASSUME NEW f PROVE NoPtk \notin Ptks(f)
BY DEF NoPtk, Ptks

\* A group key is newest: there are finitely many numbers.
LEMMA NewestIsSlot ==
    ASSUME KeysTyped
    PROVE  Newest \in Slots /\ \A j \in Slots : gtk[j] <= gtk[Newest]
<1> DEFINE gap == {MaxGtk - gtk[j] : j \in Slots}
<1>1. gap \subseteq Nat /\ gap # {}
    BY BoundsAssumption DEF KeysTyped, GtkNumber
<1>2. PICK x \in gap : \A y \in gap : x <= y  BY <1>1, LeastNat
<1>3. PICK i \in Slots : x = MaxGtk - gtk[i]  BY <1>2
<1>4. \A j \in Slots : gtk[j] <= gtk[i]
    BY <1>2, <1>3, BoundsAssumption DEF KeysTyped, GtkNumber
<1> QED  BY <1>4 DEF Newest

-----------------------------------------------------------------------------
(***************************************************************************)
(* The calls of the border router's handlers.                               *)
(***************************************************************************)
RState(f) ==
    [auth : EntryType(f), fwh : FwhType(f), gkh : Seq(Tries),
     mka : {"none", "run", "tls"}, sent : SUBSET Msg(f), fresh : {f}]

LEMMA InsertIndexType ==
    ASSUME KeysTyped, NEW e
    PROVE  /\ InsertIndex(e) \in MissingSlots(e) \cup {None}
           /\ InsertIndex(e) \in Slots \cup {None}
<1>1. MissingSlots(e) \subseteq Slots  BY DEF MissingSlots
<1>2. CASE act \in MissingSlots(e) \/ MissingSlots(e) = {}
    BY <1>1, <1>2 DEF InsertIndex
<1>3. CASE act \notin MissingSlots(e) /\ MissingSlots(e) # {}
    <2>1. \E i \in MissingSlots(e) : \A j \in MissingSlots(e) : i <= j
        BY <1>1, <1>3, SlotsAssumption, LeastNat
    <2> QED  BY <1>1, <1>3, <2>1 DEF InsertIndex
<1> QED  BY <1>2, <1>3

LEMMA ToInsertType ==
    ASSUME KeysTyped, NEW f, NEW e \in EntryType(f)
    PROVE  ToInsert(e) \in Slots \cup {None}
BY DEF ToInsert, EntryType

LEMMA HashSetType ==
    ASSUME KeysTyped, NEW f, NEW e \in EntryType(f)
    PROVE  /\ HashSet(e) \in EntryType(f)
           /\ HashSet(e).ptk = e.ptk /\ HashSet(e).pmk = e.pmk
           /\ HashSet(e).ptkMis = e.ptkMis /\ HashSet(e).live = e.live
           /\ HashSet(e).pmkMis = e.pmkMis /\ HashSet(e).gtkl = e.gtkl
           /\ HashSet(e).set = e.set /\ HashSet(e).bits \subseteq e.bits \cup {e.set}
<1>1. CASE ToInsert(e) = None  BY <1>1 DEF HashSet
<1>2. CASE ToInsert(e) # None
    <2>1. e.set \in Slots /\ gtk[e.set] \in GtkNumber
        BY <1>2 DEF ToInsert, EntryType, KeysTyped
    <2> QED  BY <1>2, <2>1 DEF HashSet, EntryType
<1> QED  BY <1>1, <1>2

LEMMA SendM1Keeps ==
    ASSUME NEW f \in Nat, NEW s \in RState(f), NEW tries \in Tries, s.auth.pmk # NoPmk
    PROVE  LET t == SendM1(s, tries) IN
           /\ t \in RState(f + 1)
           /\ t.auth = [s.auth EXCEPT !.cnt = t.auth.cnt]
           /\ t.gkh = s.gkh /\ t.mka = s.mka /\ t.fwh.st = "msg2"
           /\ \A m \in t.sent : m \in s.sent \/ m.t = "m1"
<1> DEFINE cnt == Incremented(s.auth.cnt)
           m == [t |-> "m1", cnt |-> cnt, pmk |-> s.auth.pmk, a |-> f + 1]
           k == [st |-> "msg2", anonce |-> f + 1, ptk |-> NoPtk, tries |-> tries]
           t == SendM1(s, tries)
<1>1. s.auth \in EntryType(f + 1) /\ s.sent \subseteq Msg(f + 1) /\ s.fresh = f
    BY TypesGrow, MsgGrow DEF RState
<1>2. cnt \in Nat
    BY <1>1, LimitsAssumption DEF EntryType, Incremented, None
<1>3. [s.auth EXCEPT !.cnt = cnt] \in EntryType(f + 1)
    <2> HIDE DEF cnt
    <2> QED  BY <1>1, <1>2 DEF EntryType
<1>4. m \in Msg(f + 1)
    <2>1. s.auth \in EntryType(f)  BY DEF RState
    <2>2. s.auth.pmk \in 1..(f + 1)  BY <2>1 DEF EntryType, NoPmk
    <2>3. f + 1 \in 1..(f + 1)  OBVIOUS
    <2>4. m \in M1(f + 1)
        <3> HIDE DEF cnt
        <3> QED  BY <1>2, <2>2, <2>3 DEF M1
    <2> QED  BY <2>4 DEF Msg
<1>5. k \in FwhType(f + 1)  BY DEF FwhType
<1>6. /\ t.auth = [s.auth EXCEPT !.cnt = cnt] /\ t.fwh = k /\ t.sent = SentIfCounted(s, m)
      /\ t.gkh = s.gkh /\ t.mka = s.mka
    BY <1>1 DEF SendM1, RState
<1>7. t \in RState(f + 1)
    <2>1. SentIfCounted(s, m) \subseteq Msg(f + 1)  BY <1>1, <1>4 DEF SentIfCounted
    <2> QED  BY <1>1, <1>3, <1>5, <2>1 DEF SendM1, RState
<1>8. t.auth.cnt = cnt
    <2> HIDE DEF t, cnt
    <2> QED  BY <1>1, <1>6 DEF EntryType
<1> HIDE DEF t, cnt
<1>9. \A n \in t.sent : n \in s.sent \/ n.t = "m1"  BY <1>6 DEF SentIfCounted
<1> QED  BY <1>6, <1>7, <1>8, <1>9 DEF t

LEMMA SendM3Keeps ==
    ASSUME KeysTyped, NEW f \in Nat, NEW s \in RState(f), NEW ptk \in Ptks(f) \cup {NoPtk},
           NEW tries \in Tries, s.fwh # NoKmp
    PROVE  LET t == SendM3(s, ptk, tries) IN
           /\ t \in RState(f)
           /\ t.auth = [s.auth EXCEPT !.cnt = t.auth.cnt]
           /\ t.gkh = s.gkh /\ t.mka = s.mka /\ t.fresh = f
           /\ \A m \in t.sent : m \in s.sent \/ m.t = "m3"
<1> DEFINE cnt == Incremented(s.auth.cnt)
           i == IF ToInsert(s.auth) # None THEN ToInsert(s.auth) ELSE act
           m == [t |-> "m3", cnt |-> cnt, a |-> s.fwh.anonce, mic |-> ptk, idx |-> i,
                 key |-> gtk[i]]
           k == [s.fwh EXCEPT !.st = "msg4", !.ptk = ptk, !.tries = tries]
           t == SendM3(s, ptk, tries)
<1>1. s.auth \in EntryType(f) /\ s.fwh \in FwhType(f) /\ s.fresh = f /\ s.sent \subseteq Msg(f)
    BY DEF RState
<1>2. cnt \in Nat
    BY <1>1, LimitsAssumption DEF EntryType, Incremented, None
<1>3. [s.auth EXCEPT !.cnt = cnt] \in EntryType(f)
    <2> HIDE DEF cnt
    <2> QED  BY <1>1, <1>2 DEF EntryType
<1>4. k \in FwhType(f) /\ s.fwh.anonce \in 1..f  BY <1>1 DEF FwhType
<1>5. m \in Msg(f)
    <2>1. i \in Slots /\ gtk[i] \in GtkNumber
        BY <1>1, ToInsertType DEF KeysTyped
    <2>2. m \in M3(f)
        <3> HIDE DEF cnt, i
        <3> QED  BY <1>2, <1>4, <2>1 DEF M3
    <2> QED  BY <2>2 DEF Msg
<1>6. /\ t.auth = [s.auth EXCEPT !.cnt = cnt] /\ t.sent = SentIfCounted(s, m)
      /\ t.gkh = s.gkh /\ t.mka = s.mka /\ t.fresh = f
    BY <1>1 DEF SendM3, RState
<1>7. t \in RState(f)
    <2>1. SentIfCounted(s, m) \subseteq Msg(f)  BY <1>1, <1>5 DEF SentIfCounted
    <2> QED  BY <1>1, <1>3, <1>4, <2>1 DEF SendM3, RState
<1>8. t.auth.cnt = cnt
    <2> HIDE DEF t, cnt
    <2> QED  BY <1>1, <1>6 DEF EntryType
<1> HIDE DEF t, cnt, i
<1>9. \A n \in t.sent : n \in s.sent \/ n.t = "m3"  BY <1>6 DEF SentIfCounted
<1> QED  BY <1>6, <1>7, <1>8, <1>9 DEF t

LEMMA SendG1Keeps ==
    ASSUME KeysTyped, NEW f \in Nat, NEW s \in RState(f)
    PROVE  LET t == SendG1(s) IN
           /\ t \in RState(f)
           /\ t.auth = [s.auth EXCEPT !.cnt = t.auth.cnt]
           /\ t.gkh = s.gkh /\ t.mka = s.mka /\ t.fwh = s.fwh /\ t.fresh = f
           /\ \A m \in t.sent : m \in s.sent \/ (m.t = "g1" /\ m.mic = s.auth.ptk)
<1> DEFINE cnt == Incremented(s.auth.cnt)
           i == ToInsert(s.auth)
           key == IF i = None THEN 0 ELSE gtk[i]
           m == [t |-> "g1", cnt |-> cnt, mic |-> s.auth.ptk, idx |-> i, key |-> key]
           t == SendG1(s)
<1>1. s.auth \in EntryType(f) /\ s.fresh = f /\ s.sent \subseteq Msg(f)
    BY DEF RState
<1>2. cnt \in Nat
    BY <1>1, LimitsAssumption DEF EntryType, Incremented, None
<1>3. [s.auth EXCEPT !.cnt = cnt] \in EntryType(f)
    <2> HIDE DEF cnt
    <2> QED  BY <1>1, <1>2 DEF EntryType
<1>4. m \in Msg(f)
    <2>1. i \in Slots \cup {None}  BY <1>1, ToInsertType
    <2>2. key \in GtkNumber
        <3> HIDE DEF i
        <3> QED  BY <2>1, BoundsAssumption DEF KeysTyped, GtkNumber
    <2>3. s.auth.ptk \in Ptks(f) \cup {NoPtk}  BY <1>1 DEF EntryType
    <2>4. m \in G1(f)
        <3> HIDE DEF cnt, i, key
        <3> QED  BY <1>2, <2>1, <2>2, <2>3 DEF G1
    <2> QED  BY <2>4 DEF Msg
<1>5. /\ t.auth = [s.auth EXCEPT !.cnt = cnt] /\ t.sent = SentIfCounted(s, m)
      /\ t.gkh = s.gkh /\ t.mka = s.mka /\ t.fwh = s.fwh /\ t.fresh = f
    BY <1>1 DEF SendG1, RState
<1>6. t \in RState(f)
    <2>1. SentIfCounted(s, m) \subseteq Msg(f)  BY <1>1, <1>4 DEF SentIfCounted
    <2> QED  BY <1>1, <1>3, <2>1 DEF SendG1, RState
<1>7. t.auth.cnt = cnt
    <2> HIDE DEF t, cnt
    <2> QED  BY <1>1, <1>5 DEF EntryType
<1> HIDE DEF t, cnt, i, key
<1>8. \A n \in t.sent : n \in s.sent \/ (n.t = "g1" /\ n.mic = s.auth.ptk)  BY <1>5 DEF SentIfCounted
<1> QED  BY <1>5, <1>6, <1>7, <1>8 DEF t

\* What the calls that may start a protocol do to the record: the PMK and the
\* PTK stay, a GKH starts with the PTK that fits and only if it is known to fit.
Started(s, t) ==
    /\ t.fresh \in Nat /\ s.fresh <= t.fresh /\ t \in RState(t.fresh)
    /\ t.auth.live = s.auth.live /\ t.auth.pmk = s.auth.pmk /\ t.auth.ptk = s.auth.ptk
    /\ s.auth.ptkMis => t.auth.ptkMis
    /\ t.mka = "run" => s.mka = "run" \/ t.auth.ptkMis
    /\ t.gkh # <<>> => s.gkh # <<>> \/ ~s.auth.ptkMis
    /\ t.fwh.st = "msg4" => s.fwh.st = "msg4"
    /\ \A m \in t.sent :
          m \in s.sent \/ m.t = "m1" \/ (m.t = "g1" /\ m.mic = s.auth.ptk /\ ~s.auth.ptkMis)

LEMMA StartFwhKeeps ==
    ASSUME NEW f \in Nat, NEW s \in RState(f)
    PROVE  Started(s, StartFwh(s))
<1>1. s.auth \in EntryType(f) /\ s.fresh = f  BY DEF RState
<1>2. CASE s.auth.pmk = NoPmk
    <2>1. StartFwh(s) = [s EXCEPT !.fwh = NoKmp]  BY <1>2 DEF StartFwh
    <2>2. [s EXCEPT !.fwh = NoKmp] \in RState(f)  BY DEF RState, FwhType
    <2>3. [s EXCEPT !.fwh = NoKmp].fwh.st = "none"  BY DEF RState, NoKmp
    <2> QED  BY <1>1, <2>1, <2>2, <2>3 DEF Started, RState
<1>3. CASE s.auth.pmk # NoPmk
    <2> DEFINE t == SendM1(s, 1)
    <2>1. 1 \in Tries  BY BoundsAssumption DEF Tries
    <2>2. /\ t \in RState(f + 1) /\ t.auth = [s.auth EXCEPT !.cnt = t.auth.cnt]
          /\ t.gkh = s.gkh /\ t.mka = s.mka /\ t.fwh.st = "msg2"
          /\ \A m \in t.sent : m \in s.sent \/ m.t = "m1"
        BY <1>3, <2>1, SendM1Keeps
    <2>3. StartFwh(s) = t  BY <1>3 DEF StartFwh
    <2> HIDE DEF t
    <2>4. /\ t.auth.live = s.auth.live /\ t.auth.pmk = s.auth.pmk /\ t.auth.ptk = s.auth.ptk
          /\ t.auth.ptkMis = s.auth.ptkMis
        BY <1>1, <2>2 DEF EntryType
    <2>5. t.fresh = f + 1  BY <2>2 DEF RState
    <2> QED  BY <1>1, <2>2, <2>3, <2>4, <2>5 DEF Started
<1> QED  BY <1>2, <1>3

LEMMA StartGkhKeeps ==
    ASSUME KeysTyped, NEW f \in Nat, NEW s \in RState(f), ~s.auth.ptkMis
    PROVE  Started(s, StartGkh(s)) /\ StartGkh(s).fwh = s.fwh
<1> DEFINE u == SendG1(s)
           t == StartGkh(s)
<1>1. s.auth \in EntryType(f) /\ s.fresh = f  BY DEF RState
<1>2. /\ u \in RState(f) /\ u.auth = [s.auth EXCEPT !.cnt = u.auth.cnt]
      /\ u.gkh = s.gkh /\ u.mka = s.mka /\ u.fwh = s.fwh /\ u.fresh = f
      /\ \A m \in u.sent : m \in s.sent \/ (m.t = "g1" /\ m.mic = s.auth.ptk)
    BY SendG1Keeps
<1>3. t = [u EXCEPT !.gkh = <<1>> \o u.gkh, !.auth = HashSet(u.auth)]  BY DEF StartGkh
<1> HIDE DEF t, u
<1>4. u.auth \in EntryType(f)  BY <1>2 DEF RState
<1>5. /\ HashSet(u.auth) \in EntryType(f)
      /\ HashSet(u.auth).ptk = u.auth.ptk /\ HashSet(u.auth).pmk = u.auth.pmk
      /\ HashSet(u.auth).ptkMis = u.auth.ptkMis /\ HashSet(u.auth).live = u.auth.live
    BY <1>4, HashSetType
<1>6. /\ u.auth.ptk = s.auth.ptk /\ u.auth.pmk = s.auth.pmk
      /\ u.auth.ptkMis = s.auth.ptkMis /\ u.auth.live = s.auth.live
    BY <1>1, <1>2 DEF EntryType
<1>7. <<1>> \o u.gkh \in Seq(Tries)
    <2>1. 1 \in Tries  BY BoundsAssumption DEF Tries
    <2>2. <<1>> \in Seq(Tries)  BY <2>1
    <2> QED  BY <1>2, <2>2 DEF RState
<1>8. /\ t \in RState(f) /\ t.auth = HashSet(u.auth) /\ t.fwh = u.fwh /\ t.mka = u.mka
      /\ t.sent = u.sent /\ t.fresh = f
    BY <1>2, <1>3, <1>5, <1>7 DEF RState
<1> QED  BY <1>1, <1>2, <1>5, <1>6, <1>8 DEF Started, t

LEMMA StartMkaKeeps ==
    ASSUME NEW f \in Nat, NEW s \in RState(f), s.auth.ptkMis
    PROVE  Started(s, StartMka(s)) /\ StartMka(s).fwh = s.fwh
<1> DEFINE t == StartMka(s)
<1>1. /\ t \in RState(f) /\ t.auth = s.auth /\ t.fwh = s.fwh /\ t.gkh = s.gkh
      /\ t.sent = s.sent /\ t.fresh = f /\ s.fresh = f
    BY DEF StartMka, RState
<1> HIDE DEF t
<1> QED  BY <1>1 DEF Started, t

LEMMA TriggerKeeps ==
    ASSUME KeysTyped, NEW f \in Nat, NEW s \in RState(f)
    PROVE  Started(s, Trigger(s))
<1> DEFINE e == s.auth
           i == InsertIndex(e)
           e1 == IF i = None THEN e ELSE [e EXCEPT !.set = i]
           reuse == LongLifetime /\ i # None /\ HashMismatch(e1, i)
<1>1. e \in EntryType(f) /\ s.fresh = f  BY DEF RState
<1>2. i \in Slots \cup {None}  BY InsertIndexType
<1>3. /\ e1 \in EntryType(f) /\ e1.live = e.live /\ e1.pmk = e.pmk /\ e1.ptk = e.ptk
      /\ e1.ptkMis = e.ptkMis
    <2> HIDE DEF e, i
    <2> QED  BY <1>1, <1>2 DEF EntryType
<1> DEFINE s1 == [s EXCEPT !.auth = e1]
<1>4. /\ s1 \in RState(f) /\ s1.auth = e1 /\ s1.fwh = s.fwh /\ s1.gkh = s.gkh
      /\ s1.mka = s.mka /\ s1.sent = s.sent /\ s1.fresh = s.fresh
    <2> HIDE DEF e1
    <2> QED  BY <1>3 DEF RState
<1>5. \A t : Started(s1, t) => Started(s, t)
    <2> HIDE DEF e1, s1
    <2> QED  BY <1>3, <1>4 DEF Started, e
<1>6. Started(s1, s1)
    <2> HIDE DEF s1, e1
    <2> QED  BY <1>1, <1>4 DEF Started
<1>7. CASE e.pmkMis
    <2> DEFINE u == [s EXCEPT !.auth.ptkMis = TRUE]
    <2>1. /\ u \in RState(f) /\ u.auth.ptkMis /\ u.auth.live = e.live /\ u.auth.pmk = e.pmk
          /\ u.auth.ptk = e.ptk /\ u.fwh = s.fwh /\ u.gkh = s.gkh
          /\ u.mka = s.mka /\ u.sent = s.sent /\ u.fresh = s.fresh
        BY <1>1 DEF RState, EntryType
    <2>2. Trigger(s) = StartMka(u)  BY <1>7 DEF Trigger
    <2> HIDE DEF u
    <2>3. Started(u, StartMka(u))  BY <2>1, StartMkaKeeps
    <2>4. \A t : Started(u, t) /\ (t.gkh # <<>> => u.gkh # <<>>)
                    /\ (\A m \in t.sent : m \in u.sent) => Started(s, t)
        BY <2>1 DEF Started, e
    <2>5. StartMka(u).gkh = u.gkh /\ StartMka(u).sent = u.sent
        BY <2>1 DEF StartMka, RState
    <2> QED  BY <2>2, <2>3, <2>4, <2>5
<1>8. CASE ~e.pmkMis /\ e.ptkMis
    <2>1. Trigger(s) = StartFwh(s1)  BY <1>8 DEF Trigger
    <2> HIDE DEF s1
    <2> QED  BY <1>4, <1>5, <2>1, StartFwhKeeps
<1>9. CASE ~e.pmkMis /\ ~e.ptkMis /\ reuse
    <2> DEFINE e2 == [e1 EXCEPT !.ptkMis = TRUE]
               u == [s EXCEPT !.auth = e2]
    <2>1. Trigger(s) = StartFwh(u)  BY <1>9 DEF Trigger
    <2>2. /\ e2 \in EntryType(f) /\ e2.live = e.live /\ e2.pmk = e.pmk /\ e2.ptk = e.ptk
          /\ e2.ptkMis
        <3> HIDE DEF e1
        <3> QED  BY <1>3 DEF EntryType
    <2>3. /\ u \in RState(f) /\ u.auth = e2 /\ u.fwh = s.fwh /\ u.gkh = s.gkh
          /\ u.mka = s.mka /\ u.sent = s.sent /\ u.fresh = s.fresh
        <3> HIDE DEF e2
        <3> QED  BY <2>2 DEF RState
    <2> HIDE DEF u, e2
    <2>4. Started(u, StartFwh(u))  BY <2>3, StartFwhKeeps
    <2>5. \A t : Started(u, t) => Started(s, t)
        BY <1>9, <2>2, <2>3 DEF Started, e
    <2> QED  BY <2>1, <2>4, <2>5
<1>10. CASE ~e.pmkMis /\ ~e.ptkMis /\ ~reuse /\ i # None
    <2>1. Trigger(s) = StartGkh(s1)  BY <1>10 DEF Trigger
    <2>2. ~s1.auth.ptkMis
        <3> HIDE DEF s1, e1
        <3> QED  BY <1>3, <1>4, <1>10
    <2> HIDE DEF s1
    <2> QED  BY <1>4, <1>5, <2>1, <2>2, StartGkhKeeps
<1>11. CASE ~e.pmkMis /\ ~e.ptkMis /\ ~reuse /\ i = None
    <2>1. Trigger(s) = s1  BY <1>11 DEF Trigger
    <2> HIDE DEF s1
    <2> QED  BY <1>5, <1>6, <2>1
<1> QED  BY <1>7, <1>8, <1>9, <1>10, <1>11

\* A PTK that has carried no group key the node lacks is not replaced.
LEMMA TriggerNoFwh ==
    ASSUME KeysTyped, NEW f \in Nat, NEW s \in RState(f), ~s.auth.ptkMis,
           s.auth.bits \ {None} \subseteq s.auth.gtkl
    PROVE  Trigger(s).fwh = s.fwh
<1> DEFINE e == s.auth
           i == InsertIndex(e)
           e1 == IF i = None THEN e ELSE [e EXCEPT !.set = i]
           s1 == [s EXCEPT !.auth = e1]
           u == [s EXCEPT !.auth.ptkMis = TRUE]
<1>1. e \in EntryType(f)  BY DEF RState
<1>2. i \in MissingSlots(e) \cup {None} /\ i \in Slots \cup {None}  BY InsertIndexType
<1>3. i # None => i \notin e.gtkl  BY <1>2 DEF MissingSlots
<1>4. /\ e1 \in EntryType(f) /\ e1.ptkMis = e.ptkMis
      /\ i # None => e1.set = i /\ e1.bits = e.bits
    <2> HIDE DEF e, i
    <2> QED  BY <1>1, <1>2 DEF EntryType
<1>5. i # None => ~HashMismatch(e1, i)
    <2> HIDE DEF e1, i
    <2> QED  BY <1>3, <1>4 DEF HashMismatch, e
<1>6. s1 \in RState(f) /\ s1.fwh = s.fwh /\ ~s1.auth.ptkMis
    <2> HIDE DEF e1
    <2> QED  BY <1>4 DEF RState, e
<1>7. CASE e.pmkMis
    <2>1. Trigger(s) = StartMka(u)  BY <1>7 DEF Trigger
    <2>2. u \in RState(f) /\ u.auth.ptkMis /\ u.fwh = s.fwh
        BY <1>1 DEF RState, EntryType
    <2> HIDE DEF u
    <2> QED  BY <2>1, <2>2, StartMkaKeeps
<1>8. CASE ~e.pmkMis /\ i # None
    <2>1. Trigger(s) = StartGkh(s1)  BY <1>5, <1>8 DEF Trigger
    <2> HIDE DEF s1
    <2> QED  BY <1>6, <2>1, StartGkhKeeps
<1>9. CASE ~e.pmkMis /\ i = None
    <2>1. Trigger(s) = s1  BY <1>9 DEF Trigger
    <2> HIDE DEF s1
    <2> QED  BY <1>6, <2>1
<1> QED  BY <1>7, <1>8, <1>9

-----------------------------------------------------------------------------
(***************************************************************************)
(* The entry of the node and its file.                                      *)
(***************************************************************************)
LEMMA NewEntryType == ASSUME NEW f \in Nat PROVE NewEntry \in EntryType(f) /\ NoEntry \in EntryType(f)
<1>1. [i \in Slots |-> 0] \in [Slots -> GtkNumber]  BY BoundsAssumption DEF GtkNumber
<1>2. NewEntry \in EntryType(f)  BY <1>1 DEF NewEntry, EntryType, NoPmk
<1> QED  BY <1>2 DEF NoEntry, EntryType

LEMMA SuppWriteType ==
    ASSUME NEW f \in Nat, NEW e \in EntryType(f)
    PROVE  /\ SuppWrite(e) \in FileType(f) /\ SuppWrite(e).exists
           /\ SuppWrite(e).ptk = e.ptk /\ SuppWrite(e).pmk = e.pmk
<1>1. Cardinality(e.bits) \in Nat
    BY SlotsAssumption, FS_Subset, FS_CardinalityType DEF EntryType
<1>2. [i \in Slots |-> IF i \in e.bits THEN e.hash[i] ELSE 0] \in [Slots -> GtkNumber]
    BY BoundsAssumption DEF EntryType, GtkNumber
<1> QED  BY <1>1, <1>2 DEF SuppWrite, EntryType, FileType

\* An entry that is read back has the PMK of the file, and its PTK if it has
\* that PMK.
LEMMA EntryForType ==
    ASSUME Typed, NEW bits \in EntryBits
    PROVE  LET e == EntryFor(bits) IN
           /\ e \in EntryType(fresh) /\ e.live
           /\ auth.live => e = auth
           /\ ~auth.live /\ ~file.exists => e.pmk = NoPmk /\ e.ptk = NoPtk
           /\ ~auth.live /\ file.exists =>
                 e.pmk = file.pmk /\ e.ptk = IF file.pmk = NoPmk THEN NoPtk ELSE file.ptk
<1>1. CASE auth.live  BY <1>1 DEF EntryFor, Typed
<1>2. CASE ~auth.live /\ ~file.exists
    <2>1. EntryFor(bits) = NewEntry  BY <1>2 DEF EntryFor, SuppRead
    <2>2. NewEntry.live /\ NewEntry.pmk = NoPmk /\ NewEntry.ptk = NoPtk  BY DEF NewEntry
    <2>3. NewEntry \in EntryType(fresh)  BY NewEntryType DEF Typed
    <2> QED  BY <1>2, <2>1, <2>2, <2>3
<1>3. CASE ~auth.live /\ file.exists
    <2>1. bits \subseteq Slots
        BY <1>3 DEF EntryBits, BitsRead
    <2>2. /\ file.pmk \in 0..fresh /\ file.cnt \in Nat \cup {None}
          /\ file.ptk \in Ptks(fresh) \cup {NoPtk} /\ file.hash \in [Slots -> GtkNumber]
        <3>1. file \in FileType(fresh)  BY DEF Typed
        <3>2. file # NoFile  BY <1>3 DEF NoFile
        <3> QED  BY <3>1, <3>2 DEF FileType
    <2> DEFINE p == IF file.pmk = NoPmk THEN NoPtk ELSE file.ptk
               e == [NewEntry EXCEPT !.pmk = file.pmk, !.cnt = file.cnt, !.ptk = p,
                                     !.hash = file.hash, !.bits = bits]
    <2>3. EntryFor(bits) = e  BY <1>3 DEF EntryFor, SuppRead
    <2>4. p \in Ptks(fresh) \cup {NoPtk}  BY <2>2
    <2>5. fresh \in Nat /\ NewEntry \in EntryType(fresh) /\ NewEntry.live
        BY NewEntryType DEF Typed, NewEntry
    <2>6. e \in EntryType(fresh) /\ e.live /\ e.pmk = file.pmk /\ e.ptk = p
        <3> HIDE DEF p
        <3> QED  BY <2>1, <2>2, <2>4, <2>5 DEF EntryType
    <2> HIDE DEF e
    <2> QED  BY <1>3, <2>3, <2>6
<1> QED  BY <1>1, <1>2, <1>3

LEMMA GtklFromInsertIndexType ==
    ASSUME NEW f, NEW e \in EntryType(f)
    PROVE  LET g == GtklFromInsertIndex(e) IN
           /\ g \in EntryType(f) /\ g.live = e.live /\ g.pmk = e.pmk /\ g.ptk = e.ptk
           /\ g.ptkMis = e.ptkMis /\ g.pmkMis = e.pmkMis /\ g.bits = e.bits
           /\ g.set = None /\ g.gtkl = e.gtkl \cup ({e.set} \ {None})
<1>1. CASE e.set = None  BY <1>1 DEF GtklFromInsertIndex, EntryType
<1>2. CASE e.set # None
    <2>1. e.set \in Slots  BY <1>2 DEF EntryType
    <2> QED  BY <1>2, <2>1 DEF GtklFromInsertIndex, EntryType
<1> QED  BY <1>1, <1>2

\* A new PTK has carried only group keys that the node is known to have.
LEMMA PtkWrittenType ==
    ASSUME KeysTyped, NEW f \in Nat, NEW e \in EntryType(f), NEW ptk \in Ptks(f) \cup {NoPtk}
    PROVE  LET g == PtkWritten(e, ptk) IN
           /\ g \in EntryType(f) /\ g.live = e.live /\ g.pmk = e.pmk /\ g.ptk = ptk
           /\ ~g.ptkMis /\ g.pmkMis = e.pmkMis
           /\ g.bits \ {None} \subseteq g.gtkl
<1> DEFINE c == [e EXCEPT !.hash = [i \in Slots |-> 0], !.bits = {}]
           h == HashSet(c)
           g == GtklFromInsertIndex(h)
           r == PtkWritten(e, ptk)
<1>1. [i \in Slots |-> 0] \in [Slots -> GtkNumber]  BY BoundsAssumption DEF GtkNumber
<1>2. /\ c \in EntryType(f) /\ c.live = e.live /\ c.pmk = e.pmk /\ c.bits = {}
      /\ c.pmkMis = e.pmkMis
    BY <1>1 DEF EntryType
<1> HIDE DEF c
<1>3. /\ h \in EntryType(f) /\ h.live = c.live /\ h.pmk = c.pmk /\ h.set = c.set
      /\ h.bits \subseteq {h.set} /\ h.pmkMis = c.pmkMis
    BY <1>2, HashSetType
<1> HIDE DEF h
<1>4. /\ g \in EntryType(f) /\ g.live = h.live /\ g.pmk = h.pmk /\ g.bits = h.bits
      /\ g.gtkl = h.gtkl \cup ({h.set} \ {None}) /\ g.pmkMis = h.pmkMis
    BY <1>3, GtklFromInsertIndexType
<1>5. r = [g EXCEPT !.ptkMis = FALSE, !.ptk = ptk]  BY DEF PtkWritten, g, h, c
<1> HIDE DEF g, r
<1>6. /\ r \in EntryType(f) /\ r.live = g.live /\ r.pmk = g.pmk /\ r.ptk = ptk
      /\ ~r.ptkMis /\ r.bits = g.bits /\ r.gtkl = g.gtkl /\ r.pmkMis = g.pmkMis
    BY <1>4, <1>5 DEF EntryType
<1> QED  BY <1>2, <1>3, <1>4, <1>6 DEF r

-----------------------------------------------------------------------------
(***************************************************************************)
(* A step of the border router that leaves it with the record t.            *)
(***************************************************************************)
Fine(t) ==
    /\ t.fresh \in Nat /\ fresh <= t.fresh /\ t \in RState(t.fresh)
    /\ t.auth.live
    /\ t.auth.ptk # NoPtk => t.auth.ptk \in Range(installs)
    /\ t.auth.pmk \notin dead
    /\ \A m \in t.sent : m.t # "m4"
    /\ dead = {} =>
          /\ t.auth.pmk = NoPmk => t.auth.ptk = NoPtk /\ t.gkh = <<>> /\ t.fwh.st # "msg4"
          /\ t.gkh # <<>> => t.auth.ptk # NoPtk
          /\ t.mka = "run" => t.auth.ptkMis \/ t.auth.ptk # NoPtk
          /\ \A m \in t.sent : m.t = "g1" => m.mic # NoPtk /\ m.mic \in Range(installs)

\* A protocol may be started wherever the PTK is known not to fit or is there.
LEMMA FineStarted ==
    ASSUME fresh \in Nat, NEW s, NEW t, Fine(s), Started(s, t),
           dead = {} => s.auth.ptkMis \/ s.auth.ptk # NoPtk
    PROVE  Fine(t)
<1>1. s.fresh \in Nat /\ fresh <= s.fresh /\ t.fresh \in Nat /\ s.fresh <= t.fresh
    BY DEF Fine, Started
<1>2. fresh <= t.fresh  BY <1>1
<1> QED  BY <1>1, <1>2 DEF Fine, Started

\* The border router as it is.
LEMMA HereFine ==
    ASSUME Inv, auth.live
    PROVE  Fine(Here)
<1>1. /\ Here.auth = auth /\ Here.fwh = fwh /\ Here.gkh = gkh /\ Here.mka = mka
      /\ Here.sent = {} /\ Here.fresh = fresh
    BY DEF Here
<1>2. Here \in RState(fresh) /\ fresh \in Nat  BY DEF Inv, Typed, Here, RState
<1> QED  BY <1>1, <1>2 DEF Fine, Inv, Agreed, Protected, RevokedStaysOut

\* It becomes t.
LEMMA BecomeFine ==
    ASSUME Inv, NEW t, NEW received, Fine(t), Become(t, received),
           UNCHANGED <<gtk, act, file, nfwh, installs, dead>>,
           node' \in NodeType(t.fresh), faults' \in 0..MaxFaults
    PROVE  Inv' /\ auth'.ptk = t.auth.ptk
<1>1. /\ auth' = t.auth /\ fwh' = t.fwh /\ gkh' = t.gkh /\ mka' = t.mka /\ fresh' = t.fresh
      /\ net' \subseteq net \cup t.sent
      /\ gtk' = gtk /\ act' = act /\ file' = file /\ nfwh' = nfwh /\ installs' = installs
      /\ dead' = dead
    BY DEF Become
<1>2. fresh \in Nat /\ t.fresh \in Nat /\ fresh <= t.fresh /\ t \in RState(t.fresh)
    BY DEF Inv, Typed, Fine
<1>3. Typed'
    <2>1. /\ t.auth \in EntryType(t.fresh) /\ t.fwh \in FwhType(t.fresh) /\ t.gkh \in Seq(Tries)
          /\ t.mka \in {"none", "run", "tls"} /\ t.sent \subseteq Msg(t.fresh)
        BY <1>2 DEF RState
    <2>2. file' \in FileType(t.fresh) /\ nfwh' \in NFwhType(t.fresh)
        BY <1>1, <1>2, TypesGrow DEF Inv, Typed
    <2>3. net' \subseteq Msg(t.fresh)
        BY <1>1, <1>2, <2>1, MsgGrow DEF Inv, Typed
    <2>4. Ptks(fresh) \subseteq Ptks(t.fresh) /\ 1..fresh \subseteq 1..t.fresh
        BY <1>2, PtksGrow
    <2>5. installs' \in Seq(Ptks(t.fresh))
        BY <1>1, <2>4, SeqGrow DEF Inv, Typed
    <2>6. dead' \subseteq 1..t.fresh  BY <1>1, <2>4 DEF Inv, Typed
    <2>7. KeysTyped'  BY <1>1 DEF Inv, Typed, KeysTyped
    <2> QED  BY <1>1, <1>2, <2>1, <2>2, <2>3, <2>5, <2>6, <2>7 DEF Typed
<1>4. Idle'  BY <1>1 DEF Fine, Idle
<1>5. Agreed'  BY <1>1 DEF Inv, Fine, Agreed
<1>6. InstalledOnce'  BY <1>1 DEF Inv, InstalledOnce
<1>7. Protected'  BY <1>1 DEF Inv, Fine, Protected
<1>8. RevokedStaysOut'  BY <1>1 DEF Inv, Fine, RevokedStaysOut
<1> QED  BY <1>1, <1>3, <1>4, <1>5, <1>6, <1>7, <1>8 DEF Inv

LEMMA FaultsBounded ==
    ASSUME Typed
    PROVE  /\ Fault => faults' \in 0..MaxFaults
           /\ UNCHANGED faults => faults' \in 0..MaxFaults
           /\ \A quiet : FreeIf(quiet) => faults' \in 0..MaxFaults
           /\ \A m, received : Taken(m, received) => faults' \in 0..MaxFaults
<1>1. faults \in 0..MaxFaults  BY DEF Typed
<1>2. Fault => faults' \in 0..MaxFaults  BY <1>1, BoundsAssumption DEF Fault
<1>3. UNCHANGED faults => faults' \in 0..MaxFaults  BY <1>1
<1> QED  BY <1>2, <1>3 DEF FreeIf, Taken

\* The same when only the border router moves.
LEMMA RouterStep ==
    ASSUME Inv, NEW t, NEW received, Fine(t), Become(t, received), UNCHANGED Router,
           faults' \in 0..MaxFaults
    PROVE  Inv' /\ auth'.ptk = t.auth.ptk
<1>1. UNCHANGED <<gtk, act, file, nfwh, installs, dead>> /\ node' = node  BY DEF Router
<1>2. node' \in NodeType(t.fresh)
    <2>1. fresh \in Nat /\ node \in NodeType(fresh) /\ t.fresh \in Nat /\ fresh <= t.fresh
        BY DEF Inv, Typed, Fine
    <2> QED  BY <1>1, <2>1, TypesGrow
<1> QED  BY <1>1, <1>2, BecomeFine

-----------------------------------------------------------------------------
(***************************************************************************)
(* The border router's actions.                                             *)
(***************************************************************************)

\* Only message 4 brings a PTK into an entry.
PtkKept == auth.live => auth'.ptk = auth.ptk

\* An entry with the keys of the one that is there, or of the file.
LEMMA EntryFine ==
    ASSUME Inv, NEW bits \in EntryBits, NEW e \in EntryType(fresh), NEW st \in {"none", "run", "tls"},
           e.live, e.pmk = EntryFor(bits).pmk, e.ptk = EntryFor(bits).ptk,
           st = "run" => (dead = {} => e.ptkMis \/ e.ptk # NoPtk)
    PROVE  Fine([Here EXCEPT !.auth = e, !.mka = st])
<1> DEFINE s == [Here EXCEPT !.auth = e, !.mka = st]
           o == EntryFor(bits)
<1>1. /\ s.auth = e /\ s.fwh = fwh /\ s.gkh = gkh /\ s.mka = st /\ s.sent = {}
      /\ s.fresh = fresh
    BY DEF Here
<1>2. fresh \in Nat /\ s \in RState(fresh)  BY DEF Inv, Typed, Here, RState
<1>3. /\ auth.live => o = auth
      /\ ~auth.live /\ ~file.exists => o.pmk = NoPmk /\ o.ptk = NoPtk
      /\ ~auth.live /\ file.exists =>
            o.pmk = file.pmk /\ o.ptk = IF file.pmk = NoPmk THEN NoPtk ELSE file.ptk
    BY EntryForType DEF Inv
<1> HIDE DEF s, o
<1>4. e.ptk # NoPtk => e.ptk \in Range(installs)
    BY <1>3 DEF Inv, Agreed, o
<1>5. e.pmk \notin dead
    <2>1. NoPmk \notin dead  BY DEF Inv, Typed, NoPmk
    <2> QED  BY <1>3, <2>1 DEF Inv, RevokedStaysOut, o
<1>6. ~auth.live => fwh = NoKmp /\ gkh = <<>>  BY DEF Inv, Idle
<1>7. NoKmp.st # "msg4"  BY DEF NoKmp
<1>8. dead = {} =>
          /\ e.pmk = NoPmk => e.ptk = NoPtk /\ gkh = <<>> /\ fwh.st # "msg4"
          /\ gkh # <<>> => e.ptk # NoPtk
    <2>1. CASE auth.live  BY <1>3, <2>1 DEF Inv, Protected, o
    <2>2. CASE ~auth.live  BY <1>3, <1>6, <1>7, <2>2 DEF o
    <2> QED  BY <2>1, <2>2
<1>9. fresh <= fresh  BY <1>2
<1> QED  BY <1>1, <1>2, <1>4, <1>5, <1>8, <1>9 DEF Fine, s

LEMMA RecvKeyInv ==
    ASSUME Inv, NEW m \in net, NEW received, NEW bits \in EntryBits, RecvKey(m, received, bits)
    PROVE  Inv' /\ PtkKept
<1> DEFINE o == EntryFor(bits)
           e == [o EXCEPT !.pmkMis = m.pmk = NoPmk \/ m.pmk # o.pmk,
                          !.ptkMis = PtkMismatch(o, m.ptk), !.gtkl = m.gtkl]
           st == IF mka = "run" THEN "none" ELSE mka
           s == [Here EXCEPT !.auth = e, !.mka = st]
<1>1. m.gtkl \subseteq Slots
    <2>1. fresh \in Nat /\ m \in Msg(fresh)  BY DEF Inv, Typed
    <2>2. m \in KeyMsg(fresh)  BY <2>1, MsgByTag DEF RecvKey
    <2> QED  BY <2>2 DEF KeyMsg
<1>2. o \in EntryType(fresh) /\ o.live  BY EntryForType DEF Inv
<1>3. /\ e \in EntryType(fresh) /\ e.live /\ e.pmk = o.pmk /\ e.ptk = o.ptk
      /\ e.ptkMis = PtkMismatch(o, m.ptk)
    <2>1. PtkMismatch(o, m.ptk) \in BOOLEAN  BY DEF PtkMismatch
    <2> HIDE DEF o
    <2> QED  BY <1>1, <1>2, <2>1 DEF EntryType
<1>4. e.ptkMis \/ e.ptk # NoPtk
    <2> HIDE DEF e, o
    <2> QED  BY <1>3 DEF PtkMismatch
<1>5. st \in {"none", "run", "tls"} /\ st # "run"  BY DEF Inv, Typed
<1>6. s.auth = e  BY DEF Here
<1>7. Become(Trigger(s), received)
    <2>1. s = [Here EXCEPT !.auth = e, !.mka = IF Here.mka = "run" THEN "none" ELSE Here.mka]
        BY DEF Here
    <2> QED  BY <2>1 DEF RecvKey
<1>8. Fine(s)
    <2> HIDE DEF e, st
    <2> QED  BY <1>3, <1>5, EntryFine DEF o
<1>9. Fine(Trigger(s)) /\ Trigger(s).auth.ptk = s.auth.ptk
    <2> HIDE DEF s
    <2>1. s.fresh \in Nat /\ s \in RState(s.fresh)  BY <1>8 DEF Fine
    <2>2. Started(s, Trigger(s))  BY <2>1, TriggerKeeps DEF Inv, Typed
    <2>3. s.auth.ptkMis \/ s.auth.ptk # NoPtk
        <3> HIDE DEF e
        <3> QED  BY <1>4, <1>6
    <2>4. Trigger(s).auth.ptk = s.auth.ptk  BY <2>2 DEF Started
    <2> QED  BY <1>8, <2>2, <2>3, <2>4, FineStarted DEF Inv, Typed
<1>10. faults' \in 0..MaxFaults /\ UNCHANGED Router
    BY FaultsBounded DEF RecvKey, Inv
<1>11. auth.live => s.auth.ptk = auth.ptk
    <2>1. auth.live => o = auth  BY EntryForType DEF Inv
    <2> HIDE DEF e, o
    <2> QED  BY <1>3, <1>6, <2>1
<1> HIDE DEF s
<1> QED  BY <1>7, <1>9, <1>10, <1>11, RouterStep DEF PtkKept

LEMMA RecvM2Inv ==
    ASSUME Inv, NEW m \in net, NEW received, RecvM2(m, received)
    PROVE  Inv' /\ PtkKept
<1>1. fwh.st = "msg2" /\ auth.pmk # NoPmk  BY DEF RecvM2, M2Valid
<1>2. fwh # NoKmp /\ auth.live  BY <1>1 DEF Inv, Idle, NoKmp
<1>3. Fine(Here) /\ Here \in RState(fresh) /\ fresh \in Nat
    BY <1>2, HereFine DEF Fine, Here
<1>4. m.mic \in Ptks(fresh)
    <2>1. m \in Msg(fresh)  BY DEF Inv, Typed
    <2>2. m \in M2(fresh)  BY <1>3, <2>1, MsgByTag DEF RecvM2
    <2> QED  BY <2>2 DEF M2
<1> DEFINE t == SendM3(Here, m.mic, 1)
<1>5. Here.fwh = fwh /\ Here.auth = auth /\ Here.sent = {} /\ Here.mka = mka /\ Here.gkh = gkh
    BY DEF Here
<1>6. /\ t \in RState(fresh) /\ t.auth = [auth EXCEPT !.cnt = t.auth.cnt]
      /\ t.gkh = gkh /\ t.mka = mka /\ t.fresh = fresh
      /\ \A n \in t.sent : n.t = "m3"
    <2>1. 1 \in Tries /\ KeysTyped  BY BoundsAssumption DEF Tries, Inv, Typed
    <2> QED  BY <1>2, <1>3, <1>4, <1>5, <2>1, SendM3Keeps
<1> HIDE DEF t
<1>7. /\ t.auth.live = auth.live /\ t.auth.pmk = auth.pmk /\ t.auth.ptk = auth.ptk
      /\ t.auth.ptkMis = auth.ptkMis
    BY <1>6 DEF Inv, Typed, EntryType
<1>8. Fine(t)
    BY <1>1, <1>3, <1>5, <1>6, <1>7 DEF Fine
<1>9. Become(t, received) /\ UNCHANGED Router /\ faults' \in 0..MaxFaults
    BY FaultsBounded DEF RecvM2, t, Inv
<1> QED  BY <1>7, <1>8, <1>9, RouterStep DEF PtkKept

LEMMA RecvM4Inv ==
    ASSUME Inv, NEW m \in net, NEW received, RecvM4(m, received)
    PROVE  Inv' /\ fwh' = NoKmp
<1>1. fwh.st = "msg4" /\ m.mic = fwh.ptk /\ m.t = "m4"  BY DEF RecvM4, M4Valid
<1>2. fwh # NoKmp /\ auth.live  BY <1>1 DEF Inv, Idle, NoKmp
<1>3. Fine(Here) /\ Here \in RState(fresh) /\ fresh \in Nat
    BY <1>2, HereFine DEF Fine, Here
<1>4. fwh.ptk \in Range(installs) /\ fwh.ptk \in Ptks(fresh) /\ fwh.ptk # NoPtk
    <2>1. m \in Msg(fresh)  BY DEF Inv, Typed
    <2>2. m \in M4(fresh)  BY <1>1, <1>3, <2>1, MsgByTag
    <2>3. m.mic \in Range(installs)  BY <1>1 DEF Inv, Agreed
    <2> QED  BY <1>1, <2>2, <2>3, NoPtkIsNone DEF M4
<1> DEFINE e == PtkWritten(auth, fwh.ptk)
           s == [Here EXCEPT !.auth = e, !.fwh = NoKmp]
<1>5. /\ e \in EntryType(fresh) /\ e.live /\ e.pmk = auth.pmk /\ e.ptk = fwh.ptk
      /\ ~e.ptkMis /\ e.bits \ {None} \subseteq e.gtkl
    <2>1. auth \in EntryType(fresh) /\ KeysTyped  BY DEF Inv, Typed
    <2>2. /\ e \in EntryType(fresh) /\ e.live = auth.live /\ e.pmk = auth.pmk /\ e.ptk = fwh.ptk
          /\ ~e.ptkMis
        BY <1>3, <1>4, <2>1, PtkWrittenType
    <2>3. e.bits \ {None} \subseteq e.gtkl
        BY <1>3, <1>4, <2>1, PtkWrittenType
    <2> HIDE DEF e
    <2> QED  BY <1>2, <2>2, <2>3
<1> HIDE DEF e
<1>6. /\ s.auth = e /\ s.fwh = NoKmp /\ s.gkh = gkh /\ s.mka = mka /\ s.sent = {}
      /\ s.fresh = fresh
    BY DEF Here
<1>7. Become(Trigger(s), received)
    <2>1. s = [Here EXCEPT !.auth = PtkWritten(Here.auth, fwh.ptk), !.fwh = NoKmp]
        BY DEF Here, e
    <2> QED  BY <2>1 DEF RecvM4
<1>8. Fine(s)
    <2>1. s \in RState(fresh)  BY <1>3, <1>5 DEF RState, FwhType
    <2>2. auth.pmk = NoPmk => dead # {}  BY <1>1 DEF Inv, Protected
    <2>3. auth.pmk \notin dead  BY DEF Inv, RevokedStaysOut
    <2>4. fresh <= fresh  BY <1>3
    <2> HIDE DEF s
    <2> QED  BY <1>3, <1>4, <1>5, <1>6, <2>1, <2>2, <2>3, <2>4 DEF Fine
<1>9. Fine(Trigger(s)) /\ Trigger(s).fwh = NoKmp
    <2> HIDE DEF s
    <2>1. s.fresh \in Nat /\ s \in RState(s.fresh)  BY <1>8 DEF Fine
    <2>2. Started(s, Trigger(s))  BY <2>1, TriggerKeeps DEF Inv, Typed
    <2>3. s.auth.ptk # NoPtk  BY <1>4, <1>5, <1>6
    <2>4. Trigger(s).fwh = NoKmp  BY <1>5, <1>6, <2>1, TriggerNoFwh DEF Inv, Typed
    <2> QED  BY <1>3, <1>8, <2>2, <2>3, <2>4, FineStarted
<1>10. faults' \in 0..MaxFaults /\ UNCHANGED Router
    BY FaultsBounded DEF RecvM4, Inv
<1> HIDE DEF s
<1>11. fwh' = Trigger(s).fwh  BY <1>7 DEF Become
<1> QED  BY <1>7, <1>9, <1>10, <1>11, RouterStep

LEMMA RecvG2Inv ==
    ASSUME Inv, NEW m \in net, NEW received, RecvG2(m, received)
    PROVE  Inv' /\ PtkKept
<1>1. gkh # <<>>  BY DEF RecvG2, G2Valid
<1>2. auth.live  BY <1>1 DEF Inv, Idle
<1>3. Fine(Here) /\ Here \in RState(fresh) /\ fresh \in Nat /\ gkh \in Seq(Tries)
    BY <1>2, HereFine DEF Fine, Here, Inv, Typed
<1> DEFINE e == GtklFromInsertIndex(auth)
           s == [Here EXCEPT !.auth = e, !.gkh = Tail(gkh)]
<1>4. /\ e \in EntryType(fresh) /\ e.live /\ e.pmk = auth.pmk /\ e.ptk = auth.ptk
      /\ e.ptkMis = auth.ptkMis
    <2>1. auth \in EntryType(fresh)  BY DEF Inv, Typed
    <2> QED  BY <1>2, <2>1, GtklFromInsertIndexType
<1> HIDE DEF e
<1>5. /\ s.auth = e /\ s.fwh = fwh /\ s.gkh = Tail(gkh) /\ s.mka = mka /\ s.sent = {}
      /\ s.fresh = fresh
    BY DEF Here
<1>6. Become(Trigger(s), received)
    <2>1. s = [Here EXCEPT !.auth = GtklFromInsertIndex(Here.auth), !.gkh = Tail(Here.gkh)]
        BY DEF Here, e
    <2> QED  BY <2>1 DEF RecvG2
<1>7. Fine(s)
    <2>1. Tail(gkh) \in Seq(Tries)  BY <1>1, <1>3
    <2>2. s \in RState(fresh)  BY <1>3, <1>4, <2>1 DEF RState
    <2>3. dead = {} =>
             /\ auth.ptk # NoPtk /\ auth.pmk # NoPmk
        BY <1>1 DEF Inv, Protected
    <2>4. auth.pmk \notin dead  BY DEF Inv, RevokedStaysOut
    <2>5. fresh <= fresh  BY <1>3
    <2>6. auth.ptk # NoPtk => auth.ptk \in Range(installs)  BY DEF Inv, Agreed
    <2> HIDE DEF s
    <2> QED  BY <1>3, <1>4, <1>5, <2>2, <2>3, <2>4, <2>5, <2>6 DEF Fine
<1>8. Fine(Trigger(s)) /\ Trigger(s).auth.ptk = s.auth.ptk
    <2> HIDE DEF s
    <2>1. s.fresh \in Nat /\ s \in RState(s.fresh)  BY <1>7 DEF Fine
    <2>2. Started(s, Trigger(s))  BY <2>1, TriggerKeeps DEF Inv, Typed
    <2>3. dead = {} => s.auth.ptk # NoPtk  BY <1>1, <1>4, <1>5 DEF Inv, Protected
    <2>4. Trigger(s).auth.ptk = s.auth.ptk  BY <2>2 DEF Started
    <2> QED  BY <1>3, <1>7, <2>2, <2>3, <2>4, FineStarted
<1>9. faults' \in 0..MaxFaults /\ UNCHANGED Router
    BY FaultsBounded DEF RecvG2, Inv
<1> HIDE DEF s
<1> QED  BY <1>4, <1>5, <1>6, <1>8, <1>9, RouterStep DEF PtkKept

LEMMA AuthDiscardInv ==
    ASSUME Inv, NEW m \in net, NEW bits \in EntryBits, AuthDiscard(m, bits)
    PROVE  Inv' /\ PtkKept
<1> DEFINE e == EntryFor(bits)
           s == [Here EXCEPT !.auth = e, !.mka = mka]
<1>1. e \in EntryType(fresh) /\ e.live  BY EntryForType DEF Inv
<1>2. mka = "run" => auth.live /\ e = auth
    BY EntryForType DEF Inv, Idle
<1>3. mka = "run" => (dead = {} => e.ptkMis \/ e.ptk # NoPtk)
    BY <1>2 DEF Inv, Protected
<1>4. Fine(s)
    BY <1>1, <1>3, EntryFine DEF Inv, Typed
<1>5. /\ s.auth = e /\ s.fwh = fwh /\ s.gkh = gkh /\ s.mka = mka /\ s.sent = {}
      /\ s.fresh = fresh
    <2> HIDE DEF e
    <2> QED  BY DEF Here
<1>6. Become(s, {m}) /\ UNCHANGED Router
    <2>1. Become([Here EXCEPT !.auth = e], {m})  BY DEF AuthDiscard
    <2>2. /\ auth' = e /\ fwh' = fwh /\ gkh' = gkh /\ mka' = mka /\ fresh' = fresh
          /\ net' = (net \ {m}) \cup {}
        <3> HIDE DEF e
        <3> QED  BY <2>1 DEF Become, Here
    <2>3. Become(s, {m})
        <3> HIDE DEF s
        <3> QED  BY <1>5, <2>2 DEF Become
    <2> QED  BY <2>3 DEF AuthDiscard, Router
<1>7. faults' \in 0..MaxFaults  BY DEF AuthDiscard, Inv, Typed
<1>8. auth.live => e = auth  BY EntryForType DEF Inv
<1> HIDE DEF s, e
<1> QED  BY <1>4, <1>5, <1>6, <1>7, <1>8, RouterStep DEF PtkKept

LEMMA FwhTimeoutInv == ASSUME Inv, FwhTimeout PROVE Inv' /\ PtkKept
<1>1. fwh # NoKmp /\ auth.live  BY DEF FwhTimeout, Inv, Idle
<1>2. Fine(Here) /\ Here \in RState(fresh) /\ fresh \in Nat
    BY <1>1, HereFine DEF Fine, Here
<1>3. /\ Here.fwh = fwh /\ Here.auth = auth /\ Here.sent = {} /\ Here.mka = mka
      /\ Here.gkh = gkh /\ Here.fresh = fresh
    BY DEF Here
<1>4. /\ fwh.st \in {"msg2", "msg4"} /\ fwh.ptk \in Ptks(fresh) \cup {NoPtk}
      /\ fwh.tries \in Tries /\ auth \in EntryType(fresh) /\ fwh \in FwhType(fresh) /\ KeysTyped
    <2>1. fwh \in FwhType(fresh) /\ auth \in EntryType(fresh) /\ KeysTyped  BY DEF Inv, Typed
    <2> QED  BY <1>1, <2>1 DEF FwhType
<1>5. faults' \in 0..MaxFaults /\ UNCHANGED Router
    BY FaultsBounded DEF FwhTimeout, Inv
<1>6. CASE fwh.tries >= MaxTries
    <2> DEFINE t == [Here EXCEPT !.fwh = NoKmp]
    <2>1. Become(t, {})
        <3>1. ~(fwh.tries < MaxTries)  BY <1>4, <1>6, BoundsAssumption DEF Tries
        <3> QED  BY <1>6, <3>1 DEF FwhTimeout
    <2>2. /\ t \in RState(fresh) /\ t.fwh = NoKmp /\ t.auth = auth /\ t.gkh = gkh
          /\ t.mka = mka /\ t.sent = {} /\ t.fresh = fresh
        BY <1>2, <1>3 DEF RState, FwhType
    <2> HIDE DEF t
    <2>3. Fine(t)  BY <1>2, <1>3, <2>2 DEF Fine, NoKmp
    <2> QED  BY <1>5, <2>1, <2>2, <2>3, RouterStep DEF PtkKept
<1>7. CASE fwh.tries < MaxTries /\ fwh.st = "msg2" /\ auth.pmk = NoPmk
    <2> DEFINE t == [Here EXCEPT !.fwh.tries = Here.fwh.tries + 1]
    <2>1. Become(t, {})
        <3>1. ~(fwh.tries >= MaxTries)  BY <1>4, <1>7, BoundsAssumption DEF Tries
        <3> QED  BY <1>7, <3>1 DEF FwhTimeout
    <2>2. fwh.tries + 1 \in Tries  BY <1>4, <1>7, BoundsAssumption DEF Tries
    <2>3. [fwh EXCEPT !.tries = fwh.tries + 1] \in FwhType(fresh)
        BY <1>1, <1>4, <2>2 DEF FwhType
    <2>4. /\ t.fwh = [fwh EXCEPT !.tries = fwh.tries + 1] /\ t.auth = auth /\ t.gkh = gkh
          /\ t.mka = mka /\ t.sent = {} /\ t.fresh = fresh
        BY DEF Here
    <2>5. t \in RState(fresh)  BY <1>2, <1>3, <2>3 DEF RState
    <2>6. t.fwh.st = "msg2"  BY <1>1, <1>4, <1>7, <2>4 DEF FwhType
    <2> HIDE DEF t
    <2>7. Fine(t)  BY <1>2, <1>3, <1>7, <2>4, <2>5, <2>6 DEF Fine
    <2> QED  BY <1>5, <2>1, <2>4, <2>7, RouterStep DEF PtkKept
<1>8. CASE fwh.tries < MaxTries /\ fwh.st = "msg2" /\ auth.pmk # NoPmk
    <2> DEFINE t == SendM1(Here, fwh.tries + 1)
    <2>1. Become(t, {})
        <3>1. ~(fwh.tries >= MaxTries)  BY <1>4, <1>8, BoundsAssumption DEF Tries
        <3> QED  BY <1>8, <3>1 DEF FwhTimeout
    <2>2. fwh.tries + 1 \in Tries  BY <1>4, <1>8, BoundsAssumption DEF Tries
    <2>3. /\ t \in RState(fresh + 1) /\ t.auth = [auth EXCEPT !.cnt = t.auth.cnt]
          /\ t.gkh = gkh /\ t.mka = mka /\ t.fwh.st = "msg2"
          /\ \A m \in t.sent : m.t = "m1"
        BY <1>2, <1>3, <1>8, <2>2, SendM1Keeps
    <2> HIDE DEF t
    <2>4. /\ t.auth.live = auth.live /\ t.auth.pmk = auth.pmk /\ t.auth.ptk = auth.ptk
          /\ t.auth.ptkMis = auth.ptkMis
        BY <1>4, <2>3 DEF EntryType
    <2>5. t.fresh = fresh + 1  BY <2>3 DEF RState
    <2>6. t.fresh \in Nat /\ fresh <= t.fresh  BY <1>2, <2>5
    <2>7. Fine(t)  BY <1>2, <1>3, <1>8, <2>3, <2>4, <2>5, <2>6 DEF Fine
    <2> QED  BY <1>5, <2>1, <2>4, <2>7, RouterStep DEF PtkKept
<1>9. CASE fwh.tries < MaxTries /\ fwh.st = "msg4"
    <2> DEFINE t == SendM3(Here, fwh.ptk, fwh.tries + 1)
    <2>1. Become(t, {})
        <3>1. ~(fwh.tries >= MaxTries)  BY <1>4, <1>9, BoundsAssumption DEF Tries
        <3> QED  BY <1>9, <3>1 DEF FwhTimeout
    <2>2. fwh.tries + 1 \in Tries  BY <1>4, <1>9, BoundsAssumption DEF Tries
    <2>3. /\ t \in RState(fresh) /\ t.auth = [auth EXCEPT !.cnt = t.auth.cnt]
          /\ t.gkh = gkh /\ t.mka = mka /\ t.fresh = fresh
          /\ \A m \in t.sent : m.t = "m3"
        BY <1>1, <1>2, <1>3, <1>4, <2>2, SendM3Keeps
    <2> HIDE DEF t
    <2>4. /\ t.auth.live = auth.live /\ t.auth.pmk = auth.pmk /\ t.auth.ptk = auth.ptk
          /\ t.auth.ptkMis = auth.ptkMis
        BY <1>4, <2>3 DEF EntryType
    <2>5. dead = {} => auth.pmk # NoPmk  BY <1>9 DEF Inv, Protected
    <2>6. Fine(t)  BY <1>2, <1>3, <2>3, <2>4, <2>5 DEF Fine
    <2> QED  BY <1>5, <2>1, <2>4, <2>6, RouterStep DEF PtkKept
<1>10. fwh.tries >= MaxTries \/ fwh.tries < MaxTries
    BY <1>4, BoundsAssumption DEF Tries
<1> QED  BY <1>4, <1>6, <1>7, <1>8, <1>9, <1>10

LEMMA GkhTimeoutInv == ASSUME Inv, NEW n \in DOMAIN gkh, GkhTimeout(n) PROVE Inv' /\ PtkKept
<1>1. gkh # <<>> /\ gkh \in Seq(Tries) /\ n \in 1..Len(gkh)  BY DEF Inv, Typed
<1>2. auth.live  BY <1>1 DEF Inv, Idle
<1>3. Fine(Here) /\ Here \in RState(fresh) /\ fresh \in Nat
    BY <1>2, HereFine DEF Fine, Here
<1>4. /\ Here.fwh = fwh /\ Here.auth = auth /\ Here.sent = {} /\ Here.mka = mka
      /\ Here.gkh = gkh /\ Here.fresh = fresh
    BY DEF Here
<1>5. faults' \in 0..MaxFaults /\ UNCHANGED Router
    BY FaultsBounded DEF GkhTimeout, Inv
<1>6. dead = {} => auth.ptk # NoPtk /\ auth.pmk # NoPmk
    BY <1>1 DEF Inv, Protected
<1>7. auth.ptk # NoPtk => auth.ptk \in Range(installs)  BY DEF Inv, Agreed
<1>8. CASE gkh[n] >= MaxTries
    <2> DEFINE q == RemoveAt(gkh, n)
               t == [Here EXCEPT !.gkh = q]
    <2>1. Become(t, {})
        <3>1. t = [Here EXCEPT !.gkh = RemoveAt(Here.gkh, n)]  BY <1>4
        <3> QED  BY <1>8, <3>1 DEF GkhTimeout
    <2>2. q \in Seq(Tries)  BY <1>1 DEF RemoveAt
    <2> HIDE DEF q
    <2>3. /\ t \in RState(fresh) /\ t.fwh = fwh /\ t.auth = auth /\ t.gkh = q
          /\ t.mka = mka /\ t.sent = {} /\ t.fresh = fresh
        BY <1>3, <1>4, <2>2 DEF RState
    <2> HIDE DEF t
    <2>4. Fine(t)  BY <1>3, <1>4, <1>6, <2>3 DEF Fine
    <2> QED  BY <1>5, <2>1, <2>3, <2>4, RouterStep DEF PtkKept
<1>9. CASE ~(gkh[n] >= MaxTries)
    <2> DEFINE u == SendG1(Here)
               q == [gkh EXCEPT ![n] = gkh[n] + 1]
               t == [u EXCEPT !.gkh[n] = u.gkh[n] + 1]
    <2>1. Become(t, {})  BY <1>9 DEF GkhTimeout
    <2>2. /\ u \in RState(fresh) /\ u.auth = [auth EXCEPT !.cnt = u.auth.cnt]
          /\ u.gkh = gkh /\ u.mka = mka /\ u.fwh = fwh /\ u.fresh = fresh
          /\ \A m \in u.sent : m.t = "g1" /\ m.mic = auth.ptk
        BY <1>3, <1>4, SendG1Keeps DEF Inv, Typed
    <2> HIDE DEF u
    <2>3. q \in Seq(Tries)
        <3>1. gkh[n] + 1 \in Tries  BY <1>1, <1>9, BoundsAssumption DEF Tries
        <3> QED  BY <1>1, <3>1
    <2>4. t.gkh = q  BY <2>2 DEF RState
    <2>5. /\ t \in RState(fresh) /\ t.fwh = fwh /\ t.auth = u.auth
          /\ t.mka = mka /\ t.sent = u.sent /\ t.fresh = fresh
        BY <2>2, <2>3 DEF RState
    <2>6. /\ u.auth.live = auth.live /\ u.auth.pmk = auth.pmk /\ u.auth.ptk = auth.ptk
          /\ u.auth.ptkMis = auth.ptkMis
        BY <2>2 DEF Inv, Typed, EntryType
    <2> HIDE DEF t, q
    <2>7. Fine(t)  BY <1>3, <1>4, <1>6, <1>7, <2>2, <2>5, <2>6 DEF Fine
    <2> QED  BY <1>5, <2>1, <2>5, <2>6, <2>7, RouterStep DEF PtkKept
<1> QED  BY <1>8, <1>9

LEMMA MkaDoneInv == ASSUME Inv, MkaDone PROVE Inv' /\ PtkKept
<1> DEFINE pmk == fresh + 1
           e == [auth EXCEPT !.pmk = pmk, !.cnt = None, !.pmkMis = FALSE]
           s == [Here EXCEPT !.auth = e, !.fresh = pmk, !.mka = "none"]
<1>1. mka = "run" /\ Become(Trigger(s), {})  BY DEF MkaDone
<1>2. auth.live  BY <1>1 DEF Inv, Idle
<1>3. Fine(Here) /\ Here \in RState(fresh) /\ fresh \in Nat
    BY <1>2, HereFine DEF Fine, Here
<1>4. pmk \in Nat /\ fresh <= pmk /\ pmk \in 0..pmk /\ pmk # NoPmk  BY <1>3 DEF NoPmk
<1>5. auth \in EntryType(pmk) /\ fwh \in FwhType(pmk)
    BY <1>3, <1>4, TypesGrow DEF Inv, Typed
<1>6. /\ e \in EntryType(pmk) /\ e.live /\ e.pmk = pmk /\ e.ptk = auth.ptk
      /\ e.ptkMis = auth.ptkMis
    <2> HIDE DEF pmk
    <2> QED  BY <1>2, <1>4, <1>5 DEF EntryType
<1>7. /\ s.auth = e /\ s.fwh = fwh /\ s.gkh = gkh /\ s.mka = "none" /\ s.sent = {}
      /\ s.fresh = pmk /\ s \in RState(pmk)
    <2> HIDE DEF e, pmk
    <2>1. gkh \in Seq(Tries)  BY DEF Inv, Typed
    <2> QED  BY <1>5, <1>6, <2>1 DEF Here, RState
<1>8. Fine(s)
    <2>1. pmk \notin dead
        <3>1. dead \subseteq 1..fresh  BY DEF Inv, Typed
        <3> QED  BY <1>3, <3>1
    <2>2. auth.ptk # NoPtk => auth.ptk \in Range(installs)  BY DEF Inv, Agreed
    <2>3. dead = {} => (gkh # <<>> => auth.ptk # NoPtk)  BY DEF Inv, Protected
    <2> HIDE DEF s, e, pmk
    <2> QED  BY <1>4, <1>6, <1>7, <2>1, <2>2, <2>3 DEF Fine
<1>9. Fine(Trigger(s)) /\ Trigger(s).auth.ptk = s.auth.ptk
    <2> HIDE DEF s
    <2>1. s.fresh \in Nat /\ s \in RState(s.fresh)  BY <1>8 DEF Fine
    <2>2. Started(s, Trigger(s))  BY <2>1, TriggerKeeps DEF Inv, Typed
    <2>3. dead = {} => s.auth.ptkMis \/ s.auth.ptk # NoPtk
        <3> HIDE DEF e
        <3> QED  BY <1>1, <1>6, <1>7 DEF Inv, Protected
    <2>4. Trigger(s).auth.ptk = s.auth.ptk  BY <2>2 DEF Started
    <2> QED  BY <1>3, <1>8, <2>2, <2>3, <2>4, FineStarted
<1>10. node' \in NodeType(Trigger(s).fresh)
    <2> DEFINE g == Trigger(s).fresh
    <2>1. g \in Nat /\ pmk <= g
        <3>1. Started(s, Trigger(s))
            <4> HIDE DEF s, pmk
            <4> QED  BY <1>4, <1>7, TriggerKeeps DEF Inv, Typed
        <3> HIDE DEF s, pmk
        <3> QED  BY <1>7, <3>1 DEF Started
    <2> HIDE DEF g
    <2>2. node \in NodeType(g) /\ pmk \in 0..g
        <3>1. fresh <= g  BY <1>3, <1>4, <2>1
        <3> QED  BY <1>3, <1>4, <2>1, <3>1, TypesGrow DEF Inv, Typed
    <2>3. node' = [node EXCEPT !.pmk = pmk, !.cnt = None]  BY DEF MkaDone
    <2> HIDE DEF pmk
    <2>4. node' \in NodeType(g)  BY <2>2, <2>3 DEF NodeType
    <2> QED  BY <2>4 DEF g
<1>11. UNCHANGED <<gtk, act, file, nfwh, installs, dead>> /\ faults' \in 0..MaxFaults
    BY DEF MkaDone, Inv, Typed
<1> HIDE DEF s, e
<1> QED  BY <1>1, <1>6, <1>7, <1>9, <1>10, <1>11, BecomeFine DEF PtkKept

LEMMA MkaTimeoutInv == ASSUME Inv, MkaTimeout PROVE Inv' /\ PtkKept
<1> DEFINE t == [Here EXCEPT !.mka = "none"]
<1>1. auth.live  BY DEF MkaTimeout, Inv, Idle
<1>2. Fine(Here) /\ Here \in RState(fresh) /\ fresh \in Nat
    BY <1>1, HereFine DEF Fine, Here
<1>3. /\ t \in RState(fresh) /\ t.auth = Here.auth /\ t.fwh = Here.fwh /\ t.gkh = Here.gkh
      /\ t.mka = "none" /\ t.sent = Here.sent /\ t.fresh = fresh /\ Here.fresh = fresh
    BY <1>2 DEF RState
<1>4. Become(t, {}) /\ UNCHANGED Router /\ faults' \in 0..MaxFaults
    BY FaultsBounded DEF MkaTimeout, Inv
<1> HIDE DEF t
<1>5. Fine(t)  BY <1>2, <1>3 DEF Fine
<1>6. Here.auth = auth  BY DEF Here
<1> QED  BY <1>3, <1>4, <1>5, <1>6, RouterStep DEF PtkKept

\* Without an entry nothing of the border router's is left but the file.
LEMMA EntryDropped ==
    ASSUME Inv, auth' = NoEntry, fwh' = NoKmp, gkh' = <<>>, mka' = "none",
           net' \subseteq net, faults' \in 0..MaxFaults,
           UNCHANGED <<gtk, act, node, nfwh, fresh, installs, dead>>,
           file' \in FileType(fresh), file'.exists =>
              /\ file'.ptk # NoPtk => file'.ptk \in Range(installs)
              /\ file'.pmk \notin dead
    PROVE  Inv'
<1>1. /\ NoEntry.ptk = NoPtk /\ NoEntry.pmk = NoPmk /\ ~NoEntry.live /\ NoKmp.st # "msg4"
    BY DEF NoEntry, NewEntry, NoKmp
<1>2. fresh \in Nat /\ NoEntry \in EntryType(fresh) /\ NoPmk \notin dead
    BY NewEntryType DEF Inv, Typed, NoPmk
<1>3. NoKmp \in FwhType(fresh) /\ <<>> \in Seq(Tries)  BY DEF FwhType
<1>4. Typed'
    BY <1>2, <1>3 DEF Inv, Typed, KeysTyped
<1>5. Idle'  BY DEF Idle
<1>6. Agreed'  BY <1>1 DEF Inv, Agreed
<1>7. InstalledOnce'  BY DEF Inv, InstalledOnce
<1>8. Protected'  BY <1>1 DEF Inv, Protected
<1>9. RevokedStaysOut'  BY <1>1, <1>2 DEF RevokedStaysOut
<1> QED  BY <1>4, <1>5, <1>6, <1>7, <1>8, <1>9 DEF Inv

\* What is written for an entry is what the entry holds.
LEMMA WrittenFine ==
    ASSUME Inv
    PROVE  /\ SuppWrite(auth) \in FileType(fresh)
           /\ SuppWrite(auth).ptk # NoPtk => SuppWrite(auth).ptk \in Range(installs)
           /\ SuppWrite(auth).pmk \notin dead
<1>1. /\ SuppWrite(auth) \in FileType(fresh)
      /\ SuppWrite(auth).ptk = auth.ptk /\ SuppWrite(auth).pmk = auth.pmk
    BY SuppWriteType DEF Inv, Typed
<1> QED  BY <1>1 DEF Inv, Agreed, RevokedStaysOut

LEMMA InactiveInv == ASSUME Inv, Inactive PROVE Inv'
<1>1. file' = file \/ file' = SuppWrite(auth)  BY DEF Inactive, SavedAs
<1>2. /\ file' \in FileType(fresh)
      /\ file'.exists => /\ file'.ptk # NoPtk => file'.ptk \in Range(installs)
                         /\ file'.pmk \notin dead
    BY <1>1, WrittenFine DEF Inv, Typed, Agreed, RevokedStaysOut
<1>3. faults' \in 0..MaxFaults  BY FaultsBounded DEF Inactive, Inv
<1> QED  BY <1>2, <1>3, EntryDropped DEF Inactive, KmpsDone

LEMMA DownInv ==
    ASSUME Inv, NEW received, Down(received), faults' \in 0..MaxFaults
    PROVE  Inv'
<1>1. /\ file' \in FileType(fresh)
      /\ file'.exists => /\ file'.ptk # NoPtk => file'.ptk \in Range(installs)
                         /\ file'.pmk \notin dead
    BY DEF Down, Inv, Typed, Agreed, RevokedStaysOut
<1> QED  BY <1>1, EntryDropped DEF Down

LEMMA StoreTimeoutInv == ASSUME Inv, StoreTimeout PROVE Inv'
<1>1. /\ file' = SuppWrite(auth)
      /\ UNCHANGED <<gtk, act, auth, fwh, gkh, mka, node, nfwh, net, fresh, installs, dead>>
    BY DEF StoreTimeout
<1>2. faults' \in 0..MaxFaults  BY FaultsBounded DEF StoreTimeout, Inv
<1>3. Typed'  BY <1>1, <1>2, WrittenFine DEF Inv, Typed, KeysTyped
<1>4. Idle'  BY <1>1 DEF Inv, Idle
<1>5. Agreed'  BY <1>1, WrittenFine DEF Inv, Agreed
<1>6. InstalledOnce'  BY <1>1 DEF Inv, InstalledOnce
<1>7. Protected'  BY <1>1 DEF Inv, Protected
<1>8. RevokedStaysOut'  BY <1>1, WrittenFine DEF Inv, RevokedStaysOut
<1> QED  BY <1>3, <1>4, <1>5, <1>6, <1>7, <1>8 DEF Inv

LEMMA RevokeInv == ASSUME Inv, Revoke PROVE Inv'
<1> DEFINE killed == {auth.pmk, IF file.exists THEN file.pmk ELSE NoPmk} \ {NoPmk}
           e == [auth EXCEPT !.pmk = NoPmk, !.cnt = None, !.ptk = NoPtk, !.revoked = TRUE]
<1>1. /\ auth' = IF auth.live THEN e ELSE auth
      /\ file' = NoFile /\ dead' = dead \cup killed
      /\ UNCHANGED <<gtk, act, fwh, gkh, mka, node, nfwh, net, fresh, installs>>
    BY DEF Revoke, FileAfterRevoke
<1>2. faults' \in 0..MaxFaults  BY FaultsBounded DEF Revoke, Inv
<1>3. fresh \in Nat /\ auth \in EntryType(fresh) /\ file \in FileType(fresh)  BY DEF Inv, Typed
<1>4. killed \subseteq 1..fresh
    <2>1. auth.pmk \in 0..fresh  BY <1>3 DEF EntryType
    <2>2. file.exists => file.pmk \in 0..fresh
        <3>1. file.exists => file # NoFile  BY DEF NoFile
        <3> QED  BY <1>3, <3>1 DEF FileType
    <2> QED  BY <1>3, <2>1, <2>2 DEF NoPmk
<1>5. /\ e \in EntryType(fresh) /\ e.live = auth.live /\ e.pmk = NoPmk /\ e.ptk = NoPtk
      /\ e.ptkMis = auth.ptkMis
    <2>1. NoPmk \in 0..fresh  BY <1>3 DEF NoPmk
    <2> QED  BY <1>3, <2>1 DEF EntryType
<1>6. NoEntry.pmk = NoPmk /\ NoEntry.ptk = NoPtk  BY DEF NoEntry, NewEntry
<1>7. /\ auth' \in EntryType(fresh) /\ auth'.pmk = NoPmk /\ auth'.ptk = NoPtk
      /\ auth'.ptkMis = auth.ptkMis /\ auth'.live = auth.live /\ (~auth.live => auth' = auth)
    <2> HIDE DEF e
    <2> QED  BY <1>1, <1>3, <1>5, <1>6 DEF Inv, Idle
<1>8. ~NoFile.exists /\ NoFile \in FileType(fresh)  BY DEF NoFile, FileType
<1> HIDE DEF e
<1>9. Typed'
    <2>1. dead' \subseteq 1..fresh  BY <1>1, <1>4 DEF Inv, Typed
    <2> QED  BY <1>1, <1>2, <1>7, <1>8, <2>1 DEF Inv, Typed, KeysTyped
<1>10. Idle'  BY <1>1, <1>7 DEF Inv, Idle
<1>11. Agreed'  BY <1>1, <1>7, <1>8 DEF Inv, Agreed
<1>12. InstalledOnce'  BY <1>1 DEF Inv, InstalledOnce
<1>13. Protected'
    <2>1. SUFFICES ASSUME dead' = {} PROVE
             /\ gkh = <<>> /\ fwh.st # "msg4"
             /\ mka = "run" => auth.ptkMis
             /\ \A m \in net : m.t = "g1" => m.mic # NoPtk /\ m.mic \in Range(installs)
        BY <1>1, <1>7 DEF Protected
    <2>2. dead = {} /\ auth.pmk = NoPmk  BY <1>1, <2>1
    <2> QED  BY <2>2 DEF Inv, Protected
<1>14. RevokedStaysOut'
    <2>1. NoPmk \notin dead  BY DEF Inv, Typed, NoPmk
    <2> QED  BY <1>1, <1>7, <1>8, <2>1 DEF RevokedStaysOut
<1> QED  BY <1>9, <1>10, <1>11, <1>12, <1>13, <1>14 DEF Inv

-----------------------------------------------------------------------------
(***************************************************************************)
(* Group keys.                                                              *)
(***************************************************************************)
LEMMA GroupKeysInv ==
    ASSUME Inv, KeysTyped',
           UNCHANGED <<auth, fwh, gkh, mka, file, node, nfwh, net, fresh, faults, installs, dead>>
    PROVE  Inv'
BY DEF Inv, Typed, Idle, Agreed, InstalledOnce, Protected, RevokedStaysOut

LEMMA NewGtkInv == ASSUME Inv, NEW i \in Slots, NewGtk(i) PROVE Inv'
<1>1. KeysTyped  BY DEF Inv, Typed
<1>2. Newest \in Slots /\ gtk[Newest] < MaxGtk  BY <1>1, NewestIsSlot DEF NewGtk
<1>3. gtk[Newest] \in GtkNumber  BY <1>1, <1>2 DEF KeysTyped
<1>4. gtk[Newest] + 1 \in GtkNumber  BY <1>2, <1>3, BoundsAssumption DEF GtkNumber
<1>5. KeysTyped'  BY <1>1, <1>4 DEF NewGtk, KeysTyped
<1> QED  BY <1>5, GroupKeysInv DEF NewGtk

LEMMA ActivateInv == ASSUME Inv, Activate PROVE Inv'
<1>1. KeysTyped  BY DEF Inv, Typed
<1>2. Newest \in Slots /\ gtk[act] <= gtk[Newest] /\ gtk[act] # 0
    BY <1>1, NewestIsSlot DEF KeysTyped
<1>3. gtk[Newest] # 0  BY <1>1, <1>2, BoundsAssumption DEF KeysTyped, GtkNumber
<1>4. KeysTyped'  BY <1>1, <1>2, <1>3 DEF Activate, KeysTyped
<1> QED  BY <1>4, GroupKeysInv DEF Activate

-----------------------------------------------------------------------------
(***************************************************************************)
(* The node's actions.                                                      *)
(***************************************************************************)

\* What a step of the node has to keep.
LEMMA NodeStep ==
    ASSUME Inv, UNCHANGED Supplicant, fresh' \in Nat, fresh <= fresh',
           node' \in NodeType(fresh'), nfwh' \in NFwhType(fresh'), faults' \in 0..MaxFaults,
           installs' \in Seq(Ptks(fresh')), Range(installs) \subseteq Range(installs'),
           InstalledOnce',
           nfwh'.st = "msg3" => nfwh'.ptk \notin Range(installs'),
           nfwh'.st = "retry" => nfwh'.ptk \in Range(installs'),
           \A m \in net' \ net :
              m \in Msg(fresh') /\ m.t # "g1" /\ (m.t = "m4" => m.mic \in Range(installs'))
    PROVE  Inv'
<1>1. /\ gtk' = gtk /\ act' = act /\ auth' = auth /\ fwh' = fwh /\ gkh' = gkh
      /\ mka' = mka /\ file' = file /\ dead' = dead
    BY DEF Supplicant
<1>2. Typed'
    <2>1. fresh \in Nat  BY DEF Inv, Typed
    <2>2. auth' \in EntryType(fresh') /\ fwh' \in FwhType(fresh') /\ file' \in FileType(fresh')
        BY <1>1, <2>1, TypesGrow DEF Inv, Typed
    <2>3. net' \subseteq Msg(fresh')  BY <2>1, MsgGrow DEF Inv, Typed
    <2>4. dead' \subseteq 1..fresh'  BY <1>1, <2>1, PtksGrow DEF Inv, Typed
    <2>5. KeysTyped' /\ gkh' \in Seq(Tries) /\ mka' \in {"none", "run", "tls"}
        BY <1>1 DEF Inv, Typed, KeysTyped
    <2> QED  BY <2>2, <2>3, <2>4, <2>5 DEF Typed
<1>3. Idle'  BY <1>1 DEF Inv, Idle
<1>4. Agreed'  BY <1>1 DEF Inv, Agreed
<1>5. Protected'  BY <1>1 DEF Inv, Protected
<1>6. RevokedStaysOut'  BY <1>1 DEF Inv, RevokedStaysOut
<1> QED  BY <1>2, <1>3, <1>4, <1>5, <1>6 DEF Inv

\* A step that makes up nothing and installs nothing.
LEMMA QuietNodeStep ==
    ASSUME Inv, UNCHANGED Supplicant, UNCHANGED <<fresh, installs>>,
           node' \in NodeType(fresh), nfwh' \in {nfwh, NoKmp}, faults' \in 0..MaxFaults,
           \A m \in net' \ net : m \in Msg(fresh) /\ m.t # "g1" /\ m.t # "m4"
    PROVE  Inv'
<1>1. fresh' = fresh /\ installs' = installs /\ fresh \in Nat /\ fresh <= fresh'
    BY DEF Inv, Typed
<1>2. nfwh' \in NFwhType(fresh')  BY <1>1 DEF Inv, Typed, NFwhType
<1>3. InstalledOnce'  BY <1>1 DEF Inv, InstalledOnce
<1>4. /\ nfwh'.st = "msg3" => nfwh'.ptk \notin Range(installs')
      /\ nfwh'.st = "retry" => nfwh'.ptk \in Range(installs')
    BY <1>1 DEF Inv, Agreed, NoKmp
<1>5. installs' \in Seq(Ptks(fresh'))  BY <1>1 DEF Inv, Typed
<1> QED  BY <1>1, <1>2, <1>3, <1>4, <1>5, NodeStep

LEMMA NodeStartInv == ASSUME Inv, NodeStart PROVE Inv'
<1> DEFINE fit == {i \in Slots : gtk[i] # 0 /\ node.gtks[i] = gtk[i]}
           kept == [i \in Slots |-> IF i \in fit THEN node.gtks[i] ELSE 0]
           m == [t |-> "key", pmk |-> node.pmk, ptk |-> node.ptk, gtkl |-> fit]
<1>1. node \in NodeType(fresh)  BY DEF Inv, Typed
<1>2. kept \in [Slots -> GtkNumber]  BY <1>1, BoundsAssumption DEF NodeType, GtkNumber
<1>3. node' = [node EXCEPT !.gtks = kept] /\ net' = net \cup {m}
    BY DEF NodeStart
<1>4. node' \in NodeType(fresh)
    <2> HIDE DEF kept
    <2> QED  BY <1>1, <1>2, <1>3 DEF NodeType
<1>5. m \in Msg(fresh)
    <2>1. fit \in SUBSET Slots  OBVIOUS
    <2> HIDE DEF fit
    <2>2. m \in KeyMsg(fresh)  BY <1>1, <2>1 DEF NodeType, KeyMsg
    <2> QED  BY <2>2 DEF Msg
<1>6. m.t # "g1" /\ m.t # "m4"  OBVIOUS
<1>7. faults' \in 0..MaxFaults  BY FaultsBounded DEF NodeStart, Inv
<1>8. UNCHANGED Supplicant /\ UNCHANGED <<fresh, installs>> /\ nfwh' = nfwh
    BY DEF NodeStart
<1> HIDE DEF m
<1> QED  BY <1>3, <1>4, <1>5, <1>6, <1>7, <1>8, QuietNodeStep

\* The nonce is new, so the PTK is one that was never installed.
LEMMA RecvM1Inv ==
    ASSUME Inv, NEW m \in net, NEW received, RecvM1(m, received)
    PROVE  Inv'
<1> DEFINE g == fresh + 1
           ptk == Ptk(node.pmk, m.a, g)
           r == [t |-> "m2", cnt |-> m.cnt, s |-> g, mic |-> ptk]
<1>1. /\ m.t = "m1" /\ m.pmk = node.pmk /\ fresh' = g
      /\ nfwh' = [st |-> "msg3", anonce |-> m.a, ptk |-> ptk, rcnt |-> m.cnt]
      /\ net' = (net \ received) \cup {r}
      /\ UNCHANGED Supplicant /\ node' = node /\ installs' = installs
    BY DEF RecvM1, M1Valid
<1>2. fresh \in Nat /\ m \in Msg(fresh)  BY DEF Inv, Typed
<1>3. m.cnt \in Nat /\ m.pmk \in 1..fresh /\ m.a \in 1..fresh
    <2>1. m \in M1(fresh)  BY <1>1, <1>2, MsgByTag
    <2> QED  BY <2>1 DEF M1
<1>4. g \in Nat /\ fresh <= g /\ g \in 1..g /\ m.pmk \in 1..g /\ m.a \in 1..g
    BY <1>2, <1>3
<1>5. ptk \in Ptks(g) /\ ptk \notin Ptks(fresh)
    <2>1. ptk = <<m.pmk, m.a, g>>  BY <1>1 DEF Ptk
    <2>2. g \notin 1..fresh  BY <1>2
    <2> HIDE DEF g, ptk
    <2> QED  BY <1>4, <2>1, <2>2 DEF Ptks
<1>6. Ptks(fresh) \subseteq Ptks(g)  BY <1>2, <1>4, PtksGrow
<1>7. installs \in Seq(Ptks(fresh))  BY DEF Inv, Typed
<1>8. Range(installs) \subseteq Ptks(fresh)  BY <1>7 DEF Range
<1> HIDE DEF g, ptk
<1>9. r \in Msg(g)
    <2>1. r \in M2(g)  BY <1>3, <1>4, <1>5 DEF M2
    <2> QED  BY <2>1 DEF Msg
<1>10. r.t # "g1" /\ r.t # "m4"  OBVIOUS
<1>11. nfwh' \in NFwhType(g) /\ nfwh'.st = "msg3" /\ nfwh'.ptk = ptk
    BY <1>1, <1>3, <1>4, <1>5 DEF NFwhType
<1>12. node' \in NodeType(g)  BY <1>1, <1>2, <1>4, TypesGrow DEF Inv, Typed
<1>13. installs' \in Seq(Ptks(g))  BY <1>1, <1>6, <1>7, SeqGrow
<1>14. InstalledOnce'  BY <1>1 DEF Inv, InstalledOnce
<1>15. faults' \in 0..MaxFaults  BY FaultsBounded DEF RecvM1, Inv
<1> HIDE DEF r
<1> QED
    BY <1>1, <1>2, <1>4, <1>5, <1>8, <1>9, <1>10, <1>11, <1>12, <1>13, <1>14, <1>15, NodeStep

\* The first message 3 installs a PTK that is new, the others install nothing.
LEMMA RecvM3Inv ==
    ASSUME Inv, NEW m \in net, NEW received, RecvM3(m, received)
    PROVE  Inv'
<1> DEFINE r == [t |-> "m4", cnt |-> m.cnt, mic |-> nfwh.ptk]
<1>1. /\ m.t = "m3" /\ nfwh.st \in {"msg3", "retry"} /\ fresh' = fresh
      /\ node' = [node EXCEPT !.gtks[m.idx] = m.key, !.cnt = m.cnt, !.ptk = nfwh.ptk]
      /\ nfwh' = [nfwh EXCEPT !.st = "retry", !.rcnt = m.cnt]
      /\ installs' = IF nfwh.st = "msg3" THEN Append(installs, nfwh.ptk) ELSE installs
      /\ net' = (net \ received) \cup {r} /\ UNCHANGED Supplicant
    BY DEF RecvM3, M3Valid, InstallsPtk
<1>2. /\ fresh \in Nat /\ m \in Msg(fresh) /\ node \in NodeType(fresh)
      /\ nfwh \in NFwhType(fresh) /\ installs \in Seq(Ptks(fresh))
    BY DEF Inv, Typed
<1>3. m.cnt \in Nat /\ m.idx \in Slots /\ m.key \in GtkNumber
    <2>1. m \in M3(fresh)  BY <1>1, <1>2, MsgByTag
    <2> QED  BY <2>1 DEF M3
<1>4. nfwh.ptk \in Ptks(fresh) /\ nfwh' \in NFwhType(fresh) /\ nfwh'.st = "retry" /\ nfwh'.ptk = nfwh.ptk
    <2>1. nfwh # NoKmp  BY <1>1 DEF NoKmp
    <2> QED  BY <1>1, <1>2, <1>3, <2>1 DEF NFwhType
<1>5. node' \in NodeType(fresh)  BY <1>1, <1>2, <1>3, <1>4 DEF NodeType
<1>6. r \in Msg(fresh)
    <2>1. r \in M4(fresh)  BY <1>3, <1>4 DEF M4
    <2> QED  BY <2>1 DEF Msg
<1>7. r.t = "m4" /\ r.mic = nfwh.ptk  OBVIOUS
<1>8. /\ installs' \in Seq(Ptks(fresh)) /\ Range(installs) \subseteq Range(installs')
      /\ nfwh.ptk \in Range(installs') /\ InstalledOnce'
    <2>1. CASE nfwh.st = "msg3"
        <3>1. installs' = Append(installs, nfwh.ptk)  BY <1>1, <2>1
        <3>2. nfwh.ptk \notin Range(installs)  BY <2>1 DEF Inv, Agreed
        <3>3. /\ installs' \in Seq(Ptks(fresh)) /\ Len(installs') = Len(installs) + 1
              /\ installs'[Len(installs) + 1] = nfwh.ptk
              /\ \A k \in 1..Len(installs) : installs'[k] = installs[k]
              /\ DOMAIN installs' = 1..(Len(installs) + 1) /\ Len(installs) \in Nat
              /\ DOMAIN installs = 1..Len(installs)
            BY <1>2, <1>4, <3>1
        <3>4. Range(installs) \subseteq Range(installs') /\ nfwh.ptk \in Range(installs')
            BY <3>3 DEF Range
        <3>5. \A k \in 1..Len(installs) : installs[k] # nfwh.ptk
            BY <3>2, <3>3 DEF Range
        <3>6. InstalledOnce'
            <4>1. SUFFICES ASSUME NEW j \in DOMAIN installs', NEW k \in DOMAIN installs',
                                  installs'[j] = installs'[k]
                           PROVE  j = k
                BY DEF InstalledOnce
            <4>2. CASE j \in 1..Len(installs) /\ k \in 1..Len(installs)
                BY <3>3, <4>1, <4>2 DEF Inv, InstalledOnce
            <4>3. CASE j = Len(installs) + 1 \/ k = Len(installs) + 1
                BY <3>3, <3>5, <4>1, <4>3
            <4> QED  BY <3>3, <4>2, <4>3
        <3> QED  BY <3>3, <3>4, <3>6
    <2>2. CASE nfwh.st = "retry"
        <3>1. installs' = installs  BY <1>1, <2>2
        <3>2. nfwh.ptk \in Range(installs)  BY <2>2 DEF Inv, Agreed
        <3> QED  BY <1>2, <3>1, <3>2 DEF Inv, InstalledOnce
    <2> QED  BY <1>1, <2>1, <2>2
<1>9. faults' \in 0..MaxFaults  BY FaultsBounded DEF RecvM3, Inv
<1>10. fresh <= fresh'  BY <1>1, <1>2
<1> HIDE DEF r
<1> QED  BY <1>1, <1>2, <1>4, <1>5, <1>6, <1>7, <1>8, <1>9, <1>10, NodeStep

LEMMA RecvG1Inv ==
    ASSUME Inv, NEW m \in net, NEW received, RecvG1(m, received)
    PROVE  Inv'
<1> DEFINE r == [t |-> "g2", cnt |-> m.cnt, mic |-> node.ptk]
<1>1. /\ m.t = "g1" /\ m.idx # None
      /\ node' = [node EXCEPT !.gtks[m.idx] = m.key, !.cnt = m.cnt]
      /\ net' = (net \ received) \cup {r}
      /\ UNCHANGED Supplicant /\ UNCHANGED <<fresh, installs>> /\ nfwh' = nfwh
    BY DEF RecvG1, G1Valid
<1>2. fresh \in Nat /\ m \in Msg(fresh) /\ node \in NodeType(fresh)  BY DEF Inv, Typed
<1>3. m.cnt \in Nat /\ m.idx \in Slots /\ m.key \in GtkNumber
    <2>1. m \in G1(fresh)  BY <1>1, <1>2, MsgByTag
    <2> QED  BY <1>1, <2>1 DEF G1
<1>4. node' \in NodeType(fresh)  BY <1>1, <1>2, <1>3 DEF NodeType
<1>5. r \in Msg(fresh)
    <2>1. r \in G2(fresh)  BY <1>2, <1>3 DEF G2, NodeType
    <2> QED  BY <2>1 DEF Msg
<1>6. r.t # "g1" /\ r.t # "m4"  OBVIOUS
<1>7. faults' \in 0..MaxFaults  BY FaultsBounded DEF RecvG1, Inv
<1> HIDE DEF r
<1> QED  BY <1>1, <1>4, <1>5, <1>6, <1>7, QuietNodeStep

\* Messages may go and the node may give its handshake up.
LEMMA NodeQuietInv ==
    ASSUME Inv,
           \/ \E m \in net : NodeDiscard(m) \/ Lose(m)
           \/ NodeTimeout
    PROVE  Inv'
<1>1. /\ UNCHANGED Supplicant /\ UNCHANGED <<fresh, installs>> /\ node' = node
      /\ nfwh' \in {nfwh, NoKmp} /\ net' \subseteq net
    BY DEF NodeDiscard, Lose, NodeTimeout
<1>2. faults' \in 0..MaxFaults
    BY FaultsBounded DEF NodeDiscard, Lose, NodeTimeout, Inv
<1>3. node' \in NodeType(fresh)  BY <1>1 DEF Inv, Typed
<1> QED  BY <1>1, <1>2, <1>3, QuietNodeStep

-----------------------------------------------------------------------------
(***************************************************************************)
(* Theorems.                                                                *)
(***************************************************************************)
LEMMA InitInv == Init => Inv
<1> SUFFICES ASSUME Init PROVE Inv  OBVIOUS
<1>1. fresh = 0 /\ fresh \in Nat /\ faults = 0 /\ net = {} /\ installs = <<>> /\ dead = {}
    BY DEF Init
<1>2. KeysTyped
    BY SlotsAssumption, BoundsAssumption DEF Init, KeysTyped, GtkNumber
<1>3. auth = NoEntry /\ auth \in EntryType(fresh) /\ auth.ptk = NoPtk /\ auth.pmk = NoPmk
    <2>1. auth = NoEntry  BY DEF Init
    <2>2. NoEntry.ptk = NoPtk /\ NoEntry.pmk = NoPmk  BY DEF NoEntry, NewEntry
    <2> QED  BY <1>1, <2>1, <2>2, NewEntryType
<1>4. fwh = NoKmp /\ nfwh = NoKmp /\ fwh \in FwhType(fresh) /\ nfwh \in NFwhType(fresh)
    BY DEF Init, FwhType, NFwhType
<1>5. gkh = <<>> /\ gkh \in Seq(Tries) /\ mka = "none"  BY DEF Init
<1>6. file = NoFile /\ ~file.exists /\ file \in FileType(fresh)  BY DEF Init, NoFile, FileType
<1>7. node \in NodeType(fresh)
    <2>1. [i \in Slots |-> 0] \in [Slots -> GtkNumber]  BY BoundsAssumption DEF GtkNumber
    <2> QED  BY <1>1, <2>1 DEF Init, NodeType, NoPmk
<1>8. Typed
    <2>1. faults \in 0..MaxFaults  BY <1>1, BoundsAssumption
    <2>2. installs \in Seq(Ptks(fresh)) /\ dead \subseteq 1..fresh /\ net \subseteq Msg(fresh)  BY <1>1
    <2> QED  BY <1>1, <1>2, <1>3, <1>4, <1>5, <1>6, <1>7, <2>1, <2>2 DEF Typed
<1>9. Idle  BY <1>3, <1>4, <1>5 DEF Idle
<1>10. Agreed  BY <1>1, <1>3, <1>4, <1>6 DEF Agreed, NoKmp
<1>11. InstalledOnce  BY <1>1 DEF InstalledOnce
<1>12. Protected  BY <1>1, <1>3, <1>4, <1>5 DEF Protected, NoKmp
<1>13. RevokedStaysOut  BY <1>1, <1>6 DEF RevokedStaysOut
<1> QED  BY <1>8, <1>9, <1>10, <1>11, <1>12, <1>13 DEF Inv

LEMMA ReceiveInv == ASSUME Inv, NEW m \in net, Receive(m) PROVE Inv'
<1>1. ASSUME NEW received, NEW bits \in EntryBits, RecvKey(m, received, bits) PROVE Inv'
    BY <1>1, RecvKeyInv
<1>2. ASSUME NEW received, RecvM2(m, received) PROVE Inv'  BY <1>2, RecvM2Inv
<1>3. ASSUME NEW received, RecvM4(m, received) PROVE Inv'  BY <1>3, RecvM4Inv
<1>4. ASSUME NEW received, RecvG2(m, received) PROVE Inv'  BY <1>4, RecvG2Inv
<1>5. ASSUME NEW received, RecvM1(m, received) PROVE Inv'  BY <1>5, RecvM1Inv
<1>6. ASSUME NEW received, RecvM3(m, received) PROVE Inv'  BY <1>6, RecvM3Inv
<1>7. ASSUME NEW received, RecvG1(m, received) PROVE Inv'  BY <1>7, RecvG1Inv
<1>8. ASSUME NEW bits \in EntryBits, AuthDiscard(m, bits) PROVE Inv'  BY <1>8, AuthDiscardInv
<1>9. ASSUME NodeDiscard(m) PROVE Inv'  BY <1>9, NodeQuietInv
<1>10. ASSUME NullPmk(m) PROVE Inv'
    <2>1. faults' \in 0..MaxFaults  BY <1>10 DEF NullPmk, Inv, Typed
    <2> QED  BY <1>10, <2>1, DownInv DEF NullPmk
<1> QED
    BY <1>1, <1>2, <1>3, <1>4, <1>5, <1>6, <1>7, <1>8, <1>9, <1>10 DEF Receive

LEMMA NextInv == Inv /\ [Next]_vars => Inv'
<1> SUFFICES ASSUME Inv, [Next]_vars PROVE Inv'  OBVIOUS
<1>1. ASSUME NEW m \in net, Receive(m) PROVE Inv'  BY <1>1, ReceiveInv
<1>2. CASE FwhTimeout  BY <1>2, FwhTimeoutInv
<1>3. ASSUME NEW n \in DOMAIN gkh, GkhTimeout(n) PROVE Inv'  BY <1>3, GkhTimeoutInv
<1>4. CASE MkaDone  BY <1>4, MkaDoneInv
<1>5. CASE MkaTimeout  BY <1>5, MkaTimeoutInv
<1>6. CASE Inactive  BY <1>6, InactiveInv
<1>7. CASE NodeStart  BY <1>7, NodeStartInv
<1>8. CASE NodeTimeout  BY <1>8, NodeQuietInv
<1>9. ASSUME NEW i \in Slots, NewGtk(i) PROVE Inv'  BY <1>9, NewGtkInv
<1>10. CASE Activate  BY <1>10, ActivateInv
<1>11. ASSUME NEW m \in net, Lose(m) PROVE Inv'  BY <1>11, NodeQuietInv
<1>12. CASE StoreTimeout  BY <1>12, StoreTimeoutInv
<1>13. CASE Revoke  BY <1>13, RevokeInv
<1>14. CASE Crash
    <2>1. faults' \in 0..MaxFaults  BY <1>14, FaultsBounded DEF Crash, Inv
    <2> QED  BY <1>14, <2>1, DownInv DEF Crash
<1>15. CASE UNCHANGED vars
    BY <1>15 DEF vars, Inv, Typed, KeysTyped, Idle, Agreed, InstalledOnce, Protected,
                 RevokedStaysOut
<1> QED
    BY <1>1, <1>2, <1>3, <1>4, <1>5, <1>6, <1>7, <1>8, <1>9, <1>10, <1>11, <1>12, <1>13,
       <1>14, <1>15 DEF Next, Step

LEMMA InvHolds == Spec => []Inv
BY InitInv, NextInv, PTL DEF Spec

\* The invariant gives the type invariant the runs check.
LEMMA InvTypeOK == Inv => TypeOK
<1> SUFFICES ASSUME Inv PROVE TypeOK  OBVIOUS
<1>1. fresh \in Nat  BY DEF Inv, Typed
<1>2. Ptks(fresh) = (1..fresh) \X (1..fresh) \X (1..fresh)  BY DEF Ptks
<1>3. /\ gtk \in [Slots -> 0..MaxGtk] /\ act \in Slots /\ gtk[act] # 0
    BY DEF Inv, Typed, KeysTyped, GtkNumber
<1>4. auth \in EntryType(fresh)  BY DEF Inv, Typed
<1>5. /\ auth.pmk \in 0..fresh /\ auth.cnt \in Nat \cup {None} /\ auth.gtkl \subseteq Slots
      /\ auth.bits \subseteq Slots /\ auth.set \in Slots \cup {None}
      /\ auth.hash \in [Slots -> 0..MaxGtk] /\ auth.ptk \in Ptks(fresh) \cup {NoPtk}
    BY <1>4 DEF EntryType, GtkNumber
<1>6. fwh # NoKmp => /\ fwh.st \in {"msg2", "msg4"} /\ fwh.tries \in 1..MaxTries
                     /\ fwh.ptk \in Ptks(fresh) \cup {NoPtk}
    <2>1. fwh \in FwhType(fresh)  BY DEF Inv, Typed
    <2> QED  BY <2>1 DEF FwhType, Tries
<1>7. \A n \in DOMAIN gkh : gkh[n] \in 1..MaxTries
    <2>1. gkh \in Seq(Tries)  BY DEF Inv, Typed
    <2>2. \A n \in DOMAIN gkh : gkh[n] \in Tries  BY <2>1
    <2> QED  BY <2>2 DEF Tries
<1>8. file.exists => file.pmk \in 0..fresh /\ file.ptk \in Ptks(fresh) \cup {NoPtk}
    <2>1. file \in FileType(fresh)  BY DEF Inv, Typed
    <2>2. file.exists => file # NoFile  BY DEF NoFile
    <2> QED  BY <2>1, <2>2 DEF FileType
<1>9. node.pmk \in 0..fresh /\ node.gtks \in [Slots -> 0..MaxGtk] /\ node.ptk \in Ptks(fresh) \cup {NoPtk}
    <2>1. node \in NodeType(fresh)  BY DEF Inv, Typed
    <2> QED  BY <2>1 DEF NodeType, GtkNumber
<1>10. nfwh # NoKmp => nfwh.st \in {"msg3", "retry"} /\ nfwh.anonce \in 1..fresh
    <2>1. nfwh \in NFwhType(fresh)  BY DEF Inv, Typed
    <2> QED  BY <2>1 DEF NFwhType
<1>11. \A m \in net : m.t \in {"key", "m1", "m2", "m3", "m4", "g1", "g2"}
    BY <1>1, MsgByTag DEF Inv, Typed
<1>12. mka \in {"none", "run", "tls"} /\ faults \in 0..MaxFaults /\ Idle  BY DEF Inv, Typed
<1>13. \A p \in Ptks(fresh) \cup {NoPtk} : IsPtk(p)  BY <1>2 DEF IsPtk
<1> QED
    BY <1>3, <1>5, <1>6, <1>7, <1>8, <1>9, <1>10, <1>11, <1>12, <1>13 DEF TypeOK, Idle

\* Every field keeps its type, and no protocol runs without an entry, through
\* every interleaving of the two ends, losses, timeouts and restarts.
THEOREM HandshakeTypes == Spec => []TypeOK
BY InvHolds, InvTypeOK, PTL

\* auth_fwh_sec_prot.c writes the PTK on message 4 only: whatever is lost,
\* repeated or restarted, a PTK the border router holds or has stored is one
\* the node has installed.
THEOREM PtkHeldIsInstalled == Spec => []PtkAgreed
<1>1. Inv => PtkAgreed  BY DEF Inv, Agreed, PtkAgreed
<1> QED  BY <1>1, InvHolds, PTL

\* supp_fwh_sec_prot.c writes its PTK in the state MESSAGE_3 only: no repeated
\* message 3 installs a PTK again.
THEOREM PtkInstalledOnce == Spec => []InstalledOnce
<1>1. Inv => InstalledOnce  BY DEF Inv
<1> QED  BY <1>1, InvHolds, PTL

\* ws_pae_auth_next_protocol_get() starts a GKH only with a PTK that the node
\* has installed, unless access is revoked while a protocol runs.
THEOREM GroupKeySentProtected == Spec => []GroupKeyProtected
<1>1. Inv => GroupKeyProtected  BY DEF Inv, Protected, GroupKeyProtected
<1> QED  BY <1>1, InvHolds, PTL

\* ws_pae_auth_node_keys_remove(): no entry, file or later EAP-TLS brings a
\* revoked PMK back.
THEOREM RevokedNeverBack == Spec => []RevokedStaysOut
<1>1. Inv => RevokedStaysOut  BY DEF Inv
<1> QED  BY <1>1, InvHolds, PTL

\* Where a handler's entry gets a PTK, the 4WH that made it is gone and no
\* other has taken its place.
LEMMA StepNoSelfDelete ==
    ASSUME Inv, [Next]_vars, auth.live, auth'.ptk \notin {NoPtk, auth.ptk}
    PROVE  fwh' = NoKmp
<1> DEFINE Goal == fwh' = NoKmp
<1>1. ~PtkKept  BY DEF PtkKept
<1>2. ASSUME UNCHANGED auth PROVE Goal  BY <1>2
<1>3. ASSUME auth' = NoEntry PROVE Goal  BY <1>3 DEF NoEntry, NewEntry
<1>4. ASSUME NEW m \in net, Receive(m) PROVE Goal
    <2>1. ASSUME NEW received, NEW bits \in EntryBits, RecvKey(m, received, bits) PROVE Goal
        BY <1>1, <2>1, RecvKeyInv
    <2>2. ASSUME NEW received, RecvM2(m, received) PROVE Goal  BY <1>1, <2>2, RecvM2Inv
    <2>3. ASSUME NEW received, RecvM4(m, received) PROVE Goal  BY <2>3, RecvM4Inv
    <2>4. ASSUME NEW received, RecvG2(m, received) PROVE Goal  BY <1>1, <2>4, RecvG2Inv
    <2>5. ASSUME NEW received,
                 RecvM1(m, received) \/ RecvM3(m, received) \/ RecvG1(m, received) PROVE Goal
        BY <1>2, <2>5 DEF RecvM1, RecvM3, RecvG1, Supplicant
    <2>6. ASSUME NEW bits \in EntryBits, AuthDiscard(m, bits) PROVE Goal
        BY <1>1, <2>6, AuthDiscardInv
    <2>7. ASSUME NodeDiscard(m) PROVE Goal  BY <1>2, <2>7 DEF NodeDiscard, Supplicant
    <2>8. ASSUME NullPmk(m) PROVE Goal  BY <1>3, <2>8 DEF NullPmk, Down
    <2> HIDE DEF Goal
    <2> QED  BY <1>4, <2>1, <2>2, <2>3, <2>4, <2>5, <2>6, <2>7, <2>8 DEF Receive
<1>5. ASSUME FwhTimeout PROVE Goal  BY <1>1, <1>5, FwhTimeoutInv
<1>6. ASSUME NEW n \in DOMAIN gkh, GkhTimeout(n) PROVE Goal  BY <1>1, <1>6, GkhTimeoutInv
<1>7. ASSUME MkaDone PROVE Goal  BY <1>1, <1>7, MkaDoneInv
<1>8. ASSUME MkaTimeout PROVE Goal  BY <1>1, <1>8, MkaTimeoutInv
<1>9. ASSUME Inactive \/ Crash PROVE Goal  BY <1>3, <1>9 DEF Inactive, Crash, Down
<1>10. ASSUME Revoke PROVE Goal
    <2>1. auth' = [auth EXCEPT !.pmk = NoPmk, !.cnt = None, !.ptk = NoPtk, !.revoked = TRUE]
        BY <1>10 DEF Revoke
    <2>2. auth \in EntryType(fresh)  BY DEF Inv, Typed
    <2> QED  BY <2>1, <2>2 DEF EntryType
<1>11. ASSUME \/ NodeStart \/ NodeTimeout \/ Activate \/ StoreTimeout \/ UNCHANGED vars
              \/ \E i \in Slots : NewGtk(i)
              \/ \E m \in net : Lose(m)
       PROVE  Goal
    BY <1>2, <1>11 DEF NodeStart, NodeTimeout, Activate, StoreTimeout, vars, NewGtk, Lose, Supplicant
<1> HIDE DEF Goal
<1>12. Goal
    BY <1>4, <1>5, <1>6, <1>7, <1>8, <1>9, <1>10, <1>11 DEF Next, Step
<1> QED  BY <1>12 DEF Goal

\* auth_fwh_sec_prot.c uses its instance after it has reported the end of the
\* 4WH: the PTK just made is never at once taken for one to be replaced, which
\* would delete the instance under it.
THEOREM FwhNotSelfDeleted == Spec => NoSelfDelete
<1>1. Inv /\ [Next]_vars =>
         [auth'.ptk \notin {NoPtk, auth.ptk} /\ auth.live => fwh' = NoKmp]_vars
    BY StepNoSelfDelete
<1> QED  BY <1>1, InvHolds, PTL DEF Spec, NoSelfDelete
=============================================================================
