----------------------------- MODULE SecProtKeys -----------------------------
(***************************************************************************)
(* The group key container of the security layer, as operators on a value: *)
(* src/stack/source/security/protocols/sec_prot_keys.c.                     *)
(*                                                                         *)
(* A key set `ks` stands for one sec_prot_gtk_keys_t: GTK_NUM slots, each   *)
(* holding a key, its remaining lifetime, a status and the order in which   *)
(* it was installed, plus the flag that tells the controller that the copy  *)
(* on disk is out of date.  Every operator returns the new key set; the     *)
(* setters of the source that fail return the set unchanged.                *)
(***************************************************************************)
EXTENDS Integers, FiniteSets

CONSTANTS GTK_NUM,      \* slots of a key set (4 in the code)
          LGTK_NUM,     \* slots the LFN key set may use (3 in the code)
          Keys,         \* group key values
          NoKey         \* an all-zero key: the content of a slot that is not set

(***************************************************************************)
(* install_order is a two-bit field, which bounds GTK_NUM.                  *)
(***************************************************************************)
ASSUME GtkNumAssumption == /\ GTK_NUM \in 2..4
                           /\ LGTK_NUM \in 1..GTK_NUM
ASSUME NoKeyAssumption == NoKey \notin Keys

Slots == 0 .. GTK_NUM - 1
None == -1

Statuses == {"new", "fresh", "active", "old"}

GtkEntry == [set : BOOLEAN, key : Keys \cup {NoKey}, lifetime : Nat,
             status : Statuses, install_order : Slots]

KeySet == [gtk : [Slots -> GtkEntry], updated : BOOLEAN]

(***************************************************************************)
(* A slot after memset or sec_prot_keys_gtk_clear().  The clear leaves the  *)
(* old install order behind; every reader tests `set` first, so the model   *)
(* normalises it.                                                           *)
(***************************************************************************)
EmptyEntry == [set |-> FALSE, key |-> NoKey, lifetime |-> 0,
               status |-> "new", install_order |-> 0]

GtksInit == [gtk |-> [i \in Slots |-> EmptyEntry], updated |-> FALSE]

SetSlots(ks) == {i \in Slots : ks.gtk[i].set}

KeyAt(ks, i) == IF ks.gtk[i].set THEN ks.gtk[i].key ELSE NoKey

NumKeys(isLgtk) == IF isLgtk THEN LGTK_NUM ELSE GTK_NUM

-----------------------------------------------------------------------------
(***************************************************************************)
(* Install order.                                                           *)
(***************************************************************************)

\* i was installed after j: a larger order, or the slot the source's scan
\* meets first when two keys share an order.
InstalledAfter(ks, i, j) ==
    \/ ks.gtk[i].install_order > ks.gtk[j].install_order
    \/ ks.gtk[i].install_order = ks.gtk[j].install_order /\ i <= j

InstallOrderLastIndex(ks) ==
    IF SetSlots(ks) = {} THEN None
    ELSE CHOOSE i \in SetSlots(ks) :
            \A j \in SetSlots(ks) : InstalledAfter(ks, i, j)

InstallOrderLast(ks) ==
    IF SetSlots(ks) = {} THEN 0
    ELSE ks.gtk[InstallOrderLastIndex(ks)].install_order + 1

InstallOrderLastLifetime(ks) ==
    IF SetSlots(ks) = {} THEN 0
    ELSE ks.gtk[InstallOrderLastIndex(ks)].lifetime

\* The first slot that holds a key of install order o.
IndexOfOrder(ks, o) ==
    LET found == {i \in SetSlots(ks) : ks.gtk[i].install_order = o}
    IN  IF found = {} THEN None
        ELSE CHOOSE i \in found : \A j \in found : i <= j

InstallOrderFirstIndex(ks) == IndexOfOrder(ks, 0)
InstallOrderSecondIndex(ks) == IndexOfOrder(ks, 1)

(***************************************************************************)
(* Renumbering after a removal.  The source fills ordered_indexes[order]    *)
(* slot by slot, so of two keys with one order only the higher slot is      *)
(* listed; the listed keys are numbered from 0, the others keep what they   *)
(* had.                                                                     *)
(***************************************************************************)
Ordered(ks) ==
    {i \in SetSlots(ks) : \A j \in SetSlots(ks) :
        ks.gtk[j].install_order = ks.gtk[i].install_order => j <= i}

Before(ks, i) ==
    {j \in Ordered(ks) : ks.gtk[j].install_order < ks.gtk[i].install_order}

InstallOrderUpdate(ks) ==
    LET renumbered ==
            [i \in Slots |->
                IF i \in Ordered(ks)
                THEN [ks.gtk[i] EXCEPT !.install_order = Cardinality(Before(ks, i))]
                ELSE ks.gtk[i]]
    IN  [gtk |-> renumbered, updated |-> renumbered # ks.gtk \/ ks.updated]

InstallIndexLastOnly(ks, isLgtk) ==
    IF InstallOrderLastIndex(ks) = None THEN 0 ELSE InstallOrderLastIndex(ks)

\* The slot for a new key: the first free one from the last installed key on,
\* round the table; the last installed key's own slot when none is free.
InstallIndex(ks, isLgtk) ==
    LET last == InstallOrderLastIndex(ks)
        from == IF last = None THEN 0 ELSE last
        slot(c) == (from + c) % NumKeys(isLgtk)
        free == {c \in 0 .. NumKeys(isLgtk) - 1 : ~ks.gtk[slot(c)].set}
    IN  IF free = {} THEN from
        ELSE slot(CHOOSE c \in free : \A d \in free : c <= d)

-----------------------------------------------------------------------------
(***************************************************************************)
(* Setting, clearing and the status of a key.                               *)
(***************************************************************************)

GtkClearKeepsOrder(ks, i) ==
    [gtk |-> [ks.gtk EXCEPT ![i] = EmptyEntry], updated |-> TRUE]

GtkClear(ks, i) ==
    InstallOrderUpdate([gtk |-> [ks.gtk EXCEPT ![i] = EmptyEntry], updated |-> TRUE])

\* A key value the slot already holds is refused.  The new order is stored in
\* the two-bit field.
GtkSet(ks, i, key, lifetime) ==
    LET cleared == GtkClear(ks, i)
    IN  IF ks.gtk[i].set /\ ks.gtk[i].key = key
        THEN ks
        ELSE [gtk |-> [cleared.gtk EXCEPT ![i] =
                          [set |-> TRUE, key |-> key, lifetime |-> lifetime,
                           status |-> "new",
                           install_order |-> InstallOrderLast(cleared) % GTK_NUM]],
              updated |-> TRUE]

LifetimeDecrement(ks, i, seconds) ==
    [ks EXCEPT !.gtk[i].lifetime = IF @ > seconds THEN @ - seconds ELSE 0]

StatusAllFreshSet(ks) ==
    LET fresh == [i \in Slots |->
                     IF ks.gtk[i].set /\ ks.gtk[i].status = "new"
                     THEN [ks.gtk[i] EXCEPT !.status = "fresh"]
                     ELSE ks.gtk[i]]
    IN  [gtk |-> fresh, updated |-> fresh # ks.gtk \/ ks.updated]

StatusActiveSetKeepsOther(ks, i) ==
    IF i \in SetSlots(ks) /\ ks.gtk[i].status = "fresh"
    THEN [ks EXCEPT !.gtk[i].status = "active"]
    ELSE ks

StatusActiveSetUnmarked(ks, i) ==
    IF i \in SetSlots(ks) /\ ks.gtk[i].status = "fresh"
    THEN [ks EXCEPT !.gtk = [j \in Slots |->
             IF j = i THEN [ks.gtk[j] EXCEPT !.status = "active"]
             ELSE IF ks.gtk[j].status = "active"
                  THEN [ks.gtk[j] EXCEPT !.status = "old"]
                  ELSE ks.gtk[j]]]
    ELSE ks

\* Only a fresh key becomes active; the key that was active becomes old.
StatusActiveSet(ks, i) ==
    IF i \in SetSlots(ks) /\ ks.gtk[i].status = "fresh"
    THEN [gtk |-> [j \in Slots |->
                      IF j = i THEN [ks.gtk[j] EXCEPT !.status = "active"]
                      ELSE IF ks.gtk[j].status = "active"
                           THEN [ks.gtk[j] EXCEPT !.status = "old"]
                           ELSE ks.gtk[j]],
          updated |-> \/ ks.updated
                      \/ \E j \in Slots : ks.gtk[j].status = "active"]
    ELSE ks

ActiveSlots(ks) == {i \in Slots : ks.gtk[i].status = "active"}

StatusActiveGet(ks) ==
    IF ActiveSlots(ks) = {} THEN None
    ELSE CHOOSE i \in ActiveSlots(ks) : \A j \in ActiveSlots(ks) : i <= j

-----------------------------------------------------------------------------
(***************************************************************************)
(* What a table of keys should look like.                                   *)
(***************************************************************************)
DistinctOrders(entries) ==
    \A i, j \in Slots :
        /\ entries[i].set /\ entries[j].set /\ i # j
        => entries[i].install_order # entries[j].install_order

OneActive(entries) ==
    \A i, j \in Slots :
        entries[i].status = "active" /\ entries[j].status = "active" => i = j

ActiveIsSet(entries) ==
    \A i \in Slots : entries[i].status = "active" => entries[i].set

WellFormed(entries) ==
    DistinctOrders(entries) /\ OneActive(entries) /\ ActiveIsSet(entries)

-----------------------------------------------------------------------------
UpdatedReset(ks) == [ks EXCEPT !.updated = FALSE]
=============================================================================
