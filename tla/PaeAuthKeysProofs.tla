-------------------------- MODULE PaeAuthKeysProofs --------------------------
(***************************************************************************)
(* Theorems about PaeAuthKeys, for every number of slots, keys, lifetimes,  *)
(* restarts and seconds of downtime.                                        *)
(*                                                                         *)
(* The handlers thread a record of the state through the calls they make,   *)
(* so the argument follows the calls: each function of the code keeps the   *)
(* types of the record (StateType), the well-formedness of the key sets in  *)
(* memory and in the file (Good), and the agreement of the MAC with them    *)
(* (Synced, or SyncedBut one kind while the function is under way).  The    *)
(* first part is about the container, SecProtKeys: what each of its          *)
(* operators preserves.                                                     *)
(*                                                                         *)
(* Two arguments follow that are about more than one call.  Keys expire in  *)
(* the order of installation: each table is Fit at every point of a round   *)
(* of the slow timer.  And the file holds what memory has: a function that  *)
(* changes keys marks the set as updated, and a set not marked is Recorded. *)
(***************************************************************************)
EXTENDS PaeAuthKeys, FiniteSetTheorems, WellFoundedInduction, TLAPS

SameKeys(a, b) ==
    \A i \in Slots : a[i].set = b[i].set /\ a[i].key = b[i].key

GoodSet(ks) == ks \in KeySet /\ WellFormed(ks.gtk)

-----------------------------------------------------------------------------
(***************************************************************************)
(* Slots and their cardinality.                                             *)
(***************************************************************************)

\* A subset of the slots is finite and no larger than the table.
LEMMA SlotsFinite ==
    /\ IsFiniteSet(Slots) /\ Cardinality(Slots) = GTK_NUM
    /\ \A S \in SUBSET Slots : IsFiniteSet(S) /\ Cardinality(S) \in 0..GTK_NUM
<1>1. IsFiniteSet(Slots) /\ Cardinality(Slots) = GTK_NUM
  BY FS_Interval, GtkNumAssumption, SMT DEF Slots
<1>2. ASSUME NEW S \in SUBSET Slots
      PROVE  IsFiniteSet(S) /\ Cardinality(S) \in 0..GTK_NUM
  <2>1. IsFiniteSet(S) /\ Cardinality(S) <= GTK_NUM
    BY <1>1, FS_Subset
  <2>2. Cardinality(S) \in Nat
    BY <2>1, FS_CardinalityType
  <2>. QED BY <2>1, <2>2, GtkNumAssumption
<1>. QED BY <1>1, <1>2

\* A proper subset of a set of slots is smaller.
LEMMA ProperSubsetSmaller ==
    ASSUME NEW S \in SUBSET Slots, NEW T \in SUBSET S, S # T
    PROVE  Cardinality(T) < Cardinality(S)
<1>1. IsFiniteSet(S) /\ Cardinality(S) \in Nat /\ Cardinality(T) \in Nat
  BY SlotsFinite
<1>2. Cardinality(T) <= Cardinality(S) /\ (Cardinality(S) = Cardinality(T) => S = T)
  BY <1>1, FS_Subset
<1>. QED BY <1>1, <1>2

\* A set of slots that leaves one out is smaller than the table.
LEMMA MissingSlot ==
    ASSUME NEW i \in Slots, NEW S \in SUBSET (Slots \ {i})
    PROVE  Cardinality(S) \in Slots
<1>1. Cardinality(S) < Cardinality(Slots)
  <2>1. S \in SUBSET Slots /\ Slots # S
    OBVIOUS
  <2>. QED BY <2>1, ProperSubsetSmaller
<1>2. Cardinality(S) \in Nat
  BY SlotsFinite
<1>. QED BY <1>1, <1>2, SlotsFinite, GtkNumAssumption DEF Slots

-----------------------------------------------------------------------------
(***************************************************************************)
(* The scans for one slot find one.                                         *)
(***************************************************************************)

\* A set of natural numbers that is not empty has a least element.
LEMMA LeastElement ==
    ASSUME NEW S \in SUBSET Nat, S # {}
    PROVE  \E n \in S : \A m \in S : n <= m
<1>1. PICK n \in S : \A m \in S : ~(<<m, n>> \in OpToRel(<, Nat))
  BY NatLessThanWellFounded, WFMin
<1>2. ASSUME NEW m \in S PROVE n <= m
  <2>1. ~(m < n)
    BY <1>1 DEF OpToRel
  <2>. QED BY <2>1
<1>. QED BY <1>2

\* InstalledAfter has a greatest element: among the keys that are set one was
\* installed last.
LEMMA LastIndexIsSet ==
    ASSUME NEW ks \in KeySet
    PROVE  IF SetSlots(ks) = {} THEN InstallOrderLastIndex(ks) = None
           ELSE /\ InstallOrderLastIndex(ks) \in SetSlots(ks)
                /\ \A j \in SetSlots(ks) :
                      InstalledAfter(ks, InstallOrderLastIndex(ks), j)
<1>1. CASE SetSlots(ks) = {}
  BY <1>1 DEF InstallOrderLastIndex
<1>2. CASE SetSlots(ks) # {}
  <2> DEFINE m(i) == 5 * (GTK_NUM - ks.gtk[i].install_order) + i
             S == {m(i) : i \in SetSlots(ks)}
  <2>1. \A i \in SetSlots(ks) : i \in Slots /\ i \in 0..3 /\ ks.gtk[i].install_order \in Slots
    <3>1. ASSUME NEW i \in SetSlots(ks)
          PROVE  i \in Slots /\ ks.gtk[i].install_order \in Slots
      <4>1. i \in Slots /\ ks.gtk[i] \in GtkEntry
        BY DEF SetSlots, KeySet
      <4>. QED BY <4>1 DEF GtkEntry
    <3>2. Slots \subseteq 0..3
      BY GtkNumAssumption DEF Slots
    <3>. QED BY <3>1, <3>2
  <2>2. S \in SUBSET Nat
    <3>1. ASSUME NEW i \in SetSlots(ks) PROVE m(i) \in Nat
      <4>1. i \in 0..3 /\ ks.gtk[i].install_order \in 0..GTK_NUM-1 /\ GTK_NUM \in 2..4
        BY <2>1, GtkNumAssumption DEF Slots
      <4>. QED BY <4>1
    <3> HIDE DEF m
    <3>. QED BY <3>1
  <2>3. S # {}
    BY <1>2
  <2>4. PICK n \in S : \A x \in S : n <= x
    <3> HIDE DEF S
    <3>. QED BY <2>2, <2>3, LeastElement
  <2>5. PICK i \in SetSlots(ks) : n = m(i)
    BY <2>4
  <2>6. ASSUME NEW j \in SetSlots(ks) PROVE InstalledAfter(ks, i, j)
    <3>1. m(i) <= m(j)
      BY <2>4, <2>5
    <3>2. /\ i \in 0..3 /\ j \in 0..3 /\ GTK_NUM \in 2..4
          /\ ks.gtk[i].install_order \in Int /\ ks.gtk[j].install_order \in Int
      BY <2>1, GtkNumAssumption DEF Slots
    <3>. QED BY <3>1, <3>2 DEF InstalledAfter
  <2>. QED BY <1>2, <2>6 DEF InstallOrderLastIndex
<1>. QED BY <1>1, <1>2

\* The slot of a given install order.
LEMMA IndexOfOrderType ==
    ASSUME NEW ks \in KeySet, NEW o
    PROVE  IF \E i \in SetSlots(ks) : ks.gtk[i].install_order = o
           THEN /\ IndexOfOrder(ks, o) \in SetSlots(ks)
                /\ ks.gtk[IndexOfOrder(ks, o)].install_order = o
           ELSE IndexOfOrder(ks, o) = None
<1> DEFINE found == {i \in SetSlots(ks) : ks.gtk[i].install_order = o}
<1>1. CASE found = {}
  BY <1>1 DEF IndexOfOrder
<1>2. CASE found # {}
  <2>1. found \in SUBSET Nat
    BY GtkNumAssumption DEF SetSlots, Slots
  <2>2. \E n \in found : \A m \in found : n <= m
    <3> HIDE DEF found
    <3>. QED BY <1>2, <2>1, LeastElement
  <2>3. IndexOfOrder(ks, o) \in found
    BY <1>2, <2>2 DEF IndexOfOrder
  <2>. QED BY <2>3
<1>. QED BY <1>1, <1>2

\* The active slot is a slot.
LEMMA StatusActiveGetType ==
    ASSUME NEW ks \in KeySet
    PROVE  IF ActiveSlots(ks) = {} THEN StatusActiveGet(ks) = None
           ELSE StatusActiveGet(ks) \in ActiveSlots(ks)
<1>1. CASE ActiveSlots(ks) # {}
  <2>1. ActiveSlots(ks) \in SUBSET Nat
    BY GtkNumAssumption DEF ActiveSlots, Slots
  <2>2. \E n \in ActiveSlots(ks) : \A m \in ActiveSlots(ks) : n <= m
    BY <1>1, <2>1, LeastElement
  <2>. QED BY <1>1, <2>2 DEF StatusActiveGet
<1>. QED BY <1>1 DEF StatusActiveGet

\* A new key goes to a slot.
LEMMA InstallIndexType ==
    ASSUME NEW ks \in KeySet, NEW isLgtk \in BOOLEAN
    PROVE  InstallIndex(ks, isLgtk) \in Slots
<1> DEFINE last == InstallOrderLastIndex(ks)
           from == IF last = None THEN 0 ELSE last
           slot(c) == (from + c) % NumKeys(isLgtk)
           free == {c \in 0 .. NumKeys(isLgtk) - 1 : ~ks.gtk[slot(c)].set}
<1>1. from \in Slots
  BY LastIndexIsSet, GtkNumAssumption DEF SetSlots, Slots, None
<1>2. NumKeys(isLgtk) \in 1..GTK_NUM
  BY GtkNumAssumption DEF NumKeys
<1>3. CASE free = {}
  BY <1>1, <1>3 DEF InstallIndex
<1>4. CASE free # {}
  <2>1. free \in SUBSET Nat
    BY <1>2
  <2>2. \E c \in free : \A d \in free : c <= d
    <3> HIDE DEF free
    <3>. QED BY <1>4, <2>1, LeastElement
  <2>3. PICK c \in free : InstallIndex(ks, isLgtk) = slot(c)
    BY <1>4, <2>2 DEF InstallIndex
  <2>4. slot(c) \in 0 .. NumKeys(isLgtk) - 1
    <3>1. from + c \in Nat /\ NumKeys(isLgtk) \in Nat \ {0}
      BY <1>1, <1>2, <2>1, GtkNumAssumption DEF Slots
    <3> HIDE DEF from
    <3>. QED BY <3>1
  <2>. QED BY <2>3, <2>4, <1>2, GtkNumAssumption DEF Slots
<1>. QED BY <1>3, <1>4

-----------------------------------------------------------------------------
(***************************************************************************)
(* Types.                                                                   *)
(***************************************************************************)

\* The cleared slot and the empty key set are values of their types.
LEMMA EmptyTypes == EmptyEntry \in GtkEntry /\ GoodSet(GtksInit)
<1>1. 0 \in Slots
  BY GtkNumAssumption DEF Slots
<1>2. EmptyEntry \in GtkEntry
  BY <1>1 DEF EmptyEntry, GtkEntry, Statuses
<1>3. GtksInit \in KeySet
  BY <1>2 DEF GtksInit, KeySet
<1>4. WellFormed(GtksInit.gtk)
  BY DEF GtksInit, EmptyEntry, WellFormed, DistinctOrders, OneActive, ActiveIsSet
<1>. QED BY <1>2, <1>3, <1>4 DEF GoodSet

\* Renumbering yields a key set: a rank is a slot number.
LEMMA InstallOrderUpdateType ==
    ASSUME NEW ks \in KeySet
    PROVE  /\ InstallOrderUpdate(ks) \in KeySet
           /\ SameKeys(InstallOrderUpdate(ks).gtk, ks.gtk)
           /\ \A i \in Slots : /\ InstallOrderUpdate(ks).gtk[i].status = ks.gtk[i].status
                               /\ InstallOrderUpdate(ks).gtk[i].lifetime = ks.gtk[i].lifetime
<1> DEFINE g == InstallOrderUpdate(ks).gtk
<1>1. g = [i \in Slots |->
              IF i \in Ordered(ks)
              THEN [ks.gtk[i] EXCEPT !.install_order = Cardinality(Before(ks, i))]
              ELSE ks.gtk[i]]
  BY DEF InstallOrderUpdate
<1>2. ASSUME NEW i \in Slots
      PROVE  /\ g[i] \in GtkEntry
             /\ g[i].set = ks.gtk[i].set /\ g[i].key = ks.gtk[i].key
             /\ g[i].status = ks.gtk[i].status /\ g[i].lifetime = ks.gtk[i].lifetime
  <2>1. ks.gtk[i] \in GtkEntry
    BY DEF KeySet
  <2>2. Cardinality(Before(ks, i)) \in Slots
    <3>1. ks.gtk[i].install_order \in Int
      BY <2>1, GtkNumAssumption DEF GtkEntry, Slots
    <3>2. Before(ks, i) \in SUBSET (Slots \ {i})
      BY <3>1 DEF Before, Ordered, SetSlots
    <3>. QED BY <3>2, MissingSlot
  <2>3. g[i] = IF i \in Ordered(ks)
               THEN [ks.gtk[i] EXCEPT !.install_order = Cardinality(Before(ks, i))]
               ELSE ks.gtk[i]
    BY <1>1
  <2> HIDE DEF g
  <2>. QED BY <2>1, <2>2, <2>3 DEF GtkEntry
<1>3. InstallOrderUpdate(ks).updated \in BOOLEAN
  BY DEF InstallOrderUpdate, KeySet
<1>4. InstallOrderUpdate(ks) = [gtk |-> g, updated |-> InstallOrderUpdate(ks).updated]
  BY DEF InstallOrderUpdate
<1>5. g \in [Slots -> GtkEntry]
  BY <1>1, <1>2
<1> HIDE DEF g
<1>. QED BY <1>2, <1>3, <1>4, <1>5 DEF KeySet, SameKeys

\* Renumbering keeps the orders distinct and makes them smaller than the number
\* of keys: it closes the gap that a removed key leaves.
LEMMA InstallOrderUpdateGood ==
    ASSUME NEW ks, GoodSet(ks)
    PROVE  /\ GoodSet(InstallOrderUpdate(ks))
           /\ \A i \in SetSlots(ks) :
                 InstallOrderUpdate(ks).gtk[i].install_order < Cardinality(SetSlots(ks))
<1> DEFINE g == InstallOrderUpdate(ks).gtk
<1>0. ks \in KeySet /\ WellFormed(ks.gtk)
  BY DEF GoodSet
<1>1. \A i \in Slots : ks.gtk[i].install_order \in Int
  <2>1. \A i \in Slots : ks.gtk[i] \in GtkEntry
    BY <1>0 DEF KeySet
  <2>. QED BY <2>1, GtkNumAssumption DEF GtkEntry, Slots
<1>2. Ordered(ks) = SetSlots(ks)
  BY <1>0 DEF Ordered, SetSlots, WellFormed, DistinctOrders, Slots
<1>3. ASSUME NEW i \in SetSlots(ks)
      PROVE  g[i].install_order = Cardinality(Before(ks, i))
  <2>1. i \in Slots /\ ks.gtk[i] \in GtkEntry
    BY <1>0 DEF KeySet, SetSlots
  <2>2. g[i] = [ks.gtk[i] EXCEPT !.install_order = Cardinality(Before(ks, i))]
    BY <1>2, <2>1 DEF InstallOrderUpdate
  <2> HIDE DEF g
  <2>. QED BY <2>1, <2>2 DEF GtkEntry
<1>4. ASSUME NEW i \in SetSlots(ks)
      PROVE  Cardinality(Before(ks, i)) < Cardinality(SetSlots(ks))
  <2>1. /\ Before(ks, i) \in SUBSET SetSlots(ks) /\ SetSlots(ks) \in SUBSET Slots
        /\ i \notin Before(ks, i)
    BY <1>1, <1>2 DEF Before, SetSlots
  <2>. QED BY <2>1, ProperSubsetSmaller
<1>5. ASSUME NEW i \in SetSlots(ks), NEW j \in SetSlots(ks),
             ks.gtk[i].install_order < ks.gtk[j].install_order
      PROVE  Cardinality(Before(ks, i)) < Cardinality(Before(ks, j))
  <2>1. i \in Slots /\ j \in Slots
    BY DEF SetSlots
  <2>2. i \in Before(ks, j) /\ i \notin Before(ks, i)
    BY <1>1, <1>2, <1>5, <2>1 DEF Before
  <2>3. Before(ks, i) \in SUBSET Before(ks, j)
    <3> SUFFICES ASSUME NEW x \in Before(ks, i) PROVE x \in Before(ks, j)
      OBVIOUS
    <3>1. x \in Slots /\ x \in Ordered(ks) /\ ks.gtk[x].install_order < ks.gtk[i].install_order
      BY <1>2 DEF Before, SetSlots
    <3>. QED BY <3>1, <1>1, <1>5, <2>1 DEF Before
  <2>4. Before(ks, j) \in SUBSET Slots
    BY DEF Before, Ordered, SetSlots
  <2>. QED BY <2>2, <2>3, <2>4, ProperSubsetSmaller
<1>6. DistinctOrders(g)
  <2> SUFFICES ASSUME NEW i \in Slots, NEW j \in Slots, g[i].set, g[j].set, i # j
               PROVE  g[i].install_order # g[j].install_order
    BY DEF DistinctOrders
  <2>1. i \in SetSlots(ks) /\ j \in SetSlots(ks)
    BY <1>0, InstallOrderUpdateType DEF SameKeys, SetSlots
  <2>2. ks.gtk[i].install_order # ks.gtk[j].install_order
    BY <1>0, <2>1 DEF WellFormed, DistinctOrders, SetSlots
  <2>3. Cardinality(Before(ks, i)) \in Nat /\ Cardinality(Before(ks, j)) \in Nat
    <3>1. Before(ks, i) \in SUBSET Slots /\ Before(ks, j) \in SUBSET Slots
      BY DEF Before, Ordered, SetSlots
    <3>. QED BY <3>1, SlotsFinite
  <2>4. \/ ks.gtk[i].install_order < ks.gtk[j].install_order
        \/ ks.gtk[j].install_order < ks.gtk[i].install_order
    BY <1>1, <2>2
  <2>5. \/ Cardinality(Before(ks, i)) < Cardinality(Before(ks, j))
        \/ Cardinality(Before(ks, j)) < Cardinality(Before(ks, i))
    BY <1>5, <2>1, <2>4
  <2>6. g[i].install_order = Cardinality(Before(ks, i))
    BY <1>3, <2>1
  <2>7. g[j].install_order = Cardinality(Before(ks, j))
    BY <1>3, <2>1
  <2>. QED BY <2>3, <2>5, <2>6, <2>7
<1>7. OneActive(g) /\ ActiveIsSet(g)
  BY <1>0, InstallOrderUpdateType DEF WellFormed, OneActive, ActiveIsSet, SameKeys
<1>8. InstallOrderUpdate(ks) \in KeySet
  BY <1>0, InstallOrderUpdateType
<1>9. \A i \in SetSlots(ks) : g[i].install_order < Cardinality(SetSlots(ks))
  BY <1>3, <1>4
<1>. QED BY <1>6, <1>7, <1>8, <1>9 DEF GoodSet, WellFormed

-----------------------------------------------------------------------------
(***************************************************************************)
(* Setting, clearing and the status of a key.                               *)
(***************************************************************************)

\* Removing a key from a key set.
LEMMA GtkClearType ==
    ASSUME NEW ks \in KeySet, NEW i \in Slots
    PROVE  /\ GtkClear(ks, i) \in KeySet
           /\ ~GtkClear(ks, i).gtk[i].set
           /\ \A j \in Slots \ {i} : /\ GtkClear(ks, i).gtk[j].set = ks.gtk[j].set
                                     /\ GtkClear(ks, i).gtk[j].status = ks.gtk[j].status
<1> DEFINE e == [gtk |-> [ks.gtk EXCEPT ![i] = EmptyEntry], updated |-> TRUE]
<1>1. e \in KeySet
  BY EmptyTypes DEF KeySet
<1>2. ~e.gtk[i].set /\ \A j \in Slots \ {i} : e.gtk[j] = ks.gtk[j]
  BY DEF KeySet, EmptyEntry
<1>3. GtkClear(ks, i) = InstallOrderUpdate(e)
  BY DEF GtkClear
<1> HIDE DEF e
<1>. QED BY <1>1, <1>2, <1>3, InstallOrderUpdateType DEF SameKeys

\* Removing a key from a well formed set leaves one, numbered without a gap,
\* with room for one more order.
LEMMA GtkClearGood ==
    ASSUME NEW ks, GoodSet(ks), NEW i \in Slots
    PROVE  /\ GoodSet(GtkClear(ks, i))
           /\ \A j \in Slots : GtkClear(ks, i).gtk[j].set
                               => GtkClear(ks, i).gtk[j].install_order < GTK_NUM - 1
<1> DEFINE e == [gtk |-> [ks.gtk EXCEPT ![i] = EmptyEntry], updated |-> TRUE]
<1>0. ks \in KeySet /\ WellFormed(ks.gtk)
  BY DEF GoodSet
<1>1. e \in KeySet
  BY <1>0, EmptyTypes DEF KeySet
<1>2. /\ ~e.gtk[i].set /\ e.gtk[i].status = "new"
      /\ \A j \in Slots \ {i} : e.gtk[j] = ks.gtk[j]
  BY <1>0 DEF KeySet, EmptyEntry
<1>3. GtkClear(ks, i) = InstallOrderUpdate(e)
  BY DEF GtkClear
<1> HIDE DEF e
<1>4. GoodSet(e)
  BY <1>0, <1>1, <1>2 DEF GoodSet, WellFormed, DistinctOrders, OneActive, ActiveIsSet
<1>5. Cardinality(SetSlots(e)) \in Slots
  <2>1. SetSlots(e) \in SUBSET (Slots \ {i})
    BY <1>2 DEF SetSlots
  <2>. QED BY <2>1, MissingSlot
<1>6. ASSUME NEW j \in Slots, InstallOrderUpdate(e).gtk[j].set
      PROVE  InstallOrderUpdate(e).gtk[j].install_order < GTK_NUM - 1
  <2>1. j \in SetSlots(e)
    BY <1>1, <1>6, InstallOrderUpdateType DEF SameKeys, SetSlots
  <2>2. InstallOrderUpdate(e).gtk[j].install_order < Cardinality(SetSlots(e))
    BY <1>4, <2>1, InstallOrderUpdateGood
  <2>3. InstallOrderUpdate(e).gtk[j].install_order \in Int
    <3>1. InstallOrderUpdate(e).gtk[j] \in GtkEntry
      BY <1>1, InstallOrderUpdateType DEF KeySet
    <3>. QED BY <3>1, GtkNumAssumption DEF GtkEntry, Slots
  <2>. QED BY <1>5, <2>2, <2>3, GtkNumAssumption DEF Slots
<1>. QED BY <1>3, <1>4, <1>6, InstallOrderUpdateGood

\* The order of the next key is a number, and the last lifetime is one.
LEMMA InstallOrderLastType ==
    ASSUME NEW ks \in KeySet
    PROVE  /\ InstallOrderLast(ks) \in Nat
           /\ InstallOrderLastLifetime(ks) \in Nat
           /\ \A j \in SetSlots(ks) : ks.gtk[j].install_order < InstallOrderLast(ks)
<1>1. CASE SetSlots(ks) = {}
  BY <1>1 DEF InstallOrderLast, InstallOrderLastLifetime
<1>2. CASE SetSlots(ks) # {}
  <2> DEFINE last == InstallOrderLastIndex(ks)
  <2>1. last \in SetSlots(ks) /\ \A j \in SetSlots(ks) : InstalledAfter(ks, last, j)
    BY <1>2, LastIndexIsSet
  <2>2. \A j \in SetSlots(ks) : ks.gtk[j] \in GtkEntry
    BY DEF KeySet, SetSlots
  <2>3. \A j \in SetSlots(ks) : ks.gtk[j].install_order \in Nat /\ ks.gtk[j].lifetime \in Nat
    BY <2>2, GtkNumAssumption DEF GtkEntry, Slots
  <2>4. \A j \in SetSlots(ks) : ks.gtk[j].install_order <= ks.gtk[last].install_order
    BY <2>1, <2>3 DEF InstalledAfter
  <2>5. /\ InstallOrderLast(ks) = ks.gtk[last].install_order + 1
        /\ InstallOrderLastLifetime(ks) = ks.gtk[last].lifetime
    BY <1>2 DEF InstallOrderLast, InstallOrderLastLifetime
  <2> HIDE DEF last
  <2>. QED BY <2>1, <2>3, <2>4, <2>5
<1>. QED BY <1>1, <1>2

\* Setting a slot yields a key set.
LEMMA GtkSetType ==
    ASSUME NEW ks \in KeySet, NEW i \in Slots, NEW key \in Keys \cup {NoKey},
           NEW lifetime \in Nat
    PROVE  GtkSet(ks, i, key, lifetime) \in KeySet
<1> DEFINE cleared == GtkClear(ks, i)
           entry == [set |-> TRUE, key |-> key, lifetime |-> lifetime,
                     status |-> "new", install_order |-> InstallOrderLast(cleared) % GTK_NUM]
<1>1. cleared \in KeySet
  BY GtkClearType
<1>2. entry \in GtkEntry
  <2>1. InstallOrderLast(cleared) % GTK_NUM \in Slots
    <3>1. InstallOrderLast(cleared) \in Nat
      BY <1>1, InstallOrderLastType
    <3> HIDE DEF cleared
    <3>. QED BY <3>1, GtkNumAssumption DEF Slots
  <2> HIDE DEF cleared
  <2>. QED BY <2>1 DEF GtkEntry, Statuses
<1>3. \/ GtkSet(ks, i, key, lifetime) = ks
      \/ GtkSet(ks, i, key, lifetime) =
            [gtk |-> [cleared.gtk EXCEPT ![i] = entry], updated |-> TRUE]
  BY DEF GtkSet
<1> HIDE DEF cleared, entry
<1>4. [gtk |-> [cleared.gtk EXCEPT ![i] = entry], updated |-> TRUE] \in KeySet
  <2>1. cleared.gtk \in [Slots -> GtkEntry]
    BY <1>1 DEF KeySet
  <2>. QED BY <1>2, <2>1 DEF KeySet
<1>. QED BY <1>3, <1>4

\* Setting a slot of a well formed set leaves one: the new order is larger than
\* the others and does not wrap round the two-bit field.
LEMMA GtkSetGood ==
    ASSUME NEW ks, GoodSet(ks), NEW i \in Slots, NEW key \in Keys \cup {NoKey},
           NEW lifetime \in Nat
    PROVE  GoodSet(GtkSet(ks, i, key, lifetime))
<1> DEFINE cleared == GtkClear(ks, i)
           n == InstallOrderLast(cleared)
           entry == [set |-> TRUE, key |-> key, lifetime |-> lifetime,
                     status |-> "new", install_order |-> n % GTK_NUM]
           new == [gtk |-> [cleared.gtk EXCEPT ![i] = entry], updated |-> TRUE]
<1>0. ks \in KeySet
  BY DEF GoodSet
<1>1. cleared \in KeySet /\ WellFormed(cleared.gtk) /\ ~cleared.gtk[i].set
  BY <1>0, GtkClearGood, GtkClearType DEF GoodSet
<1>2. \A j \in SetSlots(cleared) : cleared.gtk[j].install_order < n
  BY <1>1, InstallOrderLastType
<1>3. n \in Slots
  <2>1. n \in Nat
    BY <1>1, InstallOrderLastType
  <2>2. CASE SetSlots(cleared) = {}
    BY <2>2, GtkNumAssumption DEF InstallOrderLast, Slots
  <2>3. CASE SetSlots(cleared) # {}
    <3> DEFINE last == InstallOrderLastIndex(cleared)
    <3>1. last \in SetSlots(cleared)
      BY <1>1, <2>3, LastIndexIsSet
    <3>2. last \in Slots /\ cleared.gtk[last].set
      BY <3>1 DEF SetSlots
    <3>3. cleared.gtk[last].install_order < GTK_NUM - 1
      BY <3>2, GtkClearGood
    <3>4. n = cleared.gtk[last].install_order + 1
      BY <2>3 DEF InstallOrderLast
    <3>5. cleared.gtk[last].install_order \in Nat
      <4>1. cleared.gtk[last] \in GtkEntry
        BY <1>1, <3>2 DEF KeySet
      <4>. QED BY <4>1, GtkNumAssumption DEF GtkEntry, Slots
    <3> HIDE DEF last, n
    <3>. QED BY <2>1, <3>3, <3>4, <3>5, GtkNumAssumption DEF Slots
  <2>. QED BY <2>2, <2>3
<1>4. n % GTK_NUM = n
  <2> HIDE DEF n
  <2>. QED BY <1>3, GtkNumAssumption DEF Slots
<1>5. \/ GtkSet(ks, i, key, lifetime) = ks
      \/ GtkSet(ks, i, key, lifetime) = new
  BY DEF GtkSet
<1>6. GtkSet(ks, i, key, lifetime) \in KeySet
  BY <1>0, GtkSetType
<1>7. WellFormed(new.gtk)
  <2>1. new.gtk[i] = entry /\ \A j \in Slots \ {i} : new.gtk[j] = cleared.gtk[j]
    BY <1>1 DEF KeySet
  <2>2. entry.set /\ entry.status = "new" /\ entry.install_order = n
    BY <1>4
  <2>3. \A j \in Slots : cleared.gtk[j].set => cleared.gtk[j].install_order < n
    BY <1>2 DEF SetSlots
  <2>4. \A j \in Slots : cleared.gtk[j].install_order \in Int
    <3>1. \A j \in Slots : cleared.gtk[j] \in GtkEntry
      BY <1>1 DEF KeySet
    <3>. QED BY <3>1, GtkNumAssumption DEF GtkEntry, Slots
  <2> HIDE DEF cleared, entry, n, new
  <2>5. DistinctOrders(new.gtk)
    <3> SUFFICES ASSUME NEW j \in Slots, NEW l \in Slots,
                        new.gtk[j].set, new.gtk[l].set, j # l
                 PROVE  new.gtk[j].install_order # new.gtk[l].install_order
      BY DEF DistinctOrders
    <3>1. CASE j = i
      BY <3>1, <2>1, <2>2, <2>3, <2>4
    <3>2. CASE l = i
      BY <3>2, <2>1, <2>2, <2>3, <2>4
    <3>3. CASE j # i /\ l # i
      BY <3>3, <2>1, <1>1 DEF WellFormed, DistinctOrders
    <3>. QED BY <3>1, <3>2, <3>3
  <2>6. OneActive(new.gtk) /\ ActiveIsSet(new.gtk)
    BY <1>1, <2>1, <2>2 DEF WellFormed, OneActive, ActiveIsSet
  <2>. QED BY <2>5, <2>6 DEF WellFormed
<1>. QED BY <1>5, <1>6, <1>7 DEF GoodSet

\* Time passing changes lifetimes only.
LEMMA LifetimeDecrementGood ==
    ASSUME NEW ks \in KeySet, NEW i \in Slots, NEW seconds \in Nat
    PROVE  /\ LifetimeDecrement(ks, i, seconds) \in KeySet
           /\ SameKeys(LifetimeDecrement(ks, i, seconds).gtk, ks.gtk)
           /\ WellFormed(ks.gtk) => WellFormed(LifetimeDecrement(ks, i, seconds).gtk)
<1> DEFINE d == LifetimeDecrement(ks, i, seconds)
           left == IF ks.gtk[i].lifetime > seconds THEN ks.gtk[i].lifetime - seconds ELSE 0
<1>1. ks.gtk \in [Slots -> GtkEntry] /\ ks.gtk[i] \in GtkEntry
  BY DEF KeySet
<1>2. left \in Nat
  BY <1>1 DEF GtkEntry
<1>3. d = [ks EXCEPT !.gtk = [ks.gtk EXCEPT ![i] = [ks.gtk[i] EXCEPT !.lifetime = left]]]
  BY DEF LifetimeDecrement, KeySet
<1> HIDE DEF left, d
<1>4. [ks.gtk[i] EXCEPT !.lifetime = left] \in GtkEntry
  BY <1>1, <1>2 DEF GtkEntry
<1>5. d \in KeySet
  BY <1>3, <1>4 DEF KeySet
<1>6. \A j \in Slots : /\ d.gtk[j].set = ks.gtk[j].set /\ d.gtk[j].key = ks.gtk[j].key
                       /\ d.gtk[j].status = ks.gtk[j].status
                       /\ d.gtk[j].install_order = ks.gtk[j].install_order
  <2>1. \A j \in Slots : d.gtk[j] = IF j = i THEN [ks.gtk[i] EXCEPT !.lifetime = left]
                                    ELSE ks.gtk[j]
    BY <1>1, <1>3 DEF KeySet
  <2>. QED BY <1>1, <2>1 DEF GtkEntry
<1>. QED BY <1>5, <1>6
         DEF d, SameKeys, WellFormed, DistinctOrders, OneActive, ActiveIsSet

\* Making every new key fresh changes statuses only, and activates none.
LEMMA StatusAllFreshSetGood ==
    ASSUME NEW ks \in KeySet
    PROVE  /\ StatusAllFreshSet(ks) \in KeySet
           /\ SameKeys(StatusAllFreshSet(ks).gtk, ks.gtk)
           /\ WellFormed(ks.gtk) => WellFormed(StatusAllFreshSet(ks).gtk)
<1> DEFINE f == [i \in Slots |->
                     IF ks.gtk[i].set /\ ks.gtk[i].status = "new"
                     THEN [ks.gtk[i] EXCEPT !.status = "fresh"]
                     ELSE ks.gtk[i]]
<1>1. StatusAllFreshSet(ks) = [gtk |-> f, updated |-> f # ks.gtk \/ ks.updated]
  BY DEF StatusAllFreshSet
<1>2. ASSUME NEW i \in Slots
      PROVE  /\ f[i] \in GtkEntry
             /\ f[i].set = ks.gtk[i].set /\ f[i].key = ks.gtk[i].key
             /\ f[i].install_order = ks.gtk[i].install_order
             /\ f[i].status = "active" <=> ks.gtk[i].status = "active"
  <2>1. ks.gtk[i] \in GtkEntry
    BY DEF KeySet
  <2>2. f[i] = IF ks.gtk[i].set /\ ks.gtk[i].status = "new"
               THEN [ks.gtk[i] EXCEPT !.status = "fresh"] ELSE ks.gtk[i]
    OBVIOUS
  <2> HIDE DEF f
  <2>. QED BY <2>1, <2>2 DEF GtkEntry, Statuses
<1>3. f \in [Slots -> GtkEntry]
  BY <1>2
<1>4. (f # ks.gtk \/ ks.updated) \in BOOLEAN
  BY Zenon
<1>5. [gtk |-> f, updated |-> f # ks.gtk \/ ks.updated] \in KeySet
  <2> HIDE DEF f
  <2>. QED BY <1>3, <1>4 DEF KeySet
<1>6. SameKeys(f, ks.gtk) /\ (WellFormed(ks.gtk) => WellFormed(f))
  <2> HIDE DEF f
  <2>. QED BY <1>2 DEF SameKeys, WellFormed, DistinctOrders, OneActive, ActiveIsSet
<1> HIDE DEF f
<1>. QED BY <1>1, <1>5, <1>6

\* Activating a key changes statuses only, and leaves one key active.
LEMMA StatusActiveSetGood ==
    ASSUME NEW ks \in KeySet, NEW i
    PROVE  /\ StatusActiveSet(ks, i) \in KeySet
           /\ SameKeys(StatusActiveSet(ks, i).gtk, ks.gtk)
           /\ WellFormed(ks.gtk) => WellFormed(StatusActiveSet(ks, i).gtk)
<1>1. CASE ~(i \in SetSlots(ks) /\ ks.gtk[i].status = "fresh")
  BY <1>1 DEF StatusActiveSet, SameKeys
<1>2. CASE i \in SetSlots(ks) /\ ks.gtk[i].status = "fresh"
  <2> DEFINE f == [j \in Slots |->
                      IF j = i THEN [ks.gtk[j] EXCEPT !.status = "active"]
                      ELSE IF ks.gtk[j].status = "active"
                           THEN [ks.gtk[j] EXCEPT !.status = "old"]
                           ELSE ks.gtk[j]]
             u == \/ ks.updated
                  \/ \E j \in Slots : ks.gtk[j].status = "active"
  <2>1. StatusActiveSet(ks, i) = [gtk |-> f, updated |-> u]
    BY <1>2 DEF StatusActiveSet
  <2>2. ASSUME NEW j \in Slots
        PROVE  /\ f[j] \in GtkEntry
               /\ f[j].set = ks.gtk[j].set /\ f[j].key = ks.gtk[j].key
               /\ f[j].install_order = ks.gtk[j].install_order
               /\ f[j].status = "active" <=> j = i
    <3>1. ks.gtk[j] \in GtkEntry
      BY DEF KeySet
    <3>2. f[j] = IF j = i THEN [ks.gtk[j] EXCEPT !.status = "active"]
                 ELSE IF ks.gtk[j].status = "active"
                      THEN [ks.gtk[j] EXCEPT !.status = "old"] ELSE ks.gtk[j]
      OBVIOUS
    <3> HIDE DEF f
    <3>. QED BY <3>1, <3>2 DEF GtkEntry, Statuses
  <2>3. f \in [Slots -> GtkEntry]
    BY <2>2
  <2>4. u \in BOOLEAN
    BY Zenon
  <2>5. i \in Slots /\ ks.gtk[i].set
    BY <1>2 DEF SetSlots
  <2> HIDE DEF f, u
  <2>6. [gtk |-> f, updated |-> u] \in KeySet
    BY <2>3, <2>4 DEF KeySet
  <2>7. SameKeys(f, ks.gtk) /\ (WellFormed(ks.gtk) => WellFormed(f))
    BY <2>2, <2>5 DEF SameKeys, WellFormed, DistinctOrders, OneActive, ActiveIsSet
  <2>. QED BY <2>1, <2>6, <2>7
<1>. QED BY <1>1, <1>2

\* Clearing the flag changes no key.
LEMMA UpdatedResetGood ==
    ASSUME NEW ks \in KeySet
    PROVE  UpdatedReset(ks) \in KeySet /\ UpdatedReset(ks).gtk = ks.gtk
BY DEF UpdatedReset, KeySet

-----------------------------------------------------------------------------
(***************************************************************************)
(* The record that the handlers pass on.                                    *)
(***************************************************************************)

StateType ==
    [gtks : [Kinds -> KeySet], next : [Kinds -> KeySet],
     instReq : [Kinds -> BOOLEAN],
     mac : [Kinds -> [Slots -> Keys \cup {NoKey}]],
     send : [Kinds -> Slots \cup {None}], pend : PendType,
     disk : DiskType, wrote : BOOLEAN]

Good(s) == \A k \in Kinds : WellFormed(s.gtks[k].gtk) /\ WellFormed(s.disk.keys[k])

SyncedBut(s, k) == \A l \in Kinds \ {k} : s.mac[l] = NwKeys(s.gtks[l], l)

Synced(s) == \A l \in Kinds : s.mac[l] = NwKeys(s.gtks[l], l)

\* What one call keeps: t comes out of a call made on s.
Keeps(s, t) == /\ t \in StateType
               /\ Good(s) => Good(t)
               /\ Synced(s) => Synced(t)

-----------------------------------------------------------------------------
(***************************************************************************)
(* Changing one key set of the record.                                      *)
(***************************************************************************)

\* What replacing a key set changes and what it leaves alone.
LEMMA SetGtks ==
    ASSUME NEW s \in StateType, NEW k \in Kinds, NEW ks \in KeySet
    PROVE  LET t == [s EXCEPT !.gtks[k] = ks]
           IN  /\ t \in StateType
               /\ t.gtks[k] = ks /\ \A l \in Kinds \ {k} : t.gtks[l] = s.gtks[l]
               /\ t.next = s.next /\ t.instReq = s.instReq /\ t.mac = s.mac
               /\ t.send = s.send /\ t.pend = s.pend /\ t.disk = s.disk
<1> DEFINE t == [s EXCEPT !.gtks[k] = ks]
<1>1. s.gtks \in [Kinds -> KeySet] /\ t.gtks = [s.gtks EXCEPT ![k] = ks]
  BY DEF StateType
<1>2. t.gtks \in [Kinds -> KeySet]
  BY <1>1
<1>. QED BY <1>1, <1>2 DEF StateType

\* The MAC's keys depend on the keys that are set, not on their status.
LEMMA NwKeysSame ==
    ASSUME NEW a, NEW b, NEW k \in Kinds, SameKeys(a.gtk, b.gtk)
    PROVE  NwKeys(a, k) = NwKeys(b, k)
BY DEF NwKeys, KeyAt, SameKeys

\* The MAC's keys are keys.
LEMMA NwKeysType ==
    ASSUME NEW ks \in KeySet, NEW k \in Kinds
    PROVE  NwKeys(ks, k) \in [Slots -> Keys \cup {NoKey}]
<1>1. \A i \in Slots : ks.gtk[i] \in GtkEntry
  BY DEF KeySet
<1>2. \A i \in Slots : KeyAt(ks, i) \in Keys \cup {NoKey}
  BY <1>1 DEF KeyAt, GtkEntry
<1>. QED BY <1>2 DEF NwKeys

\* A change of lifetimes and statuses keeps everything.
LEMMA SetGtksSame ==
    ASSUME NEW s \in StateType, NEW k \in Kinds, NEW ks \in KeySet,
           SameKeys(ks.gtk, s.gtks[k].gtk),
           WellFormed(s.gtks[k].gtk) => WellFormed(ks.gtk)
    PROVE  Keeps(s, [s EXCEPT !.gtks[k] = ks])
<1> DEFINE t == [s EXCEPT !.gtks[k] = ks]
<1>1. /\ t \in StateType
      /\ t.gtks[k] = ks /\ \A l \in Kinds \ {k} : t.gtks[l] = s.gtks[l]
      /\ t.mac = s.mac /\ t.disk = s.disk
  BY SetGtks
<1> HIDE DEF t
<1>2. Good(s) => Good(t)
  BY <1>1 DEF Good
<1>3. NwKeys(ks, k) = NwKeys(s.gtks[k], k)
  BY NwKeysSame
<1>4. Synced(s) => Synced(t)
  BY <1>1, <1>3 DEF Synced
<1>. QED BY <1>1, <1>2, <1>4 DEF Keeps, t

\* A change of the keys of one kind leaves the MAC to be updated for that kind.
LEMMA SetGtksGood ==
    ASSUME NEW s \in StateType, NEW k \in Kinds, NEW ks \in KeySet,
           WellFormed(s.gtks[k].gtk) => WellFormed(ks.gtk)
    PROVE  LET t == [s EXCEPT !.gtks[k] = ks]
           IN  /\ t \in StateType /\ (Good(s) => Good(t))
               /\ SyncedBut(s, k) => SyncedBut(t, k)
               /\ t.gtks[k] = ks
<1> DEFINE t == [s EXCEPT !.gtks[k] = ks]
<1>1. /\ t \in StateType
      /\ t.gtks[k] = ks /\ \A l \in Kinds \ {k} : t.gtks[l] = s.gtks[l]
      /\ t.mac = s.mac /\ t.disk = s.disk
  BY SetGtks
<1> HIDE DEF t
<1>. QED BY <1>1 DEF Good, SyncedBut, t

\* The flags of the record may change freely.
LEMMA OtherFields ==
    ASSUME NEW s \in StateType, NEW t \in StateType,
           t.gtks = s.gtks, t.mac = s.mac, t.disk = s.disk
    PROVE  Keeps(s, t)
BY DEF Keeps, Good, Synced

\* No pending key.
LEMMA PendingType == NoPending \in PendType
BY GtkNumAssumption, BoundsAssumption DEF NoPending, PendType, Slots

\* Calls follow each other.
LEMMA KeepsTrans ==
    ASSUME NEW s, NEW t, NEW u, Keeps(s, t), Keeps(t, u)
    PROVE  Keeps(s, u)
BY DEF Keeps

-----------------------------------------------------------------------------
(***************************************************************************)
(* The controller: the file and the MAC.                                    *)
(***************************************************************************)

\* What is written to the file is a file, well formed if the key sets are.
LEMMA DiskOfType ==
    ASSUME NEW g \in [Kinds -> KeySet], NEW eui \in BOOLEAN
    PROVE  /\ DiskOf(g, eui) \in DiskType
           /\ \A k \in Kinds : DiskOf(g, eui).keys[k] = g[k].gtk
BY DEF DiskOf, DiskType, KeySet

\* Writing the file keeps everything.
LEMMA NwInfoUpdatedCheckKeeps ==
    ASSUME NEW s \in StateType
    PROVE  Keeps(s, NwInfoUpdatedCheck(s))
<1> DEFINE t == NwInfoUpdatedCheck(s)
<1>1. CASE t = s
  BY <1>1 DEF Keeps
<1>2. CASE t = [s EXCEPT !.gtks = [k \in Kinds |-> UpdatedReset(s.gtks[k])],
                         !.disk = DiskOf(s.gtks, TRUE), !.wrote = TornWrites]
  <2>1. s.gtks \in [Kinds -> KeySet]
    BY DEF StateType
  <2>2. \A k \in Kinds : UpdatedReset(s.gtks[k]) \in KeySet
                         /\ UpdatedReset(s.gtks[k]).gtk = s.gtks[k].gtk
    BY <2>1, UpdatedResetGood
  <2>3. /\ t.gtks = [k \in Kinds |-> UpdatedReset(s.gtks[k])]
        /\ t.disk = DiskOf(s.gtks, TRUE) /\ t.wrote = TornWrites
        /\ t.next = s.next /\ t.instReq = s.instReq /\ t.mac = s.mac /\ t.send = s.send /\ t.pend = s.pend
    BY <1>2 DEF StateType
  <2>4. DiskOf(s.gtks, TRUE) \in DiskType
        /\ \A k \in Kinds : DiskOf(s.gtks, TRUE).keys[k] = s.gtks[k].gtk
    BY <2>1, DiskOfType
  <2>5. t \in StateType
    <3> DEFINE g == [k \in Kinds |-> UpdatedReset(s.gtks[k])]
               d == DiskOf(s.gtks, TRUE)
    <3>1. g \in [Kinds -> KeySet] /\ d \in DiskType /\ TornWrites \in BOOLEAN
      BY <2>2, <2>4, BoundsAssumption
    <3>2. t = [s EXCEPT !.gtks = g, !.disk = d, !.wrote = TornWrites]
      BY <1>2
    <3> HIDE DEF g, d, t
    <3>. QED BY <3>1, <3>2 DEF StateType
  <2>6. \A k \in Kinds : t.gtks[k].gtk = s.gtks[k].gtk
    BY <2>2, <2>3
  <2> HIDE DEF t
  <2>7. Good(s) => Good(t)
    BY <2>3, <2>4, <2>6 DEF Good
  <2>8. Synced(s) => Synced(t)
    BY <2>3, <2>6 DEF Synced, NwKeys, KeyAt
  <2>. QED BY <2>5, <2>7, <2>8 DEF Keeps, t
<1>. QED BY <1>1, <1>2 DEF NwInfoUpdatedCheck

\* Putting the keys of a kind into the MAC brings it back in step.
LEMMA NetworkKeysFromGtksSetKeeps ==
    ASSUME NEW s \in StateType, NEW k \in Kinds
    PROVE  /\ NetworkKeysFromGtksSet(s, k) \in StateType
           /\ Good(s) => Good(NetworkKeysFromGtksSet(s, k))
           /\ SyncedBut(s, k) => Synced(NetworkKeysFromGtksSet(s, k))
<1> DEFINE ks == StatusAllFreshSet(s.gtks[k])
           t == NetworkKeysFromGtksSet(s, k)
<1>1. s.gtks[k] \in KeySet
  BY DEF StateType
<1>2. /\ ks \in KeySet /\ SameKeys(ks.gtk, s.gtks[k].gtk)
      /\ WellFormed(s.gtks[k].gtk) => WellFormed(ks.gtk)
  BY <1>1, StatusAllFreshSetGood
<1>3. NwKeys(s.gtks[k], k) \in [Slots -> Keys \cup {NoKey}]
  BY <1>1, NwKeysType
<1>4. NwKeys(ks, k) = NwKeys(s.gtks[k], k)
  BY <1>2, NwKeysSame
<1>5. t = [s EXCEPT !.gtks[k] = ks, !.mac[k] = NwKeys(s.gtks[k], k)]
  BY DEF NetworkKeysFromGtksSet
<1> HIDE DEF ks, t
<1>6. /\ t \in StateType
      /\ t.gtks = [s.gtks EXCEPT ![k] = ks] /\ t.disk = s.disk
      /\ t.mac = [s.mac EXCEPT ![k] = NwKeys(s.gtks[k], k)]
  <2>1. [s.gtks EXCEPT ![k] = ks] \in [Kinds -> KeySet]
    BY <1>2 DEF StateType
  <2>2. [s.mac EXCEPT ![k] = NwKeys(s.gtks[k], k)] \in [Kinds -> [Slots -> Keys \cup {NoKey}]]
    BY <1>3 DEF StateType
  <2>. QED BY <1>5, <2>1, <2>2 DEF StateType
<1>7. /\ \A l \in Kinds : t.gtks[l] = IF l = k THEN ks ELSE s.gtks[l]
      /\ \A l \in Kinds : t.mac[l] = IF l = k THEN NwKeys(s.gtks[k], k) ELSE s.mac[l]
  BY <1>6 DEF StateType
<1>8. Good(s) => Good(t)
  BY <1>2, <1>6, <1>7 DEF Good
<1>9. SyncedBut(s, k) => Synced(t)
  BY <1>4, <1>7 DEF SyncedBut, Synced
<1>. QED BY <1>6, <1>8, <1>9 DEF t

-----------------------------------------------------------------------------
(***************************************************************************)
(* The authenticator: installing a key.                                     *)
(***************************************************************************)

\* A key inserted into a set.
LEMMA GtkInsertGood ==
    ASSUME NEW ks \in KeySet, NEW key \in Keys \cup {NoKey}, NEW k \in Kinds
    PROVE  /\ GtkInsert(ks, key, k) \in KeySet
           /\ WellFormed(ks.gtk) => WellFormed(GtkInsert(ks, key, k).gtk)
<1> DEFINE i == InstallIndex(ks, IsLgtk(k))
           lifetime == ExpireOffset + InstallOrderLastLifetime(ks)
           new == GtkSet(ks, i, key, lifetime)
<1>1. i \in Slots
  BY InstallIndexType DEF IsLgtk
<1>2. lifetime \in Nat
  BY InstallOrderLastType, TimersAssumption
<1> HIDE DEF i, lifetime
<1>3. new \in KeySet
  BY <1>1, <1>2, GtkSetType
<1>4. WellFormed(ks.gtk) => WellFormed(new.gtk)
  BY <1>1, <1>2, GtkSetGood DEF GoodSet
<1>5. GtkInsert(ks, key, k) = StatusAllFreshSet(new)
  BY DEF GtkInsert, i, lifetime
<1> HIDE DEF new
<1>. QED BY <1>3, <1>4, <1>5, StatusAllFreshSetGood

\* A random or a configured key inserted into the set of a kind.
LEMMA GtkKeyInsertGood ==
    ASSUME NEW s \in StateType, NEW k \in Kinds, NEW random \in Keys
    PROVE  LET t == GtkKeyInsert(s, k, random)
           IN  /\ t \in StateType /\ (Good(s) => Good(t))
               /\ SyncedBut(s, k) => SyncedBut(t, k)
<1> DEFINE n == InstallOrderFirstIndex(s.next[k])
           useNext == n # None /\ InstallOrderSecondIndex(s.gtks[k]) # None
           value == IF useNext THEN KeyAt(s.next[k], n) ELSE random
           ks == GtkInsert(s.gtks[k], value, k)
           nx == IF useNext THEN GtkSet(s.next[k], n, value, 0) ELSE s.next[k]
           t == GtkKeyInsert(s, k, random)
<1>1. s.gtks[k] \in KeySet /\ s.next[k] \in KeySet
  BY DEF StateType
<1>2. n # None => n \in Slots
  BY <1>1, IndexOfOrderType DEF InstallOrderFirstIndex, SetSlots
<1>3. value \in Keys \cup {NoKey}
  <2>1. \A i \in Slots : s.next[k].gtk[i] \in GtkEntry
    BY <1>1 DEF KeySet
  <2>2. \A i \in Slots : KeyAt(s.next[k], i) \in Keys \cup {NoKey}
    BY <2>1 DEF KeyAt, GtkEntry
  <2> HIDE DEF n
  <2>. QED BY <1>2, <2>2
<1> HIDE DEF value
<1>4. ks \in KeySet /\ (WellFormed(s.gtks[k].gtk) => WellFormed(ks.gtk))
  BY <1>1, <1>3, GtkInsertGood
<1>5. nx \in KeySet
  <2> HIDE DEF n
  <2>. QED BY <1>1, <1>2, <1>3, GtkSetType
<1>6. t = [s EXCEPT !.gtks[k] = ks, !.next[k] = nx]
  BY DEF GtkKeyInsert, value
<1> HIDE DEF ks, nx, n, t
<1>7. /\ t \in StateType
      /\ t.gtks = [s.gtks EXCEPT ![k] = ks] /\ t.disk = s.disk /\ t.mac = s.mac
  <2>1. [s.gtks EXCEPT ![k] = ks] \in [Kinds -> KeySet]
    BY <1>4 DEF StateType
  <2>2. [s.next EXCEPT ![k] = nx] \in [Kinds -> KeySet]
    BY <1>5 DEF StateType
  <2>. QED BY <1>6, <2>1, <2>2 DEF StateType
<1>8. \A l \in Kinds : t.gtks[l] = IF l = k THEN ks ELSE s.gtks[l]
  BY <1>7 DEF StateType
<1>. QED BY <1>4, <1>7, <1>8 DEF Good, SyncedBut, t

-----------------------------------------------------------------------------
(***************************************************************************)
(* The one-second timer.                                                    *)
(***************************************************************************)

\* Installing the successor when it is due.
LEMMA NewInstallKeeps ==
    ASSUME NEW s \in StateType, NEW k \in Kinds, NEW left, NEW random \in Keys
    PROVE  Keeps(s, NewInstall(s, k, left, random))
<1> DEFINE due == [s EXCEPT !.instReq[k] = TRUE]
           ins == GtkKeyInsert(due, k, random)
           net == NetworkKeysFromGtksSet(ins, k)
<1>1. due \in StateType /\ due.gtks = s.gtks /\ due.mac = s.mac /\ due.disk = s.disk
  <2>1. [s.instReq EXCEPT ![k] = TRUE] \in [Kinds -> BOOLEAN]
    BY DEF StateType
  <2>. QED BY <2>1 DEF StateType
<1>2. Keeps(s, due)
  BY <1>1, OtherFields
<1>3. Keeps(s, NwInfoUpdatedCheck(net))
  <2>1. /\ ins \in StateType /\ (Good(due) => Good(ins))
        /\ SyncedBut(due, k) => SyncedBut(ins, k)
    BY <1>1, GtkKeyInsertGood
  <2> HIDE DEF ins
  <2>2. /\ net \in StateType /\ (Good(ins) => Good(net))
        /\ SyncedBut(ins, k) => Synced(net)
    BY <2>1, NetworkKeysFromGtksSetKeeps
  <2>3. Keeps(s, net)
    BY <1>2, <2>1, <2>2 DEF Keeps, Synced, SyncedBut
  <2> HIDE DEF net
  <2>. QED BY <2>2, <2>3, NwInfoUpdatedCheckKeeps, KeepsTrans
<1>4. Keeps(s, s)
  BY DEF Keeps
<1>5. \/ NewInstall(s, k, left, random) = s
      \/ NewInstall(s, k, left, random) = due
      \/ NewInstall(s, k, left, random) = NwInfoUpdatedCheck(net)
  BY DEF NewInstall
<1> HIDE DEF due, net
<1>. QED BY <1>2, <1>3, <1>4, <1>5

\* The key to send with, or the pending one.
LEMMA NetworkKeyIndexSetType ==
    ASSUME NEW s \in StateType, NEW k \in Kinds, NEW i \in Slots
    PROVE  LET t == NetworkKeyIndexSet(s, k, i)
           IN  /\ t \in StateType
               /\ t.gtks = s.gtks /\ t.mac = s.mac /\ t.disk = s.disk
<1>1. [s.send EXCEPT ![k] = i] \in [Kinds -> Slots \cup {None}]
  BY DEF StateType
<1>2. [s.pend EXCEPT !.state = "advertise", !.index = i] \in PendType
  BY DEF StateType, PendType
<1>3. CASE k = "gtk" /\ s.send[k] \notin {None, i}
  BY <1>2, <1>3 DEF StateType, NetworkKeyIndexSet
<1>4. CASE ~(k = "gtk" /\ s.send[k] \notin {None, i})
  BY <1>1, <1>4 DEF StateType, NetworkKeyIndexSet
<1>. QED BY <1>3, <1>4

\* Switching over to the second key.
LEMMA NewActivationKeeps ==
    ASSUME NEW s \in StateType, NEW k \in Kinds, NEW left
    PROVE  Keeps(s, NewActivation(s, k, left))
<1>1. CASE ~NewActivationTime(left)
  BY <1>1 DEF NewActivation, Keeps
<1>2. CASE NewActivationTime(left)
  <2> DEFINE second == InstallOrderSecondIndex(s.gtks[k])
             ks == StatusActiveSet(s.gtks[k], second)
             active == [s EXCEPT !.gtks[k] = ks]
             sent == IF second # None THEN NetworkKeyIndexSet(active, k, second)
                                      ELSE active
             t == [sent EXCEPT !.instReq[k] = FALSE]
  <2>1. s.gtks[k] \in KeySet
    BY DEF StateType
  <2>2. second # None => second \in Slots
    BY <2>1, IndexOfOrderType DEF InstallOrderSecondIndex, SetSlots
  <2>3. /\ ks \in KeySet /\ SameKeys(ks.gtk, s.gtks[k].gtk)
        /\ WellFormed(s.gtks[k].gtk) => WellFormed(ks.gtk)
    BY <2>1, StatusActiveSetGood
  <2> HIDE DEF ks, second
  <2>4. Keeps(s, active)
    BY <2>3, SetGtksSame
  <2>5. active \in StateType
    BY <2>4 DEF Keeps
  <2> HIDE DEF active
  <2>6. sent \in StateType /\ sent.gtks = active.gtks /\ sent.mac = active.mac
                           /\ sent.disk = active.disk
    BY <2>2, <2>5, NetworkKeyIndexSetType
  <2> HIDE DEF sent
  <2>7. t \in StateType /\ t.gtks = active.gtks /\ t.mac = active.mac /\ t.disk = active.disk
    <3>1. [sent.instReq EXCEPT ![k] = FALSE] \in [Kinds -> BOOLEAN]
      BY <2>6 DEF StateType
    <3>. QED BY <2>6, <3>1 DEF StateType
  <2>8. Keeps(active, t)
    BY <2>5, <2>7, OtherFields
  <2>9. NewActivation(s, k, left) = NwInfoUpdatedCheck(t)
    BY <1>2 DEF NewActivation, sent, active, ks, second
  <2> HIDE DEF t
  <2>10. Keeps(t, NwInfoUpdatedCheck(t))
    BY <2>7, NwInfoUpdatedCheckKeeps
  <2>. QED BY <2>4, <2>8, <2>9, <2>10, KeepsTrans
<1>. QED BY <1>1, <1>2

\* Removing an expired key.
LEMMA ExpireKeeps ==
    ASSUME NEW s \in StateType, NEW k \in Kinds, NEW i \in Slots
    PROVE  Keeps(s, Expire(s, k, i))
<1> DEFINE ks == GtkClear(s.gtks[k], i)
           clr == [s EXCEPT !.gtks[k] = ks]
           net == NetworkKeysFromGtksSet(clr, k)
<1>1. s.gtks[k] \in KeySet
  BY DEF StateType
<1>2. ks \in KeySet /\ (WellFormed(s.gtks[k].gtk) => WellFormed(ks.gtk))
  BY <1>1, GtkClearType, GtkClearGood DEF GoodSet
<1> HIDE DEF ks
<1>3. /\ clr \in StateType /\ (Good(s) => Good(clr))
      /\ SyncedBut(s, k) => SyncedBut(clr, k)
  BY <1>2, SetGtksGood
<1> HIDE DEF clr
<1>4. /\ net \in StateType /\ (Good(clr) => Good(net))
      /\ SyncedBut(clr, k) => Synced(net)
  BY <1>3, NetworkKeysFromGtksSetKeeps
<1>5. Keeps(s, net)
  BY <1>3, <1>4 DEF Keeps, Synced, SyncedBut
<1>6. Expire(s, k, i) = NwInfoUpdatedCheck(net)
  BY DEF Expire, clr, ks
<1> HIDE DEF net
<1>. QED BY <1>4, <1>5, <1>6, NwInfoUpdatedCheckKeeps, KeepsTrans

\* One slot's turn of the timer.
LEMMA SlowTimerKeyKeeps ==
    ASSUME NEW s \in StateType, NEW k \in Kinds, NEW i \in Slots, NEW cut \in Nat,
           NEW random \in Keys
    PROVE  Keeps(s, SlowTimerKey(s, k, i, cut, random))
<1> DEFINE active == StatusActiveGet(s.gtks[k]) = i
           ks == LifetimeDecrement(s.gtks[k], i, 1 + cut)
           older == [s EXCEPT !.gtks[k] = ks]
           left == older.gtks[k].gtk[i].lifetime
           inst == NewInstall(older, k, left, random)
           rotated == NewActivation(inst, k, left)
           kept == IF ~active THEN older
                   ELSE IF cut # 0 THEN NwInfoUpdatedCheck(rotated)
                   ELSE rotated
<1>1. s.gtks[k] \in KeySet
  BY DEF StateType
<1>2. /\ ks \in KeySet /\ SameKeys(ks.gtk, s.gtks[k].gtk)
      /\ WellFormed(s.gtks[k].gtk) => WellFormed(ks.gtk)
  BY <1>1, LifetimeDecrementGood
<1> HIDE DEF ks
<1>3. Keeps(s, older)
  BY <1>2, SetGtksSame
<1> HIDE DEF older
<1>4. Keeps(older, inst)
  BY <1>3, NewInstallKeeps DEF Keeps
<1> HIDE DEF inst
<1>5. Keeps(inst, rotated)
  BY <1>4, NewActivationKeeps DEF Keeps
<1> HIDE DEF rotated
<1>6. Keeps(rotated, NwInfoUpdatedCheck(rotated))
  BY <1>5, NwInfoUpdatedCheckKeeps DEF Keeps
<1>7. Keeps(s, kept) /\ kept \in StateType
  <2>1. Keeps(s, rotated)
    BY <1>3, <1>4, <1>5, KeepsTrans
  <2>2. Keeps(s, NwInfoUpdatedCheck(rotated))
    BY <2>1, <1>6, KeepsTrans
  <2>. QED BY <1>3, <2>1, <2>2 DEF Keeps
<1>8. \/ SlowTimerKey(s, k, i, cut, random) = s
      \/ SlowTimerKey(s, k, i, cut, random) = kept
      \/ SlowTimerKey(s, k, i, cut, random) = Expire(kept, k, i)
  BY DEF SlowTimerKey, rotated, inst, older, ks
<1> HIDE DEF kept
<1>9. Keeps(s, Expire(kept, k, i))
  BY <1>7, ExpireKeeps, KeepsTrans
<1>10. Keeps(s, s)
  BY DEF Keeps
<1>. QED BY <1>7, <1>8, <1>9, <1>10

-----------------------------------------------------------------------------
(***************************************************************************)
(* Revocation.                                                              *)
(***************************************************************************)

\* Cutting a lifetime short.
LEMMA RevokeCutGood ==
    ASSUME NEW ks \in KeySet, StatusActiveGet(ks) # None
    PROVE  /\ RevokeCut(ks) \in KeySet
           /\ WellFormed(ks.gtk) => WellFormed(RevokeCut(ks).gtk)
<1> DEFINE active == StatusActiveGet(ks)
           second == InstallOrderSecondIndex(ks)
           left == ks.gtk[active].lifetime
           limit == left + RevocationLifetime
<1>1. active \in Slots
  BY StatusActiveGetType DEF ActiveSlots
<1>2. second # None => second \in Slots
  BY IndexOfOrderType DEF InstallOrderSecondIndex, SetSlots
<1>3. RevocationLifetime \in Nat
  BY TimersAssumption DEF RevocationLifetime
<1>4. \A i \in Slots : ks.gtk[i].lifetime \in Nat
  <2>1. \A i \in Slots : ks.gtk[i] \in GtkEntry
    BY DEF KeySet
  <2>. QED BY <2>1 DEF GtkEntry
<1>5. \/ RevokeCut(ks) = ks
      \/ /\ left > RevocationLifetime
         /\ RevokeCut(ks) = LifetimeDecrement(ks, active, left - RevocationLifetime)
      \/ /\ second # None /\ ks.gtk[second].lifetime > limit
         /\ RevokeCut(ks) = LifetimeDecrement(ks, second, ks.gtk[second].lifetime - limit)
  BY DEF RevokeCut
<1> HIDE DEF active, second
<1>6. left > RevocationLifetime => left - RevocationLifetime \in Nat
  BY <1>1, <1>3, <1>4
<1>7. second # None /\ ks.gtk[second].lifetime > limit
      => ks.gtk[second].lifetime - limit \in Nat
  BY <1>1, <1>2, <1>3, <1>4
<1>. QED BY <1>1, <1>2, <1>5, <1>6, <1>7, LifetimeDecrementGood

\* Removing the key installed last.
LEMMA ClearLastGood ==
    ASSUME NEW ks \in KeySet, NEW keep
    PROVE  /\ ClearLast(ks, keep) \in KeySet
           /\ WellFormed(ks.gtk) => WellFormed(ClearLast(ks, keep).gtk)
<1> DEFINE last == InstallOrderLastIndex(ks)
<1>1. last # None => last \in Slots
  BY LastIndexIsSet DEF SetSlots
<1>2. \/ ClearLast(ks, keep) = ks
      \/ last # None /\ ClearLast(ks, keep) = GtkClear(ks, last)
  BY DEF ClearLast
<1> HIDE DEF last
<1>. QED BY <1>1, <1>2, GtkClearType, GtkClearGood DEF GoodSet

\* A revocation's work on a key set.
LEMMA RevokeKeysGood ==
    ASSUME NEW ks \in KeySet
    PROVE  /\ RevokeKeys(ks) \in KeySet
           /\ WellFormed(ks.gtk) => WellFormed(RevokeKeys(ks).gtk)
<1>1. CASE StatusActiveGet(ks) = None
  BY <1>1 DEF RevokeKeys
<1>2. CASE StatusActiveGet(ks) # None
  <2> DEFINE keep == RevokeIndex(ks)
             c0 == RevokeCut(ks)
             c1 == ClearLast(c0, keep)
             c2 == ClearLast(c1, keep)
             c3 == ClearLast(c2, keep)
             c4 == ClearLast(c3, keep)
  <2>0. c0 \in KeySet /\ (WellFormed(ks.gtk) => WellFormed(c0.gtk))
    BY <1>2, RevokeCutGood
  <2>9. RevokeKeys(ks) = c4
    BY <1>2 DEF RevokeKeys, ClearAfter
  <2> HIDE DEF keep, c0
  <2>1. c1 \in KeySet /\ (WellFormed(c0.gtk) => WellFormed(c1.gtk))
    BY <2>0, ClearLastGood
  <2> HIDE DEF c1
  <2>2. c2 \in KeySet /\ (WellFormed(c1.gtk) => WellFormed(c2.gtk))
    BY <2>1, ClearLastGood
  <2> HIDE DEF c2
  <2>3. c3 \in KeySet /\ (WellFormed(c2.gtk) => WellFormed(c3.gtk))
    BY <2>2, ClearLastGood
  <2> HIDE DEF c3
  <2>4. c4 \in KeySet /\ (WellFormed(c3.gtk) => WellFormed(c4.gtk))
    BY <2>3, ClearLastGood
  <2>. QED BY <2>0, <2>1, <2>2, <2>3, <2>4, <2>9
<1>. QED BY <1>1, <1>2

-----------------------------------------------------------------------------
(***************************************************************************)
(* Start: the file, the forced keys and the first key.                      *)
(***************************************************************************)

\* A key taken from the configuration.
LEMMA ForceKeyType ==
    ASSUME NEW ks \in KeySet, NEW i, NEW value \in [Slots -> Keys \cup {NoKey}],
           NEW lifetime \in Nat
    PROVE  ForceKey(ks, i, value, lifetime) \in KeySet
BY GtkSetType DEF ForceKey

\* The keys taken from the configuration; without any, the empty key set.
LEMMA GtkUpdateType ==
    ASSUME NEW k \in Kinds
    PROVE  GoodSet(GtkUpdate(k)) /\ (Forced = NoForced => GtkUpdate(k) = GtksInit)
<1>1. Forced[k] \in [Slots -> Keys \cup {NoKey}]
  BY ForcedAssumption
<1>2. ASSUME NEW ks, GoodSet(ks), NEW i PROVE GoodSet(ForceGtk(ks, i, Forced[k]))
  <2> DEFINE lifetime == InstallOrderLastLifetime(ks) + ExpireOffset
  <2>1. lifetime \in Nat
    BY <1>2, InstallOrderLastType, TimersAssumption DEF GoodSet
  <2> HIDE DEF lifetime
  <2>2. CASE i \in Slots /\ Forced[k][i] # NoKey
    <3>1. GoodSet(GtkSet(ks, i, Forced[k][i], lifetime))
      BY <1>1, <1>2, <2>1, <2>2, GtkSetGood
    <3>. QED BY <2>2, <3>1 DEF ForceGtk, ForceKey, lifetime
  <2>3. CASE ~(i \in Slots /\ Forced[k][i] # NoKey)
    BY <1>2, <2>3 DEF ForceGtk, ForceKey
  <2>. QED BY <2>2, <2>3
<1> DEFINE f0 == ForceGtk(GtksInit, 0, Forced[k])
           f1 == ForceGtk(f0, 1, Forced[k])
           f2 == ForceGtk(f1, 2, Forced[k])
           f3 == ForceGtk(f2, 3, Forced[k])
<1>3. GoodSet(GtksInit)
  BY EmptyTypes
<1>4. GoodSet(f0)
  BY <1>2, <1>3
<1>5. GoodSet(f1)
  BY <1>2, <1>4
<1>6. GoodSet(f2)
  BY <1>2, <1>5
<1>7. GoodSet(f3)
  BY <1>2, <1>6
<1>8. \/ GtkUpdate(k) = GtksInit
      \/ GtkUpdate(k) = StatusActiveSet(StatusAllFreshSet(f3), InstallOrderFirstIndex(f3))
  BY DEF GtkUpdate
<1>9. GoodSet(GtkUpdate(k))
  <2> DEFINE fresh == StatusAllFreshSet(f3)
  <2> HIDE DEF f3
  <2>1. GoodSet(fresh)
    BY <1>7, StatusAllFreshSetGood DEF GoodSet
  <2> HIDE DEF fresh
  <2>2. GoodSet(StatusActiveSet(fresh, InstallOrderFirstIndex(f3)))
    BY <2>1, StatusActiveSetGood DEF GoodSet
  <2>. QED BY <1>3, <1>8, <2>2 DEF fresh
<1>10. Forced = NoForced => GtkUpdate(k) = GtksInit
  BY DEF GtkUpdate, IsForced, NoForced
<1>. QED BY <1>9, <1>10

\* The keys to be installed next.
LEMMA NextGtkUpdateType ==
    ASSUME NEW k \in Kinds
    PROVE  NextGtkUpdate(k) \in KeySet
<1> DEFINE value == IF "gtk" \in Kinds THEN Forced["gtk"] ELSE Forced[k]
           n(ks, i) == IF i < NumKeys(IsLgtk(k)) THEN ForceNextKey(ks, i, value) ELSE ks
<1>1. value \in [Slots -> Keys \cup {NoKey}]
  BY ForcedAssumption
<1> HIDE DEF value
<1>2. \A ks \in KeySet : \A i \in {0, 1, 2, 3} : n(ks, i) \in KeySet
  BY <1>1, ForceKeyType DEF ForceNextKey
<1>3. GtksInit \in KeySet
  BY EmptyTypes DEF GoodSet
<1>4. n(n(n(n(GtksInit, 0), 1), 2), 3) \in KeySet
  <2> HIDE DEF n
  <2>1. n(GtksInit, 0) \in KeySet
    BY <1>2, <1>3
  <2>2. n(n(GtksInit, 0), 1) \in KeySet
    BY <1>2, <2>1
  <2>3. n(n(n(GtksInit, 0), 1), 2) \in KeySet
    BY <1>2, <2>2
  <2>. QED BY <1>2, <2>3
<1>5. \/ NextGtkUpdate(k) = GtksInit
      \/ NextGtkUpdate(k) = n(n(n(n(GtksInit, 0), 1), 2), 3)
  BY DEF NextGtkUpdate, value
<1>. QED BY <1>3, <1>4, <1>5

\* Time passing while the daemon is down.
LEMMA AgedGood ==
    ASSUME NEW d \in DiskType, NEW seconds \in Nat
    PROVE  /\ Aged(d, seconds) \in DiskType
           /\ \A k \in Kinds : WellFormed(d.keys[k]) => WellFormed(Aged(d, seconds).keys[k])
<1> DEFINE left(e) == [e EXCEPT !.lifetime =
                          IF e.lifetime > seconds THEN e.lifetime - seconds ELSE 0]
           keys == [k \in Kinds |-> [i \in Slots |-> left(d.keys[k][i])]]
<1>1. \A k \in Kinds, i \in Slots : d.keys[k][i] \in GtkEntry
  BY DEF DiskType
<1>2. ASSUME NEW k \in Kinds, NEW i \in Slots
      PROVE  /\ left(d.keys[k][i]) \in GtkEntry
             /\ left(d.keys[k][i]).set = d.keys[k][i].set
             /\ left(d.keys[k][i]).status = d.keys[k][i].status
             /\ left(d.keys[k][i]).install_order = d.keys[k][i].install_order
  BY <1>1 DEF GtkEntry
<1>3. Aged(d, seconds) = [d EXCEPT !.keys = keys]
  BY DEF Aged
<1> HIDE DEF left
<1>4. keys \in [Kinds -> [Slots -> GtkEntry]]
  BY <1>2
<1>5. Aged(d, seconds) \in DiskType /\ Aged(d, seconds).keys = keys
  <2> HIDE DEF keys
  <2>. QED BY <1>3, <1>4 DEF DiskType
<1>6. \A k \in Kinds, i \in Slots : keys[k][i] = left(d.keys[k][i])
  OBVIOUS
<1> HIDE DEF keys
<1>7. ASSUME NEW k \in Kinds, WellFormed(d.keys[k]) PROVE WellFormed(keys[k])
  BY <1>2, <1>6, <1>7 DEF WellFormed, DistinctOrders, OneActive, ActiveIsSet
<1>. QED BY <1>5, <1>7

\* Reading keys from the file; into the empty set, a subset of them.
LEMMA ReadKeysGood ==
    ASSUME NEW ks \in KeySet, NEW entries \in [Slots -> GtkEntry]
    PROVE  /\ ReadKeys(ks, entries) \in KeySet
           /\ WellFormed(entries) => WellFormed(ReadKeys(GtksInit, entries).gtk)
<1>1. ReadKeys(ks, entries) \in KeySet
  <2> DEFINE g == [i \in Slots |->
                     IF ~ks.gtk[i].set /\ entries[i].set /\ entries[i].lifetime > 0
                     THEN entries[i] ELSE ks.gtk[i]]
  <2>1. g \in [Slots -> GtkEntry]
    BY DEF KeySet
  <2>2. ReadKeys(ks, entries) = [ks EXCEPT !.gtk = g]
    BY DEF ReadKeys
  <2> HIDE DEF g
  <2>. QED BY <2>1, <2>2 DEF KeySet
<1>2. ASSUME WellFormed(entries) PROVE WellFormed(ReadKeys(GtksInit, entries).gtk)
  <2> DEFINE r == ReadKeys(GtksInit, entries).gtk
  <2>1. \A i \in Slots : r[i] = entries[i] \/ r[i] = EmptyEntry
    BY DEF ReadKeys, GtksInit
  <2>2. ~EmptyEntry.set /\ EmptyEntry.status = "new"
    BY DEF EmptyEntry
  <2> HIDE DEF r
  <2>3. WellFormed(r)
    BY <1>2, <2>1, <2>2 DEF WellFormed, DistinctOrders, OneActive, ActiveIsSet
  <2>. QED BY <2>3 DEF r
<1>. QED BY <1>1, <1>2

\* auth_init gives a state of the right types, and a well formed one unless it
\* puts the keys of the file between forced ones.
LEMMA AuthInitGood ==
    ASSUME NEW d \in DiskType, NEW configured \in BOOLEAN
    PROVE  /\ AuthInit(d, configured) \in StateType
           /\ (Forced = NoForced \/ ~d.exists) /\ (\A k \in Kinds : WellFormed(d.keys[k]))
              => Good(AuthInit(d, configured))
<1> DEFINE none == [k \in Kinds |-> GtksInit]
           forced == IF configured THEN [k \in Kinds |-> GtkUpdate(k)] ELSE none
           ks == [k \in Kinds |-> UpdatedReset(forced[k])]
           read == NwInfoRead(ks, d)
           nextg == IF configured THEN [k \in Kinds |-> NextGtkUpdate(k)] ELSE none
           macs == [k \in Kinds |-> NwKeys(forced[k], k)]
           rewrite == d.exists /\ \E k \in Kinds : SetSlots(read[k]) = {}
           file == IF rewrite THEN DiskOf(read, FALSE) ELSE d
           t == AuthInit(d, configured)
<1>1. none \in [Kinds -> KeySet]
  BY EmptyTypes DEF GoodSet
<1>2. forced \in [Kinds -> KeySet]
  BY <1>1, GtkUpdateType DEF GoodSet
<1>18. \A k \in Kinds : WellFormed(forced[k].gtk)
  BY GtkUpdateType, EmptyTypes DEF GoodSet
<1>3. Forced = NoForced => \A k \in Kinds : forced[k] = GtksInit
  BY GtkUpdateType
<1> HIDE DEF forced
<1>4. ks \in [Kinds -> KeySet]
  BY <1>2, UpdatedResetGood
<1>5. Forced = NoForced => \A k \in Kinds : ks[k].gtk = GtksInit.gtk
  <2>1. GtksInit \in KeySet
    BY EmptyTypes DEF GoodSet
  <2>2. UpdatedReset(GtksInit).gtk = GtksInit.gtk
    BY <2>1, UpdatedResetGood
  <2>. QED BY <1>3, <2>2
<1>19. \A k \in Kinds : WellFormed(ks[k].gtk)
  BY <1>2, <1>18, UpdatedResetGood
<1> HIDE DEF ks
<1>6. \A k \in Kinds : d.keys[k] \in [Slots -> GtkEntry]
  BY DEF DiskType
<1>7. read \in [Kinds -> KeySet]
  <2>1. \A k \in Kinds : ks[k] \in KeySet
    BY <1>4
  <2>2. \A k \in Kinds : ReadKeys(ks[k], d.keys[k]) \in KeySet
    BY <1>6, <2>1, ReadKeysGood
  <2>3. GtksInit \in KeySet
    BY EmptyTypes DEF GoodSet
  <2>. QED BY <1>4, <2>2, <2>3 DEF NwInfoRead
<1>20. ASSUME ~d.exists, NEW k \in Kinds PROVE WellFormed(read[k].gtk)
  BY <1>19, <1>20 DEF NwInfoRead
<1>8. ASSUME Forced = NoForced, \A k \in Kinds : WellFormed(d.keys[k]), NEW k \in Kinds
      PROVE  WellFormed(read[k].gtk)
  <2>1. WellFormed(GtksInit.gtk)
    BY EmptyTypes DEF GoodSet
  <2>2. WellFormed(ReadKeys(GtksInit, d.keys[k]).gtk)
    BY <1>4, <1>6, <1>8, ReadKeysGood
  <2>3. \/ read[k] = ks[k] \/ read[k] = GtksInit \/ read[k] = ReadKeys(ks[k], d.keys[k])
    BY <1>4 DEF NwInfoRead
  <2>4. ks[k].gtk = GtksInit.gtk /\ ks[k] \in KeySet
    BY <1>4, <1>5, <1>8
  <2>5. ReadKeys(ks[k], d.keys[k]).gtk = ReadKeys(GtksInit, d.keys[k]).gtk
    BY <2>4 DEF ReadKeys, KeySet, GtksInit
  <2>. QED BY <2>1, <2>2, <2>3, <2>4, <2>5
<1> HIDE DEF read
<1>9. nextg \in [Kinds -> KeySet]
  BY <1>1, NextGtkUpdateType
<1> HIDE DEF nextg
<1>10. macs \in [Kinds -> [Slots -> Keys \cup {NoKey}]]
  BY <1>2, NwKeysType
<1> HIDE DEF macs
<1>11. DiskOf(read, FALSE) \in DiskType /\ \A k \in Kinds : DiskOf(read, FALSE).keys[k] = read[k].gtk
  BY <1>7, DiskOfType
<1>12. file \in DiskType
  BY <1>11
<1>13. (rewrite /\ TornWrites) \in BOOLEAN
  BY Zenon
<1> HIDE DEF rewrite
<1>14. t = [gtks |-> read, next |-> nextg, instReq |-> [k \in Kinds |-> FALSE],
            mac |-> macs, send |-> [k \in Kinds |-> None], pend |-> NoPending,
            disk |-> file, wrote |-> rewrite /\ TornWrites]
  BY DEF AuthInit, read, nextg, macs, rewrite, ks, forced
<1>15. file = d \/ file = DiskOf(read, FALSE)
  OBVIOUS
<1> HIDE DEF file, t
<1>16. t \in StateType
  <2>1. NoPending \in PendType
    BY PendingType
  <2>. QED BY <2>1, <1>7, <1>9, <1>10, <1>12, <1>13, <1>14 DEF StateType
<1>17. ASSUME Forced = NoForced \/ ~d.exists, \A k \in Kinds : WellFormed(d.keys[k])
       PROVE  Good(t)
  <2>1. t.gtks = read /\ t.disk = file
    BY <1>14
  <2>2. \A k \in Kinds : WellFormed(read[k].gtk)
    BY <1>8, <1>17, <1>20
  <2>3. \A k \in Kinds : WellFormed(file.keys[k])
    BY <1>11, <1>15, <1>17, <2>2
  <2>. QED BY <2>1, <2>2, <2>3 DEF Good
<1>. QED BY <1>16, <1>17 DEF t

\* The first key of a kind.
LEMMA StartKindGood ==
    ASSUME NEW s \in StateType, NEW k \in Kinds, NEW random \in Keys
    PROVE  /\ StartKind(s, k, random) \in StateType
           /\ Good(s) => Good(StartKind(s, k, random))
<1> DEFINE ins == GtkKeyInsert(s, k, random)
           first == InstallOrderFirstIndex(ins.gtks[k])
           ks == StatusActiveSet(ins.gtks[k], first)
           t == [ins EXCEPT !.gtks[k] = ks]
<1>1. ins \in StateType /\ (Good(s) => Good(ins))
  BY GtkKeyInsertGood
<1>2. StartKind(s, k, random) = s \/ StartKind(s, k, random) = t
  BY DEF StartKind
<1> HIDE DEF ins, first
<1>3. ins.gtks[k] \in KeySet
  BY <1>1 DEF StateType
<1>4. ks \in KeySet /\ (WellFormed(ins.gtks[k].gtk) => WellFormed(ks.gtk))
  BY <1>3, StatusActiveSetGood
<1> HIDE DEF ks
<1>5. t \in StateType /\ (Good(ins) => Good(t))
  BY <1>1, <1>4, SetGtksGood
<1>. QED BY <1>1, <1>2, <1>5

\* The start puts the keys into the MAC.
LEMMA StartAllGood ==
    ASSUME NEW s \in StateType, NEW random \in [Kinds -> Keys]
    PROVE  /\ StartAll(s, random) \in StateType
           /\ Good(s) => Good(StartAll(s, random))
           /\ Synced(StartAll(s, random))
<1> DEFINE g == IF "gtk" \in Kinds THEN StartKind(s, "gtk", random["gtk"]) ELSE s
           l == IF "lgtk" \in Kinds THEN StartKind(g, "lgtk", random["lgtk"]) ELSE g
           n == NwInfoUpdatedCheck(l)
           gs == [k \in Kinds |-> StatusAllFreshSet(n.gtks[k])]
           macs == [k \in Kinds |-> NwKeys(n.gtks[k], k)]
           snd == [k \in Kinds |-> StartIndex(s, k, random[k])]
           t == StartAll(s, random)
<1>1. g \in StateType /\ (Good(s) => Good(g))
  BY StartKindGood
<1> HIDE DEF g
<1>2. l \in StateType /\ (Good(g) => Good(l))
  BY <1>1, StartKindGood
<1> HIDE DEF l
<1>3. n \in StateType /\ (Good(l) => Good(n))
  BY <1>2, NwInfoUpdatedCheckKeeps DEF Keeps
<1> HIDE DEF n
<1>4. \A k \in Kinds : n.gtks[k] \in KeySet
  BY <1>3 DEF StateType
<1>5. \A k \in Kinds : /\ gs[k] \in KeySet /\ SameKeys(gs[k].gtk, n.gtks[k].gtk)
                       /\ WellFormed(n.gtks[k].gtk) => WellFormed(gs[k].gtk)
  BY <1>4, StatusAllFreshSetGood
<1>6. gs \in [Kinds -> KeySet]
  BY <1>5
<1>7. macs \in [Kinds -> [Slots -> Keys \cup {NoKey}]]
  BY <1>4, NwKeysType
<1>8. snd \in [Kinds -> Slots \cup {None}]
  <2>1. ASSUME NEW k \in Kinds PROVE StartIndex(s, k, random[k]) \in Slots \cup {None}
    <3>1. s.gtks[k] \in KeySet
      BY DEF StateType
    <3>2. StatusActiveGet(s.gtks[k]) # None => StatusActiveGet(s.gtks[k]) \in Slots
      BY <3>1, StatusActiveGetType DEF ActiveSlots
    <3>3. GtkKeyInsert(s, k, random[k]) \in StateType
      BY GtkKeyInsertGood
    <3>4. GtkKeyInsert(s, k, random[k]).gtks[k] \in KeySet
      BY <3>3 DEF StateType
    <3>5. InstallOrderFirstIndex(GtkKeyInsert(s, k, random[k]).gtks[k]) \in Slots \cup {None}
      BY <3>4, IndexOfOrderType DEF InstallOrderFirstIndex, SetSlots
    <3>. QED BY <3>2, <3>5 DEF StartIndex
  <2>. QED BY <2>1
<1>9. t = [n EXCEPT !.gtks = gs, !.mac = macs, !.send = snd]
  BY DEF StartAll, n, l, g
<1>10. \A k \in Kinds : macs[k] = NwKeys(gs[k], k)
  BY <1>5, NwKeysSame
<1> HIDE DEF gs, macs, snd, t
<1>11. t \in StateType /\ t.gtks = gs /\ t.mac = macs /\ t.disk = n.disk
  BY <1>3, <1>6, <1>7, <1>8, <1>9 DEF StateType
<1>12. Good(n) => Good(t)
  BY <1>5, <1>11 DEF Good
<1>13. Synced(t)
  BY <1>10, <1>11 DEF Synced
<1>. QED BY <1>1, <1>2, <1>3, <1>11, <1>12, <1>13 DEF t

-----------------------------------------------------------------------------
(***************************************************************************)
(* From the record to the variables.                                        *)
(***************************************************************************)

\* The variables of a well typed state make a record of the right types.
LEMMA HereType == TypeOK => Here \in StateType
BY DEF TypeOK, Here, StateType

\* A step to a well typed record.
LEMMA BecomeType ==
    ASSUME NEW t \in StateType, Become(t)
    PROVE  /\ gtks' \in [Kinds -> KeySet] /\ next' \in [Kinds -> KeySet]
           /\ instReq' \in [Kinds -> BOOLEAN]
           /\ mac' \in [Kinds -> [Slots -> Keys \cup {NoKey}]]
           /\ send' \in [Kinds -> Slots \cup {None}] /\ pend' \in PendType
           /\ disk' \in DiskType /\ wrote' \in BOOLEAN
           /\ gtks' = t.gtks /\ mac' = t.mac /\ disk' = t.disk
BY DEF Become, StateType

\* Revoking one key set.
LEMMA RevokeStartKeeps ==
    ASSUME NEW s \in StateType, NEW k \in Kinds, NEW given \in Keys \cup {NoKey},
           NEW random \in Keys
    PROVE  Keeps(s, RevokeStart(s, k, given, random))
<1> DEFINE cut == [s EXCEPT !.gtks[k] = RevokeKeys(@)]
           ks == GtkInsert(cut.gtks[k], given, k)
           u == [cut EXCEPT !.gtks[k] = ks]
           v == GtkKeyInsert(cut, k, random)
<1>1. s.gtks[k] \in KeySet
  BY DEF StateType
<1>2. /\ cut \in StateType /\ (Good(s) => Good(cut))
      /\ SyncedBut(s, k) => SyncedBut(cut, k)
  BY <1>1, RevokeKeysGood, SetGtksGood
<1> HIDE DEF cut
<1>3. ASSUME NEW w \in StateType, Good(s) => Good(w), SyncedBut(s, k) => SyncedBut(w, k)
      PROVE  Keeps(s, NwInfoUpdatedCheck(NetworkKeysFromGtksSet(w, k)))
  <2>1. Keeps(s, NetworkKeysFromGtksSet(w, k))
    BY <1>3, NetworkKeysFromGtksSetKeeps DEF Keeps, Synced, SyncedBut
  <2>2. NetworkKeysFromGtksSet(w, k) \in StateType
    BY <2>1 DEF Keeps
  <2>. QED BY <2>1, <2>2, NwInfoUpdatedCheckKeeps, KeepsTrans
<1>4. ASSUME given # NoKey PROVE Keeps(s, RevokeStart(s, k, given, random))
  <2>1. cut.gtks[k] \in KeySet /\ given \in Keys
    BY <1>2, <1>4 DEF StateType
  <2>2. ks \in KeySet /\ (WellFormed(cut.gtks[k].gtk) => WellFormed(ks.gtk))
    BY <2>1, GtkInsertGood
  <2> HIDE DEF ks
  <2>3. u \in StateType /\ (Good(cut) => Good(u)) /\ (SyncedBut(cut, k) => SyncedBut(u, k))
    BY <1>2, <2>2, SetGtksGood
  <2> HIDE DEF u
  <2>4. Keeps(s, NwInfoUpdatedCheck(NetworkKeysFromGtksSet(u, k)))
    BY <1>2, <1>3, <2>3
  <2>. QED BY <1>4, <2>4 DEF RevokeStart, u, ks, cut
<1>5. ASSUME given = NoKey PROVE Keeps(s, RevokeStart(s, k, given, random))
  <2>1. v \in StateType /\ (Good(cut) => Good(v)) /\ (SyncedBut(cut, k) => SyncedBut(v, k))
    BY <1>2, GtkKeyInsertGood
  <2> HIDE DEF v
  <2>2. Keeps(s, NwInfoUpdatedCheck(NetworkKeysFromGtksSet(v, k)))
    BY <1>2, <1>3, <2>1
  <2>. QED BY <1>5, <2>2 DEF RevokeStart, v, cut
<1>. QED BY <1>4, <1>5

\* Revoking both.
LEMMA RevokeAllKeeps ==
    ASSUME NEW s \in StateType, NEW given \in [Kinds -> Keys \cup {NoKey}],
           NEW random \in [Kinds -> Keys]
    PROVE  Keeps(s, RevokeAll(s, given, random))
<1> DEFINE g == IF "gtk" \in Kinds THEN RevokeStart(s, "gtk", given["gtk"], random["gtk"])
                ELSE s
           l == IF "lgtk" \in Kinds
                THEN RevokeStart(g, "lgtk", given["lgtk"], random["lgtk"]) ELSE g
<1>1. Keeps(s, g)
  BY RevokeStartKeeps DEF Keeps
<1>2. g \in StateType
  BY <1>1 DEF Keeps
<1> HIDE DEF g
<1>3. Keeps(g, l)
  BY <1>2, RevokeStartKeeps DEF Keeps
<1>4. Keeps(s, l)
  BY <1>1, <1>3, KeepsTrans
<1>. QED BY <1>4 DEF RevokeAll, l, g

\* The handlers that run in mode "run", as one call on the record.
Handler(t) ==
    \/ \E k \in Kinds, i \in Slots, cut \in Nat, random \in Keys :
          t = SlowTimerKey(Here, k, i, cut, random)
    \/ \E k \in Kinds, key \in Keys :
          t = NetworkKeysFromGtksSet([Here EXCEPT !.gtks[k] = GtkInsert(@, key, k)], k)
    \/ \E given \in [Kinds -> Keys \cup {NoKey}], random \in [Kinds -> Keys] :
          t = RevokeAll(Here, given, random)
    \/ "gtk" \in Kinds /\ \E i \in Slots :
          t = NetworkKeyIndexSet([Here EXCEPT !.gtks["gtk"] = StatusActiveSet(@, i)], "gtk", i)

\* Every handler keeps the types, the form of the key sets and the MAC in step.
LEMMA HandlerKeeps ==
    ASSUME Here \in StateType, NEW t, Handler(t)
    PROVE  Keeps(Here, t)
<1> DEFINE s == Here
<1>0. s \in StateType
  OBVIOUS
<1> HIDE DEF s
<1>1. ASSUME NEW k \in Kinds, NEW i \in Slots, NEW cut \in Nat, NEW random \in Keys
      PROVE  Keeps(s, SlowTimerKey(s, k, i, cut, random))
  BY <1>0, SlowTimerKeyKeeps
<1>2. ASSUME NEW k \in Kinds, NEW key \in Keys
      PROVE  Keeps(s, NetworkKeysFromGtksSet([s EXCEPT !.gtks[k] = GtkInsert(@, key, k)], k))
  <2> DEFINE ks == GtkInsert(s.gtks[k], key, k)
             u == [s EXCEPT !.gtks[k] = ks]
  <2>1. s.gtks[k] \in KeySet
    BY <1>0 DEF StateType
  <2>2. ks \in KeySet /\ (WellFormed(s.gtks[k].gtk) => WellFormed(ks.gtk))
    BY <2>1, GtkInsertGood
  <2> HIDE DEF ks
  <2>3. u \in StateType /\ (Good(s) => Good(u)) /\ (SyncedBut(s, k) => SyncedBut(u, k))
    BY <1>0, <2>2, SetGtksGood
  <2> HIDE DEF u
  <2>4. Keeps(s, NetworkKeysFromGtksSet(u, k))
    BY <2>3, NetworkKeysFromGtksSetKeeps DEF Keeps, Synced, SyncedBut
  <2>. QED BY <2>4 DEF u, ks
<1>3. ASSUME NEW given \in [Kinds -> Keys \cup {NoKey}], NEW random \in [Kinds -> Keys]
      PROVE  Keeps(s, RevokeAll(s, given, random))
  BY <1>0, RevokeAllKeeps
<1>4. ASSUME "gtk" \in Kinds, NEW i \in Slots
      PROVE  Keeps(s, NetworkKeyIndexSet(
                  [s EXCEPT !.gtks["gtk"] = StatusActiveSet(@, i)], "gtk", i))
  <2> DEFINE ks == StatusActiveSet(s.gtks["gtk"], i)
             u == [s EXCEPT !.gtks["gtk"] = ks]
             v == NetworkKeyIndexSet(u, "gtk", i)
  <2>1. s.gtks["gtk"] \in KeySet
    BY <1>0, <1>4 DEF StateType
  <2>2. /\ ks \in KeySet /\ SameKeys(ks.gtk, s.gtks["gtk"].gtk)
        /\ WellFormed(s.gtks["gtk"].gtk) => WellFormed(ks.gtk)
    BY <2>1, StatusActiveSetGood
  <2> HIDE DEF ks
  <2>3. Keeps(s, u) /\ u \in StateType
    BY <1>0, <1>4, <2>2, SetGtksSame DEF Keeps
  <2> HIDE DEF u
  <2>4. v \in StateType /\ v.gtks = u.gtks /\ v.mac = u.mac /\ v.disk = u.disk
    BY <1>4, <2>3, NetworkKeyIndexSetType
  <2> HIDE DEF v
  <2>5. Keeps(s, v)
    BY <2>3, <2>4, OtherFields, KeepsTrans
  <2>. QED BY <2>5 DEF v, u, ks
<1>. QED BY <1>1, <1>2, <1>3, <1>4 DEF Handler, s

-----------------------------------------------------------------------------
(***************************************************************************)
(* The actions.                                                             *)
(***************************************************************************)

\* The actions that are one handler run by the main loop.
RunStep ==
    \/ \E k \in Kinds, i \in Slots, random \in Random :
          \E cut \in FrameCntCut(k, gtks[k].gtk[i].lifetime) : TimerKey(k, i, cut, random)
    \/ \E k \in Kinds, key \in Keys : InstallGtk(k, key)
    \/ \E given \in [Kinds -> Keys \cup {NoKey}], random \in RandomKeys :
          RevokeGroupKeys(given, random)
    \/ \E i \in Slots : ActiveKeyUpdate(i)

\* Each of them is a call of Handler on the state.
LEMMA RunStepIsHandler ==
    ASSUME TypeOK, RunStep
    PROVE  \E t : Handler(t) /\ Become(t)
<1>1. \A k \in Kinds, left \in Nat : FrameCntCut(k, left) \subseteq Nat
  BY DEF FrameCntCut
<1>2. Random \subseteq Keys
  BY DEF Random
<1>3. \A k \in Kinds, i \in Slots : gtks[k].gtk[i].lifetime \in Nat
  BY DEF TypeOK, KeySet, GtkEntry
<1>4. ASSUME NEW k \in Kinds, NEW i \in Slots, NEW random \in Random,
             NEW cut \in FrameCntCut(k, gtks[k].gtk[i].lifetime), TimerKey(k, i, cut, random)
      PROVE  \E t : Handler(t) /\ Become(t)
  <2> DEFINE t == SlowTimerKey(Here, k, i, cut, random)
  <2>1. cut \in Nat /\ random \in Keys
    BY <1>1, <1>2, <1>3
  <2>2. Become(t)
    BY <1>4 DEF TimerKey
  <2>3. Handler(t)
    BY <2>1 DEF Handler
  <2>. QED BY <2>2, <2>3
<1>5. ASSUME NEW k \in Kinds, NEW key \in Keys, InstallGtk(k, key)
      PROVE  \E t : Handler(t) /\ Become(t)
  <2> DEFINE t == NetworkKeysFromGtksSet([Here EXCEPT !.gtks[k] = GtkInsert(@, key, k)], k)
  <2>1. Become(t)
    BY <1>5 DEF InstallGtk
  <2>2. Handler(t)
    BY DEF Handler
  <2>. QED BY <2>1, <2>2
<1>6. ASSUME NEW given \in [Kinds -> Keys \cup {NoKey}], NEW random \in RandomKeys,
             RevokeGroupKeys(given, random)
      PROVE  \E t : Handler(t) /\ Become(t)
  <2>1. Become(RevokeAll(Here, given, random))
    BY <1>6 DEF RevokeGroupKeys
  <2>2. random \in [Kinds -> Keys]
    BY <1>2 DEF RandomKeys
  <2>3. Handler(RevokeAll(Here, given, random))
    BY <2>2 DEF Handler
  <2>. QED BY <2>1, <2>3
<1>7. ASSUME NEW i \in Slots, ActiveKeyUpdate(i)
      PROVE  \E t : Handler(t) /\ Become(t)
  <2> DEFINE t == NetworkKeyIndexSet(
                      [Here EXCEPT !.gtks["gtk"] = StatusActiveSet(@, i)], "gtk", i)
  <2>1. Become(t) /\ "gtk" \in Kinds
    BY <1>7 DEF ActiveKeyUpdate
  <2>2. Handler(t)
    BY <2>1 DEF Handler
  <2>. QED BY <2>1, <2>2
<1>. QED BY <1>4, <1>5, <1>6, <1>7 DEF RunStep

\* The slow timer stays within its round and the frame counter timer in range.
LEMMA RunStepTimers ==
    ASSUME TypeOK, RunStep
    PROVE  /\ timer' \in TimerPoints /\ cntTimer' \in 1..FrameCntTimer
           /\ restarts' = restarts /\ mode = "run" /\ mode' = "run"
           /\ silentCut' \subseteq Kinds
<1>1. \A k \in Kinds, i \in Slots : After(k, i) \in TimerPoints
  BY GtkNumAssumption DEF After, TimerPoints, NumKeys, Slots
<1>2. \A k \in Kinds, i \in Slots : FrameCntTimerNext(k, i) \in 1..FrameCntTimer
  BY BoundsAssumption DEF FrameCntTimerNext, TypeOK
<1>3. ASSUME NEW k \in Kinds, NEW i \in Slots, NEW cut, NEW random,
             TimerKey(k, i, cut, random)
      PROVE  /\ timer' \in TimerPoints /\ cntTimer' \in 1..FrameCntTimer
             /\ restarts' = restarts /\ mode = "run" /\ mode' = "run"
             /\ silentCut' \subseteq Kinds
  BY <1>1, <1>2, <1>3 DEF TimerKey, StillSilent, TypeOK
<1>4. ASSUME \/ \E k \in Kinds, key \in Keys : InstallGtk(k, key)
             \/ \E given \in [Kinds -> Keys \cup {NoKey}], random \in RandomKeys :
                   RevokeGroupKeys(given, random)
             \/ \E i \in Slots : ActiveKeyUpdate(i)
      PROVE  /\ timer' \in TimerPoints /\ cntTimer' \in 1..FrameCntTimer
             /\ restarts' = restarts /\ mode = "run" /\ mode' = "run"
             /\ silentCut' \subseteq Kinds
  <2>1. UNCHANGED <<mode, cntTimer, timer, restarts>> /\ mode = "run"
    BY <1>4 DEF InstallGtk, RevokeGroupKeys, ActiveKeyUpdate
  <2>2. silentCut' \subseteq Kinds
    BY <1>4 DEF InstallGtk, RevokeGroupKeys, ActiveKeyUpdate, StillSilent, TypeOK
  <2>. QED BY <2>1, <2>2 DEF TypeOK
<1>. QED BY <1>3, <1>4 DEF RunStep

\* Going down leaves a well typed state behind.
LEMMA DownType ==
    ASSUME NEW d \in DiskType, Down(d)
    PROVE  /\ gtks' \in [Kinds -> KeySet] /\ next' \in [Kinds -> KeySet]
           /\ instReq' \in [Kinds -> BOOLEAN] /\ cntTimer' \in 1..FrameCntTimer
           /\ mac' \in [Kinds -> [Slots -> Keys \cup {NoKey}]]
           /\ send' \in [Kinds -> Slots \cup {None}] /\ pend' \in PendType
           /\ disk' = d /\ wrote' \in BOOLEAN /\ timer' \in TimerPoints
           /\ silentCut' \subseteq Kinds
           /\ \A k \in Kinds : WellFormed(gtks'[k].gtk)
<1>1. GtksInit \in KeySet /\ WellFormed(GtksInit.gtk)
  BY EmptyTypes DEF GoodSet
<1>2. FrameCntTimer \in 1..FrameCntTimer
  BY BoundsAssumption
<1>. QED BY <1>1, <1>2, PendingType DEF Down, TimerPoints

\* What a kill in the middle of a write leaves is a file of the right form.
LEMMA TornGood ==
    ASSUME NEW d \in DiskType, NEW n \in Slots
    PROVE  /\ Torn(d, n) \in DiskType
           /\ \A k \in Kinds : WellFormed(d.keys[k]) => WellFormed(Torn(d, n).keys[k])
<1>1. EmptyEntry \in GtkEntry /\ ~EmptyEntry.set /\ EmptyEntry.status = "new"
  BY GtkNumAssumption DEF EmptyEntry, GtkEntry, Statuses, Slots
<1>2. \A k \in Kinds, i \in Slots :
         Torn(d, n).keys[k][i] \in {d.keys[k][i], EmptyEntry}
  BY DEF Torn
<1>3. Torn(d, n) \in DiskType
  BY <1>1 DEF Torn, DiskType
<1>4. \A k \in Kinds : WellFormed(d.keys[k]) => WellFormed(Torn(d, n).keys[k])
  BY <1>1, <1>2 DEF WellFormed, DistinctOrders, OneActive, ActiveIsSet
<1>. QED BY <1>3, <1>4

\* The state is well typed at first and every step keeps it so.
LEMMA InitType == Init => TypeOK
<1>1. GtksInit \in KeySet
  BY EmptyTypes DEF GoodSet
<1>2. EmptyEntry \in GtkEntry
  BY GtkNumAssumption DEF EmptyEntry, GtkEntry, Statuses, Slots
<1>3. NoDisk \in DiskType
  BY <1>2 DEF NoDisk, DiskType
<1>4. FrameCntTimer \in 1..FrameCntTimer /\ 0 \in 0..MaxRestarts
  BY BoundsAssumption
<1>. QED BY <1>1, <1>3, <1>4, PendingType DEF Init, TypeOK, TimerPoints

\* No boot puts the keys of a file between keys forced by the configuration.
NoMerge == Forced = NoForced \/ (mode \in {"down", "stopped"} => ~disk.exists)

\* What a step does to the key sets, the file and the MAC, given that the
\* state is well typed: the types stay; well formed tables stay well formed;
\* a step that ends in mode "run" ends with the MAC in step if it began so.
LEMMA StepKeeps ==
    ASSUME TypeOK, [Next]_vars
    PROVE  /\ TypeOK'
           /\ NoMerge /\ Good(Here)
              => \A k \in Kinds : WellFormed(gtks'[k].gtk) /\ WellFormed(disk'.keys[k])
           /\ MacInSync => MacInSync'
<1> DEFINE Formed == \A k \in Kinds : WellFormed(gtks[k].gtk) /\ WellFormed(disk.keys[k])
           FormedNext == \A k \in Kinds :
                             WellFormed(gtks'[k].gtk) /\ WellFormed(disk'.keys[k])
           Goal == /\ TypeOK'
                   /\ NoMerge /\ Formed => FormedNext
                   /\ MacInSync => MacInSync'
<1>0. /\ Here \in StateType /\ (Good(Here) <=> Formed)
      /\ Here.gtks = gtks /\ Here.mac = mac /\ Here.disk = disk
  BY HereType DEF Here, Good
<1>1. ASSUME NEW seconds \in 0..MaxDowntime, Boot(seconds) PROVE Goal
  <2> DEFINE d == Aged(disk, seconds)
             t == AuthInit(d, mode = "down")
  <2>1. seconds \in Nat /\ disk \in DiskType
    BY BoundsAssumption DEF TypeOK
  <2>2. d \in DiskType /\ \A k \in Kinds : WellFormed(disk.keys[k]) => WellFormed(d.keys[k])
    BY <2>1, AgedGood
  <2>9. d.exists = disk.exists
    BY <2>1 DEF Aged, DiskType
  <2> HIDE DEF d
  <2>3. (mode = "down") \in BOOLEAN
    OBVIOUS
  <2>4. /\ t \in StateType
        /\ (Forced = NoForced \/ ~d.exists) /\ (\A k \in Kinds : WellFormed(d.keys[k]))
           => Good(t)
    BY <2>2, <2>3, AuthInitGood
  <2>5. Become(t)
    BY <1>1 DEF Boot, d
  <2> HIDE DEF t
  <2>6. mode' = "init" /\ cntTimer' = FrameCntTimer /\ UNCHANGED <<timer, restarts, silentCut>>
    BY <1>1 DEF Boot
  <2>7. TypeOK'
    BY <2>4, <2>5, <2>6, BecomeType, BoundsAssumption DEF TypeOK
  <2>10. NoMerge => Forced = NoForced \/ ~d.exists
    BY <1>1, <2>9 DEF NoMerge, Boot
  <2>8. NoMerge /\ Formed => FormedNext
    BY <2>2, <2>4, <2>5, <2>10, BecomeType DEF Good
  <2>. QED BY <2>6, <2>7, <2>8 DEF MacInSync
<1>2. ASSUME NEW random \in RandomKeys, Start(random) PROVE Goal
  <2> DEFINE t == StartAll(Here, random)
  <2>1. random \in [Kinds -> Keys]
    BY DEF RandomKeys, Random
  <2>2. t \in StateType /\ (Good(Here) => Good(t)) /\ Synced(t)
    BY <1>0, <2>1, StartAllGood
  <2>3. Become(t)
    BY <1>2 DEF Start
  <2> HIDE DEF t
  <2>4. mode' = "run" /\ UNCHANGED <<cntTimer, timer, restarts, silentCut>>
    BY <1>2 DEF Start
  <2>5. TypeOK'
    BY <2>2, <2>3, <2>4, BecomeType DEF TypeOK
  <2>6. Formed => FormedNext
    BY <1>0, <2>2, <2>3, BecomeType DEF Good
  <2>7. MacInSync'
    BY <2>2, <2>3, BecomeType DEF MacInSync, Synced
  <2>. QED BY <2>5, <2>6, <2>7
<1>3. ASSUME SlowTimer PROVE Goal
  <2>1. /\ Aged(disk, 1) \in DiskType
        /\ \A k \in Kinds : WellFormed(disk.keys[k]) => WellFormed(Aged(disk, 1).keys[k])
    BY AgedGood DEF TypeOK
  <2>2. FirstPoint \in TimerPoints
    <3>1. 0 \in Slots
      BY GtkNumAssumption DEF Slots
    <3>2. "gtk" \in Kinds \/ "lgtk" \in Kinds
      BY KindsAssumption
    <3>. QED BY <3>1, <3>2 DEF FirstPoint, TimerPoints
  <2>6. pend' \in PendType
    BY <1>3, BoundsAssumption DEF SlowTimer, PanConfigInTime, TypeOK, PendType
  <2>3. TypeOK'
    BY <1>3, <2>1, <2>2, <2>6 DEF SlowTimer, TypeOK
  <2>4. Formed => FormedNext
    BY <1>3, <2>1 DEF SlowTimer
  <2>5. MacInSync => MacInSync'
    BY <1>3 DEF SlowTimer, MacInSync
  <2>. QED BY <2>3, <2>4, <2>5
<1>4. ASSUME RunStep PROVE Goal
  <2>1. PICK t : Handler(t) /\ Become(t)
    BY <1>4, RunStepIsHandler
  <2>2. Keeps(Here, t)
    BY <1>0, <2>1, HandlerKeeps
  <2>3. t \in StateType
    BY <2>2 DEF Keeps
  <2>4. /\ timer' \in TimerPoints /\ cntTimer' \in 1..FrameCntTimer
        /\ restarts' = restarts /\ mode = "run" /\ mode' = "run" /\ silentCut' \subseteq Kinds
    BY <1>4, RunStepTimers
  <2>5. TypeOK'
    BY <2>1, <2>3, <2>4, BecomeType DEF TypeOK
  <2>6. Formed => FormedNext
    BY <1>0, <2>1, <2>2, <2>3, BecomeType DEF Good, Keeps
  <2>7. MacInSync => Synced(Here)
    BY <1>0, <2>4 DEF MacInSync, Synced
  <2>8. MacInSync => MacInSync'
    BY <2>1, <2>2, <2>3, <2>7, BecomeType DEF MacInSync, Synced, Keeps
  <2>. QED BY <2>5, <2>6, <2>8
<1>5. ASSUME Stop PROVE Goal
  <2> DEFINE t == NwInfoUpdatedCheck(Here)
  <2>1. t \in StateType /\ (Good(Here) => Good(t))
    BY <1>0, NwInfoUpdatedCheckKeeps DEF Keeps
  <2>2. Down(t.disk) /\ mode' = "stopped" /\ restarts < MaxRestarts /\ restarts' = restarts + 1
    BY <1>5 DEF Stop
  <2> HIDE DEF t
  <2>3. t.disk \in DiskType /\ (Good(t) => \A k \in Kinds : WellFormed(t.disk.keys[k]))
    BY <2>1 DEF StateType, Good
  <2>4. TypeOK'
    BY <2>2, <2>3, DownType, BoundsAssumption DEF TypeOK
  <2>5. Formed => FormedNext
    BY <1>0, <2>1, <2>2, <2>3, DownType
  <2>. QED BY <2>2, <2>4, <2>5 DEF MacInSync
<1>6. ASSUME Crash PROVE Goal
  <2>1. mode' = "down" /\ restarts < MaxRestarts /\ restarts' = restarts + 1
    BY <1>6 DEF Crash
  <2>2. disk \in DiskType
    BY DEF TypeOK
  <2>3. PICK d \in {disk} \cup {Torn(disk, n) : n \in Slots} : Down(d)
    BY <1>6 DEF Crash
  <2>4. d \in DiskType /\ \A k \in Kinds : WellFormed(disk.keys[k]) => WellFormed(d.keys[k])
    BY <2>2, TornGood
  <2>5. TypeOK'
    BY <2>1, <2>3, <2>4, DownType, BoundsAssumption DEF TypeOK
  <2>6. Formed => FormedNext
    BY <2>3, <2>4, DownType
  <2>. QED BY <2>1, <2>5, <2>6 DEF MacInSync
<1>7. ASSUME PanConfigSend \/ PanConfigConfirm PROVE Goal
  <2>1. pend' \in PendType
    BY <1>7, PendingType DEF PanConfigSend, PanConfigConfirm, TypeOK, PendType
  <2>2. send' \in [Kinds -> Slots \cup {None}]
    BY <1>7 DEF PanConfigSend, PanConfigConfirm, TypeOK, PendType
  <2>3. TypeOK'
    BY <1>7, <2>1, <2>2 DEF PanConfigSend, PanConfigConfirm, TypeOK
  <2>4. (Formed => FormedNext) /\ (MacInSync => MacInSync')
    BY <1>7 DEF PanConfigSend, PanConfigConfirm, MacInSync
  <2>. QED BY <2>3, <2>4
<1>8. ASSUME UNCHANGED vars PROVE Goal
  BY <1>8 DEF vars, TypeOK, MacInSync
<1>9. Goal
  BY <1>1, <1>2, <1>3, <1>4, <1>5, <1>6, <1>7, <1>8 DEF Next, RunStep
<1>. QED BY <1>0, <1>9

\* Only a stop or a crash, which counts as a restart, ends the daemon.
LEMMA ModeStep ==
    ASSUME TypeOK, [Next]_vars, ~(restarts < MaxRestarts)
    PROVE  mode' \in {"init", "run"} \/ (mode' = mode /\ disk' = disk)
<1>1. ASSUME RunStep PROVE mode' = "run"
  BY <1>1, RunStepTimers
<1>2. ASSUME SlowTimer \/ PanConfigSend \/ PanConfigConfirm PROVE mode' = "run"
  BY <1>2 DEF SlowTimer, PanConfigSend, PanConfigConfirm
<1>3. ASSUME NEW seconds \in 0..MaxDowntime, Boot(seconds) PROVE mode' = "init"
  BY <1>3 DEF Boot
<1>4. ASSUME NEW random \in RandomKeys, Start(random) PROVE mode' = "run"
  BY <1>4 DEF Start
<1>5. ASSUME Stop \/ Crash PROVE FALSE
  BY <1>5 DEF Stop, Crash
<1>6. ASSUME UNCHANGED vars PROVE mode' = mode /\ disk' = disk
  BY <1>6 DEF vars
<1>. QED BY <1>1, <1>2, <1>3, <1>4, <1>5, <1>6 DEF Next, RunStep

-----------------------------------------------------------------------------
(***************************************************************************)
(* The theorems.                                                            *)
(***************************************************************************)

\* Every slot index, install order, lifetime and status stays in range over
\* every sequence of installs, rotations, revocations, crashes and restarts:
\* no table of the authenticator, the MAC or the file is read or written
\* outside its slots.
THEOREM TypeCorrect == Spec => []TypeOK
<1>1. TypeOK /\ [Next]_vars => TypeOK'
  BY StepKeeps
<1>. QED BY <1>1, InitType, PTL DEF Spec

\* From the moment the authenticator has started, the MAC holds exactly its
\* keys: ws_pae_auth_network_keys_from_gtks_set() is called wherever a key
\* is installed, expires or is revoked.
THEOREM MacAlwaysInSync == Spec => []MacInSync
<1>1. Init => MacInSync
  BY DEF Init, MacInSync
<1>2. TypeOK /\ MacInSync /\ [Next]_vars => MacInSync'
  BY StepKeeps
<1>. QED BY <1>1, <1>2, TypeCorrect, PTL DEF Spec

\* The key tables in memory and in the file are well formed.
TablesFormed ==
    \A k \in Kinds : WellFormed(gtks[k].gtk) /\ WellFormed(disk.keys[k])

\* Without keys forced by the configuration the tables stay well formed over
\* crashes, torn writes and restarts, and with forced keys until a restart puts
\* the keys of the file between them.
LEMMA TablesAlwaysFormed ==
    ASSUME Forced = NoForced \/ MaxRestarts = 0
    PROVE  Spec => []TablesFormed
<1>1. Init => TablesFormed /\ NoMerge
  <2>1. WellFormed(GtksInit.gtk)
    BY EmptyTypes DEF GoodSet
  <2>2. \A k \in Kinds : NoDisk.keys[k] = GtksInit.gtk
    BY DEF NoDisk, GtksInit
  <2>3. ~NoDisk.exists
    BY DEF NoDisk
  <2>. QED BY <2>1, <2>2, <2>3 DEF Init, TablesFormed, NoMerge
<1>2. TypeOK /\ NoMerge /\ TablesFormed /\ [Next]_vars => TablesFormed'
  <2>1. TablesFormed <=> Good(Here)
    BY DEF TablesFormed, Good, Here
  <2>2. SUFFICES ASSUME TypeOK, NoMerge, TablesFormed, [Next]_vars PROVE TablesFormed'
    OBVIOUS
  <2>. QED BY <2>1, <2>2, StepKeeps DEF TablesFormed
<1>3. TypeOK /\ NoMerge /\ [Next]_vars => NoMerge'
  <2> SUFFICES ASSUME TypeOK, NoMerge, MaxRestarts = 0, [Next]_vars PROVE NoMerge'
    BY DEF NoMerge
  <2>1. ~(restarts < MaxRestarts)
    BY DEF TypeOK
  <2>2. mode' \in {"init", "run"} \/ (mode' = mode /\ disk' = disk)
    BY <2>1, ModeStep
  <2>. QED BY <2>2 DEF NoMerge
<1>. QED BY <1>1, <1>2, <1>3, TypeCorrect, PTL DEF Spec

\* No two keys of a set ever share an install order, whatever was written to
\* the file before a crash and however long the daemon was down: the first, the
\* second and the last key in install order are one key each.
THEOREM KeyTablesFormed ==
    ASSUME Forced = NoForced \/ MaxRestarts = 0
    PROVE  Spec => []InstallOrderDistinct
<1>1. TablesFormed => InstallOrderDistinct
  BY DEF TablesFormed, WellFormed, InstallOrderDistinct
<1>. QED BY <1>1, TablesAlwaysFormed, PTL

\* Nor are two keys of a set active, and an active key is set: installs,
\* activations, revocations, torn files and restarts leave one key to send with.
THEOREM OneKeyActive ==
    ASSUME Forced = NoForced \/ MaxRestarts = 0
    PROVE  Spec => []SingleActive
<1>1. TablesFormed => SingleActive
  BY DEF TablesFormed, WellFormed, SingleActive
<1>. QED BY <1>1, TablesAlwaysFormed, PTL

-----------------------------------------------------------------------------
(***************************************************************************)
(* The order in which keys expire.                                          *)
(*                                                                         *)
(* While the slow timer goes round, P are the slots of a kind it has still  *)
(* to visit in this second: what is left to a key there is a second less    *)
(* than its lifetime.  n is the number of slots the kind may use, and Z a    *)
(* slot whose key has no time left and is about to be removed.              *)
(***************************************************************************)
Table == [Slots -> GtkEntry]

Left(g, P, i) == IF i \in P THEN g[i].lifetime - 1 ELSE g[i].lifetime

Earlier(g, i, j) == g[i].set /\ g[j].set /\ g[i].install_order < g[j].install_order

\* An earlier key has no more time left.
InTurn(g, P) == \A i, j \in Slots : Earlier(g, i, j) => Left(g, P, i) <= Left(g, P, j)

\* The keys before the active one are those that were active, there is at most
\* one of these, and it was due for replacement.
OldFirst(g) ==
    \A i, j \in Slots : g[i].set /\ g[j].status = "active" => (g[i].status = "old" <=> Earlier(g, i, j))
OldDue(g, P) == \A i \in Slots : g[i].set /\ g[i].status = "old" => Left(g, P, i) < NewActivationSeconds
OneOld(g) ==
    \A i, j \in Slots : (g[i].set /\ g[j].set /\ g[i].status = "old" /\ g[j].status = "old") => i = j

Numbered(g) == \A i \in Slots : g[i].set => \E j \in Slots : g[j].set /\ g[j].install_order = 0
Alive(g, Z, n) == \A i \in Slots : g[i].set => i < n /\ (i \notin Z => 1 <= g[i].lifetime)

Fit(g, P, Z, n) ==
    /\ g \in Table /\ WellFormed(g)
    /\ InTurn(g, P) /\ OldFirst(g) /\ OldDue(g, P) /\ OneOld(g)
    /\ Numbered(g) /\ Alive(g, Z, n)

LEMMA TableFacts ==
    ASSUME NEW g \in Table
    PROVE  \A i \in Slots : /\ g[i] \in GtkEntry /\ g[i].lifetime \in Nat /\ g[i].install_order \in Nat
                            /\ g[i].status \in Statuses /\ g[i].set \in BOOLEAN /\ i \in Nat
<1>1. ASSUME NEW i \in Slots
      PROVE  /\ g[i] \in GtkEntry /\ g[i].lifetime \in Nat /\ g[i].install_order \in Slots
             /\ g[i].status \in Statuses /\ g[i].set \in BOOLEAN
  <2>1. g[i] \in GtkEntry  BY DEF Table
  <2>. QED BY <2>1 DEF GtkEntry
<1>2. Slots \subseteq Nat  BY GtkNumAssumption DEF Slots
<1>. QED BY <1>1, <1>2

LEMMA LeftType ==
    ASSUME NEW g \in Table, NEW P
    PROVE  \A i \in Slots : /\ Left(g, P, i) \in Int /\ Left(g, P, i) <= g[i].lifetime
                            /\ g[i].lifetime - 1 <= Left(g, P, i)
BY TableFacts DEF Left

\* h is g without the key of slot x: the others keep what they have, and their order.
Thinned(g, h, x) ==
    /\ h \in Table
    /\ \A i \in Slots : /\ h[i].set <=> g[i].set /\ i # x
                        /\ h[i].set => /\ h[i].key = g[i].key /\ h[i].lifetime = g[i].lifetime
                                       /\ h[i].status = g[i].status
    /\ \A i, j \in Slots : h[i].set /\ h[j].set => (Earlier(h, i, j) <=> Earlier(g, i, j))

\* Renumbering keeps the order of the keys, and the first is number 0.
LEMMA InstallOrderUpdateOrder ==
    ASSUME NEW ks, GoodSet(ks)
    PROVE  /\ \A i, j \in Slots : Earlier(InstallOrderUpdate(ks).gtk, i, j) <=> Earlier(ks.gtk, i, j)
           /\ Numbered(InstallOrderUpdate(ks).gtk)
<1> DEFINE g == InstallOrderUpdate(ks).gtk
<1>0. ks \in KeySet /\ WellFormed(ks.gtk) /\ ks.gtk \in Table
  BY DEF GoodSet, KeySet, Table
<1>1. \A i \in Slots : ks.gtk[i].install_order \in Nat  BY <1>0, TableFacts
<1>2. Ordered(ks) = SetSlots(ks)
  BY <1>0 DEF Ordered, SetSlots, WellFormed, DistinctOrders, Slots
<1>3. ASSUME NEW i \in SetSlots(ks)
      PROVE  g[i].install_order = Cardinality(Before(ks, i)) /\ Cardinality(Before(ks, i)) \in Nat
  <2>1. i \in Slots /\ ks.gtk[i] \in GtkEntry
    BY <1>0 DEF KeySet, SetSlots
  <2>2. g[i] = [ks.gtk[i] EXCEPT !.install_order = Cardinality(Before(ks, i))]
    BY <1>2, <2>1 DEF InstallOrderUpdate
  <2>3. Before(ks, i) \in SUBSET Slots  BY DEF Before, Ordered, SetSlots
  <2>4. Cardinality(Before(ks, i)) \in Nat  BY <2>3, SlotsFinite
  <2> HIDE DEF g
  <2>. QED BY <2>1, <2>2, <2>4 DEF GtkEntry
<1>4. ASSUME NEW i \in SetSlots(ks), NEW j \in SetSlots(ks),
             ks.gtk[i].install_order < ks.gtk[j].install_order
      PROVE  Cardinality(Before(ks, i)) < Cardinality(Before(ks, j))
  <2>1. i \in Slots /\ j \in Slots
    BY DEF SetSlots
  <2>2. i \in Before(ks, j) /\ i \notin Before(ks, i)
    BY <1>1, <1>2, <1>4, <2>1 DEF Before
  <2>3. Before(ks, i) \in SUBSET Before(ks, j)
    <3> SUFFICES ASSUME NEW x \in Before(ks, i) PROVE x \in Before(ks, j)
      OBVIOUS
    <3>1. x \in Slots /\ x \in Ordered(ks) /\ ks.gtk[x].install_order < ks.gtk[i].install_order
      BY <1>2 DEF Before, SetSlots
    <3>. QED BY <3>1, <1>1, <1>4, <2>1 DEF Before
  <2>4. Before(ks, j) \in SUBSET Slots
    BY DEF Before, Ordered, SetSlots
  <2>. QED BY <2>2, <2>3, <2>4, ProperSubsetSmaller
<1>5. \A i \in Slots : g[i].set = ks.gtk[i].set
  BY <1>0, InstallOrderUpdateType DEF SameKeys
<1> HIDE DEF g
<1>6. ASSUME NEW i \in Slots, NEW j \in Slots PROVE Earlier(g, i, j) <=> Earlier(ks.gtk, i, j)
  <2>1. CASE ~(ks.gtk[i].set /\ ks.gtk[j].set)  BY <2>1, <1>5 DEF Earlier
  <2>2. CASE ks.gtk[i].set /\ ks.gtk[j].set
    <3>1. i \in SetSlots(ks) /\ j \in SetSlots(ks)  BY <2>2 DEF SetSlots
    <3> DEFINE a == ks.gtk[i].install_order
               b == ks.gtk[j].install_order
               c == Cardinality(Before(ks, i))
               d == Cardinality(Before(ks, j))
    <3>2. /\ a \in Nat /\ b \in Nat /\ c \in Nat /\ d \in Nat
          /\ (a < b => c < d) /\ (b < a => d < c) /\ (a = b => i = j)
      BY <1>0, <1>1, <1>3, <1>4, <2>2, <3>1 DEF WellFormed, DistinctOrders
    <3>3. i = j => c = d  OBVIOUS
    <3>4. g[i].install_order = c /\ g[j].install_order = d  BY <1>3, <3>1
    <3>5. c < d <=> a < b
      <4> HIDE DEF a, b, c, d
      <4>. QED BY <3>2, <3>3
    <3>. QED BY <1>5, <2>2, <3>4, <3>5 DEF Earlier
  <2>. QED BY <2>1, <2>2
<1>7. Numbered(g)
  <2> SUFFICES ASSUME NEW i \in Slots, g[i].set
               PROVE  \E j \in Slots : g[j].set /\ g[j].install_order = 0
    BY DEF Numbered
  <2> DEFINE S == {ks.gtk[j].install_order : j \in SetSlots(ks)}
  <2>1. i \in SetSlots(ks) /\ SetSlots(ks) \in SUBSET Slots  BY <1>5 DEF SetSlots
  <2>2. S \in SUBSET Nat /\ S # {}  BY <1>1, <2>1
  <2>3. PICK m \in S : \A x \in S : m <= x
    <3> HIDE DEF S
    <3>. QED BY <2>2, LeastElement
  <2>4. PICK j \in SetSlots(ks) : ks.gtk[j].install_order = m  BY <2>3
  <2>5. Before(ks, j) = {}
    <3> SUFFICES ASSUME NEW x \in Before(ks, j) PROVE FALSE  OBVIOUS
    <3>1. x \in SetSlots(ks) /\ ks.gtk[x].install_order < m  BY <1>2, <2>4 DEF Before
    <3>2. m <= ks.gtk[x].install_order /\ ks.gtk[x].install_order \in Nat /\ m \in Nat
      BY <1>1, <2>1, <2>2, <2>3, <3>1
    <3>. QED BY <3>1, <3>2
  <2>6. Cardinality(Before(ks, j)) = 0  BY <2>5, FS_EmptySet
  <2>7. g[j].install_order = 0 /\ j \in Slots /\ g[j].set  BY <1>3, <1>5, <2>4, <2>6 DEF SetSlots
  <2>. QED BY <2>7
<1>. QED BY <1>6, <1>7 DEF g

\* Removing a key keeps the order of the others.
LEMMA GtkClearThins ==
    ASSUME NEW ks, GoodSet(ks), NEW x \in Slots
    PROVE  LET h == GtkClear(ks, x).gtk
           IN  Thinned(ks.gtk, h, x) /\ WellFormed(h) /\ Numbered(h)
<1> DEFINE e == [gtk |-> [ks.gtk EXCEPT ![x] = EmptyEntry], updated |-> TRUE]
           h == GtkClear(ks, x).gtk
<1>0. ks \in KeySet /\ WellFormed(ks.gtk)
  BY DEF GoodSet
<1>1. e \in KeySet
  BY <1>0, EmptyTypes DEF KeySet
<1>2. /\ ~e.gtk[x].set /\ e.gtk[x].status = "new"
      /\ \A j \in Slots \ {x} : e.gtk[j] = ks.gtk[j]
  BY <1>0 DEF KeySet, EmptyEntry
<1>3. GtkClear(ks, x) = InstallOrderUpdate(e)
  BY DEF GtkClear
<1> HIDE DEF e
<1>4. GoodSet(e)
  BY <1>0, <1>1, <1>2 DEF GoodSet, WellFormed, DistinctOrders, OneActive, ActiveIsSet
<1>5. /\ \A i, j \in Slots : Earlier(h, i, j) <=> Earlier(e.gtk, i, j)
      /\ Numbered(h)
  BY <1>3, <1>4, InstallOrderUpdateOrder
<1>6. /\ h \in Table /\ SameKeys(h, e.gtk)
      /\ \A i \in Slots : h[i].status = e.gtk[i].status /\ h[i].lifetime = e.gtk[i].lifetime
  BY <1>1, <1>3, InstallOrderUpdateType DEF KeySet, Table
<1>7. WellFormed(h)  BY GtkClearGood DEF GoodSet
<1> HIDE DEF h
<1>8. \A i \in Slots : h[i].set = e.gtk[i].set /\ h[i].key = e.gtk[i].key
  BY <1>6 DEF SameKeys
<1>9. ks.gtk \in Table  BY <1>0 DEF KeySet, Table
<1>10. ASSUME NEW i \in Slots
       PROVE  /\ h[i].set <=> ks.gtk[i].set /\ i # x
              /\ h[i].set => /\ h[i].key = ks.gtk[i].key /\ h[i].lifetime = ks.gtk[i].lifetime
                             /\ h[i].status = ks.gtk[i].status
  BY <1>2, <1>6, <1>8
<1>11. ASSUME NEW i \in Slots, NEW j \in Slots, h[i].set, h[j].set
       PROVE  Earlier(h, i, j) <=> Earlier(ks.gtk, i, j)
  <2>1. i # x /\ j # x  BY <1>10, <1>11
  <2>2. e.gtk[i] = ks.gtk[i] /\ e.gtk[j] = ks.gtk[j]  BY <1>2, <2>1
  <2>. QED BY <1>5, <2>2 DEF Earlier
<1>12. Thinned(ks.gtk, h, x)  BY <1>6, <1>10, <1>11 DEF Thinned
<1>. QED BY <1>5, <1>7, <1>12 DEF h

\* What is left after a removal is in order if it was before.
LEMMA FitThinned ==
    ASSUME NEW g, NEW h, NEW x \in Slots, NEW P, NEW Z, NEW n,
           Fit(g, P, Z, n), Thinned(g, h, x), WellFormed(h), Numbered(h)
    PROVE  Fit(h, P, Z \ {x}, n)
<1>1. /\ g \in Table /\ WellFormed(g) /\ InTurn(g, P) /\ OldFirst(g) /\ OldDue(g, P) /\ OneOld(g)
      /\ Alive(g, Z, n)
  BY DEF Fit
<1>2. /\ h \in Table
      /\ \A i \in Slots : /\ h[i].set <=> g[i].set /\ i # x
                          /\ h[i].set => /\ h[i].key = g[i].key /\ h[i].lifetime = g[i].lifetime
                                         /\ h[i].status = g[i].status
      /\ \A i, j \in Slots : h[i].set /\ h[j].set => (Earlier(h, i, j) <=> Earlier(g, i, j))
  BY DEF Thinned
<1>3. \A i \in Slots : h[i].set => Left(h, P, i) = Left(g, P, i)  BY <1>2 DEF Left
<1>4. InTurn(h, P)  BY <1>1, <1>2, <1>3 DEF InTurn, Earlier
<1>5. OldFirst(h)
  <2> SUFFICES ASSUME NEW i \in Slots, NEW j \in Slots, h[i].set, h[j].status = "active"
               PROVE  h[i].status = "old" <=> Earlier(h, i, j)
    BY DEF OldFirst
  <2>1. h[j].set  BY DEF WellFormed, ActiveIsSet
  <2>2. g[i].set /\ g[j].status = "active" /\ h[i].status = g[i].status  BY <1>2, <2>1
  <2>3. g[i].status = "old" <=> Earlier(g, i, j)  BY <1>1, <2>2 DEF OldFirst
  <2>. QED BY <1>2, <2>1, <2>2, <2>3
<1>6. OldDue(h, P) /\ OneOld(h)  BY <1>1, <1>2, <1>3 DEF OldDue, OneOld
<1>7. Alive(h, Z \ {x}, n)  BY <1>1, <1>2 DEF Alive
<1>. QED BY <1>2, <1>4, <1>5, <1>6, <1>7 DEF Fit

\* Changes of the status of keys from new to fresh.
LEMMA FitSameTimes ==
    ASSUME NEW g, NEW h \in Table, NEW P, NEW Z, NEW n, Fit(g, P, Z, n),
           \A i \in Slots : /\ h[i].set = g[i].set /\ h[i].lifetime = g[i].lifetime
                            /\ h[i].install_order = g[i].install_order
                            /\ h[i].status = "active" <=> g[i].status = "active"
                            /\ h[i].status = "old" <=> g[i].status = "old"
    PROVE  Fit(h, P, Z, n)
<1>1. /\ g \in Table /\ WellFormed(g) /\ InTurn(g, P) /\ OldFirst(g) /\ OldDue(g, P) /\ OneOld(g)
      /\ Numbered(g) /\ Alive(g, Z, n)
  BY DEF Fit
<1>2. \A i \in Slots : Left(h, P, i) = Left(g, P, i)  BY DEF Left
<1>3. \A i, j \in Slots : Earlier(h, i, j) <=> Earlier(g, i, j)  BY DEF Earlier
<1>4. WellFormed(h)  BY <1>1 DEF WellFormed, DistinctOrders, OneActive, ActiveIsSet
<1>5. InTurn(h, P) /\ OldFirst(h) /\ OldDue(h, P) /\ OneOld(h)
  BY <1>1, <1>2, <1>3 DEF InTurn, OldFirst, OldDue, OneOld
<1>6. Numbered(h) /\ Alive(h, Z, n)  BY <1>1 DEF Numbered, Alive
<1>. QED BY <1>4, <1>5, <1>6 DEF Fit

\* Making every new key fresh: what changes.
LEMMA StatusAllFreshSetTimes ==
    ASSUME NEW ks \in KeySet
    PROVE  LET h == StatusAllFreshSet(ks).gtk
           IN  /\ h \in Table
               /\ \A i \in Slots : /\ h[i].set = ks.gtk[i].set /\ h[i].lifetime = ks.gtk[i].lifetime
                                   /\ h[i].install_order = ks.gtk[i].install_order
                                   /\ h[i].key = ks.gtk[i].key
                                   /\ h[i].status = "active" <=> ks.gtk[i].status = "active"
                                   /\ h[i].status = "old" <=> ks.gtk[i].status = "old"
<1> DEFINE h == StatusAllFreshSet(ks).gtk
<1>1. h = [i \in Slots |->
              IF ks.gtk[i].set /\ ks.gtk[i].status = "new"
              THEN [ks.gtk[i] EXCEPT !.status = "fresh"]
              ELSE ks.gtk[i]]
  BY DEF StatusAllFreshSet
<1>2. ASSUME NEW i \in Slots
      PROVE  /\ h[i].set = ks.gtk[i].set /\ h[i].lifetime = ks.gtk[i].lifetime
             /\ h[i].install_order = ks.gtk[i].install_order
             /\ h[i].key = ks.gtk[i].key
             /\ h[i].status = "active" <=> ks.gtk[i].status = "active"
             /\ h[i].status = "old" <=> ks.gtk[i].status = "old"
  <2>1. ks.gtk[i] \in GtkEntry
    BY DEF KeySet
  <2>2. h[i] = IF ks.gtk[i].set /\ ks.gtk[i].status = "new"
               THEN [ks.gtk[i] EXCEPT !.status = "fresh"] ELSE ks.gtk[i]
    BY <1>1
  <2> HIDE DEF h
  <2>. QED BY <2>1, <2>2 DEF GtkEntry, Statuses
<1>3. h \in Table  BY StatusAllFreshSetGood DEF KeySet, Table
<1>. QED BY <1>2, <1>3

LEMMA StatusAllFreshSetFit ==
    ASSUME NEW ks \in KeySet, NEW P, NEW Z, NEW n, Fit(ks.gtk, P, Z, n)
    PROVE  Fit(StatusAllFreshSet(ks).gtk, P, Z, n)
<1> DEFINE h == StatusAllFreshSet(ks).gtk
<1>1. /\ h \in Table
      /\ \A i \in Slots : /\ h[i].set = ks.gtk[i].set /\ h[i].lifetime = ks.gtk[i].lifetime
                          /\ h[i].install_order = ks.gtk[i].install_order
                          /\ h[i].status = "active" <=> ks.gtk[i].status = "active"
                          /\ h[i].status = "old" <=> ks.gtk[i].status = "old"
  BY StatusAllFreshSetTimes
<1> HIDE DEF h
<1>2. Fit(h, P, Z, n)  BY <1>1, FitSameTimes
<1>. QED BY <1>2 DEF h

\* h is g with a new key in slot x, after all others, and the old one of that slot gone.
Added(g, h, x, key, lifetime) ==
    /\ h \in Table
    /\ h[x].set /\ h[x].key = key /\ h[x].lifetime = lifetime /\ h[x].status = "new"
    /\ \A i \in Slots \ {x} :
          /\ h[i].set <=> g[i].set
          /\ h[i].set => /\ h[i].key = g[i].key /\ h[i].lifetime = g[i].lifetime
                         /\ h[i].status = g[i].status /\ Earlier(h, i, x)
    /\ \A i, j \in Slots \ {x} : h[i].set /\ h[j].set => (Earlier(h, i, j) <=> Earlier(g, i, j))

LEMMA GtkSetAdds ==
    ASSUME NEW ks, GoodSet(ks), NEW x \in Slots, NEW key \in Keys \cup {NoKey}, NEW lifetime \in Nat
    PROVE  LET h == GtkSet(ks, x, key, lifetime).gtk
           IN  \/ GtkSet(ks, x, key, lifetime) = ks
               \/ Added(ks.gtk, h, x, key, lifetime) /\ WellFormed(h) /\ Numbered(h)
<1> DEFINE cleared == GtkClear(ks, x)
           c == cleared.gtk
           n == InstallOrderLast(cleared)
           entry == [set |-> TRUE, key |-> key, lifetime |-> lifetime,
                     status |-> "new", install_order |-> n % GTK_NUM]
           new == [gtk |-> [cleared.gtk EXCEPT ![x] = entry], updated |-> TRUE]
           h == GtkSet(ks, x, key, lifetime).gtk
<1>1. CASE ks.gtk[x].set /\ ks.gtk[x].key = key
  BY <1>1 DEF GtkSet
<1>2. CASE ~(ks.gtk[x].set /\ ks.gtk[x].key = key)
  <2>1. GtkSet(ks, x, key, lifetime) = new
    BY <1>2 DEF GtkSet
  <2>2. ks \in KeySet  BY DEF GoodSet
  <2>3. /\ GoodSet(GtkSet(ks, x, key, lifetime))
        /\ h \in Table /\ WellFormed(h)
    BY GtkSetGood DEF GoodSet, KeySet, Table
  <2>4. Thinned(ks.gtk, c, x) /\ Numbered(c)
    BY GtkClearThins
  <2>5. GoodSet(cleared) /\ cleared \in KeySet /\ c \in Table /\ ~c[x].set
    BY <2>2, <2>4, GtkClearGood, GtkClearType DEF GoodSet, Thinned
  <2>6. \A j \in SetSlots(cleared) : c[j].install_order < n
    BY <2>5, InstallOrderLastType
  <2>7. \A j \in Slots : c[j].set => c[j].install_order < GTK_NUM - 1
    BY GtkClearGood
  <2>8. n \in Nat /\ n < GTK_NUM /\ (SetSlots(cleared) = {} => n = 0)
    <3>1. n \in Nat  BY <2>5, InstallOrderLastType
    <3>2. CASE SetSlots(cleared) = {}
      BY <3>2, GtkNumAssumption DEF InstallOrderLast
    <3>3. CASE SetSlots(cleared) # {}
      <4> DEFINE last == InstallOrderLastIndex(cleared)
      <4>1. last \in SetSlots(cleared)
        BY <2>5, <3>3, LastIndexIsSet
      <4>2. n = c[last].install_order + 1 /\ last \in Slots /\ c[last].set
        BY <3>3, <4>1 DEF InstallOrderLast, SetSlots
      <4>3. c[last].install_order < GTK_NUM - 1 /\ c[last].install_order \in Nat
        BY <2>5, <2>7, <4>2, TableFacts
      <4> HIDE DEF last, n, c
      <4>. QED BY <3>1, <3>3, <4>2, <4>3, GtkNumAssumption
    <3>. QED BY <3>2, <3>3
  <2>9. n % GTK_NUM = n
    <3> HIDE DEF n
    <3>. QED BY <2>8, GtkNumAssumption
  <2>10. /\ h[x] = entry /\ \A i \in Slots \ {x} : h[i] = c[i]
    BY <2>1, <2>5 DEF Table
  <2>11. /\ h[x].set /\ h[x].key = key /\ h[x].lifetime = lifetime /\ h[x].status = "new"
         /\ h[x].install_order = n
    BY <2>9, <2>10
  <2> HIDE DEF h, c, n, entry, new, cleared
  <2>12. ASSUME NEW i \in Slots \ {x}
         PROVE  /\ h[i].set <=> ks.gtk[i].set
                /\ h[i].set => /\ h[i].key = ks.gtk[i].key /\ h[i].lifetime = ks.gtk[i].lifetime
                               /\ h[i].status = ks.gtk[i].status /\ Earlier(h, i, x)
    <3>1. h[i] = c[i]  BY <2>10
    <3>2. c[i].set => c[i].install_order < n  BY <2>6 DEF SetSlots, c
    <3>. QED BY <2>4, <2>11, <3>1, <3>2 DEF Thinned, Earlier
  <2>13. ASSUME NEW i \in Slots \ {x}, NEW j \in Slots \ {x}, h[i].set, h[j].set
         PROVE  Earlier(h, i, j) <=> Earlier(ks.gtk, i, j)
    <3>1. h[i] = c[i] /\ h[j] = c[j]  BY <2>10
    <3>2. Earlier(h, i, j) <=> Earlier(c, i, j)  BY <3>1 DEF Earlier
    <3>3. c[i].set /\ c[j].set  BY <2>13, <3>1
    <3>. QED BY <2>4, <3>2, <3>3 DEF Thinned
  <2>14. Added(ks.gtk, h, x, key, lifetime)
    BY <2>3, <2>11, <2>12, <2>13 DEF Added
  <2>15. Numbered(h)
    <3>1. CASE SetSlots(cleared) = {}
      BY <2>8, <2>11, <3>1 DEF Numbered
    <3>2. CASE SetSlots(cleared) # {}
      <4>1. PICK i \in Slots : c[i].set  BY <3>2 DEF SetSlots, c
      <4>2. PICK j \in Slots : c[j].set /\ c[j].install_order = 0  BY <2>4, <4>1 DEF Numbered
      <4>3. j # x  BY <2>4, <4>2 DEF Thinned
      <4>. QED BY <2>10, <4>2, <4>3 DEF Numbered
    <3>. QED BY <3>1, <3>2
  <2>. QED BY <2>3, <2>14, <2>15 DEF h
<1>. QED BY <1>1, <1>2

\* A key with more time than any other may be added.
LEMMA FitAdded ==
    ASSUME NEW g, NEW h, NEW x \in Slots, NEW key, NEW lifetime \in Nat, NEW P, NEW Z, NEW n,
           Fit(g, P, Z, n), Added(g, h, x, key, lifetime), WellFormed(h), Numbered(h),
           x < n, 1 <= lifetime, \A i \in Slots : g[i].set => Left(g, P, i) < lifetime
    PROVE  Fit(h, P, Z, n)
<1>1. /\ g \in Table /\ WellFormed(g) /\ InTurn(g, P) /\ OldFirst(g) /\ OldDue(g, P) /\ OneOld(g)
      /\ Alive(g, Z, n)
  BY DEF Fit
<1>2. /\ h \in Table
      /\ h[x].set /\ h[x].key = key /\ h[x].lifetime = lifetime /\ h[x].status = "new"
      /\ \A i \in Slots \ {x} :
            /\ h[i].set <=> g[i].set
            /\ h[i].set => /\ h[i].key = g[i].key /\ h[i].lifetime = g[i].lifetime
                           /\ h[i].status = g[i].status /\ Earlier(h, i, x)
      /\ \A i, j \in Slots \ {x} : h[i].set /\ h[j].set => (Earlier(h, i, j) <=> Earlier(g, i, j))
  BY DEF Added
<1>3. \A i \in Slots \ {x} : h[i].set => Left(h, P, i) = Left(g, P, i)  BY <1>2 DEF Left
<1>4. lifetime - 1 <= Left(h, P, x) /\ Left(h, P, x) \in Int  BY <1>2 DEF Left
<1>5. \A i \in Slots : Left(g, P, i) \in Int  BY <1>1, LeftType
<1>6. \A i \in Slots : ~Earlier(h, x, i)
  <2> SUFFICES ASSUME NEW i \in Slots, Earlier(h, x, i) PROVE FALSE  OBVIOUS
  <2>1. h[x].install_order \in Nat /\ h[i].install_order \in Nat  BY <1>2, TableFacts
  <2>2. i # x  BY <2>1 DEF Earlier
  <2>3. Earlier(h, i, x)  BY <1>2, <2>2 DEF Earlier
  <2>. QED BY <2>1, <2>3 DEF Earlier
<1>7. InTurn(h, P)
  <2> SUFFICES ASSUME NEW i \in Slots, NEW j \in Slots, Earlier(h, i, j)
               PROVE  Left(h, P, i) <= Left(h, P, j)
    BY DEF InTurn
  <2>1. i # x /\ h[i].set /\ h[j].set  BY <1>6 DEF Earlier
  <2>2. CASE j = x
    <3>1. Left(g, P, i) < lifetime  BY <1>2, <2>1
    <3>. QED BY <1>3, <1>4, <1>5, <2>1, <2>2, <3>1
  <2>3. CASE j # x
    <3>1. Earlier(g, i, j)  BY <1>2, <2>1, <2>3
    <3>. QED BY <1>1, <1>3, <2>1, <2>3, <3>1 DEF InTurn
  <2>. QED BY <2>2, <2>3
<1>8. OldFirst(h)
  <2> SUFFICES ASSUME NEW i \in Slots, NEW j \in Slots, h[i].set, h[j].status = "active"
               PROVE  h[i].status = "old" <=> Earlier(h, i, j)
    BY DEF OldFirst
  <2>1. h[j].set /\ j # x  BY <1>2 DEF WellFormed, ActiveIsSet
  <2>2. CASE i = x  BY <1>2, <1>6, <2>2
  <2>3. CASE i # x
    <3>1. g[i].set /\ g[j].status = "active" /\ h[i].status = g[i].status  BY <1>2, <2>1, <2>3
    <3>2. g[i].status = "old" <=> Earlier(g, i, j)  BY <1>1, <3>1 DEF OldFirst
    <3>. QED BY <1>2, <2>1, <2>3, <3>1, <3>2
  <2>. QED BY <2>2, <2>3
<1>9. OldDue(h, P)  BY <1>1, <1>2, <1>3 DEF OldDue
<1>10. OneOld(h)
  <2>1. \A i \in Slots : h[i].set /\ h[i].status = "old" => g[i].set /\ g[i].status = "old"
    BY <1>2
  <2>. QED BY <1>1, <2>1 DEF OneOld
<1>11. Alive(h, Z, n)
  <2>1. \A i \in Slots : g[i].set => i < n /\ (i \notin Z => 1 <= g[i].lifetime)  BY <1>1 DEF Alive
  <2>. QED BY <1>2, <2>1 DEF Alive
<1>. QED BY <1>2, <1>7, <1>8, <1>9, <1>10, <1>11 DEF Fit

\* The conditions under which keys are replaced in turn: the numbers of slots
\* and the order of the points in the life of a key are those of the code's
\* constants and defaults and no key is made active by hand.  Nor is the daemon
\* restarted: a start that drops an expired key of the file leaves a hole in
\* the install orders, and a file written in the middle of a timer round has
\* keys that are one second ahead of the others.
InTimeAssumed ==
    /\ 3 <= LGTK_NUM
    /\ 1 <= RevocationLifetime /\ NewActivationSeconds <= RevocationLifetime
    /\ FrameCntCheck => NewActivationSeconds <= NewInstallReqSeconds
    /\ "active" \notin DbusCalls /\ MaxRestarts = 0
    /\ \A k \in Kinds : \A i \in Slots : NumKeys(IsLgtk(k)) <= i => Forced[k][i] = NoKey

Room(k) == NumKeys(IsLgtk(k))

LEMMA RoomFacts ==
    ASSUME InTimeAssumed, NEW k \in Kinds
    PROVE  Room(k) \in Nat /\ 3 <= Room(k) /\ Room(k) <= GTK_NUM /\ Room(k) <= 4 /\ IsLgtk(k) \in BOOLEAN
BY GtkNumAssumption DEF InTimeAssumed, Room, NumKeys, IsLgtk

LEMMA TimeTypes ==
    /\ NewActivationSeconds \in Nat /\ RevocationLifetime \in Nat /\ NewInstallReqSeconds \in Int
    /\ ExpireOffset \in Nat /\ 1 <= ExpireOffset
<1>1. ExpireOffset \in Nat \ {0} /\ NewActTime \in Nat \ {0} /\ RevocatLifetimeReduct \in Nat \ {0}
      /\ NewInstallReq \in Nat
  BY TimersAssumption
<1>2. ExpireOffset \div NewActTime \in Nat  BY <1>1
<1>3. ExpireOffset \div RevocatLifetimeReduct \in Nat  BY <1>1
<1>4. (NewInstallReq * ExpireOffset) \div 100 \in Int
  <2>1. NewInstallReq * ExpireOffset \in Int  BY <1>1
  <2>. QED BY <2>1
<1>. QED BY <1>1, <1>2, <1>3, <1>4 DEF NewActivationSeconds, RevocationLifetime, NewInstallReqSeconds

\* A new key takes a free slot, or the slot of the key installed last of a full set.
LEMMA InstallIndexFacts ==
    ASSUME InTimeAssumed, NEW ks \in KeySet, NEW k \in Kinds, \A i \in Slots : ks.gtk[i].set => i < Room(k)
    PROVE  LET x == InstallIndex(ks, IsLgtk(k))
           IN  /\ x \in Slots /\ x < Room(k)
               /\ \/ ~ks.gtk[x].set
                  \/ /\ \A j \in SetSlots(ks) : InstalledAfter(ks, x, j)
                     /\ \E p, q \in Slots \ {x} : p # q /\ ks.gtk[p].set /\ ks.gtk[q].set
<1> DEFINE n == NumKeys(IsLgtk(k))
           last == InstallOrderLastIndex(ks)
           from == IF last = None THEN 0 ELSE last
           slot(c) == (from + c) % n
           free == {c \in 0 .. n - 1 : ~ks.gtk[slot(c)].set}
           x == InstallIndex(ks, IsLgtk(k))
<1>1. n \in Nat /\ 3 <= n /\ n <= GTK_NUM /\ n <= 4 /\ IsLgtk(k) \in BOOLEAN /\ n = Room(k)
  BY RoomFacts DEF Room
<1>2. x \in Slots  BY <1>1, InstallIndexType
<1>3. from \in Nat /\ from < n
  BY <1>1, LastIndexIsSet, GtkNumAssumption DEF SetSlots, Slots, None
<1>4. x = IF free = {} THEN from ELSE slot(CHOOSE c \in free : \A d \in free : c <= d)
  BY DEF InstallIndex
<1>5. CASE free # {}
  <2>1. free \in SUBSET Nat  BY <1>1
  <2>2. \E c \in free : \A d \in free : c <= d
    <3> HIDE DEF free
    <3>. QED BY <1>5, <2>1, LeastElement
  <2>3. PICK c \in free : x = slot(c)
    BY <1>4, <1>5, <2>2
  <2>4. slot(c) < n
    <3>1. from + c \in Nat  BY <1>1, <1>3, <2>1
    <3> HIDE DEF from, n
    <3>. QED BY <1>1, <3>1
  <2>. QED BY <1>1, <1>2, <2>3, <2>4
<1>6. CASE free = {}
  <2>1. x = from  BY <1>4, <1>6
  <2>2. \A c \in 0 .. n - 1 : ks.gtk[slot(c)].set  BY <1>6
  <2> DEFINE p == slot(1)
             q == slot(2)
  <2>3. p \in Slots \ {from} /\ q \in Slots \ {from} /\ p # q
    <3>1. p = (from + 1) % n /\ q = (from + 2) % n  OBVIOUS
    <3>2. n \in {3, 4} /\ from \in {0, 1, 2, 3}
      <4> HIDE DEF n, from
      <4>. QED BY <1>1, <1>3
    <3>3. GTK_NUM \in Nat /\ n <= GTK_NUM  BY <1>1, GtkNumAssumption
    <3> HIDE DEF n, from, p, q
    <3>. QED BY <1>3, <3>1, <3>2, <3>3 DEF Slots
  <2>4. ks.gtk[p].set /\ ks.gtk[q].set
    <3>1. 1 \in 0 .. n - 1 /\ 2 \in 0 .. n - 1
      <4> HIDE DEF n
      <4>. QED BY <1>1
    <3>. QED BY <2>2, <3>1
  <2>5. SetSlots(ks) # {}
    <3> HIDE DEF p
    <3>. QED BY <2>3, <2>4 DEF SetSlots
  <2>6. last \in SetSlots(ks) /\ \A j \in SetSlots(ks) : InstalledAfter(ks, last, j)
    BY <2>5, LastIndexIsSet
  <2>7. from = last
    <3>1. last # None
      <4>1. last \in Nat  BY <2>6, GtkNumAssumption DEF SetSlots, Slots
      <4> HIDE DEF last
      <4>. QED BY <4>1 DEF None
    <3>. QED BY <3>1
  <2> HIDE DEF p, q, from, last, free, n
  <2>8. x < Room(k)  BY <1>1, <1>3, <2>1
  <2>9. \A j \in SetSlots(ks) : InstalledAfter(ks, x, j)  BY <2>1, <2>6, <2>7
  <2>10. \E y, z \in Slots \ {x} : y # z /\ ks.gtk[y].set /\ ks.gtk[z].set
    BY <2>1, <2>3, <2>4
  <2>. QED BY <1>2, <2>8, <2>9, <2>10
<1>. QED BY <1>5, <1>6

\* A new key gets more time than any other has left.
LEMMA LastLives ==
    ASSUME NEW ks \in KeySet, NEW P, NEW Z, NEW n, Fit(ks.gtk, P, Z, n)
    PROVE  \A i \in Slots : ks.gtk[i].set => Left(ks.gtk, P, i) < ExpireOffset + InstallOrderLastLifetime(ks)
<1> DEFINE g == ks.gtk
           last == InstallOrderLastIndex(ks)
<1> SUFFICES ASSUME NEW i \in Slots, g[i].set
             PROVE  Left(g, P, i) < ExpireOffset + InstallOrderLastLifetime(ks)
  OBVIOUS
<1>1. g \in Table /\ WellFormed(g) /\ InTurn(g, P)  BY DEF Fit
<1>2. SetSlots(ks) # {} /\ i \in SetSlots(ks)  BY DEF SetSlots
<1>3. last \in SetSlots(ks) /\ \A j \in SetSlots(ks) : InstalledAfter(ks, last, j)
  BY <1>2, LastIndexIsSet
<1>4. InstallOrderLastLifetime(ks) = g[last].lifetime  BY <1>2 DEF InstallOrderLastLifetime
<1> HIDE DEF last
<1>5. last \in Slots /\ g[last].set  BY <1>3 DEF SetSlots
<1>6. /\ Left(g, P, i) \in Int /\ Left(g, P, last) \in Int /\ Left(g, P, last) <= g[last].lifetime
      /\ g[i].install_order \in Nat /\ g[last].install_order \in Nat /\ g[last].lifetime \in Nat
  BY <1>1, <1>5, LeftType, TableFacts
<1>7. Left(g, P, i) <= Left(g, P, last)
  <2>1. CASE i = last  BY <1>6, <2>1
  <2>2. CASE i # last
    <3>1. g[i].install_order # g[last].install_order
      BY <1>1, <1>5, <2>2 DEF WellFormed, DistinctOrders
    <3>2. Earlier(g, i, last)  BY <1>2, <1>3, <1>5, <1>6, <3>1 DEF InstalledAfter, Earlier
    <3>. QED BY <1>1, <1>5, <3>2 DEF InTurn
  <2>. QED BY <2>1, <2>2
<1>. QED BY <1>4, <1>6, <1>7, TimeTypes

\* What is active in g is in its slot in h, with its key and its lifetime.
ActiveKept(g, h) ==
    \A a \in Slots : g[a].status = "active" =>
        h[a].status = "active" /\ h[a].key = g[a].key /\ h[a].lifetime = g[a].lifetime

\* Installing a key keeps the order and takes no place of the active key.
LEMMA GtkInsertFit ==
    ASSUME InTimeAssumed, NEW ks \in KeySet, NEW key \in Keys \cup {NoKey}, NEW k \in Kinds, NEW P, NEW Z,
           Fit(ks.gtk, P, Z, Room(k))
    PROVE  LET h == GtkInsert(ks, key, k).gtk
           IN  /\ Fit(h, P, Z, Room(k)) /\ ActiveKept(ks.gtk, h)
               /\ \A i \in Slots : h[i].status = "active" => ks.gtk[i].status = "active"
               /\ \A i \in Slots : h[i].set /\ h[i].status = "old" => ks.gtk[i].set /\ ks.gtk[i].status = "old"
<1> DEFINE x == InstallIndex(ks, IsLgtk(k))
           life == ExpireOffset + InstallOrderLastLifetime(ks)
           new == GtkSet(ks, x, key, life)
           g == ks.gtk
           n == Room(k)
           h == GtkInsert(ks, key, k).gtk
<1>1. /\ g \in Table /\ WellFormed(g) /\ InTurn(g, P) /\ OldFirst(g) /\ OldDue(g, P) /\ OneOld(g)
      /\ Alive(g, Z, n) /\ GoodSet(ks)
  BY DEF Fit, GoodSet
<1>2. /\ x \in Slots /\ x < n
      /\ \/ ~g[x].set
         \/ /\ \A j \in SetSlots(ks) : InstalledAfter(ks, x, j)
            /\ \E p, q \in Slots \ {x} : p # q /\ g[p].set /\ g[q].set
  <2>1. \A i \in Slots : g[i].set => i < n  BY <1>1 DEF Alive
  <2>. QED BY <2>1, InstallIndexFacts
<1>3. InstallOrderLastLifetime(ks) \in Nat /\ life \in Nat /\ 1 <= life
  BY InstallOrderLastType, TimeTypes
<1>4. \A i \in Slots : g[i].set => Left(g, P, i) < life  BY LastLives
<1>5. g[x].status # "active"
  <2> SUFFICES ASSUME g[x].status = "active" PROVE FALSE  OBVIOUS
  <2>1. g[x].set  BY <1>1, <1>2 DEF WellFormed, ActiveIsSet
  <2>2. PICK p \in Slots \ {x}, q \in Slots \ {x} : p # q /\ g[p].set /\ g[q].set  BY <1>2, <2>1
  <2>3. ASSUME NEW j \in Slots \ {x}, g[j].set PROVE g[j].status = "old"
    <3>1. j \in SetSlots(ks) /\ x \in Slots  BY <1>2, <2>3 DEF SetSlots
    <3>2. g[j].install_order \in Nat /\ g[x].install_order \in Nat  BY <1>1, <3>1, TableFacts
    <3>3. g[j].install_order # g[x].install_order
      BY <1>1, <2>1, <2>3, <3>1 DEF WellFormed, DistinctOrders
    <3>4. InstalledAfter(ks, x, j)  BY <1>2, <2>1, <3>1
    <3>5. Earlier(g, j, x)  BY <2>1, <2>3, <3>2, <3>3, <3>4 DEF InstalledAfter, Earlier
    <3>. QED BY <1>1, <2>3, <3>1, <3>5 DEF OldFirst
  <2>. QED BY <1>1, <2>2, <2>3 DEF OneOld
<1>6. new \in KeySet  BY <1>2, <1>3, GtkSetType
<1>7. h = StatusAllFreshSet(new).gtk  BY DEF GtkInsert
<1>8. \/ new = ks
      \/ Added(g, new.gtk, x, key, life) /\ WellFormed(new.gtk) /\ Numbered(new.gtk)
  BY <1>1, <1>2, <1>3, GtkSetAdds
<1> HIDE DEF new, x, life
<1>9. Fit(new.gtk, P, Z, n)
  <2>1. CASE new = ks  BY <2>1
  <2>2. CASE Added(g, new.gtk, x, key, life) /\ WellFormed(new.gtk) /\ Numbered(new.gtk)
    <3> HIDE DEF g, n
    <3>1. Fit(g, P, Z, n)  BY DEF g, n
    <3>. QED BY <1>2, <1>3, <1>4, <2>2, <3>1, FitAdded
  <2>. QED BY <1>8, <2>1, <2>2
<1>10. /\ ActiveKept(g, new.gtk)
       /\ \A i \in Slots : new.gtk[i].status = "active" => g[i].status = "active"
       /\ \A i \in Slots : new.gtk[i].set /\ new.gtk[i].status = "old" => g[i].set /\ g[i].status = "old"
  <2>1. CASE new = ks  BY <2>1 DEF ActiveKept
  <2>2. CASE Added(g, new.gtk, x, key, life) /\ WellFormed(new.gtk)
    <3> DEFINE f == new.gtk
    <3>1. /\ f[x].status = "new"
          /\ \A i \in Slots \ {x} :
                /\ f[i].set <=> g[i].set
                /\ f[i].set => /\ f[i].key = g[i].key /\ f[i].lifetime = g[i].lifetime
                               /\ f[i].status = g[i].status
      BY <2>2 DEF Added
    <3>2. \A i \in Slots : (f[i].status = "active" => f[i].set) /\ (g[i].status = "active" => g[i].set)
      BY <1>1, <2>2 DEF WellFormed, ActiveIsSet
    <3> HIDE DEF f, g
    <3>3. /\ ActiveKept(g, f)
          /\ \A i \in Slots : f[i].status = "active" => g[i].status = "active"
          /\ \A i \in Slots : f[i].set /\ f[i].status = "old" => g[i].set /\ g[i].status = "old"
      BY <1>5, <3>1, <3>2 DEF ActiveKept
    <3>. QED BY <3>3 DEF f
  <2>. QED BY <1>8, <2>1, <2>2
<1>11. Fit(h, P, Z, n)  BY <1>6, <1>7, <1>9, StatusAllFreshSetFit
<1>12. \A i \in Slots : /\ h[i].set = new.gtk[i].set /\ h[i].lifetime = new.gtk[i].lifetime
                        /\ h[i].key = new.gtk[i].key
                        /\ h[i].status = "active" <=> new.gtk[i].status = "active"
                        /\ h[i].status = "old" <=> new.gtk[i].status = "old"
  BY <1>6, <1>7, StatusAllFreshSetTimes
<1> HIDE DEF h, g, n
<1>13. ActiveKept(g, h)  BY <1>10, <1>12 DEF ActiveKept
<1>. QED BY <1>10, <1>11, <1>12, <1>13 DEF h, g, n

\* What is active in g is in its slot in h, with its key.
ActiveHere(g, h) ==
    \A a \in Slots : g[a].status = "active" => h[a].status = "active" /\ h[a].key = g[a].key

\* No key is or was active.
NoneUsed(g) == \A i \in Slots : g[i].set => g[i].status \notin {"active", "old"}

\* What activating a fresh key changes.
LEMMA StatusActiveSetTimes ==
    ASSUME NEW ks \in KeySet, NEW x \in SetSlots(ks), ks.gtk[x].status = "fresh"
    PROVE  LET h == StatusActiveSet(ks, x).gtk
           IN  /\ h \in Table
               /\ \A i \in Slots :
                     /\ h[i].set = ks.gtk[i].set /\ h[i].lifetime = ks.gtk[i].lifetime
                     /\ h[i].install_order = ks.gtk[i].install_order /\ h[i].key = ks.gtk[i].key
                     /\ h[i].status = IF i = x THEN "active"
                                      ELSE IF ks.gtk[i].status = "active" THEN "old"
                                      ELSE ks.gtk[i].status
<1> DEFINE h == StatusActiveSet(ks, x).gtk
<1>1. h = [j \in Slots |->
              IF j = x THEN [ks.gtk[j] EXCEPT !.status = "active"]
              ELSE IF ks.gtk[j].status = "active"
                   THEN [ks.gtk[j] EXCEPT !.status = "old"]
                   ELSE ks.gtk[j]]
  BY DEF StatusActiveSet
<1>2. ASSUME NEW i \in Slots
      PROVE  /\ h[i].set = ks.gtk[i].set /\ h[i].lifetime = ks.gtk[i].lifetime
             /\ h[i].install_order = ks.gtk[i].install_order /\ h[i].key = ks.gtk[i].key
             /\ h[i].status = IF i = x THEN "active"
                              ELSE IF ks.gtk[i].status = "active" THEN "old"
                              ELSE ks.gtk[i].status
  <2>1. ks.gtk[i] \in GtkEntry  BY DEF KeySet
  <2>2. h[i] = IF i = x THEN [ks.gtk[i] EXCEPT !.status = "active"]
               ELSE IF ks.gtk[i].status = "active"
                    THEN [ks.gtk[i] EXCEPT !.status = "old"]
                    ELSE ks.gtk[i]
    BY <1>1
  <2> HIDE DEF h
  <2>. QED BY <2>1, <2>2 DEF GtkEntry
<1>3. h \in Table  BY StatusActiveSetGood DEF KeySet, Table
<1>. QED BY <1>2, <1>3

\* Activating the second key once the active one is due, or the first of a set
\* none of which was ever active, keeps the order; the active key stays, active or old.
LEMMA StatusActiveSetFit ==
    ASSUME NEW ks \in KeySet, NEW P, NEW Z, NEW n, NEW x, Fit(ks.gtk, P, Z, n),
           \/ /\ NoneUsed(ks.gtk) /\ (x \in SetSlots(ks) => ks.gtk[x].install_order = 0)
           \/ /\ x \in SetSlots(ks) => ks.gtk[x].install_order = 1
              /\ \E a \in Slots : ks.gtk[a].status = "active" /\ Left(ks.gtk, P, a) < NewActivationSeconds
    PROVE  LET h == StatusActiveSet(ks, x).gtk
           IN  /\ Fit(h, P, Z, n)
               /\ \A a \in Slots : ks.gtk[a].status = "active" =>
                     /\ h[a].key = ks.gtk[a].key /\ h[a].lifetime = ks.gtk[a].lifetime
                     /\ h[a].status \in {"active", "old"}
<1> DEFINE g == ks.gtk
           h == StatusActiveSet(ks, x).gtk
<1>1. /\ g \in Table /\ WellFormed(g) /\ InTurn(g, P) /\ OldFirst(g) /\ OldDue(g, P) /\ OneOld(g)
      /\ Numbered(g) /\ Alive(g, Z, n)
  BY DEF Fit
<1>2. CASE ~(x \in SetSlots(ks) /\ g[x].status = "fresh")
  <2>1. StatusActiveSet(ks, x) = ks  BY <1>2 DEF StatusActiveSet
  <2>. QED BY <2>1
<1>3. CASE x \in SetSlots(ks) /\ g[x].status = "fresh"
  <2>1. x \in Slots /\ g[x].set  BY <1>3 DEF SetSlots
  <2>2. /\ h \in Table
        /\ \A i \in Slots :
              /\ h[i].set = g[i].set /\ h[i].lifetime = g[i].lifetime
              /\ h[i].install_order = g[i].install_order /\ h[i].key = g[i].key
              /\ h[i].status = IF i = x THEN "active"
                               ELSE IF g[i].status = "active" THEN "old"
                               ELSE g[i].status
    BY <1>3, StatusActiveSetTimes
  <2>3. WellFormed(h)  BY <1>1, StatusActiveSetGood
  <2>4. \A i \in Slots : g[i].install_order \in Nat /\ h[i].install_order \in Nat  BY <1>1, <2>2, TableFacts
  <2> HIDE DEF h
  <2>5. \A i \in Slots : Left(h, P, i) = Left(g, P, i)  BY <2>2 DEF Left
  <2>6. \A i, j \in Slots : Earlier(h, i, j) <=> Earlier(g, i, j)  BY <2>2 DEF Earlier
  <2>7. InTurn(h, P) /\ Numbered(h) /\ Alive(h, Z, n)
    BY <1>1, <2>2, <2>5, <2>6 DEF InTurn, Numbered, Alive
  <2>8. \A j \in Slots : h[j].status = "active" => j = x  BY <2>1, <2>2, <2>3 DEF WellFormed, OneActive
  <2>9. OldFirst(h) /\ OldDue(h, P) /\ OneOld(h)
    <3>1. CASE NoneUsed(g) /\ g[x].install_order = 0
      <4>1. \A i \in Slots : h[i].set => h[i].status # "old"  BY <2>2, <3>1 DEF NoneUsed
      <4>2. \A i \in Slots : ~Earlier(h, i, x)  BY <2>1, <2>2, <2>4, <3>1 DEF Earlier
      <4>. QED BY <2>8, <4>1, <4>2 DEF OldFirst, OldDue, OneOld
    <3>2. CASE /\ g[x].install_order = 1
               /\ \E a \in Slots : g[a].status = "active" /\ Left(g, P, a) < NewActivationSeconds
      <4>1. PICK a \in Slots : g[a].status = "active" /\ Left(g, P, a) < NewActivationSeconds  BY <3>2
      <4>2. g[a].set /\ a # x  BY <1>1, <1>3, <4>1 DEF WellFormed, ActiveIsSet
      <4>3. ~Earlier(g, x, a)  BY <1>1, <1>3, <2>1, <4>1 DEF OldFirst
      <4>4. g[a].install_order = 0
        <5>1. g[a].install_order # 1  BY <1>1, <2>1, <3>2, <4>2 DEF WellFormed, DistinctOrders
        <5>. QED BY <2>1, <2>4, <3>2, <4>2, <4>3, <5>1 DEF Earlier
      <4>5. \A i \in Slots : g[i].set => g[i].status # "old"
        BY <1>1, <2>4, <4>1, <4>4 DEF OldFirst, Earlier
      <4>6. \A i \in Slots : h[i].set => (h[i].status = "old" <=> i = a)
        <5> SUFFICES ASSUME NEW i \in Slots, h[i].set PROVE h[i].status = "old" <=> i = a  OBVIOUS
        <5>1. g[i].set /\ g[i].status # "old"  BY <2>2, <4>5
        <5>2. g[i].status = "active" <=> i = a  BY <1>1, <4>1 DEF WellFormed, OneActive
        <5>. QED BY <2>1, <2>2, <4>2, <5>1, <5>2
      <4>7. \A i \in Slots : Earlier(h, i, x) <=> i = a
        <5> SUFFICES ASSUME NEW i \in Slots PROVE Earlier(h, i, x) <=> i = a  OBVIOUS
        <5>1. CASE i = a  BY <2>1, <2>2, <3>2, <4>2, <4>4, <5>1 DEF Earlier
        <5>2. CASE i # a
          <6>1. g[i].set => g[i].install_order # 0  BY <1>1, <4>2, <4>4, <5>2 DEF WellFormed, DistinctOrders
          <6>. QED BY <2>1, <2>2, <2>4, <3>2, <5>2, <6>1 DEF Earlier
        <5>. QED BY <5>1, <5>2
      <4>. QED BY <2>5, <2>8, <4>1, <4>6, <4>7 DEF OldFirst, OldDue, OneOld
    <3>. QED BY <1>3, <3>1, <3>2
  <2>10. \A a \in Slots : g[a].status = "active" =>
            h[a].key = g[a].key /\ h[a].lifetime = g[a].lifetime /\ h[a].status \in {"active", "old"}
    BY <2>2
  <2>. QED BY <2>2, <2>3, <2>7, <2>9, <2>10 DEF Fit, h
<1>. QED BY <1>2, <1>3

\* A key may lose time as long as it keeps what the keys before it have left.
LEMMA FitLowered ==
    ASSUME NEW g, NEW h \in Table, NEW i \in Slots, NEW P, NEW Q, NEW Z, NEW Y, NEW n, Fit(g, P, Z, n),
           \A j \in Slots : /\ h[j].set = g[j].set /\ h[j].status = g[j].status
                            /\ h[j].install_order = g[j].install_order
                            /\ j # i => h[j].lifetime = g[j].lifetime /\ Left(h, Q, j) = Left(g, P, j),
           Left(h, Q, i) <= Left(g, P, i),
           \A j \in Slots : Earlier(g, j, i) => Left(g, P, j) <= Left(h, Q, i),
           \A j \in Slots : j \in Z /\ j # i => j \in Y, i \notin Y => 1 <= h[i].lifetime
    PROVE  Fit(h, Q, Y, n)
<1>1. /\ g \in Table /\ WellFormed(g) /\ InTurn(g, P) /\ OldFirst(g) /\ OldDue(g, P) /\ OneOld(g)
      /\ Numbered(g) /\ Alive(g, Z, n)
  BY DEF Fit
<1>2. \A j, l \in Slots : Earlier(h, j, l) <=> Earlier(g, j, l)  BY DEF Earlier
<1>3. WellFormed(h)  BY <1>1 DEF WellFormed, DistinctOrders, OneActive, ActiveIsSet
<1>4. \A j \in Slots : Left(g, P, j) \in Int /\ Left(h, Q, j) \in Int  BY <1>1, LeftType
<1>5. InTurn(h, Q)
  <2> SUFFICES ASSUME NEW j \in Slots, NEW l \in Slots, Earlier(h, j, l)
               PROVE  Left(h, Q, j) <= Left(h, Q, l)
    BY DEF InTurn
  <2>1. Earlier(g, j, l) /\ Left(g, P, j) <= Left(g, P, l)  BY <1>1, <1>2 DEF InTurn
  <2>2. j # l
    <3>1. g[j].install_order \in Nat  BY <1>1, TableFacts
    <3>. QED BY <2>1, <3>1 DEF Earlier
  <2>3. CASE l = i
    <3>1. Left(h, Q, j) = Left(g, P, j)  BY <2>2, <2>3
    <3>. QED BY <2>1, <2>3, <3>1
  <2>4. CASE l # i
    <3>1. Left(h, Q, l) = Left(g, P, l)  BY <2>4
    <3>2. Left(h, Q, j) <= Left(g, P, j)
      <4>1. CASE j = i  BY <4>1
      <4>2. CASE j # i  BY <4>2, <1>4
      <4>. QED BY <4>1, <4>2
    <3>. QED BY <1>4, <2>1, <3>1, <3>2
  <2>. QED BY <2>3, <2>4
<1>6. OldDue(h, Q)
  <2> SUFFICES ASSUME NEW j \in Slots, h[j].set, h[j].status = "old" PROVE Left(h, Q, j) < NewActivationSeconds
    BY DEF OldDue
  <2>1. Left(g, P, j) < NewActivationSeconds  BY <1>1 DEF OldDue
  <2>2. Left(h, Q, j) <= Left(g, P, j)
    <3>1. CASE j = i  BY <3>1
    <3>2. CASE j # i  BY <3>2, <1>4
    <3>. QED BY <3>1, <3>2
  <2>. QED BY <1>4, <2>1, <2>2, TimeTypes
<1>7. OldFirst(h) /\ OneOld(h) /\ Numbered(h)  BY <1>1, <1>2 DEF OldFirst, OneOld, Numbered
<1>8. Alive(h, Y, n)  BY <1>1 DEF Alive
<1>. QED BY <1>3, <1>5, <1>6, <1>7, <1>8 DEF Fit

\* What the loss of time changes.
LEMMA LifetimeDecrementTimes ==
    ASSUME NEW ks \in KeySet, NEW i \in Slots, NEW seconds \in Nat
    PROVE  LET h == LifetimeDecrement(ks, i, seconds).gtk
           IN  /\ h \in Table
               /\ \A j \in Slots : /\ h[j].set = ks.gtk[j].set /\ h[j].status = ks.gtk[j].status
                                   /\ h[j].install_order = ks.gtk[j].install_order
                                   /\ h[j].key = ks.gtk[j].key
                                   /\ j # i => h[j] = ks.gtk[j]
               /\ h[i].lifetime = IF ks.gtk[i].lifetime > seconds THEN ks.gtk[i].lifetime - seconds ELSE 0
<1> DEFINE h == LifetimeDecrement(ks, i, seconds).gtk
           left == IF ks.gtk[i].lifetime > seconds THEN ks.gtk[i].lifetime - seconds ELSE 0
<1>1. ks.gtk \in Table /\ ks.gtk[i] \in GtkEntry  BY DEF KeySet, Table
<1>2. h = [ks.gtk EXCEPT ![i] = [ks.gtk[i] EXCEPT !.lifetime = left]]
  BY DEF LifetimeDecrement, KeySet
<1>3. h \in Table  BY LifetimeDecrementGood DEF KeySet, Table
<1>4. ASSUME NEW j \in Slots
      PROVE  /\ h[j].set = ks.gtk[j].set /\ h[j].status = ks.gtk[j].status
             /\ h[j].install_order = ks.gtk[j].install_order
             /\ h[j].key = ks.gtk[j].key
             /\ j # i => h[j] = ks.gtk[j]
  <2>1. h[j] = IF j = i THEN [ks.gtk[i] EXCEPT !.lifetime = left] ELSE ks.gtk[j]
    BY <1>1, <1>2 DEF Table
  <2> HIDE DEF h, left
  <2>. QED BY <1>1, <2>1 DEF GtkEntry
<1>5. h[i].lifetime = left
  <2>1. h[i] = [ks.gtk[i] EXCEPT !.lifetime = left]  BY <1>1, <1>2 DEF Table
  <2> HIDE DEF h, left
  <2>. QED BY <1>1, <2>1 DEF GtkEntry
<1>. QED BY <1>3, <1>4, <1>5

\* The visit of a slot by the timer: a second passes there, and the active key
\* may lose more, but not more than leaves it the time of the next activation.
LEMMA VisitFit ==
    ASSUME NEW ks \in KeySet, NEW i \in Slots, NEW cut \in Nat, NEW P, NEW n, Fit(ks.gtk, P, {}, n),
           ks.gtk[i].set, i \in P,
           cut # 0 => /\ ks.gtk[i].status = "active"
                      /\ NewActivationSeconds <= ks.gtk[i].lifetime - cut
    PROVE  LET h == LifetimeDecrement(ks, i, 1 + cut).gtk
           IN  Fit(h, P \ {i}, IF h[i].lifetime = 0 THEN {i} ELSE {}, n)
<1> DEFINE g == ks.gtk
           h == LifetimeDecrement(ks, i, 1 + cut).gtk
           Q == P \ {i}
           Y == IF h[i].lifetime = 0 THEN {i} ELSE {}
<1>1. g \in Table /\ WellFormed(g) /\ InTurn(g, P) /\ OldFirst(g) /\ OldDue(g, P) /\ Alive(g, {}, n)
  BY DEF Fit
<1>2. /\ h \in Table
      /\ \A j \in Slots : /\ h[j].set = g[j].set /\ h[j].status = g[j].status
                          /\ h[j].install_order = g[j].install_order
                          /\ j # i => h[j] = g[j]
      /\ h[i].lifetime = IF g[i].lifetime > 1 + cut THEN g[i].lifetime - (1 + cut) ELSE 0
  BY LifetimeDecrementTimes
<1>3. g[i].lifetime \in Nat /\ 1 <= g[i].lifetime /\ h[i].lifetime \in Nat
  BY <1>1, <1>2, TableFacts DEF Alive
<1> HIDE DEF h
<1>4. \A j \in Slots : j # i => Left(h, Q, j) = Left(g, P, j)  BY <1>2 DEF Left
<1>5. Left(g, P, i) = g[i].lifetime - 1 /\ Left(h, Q, i) = h[i].lifetime  BY DEF Left
<1>6. Left(h, Q, i) <= Left(g, P, i)  BY <1>2, <1>3, <1>5
<1>7. ASSUME NEW j \in Slots, Earlier(g, j, i) PROVE Left(g, P, j) <= Left(h, Q, i)
  <2>1. Left(g, P, j) \in Int  BY <1>1, LeftType
  <2>2. CASE cut = 0
    <3>1. Left(g, P, j) <= Left(g, P, i)  BY <1>1, <1>7 DEF InTurn
    <3>. QED BY <1>2, <1>3, <1>5, <2>1, <2>2, <3>1
  <2>3. CASE cut # 0
    <3>1. g[j].status = "old" /\ g[j].set  BY <1>1, <1>7, <2>3 DEF OldFirst, Earlier
    <3>2. Left(g, P, j) < NewActivationSeconds  BY <1>1, <3>1 DEF OldDue
    <3>. QED BY <1>2, <1>3, <1>5, <2>1, <2>3, <3>2, TimeTypes
  <2>. QED BY <2>2, <2>3
<1>8. i \notin Y => 1 <= h[i].lifetime  BY <1>3
<1>9. \A j \in Slots : j \in {} /\ j # i => j \in Y  OBVIOUS
<1> HIDE DEF Q, Y
<1>10. Fit(h, Q, Y, n)  BY <1>2, <1>4, <1>6, <1>7, <1>8, <1>9, FitLowered
<1>. QED BY <1>10 DEF h, Q, Y

\* Of two keys of a well formed table one is earlier.
LEMMA EarlierTotal ==
    ASSUME NEW g \in Table, WellFormed(g), NEW i \in Slots, NEW j \in Slots, g[i].set, g[j].set, i # j
    PROVE  Earlier(g, i, j) \/ Earlier(g, j, i)
<1>1. g[i].install_order \in Nat /\ g[j].install_order \in Nat  BY TableFacts
<1>2. g[i].install_order # g[j].install_order  BY DEF WellFormed, DistinctOrders
<1>. QED BY <1>1, <1>2 DEF Earlier

\* The active key is the first or the second.
LEMMA ActiveOrder ==
    ASSUME NEW g, NEW P, NEW Z, NEW n, Fit(g, P, Z, n), NEW a \in Slots, g[a].status = "active",
           NEW x \in Slots, g[x].set, g[x].install_order = 1
    PROVE  a = x \/ g[a].install_order = 0
<1>1. /\ g \in Table /\ WellFormed(g) /\ OldFirst(g) /\ OneOld(g) /\ Numbered(g)
  BY DEF Fit
<1>2. g[a].set  BY <1>1 DEF WellFormed, ActiveIsSet
<1> SUFFICES ASSUME a # x, g[a].install_order # 0 PROVE FALSE  OBVIOUS
<1>3. g[a].install_order \in Nat /\ g[a].install_order # 1
  BY <1>1, <1>2, TableFacts DEF WellFormed, DistinctOrders
<1>4. PICK f \in Slots : g[f].set /\ g[f].install_order = 0  BY <1>1 DEF Numbered
<1>5. Earlier(g, f, a) /\ Earlier(g, x, a)  BY <1>2, <1>3, <1>4 DEF Earlier
<1>6. g[f].status = "old" /\ g[x].status = "old"  BY <1>1, <1>4, <1>5 DEF OldFirst
<1>7. f = x  BY <1>1, <1>4, <1>6 DEF OneOld
<1>. QED BY <1>4, <1>7

\* The key a revocation keeps is not before the active one.
Keepable(g, x) ==
    x \in Slots /\ g[x].set /\ \A a \in Slots : g[a].status = "active" => ~Earlier(g, x, a)

\* The slots a revocation looks at.
LEMMA RevokeSlots ==
    ASSUME NEW ks \in KeySet, NEW n, Fit(ks.gtk, {}, {}, n), StatusActiveGet(ks) # None
    PROVE  LET active == StatusActiveGet(ks)
               second == InstallOrderSecondIndex(ks)
           IN  /\ active \in Slots /\ ks.gtk[active].status = "active" /\ ks.gtk[active].set
               /\ second # None => /\ second \in Slots /\ ks.gtk[second].set
                                   /\ ks.gtk[second].install_order = 1
                                   /\ second = active \/ ks.gtk[active].install_order = 0
<1> DEFINE active == StatusActiveGet(ks)
           second == InstallOrderSecondIndex(ks)
           g == ks.gtk
<1>1. active \in Slots /\ g[active].status = "active"
  BY StatusActiveGetType DEF ActiveSlots
<1>2. second # None => second \in Slots /\ g[second].set /\ g[second].install_order = 1
  BY IndexOfOrderType DEF InstallOrderSecondIndex, SetSlots
<1> HIDE DEF active, second
<1>3. g[active].set  BY <1>1 DEF Fit, WellFormed, ActiveIsSet
<1>4. second # None => second = active \/ g[active].install_order = 0
  BY <1>1, <1>2, ActiveOrder
<1>. QED BY <1>1, <1>2, <1>3, <1>4 DEF active, second

\* A key cut short by a revocation is not cut below the keys before it.
LEMMA CutFit ==
    ASSUME NEW ks \in KeySet, NEW n, NEW i \in Slots, NEW to \in Nat, Fit(ks.gtk, {}, {}, n), 1 <= to,
           to < ks.gtk[i].lifetime, \A j \in Slots : Earlier(ks.gtk, j, i) => ks.gtk[j].lifetime <= to
    PROVE  LET h == LifetimeDecrement(ks, i, ks.gtk[i].lifetime - to).gtk
           IN  /\ Fit(h, {}, {}, n)
               /\ \A j \in Slots : /\ h[j].set = ks.gtk[j].set /\ h[j].status = ks.gtk[j].status
                                   /\ h[j].install_order = ks.gtk[j].install_order
                                   /\ h[j].key = ks.gtk[j].key
<1> DEFINE g == ks.gtk
           h == LifetimeDecrement(ks, i, g[i].lifetime - to).gtk
<1>1. g \in Table  BY DEF Fit
<1>2. g[i].lifetime \in Nat /\ g[i].lifetime - to \in Nat  BY <1>1, TableFacts
<1>3. /\ h \in Table
      /\ \A j \in Slots : /\ h[j].set = g[j].set /\ h[j].status = g[j].status
                          /\ h[j].install_order = g[j].install_order
                          /\ h[j].key = g[j].key
                          /\ j # i => h[j] = g[j]
      /\ h[i].lifetime = IF g[i].lifetime > g[i].lifetime - to THEN g[i].lifetime - (g[i].lifetime - to) ELSE 0
  BY <1>2, LifetimeDecrementTimes
<1> HIDE DEF h
<1>4. h[i].lifetime = to  BY <1>2, <1>3
<1>5. \A j \in Slots : Left(g, {}, j) = g[j].lifetime /\ Left(h, {}, j) = h[j].lifetime  BY DEF Left
<1>6. Left(h, {}, i) <= Left(g, {}, i)  BY <1>2, <1>4, <1>5
<1>7. \A j \in Slots : Earlier(g, j, i) => Left(g, {}, j) <= Left(h, {}, i)  BY <1>4, <1>5
<1>8. \A j \in Slots : /\ h[j].set = g[j].set /\ h[j].status = g[j].status
                       /\ h[j].install_order = g[j].install_order
                       /\ j # i => h[j].lifetime = g[j].lifetime /\ Left(h, {}, j) = Left(g, {}, j)
  BY <1>3, <1>5
<1>9. Fit(h, {}, {}, n)  BY <1>3, <1>4, <1>6, <1>7, <1>8, FitLowered
<1>. QED BY <1>3, <1>9 DEF h

LEMMA RevokeCutFit ==
    ASSUME InTimeAssumed, NEW ks \in KeySet, NEW n, Fit(ks.gtk, {}, {}, n), StatusActiveGet(ks) # None
    PROVE  LET h == RevokeCut(ks).gtk
           IN  /\ Fit(h, {}, {}, n) /\ ActiveHere(ks.gtk, h) /\ Keepable(h, RevokeIndex(ks))
               /\ \A i \in Slots : h[i].status = ks.gtk[i].status
<1> DEFINE active == StatusActiveGet(ks)
           second == InstallOrderSecondIndex(ks)
           g == ks.gtk
           left == g[active].lifetime
           limit == left + RevocationLifetime
           keep == RevokeIndex(ks)
           h == RevokeCut(ks).gtk
           Same == \A j \in Slots : /\ h[j].set = g[j].set /\ h[j].status = g[j].status
                                    /\ h[j].install_order = g[j].install_order
                                    /\ h[j].key = g[j].key
<1>1. /\ active \in Slots /\ g[active].status = "active" /\ g[active].set
      /\ second # None => /\ second \in Slots /\ g[second].set /\ g[second].install_order = 1
                          /\ second = active \/ g[active].install_order = 0
  BY RevokeSlots
<1>2. /\ g \in Table /\ WellFormed(g) /\ InTurn(g, {}) /\ OldFirst(g) /\ OldDue(g, {}) /\ OneOld(g)
  BY DEF Fit
<1>3. /\ RevocationLifetime \in Nat /\ 1 <= RevocationLifetime /\ NewActivationSeconds \in Nat
      /\ NewActivationSeconds <= RevocationLifetime
  BY TimeTypes DEF InTimeAssumed
<1>4. \A i \in Slots : g[i].lifetime \in Nat /\ g[i].install_order \in Nat  BY <1>2, TableFacts
<1>5. \/ left > RevocationLifetime
         /\ RevokeCut(ks) = LifetimeDecrement(ks, active, left - RevocationLifetime)
      \/ /\ second # None /\ g[second].lifetime > limit
         /\ RevokeCut(ks) = LifetimeDecrement(ks, second, g[second].lifetime - limit)
      \/ RevokeCut(ks) = ks
  BY DEF RevokeCut
<1>6. keep = active \/ (second # None /\ keep = second)  BY DEF RevokeIndex
<1> HIDE DEF active, second, keep
<1>7. Fit(h, {}, {}, n) /\ Same
  <2>1. CASE left > RevocationLifetime
             /\ RevokeCut(ks) = LifetimeDecrement(ks, active, left - RevocationLifetime)
    <3>1. ASSUME NEW j \in Slots, Earlier(g, j, active) PROVE g[j].lifetime <= RevocationLifetime
      <4>1. g[j].set /\ g[j].status = "old"  BY <1>1, <1>2, <3>1 DEF OldFirst, Earlier
      <4>2. g[j].lifetime < NewActivationSeconds  BY <1>2, <4>1 DEF OldDue, Left
      <4>. QED BY <1>3, <1>4, <4>2
    <3> DEFINE d == LifetimeDecrement(ks, active, g[active].lifetime - RevocationLifetime).gtk
    <3>2. RevocationLifetime < g[active].lifetime /\ active \in Slots  BY <1>1, <1>3, <1>4, <2>1
    <3>3. /\ Fit(d, {}, {}, n)
          /\ \A j \in Slots : /\ d[j].set = ks.gtk[j].set /\ d[j].status = ks.gtk[j].status
                              /\ d[j].install_order = ks.gtk[j].install_order
                              /\ d[j].key = ks.gtk[j].key
      BY <1>3, <3>1, <3>2, CutFit
    <3>4. h = d  BY <2>1
    <3>. QED BY <3>3, <3>4
  <2>2. CASE second # None /\ g[second].lifetime > limit
             /\ RevokeCut(ks) = LifetimeDecrement(ks, second, g[second].lifetime - limit)
    <3>1. limit \in Nat /\ 1 <= limit /\ left <= limit /\ left \in Nat  BY <1>1, <1>3, <1>4
    <3>2. second \in Slots /\ second # active  BY <1>1, <1>4, <2>2, <3>1
    <3>3. ASSUME NEW j \in Slots, Earlier(g, j, second) PROVE g[j].lifetime <= limit
      <4>1. g[j].set /\ g[j].install_order = 0  BY <1>1, <1>4, <2>2, <3>3 DEF Earlier
      <4>2. j = active  BY <1>1, <1>2, <2>2, <3>2, <4>1 DEF WellFormed, DistinctOrders
      <4>. QED BY <3>1, <4>2
    <3> DEFINE d == LifetimeDecrement(ks, second, g[second].lifetime - limit).gtk
    <3>4. limit < g[second].lifetime  BY <1>4, <2>2, <3>1, <3>2
    <3>5. h = d  BY <2>2
    <3> HIDE DEF limit, left
    <3>6. /\ Fit(d, {}, {}, n)
          /\ \A j \in Slots : /\ d[j].set = ks.gtk[j].set /\ d[j].status = ks.gtk[j].status
                              /\ d[j].install_order = ks.gtk[j].install_order
                              /\ d[j].key = ks.gtk[j].key
      BY <3>1, <3>2, <3>3, <3>4, CutFit
    <3>. QED BY <3>5, <3>6
  <2>3. CASE RevokeCut(ks) = ks  BY <2>3
  <2>. QED BY <1>5, <2>1, <2>2, <2>3
<1>8. keep \in Slots /\ g[keep].set /\ ~Earlier(g, keep, active)
  <2>1. ~Earlier(g, active, active)  BY <1>1, <1>4 DEF Earlier
  <2>2. second # None => ~Earlier(g, second, active)
    BY <1>1, <1>4, <2>1 DEF Earlier
  <2>. QED BY <1>1, <1>6, <2>1, <2>2
<1> HIDE DEF h
<1>9. Keepable(h, keep)
  <2>1. \A a \in Slots : h[a].status = "active" => a = active  BY <1>1, <1>2, <1>7 DEF WellFormed, OneActive
  <2>. QED BY <1>1, <1>7, <1>8, <2>1 DEF Keepable, Earlier
<1>10. ActiveHere(g, h)  BY <1>7 DEF ActiveHere
<1>. QED BY <1>7, <1>9, <1>10 DEF h, keep

LEMMA ClearLastFit ==
    ASSUME NEW ks \in KeySet, NEW keep, NEW n, Fit(ks.gtk, {}, {}, n), Keepable(ks.gtk, keep)
    PROVE  LET h == ClearLast(ks, keep).gtk
           IN  Fit(h, {}, {}, n) /\ ActiveHere(ks.gtk, h) /\ Keepable(h, keep)
<1> DEFINE last == InstallOrderLastIndex(ks)
           g == ks.gtk
           h == ClearLast(ks, keep).gtk
<1>1. g \in Table /\ WellFormed(g) /\ GoodSet(ks)  BY DEF Fit, GoodSet
<1>2. CASE last \in {None, keep}
  BY <1>2 DEF ClearLast, ActiveHere
<1>3. CASE last \notin {None, keep}
  <2>1. ClearLast(ks, keep) = GtkClear(ks, last)  BY <1>3 DEF ClearLast
  <2>2. last \in Slots /\ g[last].set /\ \A j \in SetSlots(ks) : InstalledAfter(ks, last, j)
    BY <1>3, LastIndexIsSet DEF SetSlots
  <2>3. Thinned(g, h, last) /\ WellFormed(h) /\ Numbered(h)
    BY <1>1, <2>1, <2>2, GtkClearThins
  <2> HIDE DEF h, last
  <2>4. Fit(h, {}, {} \ {last}, n)  BY <2>2, <2>3, FitThinned
  <2>5. {} \ {last} = {}  OBVIOUS
  <2>6. keep \in Slots /\ g[keep].set /\ keep # last /\ keep \in SetSlots(ks)
    BY <1>3 DEF Keepable, SetSlots
  <2>7. Earlier(g, keep, last)
    <3>1. g[keep].install_order \in Nat /\ g[last].install_order \in Nat  BY <1>1, <2>2, <2>6, TableFacts
    <3>2. ~Earlier(g, last, keep)
      BY <2>2, <2>6, <3>1 DEF InstalledAfter, Earlier
    <3>. QED BY <1>1, <2>2, <2>6, <3>2, EarlierTotal
  <2>8. g[last].status # "active"  BY <2>2, <2>7 DEF Keepable
  <2>9. \A i \in Slots : g[i].status = "active" => g[i].set  BY <1>1 DEF WellFormed, ActiveIsSet
  <2>10. ActiveHere(g, h)  BY <2>3, <2>8, <2>9 DEF ActiveHere, Thinned
  <2>11. h[keep].set  BY <2>3, <2>6 DEF Thinned
  <2>12. Keepable(h, keep)
    <3> SUFFICES ASSUME NEW a \in Slots, h[a].status = "active" PROVE ~Earlier(h, keep, a)
      BY <2>6, <2>11 DEF Keepable
    <3>1. h[a].set  BY <2>3 DEF WellFormed, ActiveIsSet
    <3>2. g[a].status = "active"  BY <2>3, <3>1 DEF Thinned
    <3>3. ~Earlier(g, keep, a)  BY <3>2 DEF Keepable
    <3>. QED BY <2>3, <2>6, <2>11, <3>1, <3>3 DEF Thinned
  <2>. QED BY <2>4, <2>5, <2>10, <2>12 DEF h
<1>. QED BY <1>2, <1>3

\* A revocation leaves the keys in order and the active key in its place.
LEMMA RevokeKeysFit ==
    ASSUME InTimeAssumed, NEW ks \in KeySet, NEW n, Fit(ks.gtk, {}, {}, n)
    PROVE  Fit(RevokeKeys(ks).gtk, {}, {}, n) /\ ActiveHere(ks.gtk, RevokeKeys(ks).gtk)
<1>1. CASE StatusActiveGet(ks) = None
  BY <1>1 DEF RevokeKeys, ActiveHere
<1>2. CASE StatusActiveGet(ks) # None
  <2> DEFINE keep == RevokeIndex(ks)
             c0 == RevokeCut(ks)
             c1 == ClearLast(c0, keep)
             c2 == ClearLast(c1, keep)
             c3 == ClearLast(c2, keep)
             c4 == ClearLast(c3, keep)
             Ok(c) == c \in KeySet /\ Fit(c.gtk, {}, {}, n) /\ ActiveHere(ks.gtk, c.gtk) /\ Keepable(c.gtk, keep)
  <2>1. Ok(c0)  BY <1>2, RevokeCutGood, RevokeCutFit
  <2>2. RevokeKeys(ks) = c4  BY <1>2 DEF RevokeKeys, ClearAfter
  <2> HIDE DEF keep, c0
  <2>3. ASSUME NEW c, Ok(c) PROVE Ok(ClearLast(c, keep))
    <3>1. ClearLast(c, keep) \in KeySet  BY <2>3, ClearLastGood
    <3>2. /\ Fit(ClearLast(c, keep).gtk, {}, {}, n) /\ ActiveHere(c.gtk, ClearLast(c, keep).gtk)
          /\ Keepable(ClearLast(c, keep).gtk, keep)
      BY <2>3, ClearLastFit
    <3>3. ActiveHere(ks.gtk, ClearLast(c, keep).gtk)  BY <2>3, <3>2 DEF ActiveHere
    <3>. QED BY <3>1, <3>2, <3>3
  <2> HIDE DEF Ok
  <2>4. Ok(c1)  BY <2>1, <2>3
  <2>5. Ok(c2)  BY <2>4, <2>3
  <2>6. Ok(c3)  BY <2>5, <2>3
  <2>7. Ok(c4)  BY <2>6, <2>3
  <2>. QED BY <2>2, <2>7 DEF Ok
<1>. QED BY <1>1, <1>2

\* The key sets of the other kinds keep their keys.
Others(s, t, k) == \A l \in Kinds \ {k} : t.gtks[l].gtk = s.gtks[l].gtk

\* From s to t keys of kind k are added, in order, and the active one stays.
Installed(s, t, k, P, Z) ==
    /\ t \in StateType /\ Others(s, t, k) /\ Fit(t.gtks[k].gtk, P, Z, Room(k))
    /\ ActiveKept(s.gtks[k].gtk, t.gtks[k].gtk)

\* Writing the file changes no key.
LEMMA NwInfoTables ==
    ASSUME NEW s \in StateType
    PROVE  LET t == NwInfoUpdatedCheck(s)
           IN  t \in StateType /\ \A k \in Kinds : t.gtks[k].gtk = s.gtks[k].gtk
<1> DEFINE t == NwInfoUpdatedCheck(s)
<1>1. t \in StateType  BY NwInfoUpdatedCheckKeeps DEF Keeps
<1>2. CASE t = s  BY <1>1, <1>2
<1>3. CASE t = [s EXCEPT !.gtks = [k \in Kinds |-> UpdatedReset(s.gtks[k])],
                         !.disk = DiskOf(s.gtks, TRUE), !.wrote = TornWrites]
  <2>1. t.gtks = [k \in Kinds |-> UpdatedReset(s.gtks[k])]  BY <1>3 DEF StateType
  <2>2. \A k \in Kinds : UpdatedReset(s.gtks[k]).gtk = s.gtks[k].gtk
    BY UpdatedResetGood DEF StateType
  <2>. QED BY <1>1, <2>1, <2>2
<1>. QED BY <1>2, <1>3 DEF NwInfoUpdatedCheck

\* Putting the keys into the MAC makes the new ones fresh.
LEMMA NetworkKeysTables ==
    ASSUME NEW s \in StateType, NEW k \in Kinds
    PROVE  LET t == NetworkKeysFromGtksSet(s, k)
           IN  /\ t \in StateType /\ Others(s, t, k)
               /\ t.gtks[k] = StatusAllFreshSet(s.gtks[k])
<1> DEFINE t == NetworkKeysFromGtksSet(s, k)
<1>1. t \in StateType  BY NetworkKeysFromGtksSetKeeps
<1>2. t.gtks = [s.gtks EXCEPT ![k] = StatusAllFreshSet(s.gtks[k])]
  BY DEF NetworkKeysFromGtksSet, StateType
<1>3. s.gtks \in [Kinds -> KeySet]  BY DEF StateType
<1>. QED BY <1>1, <1>2, <1>3 DEF Others

\* A random or a configured key is added as any key is.
LEMMA GtkKeyInsertTables ==
    ASSUME NEW s \in StateType, NEW k \in Kinds, NEW random \in Keys
    PROVE  LET t == GtkKeyInsert(s, k, random)
           IN  /\ t \in StateType /\ Others(s, t, k)
               /\ \E value \in Keys \cup {NoKey} : t.gtks[k] = GtkInsert(s.gtks[k], value, k)
<1> DEFINE n == InstallOrderFirstIndex(s.next[k])
           useNext == n # None /\ InstallOrderSecondIndex(s.gtks[k]) # None
           value == IF useNext THEN KeyAt(s.next[k], n) ELSE random
           nx == IF useNext THEN GtkSet(s.next[k], n, value, 0) ELSE s.next[k]
           t == GtkKeyInsert(s, k, random)
<1>1. s.next[k] \in KeySet /\ s.gtks \in [Kinds -> KeySet]  BY DEF StateType
<1>2. n # None => n \in Slots
  BY <1>1, IndexOfOrderType DEF InstallOrderFirstIndex, SetSlots
<1>3. value \in Keys \cup {NoKey}
  <2>1. \A i \in Slots : s.next[k].gtk[i] \in GtkEntry  BY <1>1 DEF KeySet
  <2>2. \A i \in Slots : KeyAt(s.next[k], i) \in Keys \cup {NoKey}  BY <2>1 DEF KeyAt, GtkEntry
  <2> HIDE DEF n
  <2>. QED BY <1>2, <2>2
<1>4. t = [s EXCEPT !.gtks[k] = GtkInsert(s.gtks[k], value, k), !.next[k] = nx]
  BY DEF GtkKeyInsert
<1>5. t \in StateType  BY GtkKeyInsertGood
<1> HIDE DEF value, nx, t
<1>6. t.gtks = [s.gtks EXCEPT ![k] = GtkInsert(s.gtks[k], value, k)]  BY <1>4 DEF StateType
<1>. QED BY <1>1, <1>3, <1>5, <1>6 DEF Others, t

LEMMA InstalledNwInfo ==
    ASSUME NEW s, NEW w \in StateType, NEW k \in Kinds, NEW P, NEW Z, Installed(s, w, k, P, Z)
    PROVE  Installed(s, NwInfoUpdatedCheck(w), k, P, Z)
BY NwInfoTables DEF Installed, Others

LEMMA InstalledMac ==
    ASSUME NEW s, NEW w \in StateType, NEW k \in Kinds, NEW P, NEW Z, Installed(s, w, k, P, Z)
    PROVE  Installed(s, NetworkKeysFromGtksSet(w, k), k, P, Z)
<1> DEFINE t == NetworkKeysFromGtksSet(w, k)
           ks == w.gtks[k]
           h == StatusAllFreshSet(ks).gtk
<1>1. t \in StateType /\ Others(w, t, k) /\ t.gtks[k].gtk = h
  BY NetworkKeysTables
<1>2. ks \in KeySet /\ Fit(ks.gtk, P, Z, Room(k)) /\ ActiveKept(s.gtks[k].gtk, ks.gtk)
  BY DEF StateType, Installed
<1>3. Fit(h, P, Z, Room(k))  BY <1>2, StatusAllFreshSetFit
<1>4. \A i \in Slots : /\ h[i].lifetime = ks.gtk[i].lifetime /\ h[i].key = ks.gtk[i].key
                       /\ h[i].status = "active" <=> ks.gtk[i].status = "active"
  BY <1>2, StatusAllFreshSetTimes
<1> HIDE DEF h, t
<1>5. ActiveKept(s.gtks[k].gtk, h)  BY <1>2, <1>4 DEF ActiveKept
<1>6. Others(s, t, k)  BY <1>1 DEF Installed, Others
<1>. QED BY <1>1, <1>3, <1>5, <1>6 DEF Installed, t

\* A key is added, made fresh, given to the MAC and saved.
LEMMA InsertInstalls ==
    ASSUME InTimeAssumed, NEW s \in StateType, NEW w \in StateType, NEW k \in Kinds,
           NEW value \in Keys \cup {NoKey}, NEW P, NEW Z, Fit(s.gtks[k].gtk, P, Z, Room(k)),
           Others(s, w, k), w.gtks[k] = GtkInsert(s.gtks[k], value, k)
    PROVE  /\ Installed(s, w, k, P, Z)
           /\ Installed(s, NetworkKeysFromGtksSet(w, k), k, P, Z)
           /\ Installed(s, NwInfoUpdatedCheck(NetworkKeysFromGtksSet(w, k)), k, P, Z)
<1> DEFINE h == GtkInsert(s.gtks[k], value, k).gtk
           net == NetworkKeysFromGtksSet(w, k)
<1>1. s.gtks[k] \in KeySet  BY DEF StateType
<1>2. Fit(h, P, Z, Room(k)) /\ ActiveKept(s.gtks[k].gtk, h)  BY <1>1, GtkInsertFit
<1>3. Installed(s, w, k, P, Z)  BY <1>2 DEF Installed
<1>4. Installed(s, net, k, P, Z)  BY <1>3, InstalledMac
<1>5. net \in StateType  BY <1>4 DEF Installed
<1> HIDE DEF net
<1>6. Installed(s, NwInfoUpdatedCheck(net), k, P, Z)  BY <1>4, <1>5, InstalledNwInfo
<1>. QED BY <1>3, <1>4, <1>6 DEF net

LEMMA NewInstallFit ==
    ASSUME InTimeAssumed, NEW s \in StateType, NEW k \in Kinds, NEW left, NEW random \in Keys, NEW P, NEW Z,
           Fit(s.gtks[k].gtk, P, Z, Room(k))
    PROVE  Installed(s, NewInstall(s, k, left, random), k, P, Z)
<1> DEFINE due == [s EXCEPT !.instReq[k] = TRUE]
           ins == GtkKeyInsert(due, k, random)
           t == NewInstall(s, k, left, random)
<1>1. due \in StateType /\ due.gtks = s.gtks
  <2>1. [s.instReq EXCEPT ![k] = TRUE] \in [Kinds -> BOOLEAN]  BY DEF StateType
  <2>. QED BY <2>1 DEF StateType
<1>2. t = s \/ t = due \/ t = NwInfoUpdatedCheck(NetworkKeysFromGtksSet(ins, k))  BY DEF NewInstall
<1> HIDE DEF due, t
<1>3. Installed(s, s, k, P, Z) /\ Installed(s, due, k, P, Z)
  BY <1>1 DEF Installed, Others, ActiveKept
<1>4. /\ ins \in StateType /\ Others(due, ins, k)
      /\ \E value \in Keys \cup {NoKey} : ins.gtks[k] = GtkInsert(due.gtks[k], value, k)
  BY <1>1, GtkKeyInsertTables
<1> HIDE DEF ins
<1>5. PICK value \in Keys \cup {NoKey} : ins.gtks[k] = GtkInsert(s.gtks[k], value, k)  BY <1>1, <1>4
<1>6. Others(s, ins, k)  BY <1>1, <1>4 DEF Others
<1>7. Installed(s, NwInfoUpdatedCheck(NetworkKeysFromGtksSet(ins, k)), k, P, Z)
  BY <1>4, <1>5, <1>6, InsertInstalls
<1>. QED BY <1>2, <1>3, <1>7 DEF t

\* The switch to the second key, once the active one is due.
LEMMA NewActivationFit ==
    ASSUME NEW s \in StateType, NEW k \in Kinds, NEW left, NEW P, NEW Z, Fit(s.gtks[k].gtk, P, Z, Room(k)),
           NEW a \in Slots, s.gtks[k].gtk[a].status = "active", Left(s.gtks[k].gtk, P, a) = left
    PROVE  LET t == NewActivation(s, k, left)
           IN  /\ t \in StateType /\ Others(s, t, k) /\ Fit(t.gtks[k].gtk, P, Z, Room(k))
               /\ t.gtks[k].gtk[a].key = s.gtks[k].gtk[a].key
               /\ t.gtks[k].gtk[a].lifetime = s.gtks[k].gtk[a].lifetime
               /\ t.gtks[k].gtk[a].status \in {"active", "old"}
<1>1. CASE ~NewActivationTime(left)
  <2>1. NewActivation(s, k, left) = s  BY <1>1 DEF NewActivation
  <2>. QED BY <2>1 DEF Others
<1>2. CASE NewActivationTime(left)
  <2> DEFINE second == InstallOrderSecondIndex(s.gtks[k])
             ks == StatusActiveSet(s.gtks[k], second)
             active == [s EXCEPT !.gtks[k] = ks]
             sent == IF second # None THEN NetworkKeyIndexSet(active, k, second)
                                      ELSE active
             u == [sent EXCEPT !.instReq[k] = FALSE]
  <2>1. s.gtks[k] \in KeySet  BY DEF StateType
  <2>2. second # None => second \in SetSlots(s.gtks[k]) /\ s.gtks[k].gtk[second].install_order = 1
    BY <2>1, IndexOfOrderType DEF InstallOrderSecondIndex
  <2>3. second \in SetSlots(s.gtks[k]) => s.gtks[k].gtk[second].install_order = 1
    <3>1. None \notin SetSlots(s.gtks[k])  BY GtkNumAssumption DEF None, SetSlots, Slots
    <3> HIDE DEF second
    <3>. QED BY <2>2, <3>1
  <2>4. left < NewActivationSeconds  BY <1>2 DEF NewActivationTime
  <2>5. ks \in KeySet  BY <2>1, StatusActiveSetGood
  <2>6. /\ Fit(ks.gtk, P, Z, Room(k))
        /\ ks.gtk[a].key = s.gtks[k].gtk[a].key /\ ks.gtk[a].lifetime = s.gtks[k].gtk[a].lifetime
        /\ ks.gtk[a].status \in {"active", "old"}
    <3> HIDE DEF second
    <3>. QED BY <2>1, <2>3, <2>4, StatusActiveSetFit
  <2>7. second # None => second \in Slots  BY <2>2 DEF SetSlots
  <2> HIDE DEF ks, second
  <2>8. active \in StateType /\ active.gtks[k] = ks /\ \A l \in Kinds \ {k} : active.gtks[l] = s.gtks[l]
    BY <2>5, SetGtks
  <2> HIDE DEF active
  <2>9. sent \in StateType /\ sent.gtks = active.gtks  BY <2>7, <2>8, NetworkKeyIndexSetType
  <2> HIDE DEF sent
  <2>10. u \in StateType /\ u.gtks = active.gtks
    <3>1. [sent.instReq EXCEPT ![k] = FALSE] \in [Kinds -> BOOLEAN]  BY <2>9 DEF StateType
    <3>. QED BY <2>9, <3>1 DEF StateType
  <2>11. NewActivation(s, k, left) = NwInfoUpdatedCheck(u)
    BY <1>2 DEF NewActivation, sent, active, ks, second
  <2> HIDE DEF u
  <2> DEFINE t == NwInfoUpdatedCheck(u)
  <2>12. t \in StateType /\ \A l \in Kinds : t.gtks[l].gtk = u.gtks[l].gtk  BY <2>10, NwInfoTables
  <2> HIDE DEF t
  <2>13. t.gtks[k].gtk = ks.gtk /\ Others(s, t, k)  BY <2>8, <2>10, <2>12 DEF Others
  <2>. QED BY <2>6, <2>11, <2>12, <2>13 DEF t
<1>. QED BY <1>1, <1>2

\* An expired key is removed.
LEMMA ExpireFit ==
    ASSUME NEW s \in StateType, NEW k \in Kinds, NEW i \in Slots, NEW P, NEW Z, Fit(s.gtks[k].gtk, P, Z, Room(k))
    PROVE  LET t == Expire(s, k, i)
           IN  /\ t \in StateType /\ Others(s, t, k) /\ Fit(t.gtks[k].gtk, P, Z \ {i}, Room(k))
               /\ \A a \in Slots \ {i} : s.gtks[k].gtk[a].status = "active" =>
                     t.gtks[k].gtk[a].status = "active" /\ t.gtks[k].gtk[a].key = s.gtks[k].gtk[a].key
<1> DEFINE ks == GtkClear(s.gtks[k], i)
           clr == [s EXCEPT !.gtks[k] = ks]
           net == NetworkKeysFromGtksSet(clr, k)
           t == Expire(s, k, i)
           g == s.gtks[k].gtk
<1>1. s.gtks[k] \in KeySet /\ GoodSet(s.gtks[k]) /\ WellFormed(g)  BY DEF StateType, Fit, GoodSet
<1>2. ks \in KeySet /\ Thinned(g, ks.gtk, i) /\ WellFormed(ks.gtk) /\ Numbered(ks.gtk)
  BY <1>1, GtkClearType, GtkClearThins
<1>3. t = NwInfoUpdatedCheck(net)  BY DEF Expire
<1> HIDE DEF ks, t
<1>4. Fit(ks.gtk, P, Z \ {i}, Room(k))  BY <1>2, FitThinned
<1>5. clr \in StateType /\ clr.gtks[k] = ks /\ \A l \in Kinds \ {k} : clr.gtks[l] = s.gtks[l]
  BY <1>2, SetGtks
<1> HIDE DEF clr
<1>6. Installed(clr, clr, k, P, Z \ {i})  BY <1>4, <1>5 DEF Installed, Others, ActiveKept
<1>7. Installed(clr, net, k, P, Z \ {i})  BY <1>5, <1>6, InstalledMac
<1>8. net \in StateType  BY <1>7 DEF Installed
<1> HIDE DEF net
<1>9. Installed(clr, t, k, P, Z \ {i})  BY <1>3, <1>7, <1>8, InstalledNwInfo
<1>10. ASSUME NEW a \in Slots \ {i}, g[a].status = "active"
       PROVE  t.gtks[k].gtk[a].status = "active" /\ t.gtks[k].gtk[a].key = g[a].key
  <2>1. g[a].set  BY <1>1, <1>10 DEF WellFormed, ActiveIsSet
  <2>2. ks.gtk[a].set /\ ks.gtk[a].status = "active" /\ ks.gtk[a].key = g[a].key
    BY <1>2, <1>10, <2>1 DEF Thinned
  <2>. QED BY <1>5, <1>9, <2>2 DEF Installed, ActiveKept
<1>11. t \in StateType /\ Others(s, t, k) /\ Fit(t.gtks[k].gtk, P, Z \ {i}, Room(k))
  BY <1>5, <1>9 DEF Installed, Others
<1>. QED BY <1>10, <1>11 DEF t

\* From g to h the active key, if it has time left, stays in its slot, active or old.
Stay(g, h) ==
    \A a \in Slots : g[a].status = "active" /\ g[a].lifetime > 1
                     => h[a].key = g[a].key /\ h[a].status \in {"active", "old"}

\* A cut of the lifetime of the active key leaves it more than the last second.
Spare == FrameCntCheck => 1 < NewActivationSeconds

\* One slot's turn of the timer.
LEMMA SlowTimerKeyFit ==
    ASSUME InTimeAssumed, NEW s \in StateType, NEW k \in Kinds, NEW i \in Slots, NEW cut \in Nat,
           NEW random \in Keys, NEW P, Fit(s.gtks[k].gtk, P, {}, Room(k)), s.gtks[k].gtk[i].set => i \in P,
           cut # 0 => /\ FrameCntCheck /\ StatusActiveGet(s.gtks[k]) = i
                      /\ NewActivationSeconds <= s.gtks[k].gtk[i].lifetime - cut
    PROVE  LET t == SlowTimerKey(s, k, i, cut, random)
           IN  /\ Others(s, t, k) /\ Fit(t.gtks[k].gtk, P \ {i}, {}, Room(k))
               /\ Spare => Stay(s.gtks[k].gtk, t.gtks[k].gtk)
<1> DEFINE active == StatusActiveGet(s.gtks[k]) = i
           g == s.gtks[k].gtk
           ks == LifetimeDecrement(s.gtks[k], i, 1 + cut)
           older == [s EXCEPT !.gtks[k] = ks]
           left == older.gtks[k].gtk[i].lifetime
           inst == NewInstall(older, k, left, random)
           rotated == NewActivation(inst, k, left)
           kept == IF ~active THEN older
                   ELSE IF cut # 0 THEN NwInfoUpdatedCheck(rotated)
                   ELSE rotated
           t == SlowTimerKey(s, k, i, cut, random)
           Q == P \ {i}
           Y == IF left = 0 THEN {i} ELSE {}
<1>1. s.gtks[k] \in KeySet  BY DEF StateType
<1>2. WellFormed(g) /\ g \in Table  BY DEF Fit
<1>3. CASE ~g[i].set
  <2>1. t = s  BY <1>3 DEF SlowTimerKey
  <2>2. Stay(g, g)  BY DEF Stay
  <2>3. Fit(g, Q, {}, Room(k))
    <3>1. \A j \in Slots : g[j].set => Left(g, Q, j) = Left(g, P, j)  BY <1>3 DEF Left
    <3>. QED BY <3>1 DEF Fit, InTurn, OldDue, Earlier
  <2>. QED BY <2>1, <2>2, <2>3 DEF Others
<1>4. CASE g[i].set
  <2>1. active => g[i].status = "active"
    <3>1. None \notin Slots  BY GtkNumAssumption DEF None, Slots
    <3>. QED BY <1>1, <3>1, StatusActiveGetType DEF ActiveSlots
  <2>2. ks \in KeySet /\ \A j \in Slots : /\ ks.gtk[j].set = g[j].set /\ ks.gtk[j].status = g[j].status
                                          /\ ks.gtk[j].key = g[j].key
    <3>1. 1 + cut \in Nat  OBVIOUS
    <3>2. ks \in KeySet  BY <1>1, <3>1, LifetimeDecrementGood
    <3>. QED BY <1>1, <3>1, <3>2, LifetimeDecrementTimes
  <2>3. ks.gtk[i].lifetime = IF g[i].lifetime > 1 + cut THEN g[i].lifetime - (1 + cut) ELSE 0
    BY <1>1, LifetimeDecrementTimes
  <2>4. older \in StateType /\ older.gtks[k] = ks /\ \A l \in Kinds \ {k} : older.gtks[l] = s.gtks[l]
    BY <2>2, SetGtks
  <2>5. left = ks.gtk[i].lifetime  BY <2>4
  <2>6. Fit(ks.gtk, Q, Y, Room(k))
    <3>1. cut # 0 => g[i].status = "active" /\ NewActivationSeconds <= g[i].lifetime - cut  BY <2>1
    <3> HIDE DEF active
    <3>2. Fit(ks.gtk, P \ {i}, IF ks.gtk[i].lifetime = 0 THEN {i} ELSE {}, Room(k))
      BY <1>1, <1>4, <3>1, VisitFit
    <3>. QED BY <2>5, <3>2
  <2>7. left # 0 => Y = {}  OBVIOUS
  <2>8. Y \ {i} = {}  OBVIOUS
  <2>9. t = IF left = 0 THEN Expire(kept, k, i) ELSE kept
    BY <1>4 DEF SlowTimerKey
  <2>15. g[i].lifetime > 1 /\ Spare => left # 0
    <3>1. g[i].lifetime \in Nat  BY <1>2, TableFacts
    <3>2. CASE cut = 0  BY <2>3, <2>5, <3>1, <3>2
    <3>3. CASE cut # 0  BY <2>3, <2>5, <3>1, <3>3, TimeTypes DEF Spare
    <3>. QED BY <3>2, <3>3
  <2> HIDE DEF t, ks, Y, Q, older
  <2>10. /\ kept \in StateType /\ Others(s, kept, k) /\ Fit(kept.gtks[k].gtk, Q, Y, Room(k))
         /\ \A a \in Slots : g[a].status = "active" =>
               /\ kept.gtks[k].gtk[a].key = g[a].key /\ kept.gtks[k].gtk[a].status \in {"active", "old"}
               /\ a # i => kept.gtks[k].gtk[a].status = "active"
    <3>1. CASE ~active
      <4>1. kept = older  BY <3>1
      <4>. QED BY <2>2, <2>4, <2>6, <4>1 DEF Others
    <3>2. CASE active
      <4>1. Installed(older, inst, k, Q, Y)
        <5> HIDE DEF left
        <5>. QED BY <2>4, <2>6, NewInstallFit
      <4>2. ks.gtk[i].status = "active"  BY <2>1, <2>2, <3>2
      <4>3. inst \in StateType /\ Others(older, inst, k) /\ Fit(inst.gtks[k].gtk, Q, Y, Room(k))
            /\ inst.gtks[k].gtk[i].status = "active" /\ inst.gtks[k].gtk[i].key = g[i].key
            /\ inst.gtks[k].gtk[i].lifetime = left
        BY <2>2, <2>4, <2>5, <4>1, <4>2 DEF Installed, ActiveKept
      <4>4. Left(inst.gtks[k].gtk, Q, i) = left  BY <4>3 DEF Left, Q
      <4> HIDE DEF inst, left
      <4>5. /\ rotated \in StateType /\ Others(inst, rotated, k) /\ Fit(rotated.gtks[k].gtk, Q, Y, Room(k))
            /\ rotated.gtks[k].gtk[i].key = g[i].key
            /\ rotated.gtks[k].gtk[i].status \in {"active", "old"}
        BY <4>3, <4>4, NewActivationFit
      <4> HIDE DEF rotated
      <4>6. /\ NwInfoUpdatedCheck(rotated) \in StateType
            /\ \A l \in Kinds : NwInfoUpdatedCheck(rotated).gtks[l].gtk = rotated.gtks[l].gtk
        BY <4>5, NwInfoTables
      <4>7. kept \in StateType /\ \A l \in Kinds : kept.gtks[l].gtk = rotated.gtks[l].gtk
        BY <3>2, <4>5, <4>6
      <4> HIDE DEF kept
      <4>8. \A a \in Slots : g[a].status = "active" => a = i
        BY <1>2, <2>1, <3>2 DEF WellFormed, OneActive
      <4>9. Others(s, kept, k)  BY <2>4, <4>3, <4>5, <4>7 DEF Others
      <4>10. /\ Fit(kept.gtks[k].gtk, Q, Y, Room(k))
             /\ kept.gtks[k].gtk[i].key = g[i].key /\ kept.gtks[k].gtk[i].status \in {"active", "old"}
        BY <4>5, <4>7
      <4>. QED BY <4>7, <4>8, <4>9, <4>10
    <3>. QED BY <3>1, <3>2
  <2> HIDE DEF kept, left
  <2>11. CASE left # 0
    <3>1. t = kept /\ Y = {}  BY <2>7, <2>9, <2>11
    <3>2. Stay(g, kept.gtks[k].gtk)  BY <2>10 DEF Stay
    <3>. QED BY <2>10, <3>1, <3>2 DEF t, Q
  <2>12. CASE left = 0
    <3>1. t = Expire(kept, k, i)  BY <2>9, <2>12
    <3>2. /\ t \in StateType /\ Others(kept, t, k) /\ Fit(t.gtks[k].gtk, Q, Y \ {i}, Room(k))
          /\ \A a \in Slots \ {i} : kept.gtks[k].gtk[a].status = "active" =>
                t.gtks[k].gtk[a].status = "active" /\ t.gtks[k].gtk[a].key = kept.gtks[k].gtk[a].key
      <4> DEFINE e == Expire(kept, k, i)
      <4>1. kept \in StateType /\ Fit(kept.gtks[k].gtk, Q, Y, Room(k))  BY <2>10
      <4>2. /\ e \in StateType /\ Others(kept, e, k) /\ Fit(e.gtks[k].gtk, Q, Y \ {i}, Room(k))
            /\ \A a \in Slots \ {i} : kept.gtks[k].gtk[a].status = "active" =>
                  e.gtks[k].gtk[a].status = "active" /\ e.gtks[k].gtk[a].key = kept.gtks[k].gtk[a].key
        BY <4>1, ExpireFit
      <4> HIDE DEF e
      <4>3. t = e  BY <3>1 DEF e
      <4>. QED BY <4>2, <4>3
    <3>3. Others(s, t, k)  BY <2>10, <3>2 DEF Others
    <3>4. Spare => Stay(g, t.gtks[k].gtk)
      <4> SUFFICES ASSUME Spare, NEW a \in Slots, g[a].status = "active", g[a].lifetime > 1
                   PROVE  t.gtks[k].gtk[a].key = g[a].key /\ t.gtks[k].gtk[a].status \in {"active", "old"}
        BY DEF Stay
      <4>1. a # i  BY <2>12, <2>15
      <4>. QED BY <2>10, <3>2, <4>1
    <3>. QED BY <2>8, <3>2, <3>3, <3>4 DEF t, Q
  <2>. QED BY <2>11, <2>12
<1>. QED BY <1>3, <1>4

\* Revoking one key set.
LEMMA RevokeStartFit ==
    ASSUME InTimeAssumed, NEW s \in StateType, NEW k \in Kinds, NEW given \in Keys \cup {NoKey},
           NEW random \in Keys, Fit(s.gtks[k].gtk, {}, {}, Room(k))
    PROVE  LET t == RevokeStart(s, k, given, random)
           IN  /\ t \in StateType /\ Others(s, t, k) /\ Fit(t.gtks[k].gtk, {}, {}, Room(k))
               /\ ActiveHere(s.gtks[k].gtk, t.gtks[k].gtk)
<1> DEFINE ks == RevokeKeys(s.gtks[k])
           cut == [s EXCEPT !.gtks[k] = ks]
           u == [cut EXCEPT !.gtks[k] = GtkInsert(cut.gtks[k], given, k)]
           v == GtkKeyInsert(cut, k, random)
           t == RevokeStart(s, k, given, random)
<1>1. s.gtks[k] \in KeySet  BY DEF StateType
<1>2. ks \in KeySet /\ Fit(ks.gtk, {}, {}, Room(k)) /\ ActiveHere(s.gtks[k].gtk, ks.gtk)
  BY <1>1, RevokeKeysGood, RevokeKeysFit
<1>3. t = NwInfoUpdatedCheck(NetworkKeysFromGtksSet(IF given # NoKey THEN u ELSE v, k))
  BY DEF RevokeStart
<1> HIDE DEF ks, t
<1>4. cut \in StateType /\ cut.gtks[k] = ks /\ \A l \in Kinds \ {k} : cut.gtks[l] = s.gtks[l]
  BY <1>2, SetGtks
<1> HIDE DEF cut
<1>5. /\ u \in StateType /\ Others(cut, u, k) /\ u.gtks[k] = GtkInsert(cut.gtks[k], given, k)
  <2>1. GtkInsert(cut.gtks[k], given, k) \in KeySet  BY <1>2, <1>4, GtkInsertGood
  <2>. QED BY <1>4, <2>1, SetGtks DEF Others
<1>6. /\ v \in StateType /\ Others(cut, v, k)
      /\ \E value \in Keys \cup {NoKey} : v.gtks[k] = GtkInsert(cut.gtks[k], value, k)
  BY <1>4, GtkKeyInsertTables
<1> HIDE DEF u, v
<1>7. Installed(cut, t, k, {}, {})
  <2> DEFINE w == IF given # NoKey THEN u ELSE v
  <2>1. w \in StateType /\ Others(cut, w, k)  BY <1>5, <1>6
  <2>2. PICK value \in Keys \cup {NoKey} : w.gtks[k] = GtkInsert(cut.gtks[k], value, k)  BY <1>5, <1>6
  <2>3. t = NwInfoUpdatedCheck(NetworkKeysFromGtksSet(w, k))  BY <1>3
  <2> HIDE DEF w
  <2>. QED BY <1>2, <1>4, <2>1, <2>2, <2>3, InsertInstalls
<1>8. ActiveHere(s.gtks[k].gtk, t.gtks[k].gtk)
  BY <1>2, <1>4, <1>7 DEF ActiveHere, Installed, ActiveKept
<1>9. t \in StateType /\ Others(s, t, k) /\ Fit(t.gtks[k].gtk, {}, {}, Room(k))
  BY <1>4, <1>7 DEF Installed, Others
<1>. QED BY <1>8, <1>9 DEF t

\* Every key set is in order.
AllFit(s) == \A k \in Kinds : Fit(s.gtks[k].gtk, {}, {}, Room(k))

\* Revoking both.
LEMMA RevokeAllFit ==
    ASSUME InTimeAssumed, NEW s \in StateType, NEW given \in [Kinds -> Keys \cup {NoKey}],
           NEW random \in [Kinds -> Keys], AllFit(s)
    PROVE  LET t == RevokeAll(s, given, random)
           IN  AllFit(t) /\ \A k \in Kinds : ActiveHere(s.gtks[k].gtk, t.gtks[k].gtk)
<1> DEFINE g == IF "gtk" \in Kinds THEN RevokeStart(s, "gtk", given["gtk"], random["gtk"])
                ELSE s
           l == IF "lgtk" \in Kinds
                THEN RevokeStart(g, "lgtk", given["lgtk"], random["lgtk"]) ELSE g
           Ok(t) == /\ t \in StateType /\ AllFit(t)
                    /\ \A k \in Kinds : ActiveHere(s.gtks[k].gtk, t.gtks[k].gtk)
<1>1. Ok(s)  BY DEF ActiveHere
<1>2. ASSUME NEW w, Ok(w), NEW k \in Kinds
      PROVE  Ok(RevokeStart(w, k, given[k], random[k]))
  <2> DEFINE t == RevokeStart(w, k, given[k], random[k])
  <2>1. /\ t \in StateType /\ Others(w, t, k) /\ Fit(t.gtks[k].gtk, {}, {}, Room(k))
        /\ ActiveHere(w.gtks[k].gtk, t.gtks[k].gtk)
    BY <1>2, RevokeStartFit DEF AllFit
  <2> HIDE DEF t
  <2>2. AllFit(t)  BY <1>2, <2>1 DEF AllFit, Others
  <2>3. \A j \in Kinds : ActiveHere(s.gtks[j].gtk, t.gtks[j].gtk)
    BY <1>2, <2>1 DEF ActiveHere, Others
  <2>. QED BY <2>1, <2>2, <2>3 DEF t
<1> HIDE DEF Ok
<1>3. Ok(g)  BY <1>1, <1>2
<1> HIDE DEF g
<1>4. Ok(l)  BY <1>2, <1>3
<1>5. RevokeAll(s, given, random) = l  BY DEF RevokeAll, g
<1>. QED BY <1>4, <1>5 DEF Ok

\* No key was active before.
NoOld(g) == \A i \in Slots : g[i].set => g[i].status # "old"

LEMMA EmptyFit ==
    ASSUME NEW n
    PROVE  Fit(GtksInit.gtk, {}, {}, n) /\ NoneUsed(GtksInit.gtk) /\ NoOld(GtksInit.gtk)
<1> DEFINE g == GtksInit.gtk
<1>1. g \in Table /\ WellFormed(g)  BY EmptyTypes DEF GoodSet, KeySet, Table
<1>2. \A i \in Slots : ~g[i].set /\ g[i].status = "new"  BY DEF GtksInit, EmptyEntry
<1> HIDE DEF g
<1>3. Fit(g, {}, {}, n) /\ NoneUsed(g) /\ NoOld(g)
  BY <1>1, <1>2 DEF Fit, InTurn, OldFirst, OldDue, OneOld, Numbered, Alive, Earlier, NoneUsed, NoOld
<1>. QED BY <1>3 DEF g

\* A key of the configuration.
LEMMA ForceGtkFit ==
    ASSUME InTimeAssumed, NEW k \in Kinds, NEW ks \in KeySet, NEW i,
           Fit(ks.gtk, {}, {}, Room(k)), NoneUsed(ks.gtk)
    PROVE  LET f == ForceGtk(ks, i, Forced[k])
           IN  f \in KeySet /\ Fit(f.gtk, {}, {}, Room(k)) /\ NoneUsed(f.gtk)
<1> DEFINE life == InstallOrderLastLifetime(ks) + ExpireOffset
           f == ForceGtk(ks, i, Forced[k])
           g == ks.gtk
<1>1. CASE ~(i \in Slots /\ Forced[k][i] # NoKey)
  <2>1. f = ks  BY <1>1 DEF ForceGtk, ForceKey
  <2>. QED BY <2>1
<1>2. CASE i \in Slots /\ Forced[k][i] # NoKey
  <2>1. f = GtkSet(ks, i, Forced[k][i], life)  BY <1>2 DEF ForceGtk, ForceKey
  <2>2. InstallOrderLastLifetime(ks) \in Nat /\ life \in Nat /\ 1 <= life
    BY InstallOrderLastType, TimeTypes
  <2>3. Forced[k][i] \in Keys \cup {NoKey}  BY <1>2, ForcedAssumption
  <2>4. i < Room(k)
    <3>1. ~(Room(k) <= i)  BY <1>2 DEF InTimeAssumed, Room
    <3>2. Room(k) \in Nat /\ i \in Nat  BY <1>2, RoomFacts, GtkNumAssumption DEF Slots
    <3>. QED BY <3>1, <3>2
  <2>5. GoodSet(ks)  BY DEF Fit, GoodSet
  <2>6. f \in KeySet  BY <1>2, <2>1, <2>2, <2>3, GtkSetType
  <2>7. f = ks \/ (Added(g, f.gtk, i, Forced[k][i], life) /\ WellFormed(f.gtk) /\ Numbered(f.gtk))
    BY <1>2, <2>1, <2>2, <2>3, <2>5, GtkSetAdds
  <2>8. \A j \in Slots : g[j].set => Left(g, {}, j) < life
    <3>1. \A j \in Slots : g[j].set => Left(g, {}, j) < ExpireOffset + InstallOrderLastLifetime(ks)
      BY LastLives
    <3>2. life = ExpireOffset + InstallOrderLastLifetime(ks)  BY <2>2, TimeTypes
    <3>. QED BY <3>1, <3>2
  <2> HIDE DEF f, life
  <2>9. CASE f = ks  BY <2>6, <2>9 DEF f
  <2>10. CASE Added(g, f.gtk, i, Forced[k][i], life) /\ WellFormed(f.gtk) /\ Numbered(f.gtk)
    <3>1. Fit(f.gtk, {}, {}, Room(k))  BY <1>2, <2>2, <2>4, <2>8, <2>10, FitAdded
    <3>2. NoneUsed(f.gtk)
      <4> SUFFICES ASSUME NEW j \in Slots, f.gtk[j].set PROVE f.gtk[j].status \notin {"active", "old"}
        BY DEF NoneUsed
      <4>1. CASE j = i  BY <2>10, <4>1 DEF Added
      <4>2. CASE j # i
        <5>1. g[j].set /\ f.gtk[j].status = g[j].status  BY <2>10, <4>2 DEF Added
        <5>. QED BY <5>1 DEF NoneUsed
      <4>. QED BY <4>1, <4>2
    <3>. QED BY <2>6, <3>1, <3>2 DEF f
  <2>. QED BY <2>7, <2>9, <2>10
<1>. QED BY <1>1, <1>2

\* The first key is made active.
LEMMA FirstActiveFit ==
    ASSUME NEW ks \in KeySet, NEW n, NEW x, Fit(ks.gtk, {}, {}, n), NoneUsed(ks.gtk),
           x \in SetSlots(ks) => ks.gtk[x].install_order = 0
    PROVE  LET h == StatusActiveSet(ks, x).gtk IN Fit(h, {}, {}, n) /\ NoOld(h)
<1> DEFINE h == StatusActiveSet(ks, x).gtk
<1>1. Fit(h, {}, {}, n)  BY StatusActiveSetFit
<1>2. CASE ~(x \in SetSlots(ks) /\ ks.gtk[x].status = "fresh")
  <2>1. h = ks.gtk  BY <1>2 DEF StatusActiveSet
  <2>. QED BY <1>1, <2>1 DEF NoneUsed, NoOld
<1>3. CASE x \in SetSlots(ks) /\ ks.gtk[x].status = "fresh"
  <2>1. \A i \in Slots : /\ h[i].set = ks.gtk[i].set
                         /\ h[i].status = IF i = x THEN "active"
                                          ELSE IF ks.gtk[i].status = "active" THEN "old"
                                          ELSE ks.gtk[i].status
    BY <1>3, StatusActiveSetTimes
  <2> HIDE DEF h
  <2>2. NoOld(h)  BY <2>1 DEF NoneUsed, NoOld
  <2>. QED BY <1>1, <2>2 DEF h
<1>. QED BY <1>2, <1>3

\* The keys of the configuration, the first of them active.
LEMMA GtkUpdateFit ==
    ASSUME InTimeAssumed, NEW k \in Kinds
    PROVE  Fit(GtkUpdate(k).gtk, {}, {}, Room(k)) /\ NoOld(GtkUpdate(k).gtk)
<1> DEFINE f0 == ForceGtk(GtksInit, 0, Forced[k])
           f1 == ForceGtk(f0, 1, Forced[k])
           f2 == ForceGtk(f1, 2, Forced[k])
           f3 == ForceGtk(f2, 3, Forced[k])
           fresh == StatusAllFreshSet(f3)
           first == InstallOrderFirstIndex(f3)
           Ok(f) == f \in KeySet /\ Fit(f.gtk, {}, {}, Room(k)) /\ NoneUsed(f.gtk)
<1>1. Ok(GtksInit)  BY EmptyFit, EmptyTypes DEF GoodSet
<1>2. ASSUME NEW f, Ok(f), NEW i PROVE Ok(ForceGtk(f, i, Forced[k]))
  BY <1>2, ForceGtkFit
<1>3. GtkUpdate(k) = GtksInit \/ GtkUpdate(k) = StatusActiveSet(fresh, first)  BY DEF GtkUpdate
<1> HIDE DEF Ok
<1>4. Ok(f0)  BY <1>1, <1>2
<1>5. Ok(f1)  BY <1>2, <1>4
<1>6. Ok(f2)  BY <1>2, <1>5
<1>7. Ok(f3)  BY <1>2, <1>6
<1>8. f3 \in KeySet /\ Fit(f3.gtk, {}, {}, Room(k)) /\ NoneUsed(f3.gtk)  BY <1>7 DEF Ok
<1> HIDE DEF f3
<1>9. /\ fresh \in KeySet
      /\ \A i \in Slots : /\ fresh.gtk[i].set = f3.gtk[i].set
                          /\ fresh.gtk[i].install_order = f3.gtk[i].install_order
                          /\ fresh.gtk[i].status = "active" <=> f3.gtk[i].status = "active"
                          /\ fresh.gtk[i].status = "old" <=> f3.gtk[i].status = "old"
  BY <1>8, StatusAllFreshSetGood, StatusAllFreshSetTimes
<1>10. Fit(fresh.gtk, {}, {}, Room(k))  BY <1>8, StatusAllFreshSetFit
<1> HIDE DEF fresh
<1>11. NoneUsed(fresh.gtk)  BY <1>8, <1>9 DEF NoneUsed
<1>12. first \in SetSlots(fresh) => fresh.gtk[first].install_order = 0
  <2>1. first \in Slots => first # None  BY GtkNumAssumption DEF Slots, None
  <2>2. first # None => f3.gtk[first].install_order = 0
    BY <1>8, IndexOfOrderType DEF InstallOrderFirstIndex
  <2> HIDE DEF first
  <2>. QED BY <1>9, <2>1, <2>2 DEF SetSlots
<1> HIDE DEF first
<1>13. LET h == StatusActiveSet(fresh, first).gtk IN Fit(h, {}, {}, Room(k)) /\ NoOld(h)
  BY <1>9, <1>10, <1>11, <1>12, FirstActiveFit
<1>. QED BY <1>3, <1>13, EmptyFit

\* auth_init without a file.
LEMMA AuthInitFit ==
    ASSUME InTimeAssumed, NEW d \in DiskType, NEW configured \in BOOLEAN, ~d.exists
    PROVE  LET t == AuthInit(d, configured)
           IN  AllFit(t) /\ \A k \in Kinds : NoOld(t.gtks[k].gtk)
<1> DEFINE forced == IF configured THEN [k \in Kinds |-> GtkUpdate(k)] ELSE [k \in Kinds |-> GtksInit]
           ks == [k \in Kinds |-> UpdatedReset(forced[k])]
           t == AuthInit(d, configured)
<1>1. t.gtks = ks  BY DEF AuthInit, NwInfoRead
<1>2. ASSUME NEW k \in Kinds
      PROVE  forced[k] \in KeySet /\ Fit(forced[k].gtk, {}, {}, Room(k)) /\ NoOld(forced[k].gtk)
  <2>1. forced[k] = IF configured THEN GtkUpdate(k) ELSE GtksInit  OBVIOUS
  <2>2. GtkUpdate(k) \in KeySet /\ GtksInit \in KeySet  BY GtkUpdateType, EmptyTypes DEF GoodSet
  <2> HIDE DEF forced
  <2>. QED BY <2>1, <2>2, GtkUpdateFit, EmptyFit
<1> HIDE DEF forced, t
<1>3. \A k \in Kinds : t.gtks[k].gtk = forced[k].gtk  BY <1>1, <1>2, UpdatedResetGood
<1>. QED BY <1>2, <1>3 DEF AllFit, t

\* The first key of a kind.
LEMMA StartKindFit ==
    ASSUME InTimeAssumed, NEW s \in StateType, NEW k \in Kinds, NEW random \in Keys,
           Fit(s.gtks[k].gtk, {}, {}, Room(k)), NoOld(s.gtks[k].gtk)
    PROVE  LET t == StartKind(s, k, random)
           IN  t \in StateType /\ Others(s, t, k) /\ Fit(t.gtks[k].gtk, {}, {}, Room(k)) /\ NoOld(t.gtks[k].gtk)
<1> DEFINE ins == GtkKeyInsert(s, k, random)
           first == InstallOrderFirstIndex(ins.gtks[k])
           ks == StatusActiveSet(ins.gtks[k], first)
           t == [ins EXCEPT !.gtks[k] = ks]
<1>1. s.gtks[k] \in KeySet  BY DEF StateType
<1>2. CASE StatusActiveGet(s.gtks[k]) # None
  <2>1. StartKind(s, k, random) = s  BY <1>2 DEF StartKind
  <2>. QED BY <2>1 DEF Others
<1>3. CASE StatusActiveGet(s.gtks[k]) = None
  <2>1. StartKind(s, k, random) = t  BY <1>3 DEF StartKind
  <2>2. \A i \in Slots : s.gtks[k].gtk[i].status # "active"
    <3>1. None \notin Slots  BY GtkNumAssumption DEF None, Slots
    <3>. QED BY <1>1, <1>3, <3>1, StatusActiveGetType DEF ActiveSlots
  <2>3. /\ ins \in StateType /\ Others(s, ins, k)
        /\ \E value \in Keys \cup {NoKey} : ins.gtks[k] = GtkInsert(s.gtks[k], value, k)
    BY GtkKeyInsertTables
  <2> HIDE DEF ins
  <2>4. PICK value \in Keys \cup {NoKey} : ins.gtks[k] = GtkInsert(s.gtks[k], value, k)  BY <2>3
  <2>5. ins.gtks[k] \in KeySet  BY <2>3 DEF StateType
  <2>6. /\ Fit(ins.gtks[k].gtk, {}, {}, Room(k))
        /\ \A i \in Slots : ins.gtks[k].gtk[i].status = "active" => s.gtks[k].gtk[i].status = "active"
        /\ \A i \in Slots : ins.gtks[k].gtk[i].set /\ ins.gtks[k].gtk[i].status = "old"
                            => s.gtks[k].gtk[i].set /\ s.gtks[k].gtk[i].status = "old"
    <3> DEFINE h == GtkInsert(s.gtks[k], value, k).gtk
    <3>1. /\ Fit(h, {}, {}, Room(k))
          /\ \A i \in Slots : h[i].status = "active" => s.gtks[k].gtk[i].status = "active"
          /\ \A i \in Slots : h[i].set /\ h[i].status = "old"
                              => s.gtks[k].gtk[i].set /\ s.gtks[k].gtk[i].status = "old"
      BY <1>1, GtkInsertFit
    <3>2. ins.gtks[k].gtk = h  BY <2>4
    <3> HIDE DEF h
    <3>. QED BY <3>1, <3>2
  <2>7. NoneUsed(ins.gtks[k].gtk)  BY <2>2, <2>6 DEF NoneUsed, NoOld
  <2>8. first \in SetSlots(ins.gtks[k]) => ins.gtks[k].gtk[first].install_order = 0
    <3>1. first \in SetSlots(ins.gtks[k]) => first # None  BY GtkNumAssumption DEF SetSlots, Slots, None
    <3>2. first # None => ins.gtks[k].gtk[first].install_order = 0
      BY <2>5, IndexOfOrderType DEF InstallOrderFirstIndex
    <3>. QED BY <3>1, <3>2
  <2> HIDE DEF first
  <2>9. ks \in KeySet /\ Fit(ks.gtk, {}, {}, Room(k)) /\ NoOld(ks.gtk)
    BY <2>5, <2>6, <2>7, <2>8, StatusActiveSetGood, FirstActiveFit
  <2> HIDE DEF ks
  <2>10. t \in StateType /\ t.gtks[k] = ks /\ \A l \in Kinds \ {k} : t.gtks[l] = ins.gtks[l]
    BY <2>3, <2>9, SetGtks
  <2> HIDE DEF t
  <2>11. Others(s, t, k)  BY <2>3, <2>10 DEF Others
  <2>. QED BY <2>1, <2>9, <2>10, <2>11
<1>. QED BY <1>2, <1>3

\* The start of the authenticator.
LEMMA StartAllFit ==
    ASSUME InTimeAssumed, NEW s \in StateType, NEW random \in [Kinds -> Keys], AllFit(s),
           \A k \in Kinds : NoOld(s.gtks[k].gtk)
    PROVE  AllFit(StartAll(s, random))
<1> DEFINE g == IF "gtk" \in Kinds THEN StartKind(s, "gtk", random["gtk"]) ELSE s
           l == IF "lgtk" \in Kinds THEN StartKind(g, "lgtk", random["lgtk"]) ELSE g
           n == NwInfoUpdatedCheck(l)
           gs == [k \in Kinds |-> StatusAllFreshSet(n.gtks[k])]
           t == StartAll(s, random)
           Ok(w) == w \in StateType /\ AllFit(w) /\ \A k \in Kinds : NoOld(w.gtks[k].gtk)
<1>1. Ok(s)  OBVIOUS
<1>2. ASSUME NEW w, Ok(w), NEW k \in Kinds PROVE Ok(StartKind(w, k, random[k]))
  <2> DEFINE u == StartKind(w, k, random[k])
  <2>1. u \in StateType /\ Others(w, u, k) /\ Fit(u.gtks[k].gtk, {}, {}, Room(k)) /\ NoOld(u.gtks[k].gtk)
    BY <1>2, StartKindFit DEF AllFit
  <2> HIDE DEF u
  <2>2. AllFit(u) /\ \A j \in Kinds : NoOld(u.gtks[j].gtk)  BY <1>2, <2>1 DEF AllFit, Others
  <2>. QED BY <2>1, <2>2 DEF u
<1> HIDE DEF Ok
<1>3. Ok(g)  BY <1>1, <1>2
<1> HIDE DEF g
<1>4. Ok(l)  BY <1>2, <1>3
<1>5. t.gtks = gs
  <2>1. t = [n EXCEPT !.gtks = gs,
                      !.mac = [k \in Kinds |-> NwKeys(n.gtks[k], k)],
                      !.send = [k \in Kinds |-> StartIndex(s, k, random[k])]]
    BY DEF StartAll, g
  <2>2. n \in StateType  BY <1>4, NwInfoTables DEF Ok
  <2> HIDE DEF n, gs
  <2>. QED BY <2>1, <2>2 DEF StateType
<1> HIDE DEF l, t
<1>6. n \in StateType /\ \A k \in Kinds : n.gtks[k].gtk = l.gtks[k].gtk
  BY <1>4, NwInfoTables DEF Ok
<1> HIDE DEF n
<1>7. ASSUME NEW k \in Kinds PROVE Fit(t.gtks[k].gtk, {}, {}, Room(k))
  <2>1. n.gtks[k] \in KeySet /\ Fit(n.gtks[k].gtk, {}, {}, Room(k))
    BY <1>4, <1>6 DEF Ok, AllFit, StateType
  <2>2. t.gtks[k] = StatusAllFreshSet(n.gtks[k])  BY <1>5
  <2>. QED BY <2>1, <2>2, StatusAllFreshSetFit
<1>. QED BY <1>7 DEF AllFit, t

-----------------------------------------------------------------------------
(***************************************************************************)
(* The order over the steps.                                                *)
(***************************************************************************)

\* The slots of kind k that the timer at point p has still to visit.
Ahead(p, k) ==
    {i \in Slots : i < Room(k) /\ ((p[1] = k /\ p[2] <= i) \/ (p[1] = "gtk" /\ k = "lgtk"))}

LEMMA AheadIdle ==
    ASSUME NEW k \in Kinds
    PROVE  Ahead(Idle, k) = {}
BY KindsAssumption DEF Ahead, Idle

LEMMA AheadFirst ==
    ASSUME NEW k \in Kinds
    PROVE  Ahead(FirstPoint, k) = {i \in Slots : i < Room(k)}
<1>1. \A i \in Slots : 0 <= i  BY GtkNumAssumption DEF Slots
<1>2. k \in {"gtk", "lgtk"}  BY KindsAssumption
<1>3. FirstPoint = (IF "gtk" \in Kinds THEN <<"gtk", 0>> ELSE <<"lgtk", 0>>)  BY DEF FirstPoint
<1>. QED BY <1>1, <1>2, <1>3 DEF Ahead

LEMMA AheadAfter ==
    ASSUME NEW k \in Kinds, NEW i \in Slots, NEW l \in Kinds
    PROVE  Ahead(After(k, i), l) = IF l = k THEN Ahead(<<k, i>>, l) \ {i} ELSE Ahead(<<k, i>>, l)
<1>1. k \in {"gtk", "lgtk"} /\ l \in {"gtk", "lgtk"}  BY KindsAssumption
<1>2. Room(k) \in Nat /\ Room(l) \in Nat  BY GtkNumAssumption DEF Room, NumKeys
<1>3. Slots \in SUBSET Nat  BY GtkNumAssumption DEF Slots
<1>4. SUFFICES ASSUME NEW j \in Slots
               PROVE  j \in Ahead(After(k, i), l) <=> j \in Ahead(<<k, i>>, l) /\ (l = k => j # i)
  <2>1. Ahead(After(k, i), l) \in SUBSET Slots /\ Ahead(<<k, i>>, l) \in SUBSET Slots  BY DEF Ahead
  <2>. QED BY <1>4, <2>1
<1>5. i \in Nat /\ j \in Nat  BY <1>3
<1>6. \A p : j \in Ahead(p, l) <=> j < Room(l) /\ ((p[1] = l /\ p[2] <= j) \/ (p[1] = "gtk" /\ l = "lgtk"))
  BY DEF Ahead
<1>7. j \in Ahead(<<k, i>>, l) <=> j < Room(l) /\ ((k = l /\ i <= j) \/ (k = "gtk" /\ l = "lgtk"))
  BY <1>6
<1>8. CASE i + 1 < Room(k)
  <2>1. After(k, i) = <<k, i + 1>>  BY <1>8 DEF After, Room
  <2>2. j \in Ahead(After(k, i), l) <=> j < Room(l) /\ ((k = l /\ i + 1 <= j) \/ (k = "gtk" /\ l = "lgtk"))
    BY <1>6, <2>1
  <2>3. i + 1 <= j <=> i <= j /\ j # i  BY <1>5
  <2>. QED BY <1>7, <2>2, <2>3
<1>9. CASE ~(i + 1 < Room(k)) /\ k = "gtk" /\ "lgtk" \in Kinds
  <2>1. After(k, i) = <<"lgtk", 0>>  BY <1>9 DEF After, Room
  <2>2. j \in Ahead(After(k, i), l) <=> j < Room(l) /\ "lgtk" = l
    BY <1>5, <1>6, <2>1
  <2>3. l = k => (j < Room(l) /\ i <= j => j = i)  BY <1>2, <1>5, <1>9
  <2>. QED BY <1>1, <1>7, <1>9, <2>2, <2>3
<1>10. CASE ~(i + 1 < Room(k)) /\ ~(k = "gtk" /\ "lgtk" \in Kinds)
  <2>1. After(k, i) = Idle  BY <1>10 DEF After, Room
  <2>2. j \notin Ahead(After(k, i), l)  BY <2>1, AheadIdle
  <2>3. l = k => (j < Room(l) /\ i <= j => j = i)  BY <1>2, <1>5, <1>10
  <2>4. ~(k = "gtk" /\ l = "lgtk")  BY <1>10
  <2>. QED BY <1>7, <2>2, <2>3, <2>4
<1>. QED BY <1>8, <1>9, <1>10

\* When a second has passed every key has a second less to live.
LEMMA SecondFit ==
    ASSUME NEW g, NEW n, Fit(g, {}, {}, n)
    PROVE  Fit(g, {i \in Slots : i < n}, {}, n)
<1> DEFINE P == {i \in Slots : i < n}
<1>1. g \in Table /\ InTurn(g, {}) /\ OldDue(g, {}) /\ Alive(g, {}, n)  BY DEF Fit
<1>2. \A i \in Slots : /\ g[i].set => Left(g, P, i) = Left(g, {}, i) - 1
                       /\ Left(g, {}, i) \in Int
  BY <1>1, TableFacts DEF Alive, Left
<1> HIDE DEF P
<1>3. InTurn(g, P)
  <2> SUFFICES ASSUME NEW i \in Slots, NEW j \in Slots, Earlier(g, i, j) PROVE Left(g, P, i) <= Left(g, P, j)
    BY DEF InTurn
  <2>1. Left(g, {}, i) <= Left(g, {}, j) /\ g[i].set /\ g[j].set  BY <1>1 DEF InTurn, Earlier
  <2>. QED BY <1>2, <2>1
<1>4. OldDue(g, P)
  <2> SUFFICES ASSUME NEW i \in Slots, g[i].set, g[i].status = "old" PROVE Left(g, P, i) < NewActivationSeconds
    BY DEF OldDue
  <2>1. Left(g, {}, i) < NewActivationSeconds  BY <1>1 DEF OldDue
  <2>. QED BY <1>2, <2>1, TimeTypes
<1>. QED BY <1>3, <1>4 DEF Fit, P

\* The inductive invariant.  The daemon was never stopped, so the first boot
\* finds no file.
InOrder ==
    /\ \A k \in Kinds : Fit(gtks[k].gtk, Ahead(timer, k), {}, Room(k))
    /\ mode # "run" => timer = Idle
    /\ mode \in {"down", "stopped"} => ~disk.exists
    /\ mode = "init" => \A k \in Kinds : NoOld(gtks[k].gtk)

Stays == \A k \in Kinds : Stay(gtks[k].gtk, gtks'[k].gtk)

\* What a cut of the lifetime leaves.
LEMMA CutLeaves ==
    ASSUME InTimeAssumed, NEW k \in Kinds, NEW left \in Nat, NEW cut \in FrameCntCut(k, left)
    PROVE  cut \in Nat /\ (cut # 0 => FrameCntCheck /\ NewActivationSeconds <= left - cut)
<1>1. CASE k # "gtk" \/ ~FrameCntCheck \/ cntTimer > 1
  BY <1>1 DEF FrameCntCut
<1>2. CASE ~(k # "gtk" \/ ~FrameCntCheck \/ cntTimer > 1)
  <2>1. /\ cut \in 0..left
        /\ \/ left - cut > NewInstallReqSeconds \/ cut = 0
           \/ left - cut = NewInstallReqSeconds \/ left - cut = NewActivationSeconds
    BY <1>2 DEF FrameCntCut
  <2>2. NewActivationSeconds <= NewInstallReqSeconds /\ FrameCntCheck  BY <1>2 DEF InTimeAssumed
  <2>. QED BY <2>1, <2>2, TimeTypes
<1>. QED BY <1>1, <1>2

\* A slot's turn.
LEMMA TimerKeyInOrder ==
    ASSUME InTimeAssumed, TypeOK, InOrder, NEW k \in Kinds, NEW i \in Slots, NEW random \in Random,
           NEW cut \in FrameCntCut(k, gtks[k].gtk[i].lifetime), TimerKey(k, i, cut, random)
    PROVE  InOrder' /\ (Spare => Stays)
<1> DEFINE s == Here
           t == SlowTimerKey(s, k, i, cut, random)
           P == Ahead(timer, k)
<1>1. s \in StateType /\ s.gtks = gtks  BY HereType DEF Here
<1>2. /\ mode = "run" /\ mode' = "run" /\ timer = <<k, i>> /\ timer' = After(k, i) /\ Become(t)
      /\ cut # 0 => StatusActiveGet(gtks[k]) = i
  BY DEF TimerKey
<1>3. random \in Keys  BY DEF Random
<1>4. gtks[k].gtk \in Table  BY DEF TypeOK, KeySet, Table
<1>5. cut \in Nat /\ (cut # 0 => FrameCntCheck /\ NewActivationSeconds <= gtks[k].gtk[i].lifetime - cut)
  <2>1. gtks[k].gtk[i].lifetime \in Nat  BY <1>4, TableFacts
  <2>. QED BY <2>1, CutLeaves
<1>6. Fit(gtks[k].gtk, P, {}, Room(k))  BY DEF InOrder
<1>7. gtks[k].gtk[i].set => i \in P
  <2>1. gtks[k].gtk[i].set => i < Room(k)  BY <1>6 DEF Fit, Alive
  <2>2. i <= i  BY GtkNumAssumption DEF Slots
  <2>. QED BY <1>2, <2>1, <2>2 DEF Ahead
<1> HIDE DEF s, P
<1>8. /\ Others(s, t, k) /\ Fit(t.gtks[k].gtk, P \ {i}, {}, Room(k))
      /\ Spare => Stay(s.gtks[k].gtk, t.gtks[k].gtk)
  BY <1>1, <1>2, <1>3, <1>5, <1>6, <1>7, SlowTimerKeyFit
<1>9. gtks' = t.gtks  BY <1>2 DEF Become
<1> HIDE DEF t
<1>10. ASSUME NEW l \in Kinds
       PROVE  Fit(gtks'[l].gtk, Ahead(timer', l), {}, Room(l)) /\ (Spare => Stay(gtks[l].gtk, gtks'[l].gtk))
  <2>1. Ahead(timer', l) = IF l = k THEN Ahead(timer, l) \ {i} ELSE Ahead(timer, l)
    BY <1>2, AheadAfter
  <2>2. CASE l = k  BY <1>1, <1>8, <1>9, <2>1, <2>2 DEF P
  <2>3. CASE l # k
    <3>1. gtks'[l].gtk = gtks[l].gtk  BY <1>1, <1>8, <1>9, <2>3 DEF Others
    <3>. QED BY <2>1, <2>3, <3>1 DEF InOrder, Stay
  <2>. QED BY <2>2, <2>3
<1>. QED BY <1>2, <1>10 DEF InOrder, Stays

\* The actions of a running daemon between two rounds of the timer.
LEMMA DbusInOrder ==
    ASSUME InTimeAssumed, TypeOK, InOrder,
           \/ \E k \in Kinds, key \in Keys : InstallGtk(k, key)
           \/ \E given \in [Kinds -> Keys \cup {NoKey}], random \in RandomKeys :
                 RevokeGroupKeys(given, random)
    PROVE  InOrder' /\ Stays
<1> DEFINE s == Here
<1>1. s \in StateType /\ s.gtks = gtks  BY HereType DEF Here
<1>2. /\ mode = "run" /\ mode' = "run" /\ timer = Idle /\ timer' = Idle
  BY DEF InstallGtk, RevokeGroupKeys
<1>3. \A k \in Kinds : Ahead(timer, k) = {} /\ Ahead(timer', k) = {}  BY <1>2, AheadIdle
<1>4. AllFit(s)  BY <1>1, <1>3 DEF InOrder, AllFit
<1>5. SUFFICES /\ \A k \in Kinds : Fit(gtks'[k].gtk, {}, {}, Room(k))
               /\ \A k \in Kinds : ActiveHere(gtks[k].gtk, gtks'[k].gtk)
  BY <1>2, <1>3 DEF InOrder, Stays, Stay, ActiveHere
<1>6. CASE \E k \in Kinds, key \in Keys : InstallGtk(k, key)
  <2>1. PICK k \in Kinds, key \in Keys : InstallGtk(k, key)  BY <1>6
  <2> DEFINE w == [s EXCEPT !.gtks[k] = GtkInsert(s.gtks[k], key, k)]
             t == NetworkKeysFromGtksSet(w, k)
  <2>2. gtks' = t.gtks  BY <2>1 DEF InstallGtk, Become
  <2> HIDE DEF s
  <2>3. s.gtks[k] \in KeySet  BY <1>1 DEF StateType
  <2>4. GtkInsert(s.gtks[k], key, k) \in KeySet  BY <2>3, GtkInsertGood
  <2>5. w \in StateType /\ w.gtks[k] = GtkInsert(s.gtks[k], key, k) /\ Others(s, w, k)
    BY <1>1, <2>4, SetGtks DEF Others
  <2> HIDE DEF w
  <2>6. Installed(s, t, k, {}, {})
    BY <1>1, <1>4, <2>5, InsertInstalls DEF AllFit
  <2> HIDE DEF t
  <2>7. /\ \A l \in Kinds \ {k} : t.gtks[l].gtk = gtks[l].gtk
        /\ Fit(t.gtks[k].gtk, {}, {}, Room(k)) /\ ActiveHere(gtks[k].gtk, t.gtks[k].gtk)
    BY <1>1, <2>6 DEF Installed, Others, ActiveKept, ActiveHere
  <2>. QED BY <1>1, <1>4, <2>2, <2>7 DEF AllFit, ActiveHere
<1>7. CASE \E given \in [Kinds -> Keys \cup {NoKey}], random \in RandomKeys : RevokeGroupKeys(given, random)
  <2>1. PICK given \in [Kinds -> Keys \cup {NoKey}], random \in RandomKeys : RevokeGroupKeys(given, random)
    BY <1>7
  <2>2. random \in [Kinds -> Keys]  BY DEF RandomKeys, Random
  <2>3. gtks' = RevokeAll(s, given, random).gtks  BY <2>1 DEF RevokeGroupKeys, Become
  <2> HIDE DEF s
  <2>4. /\ AllFit(RevokeAll(s, given, random))
        /\ \A k \in Kinds : ActiveHere(s.gtks[k].gtk, RevokeAll(s, given, random).gtks[k].gtk)
    BY <1>1, <1>4, <2>2, RevokeAllFit
  <2>. QED BY <1>1, <2>3, <2>4 DEF AllFit
<1>. QED BY <1>6, <1>7

LEMMA InOrderStep ==
    ASSUME InTimeAssumed, TypeOK, InOrder, [Next]_vars
    PROVE  InOrder' /\ (Spare /\ mode = "run" => Stays)
<1> DEFINE Goal == InOrder' /\ (Spare /\ mode = "run" => Stays)
<1>0. MaxRestarts = 0 /\ ~(restarts < MaxRestarts) /\ "active" \notin DbusCalls
  BY DEF InTimeAssumed, TypeOK
<1>1. ASSUME NEW seconds \in 0..MaxDowntime, Boot(seconds) PROVE Goal
  <2> DEFINE d == Aged(disk, seconds)
             t == AuthInit(d, mode = "down")
  <2>1. seconds \in Nat /\ disk \in DiskType  BY BoundsAssumption DEF TypeOK
  <2>2. d \in DiskType  BY <2>1, AgedGood
  <2>3. d.exists = disk.exists  BY <2>1 DEF Aged, DiskType
  <2>4. mode \in {"down", "stopped"} /\ Become(t) /\ mode' = "init" /\ timer' = timer  BY <1>1 DEF Boot
  <2>5. ~d.exists /\ timer' = Idle  BY <2>3, <2>4 DEF InOrder
  <2> HIDE DEF d
  <2>6. (mode = "down") \in BOOLEAN  OBVIOUS
  <2>7. AllFit(t) /\ \A k \in Kinds : NoOld(t.gtks[k].gtk)  BY <2>2, <2>5, <2>6, AuthInitFit
  <2>8. gtks' = t.gtks  BY <2>4 DEF Become
  <2> HIDE DEF t
  <2>9. \A k \in Kinds : Ahead(timer', k) = {}  BY <2>5, AheadIdle
  <2>. QED BY <2>4, <2>5, <2>7, <2>8, <2>9 DEF InOrder, AllFit
<1>2. ASSUME NEW random \in RandomKeys, Start(random) PROVE Goal
  <2> DEFINE s == Here
             t == StartAll(s, random)
  <2>1. random \in [Kinds -> Keys]  BY DEF RandomKeys, Random
  <2>2. mode = "init" /\ mode' = "run" /\ timer' = timer /\ gtks' = t.gtks  BY <1>2 DEF Start, Become
  <2>3. s \in StateType /\ s.gtks = gtks  BY HereType DEF Here
  <2> HIDE DEF s
  <2>4. timer = Idle  BY <2>2 DEF InOrder
  <2>5. \A k \in Kinds : Ahead(timer, k) = {}  BY <2>4, AheadIdle
  <2>6. AllFit(s) /\ \A k \in Kinds : NoOld(s.gtks[k].gtk)  BY <2>2, <2>3, <2>5 DEF InOrder, AllFit
  <2>7. AllFit(t)  BY <2>1, <2>3, <2>6, StartAllFit
  <2> HIDE DEF t
  <2>. QED BY <2>2, <2>5, <2>7 DEF InOrder, AllFit
<1>3. ASSUME SlowTimer PROVE Goal
  <2>1. mode = "run" /\ mode' = "run" /\ timer = Idle /\ timer' = FirstPoint /\ gtks' = gtks
    BY <1>3 DEF SlowTimer
  <2>2. ASSUME NEW k \in Kinds PROVE Fit(gtks'[k].gtk, Ahead(timer', k), {}, Room(k))
    <3>1. Ahead(timer, k) = {} /\ Ahead(timer', k) = {i \in Slots : i < Room(k)}
      BY <2>1, AheadIdle, AheadFirst
    <3>2. Fit(gtks[k].gtk, {}, {}, Room(k))  BY <3>1 DEF InOrder
    <3>. QED BY <2>1, <3>1, <3>2, SecondFit
  <2>. QED BY <2>1, <2>2 DEF InOrder, Stays, Stay
<1>4. ASSUME NEW k \in Kinds, NEW i \in Slots, NEW random \in Random,
             NEW cut \in FrameCntCut(k, gtks[k].gtk[i].lifetime), TimerKey(k, i, cut, random)
      PROVE  Goal
  BY <1>4, TimerKeyInOrder
<1>5. ASSUME \/ \E k \in Kinds, key \in Keys : InstallGtk(k, key)
             \/ \E given \in [Kinds -> Keys \cup {NoKey}], random \in RandomKeys :
                   RevokeGroupKeys(given, random)
      PROVE  Goal
  BY <1>5, DbusInOrder
<1>6. ASSUME PanConfigSend \/ PanConfigConfirm \/ UNCHANGED vars PROVE Goal
  <2>1. UNCHANGED <<mode, gtks, disk, timer>>  BY <1>6 DEF PanConfigSend, PanConfigConfirm, vars
  <2>. QED BY <2>1 DEF InOrder, Stays, Stay
<1>7. ASSUME Stop \/ Crash \/ \E i \in Slots : ActiveKeyUpdate(i) PROVE Goal
  BY <1>0, <1>7 DEF Stop, Crash, ActiveKeyUpdate
<1>8. Goal  BY <1>1, <1>2, <1>3, <1>4, <1>5, <1>6, <1>7 DEF Next
<1>. QED BY <1>8

LEMMA AlwaysInOrder ==
    ASSUME InTimeAssumed
    PROVE  Spec => []InOrder
<1>1. Init => InOrder
  <2> SUFFICES ASSUME Init PROVE InOrder  OBVIOUS
  <2>1. mode = "down" /\ timer = Idle /\ disk = NoDisk /\ gtks = [k \in Kinds |-> GtksInit]  BY DEF Init
  <2>2. ~disk.exists  BY <2>1 DEF NoDisk
  <2>3. \A k \in Kinds : Ahead(timer, k) = {}  BY <2>1, AheadIdle
  <2>4. \A k \in Kinds : Fit(gtks[k].gtk, Ahead(timer, k), {}, Room(k))  BY <2>1, <2>3, EmptyFit
  <2>. QED BY <2>1, <2>2, <2>4 DEF InOrder
<1>2. TypeOK /\ InOrder /\ [Next]_vars => InOrder'
  BY InOrderStep
<1>. QED BY <1>1, <1>2, TypeCorrect, PTL DEF Spec

\* Keys expire in the order they were installed in: neither the rotation by the
\* slow timer, nor a revocation that cuts a key short and removes those after
\* it, nor a cut for the sake of the frame counters overtakes an earlier key,
\* as long as a revoked key lives at least until the next one is activated.
THEOREM KeysExpireInOrder ==
    ASSUME InTimeAssumed
    PROVE  Spec => []ExpireInOrder
<1>1. InOrder => ExpireInOrder
  <2> SUFFICES ASSUME InOrder, timer = Idle, NEW k \in Kinds, NEW i \in SetSlots(gtks[k]), NEW j \in SetSlots(gtks[k]),
                      gtks[k].gtk[i].install_order < gtks[k].gtk[j].install_order
               PROVE  gtks[k].gtk[i].lifetime <= gtks[k].gtk[j].lifetime
    BY DEF ExpireInOrder
  <2>1. InTurn(gtks[k].gtk, {})  BY AheadIdle DEF InOrder, Fit
  <2>. QED BY <2>1 DEF InTurn, Earlier, Left, SetSlots
<1>. QED BY <1>1, AlwaysInOrder, PTL

\* The active key is never taken away while it has time left: an install takes
\* no place of it even in a full set, a revocation removes only keys after it,
\* and a switch to the next key leaves it in its slot as an old key.
THEOREM ActiveKeyKept ==
    ASSUME InTimeAssumed, Spare
    PROVE  Spec => ActiveKeyStays
<1>1. TypeOK /\ InOrder /\ [Next]_vars =>
        [mode = "run" /\ mode' = "run" =>
            \A k \in Kinds, i \in Slots :
                gtks[k].gtk[i].status = "active" /\ gtks[k].gtk[i].lifetime > 1
                => /\ gtks'[k].gtk[i].key = gtks[k].gtk[i].key
                   /\ gtks'[k].gtk[i].status \in {"active", "old"}]_vars
  <2> SUFFICES ASSUME TypeOK, InOrder, [Next]_vars, mode = "run" PROVE Stays
    BY DEF Stays, Stay
  <2>. QED BY InOrderStep
<1>. QED BY <1>1, TypeCorrect, AlwaysInOrder, PTL DEF Spec, ActiveKeyStays

-----------------------------------------------------------------------------
(***************************************************************************)
(* The file holds what the daemon has.                                      *)
(*                                                                         *)
(* A key set whose flag `updated` is not set is Recorded in the file, and    *)
(* the file gives no key of it more time than Lag allows: none to a key the *)
(* timer has still to visit in this second, and else one second.            *)
(***************************************************************************)

\* A restart can put no file in place that the next one discards: there is one
\* key set only, or no restart.
OwnFile == (\A k, l \in Kinds : k = l) \/ MaxRestarts = 0

SameEntry(e, saved) ==
    /\ saved.set /\ saved.key = e.key /\ saved.install_order = e.install_order
    /\ saved.status = e.status \/ (saved.status = "fresh" /\ e.status = "active")

Recorded(ks, d, k) ==
    ~ks.updated => \A i \in Slots : ks.gtk[i].set =>
        SameEntry(ks.gtk[i], d.keys[k][i]) /\ (OwnFile => d.own_eui64)

Lag(P, i) == IF i \in P THEN 0 ELSE 1

InTime(ks, d, k, P) ==
    ~ks.updated => \A i \in Slots :
        ks.gtk[i].set => d.keys[k][i].lifetime <= ks.gtk[i].lifetime + Lag(P, i)

\* b comes out of a call on a.  The flag is set, or the keys of b are keys of
\* a, of which at most a fresh one was made active (Marked); and their lifetimes
\* are those of a (MarkedTimes).
Marked(a, b) ==
    \/ b.updated
    \/ /\ ~a.updated
       /\ \A i \in Slots : b.gtk[i].set =>
            /\ a.gtk[i].set /\ b.gtk[i].key = a.gtk[i].key
            /\ b.gtk[i].install_order = a.gtk[i].install_order
            /\ b.gtk[i].status = a.gtk[i].status
               \/ (a.gtk[i].status = "fresh" /\ b.gtk[i].status = "active")

MarkedTimes(a, b) ==
    \/ b.updated
    \/ /\ ~a.updated
       /\ \A i \in Slots : b.gtk[i].set => a.gtk[i].set /\ b.gtk[i].lifetime = a.gtk[i].lifetime

Changed(a, b) == Marked(a, b) /\ MarkedTimes(a, b)

\* Marked steps follow each other.
LEMMA MarkedTrans ==
    ASSUME NEW a, NEW b, NEW c
    PROVE  /\ Marked(a, b) /\ Marked(b, c) => Marked(a, c)
           /\ MarkedTimes(a, b) /\ MarkedTimes(b, c) => MarkedTimes(a, c)
           /\ Changed(a, a)
           /\ c.updated => Changed(a, c)
<1>1. Marked(a, b) /\ Marked(b, c) => Marked(a, c)  BY DEF Marked
<1>2. MarkedTimes(a, b) /\ MarkedTimes(b, c) => MarkedTimes(a, c)  BY DEF MarkedTimes
<1>3. Changed(a, a)  BY DEF Changed, Marked, MarkedTimes
<1>4. c.updated => Changed(a, c)  BY DEF Changed, Marked, MarkedTimes
<1>. QED BY <1>1, <1>2, <1>3, <1>4

\* What is marked stays recorded.
LEMMA MarkedRecorded ==
    ASSUME NEW a, NEW b, NEW d, NEW k, NEW P
    PROVE  /\ Marked(a, b) /\ Recorded(a, d, k) => Recorded(b, d, k)
           /\ MarkedTimes(a, b) /\ InTime(a, d, k, P) => InTime(b, d, k, P)
<1>1. ASSUME Marked(a, b), Recorded(a, d, k), ~b.updated, NEW i \in Slots, b.gtk[i].set
      PROVE  SameEntry(b.gtk[i], d.keys[k][i]) /\ (OwnFile => d.own_eui64)
  <2>1. ~a.updated /\ a.gtk[i].set  BY <1>1 DEF Marked
  <2>2. SameEntry(a.gtk[i], d.keys[k][i]) /\ (OwnFile => d.own_eui64)  BY <1>1, <2>1 DEF Recorded
  <2>3. /\ b.gtk[i].key = a.gtk[i].key /\ b.gtk[i].install_order = a.gtk[i].install_order
        /\ b.gtk[i].status = a.gtk[i].status
           \/ (a.gtk[i].status = "fresh" /\ b.gtk[i].status = "active")
    BY <1>1 DEF Marked
  <2>. QED BY <2>2, <2>3 DEF SameEntry
<1>2. ASSUME MarkedTimes(a, b), InTime(a, d, k, P), ~b.updated, NEW i \in Slots, b.gtk[i].set
      PROVE  d.keys[k][i].lifetime <= b.gtk[i].lifetime + Lag(P, i)
  BY <1>2 DEF MarkedTimes, InTime
<1>. QED BY <1>1, <1>2 DEF Recorded, InTime

\* Removing a key sets the flag, and setting one that is not there does.
LEMMA GtkClearMarks ==
    ASSUME NEW ks, NEW i
    PROVE  GtkClear(ks, i).updated
BY DEF GtkClear, InstallOrderUpdate

LEMMA GtkSetMarks ==
    ASSUME NEW ks, NEW i, NEW key, NEW lifetime
    PROVE  /\ GtkSet(ks, i, key, lifetime) = ks \/ GtkSet(ks, i, key, lifetime).updated
           /\ ~(ks.gtk[i].set /\ ks.gtk[i].key = key) => GtkSet(ks, i, key, lifetime).updated
BY DEF GtkSet

LEMMA StatusAllFreshSetMarks ==
    ASSUME NEW ks \in KeySet
    PROVE  /\ Changed(ks, StatusAllFreshSet(ks))
           /\ ks.updated => StatusAllFreshSet(ks).updated
<1> DEFINE f == [i \in Slots |->
                     IF ks.gtk[i].set /\ ks.gtk[i].status = "new"
                     THEN [ks.gtk[i] EXCEPT !.status = "fresh"]
                     ELSE ks.gtk[i]]
           h == StatusAllFreshSet(ks)
<1>1. h = [gtk |-> f, updated |-> f # ks.gtk \/ ks.updated]  BY DEF StatusAllFreshSet
<1> HIDE DEF f, h
<1>2. CASE f # ks.gtk \/ ks.updated
  <2>1. h.updated  BY <1>1, <1>2
  <2>. QED BY <2>1, MarkedTrans DEF h
<1>3. CASE ~(f # ks.gtk \/ ks.updated)
  <2>1. h.gtk = ks.gtk /\ ~ks.updated  BY <1>1, <1>3
  <2>. QED BY <2>1 DEF Changed, Marked, MarkedTimes, h
<1>. QED BY <1>2, <1>3

LEMMA StatusActiveSetMarks ==
    ASSUME NEW ks \in KeySet, NEW i
    PROVE  Changed(ks, StatusActiveSet(ks, i))
<1>1. CASE ~(i \in SetSlots(ks) /\ ks.gtk[i].status = "fresh")
  BY <1>1, MarkedTrans DEF StatusActiveSet
<1>2. CASE i \in SetSlots(ks) /\ ks.gtk[i].status = "fresh"
  <2> DEFINE f == [j \in Slots |->
                      IF j = i THEN [ks.gtk[j] EXCEPT !.status = "active"]
                      ELSE IF ks.gtk[j].status = "active"
                           THEN [ks.gtk[j] EXCEPT !.status = "old"]
                           ELSE ks.gtk[j]]
             u == ks.updated \/ \E j \in Slots : ks.gtk[j].status = "active"
             h == StatusActiveSet(ks, i)
  <2>1. h = [gtk |-> f, updated |-> u]  BY <1>2 DEF StatusActiveSet
  <2>2. CASE u
    <3> HIDE DEF u, f
    <3>1. h.updated  BY <2>1, <2>2
    <3>. QED BY <3>1, MarkedTrans
  <2>3. CASE ~u
    <3>1. ~ks.updated /\ \A j \in Slots : ks.gtk[j].status # "active"  BY <2>3
    <3>2. ASSUME NEW j \in Slots
          PROVE  /\ h.gtk[j].set = ks.gtk[j].set /\ h.gtk[j].key = ks.gtk[j].key
                 /\ h.gtk[j].install_order = ks.gtk[j].install_order
                 /\ h.gtk[j].lifetime = ks.gtk[j].lifetime
                 /\ h.gtk[j].status = ks.gtk[j].status
                    \/ (ks.gtk[j].status = "fresh" /\ h.gtk[j].status = "active")
      <4>1. ks.gtk[j] \in GtkEntry  BY DEF KeySet
      <4>2. f[j] = IF j = i THEN [ks.gtk[j] EXCEPT !.status = "active"] ELSE ks.gtk[j]  BY <3>1
      <4>3. h.gtk = f  BY <2>1
      <4> HIDE DEF f, h
      <4>. QED BY <1>2, <4>1, <4>2, <4>3 DEF GtkEntry
    <3> HIDE DEF h, f
    <3>. QED BY <3>1, <3>2 DEF Changed, Marked, MarkedTimes, h
  <2>. QED BY <2>2, <2>3
<1>. QED BY <1>1, <1>2

LEMMA LifetimeDecrementMarks ==
    ASSUME NEW ks \in KeySet, NEW i \in Slots, NEW seconds \in Nat
    PROVE  Marked(ks, LifetimeDecrement(ks, i, seconds))
<1> DEFINE h == LifetimeDecrement(ks, i, seconds)
<1>1. h.updated = ks.updated  BY DEF LifetimeDecrement, KeySet
<1>2. \A j \in Slots : /\ h.gtk[j].set = ks.gtk[j].set /\ h.gtk[j].status = ks.gtk[j].status
                       /\ h.gtk[j].install_order = ks.gtk[j].install_order
                       /\ h.gtk[j].key = ks.gtk[j].key
  BY LifetimeDecrementTimes
<1> HIDE DEF h
<1>. QED BY <1>1, <1>2 DEF Marked, h

\* Inserting a key: refused if the slot has it, and else the flag is set.
LEMMA GtkInsertMarks ==
    ASSUME NEW ks \in KeySet, NEW key \in Keys \cup {NoKey}, NEW k \in Kinds
    PROVE  /\ Changed(ks, GtkInsert(ks, key, k))
           /\ (\A i \in Slots : ks.gtk[i].set => ks.gtk[i].key # key)
              => GtkInsert(ks, key, k).updated
<1> DEFINE i == InstallIndex(ks, IsLgtk(k))
           lifetime == ExpireOffset + InstallOrderLastLifetime(ks)
           new == GtkSet(ks, i, key, lifetime)
           h == GtkInsert(ks, key, k)
<1>1. i \in Slots  BY InstallIndexType DEF IsLgtk
<1>2. lifetime \in Nat  BY InstallOrderLastType, TimersAssumption
<1>3. h = StatusAllFreshSet(new)  BY DEF GtkInsert
<1> HIDE DEF i, lifetime, h
<1>4. new \in KeySet  BY <1>1, <1>2, GtkSetType
<1>5. new = ks \/ new.updated  BY GtkSetMarks
<1>6. (\A j \in Slots : ks.gtk[j].set => ks.gtk[j].key # key) => new.updated
  BY <1>1, GtkSetMarks
<1> HIDE DEF new
<1>7. Changed(new, h) /\ (new.updated => h.updated)  BY <1>3, <1>4, StatusAllFreshSetMarks
<1>8. Changed(ks, new)  BY <1>5, MarkedTrans
<1>9. Changed(ks, h)  BY <1>7, <1>8, MarkedTrans DEF Changed
<1>. QED BY <1>6, <1>7, <1>9 DEF h

\* b has no keys but those of a, in their slots.
Fewer(a, b) == \A i \in Slots : b.gtk[i].set => a.gtk[i].set /\ b.gtk[i].key = a.gtk[i].key

LEMMA GtkClearFewer ==
    ASSUME NEW ks \in KeySet, NEW i \in Slots
    PROVE  Fewer(ks, GtkClear(ks, i))
<1> DEFINE e == [gtk |-> [ks.gtk EXCEPT ![i] = EmptyEntry], updated |-> TRUE]
<1>1. e \in KeySet  BY EmptyTypes DEF KeySet
<1>2. ~e.gtk[i].set /\ \A j \in Slots \ {i} : e.gtk[j] = ks.gtk[j]  BY DEF KeySet, EmptyEntry
<1>3. GtkClear(ks, i) = InstallOrderUpdate(e)  BY DEF GtkClear
<1> HIDE DEF e
<1>. QED BY <1>1, <1>2, <1>3, InstallOrderUpdateType DEF SameKeys, Fewer

\* A revocation of a key set: cuts a lifetime and removes keys.
LEMMA RevokeKeysMarks ==
    ASSUME NEW ks \in KeySet
    PROVE  Marked(ks, RevokeKeys(ks)) /\ Fewer(ks, RevokeKeys(ks))
<1> DEFINE Ok(c) == c \in KeySet /\ Marked(ks, c) /\ Fewer(ks, c)
<1>1. Ok(ks)  BY MarkedTrans DEF Fewer, Changed
<1>2. CASE StatusActiveGet(ks) = None
  BY <1>1, <1>2 DEF RevokeKeys
<1>3. CASE StatusActiveGet(ks) # None
  <2> DEFINE active == StatusActiveGet(ks)
             second == InstallOrderSecondIndex(ks)
             left == ks.gtk[active].lifetime
             limit == left + RevocationLifetime
             keep == RevokeIndex(ks)
             c0 == RevokeCut(ks)
             c1 == ClearLast(c0, keep)
             c2 == ClearLast(c1, keep)
             c3 == ClearLast(c2, keep)
             c4 == ClearLast(c3, keep)
  <2>1. active \in Slots  BY <1>3, StatusActiveGetType DEF ActiveSlots
  <2>2. second # None => second \in Slots
    BY IndexOfOrderType DEF InstallOrderSecondIndex, SetSlots
  <2>3. RevocationLifetime \in Nat  BY TimeTypes
  <2>4. \A i \in Slots : ks.gtk[i].lifetime \in Nat
    <3>1. ks.gtk \in Table  BY DEF KeySet, Table
    <3>. QED BY <3>1, TableFacts
  <2>5. \/ c0 = ks
        \/ /\ left > RevocationLifetime
           /\ c0 = LifetimeDecrement(ks, active, left - RevocationLifetime)
        \/ /\ second # None /\ ks.gtk[second].lifetime > limit
           /\ c0 = LifetimeDecrement(ks, second, ks.gtk[second].lifetime - limit)
    BY DEF RevokeCut
  <2>6. RevokeKeys(ks) = c4  BY <1>3 DEF RevokeKeys, ClearAfter
  <2> HIDE DEF active, second, keep, c0
  <2>7. c0 = ks \/ \E i \in Slots, n \in Nat : c0 = LifetimeDecrement(ks, i, n)
    <3>1. left > RevocationLifetime => left - RevocationLifetime \in Nat  BY <2>1, <2>3, <2>4
    <3>2. second # None /\ ks.gtk[second].lifetime > limit
          => ks.gtk[second].lifetime - limit \in Nat
      BY <2>1, <2>2, <2>3, <2>4
    <3>. QED BY <2>1, <2>2, <2>5, <3>1, <3>2
  <2>8. ASSUME NEW i \in Slots, NEW n \in Nat PROVE Ok(LifetimeDecrement(ks, i, n))
    <3>1. \A j \in Slots : /\ LifetimeDecrement(ks, i, n).gtk[j].set = ks.gtk[j].set
                           /\ LifetimeDecrement(ks, i, n).gtk[j].key = ks.gtk[j].key
      BY LifetimeDecrementTimes
    <3>2. Fewer(ks, LifetimeDecrement(ks, i, n))  BY <3>1 DEF Fewer
    <3>. QED BY <3>2, LifetimeDecrementGood, LifetimeDecrementMarks
  <2>9. Ok(c0)
    <3> HIDE DEF Ok
    <3>. QED BY <1>1, <2>7, <2>8
  <2>10. ASSUME NEW c, Ok(c) PROVE Ok(ClearLast(c, keep))
    <3> DEFINE last == InstallOrderLastIndex(c)
    <3>1. last # None => last \in Slots  BY <2>10, LastIndexIsSet DEF SetSlots
    <3>2. ClearLast(c, keep) = c \/ (last # None /\ ClearLast(c, keep) = GtkClear(c, last))
      BY DEF ClearLast
    <3>3. ASSUME NEW i \in Slots PROVE Ok(GtkClear(c, i))
      <4>1. GtkClear(c, i) \in KeySet /\ GtkClear(c, i).updated /\ Fewer(c, GtkClear(c, i))
        BY <2>10, GtkClearType, GtkClearMarks, GtkClearFewer
      <4>2. Marked(ks, GtkClear(c, i))  BY <4>1, MarkedTrans DEF Changed
      <4>3. Fewer(ks, GtkClear(c, i))  BY <2>10, <4>1 DEF Fewer
      <4>. QED BY <4>1, <4>2, <4>3
    <3> HIDE DEF last, Ok
    <3>. QED BY <2>10, <3>1, <3>2, <3>3
  <2> HIDE DEF Ok
  <2>11. Ok(c1)  BY <2>9, <2>10
  <2>12. Ok(c2)  BY <2>10, <2>11
  <2>13. Ok(c3)  BY <2>10, <2>12
  <2>14. Ok(c4)  BY <2>10, <2>13
  <2>. QED BY <2>6, <2>14 DEF Ok
<1>. QED BY <1>2, <1>3

\* The same for the record that the handlers pass on.  P are the slots of a
\* kind that the timer has still to visit.  A call that writes the file leaves
\* every kind in time.
AllRecorded(s) == \A k \in Kinds : Recorded(s.gtks[k], s.disk, k)
OneInTime(s, k, P) == InTime(s.gtks[k], s.disk, k, P)
KeepTimes(s, t, k) == \A P : OneInTime(s, k, P) => OneInTime(t, k, P)
Written(s) == \A k \in Kinds : \A P : OneInTime(s, k, P)
Plain(s) == \A k \in Kinds : s.next[k] = GtksInit

Carries(s, t) ==
    /\ t \in StateType
    /\ AllRecorded(s) => AllRecorded(t)
    /\ \A k \in Kinds : KeepTimes(s, t, k)
    /\ t.disk # s.disk => Written(t)
    /\ Plain(s) => Plain(t)

LEMMA CarriesTrans ==
    ASSUME NEW s \in StateType, NEW t, NEW u
    PROVE  Carries(s, s) /\ (Carries(s, t) /\ Carries(t, u) => Carries(s, u))
<1>1. Carries(s, s)  BY DEF Carries, KeepTimes
<1>2. ASSUME Carries(s, t), Carries(t, u) PROVE Carries(s, u)
  <2>1. \A k \in Kinds : KeepTimes(s, u, k)  BY <1>2 DEF Carries, KeepTimes
  <2>2. u.disk # s.disk => Written(u)
    <3>1. CASE u.disk # t.disk  BY <1>2, <3>1 DEF Carries
    <3>2. CASE t.disk # s.disk  BY <1>2, <3>2 DEF Carries, KeepTimes, Written
    <3>. QED BY <3>1, <3>2
  <2>. QED BY <1>2, <2>1, <2>2 DEF Carries
<1>. QED BY <1>1, <1>2

\* From s to t the set of kind k becomes ks.
SetOne(s, t, k, ks) ==
    /\ t \in StateType /\ t.disk = s.disk /\ t.next = s.next
    /\ t.gtks[k] = ks /\ \A l \in Kinds \ {k} : t.gtks[l] = s.gtks[l]

LEMMA SetOneRecorded ==
    ASSUME NEW s \in StateType, NEW t, NEW k \in Kinds, NEW ks, SetOne(s, t, k, ks)
    PROVE  /\ Marked(s.gtks[k], ks) => (AllRecorded(s) => AllRecorded(t))
           /\ MarkedTimes(s.gtks[k], ks) => \A l \in Kinds : KeepTimes(s, t, l)
           /\ \A l \in Kinds \ {k} : KeepTimes(s, t, l)
           /\ Plain(s) => Plain(t)
<1>1. ASSUME Marked(s.gtks[k], ks), AllRecorded(s), NEW l \in Kinds
      PROVE  Recorded(t.gtks[l], t.disk, l)
  <2>1. t.disk = s.disk /\ Recorded(s.gtks[l], t.disk, l)  BY <1>1 DEF SetOne, AllRecorded
  <2>2. CASE l = k  BY <1>1, <2>1, <2>2, MarkedRecorded DEF SetOne
  <2>3. CASE l # k  BY <2>1, <2>3 DEF SetOne
  <2>. QED BY <2>2, <2>3
<1>2. ASSUME NEW l \in Kinds, l = k => MarkedTimes(s.gtks[k], ks), NEW P, OneInTime(s, l, P)
      PROVE  OneInTime(t, l, P)
  <2>1. t.disk = s.disk /\ InTime(s.gtks[l], t.disk, l, P)  BY <1>2 DEF SetOne, OneInTime
  <2>2. CASE l = k
    <3>1. InTime(ks, t.disk, l, P)  BY <1>2, <2>1, <2>2, MarkedRecorded
    <3>. QED BY <2>2, <3>1 DEF SetOne, OneInTime
  <2>3. CASE l # k  BY <2>1, <2>3 DEF SetOne, OneInTime
  <2>. QED BY <2>2, <2>3
<1>3. Plain(s) => Plain(t)  BY DEF Plain, SetOne
<1>. QED BY <1>1, <1>2, <1>3 DEF AllRecorded, KeepTimes

LEMMA SetOneCarries ==
    ASSUME NEW s \in StateType, NEW t, NEW k \in Kinds, NEW ks, SetOne(s, t, k, ks),
           Changed(s.gtks[k], ks)
    PROVE  Carries(s, t)
<1>1. t \in StateType /\ t.disk = s.disk  BY DEF SetOne
<1>2. Marked(s.gtks[k], ks) /\ MarkedTimes(s.gtks[k], ks)  BY DEF Changed
<1>. QED BY <1>1, <1>2, SetOneRecorded DEF Carries

\* Other fields may change.
LEMMA OtherFieldsCarry ==
    ASSUME NEW s \in StateType, NEW t \in StateType,
           t.gtks = s.gtks, t.disk = s.disk, t.next = s.next
    PROVE  Carries(s, t)
BY DEF Carries, AllRecorded, KeepTimes, OneInTime, Plain

\* A file that was just written holds every key.
LEMMA WrittenRecorded ==
    ASSUME NEW ks, NEW d, NEW k \in Kinds, NEW P, d.keys[k] = ks.gtk, ks.gtk \in Table
    PROVE  /\ (OwnFile => d.own_eui64) => Recorded(ks, d, k)
           /\ InTime(ks, d, k, P)
<1>1. \A i \in Slots : ks.gtk[i].lifetime \in Nat  BY TableFacts
<1>2. ASSUME NEW i \in Slots PROVE d.keys[k][i].lifetime <= ks.gtk[i].lifetime + Lag(P, i)
  <2>1. Lag(P, i) \in Nat  BY DEF Lag
  <2>. QED BY <1>1, <2>1
<1>3. \A i \in Slots : ks.gtk[i].set => SameEntry(ks.gtk[i], d.keys[k][i])  BY DEF SameEntry
<1>. QED BY <1>2, <1>3 DEF Recorded, InTime

LEMMA NwInfoCarries ==
    ASSUME NEW s \in StateType
    PROVE  Carries(s, NwInfoUpdatedCheck(s))
<1> DEFINE t == NwInfoUpdatedCheck(s)
<1>1. t \in StateType  BY NwInfoUpdatedCheckKeeps DEF Keeps
<1>2. CASE t = s  BY <1>2, CarriesTrans
<1>3. CASE t = [s EXCEPT !.gtks = [k \in Kinds |-> UpdatedReset(s.gtks[k])],
                         !.disk = DiskOf(s.gtks, TRUE), !.wrote = TornWrites]
  <2>1. s.gtks \in [Kinds -> KeySet]  BY DEF StateType
  <2>2. /\ t.gtks = [k \in Kinds |-> UpdatedReset(s.gtks[k])]
        /\ t.disk = DiskOf(s.gtks, TRUE) /\ t.next = s.next
    BY <1>3 DEF StateType
  <2>3. \A k \in Kinds : DiskOf(s.gtks, TRUE).keys[k] = s.gtks[k].gtk  BY <2>1, DiskOfType
  <2>4. DiskOf(s.gtks, TRUE).own_eui64  BY DEF DiskOf
  <2>5. ASSUME NEW k \in Kinds
        PROVE  t.gtks[k].gtk \in Table /\ t.disk.keys[k] = t.gtks[k].gtk
    <3>1. UpdatedReset(s.gtks[k]).gtk = s.gtks[k].gtk  BY <2>1, UpdatedResetGood
    <3>2. s.gtks[k].gtk \in Table  BY <2>1 DEF KeySet, Table
    <3>. QED BY <2>2, <2>3, <3>1, <3>2
  <2> HIDE DEF t
  <2>6. AllRecorded(t) /\ Written(t)
    BY <2>2, <2>4, <2>5, WrittenRecorded DEF AllRecorded, Written, OneInTime
  <2>7. Plain(s) => Plain(t)  BY <2>2 DEF Plain
  <2>8. \A k \in Kinds : KeepTimes(s, t, k)  BY <2>6 DEF Written, KeepTimes
  <2>. QED BY <1>1, <2>6, <2>7, <2>8 DEF Carries, t
<1>. QED BY <1>2, <1>3 DEF NwInfoUpdatedCheck

LEMMA SetGtksOne ==
    ASSUME NEW s \in StateType, NEW k \in Kinds, NEW ks \in KeySet
    PROVE  SetOne(s, [s EXCEPT !.gtks[k] = ks], k, ks)
BY SetGtks DEF SetOne

LEMMA NetworkKeysCarry ==
    ASSUME NEW s \in StateType, NEW k \in Kinds
    PROVE  Carries(s, NetworkKeysFromGtksSet(s, k))
<1> DEFINE t == NetworkKeysFromGtksSet(s, k)
           ks == StatusAllFreshSet(s.gtks[k])
<1>1. t \in StateType  BY NetworkKeysFromGtksSetKeeps
<1>2. t.gtks = [s.gtks EXCEPT ![k] = ks] /\ t.disk = s.disk /\ t.next = s.next
  BY DEF NetworkKeysFromGtksSet, StateType
<1>3. s.gtks \in [Kinds -> KeySet]  BY DEF StateType
<1>4. Changed(s.gtks[k], ks)  BY <1>3, StatusAllFreshSetMarks
<1> HIDE DEF t, ks
<1>5. SetOne(s, t, k, ks)  BY <1>1, <1>2, <1>3 DEF SetOne
<1>. QED BY <1>4, <1>5, SetOneCarries DEF t

\* A random or a configured key; where none is configured, the random one.
LEMMA KeyInsertFacts ==
    ASSUME NEW s \in StateType, NEW k \in Kinds, NEW random \in Keys
    PROVE  LET t == GtkKeyInsert(s, k, random)
           IN  /\ t \in StateType /\ t.disk = s.disk
               /\ \A l \in Kinds \ {k} : t.gtks[l] = s.gtks[l]
               /\ \E value \in Keys \cup {NoKey} : t.gtks[k] = GtkInsert(s.gtks[k], value, k)
               /\ Plain(s) => t.next = s.next /\ t.gtks[k] = GtkInsert(s.gtks[k], random, k)
<1> DEFINE n == InstallOrderFirstIndex(s.next[k])
           useNext == n # None /\ InstallOrderSecondIndex(s.gtks[k]) # None
           value == IF useNext THEN KeyAt(s.next[k], n) ELSE random
           nx == IF useNext THEN GtkSet(s.next[k], n, value, 0) ELSE s.next[k]
           t == GtkKeyInsert(s, k, random)
<1>1. /\ s.next[k] \in KeySet /\ s.gtks \in [Kinds -> KeySet] /\ s.next \in [Kinds -> KeySet]
  BY DEF StateType
<1>2. n # None => n \in Slots
  BY <1>1, IndexOfOrderType DEF InstallOrderFirstIndex, SetSlots
<1>3. value \in Keys \cup {NoKey}
  <2>1. \A i \in Slots : s.next[k].gtk[i] \in GtkEntry  BY <1>1 DEF KeySet
  <2>2. \A i \in Slots : KeyAt(s.next[k], i) \in Keys \cup {NoKey}  BY <2>1 DEF KeyAt, GtkEntry
  <2> HIDE DEF n
  <2>. QED BY <1>2, <2>2
<1>4. Plain(s) => n = None
  <2> SUFFICES ASSUME Plain(s) PROVE n = None  OBVIOUS
  <2>1. s.next[k] = GtksInit  BY DEF Plain
  <2>2. SetSlots(GtksInit) = {}  BY DEF SetSlots, GtksInit, EmptyEntry
  <2>. QED BY <2>1, <2>2 DEF InstallOrderFirstIndex, IndexOfOrder
<1>5. Plain(s) => value = random /\ nx = s.next[k]
  <2> HIDE DEF n
  <2>. QED BY <1>4
<1>6. t = [s EXCEPT !.gtks[k] = GtkInsert(s.gtks[k], value, k), !.next[k] = nx]
  BY DEF GtkKeyInsert
<1>7. t \in StateType  BY GtkKeyInsertGood
<1> HIDE DEF value, nx, t
<1>8. /\ t.gtks = [s.gtks EXCEPT ![k] = GtkInsert(s.gtks[k], value, k)]
      /\ t.disk = s.disk /\ t.next = [s.next EXCEPT ![k] = nx]
  BY <1>6 DEF StateType
<1>9. Plain(s) => t.next = s.next  BY <1>1, <1>5, <1>8
<1>10. \A l \in Kinds : t.gtks[l] = IF l = k THEN GtkInsert(s.gtks[k], value, k) ELSE s.gtks[l]
  BY <1>1, <1>8
<1>. QED BY <1>3, <1>5, <1>7, <1>8, <1>9, <1>10 DEF t

LEMMA KeyInsertCarries ==
    ASSUME NEW s \in StateType, NEW k \in Kinds, NEW random \in Keys
    PROVE  Carries(s, GtkKeyInsert(s, k, random))
<1> DEFINE t == GtkKeyInsert(s, k, random)
           v == [s EXCEPT !.gtks[k] = t.gtks[k]]
<1>1. /\ t \in StateType /\ t.disk = s.disk
      /\ \A l \in Kinds \ {k} : t.gtks[l] = s.gtks[l]
      /\ \E value \in Keys \cup {NoKey} : t.gtks[k] = GtkInsert(s.gtks[k], value, k)
      /\ Plain(s) => t.next = s.next
  BY KeyInsertFacts
<1> HIDE DEF t
<1>2. s.gtks[k] \in KeySet /\ t.gtks[k] \in KeySet  BY <1>1 DEF StateType
<1>3. Changed(s.gtks[k], t.gtks[k])  BY <1>1, <1>2, GtkInsertMarks
<1>4. SetOne(s, v, k, t.gtks[k])  BY <1>2, SetGtksOne
<1>5. Carries(s, v)  BY <1>3, <1>4, SetOneCarries
<1>6. v.disk = t.disk /\ \A l \in Kinds : v.gtks[l] = t.gtks[l]  BY <1>1, <1>4 DEF SetOne
<1> HIDE DEF v
<1>7. (AllRecorded(v) => AllRecorded(t)) /\ \A l \in Kinds : KeepTimes(v, t, l)
  BY <1>6 DEF AllRecorded, KeepTimes, OneInTime
<1>8. Plain(s) => Plain(t)  BY <1>1 DEF Plain
<1>9. \A l \in Kinds : KeepTimes(s, t, l)  BY <1>5, <1>7 DEF Carries, KeepTimes
<1>. QED BY <1>1, <1>5, <1>7, <1>8, <1>9 DEF Carries, t

LEMMA NewInstallCarries ==
    ASSUME NEW s \in StateType, NEW k \in Kinds, NEW left, NEW random \in Keys
    PROVE  Carries(s, NewInstall(s, k, left, random))
<1> DEFINE due == [s EXCEPT !.instReq[k] = TRUE]
           ins == GtkKeyInsert(due, k, random)
           net == NetworkKeysFromGtksSet(ins, k)
           t == NewInstall(s, k, left, random)
<1>1. due \in StateType /\ due.gtks = s.gtks /\ due.disk = s.disk /\ due.next = s.next
  <2>1. [s.instReq EXCEPT ![k] = TRUE] \in [Kinds -> BOOLEAN]  BY DEF StateType
  <2>. QED BY <2>1 DEF StateType
<1>2. t = s \/ t = due \/ t = NwInfoUpdatedCheck(net)  BY DEF NewInstall
<1> HIDE DEF due, t
<1>3. Carries(s, due)  BY <1>1, OtherFieldsCarry
<1>4. Carries(due, ins)  BY <1>1, KeyInsertCarries
<1>5. ins \in StateType  BY <1>4 DEF Carries
<1> HIDE DEF ins
<1>6. Carries(ins, net)  BY <1>5, NetworkKeysCarry
<1>7. net \in StateType  BY <1>6 DEF Carries
<1> HIDE DEF net
<1>8. Carries(net, NwInfoUpdatedCheck(net))  BY <1>7, NwInfoCarries
<1>9. Carries(s, NwInfoUpdatedCheck(net)) /\ Carries(s, s)
  BY <1>1, <1>3, <1>4, <1>5, <1>6, <1>7, <1>8, CarriesTrans
<1>. QED BY <1>2, <1>3, <1>9 DEF t

LEMMA NewActivationCarries ==
    ASSUME NEW s \in StateType, NEW k \in Kinds, NEW left
    PROVE  Carries(s, NewActivation(s, k, left))
<1>1. CASE ~NewActivationTime(left)
  <2>1. NewActivation(s, k, left) = s  BY <1>1 DEF NewActivation
  <2>. QED BY <2>1, CarriesTrans
<1>2. CASE NewActivationTime(left)
  <2> DEFINE second == InstallOrderSecondIndex(s.gtks[k])
             ks == StatusActiveSet(s.gtks[k], second)
             active == [s EXCEPT !.gtks[k] = ks]
             sent == IF second # None THEN NetworkKeyIndexSet(active, k, second)
                                      ELSE active
             u == [sent EXCEPT !.instReq[k] = FALSE]
  <2>1. s.gtks[k] \in KeySet  BY DEF StateType
  <2>2. second # None => second \in Slots
    BY <2>1, IndexOfOrderType DEF InstallOrderSecondIndex, SetSlots
  <2>3. ks \in KeySet /\ Changed(s.gtks[k], ks)
    BY <2>1, StatusActiveSetGood, StatusActiveSetMarks
  <2>4. NewActivation(s, k, left) = NwInfoUpdatedCheck(u)  BY <1>2 DEF NewActivation
  <2> HIDE DEF ks, second
  <2>5. Carries(s, active) /\ active \in StateType  BY <2>3, SetGtksOne, SetOneCarries DEF Carries
  <2> HIDE DEF active
  <2>6. /\ sent \in StateType /\ sent.gtks = active.gtks /\ sent.disk = active.disk
        /\ sent.next = active.next
    BY <2>2, <2>5, NetworkKeyIndexSetType DEF NetworkKeyIndexSet, StateType
  <2> HIDE DEF sent
  <2>7. u \in StateType /\ u.gtks = active.gtks /\ u.disk = active.disk /\ u.next = active.next
    <3>1. [sent.instReq EXCEPT ![k] = FALSE] \in [Kinds -> BOOLEAN]  BY <2>6 DEF StateType
    <3>. QED BY <2>6, <3>1 DEF StateType
  <2> HIDE DEF u
  <2>8. Carries(active, u)  BY <2>5, <2>7, OtherFieldsCarry
  <2>9. Carries(u, NwInfoUpdatedCheck(u))  BY <2>7, NwInfoCarries
  <2>. QED BY <2>4, <2>5, <2>7, <2>8, <2>9, CarriesTrans
<1>. QED BY <1>1, <1>2

LEMMA ExpireCarries ==
    ASSUME NEW s \in StateType, NEW k \in Kinds, NEW i \in Slots
    PROVE  Carries(s, Expire(s, k, i))
<1> DEFINE ks == GtkClear(s.gtks[k], i)
           clr == [s EXCEPT !.gtks[k] = ks]
           net == NetworkKeysFromGtksSet(clr, k)
<1>1. s.gtks[k] \in KeySet  BY DEF StateType
<1>2. ks \in KeySet /\ ks.updated  BY <1>1, GtkClearType, GtkClearMarks
<1>3. Expire(s, k, i) = NwInfoUpdatedCheck(net)  BY DEF Expire
<1> HIDE DEF ks
<1>4. Changed(s.gtks[k], ks)  BY <1>2, MarkedTrans
<1>5. Carries(s, clr) /\ clr \in StateType  BY <1>2, <1>4, SetGtksOne, SetOneCarries DEF Carries
<1> HIDE DEF clr
<1>6. Carries(clr, net) /\ net \in StateType  BY <1>5, NetworkKeysCarry DEF Carries
<1> HIDE DEF net
<1>7. Carries(net, NwInfoUpdatedCheck(net))  BY <1>6, NwInfoCarries
<1>. QED BY <1>3, <1>5, <1>6, <1>7, CarriesTrans

\* A second passes for the key of a slot: the file, in which it has passed
\* before, is now a second behind there.
LEMMA VisitInTime ==
    ASSUME NEW ks \in KeySet, NEW d \in DiskType, NEW k \in Kinds, NEW i \in Slots, NEW P, i \in P,
           InTime(ks, d, k, P)
    PROVE  /\ InTime(LifetimeDecrement(ks, i, 1), d, k, P \ {i})
           /\ ~ks.gtk[i].set => InTime(ks, d, k, P \ {i})
<1> DEFINE h == LifetimeDecrement(ks, i, 1)
<1>1. h.updated = ks.updated  BY DEF LifetimeDecrement, KeySet
<1>2. /\ \A j \in Slots : h.gtk[j].set = ks.gtk[j].set /\ (j # i => h.gtk[j] = ks.gtk[j])
      /\ h.gtk[i].lifetime = IF ks.gtk[i].lifetime > 1 THEN ks.gtk[i].lifetime - 1 ELSE 0
  BY LifetimeDecrementTimes
<1>3. \A j \in Slots : ks.gtk[j].lifetime \in Nat /\ d.keys[k][j].lifetime \in Nat
  <2>1. ks.gtk \in Table /\ d.keys[k] \in Table  BY DEF KeySet, DiskType, Table
  <2>. QED BY <2>1, TableFacts
<1> HIDE DEF h
<1>4. \A j \in Slots \ {i} : Lag(P \ {i}, j) = Lag(P, j)  BY DEF Lag
<1>5. Lag(P \ {i}, i) = 1 /\ Lag(P, i) = 0  BY DEF Lag
<1>6. ASSUME ~h.updated, NEW j \in Slots, h.gtk[j].set
      PROVE  d.keys[k][j].lifetime <= h.gtk[j].lifetime + Lag(P \ {i}, j)
  <2>1. d.keys[k][j].lifetime <= ks.gtk[j].lifetime + Lag(P, j)  BY <1>1, <1>2, <1>6 DEF InTime
  <2>2. CASE j = i  BY <1>2, <1>3, <1>5, <2>1, <2>2
  <2>3. CASE j # i  BY <1>2, <1>4, <2>1, <2>3
  <2>. QED BY <2>2, <2>3
<1>7. ~ks.gtk[i].set => InTime(ks, d, k, P \ {i})  BY <1>4 DEF InTime
<1>. QED BY <1>6, <1>7 DEF InTime, h

\* One slot's turn of the timer.
LEMMA SlowTimerKeyCarries ==
    ASSUME NEW s \in StateType, NEW k \in Kinds, NEW i \in Slots, NEW cut \in Nat, NEW random \in Keys
    PROVE  LET t == SlowTimerKey(s, k, i, cut, random)
           IN  /\ t \in StateType
               /\ AllRecorded(s) => AllRecorded(t)
               /\ Plain(s) => Plain(t)
               /\ \A l \in Kinds \ {k} : KeepTimes(s, t, l)
               /\ cut = 0 => \A P : i \in P /\ OneInTime(s, k, P) => OneInTime(t, k, P \ {i})
               /\ t.disk # s.disk => Written(t)
<1> DEFINE active == StatusActiveGet(s.gtks[k]) = i
           ks == LifetimeDecrement(s.gtks[k], i, 1 + cut)
           older == [s EXCEPT !.gtks[k] = ks]
           left == older.gtks[k].gtk[i].lifetime
           inst == NewInstall(older, k, left, random)
           rotated == NewActivation(inst, k, left)
           kept == IF ~active THEN older
                   ELSE IF cut # 0 THEN NwInfoUpdatedCheck(rotated)
                   ELSE rotated
           t == SlowTimerKey(s, k, i, cut, random)
<1>1. s.gtks[k] \in KeySet /\ s.disk \in DiskType  BY DEF StateType
<1>2. 1 + cut \in Nat  OBVIOUS
<1>3. ks \in KeySet /\ Marked(s.gtks[k], ks)
  BY <1>1, <1>2, LifetimeDecrementGood, LifetimeDecrementMarks
<1>4. \/ ~s.gtks[k].gtk[i].set /\ t = s
      \/ t = kept \/ t = Expire(kept, k, i)
  BY DEF SlowTimerKey
<1>5. SetOne(s, older, k, ks)  BY <1>3, SetGtksOne
<1>6. older \in StateType /\ older.disk = s.disk  BY <1>5 DEF SetOne
<1>7. /\ AllRecorded(s) => AllRecorded(older)
      /\ Plain(s) => Plain(older)
      /\ \A l \in Kinds \ {k} : KeepTimes(s, older, l)
  <2> HIDE DEF ks, older
  <2>. QED BY <1>3, <1>5, SetOneRecorded
<1>8. ASSUME NEW P, i \in P, OneInTime(s, k, P), cut = 0
      PROVE  OneInTime(older, k, P \ {i}) /\ (~s.gtks[k].gtk[i].set => OneInTime(s, k, P \ {i}))
  <2>1. 1 + cut = 1  BY <1>8
  <2>2. InTime(s.gtks[k], s.disk, k, P)  BY <1>8 DEF OneInTime
  <2>3. /\ InTime(ks, s.disk, k, P \ {i})
        /\ ~s.gtks[k].gtk[i].set => InTime(s.gtks[k], s.disk, k, P \ {i})
    BY <1>1, <1>8, <2>1, <2>2, VisitInTime
  <2> HIDE DEF ks, older
  <2>. QED BY <1>5, <2>3 DEF OneInTime, SetOne
<1> HIDE DEF ks, older
<1>9. Carries(older, inst) /\ inst \in StateType  BY <1>6, NewInstallCarries DEF Carries
<1> HIDE DEF inst
<1>10. Carries(inst, rotated) /\ rotated \in StateType  BY <1>9, NewActivationCarries DEF Carries
<1> HIDE DEF rotated
<1>11. Carries(rotated, NwInfoUpdatedCheck(rotated))  BY <1>10, NwInfoCarries
<1>12. Carries(older, kept) /\ kept \in StateType
  <2>1. Carries(older, older) /\ Carries(older, rotated) /\ Carries(older, NwInfoUpdatedCheck(rotated))
    BY <1>6, <1>9, <1>10, <1>11, CarriesTrans
  <2>2. kept \in {older, rotated, NwInfoUpdatedCheck(rotated)}  OBVIOUS
  <2> HIDE DEF kept
  <2>3. Carries(older, kept)  BY <2>1, <2>2
  <2>. QED BY <2>3 DEF Carries
<1> HIDE DEF kept
<1>13. Carries(older, Expire(kept, k, i))  BY <1>6, <1>12, ExpireCarries, CarriesTrans
<1>14. (~s.gtks[k].gtk[i].set /\ t = s) \/ Carries(older, t)  BY <1>4, <1>12, <1>13
<1> HIDE DEF t
<1>15. t \in StateType /\ (AllRecorded(s) => AllRecorded(t)) /\ (Plain(s) => Plain(t))
  BY <1>7, <1>14 DEF Carries
<1>16. ASSUME cut = 0, NEW P, i \in P, OneInTime(s, k, P)
       PROVE  OneInTime(t, k, P \ {i})
  <2>1. OneInTime(older, k, P \ {i}) /\ (~s.gtks[k].gtk[i].set => OneInTime(s, k, P \ {i}))
    BY <1>8, <1>16
  <2>. QED BY <1>14, <2>1 DEF Carries, KeepTimes
<1>17. \A l \in Kinds \ {k} : KeepTimes(s, t, l)
  BY <1>7, <1>14 DEF Carries, KeepTimes
<1>18. t.disk # s.disk => Written(t)
  BY <1>6, <1>14 DEF Carries
<1>. QED BY <1>15, <1>16, <1>17, <1>18 DEF t

\* The key is none of those in the set of kind k.
NewTo(s, k, key) == \A i \in Slots : s.gtks[k].gtk[i].set => s.gtks[k].gtk[i].key # key

\* The key that a revocation installs.
NewKey(given, random) == IF given = NoKey THEN random ELSE given

\* Revoking one key set.  It cuts lifetimes, but a key that is new to the set
\* sets the flag.
LEMMA RevokeStartCarries ==
    ASSUME NEW s \in StateType, NEW k \in Kinds, NEW given \in Keys \cup {NoKey}, NEW random \in Keys
    PROVE  LET t == RevokeStart(s, k, given, random)
           IN  /\ t \in StateType
               /\ AllRecorded(s) => AllRecorded(t)
               /\ Plain(s) => Plain(t)
               /\ Plain(s) /\ NewTo(s, k, NewKey(given, random)) => KeepTimes(s, t, k)
               /\ \A l \in Kinds \ {k} : KeepTimes(s, t, l)
               /\ t.disk # s.disk => Written(t)
               /\ \A l \in Kinds \ {k} : t.gtks[l].gtk = s.gtks[l].gtk
<1> DEFINE ks == RevokeKeys(s.gtks[k])
           cut == [s EXCEPT !.gtks[k] = ks]
           new == IF given # NoKey THEN [cut EXCEPT !.gtks[k] = GtkInsert(cut.gtks[k], given, k)]
                  ELSE GtkKeyInsert(cut, k, random)
           net == NetworkKeysFromGtksSet(new, k)
           t == NwInfoUpdatedCheck(net)
<1>1. s.gtks[k] \in KeySet  BY DEF StateType
<1>2. ks \in KeySet /\ Marked(s.gtks[k], ks) /\ Fewer(s.gtks[k], ks)
  BY <1>1, RevokeKeysGood, RevokeKeysMarks
<1>3. RevokeStart(s, k, given, random) = t  BY DEF RevokeStart
<1> HIDE DEF ks
<1>4. SetOne(s, cut, k, ks)  BY <1>2, SetGtksOne
<1> HIDE DEF cut
<1>5. cut \in StateType /\ cut.gtks[k] = ks /\ cut.disk = s.disk /\ cut.next = s.next
      /\ \A l \in Kinds \ {k} : cut.gtks[l] = s.gtks[l]
  BY <1>4 DEF SetOne
<1>6. /\ AllRecorded(s) => AllRecorded(cut)
      /\ Plain(s) => Plain(cut)
      /\ \A l \in Kinds \ {k} : KeepTimes(s, cut, l)
  BY <1>2, <1>4, SetOneRecorded
<1>7. Carries(cut, new) /\ \A l \in Kinds \ {k} : new.gtks[l] = s.gtks[l]
  <2>1. CASE given # NoKey
    <3> DEFINE ins == GtkInsert(cut.gtks[k], given, k)
               v == [cut EXCEPT !.gtks[k] = ins]
    <3>1. ins \in KeySet /\ Changed(cut.gtks[k], ins)
      BY <1>2, <1>5, GtkInsertGood, GtkInsertMarks
    <3>2. new = v  BY <2>1
    <3> HIDE DEF ins
    <3>3. SetOne(cut, v, k, ins)  BY <1>5, <3>1, SetGtksOne
    <3> HIDE DEF v, new
    <3>4. Carries(cut, v)  BY <1>5, <3>1, <3>3, SetOneCarries
    <3>. QED BY <1>5, <3>2, <3>3, <3>4 DEF SetOne
  <2>2. CASE given = NoKey
    <3> DEFINE v == GtkKeyInsert(cut, k, random)
    <3>1. new = v  BY <2>2
    <3>2. Carries(cut, v) /\ \A l \in Kinds \ {k} : v.gtks[l] = cut.gtks[l]
      BY <1>5, KeyInsertCarries, KeyInsertFacts
    <3> HIDE DEF v, new
    <3>. QED BY <1>5, <3>1, <3>2
  <2>. QED BY <2>1, <2>2
<1>8. ASSUME Plain(s), NewTo(s, k, NewKey(given, random)) PROVE new.gtks[k].updated
  <2> DEFINE value == NewKey(given, random)
  <2>1. value \in Keys \cup {NoKey}  BY DEF NewKey
  <2>2. new.gtks[k] = GtkInsert(ks, value, k)
    <3>1. CASE given = NoKey  BY <1>5, <1>6, <1>8, <3>1, KeyInsertFacts DEF NewKey
    <3>2. CASE given # NoKey
      <4> DEFINE ins == GtkInsert(ks, given, k)
      <4>1. ins \in KeySet  BY <1>2, GtkInsertGood
      <4>2. new = [cut EXCEPT !.gtks[k] = ins] /\ value = given  BY <1>5, <3>2 DEF NewKey
      <4> HIDE DEF ins, new
      <4>3. SetOne(cut, new, k, ins)  BY <1>5, <4>1, <4>2, SetGtksOne
      <4>4. new.gtks[k] = ins  BY <4>3 DEF SetOne
      <4>. QED BY <4>2, <4>4 DEF ins
    <3>. QED BY <3>1, <3>2
  <2>3. \A i \in Slots : ks.gtk[i].set => ks.gtk[i].key # value  BY <1>2, <1>8 DEF Fewer, NewTo
  <2> HIDE DEF value
  <2>. QED BY <1>2, <2>1, <2>2, <2>3, GtkInsertMarks
<1>9. new \in StateType  BY <1>7 DEF Carries
<1> HIDE DEF new
<1>10. Carries(new, net) /\ net \in StateType /\ \A l \in Kinds \ {k} : net.gtks[l].gtk = new.gtks[l].gtk
  BY <1>9, NetworkKeysCarry, NetworkKeysTables DEF Others, Carries
<1> HIDE DEF net
<1>11. Carries(net, t) /\ \A l \in Kinds : t.gtks[l].gtk = net.gtks[l].gtk
  BY <1>10, NwInfoCarries, NwInfoTables
<1> HIDE DEF t
<1>12. Carries(new, t)  BY <1>9, <1>10, <1>11, CarriesTrans
<1>13. /\ t \in StateType /\ (AllRecorded(s) => AllRecorded(t)) /\ (Plain(s) => Plain(t))
  BY <1>6, <1>7, <1>12 DEF Carries
<1>14. ASSUME Plain(s), NewTo(s, k, NewKey(given, random)) PROVE KeepTimes(s, t, k)
  <2>1. \A P : OneInTime(new, k, P)  BY <1>8, <1>14 DEF OneInTime, InTime
  <2>. QED BY <1>12, <2>1 DEF Carries, KeepTimes
<1>16. \A l \in Kinds \ {k} : KeepTimes(s, t, l)
  BY <1>6, <1>7, <1>12 DEF Carries, KeepTimes
<1>17. t.disk # s.disk => Written(t)
  BY <1>5, <1>7, <1>9, <1>12, CarriesTrans DEF Carries
<1>15. \A l \in Kinds \ {k} : t.gtks[l].gtk = s.gtks[l].gtk
  BY <1>7, <1>10, <1>11
<1>. QED BY <1>3, <1>13, <1>14, <1>15, <1>16, <1>17

\* Revoking both.
LEMMA RevokeAllCarries ==
    ASSUME NEW s \in StateType, NEW given \in [Kinds -> Keys \cup {NoKey}], NEW random \in [Kinds -> Keys]
    PROVE  LET t == RevokeAll(s, given, random)
           IN  /\ t \in StateType
               /\ AllRecorded(s) => AllRecorded(t)
               /\ Plain(s) => Plain(t)
               /\ \A k \in Kinds : Plain(s) /\ NewTo(s, k, NewKey(given[k], random[k]))
                    => KeepTimes(s, t, k) /\ (t.disk # s.disk => \A P : OneInTime(t, k, P))
<1> DEFINE New(k) == Plain(s) /\ NewTo(s, k, NewKey(given[k], random[k]))
           Ok(t) == /\ t \in StateType
                    /\ AllRecorded(s) => AllRecorded(t)
                    /\ Plain(s) => Plain(t)
           g == IF "gtk" \in Kinds THEN RevokeStart(s, "gtk", given["gtk"], random["gtk"])
                ELSE s
           l == IF "lgtk" \in Kinds
                THEN RevokeStart(g, "lgtk", given["lgtk"], random["lgtk"]) ELSE g
<1>1. /\ Ok(g)
      /\ \A k \in Kinds : New(k) \/ k = "lgtk" => KeepTimes(s, g, k)
      /\ g.disk # s.disk => Written(g)
      /\ "lgtk" \in Kinds => g.gtks["lgtk"].gtk = s.gtks["lgtk"].gtk
  <2>1. CASE "gtk" \in Kinds
    <3>1. given["gtk"] \in Keys \cup {NoKey} /\ random["gtk"] \in Keys  BY <2>1
    <3>2. g = RevokeStart(s, "gtk", given["gtk"], random["gtk"])  BY <2>1
    <3>3. /\ g \in StateType
          /\ AllRecorded(s) => AllRecorded(g)
          /\ Plain(s) => Plain(g)
          /\ New("gtk") => KeepTimes(s, g, "gtk")
          /\ \A k \in Kinds \ {"gtk"} : KeepTimes(s, g, k)
          /\ g.disk # s.disk => Written(g)
          /\ \A k \in Kinds \ {"gtk"} : g.gtks[k].gtk = s.gtks[k].gtk
      BY <2>1, <3>1, <3>2, RevokeStartCarries
    <3> HIDE DEF g, New
    <3>. QED BY <2>1, <3>3
  <2>2. CASE "gtk" \notin Kinds
    <3>1. g = s  BY <2>2
    <3> HIDE DEF g, New
    <3>. QED BY <3>1 DEF KeepTimes
  <2>. QED BY <2>1, <2>2
<1> HIDE DEF g
<1>2. /\ Ok(l)
      /\ \A k \in Kinds : New(k) => KeepTimes(g, l, k)
      /\ l.disk # g.disk => Written(l)
  <2>1. CASE "lgtk" \in Kinds
    <3>1. given["lgtk"] \in Keys \cup {NoKey} /\ random["lgtk"] \in Keys  BY <2>1
    <3>2. l = RevokeStart(g, "lgtk", given["lgtk"], random["lgtk"])  BY <2>1
    <3>3. New("lgtk") => Plain(g) /\ NewTo(g, "lgtk", NewKey(given["lgtk"], random["lgtk"]))
      BY <1>1, <2>1 DEF NewTo
    <3>4. /\ l \in StateType
          /\ AllRecorded(g) => AllRecorded(l)
          /\ Plain(g) => Plain(l)
          /\ Plain(g) /\ NewTo(g, "lgtk", NewKey(given["lgtk"], random["lgtk"]))
             => KeepTimes(g, l, "lgtk")
          /\ \A k \in Kinds \ {"lgtk"} : KeepTimes(g, l, k)
          /\ l.disk # g.disk => Written(l)
      BY <1>1, <2>1, <3>1, <3>2, RevokeStartCarries
    <3> HIDE DEF l, New
    <3>. QED BY <1>1, <3>3, <3>4
  <2>2. CASE "lgtk" \notin Kinds
    <3>1. l = g  BY <2>2
    <3> HIDE DEF l, New
    <3>. QED BY <1>1, <3>1 DEF KeepTimes
  <2>. QED BY <2>1, <2>2
<1> HIDE DEF l, New
<1>3. ASSUME NEW k \in Kinds, New(k)
      PROVE  KeepTimes(s, l, k) /\ (l.disk # s.disk => \A P : OneInTime(l, k, P))
  <2>1. KeepTimes(s, g, k) /\ KeepTimes(g, l, k)  BY <1>1, <1>2, <1>3
  <2>2. l.disk # g.disk => \A P : OneInTime(l, k, P)  BY <1>2 DEF Written
  <2>3. g.disk # s.disk => \A P : OneInTime(g, k, P)  BY <1>1 DEF Written
  <2>. QED BY <2>1, <2>2, <2>3 DEF KeepTimes
<1>4. RevokeAll(s, given, random) = l  BY DEF RevokeAll, g, l
<1>. QED BY <1>2, <1>3, <1>4 DEF New

\* The first key of a kind.
LEMMA StartKindCarries ==
    ASSUME NEW s \in StateType, NEW k \in Kinds, NEW random \in Keys
    PROVE  Carries(s, StartKind(s, k, random))
<1> DEFINE ins == GtkKeyInsert(s, k, random)
           ks == StatusActiveSet(ins.gtks[k], InstallOrderFirstIndex(ins.gtks[k]))
           t == [ins EXCEPT !.gtks[k] = ks]
<1>1. StartKind(s, k, random) = s \/ StartKind(s, k, random) = t  BY DEF StartKind
<1>2. Carries(s, ins) /\ ins \in StateType  BY KeyInsertCarries DEF Carries
<1> HIDE DEF ins
<1>3. ins.gtks[k] \in KeySet  BY <1>2 DEF StateType
<1>4. ks \in KeySet /\ Changed(ins.gtks[k], ks)  BY <1>3, StatusActiveSetGood, StatusActiveSetMarks
<1> HIDE DEF ks
<1>5. Carries(ins, t)  BY <1>2, <1>4, SetGtksOne, SetOneCarries
<1> HIDE DEF t
<1>. QED BY <1>1, <1>2, <1>5, CarriesTrans

LEMMA StartAllCarries ==
    ASSUME NEW s \in StateType, NEW random \in [Kinds -> Keys]
    PROVE  Carries(s, StartAll(s, random))
<1> DEFINE g == IF "gtk" \in Kinds THEN StartKind(s, "gtk", random["gtk"]) ELSE s
           l == IF "lgtk" \in Kinds THEN StartKind(g, "lgtk", random["lgtk"]) ELSE g
           n == NwInfoUpdatedCheck(l)
           gs == [k \in Kinds |-> StatusAllFreshSet(n.gtks[k])]
           t == StartAll(s, random)
<1>1. Carries(s, g) /\ g \in StateType  BY StartKindCarries, CarriesTrans DEF Carries
<1>2. /\ t.gtks = gs /\ t.disk = n.disk /\ t.next = n.next /\ t \in StateType
  <2>1. t = [n EXCEPT !.gtks = gs, !.mac = [k \in Kinds |-> NwKeys(n.gtks[k], k)],
                      !.send = [k \in Kinds |-> StartIndex(s, k, random[k])]]
    BY DEF StartAll
  <2>2. t \in StateType  BY StartAllGood
  <2>3. l \in StateType  BY <1>1, StartKindCarries DEF Carries
  <2>4. n \in StateType  BY <2>3, NwInfoCarries DEF Carries
  <2> HIDE DEF n, gs, t
  <2>. QED BY <2>1, <2>2, <2>4 DEF StateType
<1> HIDE DEF g
<1>3. Carries(g, l) /\ l \in StateType  BY <1>1, StartKindCarries, CarriesTrans DEF Carries
<1> HIDE DEF l
<1>4. Carries(l, n) /\ n \in StateType  BY <1>3, NwInfoCarries DEF Carries
<1> HIDE DEF n
<1>5. ASSUME NEW k \in Kinds PROVE Marked(n.gtks[k], t.gtks[k]) /\ MarkedTimes(n.gtks[k], t.gtks[k])
  <2>1. n.gtks[k] \in KeySet  BY <1>4 DEF StateType
  <2>2. t.gtks[k] = StatusAllFreshSet(n.gtks[k])  BY <1>2
  <2>. QED BY <2>1, <2>2, StatusAllFreshSetMarks DEF Changed
<1> HIDE DEF gs, t
<1>6. Carries(n, t)
  <2>1. AllRecorded(n) => AllRecorded(t)  BY <1>2, <1>5, MarkedRecorded DEF AllRecorded
  <2>2. \A k \in Kinds : KeepTimes(n, t, k)
    BY <1>2, <1>5, MarkedRecorded DEF KeepTimes, OneInTime
  <2>3. Plain(n) => Plain(t)  BY <1>2 DEF Plain
  <2>. QED BY <1>2, <2>1, <2>2, <2>3 DEF Carries
<1>7. Carries(s, l)  BY <1>1, <1>3, CarriesTrans
<1>8. Carries(s, n)  BY <1>4, <1>7, CarriesTrans
<1>. QED BY <1>6, <1>8, CarriesTrans DEF t

\* An empty key set.
LEMMA EmptyRecorded ==
    ASSUME NEW ks, NEW d, NEW k, NEW P, \A i \in Slots : ~ks.gtk[i].set
    PROVE  Recorded(ks, d, k) /\ InTime(ks, d, k, P)
BY DEF Recorded, InTime

\* Time that passes reduces what the file gives a key.
LEMMA AgedRecorded ==
    ASSUME NEW ks \in KeySet, NEW d \in DiskType, NEW k \in Kinds, NEW seconds \in Nat
    PROVE  /\ Recorded(ks, d, k) => Recorded(ks, Aged(d, seconds), k)
           /\ \A P : InTime(ks, d, k, {}) => InTime(ks, Aged(d, 1), k, P)
<1>1. ASSUME NEW n \in Nat
      PROVE  /\ Aged(d, n).own_eui64 = d.own_eui64
             /\ \A i \in Slots :
                  /\ d.keys[k][i].lifetime \in Nat
                  /\ Aged(d, n).keys[k][i].set = d.keys[k][i].set
                  /\ Aged(d, n).keys[k][i].key = d.keys[k][i].key
                  /\ Aged(d, n).keys[k][i].status = d.keys[k][i].status
                  /\ Aged(d, n).keys[k][i].install_order = d.keys[k][i].install_order
                  /\ Aged(d, n).keys[k][i].lifetime
                       = IF d.keys[k][i].lifetime > n THEN d.keys[k][i].lifetime - n ELSE 0
  <2> DEFINE left(e) == [e EXCEPT !.lifetime = IF e.lifetime > n THEN e.lifetime - n ELSE 0]
             keys == [l \in Kinds |-> [i \in Slots |-> left(d.keys[l][i])]]
  <2>1. Aged(d, n) = [d EXCEPT !.keys = keys]  BY DEF Aged
  <2>2. Aged(d, n).keys = keys /\ Aged(d, n).own_eui64 = d.own_eui64
    <3> HIDE DEF keys
    <3>. QED BY <2>1 DEF DiskType
  <2>3. ASSUME NEW i \in Slots
        PROVE  /\ d.keys[k][i].lifetime \in Nat
               /\ Aged(d, n).keys[k][i].set = d.keys[k][i].set
               /\ Aged(d, n).keys[k][i].key = d.keys[k][i].key
               /\ Aged(d, n).keys[k][i].status = d.keys[k][i].status
               /\ Aged(d, n).keys[k][i].install_order = d.keys[k][i].install_order
               /\ Aged(d, n).keys[k][i].lifetime
                    = IF d.keys[k][i].lifetime > n THEN d.keys[k][i].lifetime - n ELSE 0
    <3>1. d.keys[k][i] \in GtkEntry  BY DEF DiskType
    <3>2. Aged(d, n).keys[k][i] = left(d.keys[k][i])  BY <2>2
    <3>. QED BY <3>1, <3>2 DEF GtkEntry
  <2>. QED BY <2>2, <2>3
<1>2. ASSUME Recorded(ks, d, k), ~ks.updated, NEW i \in Slots, ks.gtk[i].set
      PROVE  SameEntry(ks.gtk[i], Aged(d, seconds).keys[k][i])
             /\ (OwnFile => Aged(d, seconds).own_eui64)
  <2>1. SameEntry(ks.gtk[i], d.keys[k][i]) /\ (OwnFile => d.own_eui64)  BY <1>2 DEF Recorded
  <2>. QED BY <1>1, <2>1 DEF SameEntry
<1>3. ASSUME NEW P, InTime(ks, d, k, {}), ~ks.updated, NEW i \in Slots, ks.gtk[i].set
      PROVE  Aged(d, 1).keys[k][i].lifetime <= ks.gtk[i].lifetime + Lag(P, i)
  <2>1. d.keys[k][i].lifetime <= ks.gtk[i].lifetime + 1  BY <1>3 DEF InTime, Lag
  <2>2. ks.gtk[i].lifetime \in Nat  BY DEF KeySet, GtkEntry
  <2>3. Lag(P, i) \in Nat  BY DEF Lag
  <2>4. Aged(d, 1).keys[k][i].lifetime <= ks.gtk[i].lifetime  BY <1>1, <2>1, <2>2
  <2>5. Aged(d, 1).keys[k][i].lifetime \in Nat  BY <1>1
  <2>. QED BY <2>2, <2>3, <2>4, <2>5
<1>. QED BY <1>2, <1>3 DEF Recorded, InTime

\* Without configured keys, auth_init takes its keys from the file; the file
\* that it writes back without the EUI-64 has a kind without keys.
LEMMA AuthInitRecorded ==
    ASSUME Forced = NoForced, NEW d \in DiskType, NEW configured \in BOOLEAN,
           MaxRestarts = 0 => ~d.exists
    PROVE  LET t == AuthInit(d, configured)
           IN  AllRecorded(t) /\ Written(t) /\ Plain(t)
<1> DEFINE none == [k \in Kinds |-> GtksInit]
           forced == IF configured THEN [k \in Kinds |-> GtkUpdate(k)] ELSE none
           ks == [k \in Kinds |-> UpdatedReset(forced[k])]
           read == NwInfoRead(ks, d)
           nextg == IF configured THEN [k \in Kinds |-> NextGtkUpdate(k)] ELSE none
           rewrite == d.exists /\ \E k \in Kinds : SetSlots(read[k]) = {}
           t == AuthInit(d, configured)
<1>1. \A k \in Kinds : forced[k] = GtksInit  BY GtkUpdateType
<1>2. \A k \in Kinds : nextg[k] = GtksInit
  <2>1. \A k \in Kinds : ~IsForced(k)  BY DEF IsForced, NoForced
  <2>. QED BY <2>1 DEF NextGtkUpdate
<1>3. /\ t.gtks = read /\ t.next = nextg
      /\ t.disk = IF rewrite THEN DiskOf(read, FALSE) ELSE d
  BY DEF AuthInit
<1> HIDE DEF forced, nextg
<1>4. \A k \in Kinds : ks[k] = GtksInit
  <2>1. UpdatedReset(GtksInit) = GtksInit
    <3>1. GtksInit \in KeySet /\ GtksInit.updated = FALSE  BY EmptyTypes DEF GoodSet, GtksInit
    <3>. QED BY <3>1 DEF UpdatedReset, KeySet
  <2>. QED BY <1>1, <2>1
<1>5. /\ GtksInit \in KeySet /\ ~GtksInit.updated /\ \A i \in Slots : ~GtksInit.gtk[i].set
  BY EmptyTypes DEF GoodSet, GtksInit, EmptyEntry
<1> HIDE DEF ks
<1>6. ASSUME NEW k \in Kinds
      PROVE  /\ read[k] \in KeySet
             /\ \A i \in Slots : read[k].gtk[i].set
                  => d.exists /\ d.own_eui64 /\ read[k].gtk[i] = d.keys[k][i]
  <2>1. CASE ~d.exists
    <3>1. read[k] = GtksInit  BY <1>4, <2>1 DEF NwInfoRead
    <3>. QED BY <1>5, <3>1
  <2>2. CASE d.exists /\ ~d.own_eui64
    <3>1. read[k] = GtksInit  BY <1>4, <2>2 DEF NwInfoRead
    <3>. QED BY <1>5, <3>1
  <2>3. CASE d.exists /\ d.own_eui64
    <3>1. read[k] = ReadKeys(GtksInit, d.keys[k])  BY <1>4, <2>3 DEF NwInfoRead
    <3>2. d.keys[k] \in [Slots -> GtkEntry]  BY DEF DiskType
    <3>3. read[k] \in KeySet  BY <1>5, <3>1, <3>2, ReadKeysGood
    <3>4. read[k].gtk = [i \in Slots |->
              IF ~GtksInit.gtk[i].set /\ d.keys[k][i].set /\ d.keys[k][i].lifetime > 0
              THEN d.keys[k][i] ELSE GtksInit.gtk[i]]
      BY <1>5, <3>1 DEF ReadKeys, KeySet
    <3>. QED BY <1>5, <2>3, <3>3, <3>4
  <2>. QED BY <2>1, <2>2, <2>3
<1> HIDE DEF read
<1>7. CASE rewrite
  <2>1. read \in [Kinds -> KeySet]
    <3>1. DOMAIN read = Kinds /\ read = [k \in Kinds |-> read[k]]
      BY DEF read, NwInfoRead, ks
    <3>. QED BY <1>6, <3>1
  <2>2. \A k \in Kinds : t.disk.keys[k] = t.gtks[k].gtk
    <3>1. t.disk = DiskOf(read, FALSE)  BY <1>3, <1>7
    <3>2. \A k \in Kinds : DiskOf(read, FALSE).keys[k] = read[k].gtk  BY <2>1, DiskOfType
    <3> HIDE DEF t
    <3>. QED BY <1>3, <3>1, <3>2
  <2>3. \A k \in Kinds : t.gtks[k].gtk \in Table  BY <1>3, <1>6 DEF KeySet, Table
  <2>4. ASSUME NEW k \in Kinds PROVE Recorded(t.gtks[k], t.disk, k)
    <3>1. CASE OwnFile
      <4>1. MaxRestarts # 0  BY <1>7
      <4>2. \A l \in Kinds : l = k  BY <3>1, <4>1 DEF OwnFile
      <4>3. SetSlots(read[k]) = {}  BY <1>7, <4>2
      <4>4. \A i \in Slots : ~t.gtks[k].gtk[i].set  BY <1>3, <4>3 DEF SetSlots
      <4>. QED BY <4>4, EmptyRecorded
    <3>2. CASE ~OwnFile  BY <2>2, <2>3, <3>2, WrittenRecorded
    <3>. QED BY <3>1, <3>2
  <2>5. Written(t)  BY <2>2, <2>3, WrittenRecorded DEF Written, OneInTime
  <2>6. Plain(t)  BY <1>2, <1>3 DEF Plain
  <2>. QED BY <2>4, <2>5, <2>6 DEF AllRecorded
<1>8. CASE ~rewrite
  <2>1. t.disk = d  BY <1>3, <1>8
  <2>2. ASSUME NEW k \in Kinds, NEW P PROVE Recorded(t.gtks[k], t.disk, k) /\ InTime(t.gtks[k], t.disk, k, P)
    <3>1. \A i \in Slots : t.gtks[k].gtk[i].lifetime \in Nat
      <4>1. t.gtks[k].gtk \in Table  BY <1>3, <1>6 DEF KeySet, Table
      <4>. QED BY <4>1, TableFacts
    <3>2. \A i \in Slots : t.gtks[k].gtk[i].set => d.own_eui64 /\ t.gtks[k].gtk[i] = d.keys[k][i]
      BY <1>3, <1>6
    <3>3. \A i \in Slots : Lag(P, i) \in Nat  BY DEF Lag
    <3>4. Recorded(t.gtks[k], t.disk, k)
      <4> HIDE DEF t
      <4>. QED BY <2>1, <3>2 DEF Recorded, SameEntry
    <3>5. InTime(t.gtks[k], t.disk, k, P)
      <4> HIDE DEF t
      <4>1. ASSUME NEW i \in Slots, t.gtks[k].gtk[i].set
            PROVE  t.disk.keys[k][i].lifetime <= t.gtks[k].gtk[i].lifetime + Lag(P, i)
        <5>1. t.disk.keys[k][i] = t.gtks[k].gtk[i]  BY <2>1, <3>2, <4>1
        <5>. QED BY <3>1, <3>3, <5>1
      <4>. QED BY <4>1 DEF InTime
    <3>. QED BY <3>4, <3>5
  <2>3. Plain(t)  BY <1>2, <1>3 DEF Plain
  <2> HIDE DEF t
  <2>. QED BY <2>2, <2>3 DEF AllRecorded, Written, OneInTime, t
<1>. QED BY <1>7, <1>8

\* The inductive invariant: the keys are recorded at every point of a timer
\* round and in every mode, no key is configured as the next one, and a daemon
\* that is never restarted finds no file at its start.
FileInv ==
    /\ \A k \in Kinds : Recorded(gtks[k], disk, k)
    /\ \A k \in Kinds : next[k] = GtksInit
    /\ MaxRestarts = 0 => (mode \in {"down", "stopped"} => ~disk.exists)

\* And for lifetimes: with the lag that the place of the timer allows.
TimesInv ==
    /\ \A k \in Kinds \ silentCut : InTime(gtks[k], disk, k, Ahead(timer, k))
    /\ timer # Idle => timer[2] < Room(timer[1])

LEMMA RunStepRecorded ==
    ASSUME TypeOK, FileInv, RunStep
    PROVE  /\ \A k \in Kinds : Recorded(gtks'[k], disk', k)
           /\ \A k \in Kinds : next'[k] = GtksInit
<1> DEFINE s == Here
<1>1. s \in StateType /\ s.gtks = gtks /\ s.disk = disk /\ s.next = next  BY HereType DEF Here
<1>2. PICK t : Handler(t) /\ Become(t)  BY RunStepIsHandler
<1>3. gtks' = t.gtks /\ disk' = t.disk /\ next' = t.next  BY <1>2 DEF Become
<1>4. AllRecorded(s) /\ Plain(s)  BY <1>1 DEF FileInv, AllRecorded, Plain
<1>5. Handler(t)  BY <1>2
<1>6. SUFFICES AllRecorded(t) /\ Plain(t)  BY <1>3 DEF AllRecorded, Plain
<1>7. ASSUME NEW k \in Kinds, NEW i \in Slots, NEW cut \in Nat, NEW random \in Keys,
             t = SlowTimerKey(s, k, i, cut, random)
      PROVE  AllRecorded(t) /\ Plain(t)
  <2> HIDE DEF s
  <2>. QED BY <1>1, <1>4, <1>7, SlowTimerKeyCarries
<1>8. ASSUME NEW k \in Kinds, NEW key \in Keys,
             t = NetworkKeysFromGtksSet([s EXCEPT !.gtks[k] = GtkInsert(@, key, k)], k)
      PROVE  AllRecorded(t) /\ Plain(t)
  <2> HIDE DEF s
  <2> DEFINE ks == GtkInsert(s.gtks[k], key, k)
             w == [s EXCEPT !.gtks[k] = ks]
  <2>1. s.gtks[k] \in KeySet  BY <1>1 DEF StateType
  <2>2. ks \in KeySet /\ Changed(s.gtks[k], ks)  BY <2>1, GtkInsertGood, GtkInsertMarks
  <2>3. t = NetworkKeysFromGtksSet(w, k)  BY <1>8
  <2> HIDE DEF ks
  <2>4. Carries(s, w) /\ w \in StateType  BY <1>1, <2>2, SetGtksOne, SetOneCarries DEF Carries
  <2> HIDE DEF w
  <2>5. Carries(w, t)  BY <2>3, <2>4, NetworkKeysCarry
  <2>. QED BY <1>4, <2>4, <2>5 DEF Carries
<1>9. ASSUME NEW given \in [Kinds -> Keys \cup {NoKey}], NEW random \in [Kinds -> Keys],
             t = RevokeAll(s, given, random)
      PROVE  AllRecorded(t) /\ Plain(t)
  <2> HIDE DEF s
  <2>. QED BY <1>1, <1>4, <1>9, RevokeAllCarries
<1>10. ASSUME "gtk" \in Kinds, NEW i \in Slots,
              t = NetworkKeyIndexSet([s EXCEPT !.gtks["gtk"] = StatusActiveSet(@, i)], "gtk", i)
       PROVE  AllRecorded(t) /\ Plain(t)
  <2> HIDE DEF s
  <2> DEFINE ks == StatusActiveSet(s.gtks["gtk"], i)
             w == [s EXCEPT !.gtks["gtk"] = ks]
  <2>1. s.gtks["gtk"] \in KeySet  BY <1>1, <1>10 DEF StateType
  <2>2. ks \in KeySet /\ Changed(s.gtks["gtk"], ks)  BY <2>1, StatusActiveSetGood, StatusActiveSetMarks
  <2>3. t = NetworkKeyIndexSet(w, "gtk", i)  BY <1>10
  <2> HIDE DEF ks
  <2>4. Carries(s, w) /\ w \in StateType  BY <1>1, <1>10, <2>2, SetGtksOne, SetOneCarries DEF Carries
  <2> HIDE DEF w
  <2>5. t \in StateType /\ t.gtks = w.gtks /\ t.disk = w.disk /\ t.next = w.next
    <3>1. t \in StateType /\ t.gtks = w.gtks /\ t.disk = w.disk
      BY <1>10, <2>3, <2>4, NetworkKeyIndexSetType
    <3>2. NetworkKeyIndexSet(w, "gtk", i).next = w.next  BY <2>4 DEF NetworkKeyIndexSet, StateType
    <3>. QED BY <2>3, <3>1, <3>2
  <2>6. Carries(w, t)  BY <2>4, <2>5, OtherFieldsCarry
  <2>. QED BY <1>4, <2>4, <2>6 DEF Carries
<1>. QED BY <1>5, <1>7, <1>8, <1>9, <1>10 DEF Handler

\* What boot and start leave.
LEMMA BootRecorded ==
    ASSUME TypeOK, FileInv, Forced = NoForced, NEW seconds \in 0..MaxDowntime, Boot(seconds)
    PROVE  /\ \A k \in Kinds : Recorded(gtks'[k], disk', k)
           /\ \A k \in Kinds : next'[k] = GtksInit
           /\ \A k \in Kinds : \A P : InTime(gtks'[k], disk', k, P)
<1> DEFINE d == Aged(disk, seconds)
           t == AuthInit(d, mode = "down")
<1>1. seconds \in Nat /\ disk \in DiskType  BY BoundsAssumption DEF TypeOK
<1>2. d \in DiskType /\ d.exists = disk.exists  BY <1>1, AgedGood DEF Aged, DiskType
<1>3. mode \in {"down", "stopped"} /\ Become(t)  BY DEF Boot
<1>4. MaxRestarts = 0 => ~d.exists  BY <1>2, <1>3 DEF FileInv
<1>5. (mode = "down") \in BOOLEAN  OBVIOUS
<1>6. gtks' = t.gtks /\ disk' = t.disk /\ next' = t.next  BY <1>3 DEF Become
<1> HIDE DEF d
<1>7. AllRecorded(t) /\ Written(t) /\ Plain(t)  BY <1>2, <1>4, <1>5, AuthInitRecorded
<1> HIDE DEF t
<1>8. ASSUME NEW k \in Kinds, NEW P PROVE InTime(gtks'[k], disk', k, P)
  BY <1>6, <1>7 DEF Written, OneInTime
<1>. QED BY <1>6, <1>7, <1>8 DEF AllRecorded, Plain

LEMMA StartRecorded ==
    ASSUME TypeOK, NEW random \in RandomKeys, Start(random)
    PROVE  /\ (\A k \in Kinds : Recorded(gtks[k], disk, k)) => \A k \in Kinds : Recorded(gtks'[k], disk', k)
           /\ (\A k \in Kinds : next[k] = GtksInit) => \A k \in Kinds : next'[k] = GtksInit
           /\ \A k \in Kinds : \A P : InTime(gtks[k], disk, k, P) => InTime(gtks'[k], disk', k, P)
<1> DEFINE s == Here
           t == StartAll(s, random)
<1>1. random \in [Kinds -> Keys]  BY DEF RandomKeys, Random
<1>2. s \in StateType /\ s.gtks = gtks /\ s.disk = disk /\ s.next = next  BY HereType DEF Here
<1>3. gtks' = t.gtks /\ disk' = t.disk /\ next' = t.next  BY DEF Start, Become
<1> HIDE DEF s
<1>4. Carries(s, t)  BY <1>1, <1>2, StartAllCarries
<1> HIDE DEF t
<1>5. \A k \in Kinds : KeepTimes(s, t, k)  BY <1>4 DEF Carries
<1>. QED BY <1>2, <1>3, <1>4, <1>5 DEF Carries, AllRecorded, Plain, KeepTimes, OneInTime

\* Going down leaves no key behind.
LEMMA DownRecorded ==
    ASSUME Stop \/ Crash
    PROVE  /\ \A k \in Kinds : Recorded(gtks'[k], disk', k)
           /\ \A k \in Kinds : next'[k] = GtksInit
           /\ \A k \in Kinds : \A P : InTime(gtks'[k], disk', k, P)
           /\ timer' = Idle /\ restarts < MaxRestarts
<1>1. /\ gtks' = [k \in Kinds |-> GtksInit] /\ next' = [k \in Kinds |-> GtksInit] /\ timer' = Idle
      /\ restarts < MaxRestarts
  BY DEF Stop, Crash, Down
<1>2. \A i \in Slots : ~GtksInit.gtk[i].set  BY DEF GtksInit, EmptyEntry
<1>. QED BY <1>1, <1>2, EmptyRecorded

LEMMA FileStep ==
    ASSUME Forced = NoForced, TypeOK, FileInv, [Next]_vars
    PROVE  FileInv'
<1> DEFINE Goal == /\ \A k \in Kinds : Recorded(gtks'[k], disk', k)
                   /\ \A k \in Kinds : next'[k] = GtksInit
<1>1. ASSUME NEW seconds \in 0..MaxDowntime, Boot(seconds) PROVE Goal
  BY <1>1, BootRecorded
<1>2. ASSUME NEW random \in RandomKeys, Start(random) PROVE Goal
  BY <1>2, StartRecorded DEF FileInv
<1>3. ASSUME SlowTimer PROVE Goal
  <2>1. gtks' = gtks /\ next' = next /\ disk' = Aged(disk, 1)  BY <1>3 DEF SlowTimer
  <2>2. disk \in DiskType /\ \A k \in Kinds : gtks[k] \in KeySet  BY DEF TypeOK
  <2>. QED BY <2>1, <2>2, AgedRecorded DEF FileInv
<1>4. ASSUME RunStep PROVE Goal
  BY <1>4, RunStepRecorded
<1>5. ASSUME Stop \/ Crash PROVE Goal
  BY <1>5, DownRecorded
<1>6. ASSUME PanConfigSend \/ PanConfigConfirm \/ UNCHANGED vars PROVE Goal
  <2>1. UNCHANGED <<gtks, disk, next>>  BY <1>6 DEF PanConfigSend, PanConfigConfirm, vars
  <2>. QED BY <2>1 DEF FileInv
<1>7. Goal
  BY <1>1, <1>2, <1>3, <1>4, <1>5, <1>6 DEF Next, RunStep
<1>8. ASSUME MaxRestarts = 0, mode' \in {"down", "stopped"} PROVE ~disk'.exists
  <2>1. ~(restarts < MaxRestarts)  BY <1>8 DEF TypeOK
  <2>2. mode' \in {"init", "run"} \/ (mode' = mode /\ disk' = disk)  BY <2>1, ModeStep
  <2>. QED BY <1>8, <2>2 DEF FileInv
<1>. QED BY <1>7, <1>8 DEF FileInv

LEMMA FileAlways ==
    ASSUME Forced = NoForced
    PROVE  Spec => []FileInv
<1>1. Init => FileInv
  <2> SUFFICES ASSUME Init PROVE FileInv  OBVIOUS
  <2>1. gtks = [k \in Kinds |-> GtksInit] /\ next = [k \in Kinds |-> GtksInit] /\ disk = NoDisk  BY DEF Init
  <2>2. ~NoDisk.exists  BY DEF NoDisk
  <2>3. \A i \in Slots : ~GtksInit.gtk[i].set  BY DEF GtksInit, EmptyEntry
  <2>. QED BY <2>1, <2>2, <2>3, EmptyRecorded DEF FileInv
<1>2. TypeOK /\ FileInv /\ [Next]_vars => FileInv'
  BY FileStep
<1>. QED BY <1>1, <1>2, TypeCorrect, PTL DEF Spec

\* Where no key is forced by the configuration, the file network-keys holds every
\* key the running border router has and has marked as saved, with its place in
\* the install order and its status, over rotations, revocations, crashes in
\* the middle of a write and restarts, and the next start accepts that file:
\* for one key set, or for both until a restart (with both, auth_init may write
\* the keys of one of them without the EUI-64 when the other has none).
THEOREM KeysAlwaysSaved ==
    ASSUME Forced = NoForced, OwnFile
    PROVE  Spec => []KeysSaved
<1>1. FileInv => KeysSaved
  <2> SUFFICES ASSUME FileInv, NEW k \in Kinds, ~gtks[k].updated, NEW i \in SetSlots(gtks[k])
               PROVE  SameEntry(gtks[k].gtk[i], disk.keys[k][i]) /\ disk.own_eui64
    BY DEF KeysSaved, SameEntry
  <2>. QED BY DEF FileInv, Recorded, SetSlots
<1>. QED BY <1>1, FileAlways, PTL

\* What the next start reads if the border router stops now: for each key its
\* slot, value, order and status, whoever wrote the file.
KeysInFile ==
    mode = "run" /\ timer = Idle => \A k \in Kinds :
        ~gtks[k].updated => \A i \in SetSlots(gtks[k]) : SameEntry(gtks[k].gtk[i], disk.keys[k][i])

\* With both key sets, and however often the border router is restarted, the
\* keys themselves are in the file; only whether the next start accepts it
\* depends on how it was written.
THEOREM BothSetsInFile ==
    ASSUME Forced = NoForced
    PROVE  Spec => []KeysInFile
<1>1. FileInv => KeysInFile
  BY DEF FileInv, KeysInFile, Recorded, SetSlots
<1>. QED BY <1>1, FileAlways, PTL

\* A slot's turn: the keys are a second older than before.
LEMMA TimerKeyInTime ==
    ASSUME TypeOK, TimesInv, NEW k \in Kinds, NEW i \in Slots, NEW random \in Random,
           NEW cut \in FrameCntCut(k, gtks[k].gtk[i].lifetime), TimerKey(k, i, cut, random)
    PROVE  TimesInv'
<1> DEFINE s == Here
           t == SlowTimerKey(s, k, i, cut, random)
<1>1. s \in StateType /\ s.gtks = gtks /\ s.disk = disk  BY HereType DEF Here
<1>2. /\ timer = <<k, i>> /\ timer' = After(k, i) /\ gtks' = t.gtks /\ disk' = t.disk
      /\ silentCut' = StillSilent(IF cut = 0 THEN silentCut ELSE silentCut \cup {k})
  BY DEF TimerKey, Become
<1>3. random \in Keys  BY DEF Random
<1>4. cut \in Nat
  <2>1. gtks[k].gtk[i].lifetime \in Nat
    <3>1. gtks[k].gtk \in Table  BY DEF TypeOK, KeySet, Table
    <3>. QED BY <3>1, TableFacts
  <2>. QED BY <2>1 DEF FrameCntCut
<1>5. i < Room(k)
  <2>1. timer # Idle  BY <1>2, KindsAssumption DEF Idle
  <2>. QED BY <1>2, <2>1 DEF TimesInv
<1>6. i \in Ahead(timer, k)
  <2>1. i <= i  BY GtkNumAssumption DEF Slots
  <2>. QED BY <1>2, <1>5, <2>1 DEF Ahead
<1>7. \A l \in Kinds : Ahead(timer', l) = IF l = k THEN Ahead(timer, l) \ {i} ELSE Ahead(timer, l)
  BY <1>2, <1>5, AheadAfter
<1> HIDE DEF s
<1>8. /\ \A l \in Kinds \ {k} : KeepTimes(s, t, l)
      /\ cut = 0 => \A P : i \in P /\ OneInTime(s, k, P) => OneInTime(t, k, P \ {i})
      /\ t.disk # s.disk => Written(t)
  BY <1>1, <1>3, <1>4, SlowTimerKeyCarries
<1> HIDE DEF t
<1>9. ASSUME NEW l \in Kinds, l \notin silentCut' PROVE OneInTime(t, l, Ahead(timer', l))
  <2>1. CASE disk' # disk  BY <1>1, <1>2, <1>8, <2>1 DEF Written
  <2>2. CASE disk' = disk
    <3>1. l \notin silentCut /\ (l = k => cut = 0)  BY <1>2, <1>9, <2>2 DEF StillSilent
    <3>2. OneInTime(s, l, Ahead(timer, l))  BY <1>1, <3>1 DEF TimesInv, OneInTime
    <3>3. CASE l = k  BY <1>6, <1>7, <1>8, <3>1, <3>2, <3>3
    <3>4. CASE l # k  BY <1>7, <1>8, <3>2, <3>4 DEF KeepTimes
    <3>. QED BY <3>3, <3>4
  <2>. QED BY <2>1, <2>2
<1>10. \A l \in Kinds \ silentCut' : InTime(gtks'[l], disk', l, Ahead(timer', l))
  BY <1>2, <1>9 DEF OneInTime
<1>11. timer' # Idle => timer'[2] < Room(timer'[1])
  BY <1>2, GtkNumAssumption DEF After, Room, NumKeys, IsLgtk
<1>. QED BY <1>10, <1>11 DEF TimesInv

\* The D-Bus methods, between two rounds of the timer.
LEMMA DbusInTime ==
    ASSUME TypeOK, FileInv, TimesInv,
           \/ \E k \in Kinds, key \in Keys : InstallGtk(k, key)
           \/ \E given \in [Kinds -> Keys \cup {NoKey}], random \in RandomKeys :
                 RevokeGroupKeys(given, random)
           \/ \E i \in Slots : ActiveKeyUpdate(i)
    PROVE  TimesInv'
<1> DEFINE s == Here
           Goal == \E t : /\ gtks' = t.gtks /\ disk' = t.disk
                          /\ \A k \in Kinds \ silentCut' : OneInTime(t, k, Ahead(timer, k))
<1>1. s \in StateType /\ s.gtks = gtks /\ s.disk = disk /\ s.next = next  BY HereType DEF Here
<1>2. timer' = timer  BY DEF InstallGtk, RevokeGroupKeys, ActiveKeyUpdate
<1>3. \A k \in Kinds \ silentCut : OneInTime(s, k, Ahead(timer, k))  BY <1>1 DEF OneInTime, TimesInv
<1>4. Plain(s)  BY <1>1 DEF Plain, FileInv
<1>5. SUFFICES Goal  BY <1>2 DEF OneInTime, TimesInv
<1>6. ASSUME NEW k \in Kinds, NEW key \in Keys, InstallGtk(k, key) PROVE Goal
  <2> DEFINE ks == GtkInsert(s.gtks[k], key, k)
             w == [s EXCEPT !.gtks[k] = ks]
             t == NetworkKeysFromGtksSet(w, k)
  <2>1. gtks' = t.gtks /\ disk' = t.disk /\ silentCut' = silentCut  BY <1>6 DEF InstallGtk, Become
  <2> HIDE DEF s
  <2>2. s.gtks[k] \in KeySet  BY <1>1 DEF StateType
  <2>3. ks \in KeySet /\ Changed(s.gtks[k], ks)  BY <2>2, GtkInsertGood, GtkInsertMarks
  <2> HIDE DEF ks
  <2>4. Carries(s, w) /\ w \in StateType  BY <1>1, <2>3, SetGtksOne, SetOneCarries DEF Carries
  <2> HIDE DEF w
  <2>5. Carries(w, t)  BY <2>4, NetworkKeysCarry
  <2> HIDE DEF t
  <2>. QED BY <1>3, <2>1, <2>4, <2>5 DEF Carries, KeepTimes
<1>7. ASSUME NEW given \in [Kinds -> Keys \cup {NoKey}], NEW random \in RandomKeys,
             RevokeGroupKeys(given, random)
      PROVE  Goal
  <2> DEFINE t == RevokeAll(s, given, random)
  <2>1. /\ gtks' = t.gtks /\ disk' = t.disk
        /\ silentCut' = StillSilent(silentCut) \cup {k \in Kinds : InUse(given[k], k)}
    BY <1>7 DEF RevokeGroupKeys, Become
  <2>2. random \in [Kinds -> Random] /\ random \in [Kinds -> Keys]  BY DEF RandomKeys, Random
  <2>3. ASSUME NEW k \in Kinds, ~InUse(given[k], k)
        PROVE  NewTo(s, k, NewKey(given[k], random[k]))
    <3>1. ASSUME NEW i \in Slots PROVE gtks[k].gtk[i].key \notin Random
      BY DEF Random
    <3>2. CASE given[k] = NoKey  BY <1>1, <2>2, <3>1, <3>2 DEF NewTo, NewKey
    <3>3. CASE given[k] # NoKey  BY <1>1, <2>3, <3>3 DEF NewTo, NewKey, InUse, SetSlots
    <3>. QED BY <3>2, <3>3
  <2> HIDE DEF s
  <2>4. \A k \in Kinds : NewTo(s, k, NewKey(given[k], random[k]))
           => KeepTimes(s, t, k) /\ (t.disk # s.disk => \A P : OneInTime(t, k, P))
    BY <1>1, <1>4, <2>2, RevokeAllCarries
  <2> HIDE DEF t
  <2>5. ASSUME NEW k \in Kinds, k \notin silentCut' PROVE OneInTime(t, k, Ahead(timer, k))
    <3>1. ~InUse(given[k], k) /\ k \notin StillSilent(silentCut)  BY <2>1, <2>5
    <3>2. KeepTimes(s, t, k) /\ (t.disk # s.disk => \A P : OneInTime(t, k, P))  BY <2>3, <2>4, <3>1
    <3>3. CASE disk' # disk  BY <1>1, <2>1, <3>2, <3>3
    <3>4. CASE disk' = disk
      <4>1. k \notin silentCut  BY <3>1, <3>4 DEF StillSilent
      <4>. QED BY <1>3, <3>2, <4>1 DEF KeepTimes
    <3>. QED BY <3>3, <3>4
  <2>. QED BY <2>1, <2>5
<1>8. ASSUME NEW i \in Slots, ActiveKeyUpdate(i) PROVE Goal
  <2> DEFINE ks == StatusActiveSet(s.gtks["gtk"], i)
             w == [s EXCEPT !.gtks["gtk"] = ks]
             t == NetworkKeyIndexSet(w, "gtk", i)
  <2>1. gtks' = t.gtks /\ disk' = t.disk /\ "gtk" \in Kinds /\ silentCut' = silentCut
    BY <1>8 DEF ActiveKeyUpdate, Become
  <2> HIDE DEF s
  <2>2. s.gtks["gtk"] \in KeySet  BY <1>1, <2>1 DEF StateType
  <2>3. ks \in KeySet /\ Changed(s.gtks["gtk"], ks)  BY <2>2, StatusActiveSetGood, StatusActiveSetMarks
  <2> HIDE DEF ks
  <2>4. Carries(s, w) /\ w \in StateType  BY <1>1, <2>1, <2>3, SetGtksOne, SetOneCarries DEF Carries
  <2> HIDE DEF w
  <2>5. t.gtks = w.gtks /\ t.disk = w.disk  BY <2>1, <2>4, NetworkKeyIndexSetType
  <2> HIDE DEF t
  <2>6. \A k \in Kinds \ silentCut : OneInTime(w, k, Ahead(timer, k))
    BY <1>3, <2>4 DEF Carries, KeepTimes
  <2>. QED BY <2>1, <2>5, <2>6
<1>. QED BY <1>6, <1>7, <1>8

LEMMA TimesStep ==
    ASSUME Forced = NoForced, TypeOK, FileInv, TimesInv, [Next]_vars
    PROVE  TimesInv'
<1>1. ASSUME NEW seconds \in 0..MaxDowntime, Boot(seconds) PROVE TimesInv'
  <2>1. timer' = timer  BY <1>1 DEF Boot
  <2>2. \A k \in Kinds : \A P : InTime(gtks'[k], disk', k, P)  BY <1>1, BootRecorded
  <2>. QED BY <2>1, <2>2 DEF TimesInv
<1>2. ASSUME NEW random \in RandomKeys, Start(random) PROVE TimesInv'
  <2>1. timer' = timer /\ silentCut' = silentCut  BY <1>2 DEF Start
  <2>. QED BY <1>2, <2>1, StartRecorded DEF TimesInv
<1>3. ASSUME SlowTimer PROVE TimesInv'
  <2>1. /\ gtks' = gtks /\ disk' = Aged(disk, 1) /\ timer = Idle /\ timer' = FirstPoint
        /\ silentCut' = silentCut
    BY <1>3 DEF SlowTimer
  <2>2. disk \in DiskType /\ \A k \in Kinds : gtks[k] \in KeySet  BY DEF TypeOK
  <2>3. \A k \in Kinds \ silentCut : InTime(gtks[k], disk, k, {})  BY <2>1, AheadIdle DEF TimesInv
  <2>4. \A k \in Kinds \ silentCut : InTime(gtks[k], Aged(disk, 1), k, Ahead(timer', k))
    BY <2>2, <2>3, AgedRecorded
  <2>5. timer'[2] < Room(timer'[1])
    BY <2>1, GtkNumAssumption DEF FirstPoint, Room, NumKeys, IsLgtk
  <2>. QED BY <2>1, <2>4, <2>5 DEF TimesInv
<1>4. ASSUME NEW k \in Kinds, NEW i \in Slots, NEW random \in Random,
             NEW cut \in FrameCntCut(k, gtks[k].gtk[i].lifetime), TimerKey(k, i, cut, random)
      PROVE  TimesInv'
  BY <1>4, TimerKeyInTime
<1>5. ASSUME \/ \E k \in Kinds, key \in Keys : InstallGtk(k, key)
             \/ \E given \in [Kinds -> Keys \cup {NoKey}], random \in RandomKeys :
                   RevokeGroupKeys(given, random)
             \/ \E i \in Slots : ActiveKeyUpdate(i)
      PROVE  TimesInv'
  BY <1>5, DbusInTime
<1>6. ASSUME Stop \/ Crash PROVE TimesInv'
  BY <1>6, DownRecorded DEF TimesInv
<1>7. ASSUME PanConfigSend \/ PanConfigConfirm \/ UNCHANGED vars PROVE TimesInv'
  <2>1. UNCHANGED <<gtks, disk, timer, silentCut>>  BY <1>7 DEF PanConfigSend, PanConfigConfirm, vars
  <2>. QED BY <2>1 DEF TimesInv
<1>. QED BY <1>1, <1>2, <1>3, <1>4, <1>5, <1>6, <1>7 DEF Next

\* Where no key is forced by the configuration, the file promises no key a
\* longer life than the running border router does (one second more if it was
\* written within a timer round): the handler of every change of the keys, and
\* of every revocation with a key that is new to the set, writes the file or
\* leaves the set marked as not saved, so that neither a crash nor a restart
\* undoes a revocation that was saved.  The frame counter check is made, and
\* the cut it makes is left out only until the next write: that write catches
\* up with it.
THEOREM LifetimesAlwaysSaved ==
    ASSUME Forced = NoForced
    PROVE  Spec => []LifetimesSaved
<1>1. Init => TimesInv
  <2> SUFFICES ASSUME Init PROVE TimesInv  OBVIOUS
  <2>1. gtks = [k \in Kinds |-> GtksInit] /\ timer = Idle  BY DEF Init
  <2>2. \A i \in Slots : ~GtksInit.gtk[i].set  BY DEF GtksInit, EmptyEntry
  <2>. QED BY <2>1, <2>2, EmptyRecorded DEF TimesInv
<1>2. TypeOK /\ FileInv /\ TimesInv /\ [Next]_vars => TimesInv'
  BY TimesStep
<1>3. TimesInv => LifetimesSaved
  <2> SUFFICES ASSUME TimesInv, timer = Idle, NEW k \in Kinds \ silentCut, ~gtks[k].updated,
                      NEW i \in SetSlots(gtks[k])
               PROVE  disk.keys[k][i].lifetime <= gtks[k].gtk[i].lifetime + 1
    BY DEF LifetimesSaved
  <2>1. InTime(gtks[k], disk, k, {})  BY AheadIdle DEF TimesInv
  <2>. QED BY <2>1 DEF InTime, Lag, SetSlots
<1>4. Spec => []FileInv
  BY FileAlways
<1>. QED BY <1>1, <1>2, <1>3, <1>4, TypeCorrect, PTL DEF Spec
=============================================================================
