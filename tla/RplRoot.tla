------------------------------ MODULE RplRoot ------------------------------
(***************************************************************************)
(* The RPL root in non-storing mode (stack/source/rpl/rpl_downward.c and    *)
(* rpl_data.c): the targets and transits that DAOs report, the topological  *)
(* sort with its breaking of loops, the path costs, and the source route    *)
(* that is computed from them and kept for the next packet.                 *)
(*                                                                         *)
(* Abstractions.  Targets are the addresses of nodes: one transit names one *)
(* target, the root or a node that is not known.  A DAO is about one target *)
(* and lists its transits, each with the preference its path control comes  *)
(* to.  What the cost of a link from the root depends on, the ETX and the   *)
(* state of the neighbour cache, changes at any time, with a report to RPL  *)
(* or without.  A packet to an external target is routed to its transit, as *)
(* a packet to that node is.  The root's own addresses, which it publishes  *)
(* as targets without transits, are left out.                               *)
(***************************************************************************)
EXTENDS Integers, Sequences, FiniteSets, SequencesExt, FiniteSetsExt

CONSTANTS
    Node,           \* nodes
    Root,           \* the root: not a node
    Transits,       \* the transit lists of DAOs: sequences of [via, cost]
    Seqs,           \* the path sequences of DAOs
    Circular,       \* path sequences below this count round: 128
    SeqTop,         \* and the others up to this: 256
    SeqWindow,      \* RPL_SEQUENCE_WINDOW
    Life,           \* path lifetime of a DAO, in runs of the slow timer
    Externals,      \* the external flags of DAOs
    Links,          \* the states of a link from the root
    CostMod,        \* costs of transits are kept in 16 bits
    MaxDaos,        \* bound: DAOs
    MaxErrors,      \* bound: source routing errors
    MaxShifts,      \* bound: changes of links
    MaxInputs       \* bound: all together, an error counted half

VARIABLES
    list,           \* dao_targets: the order of the targets
    target,         \* target[x]: sequence, lifetime and transits of x
    topo,           \* children and connected, while root_topo_sort_valid
    paths,          \* costs, while root_paths_valid; quiet is history: a link
                    \* has changed since they were computed and RPL was not told
    sr,             \* rpl_data_sr
    srh, dtsn,      \* srh_error_count, dtsn
    link,           \* link[x]: ETX and reachability of x as the root's neighbour
    daos, errors, shifts

vars == <<list, target, topo, paths, sr, srh, dtsn, link, daos, errors, shifts>>


Known == Range(list)
\* 0xFFFFFFFF in the code: above every cost, and within TLC's integers.
Infinite == 2147483647
NoTarget == [seq |-> 0, life |-> 0, transits |-> <<>>]
Unsorted == [valid |-> FALSE, kids |-> [p \in Node \cup {Root} |-> <<>>]]
NoPaths ==
    [valid |-> FALSE, cost |-> [x \in Node |-> Infinite], connected |-> {}, quiet |-> FALSE]
NoRoute == [target |-> Root, hops |-> <<>>]
NoLink == [etx |-> "none", reachable |-> FALSE]

ASSUME RplAssumption ==
    /\ Root \notin Node /\ IsFiniteSet(Node)
    /\ SeqTop \in Nat /\ Circular \in 1..(SeqTop - 1) /\ SeqWindow \in 1..(Circular - 1)
    /\ Seqs \subseteq 0..(SeqTop - 1)
    /\ Life \in Nat \ {0} /\ Externals \subseteq BOOLEAN
    /\ NoLink \in Links /\ Links \subseteq [etx : {"none", "poor", "good"}, reachable : BOOLEAN]
    /\ \A x \in Node : Transits[x] \subseteq Seq([via : (Node \cup {Root}) \ {x}, cost : 1..4])
\* The costs 1 to 4 fit, and the sum of two costs is not taken for infinite.
ASSUME CostAssumption == CostMod \in Nat /\ 4 < CostMod /\ 2 * CostMod < Infinite
ASSUME BoundAssumption ==
    MaxDaos \in Nat /\ MaxErrors \in Nat /\ MaxShifts \in Nat /\ MaxInputs \in Nat

\* The elements of s that are in S, in their order.
Only(s, S) ==
    LET f[i \in 0..Len(s)] ==
            IF i = 0 THEN <<>> ELSE IF s[i] \in S THEN Append(f[i - 1], s[i]) ELSE f[i - 1]
    IN  f[Len(s)]

-----------------------------------------------------------------------------
(***************************************************************************)
(* rpl_seq_compare(): lollipop counters.                                    *)
(***************************************************************************)
SeqCompare(a, b) ==
    CASE a = b -> "equal"
      [] a >= Circular /\ b < Circular -> IF SeqTop + b - a <= SeqWindow THEN "less" ELSE "greater"
      [] b >= Circular /\ a < Circular -> IF SeqTop + a - b <= SeqWindow THEN "greater" ELSE "less"
      [] a # b /\ a < Circular /\ b < Circular ->
            LET diff == (a - b) % Circular
            IN  IF diff <= SeqWindow THEN "greater"
                ELSE IF diff >= Circular - SeqWindow THEN "less" ELSE "unordered"
      [] OTHER -> IF (IF a > b THEN a - b ELSE b - a) > SeqWindow THEN "unordered"
                  ELSE IF a > b THEN "greater" ELSE "less"

\* rpl_seq_inc()
SeqInc(a) == IF a = Circular - 1 THEN 0 ELSE (a + 1) % SeqTop

-----------------------------------------------------------------------------
(***************************************************************************)
(* The database of targets.                                                 *)
(***************************************************************************)
HasTransit(t, via) == \E e \in Range(t.transits) : e.via = via
WithVia(transits, via) == Only(transits, {e \in Range(transits) : e.via = via})
WithoutVia(transits, via) == Only(transits, {e \in Range(transits) : e.via # via})

\* rpl_downward_add_root_transit(): a transit that is there is moved to the
\* end.  The path controls of a transit are or-ed, so the better cost stays.
AddTransit(t, e) ==
    LET pref == Min({e.cost} \cup {o.pref : o \in Range(WithVia(t.transits, e.via))})
    IN  [t EXCEPT !.transits = Append(WithoutVia(@, e.via), [via |-> e.via, pref |-> pref, cost |-> pref])]

(***************************************************************************)
(* rpl_downward_process_targets_for_transit(), of one transit.  Sequences   *)
(* of the restart region and those of external targets are always accepted  *)
(* and refresh the lifetime.                                                *)
(***************************************************************************)
Flexible(q, ext) == q >= Circular \/ ext
Accepted(q, ext, t) == Flexible(q, ext) \/ SeqCompare(q, t.seq) \in {"greater", "equal"}
Refreshed(t, q, ext) ==
    IF Flexible(q, ext) THEN [t EXCEPT !.life = Life] ELSE t
Cleared(t, q) ==
    IF SeqCompare(q, t.seq) = "equal" THEN t ELSE [seq |-> q, life |-> Life, transits |-> <<>>]
TransitFor(t, q, ext, e) ==
    IF ~Accepted(q, ext, t) THEN t ELSE AddTransit(Cleared(Refreshed(t, q, ext), q), e)

\* Updating a transit leaves the topological sort, a new one does not.
OnlyUpdated(t, q, e) == SeqCompare(q, t.seq) = "equal" /\ HasTransit(t, e.via)

-----------------------------------------------------------------------------
(***************************************************************************)
(* rpl_downward_link_transits_to_targets(): edges from parents to children. *)
(* A target has one transit to a parent, so that the children of a parent   *)
(* come in the order of the targets.                                        *)
(***************************************************************************)
Kids(lst, tg) ==
    [p \in Node \cup {Root} |->
        IF p = Root \/ p \in Range(lst) THEN Only(lst, {x \in Node : HasTransit(tg[x], p)}) ELSE <<>>]
CostVia(tg, x, p) == (CHOOSE e \in Range(tg[x].transits) : e.via = p).cost

(***************************************************************************)
(* rpl_downward_topo_sort(): Kahn's algorithm.  g.graph are the targets not *)
(* yet sorted, g.top those without a parent among them, g.in the edges that *)
(* a target still has from others that are not sorted.                      *)
(***************************************************************************)
\* An edge from a sorted or killed parent counts no more: who has none left
\* goes to the top nodes.
EdgeRemoved(g, x) ==
    LET left == IF g.in[x] > 0 THEN g.in[x] - 1 ELSE 0
    IN  IF left # 0 THEN [g EXCEPT !.in[x] = left]
        ELSE [g EXCEPT !.in[x] = left, !.graph = Only(@, Node \ {x}), !.top = Append(@, x)]

ParentSorted(g, p, x) ==
    IF p \in g.connected THEN [EdgeRemoved(g, x) EXCEPT !.connected = @ \cup {x}]
    ELSE EdgeRemoved(g, x)

TakeTop(g) ==
    LET p == Head(g.top)
        kids == g.kids[p]
        f[i \in 0..Len(kids)] ==
            IF i = 0 THEN [g EXCEPT !.top = Tail(@), !.sorted = Append(@, p)]
            ELSE ParentSorted(f[i - 1], p, kids[i])
    IN  f[Len(kids)]

(***************************************************************************)
(* rpl_downward_topo_sort_break_loop(): the edge to give up is, if there is *)
(* one, an edge to a target that is connected already; then the dearest;    *)
(* then the last.  An edge is a pair, the parent and the child.             *)
(***************************************************************************)
Before(s, x, y) == \E i, j \in DOMAIN s : i < j /\ s[i] = x /\ s[j] = y
LoopEdges(g) == {e \in Range(g.graph) \X Node : e[2] \in Range(g.kids[e[1]])}
AnyEdge(g, edges) == edges
Spare(g, edges) ==
    LET spare == {e \in edges : e[2] \in g.connected} IN IF spare = {} THEN edges ELSE spare
Dearest(tg, edges) ==
    LET top == Max({CostVia(tg, e[2], e[1]) : e \in edges})
    IN  {e \in edges : CostVia(tg, e[2], e[1]) = top}
Later(g, o, e) ==
    Before(g.graph, o[1], e[1]) \/ (o[1] = e[1] /\ Before(g.kids[e[1]], o[2], e[2]))
Kill(g, tg) ==
    LET best == Dearest(tg, Spare(g, LoopEdges(g)))
    IN  CHOOSE e \in best : \A o \in best \ {e} : Later(g, o, e)
BreakLoop(g, tg) ==
    LET k == Kill(g, tg)
    IN  EdgeRemoved([g EXCEPT !.kids[k[1]] = Only(@, Node \ {k[2]})], k[2])

SortStep(g, tg) ==
    IF g.top # <<>> THEN TakeTop(g) ELSE IF g.graph # <<>> THEN BreakLoop(g, tg) ELSE g

Linked(lst, tg) ==
    LET kids == Kids(lst, tg)
        in == [x \in Node |-> Cardinality({p \in Range(lst) : x \in Range(kids[p])})]
    IN  [graph |-> Only(lst, {x \in Node : in[x] # 0}), top |-> Only(lst, {x \in Node : in[x] = 0}),
         sorted |-> <<>>, kids |-> kids, in |-> in, connected |-> Range(kids[Root])]
\* Every step sorts a target or gives up an edge.
Sorted(lst, tg) ==
    LET g == Linked(lst, tg)
        n == Cardinality(Range(lst)) + Cardinality({e \in Range(lst) \X Node : e[2] \in Range(g.kids[e[1]])})
        f[i \in 0..n] == IF i = 0 THEN g ELSE SortStep(f[i - 1], tg)
    IN  f[n]

-----------------------------------------------------------------------------
(***************************************************************************)
(* rpl_downward_update_path_cost_to_children(): the transit of the best     *)
(* cost becomes the first of its target.  The parent's cost is passed in 16 *)
(* bits, and a cost of zero is taken for the root's.                        *)
(***************************************************************************)
\* rpl_policy_modify_downward_cost_to_root_neighbour()
LinkCost(l) ==
    IF l.etx = "none" THEN 256 ELSE IF l.etx = "poor" THEN 8 ELSE IF ~l.reachable THEN 4 ELSE 0
Added == [x \in Node |-> LinkCost(link[x])]

AsTheyWere(transits, via) == transits
First(transits, via) == WithVia(transits, via) \o WithoutVia(transits, via)
TransitCost(et, tg, x, p, parent) ==
    IF parent = 0 THEN (CostVia(tg, x, p) + et[x]) % CostMod ELSE CostVia(tg, x, p)
BetterIfNone(old, cost) == old = Infinite
Better(old, cost) == old > cost
Relaxed(et, s, x, p, parent) ==
    LET cost == parent + TransitCost(et, s.target, x, p, parent)
    IN  IF ~Better(s.cost[x], cost) THEN s
        ELSE [s EXCEPT !.cost[x] = cost, !.target[x].transits = First(@, p)]
Relax(et, s, kids, p, from) ==
    LET f[i \in 0..Len(kids)] == IF i = 0 THEN s ELSE Relaxed(et, f[i - 1], kids[i], p, from % CostMod)
    IN  f[Len(kids)]

\* rpl_downward_compute_paths()
Visit(et, s, kids, x) == IF s.cost[x] = Infinite THEN s ELSE Relax(et, s, kids[x], x, s.cost[x])
Costs(et, lst, tg, kids) ==
    LET none == [target |-> tg, cost |-> [x \in Node |-> Infinite]]
        f[i \in 0..Len(lst)] ==
            IF i = 0 THEN Relax(et, none, kids[Root], Root, 0) ELSE Visit(et, f[i - 1], kids, lst[i])
    IN  f[Len(lst)]

Computed ==
    LET g == IF topo.valid THEN [sorted |-> list, kids |-> topo.kids] ELSE Sorted(list, target)
        c == Costs(Added, g.sorted, target, g.kids)
    IN  IF paths.valid THEN [list |-> list, target |-> target, topo |-> topo, paths |-> paths]
        ELSE [list |-> g.sorted, target |-> c.target,
              topo |-> [valid |-> TRUE, kids |-> g.kids],
              paths |-> [valid |-> TRUE, cost |-> c.cost,
                         connected |-> {x \in Range(g.sorted) : c.cost[x] # Infinite},
                         quiet |-> FALSE]]

-----------------------------------------------------------------------------
(***************************************************************************)
(* rpl_data_compute_source_route(): from the target, first transit by first *)
(* transit, to the root.                                                    *)
(***************************************************************************)
Via(c, x) == Head(c.target[x].transits).via
WalkStep(c, w) ==
    LET p == Via(c, w.at)
    IN  IF w.end # "" THEN w
        ELSE IF p \notin Range(c.list) THEN [w EXCEPT !.end = "root", !.last = p]
        ELSE IF p \notin c.paths.connected THEN [w EXCEPT !.end = "disconnected"]
        ELSE IF p = w.dest \/ p \in Range(w.hops) THEN [w EXCEPT !.end = "loop"]
        ELSE [w EXCEPT !.hops = Append(@, p), !.at = p]
Walk(c, x) ==
    LET n == Cardinality(Node) + 1
        f[i \in 0..n] ==
            IF i = 0 THEN [dest |-> x, at |-> x, hops |-> <<>>, end |-> "", last |-> x]
            ELSE WalkStep(c, f[i - 1])
    IN  f[n]

-----------------------------------------------------------------------------
(***************************************************************************)
(* Actions.                                                                 *)
(***************************************************************************)
Init ==
    /\ list = <<>> /\ target = [x \in Node |-> NoTarget]
    /\ topo = Unsorted /\ paths = NoPaths /\ sr = NoRoute
    /\ srh = 0 /\ dtsn = SeqTop - SeqWindow
    /\ link = [x \in Node |-> NoLink]
    /\ daos = 0 /\ errors = 0 /\ shifts = 0

\* rpl_downward_topo_sort_invalidate(), rpl_downward_paths_invalidate()
PathsKeepRoute == paths' = NoPaths /\ UNCHANGED <<sr, topo>>
InvalidateTopo == topo' = Unsorted /\ paths' = NoPaths /\ sr' = NoRoute
InvalidatePaths == paths' = NoPaths /\ sr' = NoRoute /\ UNCHANGED topo
Invalidate(structure, costs) ==
    IF structure THEN InvalidateTopo
    ELSE IF costs THEN InvalidatePaths
    ELSE UNCHANGED <<topo, paths, sr>>

Inputs == 2 * (daos + shifts) + errors
OneDao == daos < MaxDaos /\ Inputs + 2 <= MaxInputs /\ daos' = daos + 1

\* rpl_instance_dao_received(): the transits of a target, one after the other.
TransitReceived(s, q, ext, e) ==
    [t |-> TransitFor(s.t, q, ext, e),
     new |-> s.new \/ (Accepted(q, ext, s.t) /\ ~OnlyUpdated(s.t, q, e)),
     upd |-> s.upd \/ (Accepted(q, ext, s.t) /\ OnlyUpdated(s.t, q, e))]
Received(x, q, ext, l) ==
    LET start == IF x \in Known THEN target[x] ELSE [seq |-> q, life |-> Life, transits |-> <<>>]
        f[i \in 0..Len(l)] ==
            IF i = 0 THEN [t |-> start, new |-> x \notin Known, upd |-> FALSE]
            ELSE TransitReceived(f[i - 1], q, ext, l[i])
    IN  f[Len(l)]

Dao(x, q, ext, l) ==
    LET s == Received(x, q, ext, l)
    IN  /\ OneDao
        /\ target' = [target EXCEPT ![x] = s.t]
        /\ list' = IF x \in Known THEN list ELSE Append(list, x)
        /\ Invalidate(s.new, s.upd)
        /\ UNCHANGED <<srh, dtsn, link, errors, shifts>>

\* A No-Path: rpl_downward_delete_root_transit().  A target goes with its last
\* transit.
TransitDeletedOnly == InvalidatePaths
TransitDeleted == InvalidateTopo
NoPath(x, via) ==
    LET left == WithoutVia(target[x].transits, via)
    IN  /\ OneDao
        /\ x \in Known /\ HasTransit(target[x], via)
        /\ list' = IF left = <<>> THEN Only(list, Node \ {x}) ELSE list
        /\ target' = [target EXCEPT ![x] = IF left = <<>> THEN NoTarget
                                           ELSE [@ EXCEPT !.transits = left]]
        /\ TransitDeleted
        /\ UNCHANGED <<srh, dtsn, link, errors, shifts>>

(***************************************************************************)
(* rpl_downward_transit_error(): the transit gets dearer, and many errors   *)
(* make the root ask for DAOs.                                              *)
(***************************************************************************)
Dearer(cost) == IF cost < CostMod - 4 THEN cost + 4 ELSE CostMod - 1
Ask(n) == n > 2 * Len(list)
TransitError(x, via) ==
    LET worse(e) == IF e.via = via THEN [e EXCEPT !.cost = Dearer(@)] ELSE e
    IN  /\ errors < MaxErrors /\ Inputs < MaxInputs /\ errors' = errors + 1
        /\ x \in Known /\ HasTransit(target[x], via)
        /\ target' = [target EXCEPT ![x].transits = [i \in DOMAIN @ |-> worse(@[i])]]
        /\ InvalidatePaths
        /\ srh' = IF Ask(srh + 1) THEN 0 ELSE srh + 1
        /\ dtsn' = IF Ask(srh + 1) THEN SeqInc(dtsn) ELSE dtsn
        /\ UNCHANGED <<list, link, daos, shifts>>

\* rpl_downward_dao_slow_timer()
SlowTimer ==
    LET gone == {x \in Known : target[x].life <= 1}
    IN  /\ Known # {}
        /\ list' = Only(list, Node \ gone)
        /\ target' = [x \in Node |-> IF x \in gone THEN NoTarget
                                     ELSE IF x \in Known THEN [target[x] EXCEPT !.life = @ - 1]
                                     ELSE target[x]]
        /\ Invalidate(gone # {}, FALSE)
        /\ UNCHANGED <<srh, dtsn, link, daos, errors, shifts>>

\* A packet to x is routed: with the route that is kept, or a new one.
Applied(c) ==
    list' = c.list /\ target' = c.target /\ topo' = c.topo /\ paths' = c.paths
Route(x) ==
    LET c == Computed
        w == Walk(c, x)
    IN  /\ x \in Known /\ sr.target # x
        /\ Applied(c)
        /\ sr' = IF x \notin c.paths.connected THEN sr
                 ELSE IF w.end = "root" THEN [target |-> x, hops |-> w.hops] ELSE NoRoute
        /\ UNCHANGED <<srh, dtsn, link, daos, errors, shifts>>

\* rpl_downward_route_table_get(), for the D-Bus interface.
RouteTable ==
    /\ list # <<>>
    /\ Applied(Computed)
    /\ UNCHANGED <<sr, srh, dtsn, link, daos, errors, shifts>>

(***************************************************************************)
(* A link changes.  RPL hears of an ETX that differs by the hysteresis from *)
(* the one last reported, in rpl_control_etx_change_callback(), and not of  *)
(* a smaller change, of a new neighbour, whose ETX is taken for a good one  *)
(* (ws_bootstrap.c:684), or of the reachability in the neighbour cache.     *)
(***************************************************************************)
Shift(x, l) ==
    /\ shifts < MaxShifts /\ Inputs + 2 <= MaxInputs /\ shifts' = shifts + 1
    /\ link' = [link EXCEPT ![x] = l]
    /\ UNCHANGED <<list, target, srh, dtsn, daos, errors>>
EtxReported(x, l) == Shift(x, l) /\ InvalidatePaths
LinkQuiet(x, l) ==
    /\ l # link[x]
    /\ Shift(x, l)
    /\ paths' = [paths EXCEPT !.quiet = paths.valid]
    /\ UNCHANGED <<topo, sr>>

Next ==
    \/ \E x \in Node, q \in Seqs, ext \in Externals : \E l \in Transits[x] : Dao(x, q, ext, l)
    \/ \E x \in Node, via \in Node \cup {Root} : NoPath(x, via) \/ TransitError(x, via)
    \/ \E x \in Node, l \in Links : EtxReported(x, l) \/ LinkQuiet(x, l)
    \/ \E x \in Node : Route(x)
    \/ RouteTable
    \/ SlowTimer

Spec == Init /\ [][Next]_vars

-----------------------------------------------------------------------------
(***************************************************************************)
(* Properties.                                                              *)
(***************************************************************************)
Transit == [via : Node \cup {Root}, pref : 1..4, cost : 1..(CostMod - 1)]
Target == [seq : 0..(SeqTop - 1), life : 0..Life, transits : Seq(Transit)]
OnePerVia(t) == \A i, j \in DOMAIN t.transits : t.transits[i].via = t.transits[j].via => i = j

\* The database is well formed, the order of the targets included, which the sort
\* takes apart and puts together again; and the child lists that the sort left
\* behind hold only transits of the database: none that was freed since.
TypeOK ==
    /\ list \in Seq(Node) /\ IsInjective(list)
    /\ target \in [Node -> Target] /\ \A x \in Node \ Known : target[x] = NoTarget
    /\ \A x \in Known : target[x].seq \in Seqs /\ target[x].life # 0 /\ OnePerVia(target[x])
    /\ topo \in [valid : BOOLEAN, kids : [Node \cup {Root} -> Seq(Node)]]
    /\ topo.valid => \A p \in Node \cup {Root} : \A x \in Range(topo.kids[p]) :
            x \in Known /\ HasTransit(target[x], p)
    /\ paths.valid \in BOOLEAN /\ paths.quiet \in BOOLEAN /\ sr.target \in Node \cup {Root}
    /\ srh \in Nat /\ dtsn \in 0..(SeqTop - 1) /\ link \in [Node -> Links]
    /\ daos \in 0..MaxDaos /\ errors \in 0..MaxErrors /\ shifts \in 0..MaxShifts

\* Reference: what the root can reach over the transits of the database.
Grown(s) == s \cup {x \in Known : \E p \in s : HasTransit(target[x], p)}
Reached ==
    LET f[k \in 0..Cardinality(Node)] == IF k = 0 THEN {Root} ELSE Grown(f[k - 1])
    IN  f[Cardinality(Node)] \ {Root}

\* However transits form loops, breaking the loops disconnects nobody who can
\* be reached.
AllConnected == paths.valid => paths.connected = Reached

\* Reference: the cheapest path, by rounds over all transits.
CostOver(d, x, e) ==
    IF e.via = Root THEN e.cost + Added[x]
    ELSE IF e.via \in Known /\ d[e.via] # Infinite THEN d[e.via] + e.cost ELSE Infinite
Cheaper(d) ==
    [x \in Node |-> Min({d[x]} \cup {CostOver(d, x, e) : e \in Range(target[x].transits)})]
BestCost ==
    LET n == Cardinality(Node)
        f[k \in 0..n] == IF k = 0 THEN [x \in Node |-> Infinite] ELSE Cheaper(f[k - 1])
    IN  f[n]
Ancestors(s) == s \cup {p \in Known : \E x \in s : HasTransit(target[x], p)}
Loop(x) ==
    LET up == {p \in Known : HasTransit(target[x], p)}
        f[k \in 0..Cardinality(Node)] == IF k = 0 THEN up ELSE Ancestors(f[k - 1])
    IN  x \in f[Cardinality(Node)]

\* Where the transits form no loop, the costs are those of the cheapest paths, with
\* the links as they are now unless one has changed since without a report.
Cheapest ==
    (paths.valid /\ ~paths.quiet /\ \A x \in Known : ~Loop(x)) =>
        \A x \in Known : paths.cost[x] = BestCost[x]

\* rpl_data.c: "Check transit address isn't already in table. Should not be
\* possible".  From every connected target the first transits lead to the root
\* itself, without a loop and past no disconnected parent.
WalkEnds ==
    paths.valid => \A x \in paths.connected :
        LET w == Walk(Computed, x) IN w.end = "root" /\ w.last = Root

\* The path of a source route that is kept, from the target to the root.
Chain == <<sr.target>> \o sr.hops \o <<Root>>

\* A source route that is kept for the next packet is a path of the database as
\* it is now, without a loop and each hop a transit of the one before: nothing
\* that changes the database leaves an old route behind.
RouteIsPath ==
    sr.target # Root =>
        /\ IsInjective(Chain)
        /\ \A i \in 1..(Len(Chain) - 1) : Chain[i] \in Known /\ HasTransit(target[Chain[i]], Chain[i + 1])

\* What that path costs, summed up from the root.
ChainCost ==
    LET n == Len(Chain) - 1
        f[i \in 0..n] ==
            IF i = 0 THEN Added[Chain[n]]
            ELSE f[i - 1] + CostVia(target, Chain[n + 1 - i], Chain[n + 2 - i])
    IN  f[n]

\* And where there is no loop no other path is cheaper now: no DAO, No-Path, source
\* routing error or reported change of an ETX leaves an old route behind.  A change
\* that rpl_policy_modify_downward_cost_to_root_neighbour() reads and nothing reports,
\* of the reachability or of an ETX not reported, does leave one behind:
\* after it only the path half is claimed, until the paths are computed again.
RouteCurrent ==
    /\ RouteIsPath
    /\ (sr.target # Root /\ ~paths.quiet /\ \A x \in Known : ~Loop(x)) =>
            ChainCost = BestCost[sr.target]
=============================================================================
