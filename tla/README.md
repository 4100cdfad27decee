# A TLA+ verification of the Wi-SUN border router daemon

`wsbrd` is the Linux side of a Wi-SUN FAN border router. It runs the network
stack (authentication, RPL root, 6LoWPAN, IPv6) in one process and drives a radio
co-processor (RCP) over a serial bus. Its main loop is a `poll()`: a timer
tick, an RCP frame, a D-Bus call or a packet from the tun device is handled to its
end before the next one. So there is no thread interleaving. What is hard is the
order of handlers, events posted by one handler and dispatched after another, the
RCP's late answers, layers that call each other back within one event, lost and
repeated messages, the process being killed between any two handlers or inside
one, and files that lag behind the memory.

## 1. Inventory

| Part | State | Operations | Interacts with | What makes it correct |
|---|---|---|---|---|
| Group key container (`sec_prot_keys.c`) | 4 GTK / 3 LGTK slots: key, lifetime, status, install order, `updated` | set, clear, decrement, renumber, activate | authenticator, controller | install orders distinct, one active key |
| Authenticator, group keys (`ws_pae_auth.c`, `ws_pae_timers.c`) | "new key required" flag, frame-counter timer | start, slow timer, revoke, insert | container, controller, D-Bus | a successor in time, expiry in order, the key in use is not taken away, rotation never ends |
| PAE controller (`ws_pae_controller.c`) | MAC key table, files `network-keys` and `counters` | auth_init, stop, key mirror, file writes | MAC, storage | MAC = key tables, file = key tables |
| Pending key switch (`ws_bootstrap.c`, `ws_bootstrap_6lbr.c`) | pending index and state, default key | advertise, activate | LLC confirm, authenticator | never sends with a key that is gone |
| Frame counters (`ws_pae_controller.c`, `mac_helper.c`, `rcp_api.c`) | counters per key, two timers, one mailbox for RCP answers | read, store, restore | RCP, storage | no counter value used twice with a key |
| Authenticator, supplicants (`ws_pae_auth.c`, `ws_pae_lib.c`, `kmp_api.c`) | active, waiting and inactive lists, KMPs of each supplicant, posted events | initial key, KMP create/finish, timeout | key exchanges, event scheduler | the limits hold, one KMP at a time, whoever waits is served or let go |
| Key exchanges (EAP-TLS, RADIUS, 4WH, GKH) and key storage (`ws_pae_key_storage.c`) | state, retries, replay counter; PMK and PTK per node, in memory and in a file | message, timeout, store, read, revoke | the node, EAPOL relay | both ends agree on the PTK, it is installed once, a revoked key stays out, the node gets all keys |
| RPL root (`rpl_*.c`) | targets, transits, path sequences, lifetimes; sort and costs derived from them; the last source route | DAO, No-Path, error, expiry, change of a link, source route | IPv6, routing table, ETX | nobody is cut off, cheapest path, no loop, no stale route |
| Trickle, MPL (`trickle.c`, `mpl.c`) | interval, counter; window and messages per seed | tick, message, control message, expiry | IPv6 | a message is passed on once, the buffer keeps its limit, timers stay armed |
| 6LoWPAN adaptation, LLC (`adaptation_interface.c`, `ws_llc_data_service.c`) | transmit queue, active lists, message list, EAPOL queue, priority state | request, confirm, purge, refuse, age, reset | RCP, IPv6, EAPOL, PAN frames | each packet handed down is confirmed once, nothing waits without a reader |
| Neighbour table, ETX, blacklist | entry life time, trust, link quality | add, refresh, age, evict | LLC, RPL | a neighbour in use is not evicted |
| IPv6 core, ND, routing; DHCPv6; LFN management; D-Bus; command line; scheduler; vendor meter collector; simulators | see `PROJECT.json` | | | |

Hard behaviours, each at its line under `hazards` in `PROJECT.json`.

## 2. Modules

| Module | Part | Extends / uses |
|---|---|---|
| `SecProtKeys` | group key container, as operators on a key set | |
| `PaeAuthKeys` | group keys of the authenticator, controller, file `network-keys`, pending switch, D-Bus methods | extends `SecProtKeys` |
| `FrameCounters` | frame counters, RCP answers, file `counters` | |
| `SuppPool` | abstract specification: a bounded pool with a bounded waiting room | |
| `PaeAuthSupplicants` | supplicant lists, KMPs, event FIFO, fast timer | implements `SuppPool` (`INSTANCE ... WITH`) |
| `KeyHandshake` | the key exchanges with one node, both ends, and its key file | |
| `Trickle` | the Trickle timer, as operators on a value | |
| `Mpl` | MPL seed set | instantiates `Trickle` |
| `RplRoot` | non-storing RPL root | |
| `LowpanTx` | 6LoWPAN transmit queue on top of the LLC message list | |
| `PaeAuthKeysProofs` | lemmas on the container, then theorems | extends `PaeAuthKeys` |
| `FrameCountersProofs` | theorems | extends `FrameCounters`, `NatInductionLemmas` |
| `SuppPoolProofs` | theorem | extends `SuppPool` |
| `PaeAuthSupplicantsProofs` | theorems, the refinement among them | extends `PaeAuthSupplicants`, `NatInductionLemmas` |
| `KeyHandshakeProofs` | theorems | extends `KeyHandshake`, `NatInductionLemmas` |
| `MplProofs` | theorems | extends `Mpl`, `NatInductionLemmas` |
| `RplRootProofs` | theorems | extends `RplRoot`, `NatInductionLemmas` |
| `NatInductionLemmas` | induction over the natural numbers and over a loop | |
| `MC...` | instances for TLC | |

Where a handler makes several calls, a record of the state is threaded through
them in the order of the code: each function of the source is one operator
that takes and returns that record, and the action is the whole handler.

### PaeAuthKeys

| Variable | Code |
|---|---|
| `gtks[kind]`, `next[kind]` | `sec_keys_nw_info.gtks/lgtks`, `next_gtks` |
| `instReq[kind]` | `gtk_new_inst_req_exp` (`gtk_new_act_time_exp` is set and reset in one pass and is no variable) |
| `cntTimer` | `prev_frame_cnt_timer` |
| `mac[kind]` | `nw_key[]`, the keys installed in the RCP |
| `send`, `pend` | default key index; `pending_key_index_info` |
| `disk` | file `network-keys` (expiry times there are absolute; the model keeps the time left) |
| `mode`, `timer` | how far start-up has got; where the slow timer is in its walk over the slots |
| `silentCut` | history: the kinds with a lifetime cut, since the last write, by code that sets no `updated` flag |

Actions: `Boot` (configured keys and `auth_init`), `Start` (`ws_pae_auth_start`; only a
crash can come between the two), `SlowTimer` and `TimerKey` (one call of
`ws_pae_auth_slow_timer_key` per slot, cut up only so that the process can be
killed in between), `InstallGtk`, `RevokeGroupKeys`, `ActiveKeyUpdate` (D-Bus),
`PanConfigSend`, `PanConfigConfirm` (the two steps of the switch), `Stop`, `Crash`
(with torn writes).

Left out: PAN version increments; `nw_info.updated` (a changed PAN id or network
name also causes a write, of the same keys); LFN and FFN timers share one
setting; the supplicants, who are only told of changes.

### FrameCounters

`counters`, `activeIdx` are `frame_counters_t`; `rcp` the counters in the radio;
`mailbox` is `rcp.frame_counter` and `answers` what is still under way: a read
sends a request and returns the mailbox, so its result is the answer to some earlier
request. `file` is the file `counters` (`%d` on output and `strtoul` on input give the
same 32-bit value back). `top[key]` is a ghost: the first value never used with a key.
`table` and `active` stand for the tables of `PaeAuthKeys`; installing (`ChangeKey`) and
activating (`Activate`) a key are actions, which may also happen in places where the
authenticator would not do it. The RCP starts a counter from 0 when a key is set.

### PaeAuthSupplicants and SuppPool

`active`, `waiting`, `size` are `active_supp_list`, `waiting_supp_list` and its counter;
`ent[x]` the entry of a supplicant with its KMPs, its `ticks` and its `waiting_ticks`.
`events` is the scheduler's FIFO: the main loop dispatches events in the round after the
one that posted the first of them, so up to one more datagram and one timer run
come in between (`round`). Actions: `InitialKey` (an initial EAPOL-Key message,
which gets a place, waits, or pushes out the longest waiting one), `OtherMessage`,
`LastMessage` (a message that ends a KMP), `Dispatch` (an event, which chooses the next
protocol), `UseAfterFree` (the event of a KMP that was freed meanwhile: the daemon
may go down), `FastTimer` (all KMPs and entries, active list first). How congested the
stack is, which decides between `MinActive` and `MaxActive`, is a free choice.

`SuppPool` says the same of two sets: admit, park, leave with at most one
promotion per place that gets free, restart. The refinement mapping takes the lists to
their ranges.

### KeyHandshake

One node and the border router. `auth` is `supp_entry_t.sec_keys`, `fwh`, `gkh`, `mka` the
KMPs of the authenticator, `file` is `keys-<EUI-64>`, `node` and `nfwh` are the node's end
(`supp_fwh_sec_prot.c`, `supp_gkh_sec_prot.c`, the parts of `ws_pae_supp.c` they need). A
PTK is the triple of PMK and nonces it is computed from, and a MIC is the PTK that made
it: messages under different keys are told apart, and nothing else of the cryptography
matters. Reading the file sets the bit of an installed hash from its text and not from
its index, which is a free choice of bits here. Actions: `NewGtk`, `Activate`, the
receipt of each message by either end (`Receive`), the timeouts `FwhTimeout`, `GkhTimeout`,
`MkaTimeout` and `NodeTimeout`, `MkaDone` (EAP-TLS in one step), `StoreTimeout` and `Inactive`
(the two writes of the file), `Revoke`, `Crash`, `NodeStart`, `Lose`. LGTKs and lifetimes are left
out, but for the one question the code asks of them when it offers a key again
(`LongLifetime`). Past its limit (`CntLimit`) the replay counter is set to `CntMask` and the
message is not sent, as in `sec_prot_keys_pmk_replay_cnt_increment()`.

### Trickle and Mpl

`Trickle` has the timer of `trickle.c` on a value (interval, time, threshold, counter,
expirations). `Mpl` keeps for each seed the window and the ordered list of messages, each
with its Trickle timer, the buffer total, and whether the one-shot fast timer is armed.
Actions: `Receive`, `SeedMessage` (the border router's own), `ControlHandler`, `FastTimer`,
`SlowTimer`, `ClearSeeds`. There is the one domain `ws_bootstrap.c` creates; control messages are
heard and, as configured, never sent.

### RplRoot

`list` and `target` are the target database, `topo` and `paths` what
`rpl_downward_topo_sort` and `rpl_downward_compute_paths` leave behind while their
`valid` flags hold, `sr` the source route kept in `rpl_data_sr`. Actions: `Dao`, `NoPath`,
`TransitError` (a source routing error), `SlowTimer` (lifetimes), `Route` (a packet is routed),
`RouteTable` (costs are asked for), `EtxReported` and `LinkQuiet` (a link of the border router changes).
A DAO may be of an external target, whose transits are always accepted and refresh the lifetime.

What a direct link adds to a cost comes from `link`, the ETX and the reachability of each node, at the
moment the costs are computed (`rpl_policy.c:250-270`). A change of ETX is reported and invalidates
the paths (`rpl_control.c:408-432`). A change of reachability, an ETX within the hysteresis, and a new neighbour,
whose ETX is taken for a good one as soon as it is a child (`ws_bootstrap.c:684`), are not reported. The history `paths.quiet` says that a link changed in that way since the costs were computed.
 Sorting (Kahn's algorithm), breaking of loops, costs and
the walk that collects a route are translated step by step, each loop of the code as a recursive function
over its turns; the properties compare them with reference definitions
(reachability and cheapest path by rounds).

### LowpanTx

| Variable | Code |
|---|---|
| `queue`, `active`, `bcast` | `directTxQueue`, `activeUnicastList`, `active_broadcast_tx_buf` |
| `fragmenter`, `high` | `fragmenter_active`, `last_rx_high_priority` |
| `old` | which packets are past their age limit (`adaptation_timestamp` in the code) |
| `llc` | `llc_message_list` |
| `pending`, `session`, `running` | `llc_eap_pending_list`, `active_eapol_session`, `pan_advert_running` / `pan_config_running` |
| `nbr` | MAC neighbour table, as far as a destination is known |
| `cut` | ghost: a removed neighbour took an active packet and the queue was not read since |

Actions: `Send`, `ExpediteForwardEnable`, `DataConfirm`, `EapolConfirm`, `ManagementConfirm`,
`EapolRequest`, `AsynchRequest`, `MngtLfnRequest`, `RemoveNeighbour`, `AddNeighbour`, `Elapse` and `Age`
(time), `SlowTimer`, `DiscoveryStart`. A request that finds the message list full is
confirmed before it returns, that confirm reads the queue and sends again: the nesting
is in the (recursive) operators, which is why this module has no theorems. Handles are
the smallest number not in use, which stands for 8-bit counters that do not come round
while a frame is under way. A purge is a request to the RCP where its API is 0.4.0 or newer
(`RcpDrops`); with an older one the message stays until its confirm.

## 3. Runs

| Run | Instance | Shows |
|---|---|---|
| `rotation` | 4 slots, 6 keys, the first one configured, D-Bus installs and revocations at any second | `TypeOK`, `SendsWithActive`, `SuccessorInstalled`, `ExpireInOrder`, `ActiveKeyStays` |
| `restart` | 3 slots, no configured key; revocations with random and given keys, activations over D-Bus, cuts for the frame counters; one stop or crash anywhere, torn writes, up to 2 s down | `InstallOrderDistinct`, `SingleActive`, `MacInSync`, `KeysSaved`, `LifetimesSaved` |
| `progress` | GTKs and LGTKs, lifetimes cut at every look at the frame counters | `Rotates` (liveness) |
| `gap` | one crash | `Rotates` **violated**: see findings |
| `store` | 2 GTK slots, 1 LGTK slot, 3 keys, one restart | `TypeOK`, `StoredBeforeUse`, `CountersForward` (no counter is set back while the daemon runs, and the file does not go back either) |
| `reuse` | two restarts | `GtkCounterUnused` **violated** |
| `handshake` | 2 slots, 3 GTKs, 2 tries, any 2 faults | `TypeOK`, `PtkAgreed`, `InstalledOnce`, `GroupKeyProtected`, `RevokedStaysOut`, `NoSelfDelete`, `EventuallyKeyed` (liveness) |
| `pool` | 3 supplicants, 1 place, 2 waiting places, 3 datagrams | `TypeOK`, `OneNegotiation`, `KeyHeard`, `PoolSpec` (refinement), `WaitingLeaves` (liveness) |
| `mpl` | own seed and one other, numbers modulo 8 | `TypeOK`, `AtMostOnce`, `Ordered`, `Accounted`, `TimerArmed` |
| `rpl` | 3 nodes, DAOs with one or two parents, of external targets too; one change of a link | `TypeOK`, `AllConnected`, `Cheapest`, `WalkEnds`, `RouteCurrent` |
| `lowpan` | a normal, a two-fragment, an expedited and a broadcast packet, 2 neighbours | `TypeOK`, `Awaited`, `Served`, `Drained` (liveness) |
| `fragment` | the same | `FragmentedTxActive` **violated** |

### Bounds

*Group keys.* Lifetimes are a few seconds instead of 30 days. What matters is that the
points in the life of a key come in the order of the defaults: install, then
activation, then expiry, with room for a switch in between: `ExpireOffset` 6 in `rotation`
gives each its own second; the shorter lifetimes elsewhere keep the order, with activation in
the second before expiry or together with it. Six keys are enough because a key value can come back
once no slot holds it. `MaxLifetime` bounds how far ahead installs over D-Bus can reach (three keys).
In `rotation` `RevocatLifetimeReduct` is 1, so that the revocation lifetime exceeds the
activation time, as in the defaults (1 day and 60 minutes): with the two
equal, a second revocation while the old key of the first one still lives cuts
the window for the switch to one PAN configuration delay, and `SendsWithActive`
fails. In `restart` the frame counters are looked at every second (`FrameCntTimer` 1) and
may cut the active key's lifetime each time. Keys live 3 s at most there, which is enough for a cut by
more than one second, the least that `LifetimesSaved` sees, before or after a write and a crash. Old keys with time left come from
activations over D-Bus. Restarts happen once (twice in `reuse`): a second one starts from a file that a
first run could also have written.

*Counters.* `MaxCounter` 5 stands for 2^32 - 1 and is reached; `Increment` exceeds
`StoreThreshold`, as in the code. `MaxUnderWay` bounds the answers that another
handler may overtake. Keys are interchangeable (symmetry), except a configured one.

*Handshake.* Two faults are a loss and a late message, a duplicate and a crash, a
revocation and a crash, and so on; one slot changes and one stays; the third GTK replaces
one that was installed. The replay counter has its real limit, 60000, which no run of this size
reaches; the theorems cover what happens there.

*Pool.* With one place and two that may wait, three supplicants reach each limit and push
one another out. Three datagrams are two for the entry that an event is on its way
to and one of another.

*MPL.* The numbers wrap after the first message; `MaxSent` 3 is the most that keeps the
messages within half of 8 numbers; the buffer of 5 units is less than the messages of
both seeds need, so space is freed.

*RPL.* Three nodes give loops of two and of three next to a path to the root. `Seqs` and
`Circular` give greater, less and unordered sequences. A DAO and a change of a link count twice in
`MaxInputs` 6, so that runs have up to three DAOs, or fewer with errors and one change of a link
(`MaxShifts`). Each node is a neighbour with a good link or none: the first of these adds
less than the other, so that a change makes the route that is kept the dearer one, or a dearer one
the cheapest. Of two parents a node is the preferred one; with all pairs (202,000 states)
the properties hold too. Nodes are interchangeable.

*Transmit side.* `UnicastMax` 2 and `LlcMax` 2 stand for 10 and 16: the message list is smaller
than what wants to be in it, as 16 is less than what 10 unicasts, broadcasts, EAPOL
and PAN frames may come to together with LFN frames. The safety part was also
checked with `LlcMax` 3 (3.1 million states).

`CHECK_DEADLOCK FALSE` is used where the input is bounded and the part rests when
all of it has been dealt with.

### Fairness

- `PaeAuthKeys`: weak fairness of the timer's steps, of sending and confirming the PAN
  configuration, and of the start-up. The main loop serves an expired timer, the trickle timer
  does send a PAN configuration, and the RCP confirms every frame, sent or not. No
  fairness is given to D-Bus calls, stops or crashes. `PanConfigDelay` bounds how many
  seconds the trickle timer may take, which safety (`SendsWithActive`) depends on.
- `KeyHandshake`: while a message is under way or a timer runs, one of them gets its turn;
  which one is open. Losses, revocations and crashes are faults: they may happen, twice at
  most, and are never forced.
- `PaeAuthSupplicants`: posted events are dispatched and a running timer ticks. Both are
  the main loop's doing; datagrams get no fairness. `WaitingLeaves` is stated while the timer runs.
- `LowpanTx`: the radio answers every frame, time passes and the slow timer runs.
  `Drained` has as its premise that no packet comes in any more, since priorities let a
  steady stream of expedited packets hold back all others.

In `PaeAuthKeys` each condition names the one variable that the step moves. Elsewhere
the conditions are written out with the state formula that enables the step
(`[]<>~Enabled \/ []<><<A>>_vars`), or, where the step always ends what enables it, as
`[]<>~Enabled`: equivalent to `WF` and far cheaper to check than `ENABLED` of a whole
handler. That the radio answers is one condition per handle: a message keeps its handle until
its confirm is through, so a frame sent from that confirm has another one.

## 4. Findings

- `gap` (`ws_pae_controller.c:1103`): a key that ran out while the daemon was down is
  skipped on reading, and the others keep their install orders. A lone active key
  of order 1 then counts as its own successor; no new key is ever installed and
  after it expires the network has none. It takes a restart in the window between
  the activation of a key and the expiry of its predecessor.
- `reuse` (`mac_helper.c:194`): the counter stored for a GTK is the last answer of the
  RCP, whose key index is dropped, most of the time the last LGTK's. The file then stays
  behind without limit, and a restart re-uses counter values.
- `fragment` (`adaptation_interface.c:1165` and `:1377`): `fragmenter_active` is reset where a
  fragmented packet ends with its confirm. When the radio gives up one of its frames, or its
  neighbour is removed, the packet leaves the active list and the flag stays: nothing
  is sent until the next discovery start.

Seen while modelling and kept in the models, but not stated as properties, because
nothing in the repository promises otherwise or the case is beyond the model:

- only the dirty flag of the GTKs is looked at when the file is written (`ws_pae_controller.c:421`),
  only GTK counters are raised on start (`:904`), and the force timer of the counters file is
  never armed again (`:2037`);
- a write torn between GTKs and LGTKs leaves no LGTK, so the next start writes the file back without the
  EUI-64 (`ws_pae_controller.c:1212`), and the GTKs it has read are not marked to be written again: a second
  restart soon after discards them;
- the cut of a lifetime for the frame counters' sake marks nothing as updated (`ws_pae_auth.c:868`), nor does a revocation
  whose caller gives a key the set already has: a restart before the next write undoes the cut. `LifetimesSaved` leaves such a set out
  (`silentCut`) until it is written; without the exception TLC finds it violated;
- a change of reachability changes the cost of a link (`rpl_policy.c:266`) and invalidates nothing: the route that is kept, and the computed
  costs, may be dearer than they need be until something else invalidates them. `Cheapest` and the cost half of `RouteCurrent` leave this out
  (`paths.quiet`); without the exception TLC finds them violated;
- the check of a hash against the PTK's slot takes the bit of slot 0 for "set by the 4WH" (`sec_prot_keys.c:967`);
- a supplicant promoted in the tick that ends all active ones is left with the timer stopped
  (`ws_pae_auth.c:794`) until the next message starts it;
- an event may be dispatched to a KMP that was freed (`kmp_api.c:703`), and a 4WH that runs on
  after a revocation reads a PMK that is gone: both are modelled as steps that may bring the daemon down;
- a discovery start leaves the running flags of PAN frames set (`ws_llc_data_service.c:1823`), and
  `ws_llc_clean` reads a message it has freed (`:1467`);
- a removed neighbour leaves its LLC message behind and the queue unread (`adaptation_interface.c:1377`):
  the exception `cut` in `Served` and `Drained`;
- the search for an MPX id does not end when all 16 are taken (`ws_llc_data_service.c:296`).

## 5. Proofs

All theorems hold for every value of the constants that satisfies the named assumptions of
the modules; these are what the code's constants satisfy (for the group keys 2 to 4 slots, because
`install_order` has two bits; a waiting list of more than one place; MPL messages that
span less than half the sequence numbers; an infinite RPL cost that no sum of two 16-bit costs reaches; any keys, nodes, seeds, lifetimes, timeouts, counter widths, buffer sizes and
bounds on the environment).

| Theorem | Module | States |
|---|---|---|
| `TypeCorrect` | `PaeAuthKeysProofs` | `TypeOK` |
| `MacAlwaysInSync` | | `MacInSync` |
| `KeyTablesFormed`, `OneKeyActive` | | `InstallOrderDistinct`, `SingleActive`: with no configured keys, or no restart |
| `KeysExpireInOrder`, `ActiveKeyKept` | | `ExpireInOrder` and the action property `ActiveKeyStays`: offsets in the code's order, no restart, no key activated by hand |
| `KeysAlwaysSaved` | | `KeysSaved`: no configured keys; one key set, or no restart |
| `BothSetsInFile` | | the same for both sets and any restarts, except that the next start may not accept the file |
| `LifetimesAlwaysSaved` | | `LifetimesSaved`: no configured keys; all cuts and all D-Bus calls are in the specification (a set with a cut that marked nothing is left out until the next write, by the property) |
| `CounterTypes` | `FrameCountersProofs` | `TypeOK` |
| `StoredBeforeActivated` | | `StoredBeforeUse` |
| `CountersNeverBack` | | the action property `CountersForward` |
| `PoolBounded` | `SuppPoolProofs` | the abstract pool keeps both limits and has nobody in two places |
| `SupplicantTypes`, `NegotiationsSingle` | `PaeAuthSupplicantsProofs` | `TypeOK`, `OneNegotiation` |
| `KeyMessagesHeard` | | `KeyHeard` |
| `ImplementsPool` | | `Spec => PoolSpec`, the refinement |
| `HandshakeTypes` | `KeyHandshakeProofs` | `TypeOK` |
| `PtkHeldIsInstalled`, `PtkInstalledOnce` | | `PtkAgreed`, `InstalledOnce` |
| `GroupKeySentProtected`, `RevokedNeverBack` | | `GroupKeyProtected`, `RevokedStaysOut` |
| `FwhNotSelfDeleted` | | the action property `NoSelfDelete` |
| `SeedSetTypes`, `ListsOrdered` | `MplProofs` | `TypeOK`, `Ordered` |
| `TakenOnce` | | `AtMostOnce` |
| `BufferAccounted` | | `Accounted` |
| `FastTimerArmed` | | `TimerArmed` |
| `TypeInvariant` | `RplRootProofs` | `TypeOK` |
| `NobodyDisconnected` | | `AllConnected`: sorting and breaking loops cuts nobody off |
| `WalksEnd` | | `WalkEnds` |
| `RoutesArePaths` | | `RouteIsPath`, the first half of `RouteCurrent`: a route kept for the next packet is a loop-free path of transits as they are now |
| `CheapestPaths` | | `Cheapest` where no sum of costs wraps (`CostsFit`): without loops, the costs are those of the cheapest paths with the links as they are, unless one changed without a report |
| `RoutesAreCurrent` | | `RouteCurrent`, under the same condition: no path is cheaper now than the route that is kept, unless a link changed without a report |

### Group keys

The first part of `PaeAuthKeysProofs` shows for each function of the container that it keeps a key set well
typed and well formed; the delicate ones are `InstallOrderUpdate`, whose result maps distinct
orders to distinct orders, and `GtkSet`, for which there must be a free order when a slot
is free (a counting argument over the slots). The second part lifts this to the record
a handler threads (`Keeps`): types stay, well-formed tables stay so, and a MAC in
step with the tables is in step again when the function returns (`SyncedBut` one
kind meanwhile). `StepKeeps` collects the actions. `TypeOK` is inductive by itself and
`MacInSync` with it.

`InstallOrderDistinct` and `SingleActive` are not: a restart copies the file, whole or torn, into
memory. The invariant is `TablesFormed`, the same of the tables in memory *and those in the file*.
The condition is needed, not convenient: on a restart, keys from the configuration are merged with those of the
file, which may give two active keys or equal orders. Without a restart the configured keys
meet an empty file (`NoMerge`), so an instance with configured keys and no restart is
covered too; the run `restart` has the other case, restarts and no configured keys.

*Order of expiry.* The slow timer visits one slot at a time, and between two visits keys of one set have
different ages. The invariant `InOrder` therefore measures the time a key has left as if the
round were over: one second less for each slot still ahead of the timer (`Left`). In these terms every table is `Fit`:
an earlier key has no more time left than a later one (`InTurn`), the keys before the active one are exactly the old ones
(`OldFirst`), there is at most one of these and it was due for replacement (`OldDue`, `OneOld`), orders begin at 0, and a key that is set
has a second left. A revocation needs all of it: it cuts the keys from the second on to a bound that has to lie above
what the first has left. `InTimeAssumed` names the conditions: an LFN key set of three slots or more, the revocation lifetime not less than
the activation offset, with the check of frame counters an installation offset not less than the activation offset, no
configured key beyond the slots of its set, no key activated over D-Bus, and no restart. The last is needed: a start that drops an
expired key of the file leaves a hole in the install orders, and a file written in the middle of a round
has keys of different ages. `ActiveKeyKept` adds that a cut for the frame counters leaves more than a second (`Spare`).

*The file.* A function that changes a key set either sets its flag `updated` or leaves all keys alone but for the activation of a fresh one
(`Marked`). `FileInv` says that a set without the flag is `Recorded` in the file, at every point of a timer
round and in every mode; it survives a write, a torn write and a start from what that left. The hypotheses mark where the code does
otherwise: configured keys are installed without a write; with both sets, `auth_init` writes the file
without its EUI-64 when one of them is empty, and the start after that discards both sets. `BothSetsInFile`
shows that this is the only way in which the second set does harm. `TimesInv` adds lifetimes: the file promises a key no
more than memory has, and one second more once the timer has passed the key in this round. Two cuts set no flag,
that for the frame counters and that of a revocation with a given key that is already there. They are steps like all others: the set they cut is in
`silentCut`, for which `TimesInv` says nothing, and a write, or the start from a file, takes it out.

### Frame counters

The invariant `Inv` has four parts. `Typed` adds the ranges of two indices to
`TypeOK`. `Formed`: the RCP sends with a slot that holds a key, and a file that does not exist has no entries.
`Ready`: while the daemon runs, the index the controller thinks is active is the
one that is, and that slot is `Covered`, by an entry for the very key it holds, in memory
and in the file. `FileKept`: no entry of the file is ahead of memory's entry for the same key, and a key still in its slot has one there. Neither
theorem follows from less: an activation relies on memory being covered to write a
covered file, and a write relies on `FileKept` not to replace a larger value. Reading a counter
may return any earlier answer of the RCP, of another key too; the proof shows that the comparison
with the value in memory makes that harmless for the two properties (it is not for the re-use of counter values: see
`reuse` above).

### Supplicants

`PaeAuthSupplicants` threads one record through removals, promotions and protocol starts, so
`Good(record)` is the invariant: the lists have no repetitions and no common member, the
counter is the waiting list's length, an entry on no list has no KMP, no entry has two KMPs
of a sort. Inside a handler it holds except for the entry at hand (`GoodBut`). The walk of
the fast timer over a list that shrinks and is refilled under it is a
recursive function over the position, and the invariant holds after each step of it by induction.

`ImplementsPool` maps the lists to the sets of their members. The work is in the timer
run: many removals, each with at most one promotion, have to be one `Leave` of the pool, which is shown by
carrying along the walk who has left, who was promoted and that there are no more of these. With
`PoolBounded` the limits of the code follow for any number of supplicants.

`KeyHeard` has an invariant of its own, `KeyInv`: every posted event of an initial message has its KMP
on an entry of a list, and while events are queued the datagram that posted the first of them has been
counted in the round. Between post and dispatch come one more datagram and one timer run at most.
The timer takes the newest waiting entry only to make it active; the datagram gives up
the oldest waiting entry, which a waiting list of more than one place keeps apart from the newest.

### Key exchanges

`Inv` is `Typed`, `Idle` (no protocol runs without an entry), `Agreed`, `InstalledOnce`, `Protected` and
`RevokedStaysOut`. `Agreed` strengthens `PtkAgreed` from what the border router and the file hold to what is on
its way there: every message 4 under way bears the MIC of a PTK the node has installed. It also says
what `InstalledOnce` needs of the node: waiting for message 3 it has not yet installed the PTK it is
about to, and after that it has. `Protected` adds to `GroupKeyProtected` that, as long as no access was revoked, a GKH runs only while the
border router holds a PTK. That a fresh nonce makes a PTK never installed before comes from `Typed`, in which all numbers are
bounded by the last one drawn (`fresh`).

### MPL

`MplProofs` first shows that, on messages that span less than half the numbers, `serial_number_cmp8()` is a strict
order and the number after q is after exactly q and what is before it (`SeqOrder`). All else rests on that
and not on the arithmetic of the wrap.

The record a handler threads is `Good` between calls: every list is strictly increasing, none of its messages is
before the window, and the total is the number of bytes held. Bytes are counted as the elements of a set
(seed, number, place), which makes insertion and deletion steps of cardinality. While a window has been
moved and the messages before it are being deleted, the record is only `Sound` (`Good` without the window). One lemma, `WindowMoved`, then
serves the three places where the code moves a window: an unbuffered message, freed space, and expiry.

For `AtMostOnce` the invariant is `Counted`: a message that was taken is one its seed's entry `Passes`, because the
window is past it or it is held. `Shrunk` says that a call loses no such number; it is transitive, so it goes
through the loop of `mpl_buffer_create()`. That loop is also shown to end below the limit: each
round takes a message of at least one byte, and with nothing buffered any single message fits. The walks over a list
and over the seeds are inductions on the position.

`TimerArmed` is kept because every call that may start a Trickle timer arms the fast timer, and all other calls hold no
more messages than before, with timers that run only if they ran.

### RPL root

The invariant `IInv` has five parts. `DbOK`: the list has no repetitions, a target on it is well formed (one transit
to a parent) and all others are empty. `SortOK`: while the sort is valid, list and child lists are `TopoOK`:
the child lists hold transits of the database as it is now, each once (`Children`), every edge kept
leads forward in the list (`Forward`), and what they reach from the root is all that the transits reach (`Spans`).
`CostOK`: valid paths have a valid sort; the first transit of a connected target leads to
the root or to a connected target before it (`Rooted`), and children of the root and of connected
targets are connected (`Closed`); the costs are right for the transits and the links as they are, while no link has changed without a report (`Prices`). `RouteOK`: a route that is kept
is a chain of first transits of the database as it is now, and the paths are valid. `Counts`: the bounded counters.

The database changes in many handlers and the three results in one place, so the proof has to show for each handler which
of them it invalidates and that those it leaves in force still fit the database: a cost that changes keeps the sort, because
`SortOK` looks only at who has a transit to whom; a refreshed lifetime keeps everything; a link that changes without a report keeps all but `Prices`, which no longer speaks.

*Sorting.* `rpl_downward_topo_sort()` is a loop with the invariant `Kahn`. The targets are `Split` into the sorted ones,
the top nodes and the graph; the counter of a target is the number of its edges from targets not yet sorted
(`Counted`); among the sorted, edges lead forward (`Ahead`); and `connected` is the least set that holds the children of the root and is closed under
sorted parents (`Least`, `Spread`). When there are no top nodes, an edge from a target of the graph is given up. `Spans` survives that: an
edge to a connected target is not needed, since the target is connected by sorted parents only; and if no edge leads to
a connected target, then no target of the graph is connected, since it has a parent in the graph,
so the edge given up begins at a target that nothing reaches. Every step sorts a target or gives up an edge: the measure `Weight` (targets not sorted plus edges)
decreases, and the recursive function of the model is shown to reach the end of the loop.

*Costs.* Targets are visited in list order and edges lead forward, so what a visit finds is final as to whether there is a cost. Sums of
16 bits are less than `Infinite` even before they are cut, so a target has a finite cost exactly when it is
reached, whether or not a sum has wrapped. `NobodyDisconnected` then joins `Closed`, `Spans` and `Rooted` with the reference
definition, which reaches in its j-th round at least the first j targets of the list that are connected.

*Cheapest paths.* `CheapestPaths` and `RoutesAreCurrent` hold where no sum of costs reaches 2^16 (`CostsFit`: the most that a direct link adds plus
the dearest transit once per node fits). The condition is needed: the cost of a transit grows by 4 with every routing error up
to 2^16 - 1, the parent's cost is passed in 16 bits, and where the sum wraps a dear path is taken for a cheap one.
The loop of `rpl_downward_compute_paths()` keeps `Priced`: a finite cost is the cost of the first transit plus that of its
parent, which is visited and final (`Exact`); no parent that has been visited offers less (`Lowest`); and the cost of the i-th target leaves room for one transit
for each place behind it (`Roomy`), so that no later sum wraps. That `Lowest` speaks of all transits needs the sort: it gives up an edge only when every target left has a
parent among those left, which without a loop (`Acyclic`) does not happen, so the child lists hold every transit (`Full`). `NoLoops` shows that
`Acyclic` follows when no target is its own ancestor in the reference `Loop`: among targets each with a parent among
them, one with the fewest ancestors has the same ancestors as its parent. The reference `BestCost` is then squeezed: it
is never below the costs (`Lowest`, `Full`), and after k rounds down at them for the first k targets (`Exact`). The cost of a
route that is kept is summed up from the root and is the cost of its target, hop by hop, because all hops are first transits.

*The walk.* From a target to the parent of its first transit the place in the list strictly decreases (`Rooted`), so the walk meets no
target twice and is at the root within the turns that the model allows.

### Induction

The library's induction theorems take an operator as a parameter, which the provers cannot
instantiate. `NatInductionLemmas` states them with a set (`NatInd`), proves them from the
well-foundedness of `<`, and derives two forms for loops: a recursive function with a bound exists and
satisfies its equation (`BoundedRecursion`), and what the first state of a loop has and
each step keeps, the last state has (`LoopInvariant`, `LoopEnd`). This is why loops in the modules with proofs
are recursive functions over the position and not folds or `RECURSIVE` operators.

### Only model-checked

- `SuccessorInstalled`, `SendsWithActive`: they depend on how offsets, lifetimes
  and the delay of a PAN configuration relate. They are false for some values that the
  assumptions admit (see the bounds), and the condition that makes them true for all is open.
- `Cheapest` and the cost half of `RouteCurrent` where a sum of costs wraps at 2^16: the cost chosen need not be the least one there. That the
  route is a path of announced links is proved without the condition (`RoutesArePaths`).
- `LowpanTx`: its walks over the lists, from which entries are removed meanwhile, are `RECURSIVE` operators, with which the prover loses its arithmetic.
- `Rotates`, `EventuallyKeyed`, `WaitingLeaves`, `Drained`: liveness is beyond the prover.

## 6. Not modelled, and the plan

Most of the repository's lines are outside these modules. Two complete software MACs with
their simulators (`tools/wsmac`, `tools/hwsim`), the vendor's meter collector and external
command bus, the code of a router or host that a border router never runs (the parent
selection and DIS/DAO sending of RPL, the supplicant's own bootstrap, ND as a host), and
conversions: frame formats, information elements, header compression, serial framing,
TLS and RADIUS attributes, command line and configuration files. They keep no state that
a property of the border router is about, or are not part of `wsbrd`.

Left out on purpose within modelled parts: see the `note` of each component in
`PROJECT.json`.

Next models: the neighbour table with temporary entries and eviction; 6LoWPAN reassembly; the
neighbour cache; torn writes of the file `counters`; `FrameCounters` composed with
`PaeAuthKeys` in place of the abstract `table`.

Theorems planned: conditions on the timing constants under which `SuccessorInstalled` and `SendsWithActive` hold, from the
invariant `InOrder`; `LowpanTx`, once its walks are recursive functions.
