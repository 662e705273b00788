------------------------------ MODULE FleetCache ------------------------------
(***************************************************************************)
(* The fleet view: the node registry, the poll cache of the virt poller,   *)
(* the one shared fleet snapshot, the threads that build and read it, and  *)
(* the admin requests that change the registry beneath them.               *)
(*                                                                         *)
(* A record's content is a version number that every edit steps; a row of  *)
(* a snapshot carries the version its name, URL and data come from.  A     *)
(* snapshot's age is kept instead of its time stamp: TTL stands for        *)
(* expired, and for the ts = 0 of an invalidated one.                      *)
(***************************************************************************)
EXTENDS Integers, Sequences

CONSTANTS
    Hosts,      \* host ids; an id is enrolled once
    Polled,     \* the hosts whose adapter is served by the virt poller
    Hosts0,     \* the hosts enrolled at the start
    Viewers,    \* threads that serve fleet_summary
    Monitor,    \* the monitor thread
    Nobody,     \* no holder of _build_lock
    Admins,     \* threads that serve registry edits
    TTL,        \* FLEET_CACHE_TTL, in ticks
    MaxVer      \* bound on the edits of one record

ASSUME FleetAssumption ==
    /\ Hosts # {} /\ Polled \subseteq Hosts /\ Hosts0 \subseteq Hosts
    /\ Monitor \notin Viewers /\ Nobody \notin Viewers \cup {Monitor}
    /\ TTL \in Nat \ {0} /\ MaxVer \in Nat

Threads == Viewers \cup {Monitor}

VARIABLES
    reg,        \* nodes.json: [st, ver, pause] of each id
    poll,       \* adapters.virt._cache: [has, ver]
    poller,     \* the poller thread: [on, ids, todo, ver]
    data,       \* _fleet_cache data: a row for each id
    age,        \* age of _fleet_cache, up to TTL
    lock,       \* holder of _build_lock
    build,      \* the build in progress: [at, todo, rows]
    pc,         \* threads: "idle", "queue", "build", "served"
    fresh,      \* the view asks for ?fresh=1; always so for the monitor
    op,         \* admin requests past their registry write: [host, ver, todo]
    known,      \* history: the outcome of the registry edits answered so far
    floor       \* history: `known` when each thread's request began

vars == <<reg, poll, poller, data, age, lock, build, pc, fresh, op, known, floor>>

\* pause: not paused, paused for good, in a maintenance window, or in one that
\* has ended but not been noticed.
Pause  == {"no", "pause", "window", "due"}
Record == [st : {"new", "in", "out"}, ver : 0..MaxVer, pause : Pause]
Row    == [k : {"none", "paused", "await", "row"}, ver : 0..MaxVer]
NoRow  == [k |-> "none", ver |-> 0]
NoPoll == [has |-> FALSE, ver |-> 0]

EmptyBuild == [at |-> "load", todo |-> {}, rows |-> [h \in Hosts |-> NoRow]]
Asleep == [on |-> FALSE, ids |-> {}, todo |-> {}, ver |-> [h \in Polled |-> 0]]
NoEdits == [h \in Hosts |-> [ver |-> 0, out |-> FALSE]]
NoOp == [host |-> CHOOSE h \in Hosts : TRUE, ver |-> 0, todo |-> <<>>]

Init ==
    /\ reg = [h \in Hosts |-> [st |-> IF h \in Hosts0 THEN "in" ELSE "new", ver |-> 0, pause |-> "no"]]
    /\ poll = [h \in Polled |-> NoPoll]
    /\ poller = Asleep
    /\ data = [h \in Hosts |-> NoRow]
    /\ age = TTL
    /\ lock = Nobody
    /\ build = EmptyBuild
    /\ pc = [t \in Threads |-> "idle"]
    /\ fresh = [t \in Threads |-> t = Monitor]
    /\ op = [a \in Admins |-> NoOp]
    /\ known = NoEdits
    /\ floor = [t \in Threads |-> NoEdits]

registryVars == <<reg, op, known>>
pollVars     == <<poll, poller>>
cacheVars    == <<data, age>>
buildVars    == <<lock, build>>
threadVars   == <<pc, fresh, floor>>
-----------------------------------------------------------------------------
(* Building and reading the snapshot *)

\* The first clause of fleet_summary, repeated by _refresh_fleet under its lock:
\* a snapshot younger than FLEET_CACHE_TTL serves a request that is not fresh.
Cached(f) == ~f /\ age < TTL

\* fleet_summary, or the monitor loop: served from the cache, or off to
\* _refresh_fleet.
Ask(t, f) ==
    /\ pc[t] = "idle"
    /\ t = Monitor => f
    /\ fresh' = [fresh EXCEPT ![t] = f]
    /\ floor' = [floor EXCEPT ![t] = known]
    /\ pc' = [pc EXCEPT ![t] = IF Cached(f) THEN "served" ELSE "queue"]
    /\ UNCHANGED <<registryVars, pollVars, cacheVars, buildVars>>

\* Mutant: a fresh view, too, takes what the previous builder produced.
TakesPrevious_Fresh(t) == age < TTL

\* What a caller that got _build_lock does: take the last snapshot, or build.
TakesPrevious(t) == Cached(fresh[t])

Enter(t) ==
    /\ pc[t] = "queue"
    /\ lock = Nobody
    /\ IF TakesPrevious(t)
       THEN pc' = [pc EXCEPT ![t] = "served"] /\ UNCHANGED buildVars
       ELSE /\ pc' = [pc EXCEPT ![t] = "build"]
            /\ lock' = t
            /\ build' = EmptyBuild
    /\ UNCHANGED <<registryVars, pollVars, cacheVars, fresh, floor>>

\* Mutant: a window that has ended resumes nothing.
Resumed_Never(r) == r

\* Mutant: `disabled` is cleared and `disabled_until` is not.
Resumed_UntilKept(r) ==
    [h \in Hosts |-> IF r[h].pause = "due" THEN [r[h] EXCEPT !.pause = "until"] ELSE r[h]]

\* expire_pauses, saved under _REG_LOCK.
Resumed(r) == [h \in Hosts |-> IF r[h].pause = "due" THEN [r[h] EXCEPT !.pause = "no"] ELSE r[h]]

\* _build_fleet loads the registry; paused hosts get a disabled envelope and are
\* not contacted.  The answer of a live host, whenever it comes, is put into a row
\* that carries the record loaded here.
Load(t) ==
    LET now == Resumed(reg)
        kind(h) == IF now[h].st # "in" THEN "none"
                   ELSE IF now[h].pause # "no" THEN "paused"
                   ELSE IF h \in Polled THEN "await" ELSE "row"
        rows == [h \in Hosts |-> IF kind(h) = "none" THEN NoRow
                                                     ELSE [k |-> kind(h), ver |-> now[h].ver]]
    IN  /\ lock = t /\ build.at = "load"
        /\ reg' = now
        /\ build' = [at |-> "fetch", todo |-> {h \in Polled : kind(h) = "await"}, rows |-> rows]
        /\ UNCHANGED <<op, known, pollVars, cacheVars, lock, threadVars>>

\* VirtAdapter.fetch: a polled host is read from the poll cache, its name and URL
\* included; without an entry it awaits its first poll.
FetchOne(t, h) ==
    /\ lock = t /\ build.at = "fetch"
    /\ h \in build.todo
    /\ build' = [build EXCEPT !.todo = @ \ {h},
                              !.rows[h] = IF poll[h].has THEN [k |-> "row", ver |-> poll[h].ver]
                                                         ELSE @]
    /\ UNCHANGED <<registryVars, pollVars, cacheVars, lock, threadVars>>

\* Mutant: the registry loaded before the fan-out is saved after it.
Reloaded_Old == [h \in Hosts |-> IF build.rows[h].k = "none" THEN reg[h]
                                 ELSE [reg[h] EXCEPT !.st = "in", !.ver = build.rows[h].ver]]

\* The registry _refresh_registry_from_results changes is loaded anew.
Reloaded == reg

\* last_seen, type_auto, version and capabilities of the hosts that answered are
\* saved; what an admin edits is written back as loaded.
Refresh(t) ==
    /\ lock = t /\ build.at = "fetch" /\ build.todo = {}
    /\ reg' = Reloaded
    /\ build' = [build EXCEPT !.at = "store"]
    /\ UNCHANGED <<op, known, pollVars, cacheVars, lock, threadVars>>

Store(t) ==
    /\ lock = t /\ build.at = "store"
    /\ data' = build.rows
    /\ age' = 0
    /\ lock' = Nobody
    /\ build' = EmptyBuild
    /\ pc' = [pc EXCEPT ![t] = "served"]
    /\ UNCHANGED <<registryVars, pollVars, fresh, floor>>

\* The response is sent; the monitor runs its cycle and sleeps.
Close(t) ==
    /\ pc[t] = "served"
    /\ pc' = [pc EXCEPT ![t] = "idle"]
    /\ fresh' = [fresh EXCEPT ![t] = t = Monitor]
    /\ floor' = [floor EXCEPT ![t] = NoEdits]
    /\ UNCHANGED <<registryVars, pollVars, cacheVars, buildVars>>
-----------------------------------------------------------------------------
(* The virt poller *)

\* _poll_once: a snapshot of the polled, unpaused hosts ...
PollStart ==
    /\ ~poller.on
    /\ LET ids == {h \in Polled : reg[h].st = "in" /\ reg[h].pause = "no"}
       IN  poller' = [on |-> TRUE, ids |-> ids, todo |-> ids,
                      ver |-> [h \in Polled |-> IF h \in ids THEN reg[h].ver ELSE 0]]
    /\ UNCHANGED <<registryVars, poll, cacheVars, buildVars, threadVars>>

\* ... each collected (an error is an envelope too) and cached as it completes ...
PollOne(h) ==
    /\ h \in poller.todo
    /\ poll' = [poll EXCEPT ![h] = [has |-> TRUE, ver |-> poller.ver[h]]]
    /\ poller' = [poller EXCEPT !.todo = @ \ {h}]
    /\ UNCHANGED <<registryVars, cacheVars, buildVars, threadVars>>

\* Mutant: entries of hosts that are gone are kept.
PollKept_All(h) == TRUE

\* ... and the entries of every other host dropped.
PollKept(h) == h \in poller.ids

PollEnd ==
    /\ poller.on /\ poller.todo = {}
    /\ poll' = [h \in Polled |-> IF PollKept(h) THEN poll[h] ELSE NoPoll]
    /\ poller' = Asleep
    /\ UNCHANGED <<registryVars, cacheVars, buildVars, threadVars>>
-----------------------------------------------------------------------------
(* Admin requests: the registry write under _REG_LOCK, then what follows it *)

Begin(a, h, ver, todo) ==
    /\ op[a].todo = <<>>
    /\ op' = [op EXCEPT ![a] = [host |-> h, ver |-> ver, todo |-> todo]]

\* node_update; `probed`: a new URL or secret was probed, so a polled host's
\* cache is seeded from that probe.
NodeUpdate(a, h, pause, probed) ==
    /\ reg[h].st = "in" /\ reg[h].ver < MaxVer
    /\ pause \in {reg[h].pause, "no", "pause", "window"}
    /\ reg' = [reg EXCEPT ![h].ver = @ + 1, ![h].pause = pause]
    /\ Begin(a, h, reg[h].ver + 1, IF probed /\ h \in Polled THEN <<"seed", "bust">> ELSE <<"bust">>)
    /\ UNCHANGED <<known, pollVars, cacheVars, buildVars, threadVars>>

\* node_repin busts before it evicts.
NodeRepin(a, h) ==
    /\ reg[h].st = "in" /\ reg[h].ver < MaxVer
    /\ reg' = [reg EXCEPT ![h].ver = @ + 1]
    /\ Begin(a, h, reg[h].ver + 1, IF h \in Polled THEN <<"bust", "evict">> ELSE <<"bust">>)
    /\ UNCHANGED <<known, pollVars, cacheVars, buildVars, threadVars>>

NodeDelete(a, h) ==
    /\ reg[h].st = "in"
    /\ reg' = [reg EXCEPT ![h].st = "out", ![h].pause = "no"]
    /\ Begin(a, h, reg[h].ver, IF h \in Polled THEN <<"evict", "bust">> ELSE <<"bust">>)
    /\ UNCHANGED <<known, pollVars, cacheVars, buildVars, threadVars>>

\* nodes_add seeds the poll cache before the record is in the registry.
NodesAdd(a, h) ==
    /\ reg[h].st = "new" /\ \A b \in Admins : op[b].todo # <<>> => op[b].host # h
    /\ Begin(a, h, 0, IF h \in Polled THEN <<"seed", "enroll", "bust">> ELSE <<"enroll", "bust">>)
    /\ UNCHANGED <<reg, known, pollVars, cacheVars, buildVars, threadVars>>

\* One of the steps that are left; with the last one the request is answered.
Step(a, what) ==
    /\ op[a].todo # <<>> /\ Head(op[a].todo) = what
    /\ op' = [op EXCEPT ![a] = IF Len(op[a].todo) > 1 THEN [op[a] EXCEPT !.todo = Tail(@)]
                               ELSE NoOp]
    /\ known' = IF Len(op[a].todo) > 1 THEN known
                ELSE [known EXCEPT ![op[a].host] =
                        [ver |-> IF op[a].ver > @.ver THEN op[a].ver ELSE @.ver,
                         out |-> @.out \/ reg[op[a].host].st = "out"]]

Seed(a) ==
    /\ Step(a, "seed")
    /\ poll' = [poll EXCEPT ![op[a].host] = [has |-> TRUE, ver |-> op[a].ver]]
    /\ UNCHANGED <<reg, poller, cacheVars, buildVars, threadVars>>

Evict(a) ==
    /\ Step(a, "evict")
    /\ poll' = [poll EXCEPT ![op[a].host] = NoPoll]
    /\ UNCHANGED <<reg, poller, cacheVars, buildVars, threadVars>>

Enroll(a) ==
    /\ Step(a, "enroll")
    /\ reg' = [reg EXCEPT ![op[a].host].st = "in"]
    /\ UNCHANGED <<pollVars, cacheVars, buildVars, threadVars>>

Bust(a) ==
    /\ Step(a, "bust")
    /\ age' = TTL
    /\ UNCHANGED <<reg, pollVars, data, buildVars, threadVars>>

\* Time passes for the snapshot, and for a maintenance window.
Tick ==
    /\ age < TTL
    /\ age' = age + 1
    /\ UNCHANGED <<registryVars, pollVars, data, buildVars, threadVars>>

WindowEnds(h) ==
    /\ reg[h].pause = "window"
    /\ reg' = [reg EXCEPT ![h].pause = "due"]
    /\ UNCHANGED <<op, known, pollVars, cacheVars, buildVars, threadVars>>
-----------------------------------------------------------------------------
Building(t) == Enter(t) \/ Load(t) \/ (\E h \in Hosts : FetchOne(t, h)) \/ Refresh(t) \/ Store(t)
Polling     == PollStart \/ (\E h \in Polled : PollOne(h)) \/ PollEnd
Answering(a) == Seed(a) \/ Evict(a) \/ Enroll(a) \/ Bust(a)

Next ==
    \/ \E t \in Threads : \E f \in BOOLEAN : Ask(t, f)
    \/ \E t \in Threads : Building(t) \/ Close(t)
    \/ Polling
    \/ \E a \in Admins, h \in Hosts :
         \/ \E pause \in Pause, probed \in BOOLEAN : NodeUpdate(a, h, pause, probed)
         \/ NodeRepin(a, h) \/ NodeDelete(a, h) \/ NodesAdd(a, h)
    \/ \E a \in Admins : Answering(a)
    \/ Tick
    \/ \E h \in Hosts : WindowEnds(h)

Spec == Init /\ [][Next]_vars

\* The monitor and the poller loop for ever; a thread that holds or waits for
\* _build_lock, or has an answer to finish, goes on; a window's end comes.
Fairness ==
    /\ WF_vars(Ask(Monitor, TRUE)) /\ WF_vars(Close(Monitor))
    /\ SF_vars(Enter(Monitor))
    /\ \A t \in Threads :
         WF_vars(Load(t) \/ (\E h \in Hosts : FetchOne(t, h)) \/ Refresh(t) \/ Store(t))
    /\ WF_vars(Polling)
    /\ \A a \in Admins : WF_vars(Answering(a))
    /\ \A h \in Hosts : WF_vars(WindowEnds(h))

FairSpec == Spec /\ Fairness
-----------------------------------------------------------------------------
(* Properties *)

\* Every variable has its type.
TypeOK ==
    /\ reg \in [Hosts -> Record]
    /\ poll \in [Polled -> [has : BOOLEAN, ver : 0..MaxVer]]
    /\ poller \in [on : BOOLEAN, ids : SUBSET Polled, todo : SUBSET Polled,
                   ver : [Polled -> 0..MaxVer]]
    /\ data \in [Hosts -> Row]
    /\ age \in 0..TTL
    /\ lock \in Threads \cup {Nobody}
    /\ build \in [at : {"load", "fetch", "store"}, todo : SUBSET Polled, rows : [Hosts -> Row]]
    /\ pc \in [Threads -> {"idle", "queue", "build", "served"}]
    /\ fresh \in [Threads -> BOOLEAN]
    /\ op \in [Admins -> [host : Hosts, ver : 0..MaxVer, todo : Seq({"seed", "evict", "enroll", "bust"})]]
    /\ known \in [Hosts -> [ver : 0..MaxVer, out : BOOLEAN]]
    /\ floor \in [Threads -> [Hosts -> [ver : 0..MaxVer, out : BOOLEAN]]]

\* The rows a thread is served at this step are those in `data` after it.
Served(t) == pc[t] # "served" /\ pc'[t] = "served"

\* A deletion, and an edit, answered before the request began shows in the row.
ShowsDeletion(t, h) == floor'[t][h].out => data'[h].k = "none"
ShowsEdit(t, h) == data'[h].k # "none" => data'[h].ver >= floor'[t][h].ver

\* A view asked for with ?fresh=1 (and the monitor's own snapshot) shows every
\* deletion, and for live hosts every edit, answered before it was asked for,
\* although it queues behind a build that may be older than the edit.
FreshViewCurrent ==
    [][\A t \in Threads : Served(t) /\ fresh'[t] =>
         \A h \in Hosts : ShowsDeletion(t, h) /\ (h \notin Polled => ShowsEdit(t, h))]_vars

\* _refresh_registry_from_results: "the load-mutate-save here races every enroll,
\* edit and delete otherwise".  No step of any thread brings a deleted host back,
\* drops an enrolled one without node_delete, or undoes an edit; only the end of
\* its window, or an edit, ends a pause.
RegistryNeverRegresses ==
    [][\A h \in Hosts :
         /\ reg[h].st = "out" => reg'[h].st = "out"
         /\ reg[h].st = "in" => reg'[h].st # "new"
         /\ reg'[h].ver >= reg[h].ver
         /\ reg[h].pause \in {"pause", "window"} /\ reg'[h].pause = "no"
              => reg'[h].ver > reg[h].ver \/ reg'[h].st = "out"]_vars

\* What the cache shows when it shows the registry as it is.
Agrees(h) ==
    IF reg[h].st # "in" THEN data[h].k = "none" /\ (h \in Polled => ~poll[h].has)
    ELSE /\ data[h].ver = reg[h].ver
         /\ data[h].k = IF reg[h].pause = "no" THEN "row" ELSE "paused"

\* Once edits stop, the snapshot and the poll cache come to agree with the
\* registry and stay so: a row of a deleted host that a build or a poll under way
\* put back goes again, and every edit of a polled host is shown in the end.
EventuallyConsistent == <>[](\A h \in Hosts : Agrees(h))

\* A maintenance window that has ended is noticed: the host is monitored again
\* (or was edited or deleted meanwhile).
MaintenanceEnds == \A h \in Hosts : reg[h].pause = "due" ~> reg[h].pause # "due"

\* node_update: "reflect edits on the next fleet view", for a live host.
EditsShownNext ==
    [][\A t \in Viewers, h \in Hosts \ Polled : Served(t) => ShowsEdit(t, h)]_vars
=============================================================================
