--------------------------- MODULE FleetCacheProofs --------------------------
(***************************************************************************)
(* Proofs about the fleet snapshot and the registry: that every variable   *)
(* keeps its type, that no step of any thread undoes what another has done *)
(* to the registry (RegistryNeverRegresses), and that a fresh view shows   *)
(* the deletions and edits answered before it (FreshViewCurrent), for any  *)
(* number of hosts, viewers and administrators; and that the caches come   *)
(* to agree with the registry when it is left alone.                       *)
(***************************************************************************)
EXTENDS FleetCache, TLAPS

\* what a request may still have to do
EnrollPlans == {<<"seed", "enroll", "bust">>, <<"enroll", "bust">>}
Plans == EnrollPlans \cup {<<>>, <<"seed", "bust">>, <<"bust">>, <<"bust", "evict">>, <<"evict">>,
                           <<"evict", "bust">>}
Steps == {"seed", "evict", "enroll", "bust"}
Outcome == [ver : 0..MaxVer, out : BOOLEAN]
Op == [host : Hosts, ver : 0..MaxVer, todo : Seq(Steps)]

\* no more than the registry says
Within(k) == \A h \in Hosts : k[h].ver <= reg[h].ver /\ (k[h].out => reg[h].st = "out")

\* A request under way knows no later edit than the registry; the host it is to
\* enrol is in nobody else's hands and not yet in the registry.
OpsOk ==
    \A a \in Admins :
        /\ op[a].todo \in Plans /\ op[a].ver <= reg[op[a].host].ver
        /\ op[a].todo \in EnrollPlans =>
             /\ reg[op[a].host].st = "new"
             /\ \A b \in Admins \ {a} : op[b].todo # <<>> => op[b].host # op[a].host

\* Edits once made stay made: what was answered, and what a thread's request began
\* from, is within the registry.
KnownOk == Within(known) /\ \A t \in Threads : Within(floor[t])

\* The build under way, once loaded, shows what its builder's request began from.
LockOk == \A t \in Threads : lock = t => pc[t] = "build"
BuildOk ==
    \A t \in Threads : lock = t /\ build.at # "load" =>
        \A h \in Hosts :
            /\ floor[t][h].out => build.rows[h].k = "none" /\ h \notin build.todo
            /\ h \notin Polled /\ build.rows[h].k # "none" => build.rows[h].ver >= floor[t][h].ver

FleetInv == TypeOK /\ OpsOk /\ KnownOk /\ LockOk /\ BuildOk

-----------------------------------------------------------------------------
LEMMA Constants ==
  /\ MaxVer \in Nat /\ TTL \in Nat /\ 0 \in 0..MaxVer /\ TTL \in 0..TTL /\ 0 \in 0..TTL
  /\ NoRow \in Row /\ NoRow.k = "none"
  /\ NoPoll \in [has : BOOLEAN, ver : 0..MaxVer]
  /\ NoEdits \in [Hosts -> Outcome] /\ \A h \in Hosts : NoEdits[h] = [ver |-> 0, out |-> FALSE]
  /\ Polled \subseteq Hosts /\ Nobody \notin Threads
  BY FleetAssumption DEF NoRow, Row, NoPoll, NoEdits, Outcome, Threads

LEMMA NoOpTyped ==
  NoOp \in Op /\ NoOp.host \in Hosts /\ NoOp.ver = 0 /\ NoOp.todo = <<>>
  <1>1. (CHOOSE h \in Hosts : TRUE) \in Hosts
    BY FleetAssumption
  <1> QED
    BY <1>1, Constants DEF NoOp, Op

\* The plans the requests begin with, and what is left of one after a step.
LEMMA PlanFacts ==
  /\ Plans \subseteq Seq(Steps) /\ EnrollPlans \subseteq Plans
  /\ {<<>>, <<"seed", "bust">>, <<"bust">>, <<"bust", "evict">>, <<"evict", "bust">>}
       \subseteq Plans \ EnrollPlans
  /\ \A p \in EnrollPlans : p # <<>>
  BY DEF Plans, EnrollPlans, Steps

LEMMA PlanTails ==
  ASSUME NEW p \in Plans, p # <<>>
  PROVE  /\ Tail(p) \in Plans /\ (Tail(p) \in EnrollPlans => p \in EnrollPlans)
         /\ Head(p) = "enroll" => p \in EnrollPlans /\ Tail(p) \notin EnrollPlans
  <1>1. CASE p = <<"seed", "enroll", "bust">>
    <2>1. Tail(p) = <<"enroll", "bust">> /\ Head(p) = "seed"
      BY <1>1
    <2> QED
      BY <1>1, <2>1 DEF Plans, EnrollPlans
  <1>2. CASE p = <<"enroll", "bust">>
    <2>1. Tail(p) = <<"bust">>
      BY <1>2
    <2> QED
      BY <1>2, <2>1, PlanFacts DEF EnrollPlans
  <1>3. CASE p \in {<<"seed", "bust">>, <<"evict", "bust">>}
    <2>1. p = <<"seed", "bust">> => Tail(p) = <<"bust">> /\ Head(p) = "seed"
      OBVIOUS
    <2>2. p = <<"evict", "bust">> => Tail(p) = <<"bust">> /\ Head(p) = "evict"
      OBVIOUS
    <2> QED
      BY <1>3, <2>1, <2>2, PlanFacts
  <1>4. CASE p \in {<<"bust">>, <<"evict">>}
    <2>1. p = <<"bust">> => Tail(p) = <<>> /\ Head(p) = "bust"
      OBVIOUS
    <2>2. p = <<"evict">> => Tail(p) = <<>> /\ Head(p) = "evict"
      OBVIOUS
    <2> QED
      BY <1>4, <2>1, <2>2, PlanFacts
  <1>5. CASE p = <<"bust", "evict">>
    <2>1. Tail(p) = <<"evict">> /\ Head(p) # "enroll" /\ <<"evict">> \notin EnrollPlans
      BY <1>5 DEF EnrollPlans
    <2> QED
      BY <2>1 DEF Plans
  <1> QED
    BY <1>1, <1>2, <1>3, <1>4, <1>5 DEF Plans, EnrollPlans

\* Nothing was edited, nobody builds.
LEMMA FleetInitInv == Init => FleetInv
  <1> SUFFICES ASSUME Init PROVE FleetInv
    OBVIOUS
  <1>1. reg \in [Hosts -> Record] /\ \A h \in Hosts : reg[h].ver = 0
    BY Constants DEF Init, Record, Pause
  <1>2. build \in [at : {"load", "fetch", "store"}, todo : SUBSET Polled, rows : [Hosts -> Row]]
        /\ poller \in [on : BOOLEAN, ids : SUBSET Polled, todo : SUBSET Polled,
                       ver : [Polled -> 0..MaxVer]]
        /\ poll \in [Polled -> [has : BOOLEAN, ver : 0..MaxVer]]
        /\ data \in [Hosts -> Row] /\ age \in 0..TTL
    BY Constants DEF Init, EmptyBuild, Asleep
  <1>3. /\ lock = Nobody /\ pc \in [Threads -> {"idle", "queue", "build", "served"}]
        /\ fresh \in [Threads -> BOOLEAN] /\ known = NoEdits
        /\ floor = [t \in Threads |-> NoEdits] /\ op = [a \in Admins |-> NoOp]
    BY DEF Init
  <1>4. TypeOK
    BY <1>1, <1>2, <1>3, Constants, NoOpTyped DEF TypeOK, Outcome, Op, Steps
  <1>5. OpsOk
    BY <1>1, <1>3, NoOpTyped, PlanFacts DEF OpsOk
  <1>6. KnownOk
    BY <1>1, <1>3, Constants DEF KnownOk, Within
  <1>7. LockOk /\ BuildOk
    BY <1>3, Constants DEF LockOk, BuildOk
  <1> QED
    BY <1>4, <1>5, <1>6, <1>7 DEF FleetInv

-----------------------------------------------------------------------------
(* Registry, requests and history under a step *)

\* A step that leaves every record's state and version alone.
LEMMA RecordsStand ==
  ASSUME FleetInv, op' = op, known' = known, floor' = floor,
         \A h \in Hosts : reg'[h].st = reg[h].st /\ reg'[h].ver = reg[h].ver
  PROVE  OpsOk' /\ KnownOk'
  <1>1. \A a \in Admins : op[a].host \in Hosts
    BY DEF FleetInv, TypeOK
  <1>2. OpsOk'
    BY <1>1 DEF FleetInv, OpsOk
  <1>3. KnownOk'
    BY DEF FleetInv, KnownOk, Within
  <1> QED
    BY <1>2, <1>3

\* A step that does not touch the build, its builder or what its request began from.
LEMMA BuildStands ==
  ASSUME FleetInv, lock' = lock, build' = build, floor' = floor, pc' = pc
  PROVE  LockOk' /\ BuildOk'
  BY DEF FleetInv, LockOk, BuildOk

\* Records only move on: what was within the registry stays within it.
LEMMA WithinGrows ==
  ASSUME NEW k, Within(k), reg \in [Hosts -> Record], reg' \in [Hosts -> Record],
         k \in [Hosts -> Outcome],
         \A h \in Hosts : /\ reg'[h].ver >= reg[h].ver
                          /\ reg[h].st = "out" => reg'[h].st = "out"
  PROVE  \A h \in Hosts : k[h].ver <= reg'[h].ver /\ (k[h].out => reg'[h].st = "out")
  <1> SUFFICES ASSUME NEW h \in Hosts
               PROVE  k[h].ver <= reg'[h].ver /\ (k[h].out => reg'[h].st = "out")
    OBVIOUS
  <1>1. k[h].ver \in Nat /\ reg[h].ver \in Nat /\ reg'[h].ver \in Nat
    BY Constants DEF Outcome, Record
  <1>2. k[h].ver <= reg[h].ver /\ (k[h].out => reg[h].st = "out")
    BY DEF Within
  <1> QED
    BY <1>1, <1>2

-----------------------------------------------------------------------------
(* Threads that ask for the view *)

LEMMA AskInv == ASSUME FleetInv, NEW t \in Threads, NEW f \in BOOLEAN, Ask(t, f) PROVE FleetInv'
  <1>1. /\ pc[t] = "idle" /\ fresh' = [fresh EXCEPT ![t] = f] /\ floor' = [floor EXCEPT ![t] = known]
        /\ pc' = [pc EXCEPT ![t] = IF Cached(f) THEN "served" ELSE "queue"]
        /\ reg' = reg /\ op' = op /\ known' = known /\ poll' = poll /\ poller' = poller
        /\ data' = data /\ age' = age /\ lock' = lock /\ build' = build
    BY DEF Ask, registryVars, pollVars, cacheVars, buildVars
  <1>2. TypeOK'
    BY <1>1 DEF FleetInv, TypeOK
  <1>3. OpsOk'
    BY <1>1 DEF FleetInv, OpsOk
  <1>4. KnownOk'
    <2>1. floor \in [Threads -> [Hosts -> Outcome]]
      BY DEF FleetInv, TypeOK, Outcome
    <2>2. \A u \in Threads : floor'[u] = floor[u] \/ floor'[u] = known
      BY <1>1, <2>1
    <2> QED
      BY <1>1, <2>2 DEF FleetInv, KnownOk, Within
  <1>5. lock # t
    BY <1>1 DEF FleetInv, LockOk
  <1>6. \A u \in Threads \ {t} : floor'[u] = floor[u] /\ pc'[u] = pc[u]
    BY <1>1 DEF FleetInv, TypeOK
  <1>7. LockOk' /\ BuildOk'
    BY <1>1, <1>5, <1>6 DEF FleetInv, LockOk, BuildOk
  <1> QED
    BY <1>2, <1>3, <1>4, <1>7 DEF FleetInv

LEMMA CloseInv == ASSUME FleetInv, NEW t \in Threads, Close(t) PROVE FleetInv'
  <1>1. /\ pc[t] = "served" /\ fresh' = [fresh EXCEPT ![t] = (t = Monitor)]
        /\ floor' = [floor EXCEPT ![t] = NoEdits] /\ pc' = [pc EXCEPT ![t] = "idle"]
        /\ reg' = reg /\ op' = op /\ known' = known /\ poll' = poll /\ poller' = poller
        /\ data' = data /\ age' = age /\ lock' = lock /\ build' = build
    BY DEF Close, registryVars, pollVars, cacheVars, buildVars
  <1>2. TypeOK'
    BY <1>1, Constants DEF FleetInv, TypeOK, Outcome
  <1>3. OpsOk'
    BY <1>1 DEF FleetInv, OpsOk
  <1>4. KnownOk'
    <2>1. floor \in [Threads -> [Hosts -> Outcome]] /\ reg \in [Hosts -> Record]
      BY DEF FleetInv, TypeOK, Outcome
    <2>2. \A u \in Threads : floor'[u] = floor[u] \/ floor'[u] = NoEdits
      BY <1>1, <2>1
    <2>3. Within(NoEdits)
      <3>1. \A h \in Hosts : NoEdits[h].ver = 0 /\ NoEdits[h].out = FALSE
        BY DEF NoEdits
      <3>2. \A h \in Hosts : reg[h].ver \in 0..MaxVer
        BY <2>1 DEF Record
      <3>3. \A h \in Hosts : NoEdits[h].ver <= reg[h].ver
        <4>1. \A n \in 0..MaxVer : 0 <= n
          BY FleetAssumption
        <4> QED
          BY <3>1, <3>2, <4>1, Zenon
      <3>4. \A h \in Hosts : ~NoEdits[h].out
        BY <3>1, Zenon
      <3> QED
        BY <3>3, <3>4, Zenon DEF Within
    <2> QED
      BY <1>1, <2>2, <2>3 DEF FleetInv, KnownOk, Within
  <1>5. lock # t
    BY <1>1 DEF FleetInv, LockOk
  <1>6. \A u \in Threads \ {t} : floor'[u] = floor[u] /\ pc'[u] = pc[u]
    BY <1>1 DEF FleetInv, TypeOK
  <1>7. LockOk' /\ BuildOk'
    BY <1>1, <1>5, <1>6 DEF FleetInv, LockOk, BuildOk
  <1> QED
    BY <1>2, <1>3, <1>4, <1>7 DEF FleetInv

-----------------------------------------------------------------------------
(* Building the snapshot *)

LEMMA EnterInv == ASSUME FleetInv, NEW t \in Threads, Enter(t) PROVE FleetInv'
  <1>1. /\ pc[t] = "queue" /\ lock = Nobody
        /\ reg' = reg /\ op' = op /\ known' = known /\ poll' = poll /\ poller' = poller
        /\ data' = data /\ age' = age /\ fresh' = fresh /\ floor' = floor
        /\ \/ pc' = [pc EXCEPT ![t] = "served"] /\ lock' = lock /\ build' = build
           \/ pc' = [pc EXCEPT ![t] = "build"] /\ lock' = t /\ build' = EmptyBuild
    BY DEF Enter, registryVars, pollVars, cacheVars, buildVars
  <1>2. EmptyBuild \in [at : {"load", "fetch", "store"}, todo : SUBSET Polled, rows : [Hosts -> Row]]
        /\ EmptyBuild.at = "load"
    BY Constants DEF EmptyBuild
  <1>3. TypeOK'
    BY <1>1, <1>2 DEF FleetInv, TypeOK
  <1>4. OpsOk' /\ KnownOk'
    BY <1>1, RecordsStand
  <1>5. LockOk' /\ BuildOk'
    BY <1>1, <1>2, Constants DEF FleetInv, TypeOK, LockOk, BuildOk
  <1> QED
    BY <1>3, <1>4, <1>5 DEF FleetInv

\* expire_pauses changes nothing but the pause.
LEMMA ResumedRecords ==
  ASSUME reg \in [Hosts -> Record]
  PROVE  /\ Resumed(reg) \in [Hosts -> Record]
         /\ \A h \in Hosts : Resumed(reg)[h].st = reg[h].st /\ Resumed(reg)[h].ver = reg[h].ver
         /\ \A h \in Hosts : Resumed(reg)[h].pause = reg[h].pause \/ reg[h].pause = "due"
  <1> SUFFICES ASSUME NEW h \in Hosts
               PROVE  LET r == IF reg[h].pause = "due" THEN [reg[h] EXCEPT !.pause = "no"] ELSE reg[h]
                      IN  /\ r \in Record /\ r.st = reg[h].st /\ r.ver = reg[h].ver
                          /\ r.pause = reg[h].pause \/ reg[h].pause = "due"
    BY DEF Resumed
  <1> DEFINE w == reg[h]
  <1>1. w \in Record
    OBVIOUS
  <1> HIDE DEF w
  <1>2. [w EXCEPT !.pause = "no"] \in Record /\ [w EXCEPT !.pause = "no"].st = w.st
        /\ [w EXCEPT !.pause = "no"].ver = w.ver
    BY <1>1 DEF Record, Pause
  <1> QED
    BY <1>1, <1>2 DEF w

\* The rows are made of the registry as it is after the request began.
LEMMA LoadInv == ASSUME FleetInv, NEW t \in Threads, Load(t) PROVE FleetInv'
  <1> DEFINE now == Resumed(reg)
             kind(h) == IF now[h].st # "in" THEN "none"
                        ELSE IF now[h].pause # "no" THEN "paused"
                        ELSE IF h \in Polled THEN "await" ELSE "row"
             rows == [h \in Hosts |-> IF kind(h) = "none" THEN NoRow
                                      ELSE [k |-> kind(h), ver |-> now[h].ver]]
             todo == {h \in Polled : kind(h) = "await"}
  <1>1. /\ lock = t /\ reg' = now /\ build' = [at |-> "fetch", todo |-> todo, rows |-> rows]
        /\ op' = op /\ known' = known /\ poll' = poll /\ poller' = poller
        /\ data' = data /\ age' = age /\ lock' = lock
        /\ pc' = pc /\ fresh' = fresh /\ floor' = floor
    BY DEF Load, pollVars, cacheVars, threadVars
  <1>2. reg \in [Hosts -> Record]
    BY DEF FleetInv, TypeOK
  <1>3. /\ now \in [Hosts -> Record]
        /\ \A h \in Hosts : now[h].st = reg[h].st /\ now[h].ver = reg[h].ver
    BY <1>2, ResumedRecords
  <1> HIDE DEF now
  <1>4. ASSUME NEW h \in Hosts
        PROVE  /\ rows[h] \in Row /\ (reg[h].st = "out" => rows[h].k = "none" /\ h \notin todo)
               /\ rows[h].k # "none" => rows[h].ver = reg[h].ver
    <2>1. now[h].ver \in 0..MaxVer /\ now[h].st = reg[h].st /\ now[h].ver = reg[h].ver
      BY <1>3 DEF Record
    <2>2. kind(h) \in {"none", "paused", "await", "row"} /\ (reg[h].st = "out" => kind(h) = "none")
      BY <2>1
    <2> HIDE DEF kind
    <2>3. rows[h] = IF kind(h) = "none" THEN NoRow ELSE [k |-> kind(h), ver |-> now[h].ver]
      OBVIOUS
    <2>4. CASE kind(h) = "none"
      BY <2>3, <2>4, Constants
    <2>5. CASE kind(h) # "none"
      <3>1. rows[h] = [k |-> kind(h), ver |-> now[h].ver]
        BY <2>3, <2>5
      <3>2. [k |-> kind(h), ver |-> now[h].ver] \in Row
        BY <2>1, <2>2 DEF Row
      <3> QED
        BY <3>1, <3>2, <2>1, <2>2, <2>5
    <2> QED
      BY <2>4, <2>5
  <1>5. rows \in [Hosts -> Row] /\ todo \subseteq Polled
    BY <1>4
  <1> HIDE DEF rows, todo
  <1>6. build' \in [at : {"load", "fetch", "store"}, todo : SUBSET Polled, rows : [Hosts -> Row]]
        /\ build'.rows = rows /\ build'.todo = todo
    BY <1>1, <1>5
  <1>7. TypeOK'
    BY <1>1, <1>3, <1>6 DEF FleetInv, TypeOK
  <1>8. OpsOk' /\ KnownOk'
    BY <1>1, <1>3, RecordsStand
  <1>9. LockOk'
    BY <1>1 DEF FleetInv, LockOk
  <1>10. BuildOk'
    <2> SUFFICES ASSUME NEW u \in Threads, lock' = u, NEW h \in Hosts
                 PROVE  /\ floor[u][h].out => rows[h].k = "none" /\ h \notin todo
                        /\ h \notin Polled /\ rows[h].k # "none" => rows[h].ver >= floor[u][h].ver
      BY <1>1, <1>6 DEF BuildOk
    <2>1. floor[u][h].ver <= reg[h].ver /\ (floor[u][h].out => reg[h].st = "out")
      BY DEF FleetInv, KnownOk, Within
    <2>2. floor[u][h].ver \in Int /\ reg[h].ver \in Int
      BY <1>2 DEF FleetInv, TypeOK, Record
    <2> QED
      BY <1>4, <2>1, <2>2
  <1> QED
    BY <1>7, <1>8, <1>9, <1>10 DEF FleetInv

\* A polled host's row changes; a row of a host that is gone does not.
LEMMA FetchOneInv ==
  ASSUME FleetInv, NEW t \in Threads, NEW h \in Hosts, FetchOne(t, h) PROVE FleetInv'
  <1> DEFINE got == IF poll[h].has THEN [k |-> "row", ver |-> poll[h].ver] ELSE build.rows[h]
  <1>1. /\ lock = t /\ build.at = "fetch" /\ h \in build.todo
        /\ build' = [build EXCEPT !.todo = @ \ {h}, !.rows[h] = got]
        /\ reg' = reg /\ op' = op /\ known' = known /\ poll' = poll /\ poller' = poller
        /\ data' = data /\ age' = age /\ lock' = lock
        /\ pc' = pc /\ fresh' = fresh /\ floor' = floor
    BY DEF FetchOne, registryVars, pollVars, cacheVars, threadVars
  <1>2. build \in [at : {"load", "fetch", "store"}, todo : SUBSET Polled, rows : [Hosts -> Row]]
        /\ poll \in [Polled -> [has : BOOLEAN, ver : 0..MaxVer]]
    BY DEF FleetInv, TypeOK
  <1>3. h \in Polled /\ got \in Row
    BY <1>1, <1>2 DEF Row
  <1> HIDE DEF got
  <1>4. /\ build' \in [at : {"load", "fetch", "store"}, todo : SUBSET Polled, rows : [Hosts -> Row]]
        /\ build'.at = build.at /\ build'.todo = build.todo \ {h}
        /\ \A i \in Hosts : i # h => build'.rows[i] = build.rows[i]
    BY <1>1, <1>2, <1>3
  <1>5. TypeOK'
    BY <1>1, <1>4 DEF FleetInv, TypeOK
  <1>6. OpsOk' /\ KnownOk'
    BY <1>1, RecordsStand
  <1>7. LockOk'
    BY <1>1 DEF FleetInv, LockOk
  <1>8. BuildOk'
    <2> SUFFICES ASSUME NEW u \in Threads, lock = u, NEW i \in Hosts
                 PROVE  /\ floor[u][i].out => build'.rows[i].k = "none" /\ i \notin build'.todo
                        /\ i \notin Polled /\ build'.rows[i].k # "none"
                             => build'.rows[i].ver >= floor[u][i].ver
      BY <1>1 DEF BuildOk
    <2>1. /\ floor[u][i].out => build.rows[i].k = "none" /\ i \notin build.todo
          /\ i \notin Polled /\ build.rows[i].k # "none" => build.rows[i].ver >= floor[u][i].ver
      BY <1>1 DEF FleetInv, BuildOk
    <2> QED
      BY <2>1, <1>1, <1>3, <1>4
  <1> QED
    BY <1>5, <1>6, <1>7, <1>8 DEF FleetInv

LEMMA RefreshInv == ASSUME FleetInv, NEW t \in Threads, Refresh(t) PROVE FleetInv'
  <1>1. /\ build.at = "fetch" /\ reg' = reg /\ build' = [build EXCEPT !.at = "store"]
        /\ op' = op /\ known' = known /\ poll' = poll /\ poller' = poller
        /\ data' = data /\ age' = age /\ lock' = lock
        /\ pc' = pc /\ fresh' = fresh /\ floor' = floor
    BY DEF Refresh, Reloaded, pollVars, cacheVars, threadVars
  <1>2. build \in [at : {"load", "fetch", "store"}, todo : SUBSET Polled, rows : [Hosts -> Row]]
    BY DEF FleetInv, TypeOK
  <1>3. /\ build' \in [at : {"load", "fetch", "store"}, todo : SUBSET Polled, rows : [Hosts -> Row]]
        /\ build'.todo = build.todo /\ build'.rows = build.rows
    BY <1>1, <1>2
  <1>4. TypeOK'
    BY <1>1, <1>3 DEF FleetInv, TypeOK
  <1>5. OpsOk' /\ KnownOk'
    BY <1>1, RecordsStand
  <1>6. LockOk' /\ BuildOk'
    BY <1>1, <1>3 DEF FleetInv, LockOk, BuildOk
  <1> QED
    BY <1>4, <1>5, <1>6 DEF FleetInv

LEMMA StoreInv == ASSUME FleetInv, NEW t \in Threads, Store(t) PROVE FleetInv'
  <1>1. /\ lock = t /\ data' = build.rows /\ age' = 0 /\ lock' = Nobody /\ build' = EmptyBuild
        /\ pc' = [pc EXCEPT ![t] = "served"]
        /\ reg' = reg /\ op' = op /\ known' = known /\ poll' = poll /\ poller' = poller
        /\ fresh' = fresh /\ floor' = floor
    BY DEF Store, registryVars, pollVars
  <1>2. EmptyBuild \in [at : {"load", "fetch", "store"}, todo : SUBSET Polled, rows : [Hosts -> Row]]
    BY Constants DEF EmptyBuild
  <1>3. TypeOK'
    BY <1>1, <1>2, Constants DEF FleetInv, TypeOK
  <1>4. OpsOk' /\ KnownOk'
    BY <1>1, RecordsStand
  <1>5. LockOk' /\ BuildOk'
    BY <1>1, Constants DEF LockOk, BuildOk
  <1> QED
    BY <1>3, <1>4, <1>5 DEF FleetInv

-----------------------------------------------------------------------------
(* The poller, and time *)

LEMMA PollingInv == ASSUME FleetInv, Polling PROVE FleetInv'
  <1>1. /\ reg' = reg /\ op' = op /\ known' = known /\ data' = data /\ age' = age
        /\ lock' = lock /\ build' = build /\ pc' = pc /\ fresh' = fresh /\ floor' = floor
    BY DEF Polling, PollStart, PollOne, PollEnd, registryVars, cacheVars, buildVars, threadVars
  <1>2. reg \in [Hosts -> Record] /\ poll \in [Polled -> [has : BOOLEAN, ver : 0..MaxVer]]
        /\ poller \in [on : BOOLEAN, ids : SUBSET Polled, todo : SUBSET Polled,
                       ver : [Polled -> 0..MaxVer]]
    BY DEF FleetInv, TypeOK
  <1>3. /\ poll' \in [Polled -> [has : BOOLEAN, ver : 0..MaxVer]]
        /\ poller' \in [on : BOOLEAN, ids : SUBSET Polled, todo : SUBSET Polled,
                        ver : [Polled -> 0..MaxVer]]
    <2>1. CASE PollStart
      <3> DEFINE ids == {h \in Polled : reg[h].st = "in" /\ reg[h].pause = "no"}
                 ver == [h \in Polled |-> IF h \in ids THEN reg[h].ver ELSE 0]
      <3>1. poller' = [on |-> TRUE, ids |-> ids, todo |-> ids, ver |-> ver] /\ poll' = poll
        BY <2>1 DEF PollStart
      <3>2. ids \subseteq Polled /\ ver \in [Polled -> 0..MaxVer]
        BY <1>2, Constants DEF Record
      <3> HIDE DEF ids, ver
      <3> QED
        BY <3>1, <3>2, <1>2
    <2>2. ASSUME NEW h \in Polled, PollOne(h)
          PROVE  /\ poll' \in [Polled -> [has : BOOLEAN, ver : 0..MaxVer]]
                 /\ poller' \in [on : BOOLEAN, ids : SUBSET Polled, todo : SUBSET Polled,
                                 ver : [Polled -> 0..MaxVer]]
      BY <2>2, <1>2 DEF PollOne
    <2>3. CASE PollEnd
      <3>1. poller' = Asleep /\ poll' = [h \in Polled |-> IF PollKept(h) THEN poll[h] ELSE NoPoll]
        BY <2>3 DEF PollEnd
      <3> QED
        BY <3>1, <1>2, Constants DEF Asleep
    <2> QED
      BY <2>1, <2>2, <2>3 DEF Polling
  <1>4. TypeOK'
    BY <1>1, <1>3 DEF FleetInv, TypeOK
  <1> QED
    BY <1>1, <1>4, RecordsStand, BuildStands DEF FleetInv

LEMMA TimeInv == ASSUME FleetInv, Tick \/ \E h \in Hosts : WindowEnds(h) PROVE FleetInv'
  <1>1. /\ op' = op /\ known' = known /\ data' = data /\ poll' = poll /\ poller' = poller
        /\ lock' = lock /\ build' = build /\ pc' = pc /\ fresh' = fresh /\ floor' = floor
    BY DEF Tick, WindowEnds, registryVars, pollVars, cacheVars, buildVars, threadVars
  <1>2. reg \in [Hosts -> Record] /\ age \in 0..TTL
    BY DEF FleetInv, TypeOK
  <1>3. /\ reg' \in [Hosts -> Record] /\ age' \in 0..TTL
        /\ \A h \in Hosts : reg'[h].st = reg[h].st /\ reg'[h].ver = reg[h].ver
    <2>1. CASE Tick
      BY <2>1, <1>2, Constants DEF Tick, registryVars
    <2>2. ASSUME NEW h \in Hosts, WindowEnds(h)
          PROVE  /\ reg' \in [Hosts -> Record] /\ age' \in 0..TTL
                 /\ \A i \in Hosts : reg'[i].st = reg[i].st /\ reg'[i].ver = reg[i].ver
      BY <2>2, <1>2 DEF WindowEnds, cacheVars, Record, Pause
    <2> QED
      BY <2>1, <2>2
  <1>4. TypeOK'
    BY <1>1, <1>3 DEF FleetInv, TypeOK
  <1> QED
    BY <1>1, <1>3, <1>4, RecordsStand, BuildStands DEF FleetInv

-----------------------------------------------------------------------------
(* Admin requests *)

\* A request that begins: the record moves on, or is about to be enrolled.
LEMMA RequestInv ==
  ASSUME FleetInv, NEW a \in Admins, NEW h \in Hosts, NEW ver \in 0..MaxVer, NEW todo \in Plans,
         Begin(a, h, ver, todo), reg' \in [Hosts -> Record], ver <= reg'[h].ver,
         \A i \in Hosts : /\ reg'[i].ver >= reg[i].ver
                          /\ reg[i].st = "out" => reg'[i].st = "out"
                          /\ reg[i].st = "new" => reg'[i].st = "new",
         todo \in EnrollPlans => /\ reg[h].st = "new"
                                 /\ \A b \in Admins : op[b].todo # <<>> => op[b].host # h,
         todo \notin EnrollPlans => reg[h].st # "new",
         known' = known, poll' = poll, poller' = poller, data' = data, age' = age,
         lock' = lock, build' = build, pc' = pc, fresh' = fresh, floor' = floor
  PROVE  FleetInv'
  <1>1. op[a].todo = <<>> /\ op' = [op EXCEPT ![a] = [host |-> h, ver |-> ver, todo |-> todo]]
    BY DEF Begin
  <1>2. op \in [Admins -> Op] /\ reg \in [Hosts -> Record]
        /\ known \in [Hosts -> Outcome] /\ floor \in [Threads -> [Hosts -> Outcome]]
    BY DEF FleetInv, TypeOK, Op, Steps, Outcome
  <1>3. [host |-> h, ver |-> ver, todo |-> todo] \in Op
    BY PlanFacts DEF Op
  <1>4. /\ op' \in [Admins -> Op] /\ \A b \in Admins \ {a} : op'[b] = op[b]
        /\ op'[a].host = h /\ op'[a].ver = ver /\ op'[a].todo = todo
    BY <1>1, <1>2, <1>3
  <1>5. TypeOK'
    BY <1>4 DEF FleetInv, TypeOK, Op, Steps
  <1>6. OpsOk'
    <2> SUFFICES ASSUME NEW b \in Admins
                 PROVE  /\ op'[b].todo \in Plans /\ op'[b].ver <= reg'[op'[b].host].ver
                        /\ op'[b].todo \in EnrollPlans =>
                             /\ reg'[op'[b].host].st = "new"
                             /\ \A c \in Admins \ {b} :
                                  op'[c].todo # <<>> => op'[c].host # op'[b].host
      BY DEF OpsOk
    <2>1. CASE b = a
      BY <2>1, <1>4
    <2>2. CASE b # a
      <3>1. op'[b] = op[b] /\ op[b].host \in Hosts /\ op[b].ver \in Int
            /\ reg[op[b].host].ver \in Int /\ reg'[op[b].host].ver \in Int
        BY <2>2, <1>2, <1>4, SMTT(30) DEF Op, Record
      <3>2. /\ op[b].todo \in Plans /\ op[b].ver <= reg[op[b].host].ver
            /\ op[b].todo \in EnrollPlans =>
                 /\ reg[op[b].host].st = "new"
                 /\ \A c \in Admins \ {b} : op[c].todo # <<>> => op[c].host # op[b].host
        BY DEF FleetInv, OpsOk
      <3>3. op[b].ver <= reg'[op[b].host].ver
        BY <3>1, <3>2
      <3>4. op[b].todo \in EnrollPlans => h # op[b].host
        BY <3>2, PlanFacts
      <3> QED
        BY <3>1, <3>2, <3>3, <3>4, <1>4, <2>2
    <2> QED
      BY <2>1, <2>2
  <1>7. KnownOk'
    <2>1. Within(known)'
      BY <1>2, WithinGrows DEF FleetInv, KnownOk, Within
    <2>2. \A t \in Threads : Within(floor[t])'
      BY <1>2, WithinGrows DEF FleetInv, KnownOk, Within
    <2> QED
      BY <2>1, <2>2 DEF KnownOk
  <1> QED
    BY <1>5, <1>6, <1>7, BuildStands DEF FleetInv

LEMMA NodeUpdateInv ==
  ASSUME FleetInv, NEW a \in Admins, NEW h \in Hosts, NEW pause \in Pause, NEW probed \in BOOLEAN,
         NodeUpdate(a, h, pause, probed)
  PROVE  FleetInv'
  <1>1. reg \in [Hosts -> Record]
    BY DEF FleetInv, TypeOK
  <1>2. /\ reg[h].st = "in" /\ reg[h].ver < MaxVer /\ reg[h].ver \in 0..MaxVer
        /\ reg' = [reg EXCEPT ![h].ver = @ + 1, ![h].pause = pause]
    BY <1>1 DEF NodeUpdate, Record
  <1>3. reg[h].ver + 1 \in 0..MaxVer
    BY <1>2, Constants
  <1>4. /\ reg' \in [Hosts -> Record] /\ reg'[h].ver = reg[h].ver + 1 /\ reg'[h].st = "in"
        /\ \A i \in Hosts \ {h} : reg'[i] = reg[i]
    BY <1>1, <1>2, <1>3 DEF Record
  <1>5. \A i \in Hosts : /\ reg'[i].ver >= reg[i].ver
                         /\ reg[i].st = "out" => reg'[i].st = "out"
                         /\ reg[i].st = "new" => reg'[i].st = "new"
    BY <1>1, <1>2, <1>4 DEF Record
  <1> DEFINE todo == IF probed /\ h \in Polled THEN <<"seed", "bust">> ELSE <<"bust">>
  <1>6. todo \in Plans /\ todo \notin EnrollPlans
    BY PlanFacts
  <1>7. /\ Begin(a, h, reg[h].ver + 1, todo)
        /\ known' = known /\ poll' = poll /\ poller' = poller /\ data' = data /\ age' = age
        /\ lock' = lock /\ build' = build /\ pc' = pc /\ fresh' = fresh /\ floor' = floor
    BY DEF NodeUpdate, pollVars, cacheVars, buildVars, threadVars
  <1> HIDE DEF todo
  <1>8. reg[h].ver + 1 <= reg'[h].ver /\ reg[h].st # "new"
    BY <1>2, <1>4
  <1> QED
    BY <1>3, <1>4, <1>5, <1>6, <1>7, <1>8, RequestInv

LEMMA NodeRepinInv ==
  ASSUME FleetInv, NEW a \in Admins, NEW h \in Hosts, NodeRepin(a, h) PROVE FleetInv'
  <1>1. reg \in [Hosts -> Record]
    BY DEF FleetInv, TypeOK
  <1>2. /\ reg[h].st = "in" /\ reg[h].ver < MaxVer /\ reg[h].ver \in 0..MaxVer
        /\ reg' = [reg EXCEPT ![h].ver = @ + 1]
    BY <1>1 DEF NodeRepin, Record
  <1>3. reg[h].ver + 1 \in 0..MaxVer
    BY <1>2, Constants
  <1>4. /\ reg' \in [Hosts -> Record] /\ reg'[h].ver = reg[h].ver + 1 /\ reg'[h].st = "in"
        /\ \A i \in Hosts \ {h} : reg'[i] = reg[i]
    BY <1>1, <1>2, <1>3 DEF Record
  <1>5. \A i \in Hosts : /\ reg'[i].ver >= reg[i].ver
                         /\ reg[i].st = "out" => reg'[i].st = "out"
                         /\ reg[i].st = "new" => reg'[i].st = "new"
    BY <1>1, <1>2, <1>4 DEF Record
  <1> DEFINE todo == IF h \in Polled THEN <<"bust", "evict">> ELSE <<"bust">>
  <1>6. todo \in Plans /\ todo \notin EnrollPlans
    BY PlanFacts
  <1>7. /\ Begin(a, h, reg[h].ver + 1, todo)
        /\ known' = known /\ poll' = poll /\ poller' = poller /\ data' = data /\ age' = age
        /\ lock' = lock /\ build' = build /\ pc' = pc /\ fresh' = fresh /\ floor' = floor
    BY DEF NodeRepin, pollVars, cacheVars, buildVars, threadVars
  <1> HIDE DEF todo
  <1>8. reg[h].ver + 1 <= reg'[h].ver /\ reg[h].st # "new"
    BY <1>2, <1>4
  <1> QED
    BY <1>3, <1>4, <1>5, <1>6, <1>7, <1>8, RequestInv

LEMMA NodeDeleteInv ==
  ASSUME FleetInv, NEW a \in Admins, NEW h \in Hosts, NodeDelete(a, h) PROVE FleetInv'
  <1>1. reg \in [Hosts -> Record]
    BY DEF FleetInv, TypeOK
  <1>2. /\ reg[h].st = "in" /\ reg[h].ver \in 0..MaxVer
        /\ reg' = [reg EXCEPT ![h].st = "out", ![h].pause = "no"]
    BY <1>1 DEF NodeDelete, Record
  <1>3. /\ reg' \in [Hosts -> Record] /\ reg'[h].ver = reg[h].ver
        /\ \A i \in Hosts \ {h} : reg'[i] = reg[i]
    BY <1>1, <1>2 DEF Record, Pause
  <1>4. \A i \in Hosts : /\ reg'[i].ver >= reg[i].ver
                         /\ reg[i].st = "out" => reg'[i].st = "out"
                         /\ reg[i].st = "new" => reg'[i].st = "new"
    BY <1>1, <1>2, <1>3 DEF Record
  <1> DEFINE todo == IF h \in Polled THEN <<"evict", "bust">> ELSE <<"bust">>
  <1>5. todo \in Plans /\ todo \notin EnrollPlans
    BY PlanFacts
  <1>6. /\ Begin(a, h, reg[h].ver, todo)
        /\ known' = known /\ poll' = poll /\ poller' = poller /\ data' = data /\ age' = age
        /\ lock' = lock /\ build' = build /\ pc' = pc /\ fresh' = fresh /\ floor' = floor
    BY DEF NodeDelete, pollVars, cacheVars, buildVars, threadVars
  <1> HIDE DEF todo
  <1>7. reg[h].ver <= reg'[h].ver /\ reg[h].st # "new"
    BY <1>2, <1>3
  <1> QED
    BY <1>2, <1>3, <1>4, <1>5, <1>6, <1>7, RequestInv

LEMMA NodesAddInv ==
  ASSUME FleetInv, NEW a \in Admins, NEW h \in Hosts, NodesAdd(a, h) PROVE FleetInv'
  <1>1. reg \in [Hosts -> Record] /\ \A i \in Hosts : reg[i].ver \in 0..MaxVer
    BY DEF FleetInv, TypeOK, Record
  <1>2. reg[h].st = "new" /\ \A b \in Admins : op[b].todo # <<>> => op[b].host # h
    BY DEF NodesAdd
  <1> DEFINE todo == IF h \in Polled THEN <<"seed", "enroll", "bust">> ELSE <<"enroll", "bust">>
  <1>3. todo \in Plans /\ todo \in EnrollPlans
    BY PlanFacts DEF EnrollPlans
  <1>4. /\ Begin(a, h, 0, todo) /\ reg' = reg
        /\ known' = known /\ poll' = poll /\ poller' = poller /\ data' = data /\ age' = age
        /\ lock' = lock /\ build' = build /\ pc' = pc /\ fresh' = fresh /\ floor' = floor
    BY DEF NodesAdd, pollVars, cacheVars, buildVars, threadVars
  <1> HIDE DEF todo
  <1>5. 0 \in 0..MaxVer /\ 0 <= reg'[h].ver /\ \A i \in Hosts : reg'[i].ver >= reg[i].ver
    BY <1>1, <1>4, Constants
  <1> QED
    BY <1>1, <1>2, <1>3, <1>4, <1>5, RequestInv

\* A step of a request under way, its plan one shorter; the last one is answered.
LEMMA StepOps ==
  ASSUME FleetInv, NEW a \in Admins, NEW what, Step(a, what)
  PROVE  /\ op[a].todo \in Plans /\ op[a].todo # <<>> /\ Head(op[a].todo) = what
         /\ op' \in [Admins -> Op] /\ \A b \in Admins \ {a} : op'[b] = op[b]
         /\ \/ /\ op'[a].host = op[a].host /\ op'[a].ver = op[a].ver
               /\ op'[a].todo = Tail(op[a].todo)
            \/ op'[a] = NoOp
         /\ known' \in [Hosts -> Outcome]
         /\ \A h \in Hosts : \/ known'[h] = known[h]
                             \/ /\ h = op[a].host
                                /\ known'[h].ver \in {op[a].ver, known[h].ver}
                                /\ known'[h].out = (known[h].out \/ reg[h].st = "out")
  <1> DEFINE o == op[a]
  <1>1. op \in [Admins -> Op] /\ known \in [Hosts -> Outcome] /\ o \in Op /\ o.todo \in Plans
    BY DEF FleetInv, TypeOK, OpsOk, Op, Steps, Outcome
  <1> DEFINE shorter == [o EXCEPT !.todo = Tail(@)]
  <1>2. /\ o.todo # <<>> /\ Head(o.todo) = what
        /\ op' = [op EXCEPT ![a] = IF Len(o.todo) > 1 THEN shorter ELSE NoOp]
    BY DEF Step
  <1>3. known' = known \/
        known' = [known EXCEPT ![o.host] = [ver |-> IF o.ver > @.ver THEN o.ver ELSE @.ver,
                                            out |-> @.out \/ reg[o.host].st = "out"]]
    BY Zenon DEF Step
  <1> HIDE DEF o
  <1>4. Tail(o.todo) \in Seq(Steps)
    BY <1>1, <1>2, PlanTails, PlanFacts
  <1>5. /\ shorter \in Op /\ shorter.host = o.host /\ shorter.ver = o.ver
        /\ shorter.todo = Tail(o.todo)
    BY <1>1, <1>4 DEF Op
  <1> HIDE DEF shorter
  <1>6. op' \in [Admins -> Op] /\ (\A b \in Admins \ {a} : op'[b] = op[b])
        /\ (op'[a] = shorter \/ op'[a] = NoOp)
    BY <1>1, <1>2, <1>5, NoOpTyped
  <1>7. /\ known' \in [Hosts -> Outcome]
        /\ \A h \in Hosts : \/ known'[h] = known[h]
                            \/ /\ h = o.host /\ known'[h].ver \in {o.ver, known[h].ver}
                               /\ known'[h].out = (known[h].out \/ reg[h].st = "out")
    <2>1. CASE known' = known
      BY <2>1, <1>1
    <2>2. CASE known' = [known EXCEPT ![o.host] =
                            [ver |-> IF o.ver > @.ver THEN o.ver ELSE @.ver,
                             out |-> @.out \/ reg[o.host].st = "out"]]
      <3> DEFINE k == known[o.host]
                 v == IF o.ver > k.ver THEN o.ver ELSE k.ver
                 x == k.out \/ reg[o.host].st = "out"
      <3>1. o.host \in Hosts /\ k \in Outcome /\ o.ver \in 0..MaxVer
        BY <1>1 DEF Op
      <3>2. v \in 0..MaxVer /\ x \in BOOLEAN /\ v \in {o.ver, k.ver}
        BY <3>1 DEF Outcome
      <3> HIDE DEF v, x
      <3>3. [ver |-> v, out |-> x] \in Outcome
        BY <3>2 DEF Outcome
      <3>4. known' = [known EXCEPT ![o.host] = [ver |-> v, out |-> x]]
        BY <2>2 DEF v, x
      <3>5. known' \in [Hosts -> Outcome] /\ known'[o.host] = [ver |-> v, out |-> x]
            /\ \A h \in Hosts \ {o.host} : known'[h] = known[h]
        BY <3>1, <3>3, <3>4, <1>1
      <3> QED
        BY <3>2, <3>5 DEF x
    <2> QED
      BY <1>3, <2>1, <2>2
  <1> QED
    BY <1>1, <1>2, <1>5, <1>6, <1>7 DEF o

\* What Seed, Evict and Bust have in common: the records stand.
LEMMA AnswerInv ==
  ASSUME FleetInv, NEW a \in Admins, NEW what, Step(a, what), what # "enroll", reg' = reg,
         poll' \in [Polled -> [has : BOOLEAN, ver : 0..MaxVer]], age' \in 0..TTL,
         poller' = poller, data' = data, lock' = lock, build' = build,
         pc' = pc, fresh' = fresh, floor' = floor
  PROVE  FleetInv'
  <1>1. /\ op[a].todo \in Plans /\ op[a].todo # <<>>
        /\ op' \in [Admins -> Op] /\ \A b \in Admins \ {a} : op'[b] = op[b]
        /\ \/ /\ op'[a].host = op[a].host /\ op'[a].ver = op[a].ver
              /\ op'[a].todo = Tail(op[a].todo)
           \/ op'[a] = NoOp
        /\ known' \in [Hosts -> Outcome]
        /\ \A h \in Hosts : \/ known'[h] = known[h]
                            \/ /\ h = op[a].host
                               /\ known'[h].ver \in {op[a].ver, known[h].ver}
                               /\ known'[h].out = (known[h].out \/ reg[h].st = "out")
    BY StepOps
  <1>2. TypeOK'
    BY <1>1 DEF FleetInv, TypeOK, Op, Steps, Outcome
  <1>3. /\ Tail(op[a].todo) \in Plans
        /\ Tail(op[a].todo) \in EnrollPlans => op[a].todo \in EnrollPlans
    BY <1>1, PlanTails
  <1>4. reg \in [Hosts -> Record] /\ \A h \in Hosts : 0 <= reg[h].ver
    <2>1. \A n \in 0..MaxVer : 0 <= n
      BY FleetAssumption
    <2>2. reg \in [Hosts -> Record] /\ \A h \in Hosts : reg[h].ver \in 0..MaxVer
      BY DEF FleetInv, TypeOK, Record
    <2> QED
      BY <2>1, <2>2, Zenon
  <1>5. OpsOk'
    <2> SUFFICES ASSUME NEW b \in Admins
                 PROVE  /\ op'[b].todo \in Plans /\ op'[b].ver <= reg[op'[b].host].ver
                        /\ op'[b].todo \in EnrollPlans =>
                             /\ reg[op'[b].host].st = "new"
                             /\ \A c \in Admins \ {b} :
                                  op'[c].todo # <<>> => op'[c].host # op'[b].host
      BY DEF OpsOk
    <2>1. \A c \in Admins : \/ /\ op'[c].host = op[c].host /\ op'[c].ver = op[c].ver
                               /\ op'[c].todo # <<>> => op[c].todo # <<>>
                               /\ op'[c].todo \in EnrollPlans => op[c].todo \in EnrollPlans
                               /\ op'[c].todo \in Plans
                            \/ op'[c] = NoOp
      BY <1>1, <1>3 DEF FleetInv, OpsOk
    <2>2. CASE op'[b] = NoOp
      BY <2>2, <1>4, NoOpTyped, PlanFacts
    <2>3. CASE op'[b] # NoOp
      BY <2>1, <2>3, NoOpTyped DEF FleetInv, OpsOk
    <2> QED
      BY <2>2, <2>3
  <1>6. KnownOk'
    <2>1. op[a].host \in Hosts /\ op[a].ver <= reg[op[a].host].ver
      BY DEF FleetInv, TypeOK, OpsOk
    <2>2. \A h \in Hosts : known[h].ver <= reg[h].ver /\ (known[h].out => reg[h].st = "out")
      BY DEF FleetInv, KnownOk, Within
    <2>3. Within(known)'
      BY <1>1, <2>1, <2>2 DEF Within
    <2>4. \A t \in Threads : Within(floor[t])'
      BY DEF FleetInv, KnownOk, Within
    <2> QED
      BY <2>3, <2>4 DEF KnownOk
  <1> QED
    BY <1>2, <1>5, <1>6, BuildStands DEF FleetInv

LEMMA SeedInv == ASSUME FleetInv, NEW a \in Admins, Seed(a) PROVE FleetInv'
  <1>1. /\ Step(a, "seed") /\ reg' = reg /\ poller' = poller /\ data' = data /\ age' = age
        /\ lock' = lock /\ build' = build /\ pc' = pc /\ fresh' = fresh /\ floor' = floor
    BY DEF Seed, cacheVars, buildVars, threadVars
  <1>2. /\ poll' \in [Polled -> [has : BOOLEAN, ver : 0..MaxVer]] /\ age \in 0..TTL
    <2>1. [has |-> TRUE, ver |-> op[a].ver] \in [has : BOOLEAN, ver : 0..MaxVer]
      BY DEF FleetInv, TypeOK
    <2> QED
      BY <2>1 DEF Seed, FleetInv, TypeOK
  <1> QED
    BY <1>1, <1>2, AnswerInv

LEMMA EvictInv == ASSUME FleetInv, NEW a \in Admins, Evict(a) PROVE FleetInv'
  <1>1. /\ Step(a, "evict") /\ reg' = reg /\ poller' = poller /\ data' = data /\ age' = age
        /\ lock' = lock /\ build' = build /\ pc' = pc /\ fresh' = fresh /\ floor' = floor
    BY DEF Evict, cacheVars, buildVars, threadVars
  <1>2. /\ poll' \in [Polled -> [has : BOOLEAN, ver : 0..MaxVer]] /\ age \in 0..TTL
    BY Constants DEF Evict, FleetInv, TypeOK
  <1> QED
    BY <1>1, <1>2, AnswerInv

LEMMA BustInv == ASSUME FleetInv, NEW a \in Admins, Bust(a) PROVE FleetInv'
  <1>1. /\ Step(a, "bust") /\ reg' = reg /\ poller' = poller /\ poll' = poll /\ data' = data
        /\ age' = TTL /\ lock' = lock /\ build' = build /\ pc' = pc /\ fresh' = fresh
        /\ floor' = floor
    BY DEF Bust, pollVars, buildVars, threadVars
  <1>2. poll' \in [Polled -> [has : BOOLEAN, ver : 0..MaxVer]] /\ age' \in 0..TTL
    BY <1>1, Constants DEF FleetInv, TypeOK
  <1> QED
    BY <1>1, <1>2, AnswerInv

\* The host enrolled was new and in no other request's hands.
LEMMA EnrollReg ==
  ASSUME FleetInv, NEW a \in Admins, Enroll(a)
  PROVE  /\ op[a].todo \in EnrollPlans /\ Tail(op[a].todo) \notin EnrollPlans
         /\ Tail(op[a].todo) \in Plans
         /\ op[a].host \in Hosts /\ reg[op[a].host].st = "new"
         /\ reg' \in [Hosts -> Record] /\ \A h \in Hosts : reg'[h].ver = reg[h].ver
         /\ \A h \in Hosts : reg'[h].pause = reg[h].pause
         /\ \A h \in Hosts \ {op[a].host} : reg'[h].st = reg[h].st
         /\ reg'[op[a].host].st = "in"
  <1>1. op[a].todo \in Plans /\ op[a].todo # <<>> /\ Head(op[a].todo) = "enroll"
    BY StepOps DEF Enroll
  <1>2. op[a].todo \in EnrollPlans /\ Tail(op[a].todo) \notin EnrollPlans
        /\ Tail(op[a].todo) \in Plans
    BY <1>1, PlanTails
  <1>3. op[a].host \in Hosts /\ reg \in [Hosts -> Record] /\ reg[op[a].host].st = "new"
    BY <1>2 DEF FleetInv, TypeOK, OpsOk
  <1>4. reg' = [reg EXCEPT ![op[a].host].st = "in"]
    BY DEF Enroll
  <1> QED
    BY <1>2, <1>3, <1>4 DEF Record

LEMMA EnrollInv == ASSUME FleetInv, NEW a \in Admins, Enroll(a) PROVE FleetInv'
  <1>1. /\ Step(a, "enroll") /\ poll' = poll /\ poller' = poller /\ data' = data /\ age' = age
        /\ lock' = lock /\ build' = build /\ pc' = pc /\ fresh' = fresh /\ floor' = floor
    BY DEF Enroll, pollVars, cacheVars, buildVars, threadVars
  <1>2. /\ op[a].todo \in EnrollPlans /\ Tail(op[a].todo) \notin EnrollPlans
        /\ Tail(op[a].todo) \in Plans
        /\ op[a].host \in Hosts /\ reg[op[a].host].st = "new"
        /\ reg' \in [Hosts -> Record] /\ \A h \in Hosts : reg'[h].ver = reg[h].ver
        /\ \A h \in Hosts \ {op[a].host} : reg'[h].st = reg[h].st
    BY EnrollReg
  <1>3. /\ op' \in [Admins -> Op] /\ \A b \in Admins \ {a} : op'[b] = op[b]
        /\ \/ /\ op'[a].host = op[a].host /\ op'[a].ver = op[a].ver
              /\ op'[a].todo = Tail(op[a].todo)
           \/ op'[a] = NoOp
        /\ known' \in [Hosts -> Outcome]
        /\ \A h \in Hosts : \/ known'[h] = known[h]
                            \/ /\ h = op[a].host
                               /\ known'[h].ver \in {op[a].ver, known[h].ver}
                               /\ known'[h].out = (known[h].out \/ reg[h].st = "out")
    BY <1>1, StepOps
  <1>4. TypeOK'
    BY <1>1, <1>2, <1>3 DEF FleetInv, TypeOK, Op, Steps, Outcome
  <1>5. reg \in [Hosts -> Record] /\ \A h \in Hosts : 0 <= reg[h].ver
    <2>1. \A n \in 0..MaxVer : 0 <= n
      BY FleetAssumption
    <2>2. reg \in [Hosts -> Record] /\ \A h \in Hosts : reg[h].ver \in 0..MaxVer
      BY DEF FleetInv, TypeOK, Record
    <2> QED
      BY <2>1, <2>2, Zenon
  <1>6. OpsOk'
    <2> SUFFICES ASSUME NEW b \in Admins
                 PROVE  /\ op'[b].todo \in Plans /\ op'[b].ver <= reg'[op'[b].host].ver
                        /\ op'[b].todo \in EnrollPlans =>
                             /\ reg'[op'[b].host].st = "new"
                             /\ \A c \in Admins \ {b} :
                                  op'[c].todo # <<>> => op'[c].host # op'[b].host
      BY DEF OpsOk
    <2>1. CASE b = a
      <3>1. op[a].ver <= reg[op[a].host].ver
        BY DEF FleetInv, OpsOk
      <3> QED
        BY <2>1, <3>1, <1>2, <1>3, <1>5, NoOpTyped, PlanFacts, ZenonT(30)
    <2>2. CASE b # a
      <3>1. op'[b] = op[b] /\ op[b].host \in Hosts
        BY <2>2, <1>3 DEF FleetInv, TypeOK
      <3>2. /\ op[b].todo \in Plans /\ op[b].ver <= reg[op[b].host].ver
            /\ op[b].todo \in EnrollPlans =>
                 /\ reg[op[b].host].st = "new"
                 /\ \A c \in Admins \ {b} : op[c].todo # <<>> => op[c].host # op[b].host
        BY DEF FleetInv, OpsOk
      <3>3. op[b].todo \in EnrollPlans => op[b].host # op[a].host
        BY <3>2, <2>2, <1>2, PlanFacts
      <3>4. \A c \in Admins \ {b} : (op[b].todo \in EnrollPlans /\ op'[c].todo # <<>>)
                                      => op'[c].host # op[b].host
        BY <3>2, <3>3, <1>3, NoOpTyped
      <3> QED
        BY <3>1, <3>2, <3>3, <3>4, <1>2
    <2> QED
      BY <2>1, <2>2
  <1>7. KnownOk'
    <2>1. op[a].ver <= reg[op[a].host].ver
      BY DEF FleetInv, OpsOk
    <2>2. \A h \in Hosts : known[h].ver <= reg[h].ver /\ (known[h].out => reg[h].st = "out")
      BY DEF FleetInv, KnownOk, Within
    <2>3. Within(known)'
      <3> SUFFICES ASSUME NEW h \in Hosts
                   PROVE  known'[h].ver <= reg'[h].ver /\ (known'[h].out => reg'[h].st = "out")
        BY DEF Within
      <3>1. known'[h].ver <= reg[h].ver
        BY <1>3, <2>1, <2>2
      <3>2. known'[h].out => reg[h].st = "out"
        BY <1>3, <2>2
      <3>3. reg[h].st = "out" => reg'[h].st = "out"
        BY <1>2
      <3> QED
        BY <3>1, <3>2, <3>3, <1>2
    <2>4. \A t \in Threads : Within(floor[t])'
      BY <1>1, <1>2 DEF FleetInv, KnownOk, Within
    <2> QED
      BY <1>1, <2>3, <2>4 DEF KnownOk
  <1> QED
    BY <1>1, <1>4, <1>6, <1>7, BuildStands DEF FleetInv

-----------------------------------------------------------------------------
LEMMA FleetNextInv == FleetInv /\ [Next]_vars => FleetInv'
  <1> SUFFICES ASSUME FleetInv, [Next]_vars PROVE FleetInv'
    OBVIOUS
  <1>1. CASE UNCHANGED vars
    <2>1. TypeOK'
      BY <1>1 DEF vars, FleetInv, TypeOK
    <2> QED
      BY <1>1, <2>1, RecordsStand, BuildStands DEF vars, FleetInv
  <1>2. ASSUME NEW t \in Threads, Building(t) PROVE FleetInv'
    BY <1>2, EnterInv, LoadInv, FetchOneInv, RefreshInv, StoreInv DEF Building
  <1>3. ASSUME NEW a \in Admins, Answering(a) PROVE FleetInv'
    BY <1>3, SeedInv, EvictInv, EnrollInv, BustInv DEF Answering
  <1>4. ASSUME NEW a \in Admins, NEW h \in Hosts,
               \/ \E pause \in Pause, probed \in BOOLEAN : NodeUpdate(a, h, pause, probed)
               \/ NodeRepin(a, h) \/ NodeDelete(a, h) \/ NodesAdd(a, h)
        PROVE  FleetInv'
    BY <1>4, NodeUpdateInv, NodeRepinInv, NodeDeleteInv, NodesAddInv
  <1> QED
    BY <1>1, <1>2, <1>3, <1>4, AskInv, CloseInv, PollingInv, TimeInv DEF Next

\* The registry, the poll cache, the snapshot, the build and every thread keep their types.
THEOREM FleetType == Spec => []TypeOK
  <1>1. FleetInv => TypeOK
    BY DEF FleetInv
  <1> QED
    BY <1>1, FleetInitInv, FleetNextInv, PTL DEF Spec

\* _refresh_registry_from_results loads the registry anew, expire_pauses and every
\* edit change it under _REG_LOCK: of any number of builds, edits and enrolments
\* in any order, no step brings a host back, drops one, or undoes an edit.
THEOREM RegistryKept == Spec => RegistryNeverRegresses
  <1> DEFINE Kept(h) == /\ reg[h].st = "out" => reg'[h].st = "out"
                        /\ reg[h].st = "in" => reg'[h].st # "new"
                        /\ reg'[h].ver >= reg[h].ver
                        /\ reg[h].pause \in {"pause", "window"} /\ reg'[h].pause = "no"
                             => reg'[h].ver > reg[h].ver \/ reg'[h].st = "out"
  <1>1. FleetInv /\ [Next]_vars => [\A h \in Hosts : Kept(h)]_vars
    <2> SUFFICES ASSUME FleetInv, Next PROVE \A h \in Hosts : Kept(h)
      OBVIOUS
    <2>1. reg \in [Hosts -> Record] /\ \A h \in Hosts : reg[h].ver \in Int /\ reg[h].ver >= reg[h].ver
      BY DEF FleetInv, TypeOK, Record
    <2>2. CASE reg' = reg
      BY <2>1, <2>2
    <2>3. ASSUME NEW t \in Threads, Load(t) PROVE \A h \in Hosts : Kept(h)
      <3>1. reg' = Resumed(reg)
        BY <2>3 DEF Load
      <3>2. \A h \in Hosts : /\ reg'[h].st = reg[h].st /\ reg'[h].ver = reg[h].ver
                             /\ reg'[h].pause = reg[h].pause \/ reg[h].pause = "due"
        BY <3>1, <2>1, ResumedRecords
      <3> QED
        BY <3>2, <2>1
    <2>4. ASSUME NEW t \in Threads, Refresh(t) PROVE reg' = reg
      BY <2>4 DEF Refresh, Reloaded
    <2>5. ASSUME NEW a \in Admins, NEW g \in Hosts, NEW pause \in Pause, NEW probed \in BOOLEAN,
                 NodeUpdate(a, g, pause, probed)
          PROVE  \A h \in Hosts : Kept(h)
      BY <2>5, <2>1 DEF NodeUpdate, Record
    <2>6. ASSUME NEW a \in Admins, NEW g \in Hosts, NodeRepin(a, g) PROVE \A h \in Hosts : Kept(h)
      BY <2>6, <2>1 DEF NodeRepin, Record
    <2>7. ASSUME NEW a \in Admins, NEW g \in Hosts, NodeDelete(a, g) PROVE \A h \in Hosts : Kept(h)
      BY <2>7, <2>1 DEF NodeDelete, Record
    <2>8. ASSUME NEW a \in Admins, Enroll(a) PROVE \A h \in Hosts : Kept(h)
      <3>1. /\ op[a].host \in Hosts /\ reg[op[a].host].st = "new"
            /\ \A h \in Hosts : reg'[h].ver = reg[h].ver /\ reg'[h].pause = reg[h].pause
            /\ \A h \in Hosts \ {op[a].host} : reg'[h].st = reg[h].st
        BY <2>8, EnrollReg
      <3> QED
        BY <3>1, <2>1
    <2>9. ASSUME NEW g \in Hosts, WindowEnds(g) PROVE \A h \in Hosts : Kept(h)
      BY <2>9, <2>1 DEF WindowEnds, Record
    <2>10. ASSUME \/ \E t \in Threads, f \in BOOLEAN : Ask(t, f)
                  \/ \E t \in Threads : Enter(t) \/ Store(t) \/ Close(t)
                  \/ \E t \in Threads, h \in Hosts : FetchOne(t, h)
                  \/ Polling \/ Tick
                  \/ \E a \in Admins, h \in Hosts : NodesAdd(a, h)
                  \/ \E a \in Admins : Seed(a) \/ Evict(a) \/ Bust(a)
           PROVE  reg' = reg
      BY <2>10 DEF Ask, Enter, Store, Close, FetchOne, Polling, PollStart, PollOne, PollEnd, Tick,
                   NodesAdd, Seed, Evict, Bust, registryVars
    <2> QED
      BY <2>2, <2>3, <2>4, <2>5, <2>6, <2>7, <2>8, <2>9, <2>10, Zenon
      DEF Next, Building, Answering
  <1> QED
    BY <1>1, FleetInitInv, FleetNextInv, PTL DEF Spec, RegistryNeverRegresses

\* A fresh request queues behind the build that holds _build_lock, and then builds:
\* with any number of viewers and edits, what it is served was loaded after it was
\* asked for, and shows every deletion and live edit answered by then.
THEOREM FreshViewsCurrent == Spec => FreshViewCurrent
  <1> DEFINE Current == \A t \in Threads : Served(t) /\ fresh'[t] =>
                          \A h \in Hosts : ShowsDeletion(t, h) /\ (h \notin Polled => ShowsEdit(t, h))
  <1>1. FleetInv /\ [Next]_vars => [Current]_vars
    <2> SUFFICES ASSUME FleetInv, Next, NEW t \in Threads, Served(t), fresh'[t], NEW h \in Hosts
                 PROVE  ShowsDeletion(t, h) /\ (h \notin Polled => ShowsEdit(t, h))
      OBVIOUS
    <2>1. pc \in [Threads -> {"idle", "queue", "build", "served"}] /\ fresh \in [Threads -> BOOLEAN]
      BY DEF FleetInv, TypeOK
    <2>2. ASSUME NEW u \in Threads, NEW f \in BOOLEAN, Ask(u, f) PROVE FALSE
      BY <2>2, <2>1 DEF Ask, Cached, Served
    <2>3. ASSUME NEW u \in Threads, Enter(u) PROVE FALSE
      BY <2>3, <2>1 DEF Enter, TakesPrevious, Cached, Served, buildVars
    <2>4. ASSUME NEW u \in Threads, Close(u) PROVE FALSE
      BY <2>4, <2>1 DEF Close, Served
    <2>5. ASSUME NEW u \in Threads, Store(u)
          PROVE  ShowsDeletion(t, h) /\ (h \notin Polled => ShowsEdit(t, h))
      <3>1. u = t /\ lock = t /\ build.at = "store" /\ data' = build.rows /\ floor' = floor
        BY <2>5, <2>1 DEF Store, Served
      <3> QED
        BY <3>1 DEF FleetInv, BuildOk, ShowsDeletion, ShowsEdit
    <2>6. pc' # pc
      BY DEF Served
    <2>7. ASSUME \/ \E u \in Threads : Load(u) \/ Refresh(u)
                 \/ \E u \in Threads, i \in Hosts : FetchOne(u, i)
                 \/ Polling \/ Tick \/ \E i \in Hosts : WindowEnds(i)
                 \/ \E a \in Admins, i \in Hosts :
                      \/ \E pause \in Pause, probed \in BOOLEAN : NodeUpdate(a, i, pause, probed)
                      \/ NodeRepin(a, i) \/ NodeDelete(a, i) \/ NodesAdd(a, i)
                 \/ \E a \in Admins : Answering(a)
          PROVE  pc' = pc
      BY <2>7, ZenonT(30) DEF Load, Refresh, FetchOne, Polling, PollStart, PollOne, PollEnd, Tick, WindowEnds,
                  NodeUpdate, NodeRepin, NodeDelete, NodesAdd, Answering, Seed, Evict, Enroll, Bust,
                  threadVars
    <2> QED
      BY <2>2, <2>3, <2>4, <2>5, <2>6, <2>7, Zenon DEF Next, Building
  <1> QED
    BY <1>1, FleetInitInv, FleetNextInv, PTL DEF Spec, FreshViewCurrent
-----------------------------------------------------------------------------
(* Quiet times: what is safe in EventuallyConsistent *)

NoOps == \A a \in Admins : op[a].todo = <<>>

\* No request is past its registry write, and no poll is under way.
Calm == NoOps /\ poller = Asleep

\* No edit, and no window that ends.
Quiet == UNCHANGED <<reg, op>>

\* the hosts that a poll should visit
Live == {h \in Polled : reg[h].st = "in" /\ reg[h].pause = "no"}

PollAgrees ==
    \A h \in Polled : poll[h] = IF h \in Live THEN [has |-> TRUE, ver |-> reg[h].ver] ELSE NoPoll

FleetAgrees == \A h \in Hosts : Agrees(h)

\* A poll visits the hosts it should, and what it has cached is the record as it is.
PollsOk ==
    /\ poller.on => /\ poller.ids = Live /\ poller.todo \subseteq Live
                    /\ \A h \in Live : poller.ver[h] = reg[h].ver
                    /\ \A h \in Live \ poller.todo : poll[h] = [has |-> TRUE, ver |-> reg[h].ver]
    /\ ~poller.on => poller.todo = {}

\* the row that shows the registry as it is
Expected(h) == IF reg[h].st # "in" THEN NoRow
               ELSE [k |-> IF reg[h].pause = "no" THEN "row" ELSE "paused", ver |-> reg[h].ver]

\* A build that has loaded shows the registry as it is, but for what it has to fetch.
RowsOk ==
    lock # Nobody /\ build.at # "load" =>
        /\ build.todo \subseteq Live
        /\ build.at = "store" => build.todo = {}
        /\ \A h \in Hosts \ build.todo : build.rows[h] = Expected(h)

QuietPolls == FleetInv /\ NoOps /\ PollsOk
QuietBuilds == QuietPolls /\ PollAgrees /\ RowsOk

\* In quiet only polls and builds touch the caches.
LEMMA QuietKinds ==
  ASSUME NoOps, [Next]_vars, [Quiet]_vars
  PROVE  /\ reg' = reg /\ op' = op
         /\ Polling \/ (\E t \in Threads : Building(t)) \/ UNCHANGED <<poll, poller, data, lock, build>>
  <1>1. reg' = reg /\ op' = op
    BY DEF Quiet, vars
  <1>2. ASSUME NEW a \in Admins PROVE ~Answering(a)
    BY DEF Answering, Seed, Evict, Enroll, Bust, Step, NoOps
  <1>3. ASSUME \/ UNCHANGED vars \/ Tick \/ \E h \in Hosts : WindowEnds(h)
               \/ \E t \in Threads : Close(t) \/ \E f \in BOOLEAN : Ask(t, f)
        PROVE  UNCHANGED <<poll, poller, data, lock, build>>
    BY <1>3 DEF vars, Tick, WindowEnds, Close, Ask, pollVars, cacheVars, buildVars
  <1>4. ASSUME NEW a \in Admins, NEW h \in Hosts,
               \/ \E pause \in Pause, probed \in BOOLEAN : NodeUpdate(a, h, pause, probed)
               \/ NodeRepin(a, h) \/ NodeDelete(a, h) \/ NodesAdd(a, h)
        PROVE  UNCHANGED <<poll, poller, data, lock, build>>
    BY <1>4 DEF NodeUpdate, NodeRepin, NodeDelete, NodesAdd, pollVars, cacheVars, buildVars
  <1>5. Next \/ UNCHANGED vars
    OBVIOUS
  <1> QED
    BY <1>1, <1>2, <1>3, <1>4, <1>5, Zenon DEF Next

LEMMA RegistryStands ==
  ASSUME reg' = reg
  PROVE  Live' = Live /\ \A h : Expected(h)' = Expected(h)
  BY DEF Live, Expected

\* A poll that began in quiet leaves the cache as the registry has it.
LEMMA QuietPolling ==
  ASSUME QuietPolls, Polling, reg' = reg
  PROVE  /\ PollsOk' /\ UNCHANGED <<data, lock, build>>
         /\ PollEnd => PollAgrees'
         /\ PollAgrees => PollAgrees'
  <1>1. Live' = Live /\ Live \subseteq Polled
    BY RegistryStands DEF Live
  <1>2. /\ poll \in [Polled -> [has : BOOLEAN, ver : 0..MaxVer]] /\ PollsOk
        /\ poller \in [on : BOOLEAN, ids : SUBSET Polled, todo : SUBSET Polled,
                       ver : [Polled -> 0..MaxVer]]
    BY DEF QuietPolls, FleetInv, TypeOK
  <1>3. UNCHANGED <<data, lock, build>>
    BY DEF Polling, PollStart, PollOne, PollEnd, cacheVars, buildVars
  <1>4. CASE PollStart
    <2>1. /\ poll' = poll /\ ~poller.on
          /\ poller' = [on |-> TRUE, ids |-> Live, todo |-> Live,
                        ver |-> [h \in Polled |-> IF h \in Live THEN reg[h].ver ELSE 0]]
      BY <1>4 DEF PollStart, Live
    <2>2. PollsOk'
      BY <1>1, <2>1 DEF PollsOk
    <2>3. ~PollEnd
      BY <2>1 DEF PollEnd
    <2> QED
      BY <1>1, <1>3, <2>1, <2>2, <2>3 DEF PollAgrees
  <1>5. ASSUME NEW h \in Polled, PollOne(h)
        PROVE  PollsOk' /\ ~PollEnd /\ (PollAgrees => PollAgrees')
    <2>1. /\ h \in poller.todo /\ poll' = [poll EXCEPT ![h] = [has |-> TRUE, ver |-> poller.ver[h]]]
          /\ poller' = [poller EXCEPT !.todo = @ \ {h}]
      BY <1>5 DEF PollOne
    <2>2. poller.on /\ h \in Live /\ poller.ver[h] = reg[h].ver
      BY <1>2, <2>1 DEF PollsOk
    <2>3. /\ poll'[h] = [has |-> TRUE, ver |-> reg[h].ver]
          /\ \A g \in Polled \ {h} : poll'[g] = poll[g]
      BY <1>2, <2>1, <2>2
    <2>4. /\ poller'.on = poller.on /\ poller'.ids = poller.ids /\ poller'.ver = poller.ver
          /\ poller'.todo = poller.todo \ {h}
      BY <1>2, <2>1
    <2>5. PollsOk'
      BY <1>1, <1>2, <2>2, <2>3, <2>4, ZenonT(30) DEF PollsOk
    <2>6. ~PollEnd
      BY <2>1 DEF PollEnd
    <2>7. PollAgrees => PollAgrees'
      BY <1>1, <2>2, <2>3 DEF PollAgrees
    <2> QED
      BY <2>5, <2>6, <2>7
  <1>6. CASE PollEnd
    <2>1. /\ poller.on /\ poller.todo = {} /\ poller' = Asleep
          /\ poll' = [h \in Polled |-> IF h \in poller.ids THEN poll[h] ELSE NoPoll]
      BY <1>6 DEF PollEnd, PollKept
    <2>2. poller.ids = Live /\ \A h \in Live : poll[h] = [has |-> TRUE, ver |-> reg[h].ver]
      BY <1>2, <2>1 DEF PollsOk
    <2>3. PollAgrees'
      BY <1>1, <2>1, <2>2 DEF PollAgrees
    <2>4. ~poller'.on /\ poller'.todo = {}
      BY <2>1 DEF Asleep
    <2> QED
      BY <1>3, <2>3, <2>4 DEF PollsOk
  <1> QED
    BY <1>3, <1>4, <1>5, <1>6 DEF Polling

\* A build that began in quiet shows the registry as it is.
LEMMA QuietBuilding ==
  ASSUME QuietBuilds, NEW t \in Threads, Building(t), reg' = reg
  PROVE  /\ RowsOk' /\ UNCHANGED <<poll, poller>>
         /\ data' = data \/ FleetAgrees'
         /\ Store(t) => FleetAgrees'
  <1>1. Live' = Live /\ (\A h : Expected(h)' = Expected(h)) /\ Live \subseteq Polled /\ Polled \subseteq Hosts
    BY RegistryStands, Constants DEF Live
  <1>2. /\ build \in [at : {"load", "fetch", "store"}, todo : SUBSET Polled, rows : [Hosts -> Row]]
        /\ RowsOk /\ PollAgrees /\ t # Nobody
    BY Constants DEF QuietBuilds, QuietPolls, FleetInv, TypeOK
  <1>3. UNCHANGED <<poll, poller>>
    BY DEF Building, Enter, Load, FetchOne, Refresh, Store, pollVars
  <1>4. CASE Enter(t)
    <2>1. data' = data /\ ((lock' = lock /\ build' = build) \/ build'.at = "load") /\ ~Store(t)
      BY <1>2, <1>4 DEF Enter, Store, cacheVars, buildVars, EmptyBuild
    <2> QED
      BY <1>1, <1>2, <1>3, <2>1 DEF RowsOk
  <1>5. CASE Load(t)
    <2> DEFINE kind(h) == IF reg[h].st # "in" THEN "none"
                          ELSE IF reg[h].pause # "no" THEN "paused"
                          ELSE IF h \in Polled THEN "await" ELSE "row"
    <2>1. /\ reg' = Resumed(reg) /\ data' = data /\ lock' = lock /\ build.at = "load"
      BY <1>5 DEF Load, cacheVars
    <2>2. Resumed(reg) = reg
      BY <2>1
    <2>3. build' = [at |-> "fetch", todo |-> {h \in Polled : kind(h) = "await"},
                    rows |-> [h \in Hosts |-> IF kind(h) = "none" THEN NoRow
                                              ELSE [k |-> kind(h), ver |-> reg[h].ver]]]
      BY <1>5, <2>2 DEF Load
    <2>4. {h \in Polled : kind(h) = "await"} = Live
      BY DEF Live
    <2>5. \A h \in Hosts \ Live : (IF kind(h) = "none" THEN NoRow ELSE [k |-> kind(h), ver |-> reg[h].ver])
                                  = Expected(h)
      BY DEF Live, Expected
    <2> HIDE DEF kind
    <2>6. /\ build'.at = "fetch" /\ build'.todo = Live
          /\ \A h \in Hosts \ Live : build'.rows[h] = Expected(h)
      BY <2>3, <2>4, <2>5
    <2>7. ~Store(t)
      BY <2>1 DEF Store
    <2> QED
      BY <1>1, <1>3, <2>1, <2>6, <2>7 DEF RowsOk
  <1>6. ASSUME NEW h \in Hosts, FetchOne(t, h) PROVE RowsOk' /\ data' = data /\ ~Store(t)
    <2>1. /\ lock = t /\ build.at = "fetch" /\ h \in build.todo /\ data' = data /\ lock' = lock
          /\ build' = [build EXCEPT !.todo = @ \ {h},
                         !.rows[h] = IF poll[h].has THEN [k |-> "row", ver |-> poll[h].ver] ELSE @]
      BY <1>6 DEF FetchOne, cacheVars
    <2>2. h \in Live /\ poll[h] = [has |-> TRUE, ver |-> reg[h].ver]
      BY <1>1, <1>2, <2>1 DEF RowsOk, PollAgrees
    <2>3. Expected(h) = [k |-> "row", ver |-> reg[h].ver]
      BY <2>2 DEF Expected, Live
    <2>4. build' = [build EXCEPT !.todo = @ \ {h}, !.rows[h] = Expected(h)]
      BY <2>1, <2>2, <2>3
    <2>5. /\ build'.at = "fetch" /\ build'.todo = build.todo \ {h} /\ build'.rows[h] = Expected(h)
          /\ \A g \in Hosts \ {h} : build'.rows[g] = build.rows[g]
      <3>1. \A row : LET b == [build EXCEPT !.todo = @ \ {h}, !.rows[h] = row]
                     IN  /\ b.at = build.at /\ b.todo = build.todo \ {h} /\ b.rows[h] = row
                         /\ \A g \in Hosts \ {h} : b.rows[g] = build.rows[g]
        BY <1>2
      <3>2. LET b == [build EXCEPT !.todo = @ \ {h}, !.rows[h] = Expected(h)]
            IN  /\ b.at = build.at /\ b.todo = build.todo \ {h} /\ b.rows[h] = Expected(h)
                /\ \A g \in Hosts \ {h} : b.rows[g] = build.rows[g]
        BY <3>1, Zenon
      <3> QED
        BY <2>1, <2>4, <3>2, Zenon
    <2>6. ~Store(t)
      BY <2>1 DEF Store
    <2> QED
      BY <1>1, <1>2, <2>1, <2>5, <2>6 DEF RowsOk
  <1>7. CASE Refresh(t)
    <2>1. /\ lock = t /\ build.at = "fetch" /\ build.todo = {} /\ data' = data /\ lock' = lock
          /\ build' = [build EXCEPT !.at = "store"]
      BY <1>7 DEF Refresh, cacheVars
    <2>2. build'.at = "store" /\ build'.todo = {} /\ build'.rows = build.rows
      BY <1>2, <2>1
    <2>3. ~Store(t)
      BY <2>1 DEF Store
    <2> QED
      BY <1>1, <1>2, <1>3, <2>1, <2>2, <2>3 DEF RowsOk
  <1>8. CASE Store(t)
    <2>1. lock = t /\ build.at = "store" /\ data' = build.rows /\ lock' = Nobody
      BY <1>8 DEF Store
    <2>2. \A h \in Hosts : data'[h] = Expected(h)
      BY <1>2, <2>1 DEF RowsOk
    <2>3. ASSUME NEW h \in Hosts PROVE Agrees(h)'
      <3>1. CASE reg[h].st # "in"
        <4>1. Expected(h) = NoRow /\ h \notin Live
          BY <3>1 DEF Expected, Live
        <4>2. data'[h].k = "none"
          BY <2>2, <4>1 DEF NoRow
        <4>3. h \in Polled => poll'[h] = NoPoll
          BY <1>2, <1>3, <4>1 DEF PollAgrees
        <4>4. NoPoll.has = FALSE
          BY DEF NoPoll
        <4> QED
          BY <3>1, <4>2, <4>3, <4>4 DEF Agrees
      <3>2. CASE reg[h].st = "in"
        <4> DEFINE kind == IF reg[h].pause = "no" THEN "row" ELSE "paused"
        <4>1. Expected(h) = [k |-> kind, ver |-> reg[h].ver]
          BY <3>2 DEF Expected
        <4>2. data'[h] = [k |-> kind, ver |-> reg[h].ver]
          BY <2>2, <4>1
        <4> HIDE DEF kind
        <4>3. data'[h].k = kind /\ data'[h].ver = reg[h].ver
          BY <4>2
        <4> QED
          BY <3>2, <4>3 DEF Agrees, kind
      <3> QED
        BY <3>1, <3>2
    <2> QED
      BY <1>3, <2>1, <2>3 DEF RowsOk, FleetAgrees
  <1> QED
    BY <1>3, <1>4, <1>5, <1>6, <1>7, <1>8 DEF Building

LEMMA QuietPollsStep ==
  ASSUME QuietPolls, [Next]_vars, [Quiet]_vars
  PROVE  QuietPolls' /\ (PollEnd => PollAgrees') /\ (PollAgrees => PollAgrees')
  <1>1. reg' = reg /\ op' = op /\ FleetInv' /\ NoOps'
    BY QuietKinds, FleetNextInv DEF QuietPolls, NoOps
  <1>2. Live' = Live
    BY <1>1, RegistryStands
  <1>3. CASE Polling
    BY <1>1, <1>3, QuietPolling DEF QuietPolls
  <1>4. ASSUME UNCHANGED <<poll, poller>>
        PROVE  PollsOk' /\ (PollAgrees => PollAgrees')
    BY <1>1, <1>2, <1>4 DEF QuietPolls, PollsOk, PollAgrees
  <1>5. ASSUME NEW t \in Threads, Building(t) PROVE UNCHANGED <<poll, poller>>
    BY <1>5 DEF Building, Enter, Load, FetchOne, Refresh, Store, pollVars
  <1>6. PollEnd => Polling
    BY DEF Polling
  <1> QED
    BY <1>1, <1>3, <1>4, <1>5, <1>6, QuietKinds DEF QuietPolls

LEMMA QuietBuildsStep ==
  ASSUME QuietBuilds, [Next]_vars, [Quiet]_vars
  PROVE  /\ QuietBuilds' /\ (FleetAgrees => FleetAgrees')
         /\ (\E t \in Threads : Store(t)) => FleetAgrees'
  <1>1. reg' = reg /\ QuietPolls' /\ PollAgrees'
    BY QuietKinds, QuietPollsStep DEF QuietBuilds, QuietPolls
  <1>2. Live' = Live /\ \A h : Expected(h)' = Expected(h)
    BY <1>1, RegistryStands
  <1>3. data' = data => (FleetAgrees => FleetAgrees')
    BY <1>1 DEF FleetAgrees, Agrees, QuietBuilds, PollAgrees, Live, NoPoll
  <1>4. ASSUME UNCHANGED <<data, lock, build>> PROVE RowsOk' /\ \A t \in Threads : ~Store(t)
    <2>1. RowsOk'
      BY <1>2, <1>4 DEF QuietBuilds, RowsOk
    <2>2. ASSUME NEW t \in Threads, Store(t) PROVE FALSE
      BY <1>4, <2>2, Constants DEF Store
    <2> QED
      BY <2>1, <2>2
  <1>5. CASE Polling
    BY <1>1, <1>3, <1>4, <1>5, QuietPolling DEF QuietBuilds
  <1>6. ASSUME NEW t \in Threads, Building(t)
        PROVE  RowsOk' /\ (data' = data \/ FleetAgrees')
    BY <1>1, <1>6, QuietBuilding
  <1>7. ASSUME NEW t \in Threads, Store(t) PROVE FleetAgrees'
    BY <1>1, <1>7, QuietBuilding DEF Building
  <1> QED
    BY <1>1, <1>3, <1>4, <1>5, <1>6, <1>7, QuietKinds DEF QuietBuilds, QuietPolls

Storing == \E t \in Threads : Store(t)

(* From any moment at which no request and no poll is under way, for as    *)
(* long as nobody edits and no window ends: every poll that ends leaves    *)
(* the poll cache as the registry has it; from then on, and once the build *)
(* lock has been free, every snapshot stored agrees with the registry; and *)
(* once it agrees it does so for good.  What EventuallyConsistent adds is  *)
(* that polls end and snapshots are stored.                                *)
THEOREM QuietFleetAgrees ==
    Spec => [](Calm /\ [][Quiet]_vars =>
                 /\ [][PollEnd => PollAgrees']_vars
                 /\ [](PollAgrees /\ lock = Nobody =>
                         /\ [][Storing => FleetAgrees']_vars
                         /\ FleetAgrees => []FleetAgrees))
  <1>1. FleetInv /\ Calm => QuietPolls
    BY DEF Calm, QuietPolls, PollsOk, Asleep
  <1>2. QuietPolls /\ [Next]_vars /\ [Quiet]_vars => QuietPolls' /\ [PollEnd => PollAgrees']_vars
    BY QuietPollsStep
  <1>3. QuietPolls /\ PollAgrees /\ lock = Nobody => QuietBuilds
    BY DEF QuietBuilds, RowsOk
  <1>4. QuietBuilds /\ [Next]_vars /\ [Quiet]_vars
        => /\ QuietBuilds' /\ [Storing => FleetAgrees']_vars
           /\ FleetAgrees => FleetAgrees'
    BY QuietBuildsStep DEF Storing
  <1> QED
    BY <1>1, <1>2, <1>3, <1>4, FleetInitInv, FleetNextInv, PTL DEF Spec

=============================================================================
