---------------------------- MODULE MonitorProofs ----------------------------
(***************************************************************************)
(* Theorems about Monitor and MonitorHistory, for every set of hosts, keys *)
(* and texts and every cooldown, debounce and snooze length.               *)
(***************************************************************************)
EXTENDS MonitorHistory, TLAPS

-----------------------------------------------------------------------------
(* Type correctness of Monitor *)

\* A condition found by host_conditions is a text, and a paused host has none.
LEMMA ObservedType ==
    ASSUME TypeOK, NEW pk \in PK
    PROVE  /\ Observed(pk) \in Text
           /\ Observed(pk) # NoText => pk[1] \in registry \ paused
<1>1. pk[1] \in Hosts /\ pk[2] \in Keys
  BY DEF PK
<1>2. pk[2] # Unreachable => fault[pk[1]][pk[2]] \in Text
  BY <1>1 DEF TypeOK, Keys
<1>3. NoText \in Text /\ DownText \in Text
  BY MonitorAssumption DEF Text
<1>4. reach[pk[1]] \in {"up", "down", "await"}
  BY <1>1 DEF TypeOK
<1> QED
  BY <1>2, <1>3, <1>4 DEF Observed, host_conditions

\* The first states of Monitor are well typed.
LEMMA TypeInit == Init => TypeOK
<1> SUFFICES ASSUME Init PROVE TypeOK
  OBVIOUS
<1>1. 0 \in Left /\ 0 \in 0..FLAP_CYCLES /\ 0 \in 0..NOTIFY_COOLDOWN
      /\ 0 \in 0..MaxRestarts
  BY MonitorAssumption DEF Left, Forever
<1>2. NoText \in Text
  BY DEF Text
<1> QED
  BY <1>1, <1>2 DEF Init, TypeOK, NoResults

\* The monitor's intermediate values are well typed, and what a cycle fires is
\* present in a snapshot with a text.
LEMMA CycleTypes ==
    ASSUME TypeOK
    PROVE  /\ present \subseteq PK /\ kept \subseteq active /\ prune_acks \subseteq acks
           /\ \A pk \in present : results.text[pk] \in Details
           /\ keptCool \in [PK -> 0..NOTIFY_COOLDOWN]
           /\ keptDetail \in [PK -> Text]
           /\ \A pk \in kept : keptDetail[pk] # NoText
           /\ newStreak \in [PK -> 0..FLAP_CYCLES]
<1>1. present \subseteq PK /\ kept \subseteq active /\ prune_acks \subseteq acks
  BY DEF present, allPresent, kept, prune_acks
<1>2. \A pk \in present : results.text[pk] \in Details
  BY DEF present, allPresent, TypeOK, Text
<1>3. keptCool \in [PK -> 0..NOTIFY_COOLDOWN]
  BY MonitorAssumption DEF keptCool, TypeOK
<1>4. keptDetail \in [PK -> Text]
  BY DEF keptDetail, TypeOK, Text
<1>5. \A pk \in kept : keptDetail[pk] # NoText
  BY <1>1 DEF keptDetail, TypeOK
<1>6. \A n \in 0..FLAP_CYCLES : advance(n) \in 0..FLAP_CYCLES
  BY MonitorAssumption DEF advance
<1>7. newStreak \in [PK -> 0..FLAP_CYCLES]
  BY <1>6, MonitorAssumption DEF newStreak, TypeOK
<1> QED
  BY <1>1, <1>2, <1>3, <1>4, <1>5, <1>7

\* Every step of Monitor preserves its types.
LEMMA TypeStep == TypeOK /\ [Next]_vars => TypeOK'
<1> SUFFICES ASSUME TypeOK, [Next]_vars PROVE TypeOK'
  OBVIOUS
<1>1. CASE BuildFleet
  BY <1>1, ObservedType DEF BuildFleet, TypeOK, env, mon
<1>2. CASE Seed
  <2>1. left' \in [PK -> Left]
    BY <1>2, MonitorAssumption DEF Seed, TypeOK, Left, Forever
  <2>2. cool' \in [PK -> 0..NOTIFY_COOLDOWN]
    BY <1>2, CycleTypes, MonitorAssumption DEF Seed
  <2>3. detail' \in [PK -> Text] /\ \A pk \in active' : detail'[pk] # NoText
    BY <1>2, CycleTypes, MonitorAssumption DEF Seed, Text
  <2>4. results' = NoResults /\ NoText \in Text
    BY <1>2 DEF Seed, Text
  <2>5. acks' \subseteq PK /\ active' \subseteq PK /\ streak' \in [PK -> 0..FLAP_CYCLES]
    BY <1>2, CycleTypes DEF Seed, TypeOK
  <2>6. seeded' \in BOOLEAN
    BY <1>2, Zenon DEF Seed
  <2>7. /\ results' \in [known : SUBSET Hosts, paused : SUBSET Hosts, text : [PK -> Text]]
        /\ \A pk \in PK : results'.text[pk] = NoText
    BY <2>4 DEF NoResults
  <2>8. UNCHANGED <<registry, paused, reach, fault, ackReq, delReq, restarts>> /\ pc' = "idle"
    BY <1>2 DEF Seed, env
  <2> QED
    BY <2>1, <2>2, <2>3, <2>5, <2>6, <2>7, <2>8 DEF TypeOK
<1>3. CASE MonitorCycle
  <2>1. left' \in [PK -> Left]
    BY <1>3, MonitorAssumption DEF MonitorCycle, TypeOK, Left, Forever
  <2>2. cool' \in [PK -> 0..NOTIFY_COOLDOWN]
    BY <1>3, CycleTypes, MonitorAssumption DEF MonitorCycle
  <2>3. fire \subseteq present /\ recover \subseteq kept
    BY DEF fire, recover
  <2>4. detail' \in [PK -> Text]
    BY <1>3, <2>3, CycleTypes DEF MonitorCycle, newDetail, Text
  <2>5. \A pk \in active' : detail'[pk] # NoText
    BY <1>3, <2>3, CycleTypes, MonitorAssumption DEF MonitorCycle, newDetail, TypeOK
  <2>6. results' = NoResults /\ NoText \in Text
    BY <1>3 DEF MonitorCycle, Text
  <2>7. acks' \subseteq PK /\ active' \subseteq PK /\ streak' \in [PK -> 0..FLAP_CYCLES]
    BY <1>3, <2>3, CycleTypes DEF MonitorCycle, TypeOK
  <2> QED
    BY <1>3, <2>1, <2>2, <2>4, <2>5, <2>6, <2>7 DEF MonitorCycle, TypeOK, NoResults, env
<1>4. CASE Requests
  <2>1. ASSUME NEW pk \in PK, AcksAddFind(pk) PROVE TypeOK'
    BY <2>1 DEF AcksAddFind, TypeOK, env, mon
  <2>2. ASSUME NEW pk \in PK, NEW until \in Left \ {0}, AcksAddWrite(pk, until) PROVE TypeOK'
    BY <2>2 DEF AcksAddWrite, TypeOK, env, mon
  <2>3. ASSUME NEW pk \in PK, AcksDelete(pk) PROVE TypeOK'
    <3>1. 0 \in Left
      BY MonitorAssumption DEF Left, Forever
    <3> QED
      BY <2>3, <3>1 DEF AcksDelete, TypeOK, env, mon
  <2>4. ASSUME NEW h \in Hosts, NodeDelete(h) PROVE TypeOK'
    BY <2>4 DEF NodeDelete, TypeOK, mon
  <2>5. ASSUME NEW h \in Hosts, NodeDeleteAcks(h) PROVE TypeOK'
    <3>1. 0 \in Left
      BY MonitorAssumption DEF Left, Forever
    <3> QED
      BY <2>5, <3>1 DEF NodeDeleteAcks, TypeOK, env, mon
  <2>6. ASSUME NEW h \in Hosts, NEW on \in BOOLEAN, SetDisabled(h, on) PROVE TypeOK'
    BY <2>6 DEF SetDisabled, TypeOK, mon
  <2> QED
    BY <1>4, <2>1, <2>2, <2>3, <2>4, <2>5, <2>6 DEF Requests
<1>5. CASE World
  <2>1. ASSUME NEW h \in Hosts, NEW k \in SubKeys, NEW t \in Text, SetFault(h, k, t)
        PROVE  TypeOK'
    BY <2>1 DEF SetFault, TypeOK, mon
  <2>2. ASSUME NEW h \in Hosts, NEW r \in {"up", "down", "await"}, SetReach(h, r)
        PROVE  TypeOK'
    BY <2>2 DEF SetReach, TypeOK, mon
  <2> QED
    BY <1>5, <2>1, <2>2 DEF World
<1>6. CASE Tick
  <2>1. \A n \in Left : Less(n) \in Left
    BY MonitorAssumption DEF Left, Forever, Less
  <2>2. \A n \in 0..NOTIFY_COOLDOWN : Less(n) \in 0..NOTIFY_COOLDOWN
    BY MonitorAssumption DEF Less
  <2> QED
    BY <1>6, <2>1, <2>2 DEF Tick, TypeOK, env
<1>7. CASE Restart
  <2>1. 0 \in 0..FLAP_CYCLES /\ 0 \in 0..NOTIFY_COOLDOWN /\ NoText \in Text
        /\ restarts' \in 0..MaxRestarts
    BY <1>7, MonitorAssumption DEF Restart, TypeOK, Text
  <2> QED
    BY <1>7, <2>1 DEF Restart, TypeOK, NoResults, env
<1>8. CASE UNCHANGED vars
  BY <1>8 DEF vars, TypeOK, env, mon
<1> QED
  BY <1>1, <1>2, <1>3, <1>4, <1>5, <1>6, <1>7, <1>8 DEF Next, MonitorStep

\* The notifier's state keeps its types, a tracked pair always has a text, and
\* no snapshot shows a condition of a paused or unknown host.
THEOREM TypeCorrect == Spec => []TypeOK
<1> QED
  BY TypeInit, TypeStep, PTL DEF Spec
-----------------------------------------------------------------------------
(* What the notifier says: MonitorHistory *)

\* The invariant behind the properties of MonitorHistory.  The ages kept by the
\* history and the timers and counters of _mon mirror each other, except where a
\* silent drop reset the timer; before the first cycle nothing is tracked.
HInv ==
    /\ TypeOK
    /\ told \in [PK -> Text]
    /\ quiet \in [PK -> 0..NOTIFY_COOLDOWN]
    /\ hushed \subseteq PK
    /\ seen \subseteq PK
    /\ ToldMatchesTracked
    /\ \A pk \in PK \ hushed : cool[pk] + quiet[pk] = NOTIFY_COOLDOWN
    /\ \A pk \in PK : streak[pk] > 0 => pk \in seen
    /\ ~seeded => active = {}

\* The events of a cycle are the fired and the recovered pairs; a fired pair's
\* event carries the text of the snapshot.
LEMMA SaidFacts ==
    LET E == fireEvents \cup recoverEvents
    IN  /\ Said(E, {"firing", "changed"}) = fire
        /\ Said(E, {"recovered"}) = recover
        /\ \A pk \in fire : TextOf(E, pk) = results.text[pk]
<1> DEFINE E == fireEvents \cup recoverEvents
<1>1. \A e \in fireEvents : e.pk \in fire /\ e.kind \in {"firing", "changed"}
                            /\ e.text = results.text[e.pk]
  BY DEF fireEvents
<1>2. \A e \in recoverEvents : e.pk \in recover /\ e.kind = "recovered"
  BY DEF recoverEvents
<1>3. ASSUME NEW p \in fire PROVE \E e \in fireEvents : e.pk = p
  <2> DEFINE e == [pk |-> p, text |-> results.text[p],
                   kind |-> IF p \in kept THEN "changed" ELSE "firing"]
  <2>1. e \in fireEvents
    BY DEF fireEvents
  <2>2. e.pk = p
    OBVIOUS
  <2> QED
    BY <2>1, <2>2
<1>4. ASSUME NEW p \in recover PROVE \E e \in recoverEvents : e.pk = p
  <2> DEFINE e == [pk |-> p, text |-> keptDetail[p], kind |-> "recovered"]
  <2>1. e \in recoverEvents
    BY DEF recoverEvents
  <2>2. e.pk = p
    OBVIOUS
  <2> QED
    BY <2>1, <2>2
<1>5. Said(E, {"firing", "changed"}) = fire
  <2>1. {x \in E : x.kind \in {"firing", "changed"}} = fireEvents
    BY <1>1, <1>2
  <2> QED
    BY <1>1, <1>3, <2>1 DEF Said
<1>6. Said(E, {"recovered"}) = recover
  <2>1. {x \in E : x.kind \in {"recovered"}} = recoverEvents
    BY <1>1, <1>2
  <2> QED
    BY <1>2, <1>4, <2>1 DEF Said
<1>7. fire \cap recover = {}
  BY DEF fire, recover
<1>8. ASSUME NEW pk \in fire PROVE TextOf(E, pk) = results.text[pk]
  <2>1. \E e \in E : e.pk = pk
    BY <1>3
  <2>2. \A e \in E : e.pk = pk => e.text = results.text[pk]
    BY <1>1, <1>2, <1>7
  <2> DEFINE c == CHOOSE e \in E : e.pk = pk
  <2>3. c \in E /\ c.pk = pk
    BY <2>1
  <2>4. c.text = results.text[pk]
    BY <2>2, <2>3
  <2> QED
    BY <2>4 DEF TextOf
<1> QED
  BY <1>5, <1>6, <1>8

\* The cycle as the history sees it.
LEMMA HCycleFacts ==
    ASSUME HInv, HCycle
    PROVE  /\ told' = [pk \in PK |-> IF pk \in fire THEN results.text[pk]
                                     ELSE IF pk \in recover THEN NoText ELSE told[pk]]
           /\ quiet' = [pk \in PK |-> IF pk \in fire THEN 0 ELSE quiet[pk]]
           /\ hushed' = (hushed \cup {pk \in active : gone_pk(pk)}) \ fire
           /\ fire \subseteq present /\ recover \subseteq kept \ present
<1>1. fire \subseteq present /\ recover \subseteq kept \ present
  BY DEF fire, recover
<1> QED
  BY <1>1, SaidFacts DEF HCycle

\* The invariant holds initially.
LEMMA HInvInit == HInit => HInv
<1> SUFFICES ASSUME HInit PROVE HInv
  OBVIOUS
<1>1. TypeOK
  BY TypeInit DEF HInit
<1>2. NoText \in Text /\ NOTIFY_COOLDOWN \in 0..NOTIFY_COOLDOWN
  BY MonitorAssumption DEF Text
<1>3. told \in [PK -> Text] /\ quiet \in [PK -> 0..NOTIFY_COOLDOWN] /\ hushed = {}
      /\ seen = {} /\ active = {} /\ \A pk \in PK : streak[pk] = 0
  BY <1>2 DEF HInit, Init
<1>4. ToldMatchesTracked
  BY <1>3 DEF ToldMatchesTracked, HInit
<1>5. \A pk \in PK \ hushed : cool[pk] + quiet[pk] = NOTIFY_COOLDOWN
  BY MonitorAssumption DEF HInit, Init
<1> QED
  BY <1>1, <1>3, <1>4, <1>5 DEF HInv

\* Every step preserves the invariant.
LEMMA HInvStep == HInv /\ [HNext]_hvars => HInv'
<1> SUFFICES ASSUME HInv, [HNext]_hvars PROVE HInv'
  OBVIOUS
<1>0. TypeOK'
  <2>1. [Next]_vars
    BY DEF HNext, HSeed, HCycle, HTick, HRestart, HOther, Next, MonitorStep, hvars
  <2> QED
    BY <2>1, TypeStep DEF HInv
<1>1. CASE HSeed
  <2>1. told' \in [PK -> Text] /\ quiet' \in [PK -> 0..NOTIFY_COOLDOWN]
        /\ hushed' \subseteq PK /\ seen' \subseteq PK
    BY <1>1, CycleTypes, MonitorAssumption DEF HInv, HSeed, Text
  <2>2. active = {} /\ kept = {} /\ keptCool = [pk \in PK |-> cool[pk]]
    BY <1>1 DEF HInv, HSeed, Seed, kept, keptCool
  <2>3. ToldMatchesTracked'
    BY <1>1, CycleTypes, MonitorAssumption DEF HInv, HSeed, Seed, ToldMatchesTracked
  <2>4. (\A pk \in PK \ hushed : cool[pk] + quiet[pk] = NOTIFY_COOLDOWN)'
    BY <1>1, <2>2, MonitorAssumption DEF HInv, HSeed, Seed
  <2>5. (\A pk \in PK : streak[pk] > 0 => pk \in seen)'
    BY <1>1 DEF HInv, HSeed, Seed, newStreak
  <2>6. seeded'
    BY <1>1, Zenon DEF HSeed, Seed
  <2> QED
    BY <1>0, <2>1, <2>3, <2>4, <2>5, <2>6 DEF HInv
<1>2. CASE HCycle
  <2>1. told' \in [PK -> Text] /\ quiet' \in [PK -> 0..NOTIFY_COOLDOWN]
        /\ hushed' \subseteq PK /\ seen' \subseteq PK
    <3>1. present \subseteq PK /\ \A pk \in present : results.text[pk] \in Details
      BY CycleTypes DEF HInv
    <3>2. active \subseteq PK
      BY DEF HInv, TypeOK
    <3>3. 0 \in 0..NOTIFY_COOLDOWN /\ NoText \in Text
      BY MonitorAssumption DEF Text
    <3>4. seen' = present
      BY <1>2 DEF HCycle
    <3> QED
      BY <1>2, <3>1, <3>2, <3>3, <3>4, HCycleFacts DEF HInv, Text
  <2>2. ASSUME NEW pk \in PK
        PROVE  (/\ pk \in active => told[pk] = detail[pk] /\ detail[pk] # NoText
                /\ pk \notin active /\ told[pk] # NoText => pk \in hushed)'
    <3>1. active' = (kept \cup fire) \ recover /\ detail' = newDetail
      BY <1>2 DEF HCycle, MonitorCycle
    <3>2. fire \subseteq present /\ recover \subseteq kept \ present
      BY <1>2, HCycleFacts
    <3>3. \A p \in present : results.text[p] # NoText
      BY DEF present, allPresent
    <3>4. pk \in kept => pk \in active /\ keptDetail[pk] = detail[pk]
      BY DEF kept, keptDetail
    <3>5. pk \in active \ kept => gone_pk(pk)
      BY DEF kept
    <3> QED
      BY <1>2, <3>1, <3>2, <3>3, <3>4, <3>5, HCycleFacts
         DEF HInv, ToldMatchesTracked, newDetail
  <2>3. ASSUME NEW pk \in PK, pk \notin hushed'
        PROVE  (cool[pk] + quiet[pk])' = NOTIFY_COOLDOWN
    <3>1. cool'[pk] = IF pk \in fire THEN NOTIFY_COOLDOWN ELSE keptCool[pk]
      BY <1>2 DEF HCycle, MonitorCycle
    <3>2. quiet'[pk] = IF pk \in fire THEN 0 ELSE quiet[pk]
      BY <1>2, HCycleFacts
    <3>3. pk \notin fire => pk \notin hushed /\ pk \notin active \ kept
      BY <1>2, <2>3, HCycleFacts DEF kept
    <3>4. keptCool[pk] = IF pk \in active \ kept THEN 0 ELSE cool[pk]
      BY DEF keptCool
    <3> QED
      BY <3>1, <3>2, <3>3, <3>4, MonitorAssumption DEF HInv
  <2>4. (\A pk \in PK : streak[pk] > 0 => pk \in seen)'
    BY <1>2 DEF HInv, HCycle, MonitorCycle, newStreak
  <2>5. seeded'
    BY <1>2 DEF HCycle, MonitorCycle
  <2> QED
    BY <1>0, <2>1, <2>2, <2>3, <2>4, <2>5 DEF HInv, ToldMatchesTracked
<1>3. CASE HTick
  <2>1. quiet' \in [PK -> 0..NOTIFY_COOLDOWN]
    BY <1>3, MonitorAssumption DEF HInv, HTick
  <2>2. ASSUME NEW pk \in PK, pk \notin hushed
        PROVE  (cool[pk] + quiet[pk])' = NOTIFY_COOLDOWN
    <3>1. cool[pk] \in 0..NOTIFY_COOLDOWN /\ quiet[pk] \in 0..NOTIFY_COOLDOWN
          /\ cool[pk] + quiet[pk] = NOTIFY_COOLDOWN
      BY <2>2 DEF HInv, TypeOK
    <3>2. cool'[pk] = Less(cool[pk])
      BY <1>3 DEF HTick, Tick
    <3>3. quiet'[pk] = IF quiet[pk] < NOTIFY_COOLDOWN THEN quiet[pk] + 1 ELSE quiet[pk]
      BY <1>3 DEF HTick
    <3> QED
      BY <3>1, <3>2, <3>3, MonitorAssumption DEF Less
  <2>3. UNCHANGED <<streak, active, detail, seeded, told, hushed, seen>>
    BY <1>3 DEF HTick, Tick
  <2> QED
    BY <1>0, <2>1, <2>2, <2>3 DEF HInv, ToldMatchesTracked
<1>4. CASE HRestart
  <2>1. NoText \in Text /\ NOTIFY_COOLDOWN \in 0..NOTIFY_COOLDOWN
    BY MonitorAssumption DEF Text
  <2>2. told' \in [PK -> Text] /\ quiet' \in [PK -> 0..NOTIFY_COOLDOWN]
        /\ hushed' = {} /\ seen' = {} /\ active' = {} /\ \A pk \in PK : streak'[pk] = 0
    BY <1>4, <2>1 DEF HRestart, Restart
  <2>3. ToldMatchesTracked'
    BY <1>4, <2>2 DEF ToldMatchesTracked, HRestart
  <2>4. (\A pk \in PK \ hushed : cool[pk] + quiet[pk] = NOTIFY_COOLDOWN)'
    BY <1>4, MonitorAssumption DEF HRestart, Restart
  <2> QED
    BY <1>0, <2>2, <2>3, <2>4 DEF HInv
<1>5. CASE HOther \/ UNCHANGED hvars
  <2>1. UNCHANGED <<mon, told, quiet, hushed, seen>>
    <3>1. CASE HOther
      BY <3>1 DEF HOther, history, BuildFleet, Requests, World, AcksAddFind, AcksAddWrite,
                  AcksDelete, NodeDelete, NodeDeleteAcks, SetDisabled, SetFault, SetReach
    <3>2. CASE UNCHANGED hvars
      BY <3>2 DEF hvars, vars, history
    <3> QED
      BY <1>5, <3>1, <3>2
  <2> QED
    BY <1>0, <2>1 DEF HInv, ToldMatchesTracked, mon
<1> QED
  BY <1>1, <1>2, <1>3, <1>4, <1>5 DEF HNext

\* The invariant of MonitorHistory.
LEMMA HInvCorrect == HSpec => []HInv
<1> QED
  BY HInvInit, HInvStep, PTL DEF HSpec

\* What the notifier tracks and what it has said agree: _mon['detail'] is the
\* text last notified, whatever the conditions did during the cooldown.
THEOREM ToldCorrect == HSpec => []ToldMatchesTracked
<1>1. HInv => ToldMatchesTracked
  BY DEF HInv
<1> QED
  BY <1>1, HInvCorrect, PTL

\* A step of the history that ends a seeded cycle is HCycle.
LEMMA CycleIsHCycle == HInv /\ [HNext]_hvars /\ CycleStep => HCycle
<1> SUFFICES ASSUME HInv, [HNext]_hvars, CycleStep PROVE HCycle
  OBVIOUS
<1>1. ~HSeed
  BY Zenon DEF HSeed, Seed, CycleStep
<1>2. pc' # pc
  BY DEF CycleStep
<1>3. ~HRestart
  BY Zenon DEF HRestart, Restart, CycleStep
<1>4. ~HTick
  BY <1>2 DEF HTick, Tick
<1>5. ~HOther
  <2>1. pc = "built"
    BY DEF CycleStep
  <2> QED
    BY <1>2, <2>1 DEF HOther, BuildFleet, Requests, World, AcksAddFind, AcksAddWrite,
              AcksDelete, NodeDelete, NodeDeleteAcks, SetDisabled, SetFault, SetReach
<1>6. ~UNCHANGED hvars
  BY <1>2 DEF hvars, vars
<1> QED
  BY <1>1, <1>3, <1>4, <1>5, <1>6 DEF HNext

\* Every event is news: no recovery without a message before it, none for an
\* ack, a pause or a deletion, and no repetition.
THEOREM EventsNews == HSpec => EventsAreNews
<1>1. ASSUME HInv, [HNext]_hvars, CycleStep, NEW e \in events'
      PROVE  /\ e.kind = "recovered" => /\ told[e.pk] = e.text /\ e.text # NoText
                                        /\ results.text[e.pk] = NoText
                                        /\ e.pk[1] \in results.known \ results.paused
             /\ e.kind = "changed" => told[e.pk] \notin {NoText, e.text}
             /\ e.kind = "firing"  => told[e.pk] = NoText \/ e.pk \in hushed
  <2>1. HCycle
    BY <1>1, CycleIsHCycle
  <2>2. e \in fireEvents \cup recoverEvents
    BY <1>1, <2>1 DEF HCycle
  <2>3. \A p \in kept : p \in active /\ ~gone_pk(p) /\ keptDetail[p] = detail[p]
                        /\ told[p] = detail[p] /\ detail[p] # NoText
    BY <1>1 DEF kept, keptDetail, HInv, ToldMatchesTracked, TypeOK
  <2>4. CASE e \in fireEvents
    <3>1. PICK pk \in fire : e = [pk |-> pk, text |-> results.text[pk],
                                  kind |-> IF pk \in kept THEN "changed" ELSE "firing"]
      BY <2>4 DEF fireEvents
    <3>2. pk \in PK /\ pk \in present
          /\ (pk \in kept => results.text[pk] # keptDetail[pk])
      BY DEF fire, present, allPresent
    <3>3. ~gone_pk(pk)
      BY <1>1, <3>2 DEF gone_pk, present, allPresent, HInv, TypeOK
    <3>4. pk \notin kept => pk \notin active
      BY <3>3 DEF kept
    <3>5. pk \notin active => told[pk] = NoText \/ pk \in hushed
      BY <1>1, <3>2 DEF HInv, ToldMatchesTracked
    <3> QED
      BY <3>1, <3>2, <3>4, <3>5, <2>3
  <2>5. CASE e \in recoverEvents
    <3>1. PICK pk \in recover : e = [pk |-> pk, text |-> keptDetail[pk], kind |-> "recovered"]
      BY <2>5 DEF recoverEvents
    <3>2. pk \in kept /\ pk \notin present /\ pk \in PK
      BY <1>1 DEF recover, kept, HInv, TypeOK
    <3>3. pk[1] \in results.known \ results.paused /\ pk \notin acked
      BY <2>3, <3>2 DEF gone_pk
    <3>4. results.text[pk] = NoText
      BY <3>2, <3>3 DEF present, allPresent
    <3> QED
      BY <3>1, <3>2, <3>3, <3>4, <2>3
  <2> QED
    BY <2>2, <2>4, <2>5
<1>2. HInv /\ [HNext]_hvars =>
        [CycleStep =>
          \A e \in events' :
            /\ e.kind = "recovered" => /\ told[e.pk] = e.text /\ e.text # NoText
                                       /\ results.text[e.pk] = NoText
                                       /\ e.pk[1] \in results.known \ results.paused
            /\ e.kind = "changed" => told[e.pk] \notin {NoText, e.text}
            /\ e.kind = "firing"  => told[e.pk] = NoText \/ e.pk \in hushed]_hvars
  BY <1>1
<1> QED
  BY <1>2, HInvCorrect, PTL DEF HSpec, EventsAreNews

\* Two messages about one pair are a cooldown apart unless it was dropped in
\* silence in between.
THEOREM CooldownHolds == HSpec => CooldownKept
<1>1. ASSUME HInv, [HNext]_hvars, CycleStep, NEW pk \in Said(events', {"firing", "changed"})
      PROVE  quiet[pk] = NOTIFY_COOLDOWN \/ pk \in hushed
  <2>1. HCycle
    BY <1>1, CycleIsHCycle
  <2>2. pk \in fire
    BY <1>1, <2>1, SaidFacts DEF HCycle
  <2>3. pk \in PK /\ keptCool[pk] = 0 /\ pk \in present
    BY <2>2 DEF fire, present, allPresent
  <2>4. ~gone_pk(pk)
    BY <1>1, <2>3 DEF gone_pk, present, allPresent, HInv, TypeOK
  <2>5. cool[pk] = 0
    BY <2>3, <2>4 DEF keptCool, kept
  <2>6. quiet[pk] \in 0..NOTIFY_COOLDOWN
    BY <1>1, <2>3 DEF HInv
  <2> QED
    BY <1>1, <2>3, <2>5, <2>6, MonitorAssumption DEF HInv
<1>2. HInv /\ [HNext]_hvars =>
        [CycleStep => \A pk \in Said(events', {"firing", "changed"}) :
                          quiet[pk] = NOTIFY_COOLDOWN \/ pk \in hushed]_hvars
  BY <1>1
<1> QED
  BY <1>2, HInvCorrect, PTL DEF HSpec, CooldownKept

\* With FLAP_CYCLES of at least 2, a condition seen in one cycle only is never
\* reported.
THEOREM DebounceHolds == HSpec => DebouncedAgainstFlapping
<1>1. ASSUME HInv, [HNext]_hvars, CycleStep, FLAP_CYCLES >= 2
      PROVE  Said(events', {"firing", "changed"}) \subseteq seen
  <2>1. HCycle
    BY <1>1, CycleIsHCycle
  <2>2. Said(events', {"firing", "changed"}) = fire
    BY <2>1, SaidFacts DEF HCycle
  <2>3. ASSUME NEW pk \in fire PROVE pk \in seen
    <3>1. pk \in PK /\ pk \in present /\ newStreak[pk] >= FLAP_CYCLES
      BY DEF fire, present, allPresent
    <3>2. newStreak[pk] = advance(streak[pk]) /\ streak[pk] \in 0..FLAP_CYCLES
      BY <1>1, <3>1 DEF newStreak, HInv, TypeOK
    <3>3. streak[pk] > 0
      BY <1>1, <3>1, <3>2, MonitorAssumption DEF advance
    <3> QED
      BY <1>1, <3>1, <3>3 DEF HInv
  <2> QED
    BY <2>2, <2>3
<1>2. HInv /\ [HNext]_hvars =>
        [CycleStep /\ FLAP_CYCLES >= 2 =>
            Said(events', {"firing", "changed"}) \subseteq seen]_hvars
  BY <1>1
<1> QED
  BY <1>2, HInvCorrect, PTL DEF HSpec, DebouncedAgainstFlapping
=============================================================================
