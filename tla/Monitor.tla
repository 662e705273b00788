------------------------------- MODULE Monitor -------------------------------
(***************************************************************************)
(* The notifier: the monitor thread of app.py that turns fleet snapshots   *)
(* into 'firing' / 'changed' / 'recovered' events, together with the       *)
(* acknowledgements that quiet it, against hosts that fail, hide their     *)
(* conditions behind an outage, are paused and are deleted.                *)
(*                                                                         *)
(* Time is measured in ticks.  The code stores absolute times (last_fire,  *)
(* an ack's `until`) and compares them with time.time(); the model keeps   *)
(* the distance to the deadline instead, which is what those comparisons   *)
(* look at, so time itself is unbounded.                                   *)
(***************************************************************************)
EXTENDS Integers, FiniteSets

CONSTANTS
    Hosts,          \* host ids; an id is never reused (uuid)
    SubKeys,        \* conditions a reachable host can report about itself
    Unreachable,    \* the condition key of a host that does not answer
    Details,        \* condition texts
    DownText,       \* the text of the Unreachable condition
    NoText,         \* no condition / nothing said
    FLAP_CYCLES,    \* cycles a condition must persist before it fires
    NOTIFY_COOLDOWN,\* ticks between two messages about one (host, condition)
    MaxSnooze,      \* longest snooze of an ack, in ticks
    MaxRestarts     \* bound on controller restarts

ASSUME MonitorAssumption ==
    /\ NoText \notin Details
    /\ DownText \in Details
    /\ Unreachable \notin SubKeys
    /\ FLAP_CYCLES \in Nat \ {0}
    /\ NOTIFY_COOLDOWN \in Nat \ {0}
    /\ MaxSnooze \in Nat
    /\ MaxRestarts \in Nat

Keys == SubKeys \cup {Unreachable}
PK   == Hosts \X Keys               \* what the notifier tracks: (host, key)
Text == Details \cup {NoText}
Forever == -1                       \* an ack without `until`
Left == Forever..MaxSnooze          \* what is left of an ack; 0: lapsed

VARIABLES
    registry,   \* nodes.json: the enrolled hosts
    paused,     \* the enrolled hosts with `disabled` set
    reach,      \* how each host answers a poll: "up", "down" or "await"
    fault,      \* the condition text each host would report if reachable
    acks,       \* acks.json: the acked (host, key) pairs
    left,       \* what is left of each ack
    ackReq,     \* acks_add requests between _find_node and the write
    delReq,     \* node_delete requests between the registry and the ack write
    pc,         \* the monitor thread: "idle" or "built" (results in hand)
    results,    \* the fan-out it holds: [known, paused, text]
    streak, active, cool, detail, seeded,   \* _mon
    restarts    \* controller restarts so far

mon  == <<streak, active, cool, detail, seeded>>
env  == <<registry, paused, reach, fault>>
vars == <<env, acks, left, ackReq, delReq, pc, results, mon, restarts>>
-----------------------------------------------------------------------------
(* Conditions *)

\* Mutant: a paused host still shows its conditions.
host_conditions_PauseIgnored(h, k) ==
    IF reach[h] = "await" THEN NoText
    ELSE IF reach[h] = "down"
         THEN IF k = Unreachable THEN DownText ELSE NoText
         ELSE IF k = Unreachable THEN NoText ELSE fault[h][k]

\* host_conditions: a paused host and one awaiting its first poll have none, a
\* host that does not answer has only Unreachable, whatever else is wrong.
host_conditions(h, k) ==
    IF h \in paused \/ reach[h] = "await" THEN NoText
    ELSE IF reach[h] = "down"
         THEN IF k = Unreachable THEN DownText ELSE NoText
         ELSE IF k = Unreachable THEN NoText ELSE fault[h][k]

\* What a fan-out started now would find for an enrolled host.
Observed(pk) == IF pk[1] \in registry THEN host_conditions(pk[1], pk[2]) ELSE NoText

NoResults == [known |-> {}, paused |-> {}, text |-> [pk \in PK |-> NoText]]

Init ==
    /\ registry = Hosts
    /\ paused = {}
    /\ reach = [h \in Hosts |-> "up"]
    /\ fault \in [Hosts -> [SubKeys -> Text]]
    /\ acks = {}
    /\ left = [pk \in PK |-> 0]
    /\ ackReq = {}
    /\ delReq = {}
    /\ pc = "idle"
    /\ results = NoResults
    /\ streak = [pk \in PK |-> 0]
    /\ active = {}
    /\ cool = [pk \in PK |-> 0]
    /\ detail = [pk \in PK |-> NoText]
    /\ seeded = FALSE
    /\ restarts = 0
-----------------------------------------------------------------------------
(* The monitor thread *)

\* _refresh_fleet() and snapshot_conditions: every registered host is fetched,
\* a paused one becomes a disabled envelope.
BuildFleet ==
    /\ pc = "idle"
    /\ results' = [known |-> registry, paused |-> paused,
                   text |-> [pk \in PK |-> Observed(pk)]]
    /\ pc' = "built"
    /\ UNCHANGED <<env, acks, left, ackReq, delReq, mon, restarts>>

allPresent == {pk \in PK : results.text[pk] # NoText}

\* Mutant: only lapsed snoozes are pruned.
prune_acks_SnoozeOnly == {pk \in acks : left[pk] # 0}

\* prune_acks: an ack goes when its condition is absent from the snapshot or
\* its snooze has lapsed.
prune_acks == {pk \in acks : pk \in allPresent /\ left[pk] # 0}

acked   == allPresent \cap prune_acks
present == allPresent \ acked

\* Mutant: an acked pair is not dropped, so it leaves `present` as a recovery.
gone_pk_AckForgotten(pk) == pk[1] \in results.paused \/ pk[1] \notin results.known

\* Pairs dropped from tracking in silence: paused host, unknown host, acked.
gone_pk(pk) == \/ pk[1] \in results.paused
               \/ pk[1] \notin results.known
               \/ pk \in acked

\* _mon after the silent drop, and the streaks after this snapshot.  A streak
\* is only ever compared with FLAP_CYCLES, so it saturates there.
kept == {pk \in active : ~gone_pk(pk)}

\* Mutant: a recovery forgets last_fire as well.
keptCool_Recovered == [pk \in PK |-> IF pk \in active \ (kept \cap present) THEN 0 ELSE cool[pk]]

keptCool == [pk \in PK |-> IF pk \in active \ kept THEN 0 ELSE cool[pk]]
keptDetail == [pk \in PK |-> IF pk \in active \ kept THEN NoText ELSE detail[pk]]
advance(n) == IF n < FLAP_CYCLES THEN n + 1 ELSE n

\* Mutant: a streak survives a cycle without the condition.
newStreak_NoReset == [pk \in PK |-> IF pk \in present THEN advance(streak[pk]) ELSE streak[pk]]

newStreak == [pk \in PK |-> IF pk \in present THEN advance(streak[pk]) ELSE 0]

\* Mutant: a condition that is already firing never speaks again.
fire_NewOnly == {pk \in present : /\ pk \notin kept
                                  /\ newStreak[pk] >= FLAP_CYCLES
                                  /\ keptCool[pk] = 0}

\* New or saying something new, stable, and out of its cooldown.
fire == {pk \in present :
            /\ pk \notin kept \/ results.text[pk] # keptDetail[pk]
            /\ newStreak[pk] >= FLAP_CYCLES
            /\ keptCool[pk] = 0}

recover == {pk \in kept : pk \notin present}

\* Mutant: the text last observed replaces the text last sent.
newDetail_Observed == [pk \in PK |-> IF pk \in fire \cup (kept \cap present) THEN results.text[pk]
                                     ELSE IF pk \in recover THEN NoText ELSE keptDetail[pk]]

\* The text last sent: set by a fire, gone with a recovery.
newDetail == [pk \in PK |-> IF pk \in fire THEN results.text[pk]
                            ELSE IF pk \in recover THEN NoText ELSE keptDetail[pk]]

\* The first cycle after a start adopts the current state and says nothing.
Seed ==
    /\ pc = "built" /\ ~seeded
    /\ acks' = prune_acks
    /\ left' = [pk \in PK |-> IF pk \in prune_acks THEN left[pk] ELSE 0]
    /\ streak' = newStreak
    /\ active' = present
    /\ cool' = [pk \in PK |-> IF pk \in present THEN NOTIFY_COOLDOWN ELSE keptCool[pk]]
    /\ detail' = [pk \in PK |-> IF pk \in present THEN results.text[pk] ELSE keptDetail[pk]]
    /\ seeded' = TRUE
    /\ pc' = "idle"
    /\ results' = NoResults
    /\ UNCHANGED <<env, ackReq, delReq, restarts>>

\* Every later cycle: prune the acks, drop what is gone, advance the streaks,
\* fire, recover.
MonitorCycle ==
    /\ pc = "built" /\ seeded
    /\ acks' = prune_acks
    /\ left' = [pk \in PK |-> IF pk \in prune_acks THEN left[pk] ELSE 0]
    /\ streak' = newStreak
    /\ active' = (kept \cup fire) \ recover
    /\ cool' = [pk \in PK |-> IF pk \in fire THEN NOTIFY_COOLDOWN ELSE keptCool[pk]]
    /\ detail' = newDetail
    /\ pc' = "idle"
    /\ results' = NoResults
    /\ UNCHANGED <<env, ackReq, delReq, seeded, restarts>>
-----------------------------------------------------------------------------
(* Requests *)

\* acks_add finds the host, then writes the record under _ACK_LOCK.
AcksAddFind(pk) ==
    /\ pk[1] \in registry
    /\ ackReq = {}
    /\ ackReq' = {pk}
    /\ UNCHANGED <<env, acks, left, delReq, pc, results, mon, restarts>>

AcksAddWrite(pk, until) ==
    /\ pk \in ackReq
    /\ ackReq' = {}
    /\ acks' = acks \cup {pk}
    /\ left' = [left EXCEPT ![pk] = until]
    /\ UNCHANGED <<env, delReq, pc, results, mon, restarts>>

AcksDelete(pk) ==
    /\ pk[1] \in registry
    /\ pk \in acks
    /\ acks' = acks \ {pk}
    /\ left' = [left EXCEPT ![pk] = 0]
    /\ UNCHANGED <<env, ackReq, delReq, pc, results, mon, restarts>>

\* node_delete removes the record under _REG_LOCK, later the host's acks under
\* _ACK_LOCK.
NodeDelete(h) ==
    /\ h \in registry
    /\ registry' = registry \ {h}
    /\ paused' = paused \ {h}
    /\ delReq' = delReq \cup {h}
    /\ UNCHANGED <<reach, fault, acks, left, ackReq, pc, results, mon, restarts>>

NodeDeleteAcks(h) ==
    /\ h \in delReq
    /\ delReq' = delReq \ {h}
    /\ acks' = {pk \in acks : pk[1] # h}
    /\ left' = [pk \in PK |-> IF pk[1] = h THEN 0 ELSE left[pk]]
    /\ UNCHANGED <<env, ackReq, pc, results, mon, restarts>>

\* node_update with `disabled`.
SetDisabled(h, on) ==
    /\ h \in registry
    /\ (h \in paused) # on
    /\ paused' = IF on THEN paused \cup {h} ELSE paused \ {h}
    /\ UNCHANGED <<registry, reach, fault, acks, left, ackReq, delReq, pc, results,
                   mon, restarts>>
-----------------------------------------------------------------------------
(* The hosts, the clock and the process *)

SetFault(h, k, t) ==
    /\ h \in registry
    /\ fault[h][k] # t
    /\ fault' = [fault EXCEPT ![h][k] = t]
    /\ UNCHANGED <<registry, paused, reach, acks, left, ackReq, delReq, pc, results,
                   mon, restarts>>

SetReach(h, r) ==
    /\ h \in registry
    /\ reach[h] # r
    /\ reach' = [reach EXCEPT ![h] = r]
    /\ UNCHANGED <<registry, paused, fault, acks, left, ackReq, delReq, pc, results,
                   mon, restarts>>

Less(n) == IF n > 0 THEN n - 1 ELSE n

Tick ==
    /\ left' = [pk \in PK |-> Less(left[pk])]
    /\ cool' = [pk \in PK |-> Less(cool[pk])]
    /\ UNCHANGED <<env, acks, ackReq, delReq, pc, results, streak, active, detail,
                   seeded, restarts>>

\* A restart: _mon and the event ring are memory, acks and registry are files;
\* requests in flight die with the process.
Restart ==
    /\ restarts < MaxRestarts
    /\ restarts' = restarts + 1
    /\ pc' = "idle"
    /\ results' = NoResults
    /\ streak' = [pk \in PK |-> 0]
    /\ active' = {}
    /\ cool' = [pk \in PK |-> 0]
    /\ detail' = [pk \in PK |-> NoText]
    /\ seeded' = FALSE
    /\ ackReq' = {}
    /\ delReq' = {}
    /\ UNCHANGED <<env, acks, left>>

MonitorStep == Seed \/ MonitorCycle

Requests ==
    \/ \E pk \in PK : \/ AcksAddFind(pk)
                      \/ \E until \in Left \ {0} : AcksAddWrite(pk, until)
                      \/ AcksDelete(pk)
    \/ \E h \in Hosts : \/ NodeDelete(h)
                        \/ NodeDeleteAcks(h)
                        \/ \E on \in BOOLEAN : SetDisabled(h, on)

World ==
    \E h \in Hosts : \/ \E k \in SubKeys, t \in Text : SetFault(h, k, t)
                     \/ \E r \in {"up", "down", "await"} : SetReach(h, r)

Next == BuildFleet \/ MonitorStep \/ Requests \/ World \/ Tick \/ Restart

Spec == Init /\ [][Next]_vars

\* The monitor thread loops for ever (every exception in it is caught), time
\* passes, and node_delete, once past the registry, runs to its end.
Fairness ==
    /\ WF_vars(BuildFleet)
    /\ WF_vars(MonitorStep)
    /\ WF_vars(Tick)
    /\ \A h \in Hosts : WF_vars(NodeDeleteAcks(h))

FairSpec == Spec /\ Fairness
-----------------------------------------------------------------------------
(* Properties *)

\* Every variable has its type; a pair the notifier tracks as active always
\* carries a text, and a cycle's snapshot never holds a condition of a host that
\* it lists as paused or does not know (app.py _mon, _monitor_cycle).
TypeOK ==
    /\ registry \subseteq Hosts
    /\ paused \subseteq registry
    /\ reach \in [Hosts -> {"up", "down", "await"}]
    /\ fault \in [Hosts -> [SubKeys -> Text]]
    /\ acks \subseteq PK
    /\ left \in [PK -> Left]
    /\ ackReq \subseteq PK
    /\ delReq \subseteq Hosts
    /\ pc \in {"idle", "built"}
    /\ results \in [known : SUBSET Hosts, paused : SUBSET Hosts, text : [PK -> Text]]
    /\ streak \in [PK -> 0..FLAP_CYCLES]
    /\ active \subseteq PK
    /\ cool \in [PK -> 0..NOTIFY_COOLDOWN]
    /\ detail \in [PK -> Text]
    /\ seeded \in BOOLEAN
    /\ restarts \in 0..MaxRestarts
    /\ \A pk \in PK : results.text[pk] # NoText => pk[1] \in results.known \ results.paused
    /\ \A pk \in active : detail[pk] # NoText

\* Once a condition stands still (its text, or its absence, no longer changes
\* and nobody acks it) the notifier catches up with it: it ends up tracked as
\* active under exactly that text, or not tracked at all.  This is what the
\* comment over _mon promises for a text that changes during the cooldown.
NotifierCatchesUp ==
    \A pk \in PK, t \in Text :
        <>[](Observed(pk) = t /\ pk \notin acks)
            => <>[](IF t = NoText THEN pk \notin active
                                  ELSE pk \in active /\ detail[pk] = t)

\* No acknowledgement outlives its host: an ack written by a request that looked
\* the host up before it was deleted is still gone in the end.
OrphanAcksPruned ==
    \A h \in Hosts : <>[](h \notin registry) => <>[](\A pk \in acks : pk[1] # h)
=============================================================================
