------------------------------- MODULE Delivery ------------------------------
(***************************************************************************)
(* From the notifier's events to the webhooks: _dispatch, send_webhook and *)
(* monitoring.hook_wants, while administrators change the webhooks and the *)
(* tags of hosts.  The events come from a cycle of Monitor, reduced to     *)
(* what EventsAreNews establishes of it: a pair that was not told fires, a *)
(* told one changes or recovers, or is dropped in silence (acknowledged,   *)
(* paused, deleted).  A post that fails is printed and never repeated.     *)
(***************************************************************************)
EXTENDS Naturals, FiniteSets

CONSTANTS Hooks, Pairs, Tags,    \* a pair is a condition of a host
          MaxSaves               \* edits of webhooks or tags

ASSUME DeliveryAssumption == MaxSaves \in Nat

\* monitoring.SEVERITY, without the middle: 0 critical, 1 info; 2 is no condition
Severity == {0, 1}
Clear == 2
HookConf == [min_severity : Severity, tags : SUBSET Tags]
Absent == [min_severity |-> Clear, tags |-> {}]

VARIABLES told,                  \* _mon: pair -> severity as told, or Clear
          hooksOn, hooks,       \* the notifications section of the config
          hostTags,              \* pair -> tags of its host
          batch,                 \* the dispatch under way
          saves,
          belief,                \* history: what a hook's readers take to stand
          excused                \* history: they may be wrong about the pair
deliveryVars == <<told, hooksOn, hooks, hostTags, batch, saves, belief, excused>>

NoBatch == [events |-> {}, hooks |-> {}, cfg |-> [h \in Hooks |-> Absent],
            tags |-> [p \in Pairs |-> {}]]
Event == [pair : Pairs, kind : {"firing", "changed", "recovered"}, severity : Severity]

DeliveryTypeOK ==
  /\ told \in [Pairs -> Severity \cup {Clear}]
  /\ hooksOn \in BOOLEAN /\ hooks \in [Hooks -> HookConf \cup {Absent}]
  /\ hostTags \in [Pairs -> SUBSET Tags]
  /\ batch.events \subseteq Event /\ batch.hooks \subseteq Hooks
  /\ saves \in 0 .. MaxSaves
  /\ belief \in [Hooks -> [Pairs -> Severity \cup {Clear}]]
  /\ excused \in [Hooks -> [Pairs -> BOOLEAN]]

DeliveryInit ==
  /\ told = [p \in Pairs |-> Clear]
  /\ hooksOn = TRUE /\ hooks \in [Hooks -> HookConf]
  /\ hostTags = [p \in Pairs |-> {}]
  /\ batch = NoBatch /\ saves = 0
  /\ belief = [h \in Hooks |-> [p \in Pairs |-> Clear]]
  /\ excused = [h \in Hooks |-> [p \in Pairs |-> FALSE]]

-----------------------------------------------------------------------------
kindOf(was, is) == IF is = Clear THEN "recovered" ELSE IF was = Clear THEN "firing" ELSE "changed"
eventOf(p, was, is) ==
  [pair |-> p, kind |-> kindOf(was, is), severity |-> IF is = Clear THEN 1 ELSE is]

AboveFloor_Recovered(hook, e) == e.severity <= hook.min_severity
AboveFloor(hook, e) == e.kind = "recovered" \/ e.severity <= hook.min_severity
Routed(hook, tags) == hook.tags = {} \/ hook.tags \cap tags # {}
hook_wants(hook, e, tags) == AboveFloor(hook, e) /\ Routed(hook, tags)

\* the end of _monitor_cycle, and _dispatch up to its loop: the webhooks are
\* read once, the tags are those of the fan-out
NotifierCycle ==
  /\ batch = NoBatch
  /\ \E new \in [Pairs -> Severity \cup {Clear}], silent \in SUBSET Pairs :
       LET news == {p \in Pairs \ silent : told[p] # new[p]}
           events == {eventOf(p, told[p], new[p]) : p \in news}
           present == {h \in Hooks : hooks[h] # Absent}
       IN  /\ \A p \in silent : told[p] # Clear /\ new[p] = Clear
           /\ told' = new
           /\ batch' = IF ~hooksOn \/ events = {} \/ present = {} THEN NoBatch
                       ELSE [events |-> events, hooks |-> present, cfg |-> hooks,
                             tags |-> hostTags]
           /\ excused' = [h \in Hooks |-> [p \in Pairs |->
                            excused[h][p] \/ (p \in silent /\ belief[h][p] # Clear)]]
  /\ UNCHANGED <<hooksOn, hooks, hostTags, saves, belief>>

Wanted(h) == {e \in batch.events : hook_wants(batch.cfg[h], e, batch.tags[e.pair])}

Rest(h) == LET rest == batch.hooks \ {h}
            IN  IF rest = {} THEN NoBatch ELSE [batch EXCEPT !.hooks = rest]

\* send_webhook: one digest per hook, delivered or lost
Post(h, ok) ==
  LET about == {e.pair : e \in Wanted(h)}
      heard(p) == CHOOSE e \in Wanted(h) : e.pair = p
  IN  /\ h \in batch.hooks
      /\ batch' = Rest(h)
      /\ belief' = [belief EXCEPT ![h] = [p \in Pairs |->
                      IF ~ok \/ p \notin about THEN @[p]
                      ELSE IF heard(p).kind = "recovered" THEN Clear ELSE heard(p).severity]]
      /\ excused' = [excused EXCEPT ![h] = [p \in Pairs |->
                      IF p \in about THEN ~ok ELSE @[p]]]
      /\ UNCHANGED <<told, hooksOn, hooks, hostTags, saves>>

\* notifications_save replaces the whole section
notifications_save ==
  /\ saves < MaxSaves /\ saves' = saves + 1
  /\ \E on \in BOOLEAN, new \in [Hooks -> HookConf \cup {Absent}] :
       /\ hooksOn' = on /\ hooks' = new
       /\ excused' = [h \in Hooks |-> [p \in Pairs |->
                        excused[h][p] \/ on # hooksOn \/ new[h] # hooks[h]]]
  /\ UNCHANGED <<told, hostTags, batch, belief>>

\* node_update with new tags
SetTags(p) ==
  /\ saves < MaxSaves /\ saves' = saves + 1
  /\ \E tags \in SUBSET Tags : hostTags' = [hostTags EXCEPT ![p] = tags]
  /\ excused' = [h \in Hooks |-> [excused[h] EXCEPT ![p] = TRUE]]
  /\ UNCHANGED <<told, hooksOn, hooks, batch, belief>>

\* a restart drops the batch, and the first cycle adopts what it sees in silence
DeliveryRestart ==
  /\ told' \in [Pairs -> Severity \cup {Clear}]
  /\ batch' = NoBatch
  /\ excused' = [h \in Hooks |-> [p \in Pairs |-> TRUE]]
  /\ UNCHANGED <<hooksOn, hooks, hostTags, saves, belief>>

DeliveryNext ==
  \/ NotifierCycle \/ notifications_save \/ DeliveryRestart
  \/ \E h \in Hooks, ok \in BOOLEAN : Post(h, ok)
  \/ \E p \in Pairs : SetTags(p)

DeliverySpec == DeliveryInit /\ [][DeliveryNext]_deliveryVars

-----------------------------------------------------------------------------
(* Between two cycles the readers of a webhook take to stand what stands:  *)
(* nobody who was told of a condition misses its all-clear, whatever its   *)
(* severity has become, and what is at or above a hook's floor has reached *)
(* it.  Excused are a failed post, a change of the hook or of the host's   *)
(* tags, a silent drop and a restart, each until the next message.         *)
HooksKeepUp ==
  batch = NoBatch =>
    \A h \in Hooks, p \in Pairs :
      (hooksOn /\ hooks[h] # Absent /\ Routed(hooks[h], hostTags[p]) /\ ~excused[h][p]) =>
        /\ belief[h][p] # Clear => told[p] # Clear
        /\ told[p] <= hooks[h].min_severity => belief[h][p] # Clear
=============================================================================
