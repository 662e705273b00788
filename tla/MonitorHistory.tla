---------------------------- MODULE MonitorHistory ----------------------------
(***************************************************************************)
(* Monitor with the record of what it said: the events of the last cycle,  *)
(* and history variables that follow those events on their own, without    *)
(* looking at the timers and counters of _mon.  The properties compare the *)
(* two.                                                                    *)
(***************************************************************************)
EXTENDS Monitor

VARIABLES
    events,     \* what the last cycle appended to _notify_events
    told,       \* the text last given for each pair: by an event, or adopted
                \* at start-up; NoText once 'recovered' was said
    quiet,      \* ticks since the pair was last given a text, up to the cooldown
    hushed,     \* pairs dropped in silence since they were last given a text
    seen        \* the unacked conditions of the previous cycle's snapshot

history == <<events, told, quiet, hushed, seen>>
hvars == <<vars, history>>

Event == [pk : PK, kind : {"firing", "changed", "recovered"}, text : Text]

\* The events of a cycle: a fire is a change when the pair was already active,
\* a recovery names what the pair last said.
fireEvents ==
    {[pk |-> pk, text |-> results.text[pk],
      kind |-> IF pk \in kept THEN "changed" ELSE "firing"] : pk \in fire}
recoverEvents ==
    {[pk |-> pk, text |-> keptDetail[pk], kind |-> "recovered"] : pk \in recover}

Said(E, kinds) == {e.pk : e \in {x \in E : x.kind \in kinds}}
TextOf(E, pk) == (CHOOSE e \in E : e.pk = pk).text

HInit ==
    /\ Init
    /\ events = {}
    /\ told = [pk \in PK |-> NoText]
    /\ quiet = [pk \in PK |-> NOTIFY_COOLDOWN]
    /\ hushed = {}
    /\ seen = {}

HSeed ==
    /\ Seed
    /\ events' = {}
    /\ told' = [pk \in PK |-> IF pk \in present THEN results.text[pk] ELSE NoText]
    /\ quiet' = [pk \in PK |-> IF pk \in present THEN 0 ELSE quiet[pk]]
    /\ hushed' = hushed \ present
    /\ seen' = present

HCycle ==
    LET E == fireEvents \cup recoverEvents
        news == Said(E, {"firing", "changed"})
        over == Said(E, {"recovered"})
    IN  /\ MonitorCycle
        /\ events' = E
        /\ told' = [pk \in PK |-> IF pk \in news THEN TextOf(E, pk)
                                  ELSE IF pk \in over THEN NoText ELSE told[pk]]
        /\ quiet' = [pk \in PK |-> IF pk \in news THEN 0 ELSE quiet[pk]]
        /\ hushed' = (hushed \cup {pk \in active : gone_pk(pk)}) \ news
        /\ seen' = present

HTick ==
    /\ Tick
    /\ quiet' = [pk \in PK |-> IF quiet[pk] < NOTIFY_COOLDOWN THEN quiet[pk] + 1
                                                               ELSE quiet[pk]]
    /\ UNCHANGED <<events, told, hushed, seen>>

HRestart ==
    /\ Restart
    /\ events' = {}
    /\ told' = [pk \in PK |-> NoText]
    /\ quiet' = [pk \in PK |-> NOTIFY_COOLDOWN]
    /\ hushed' = {}
    /\ seen' = {}

HOther == /\ BuildFleet \/ Requests \/ World
          /\ UNCHANGED history

HNext == HSeed \/ HCycle \/ HTick \/ HRestart \/ HOther

HSpec == HInit /\ [][HNext]_hvars
-----------------------------------------------------------------------------
(* Properties *)

CycleStep == pc = "built" /\ pc' = "idle" /\ seeded /\ seeded'

\* What the notifier tracks and what it has said agree: an active pair was last
\* given exactly the text in _mon['detail'] (the comment over _mon: the text
\* last NOTIFIED, not the text last observed), and a pair that is not active was
\* either dropped in silence (ack, pause, delete) or has had its all-clear.
ToldMatchesTracked ==
    \A pk \in PK :
        /\ pk \in active => told[pk] = detail[pk] /\ detail[pk] # NoText
        /\ pk \notin active /\ told[pk] # NoText => pk \in hushed

\* Every event of _monitor_cycle is news.  'recovered' is said once, names the
\* text last given, and only of a condition absent from the snapshot of a host
\* that is enrolled and running: neither an ack, nor a pause, nor a deletion
\* reads as a recovery.  'changed' replaces another text, and 'firing' never
\* repeats what stands unretracted.
EventsAreNews ==
    [][CycleStep =>
        \A e \in events' :
          /\ e.kind = "recovered" => /\ told[e.pk] = e.text /\ e.text # NoText
                                     /\ results.text[e.pk] = NoText
                                     /\ e.pk[1] \in results.known \ results.paused
          /\ e.kind = "changed" => told[e.pk] \notin {NoText, e.text}
          /\ e.kind = "firing"  => told[e.pk] = NoText \/ e.pk \in hushed]_hvars

\* Two messages about one (host, condition) are NOTIFY_COOLDOWN apart, over
\* recoveries and changes of text alike, unless the pair was dropped in silence
\* in between (_monitor_cycle pops last_fire there: "re-enabling starts fresh").
CooldownKept ==
    [][CycleStep =>
        \A pk \in Said(events', {"firing", "changed"}) :
            quiet[pk] = NOTIFY_COOLDOWN \/ pk \in hushed]_hvars

\* A condition that flaps from one cycle to the next stays quiet: nothing is
\* fired that the previous cycle's snapshot did not hold as well, unacked
\* (_monitor_cycle: "FLAP_CYCLES to fire").
DebouncedAgainstFlapping ==
    [][CycleStep /\ FLAP_CYCLES >= 2 =>
        Said(events', {"firing", "changed"}) \subseteq seen]_hvars
=============================================================================
