-------------------------------- MODULE Checks --------------------------------
(***************************************************************************)
(* Service checks: the definitions in checks.json, their latest results in *)
(* memory, the monitor thread that probes them all and folds them into the *)
(* fleet, and the requests that edit, delete and run them, under no lock   *)
(* around the file.  A check is pinned to a host, with which it pauses and *)
(* alerts, or alerts on its own.                                           *)
(***************************************************************************)
EXTENDS Integers

CONSTANTS
    Ids,        \* check ids; an id is given out once (secrets.token_hex)
    Targets,    \* what a check can probe: service, address and port
    Hosts,      \* hosts a check can be pinned to
    NoPin,      \* an unpinned check
    Absent,     \* no such check
    Admins,     \* request threads
    MaxEdits    \* bound on edits of checks.json

ASSUME ChecksAssumption ==
    /\ Ids # {} /\ NoPin \notin Hosts
    /\ Absent \notin [target : Targets, pin : Hosts \cup {NoPin}]
    /\ MaxEdits \in Nat

Def    == [target : Targets, pin : Hosts \cup {NoPin}]
File   == [Ids -> Def \cup {Absent}]
Result == {"none", "paused", "up", "down"}

VARIABLES
    host,       \* nodes.json: each host "in", "paused" or "out"
    svc,        \* how each target answers a probe: "up" or "down"
    file,       \* checks.json
    used,       \* the ids given out
    results,    \* _check_results
    req,        \* the request each thread serves: [at, id, copy, def, res]
    sweep,      \* the monitor thread: [at, cfg, off, todo, res]
    carried,    \* the failing pinned checks in the fleet it has built
    alerts,     \* the failing checks its last cycle was given
    edits

vars == <<host, svc, file, used, results, req, sweep, carried, alerts, edits>>

Nothing == [i \in Ids |-> Absent]
NoResults == [i \in Ids |-> "none"]
NoSweep == [at |-> "rest", cfg |-> Nothing, off |-> {}, todo |-> {}, res |-> NoResults]
NoReq == [at |-> "free", id |-> CHOOSE i \in Ids : TRUE, copy |-> Nothing,
          def |-> Absent, res |-> "none"]
Defined(f) == {i \in Ids : f[i] # Absent}

Init ==
    /\ host = [h \in Hosts |-> "in"]
    /\ svc \in [Targets -> {"up", "down"}]
    /\ file = Nothing
    /\ used = {}
    /\ results = NoResults
    /\ req = [a \in Admins |-> NoReq]
    /\ sweep = NoSweep
    /\ carried = {}
    /\ alerts = {}
    /\ edits = 0
-----------------------------------------------------------------------------
(* Probing *)

disabled_ids == {h \in Hosts : host[h] = "paused"}

\* Mutant: a timeout is neither up nor down.
run_check_Raw(t) == IF svc[t] = "down" THEN "timed out" ELSE "up"

\* run_check never raises: whatever goes wrong is a failure.
run_check(t) == svc[t]

\* _run_one_check
run_one_check(def, off) == IF def.pin \in off THEN "paused" ELSE run_check(def.target)
-----------------------------------------------------------------------------
(* The monitor thread *)

\* Mutant: without checks the old results stay.
cleared_Not == results

\* _check_results.clear()
cleared == NoResults

\* _run_all_checks loads the checks and the paused hosts; without checks there
\* are no results.
SweepLoad ==
    /\ sweep.at = "rest"
    /\ IF Defined(file) = {}
       THEN /\ results' = cleared
            /\ sweep' = [NoSweep EXCEPT !.at = "build"]
       ELSE /\ sweep' = [at |-> "probe", cfg |-> file, off |-> disabled_ids,
                         todo |-> Defined(file), res |-> NoResults]
            /\ UNCHANGED results
    /\ UNCHANGED <<host, svc, file, used, req, carried, alerts, edits>>

SweepProbe(i) ==
    /\ sweep.at = "probe" /\ i \in sweep.todo
    /\ sweep' = [sweep EXCEPT !.todo = @ \ {i},
                              !.res[i] = run_one_check(sweep.cfg[i], sweep.off)]
    /\ UNCHANGED <<host, svc, file, used, results, req, carried, alerts, edits>>

\* What a sweep leaves: its own results, nothing of checks it did not load.
swept(cfg, res) == [i \in Ids |-> IF cfg[i] = Absent THEN "none" ELSE res[i]]

SweepStore ==
    /\ sweep.at = "probe" /\ sweep.todo = {}
    /\ results' = swept(sweep.cfg, sweep.res)
    /\ sweep' = [NoSweep EXCEPT !.at = "build"]
    /\ UNCHANGED <<host, svc, file, used, req, carried, alerts, edits>>

\* _attach_svc_checks: a pinned check's failure goes to its host's envelope, if
\* the host is enrolled and not paused.
Attach ==
    /\ sweep.at = "build"
    /\ carried' = {i \in Defined(file) : /\ file[i].pin # NoPin /\ host[file[i].pin] = "in"
                                         /\ results[i] = "down"}
    /\ sweep' = [NoSweep EXCEPT !.at = "cycle"]
    /\ UNCHANGED <<host, svc, file, used, results, req, alerts, edits>>

\* Mutant: pinned checks are entities of their own as well.
own_entity_All(i) == i \in Ids

own_entity(i) == file[i].pin = NoPin

\* _check_monitor_envs: unpinned checks are entities of their own; _monitor_cycle
\* is given both.
Cycle ==
    /\ sweep.at = "cycle"
    /\ alerts' = carried \cup {i \in Defined(file) : own_entity(i) /\ results[i] = "down"}
    /\ carried' = {}
    /\ sweep' = NoSweep
    /\ UNCHANGED <<host, svc, file, used, results, req, edits>>
-----------------------------------------------------------------------------
(* Requests: load, change, save, then probe and store the result *)

Loads(a, i, at, copy, def) ==
    /\ req[a].at = "free"
    /\ req' = [req EXCEPT ![a] = [NoReq EXCEPT !.at = at, !.id = i, !.copy = copy, !.def = def]]
    /\ UNCHANGED <<host, svc, file, results, sweep, carried, alerts>>

Editing == edits < MaxEdits /\ edits' = edits + 1

MayPin(pin) == pin \in {NoPin} \cup {h \in Hosts : host[h] # "out"}

ChecksAdd(a, i, def) ==
    /\ i \notin used /\ MayPin(def.pin)
    /\ used' = used \cup {i}
    /\ Editing
    /\ Loads(a, i, "save", [file EXCEPT ![i] = def], def)

ChecksUpdate(a, i, def) ==
    /\ file[i] # Absent /\ MayPin(def.pin)
    /\ Editing
    /\ UNCHANGED used
    /\ Loads(a, i, "save", [file EXCEPT ![i] = def], def)

ChecksDelete(a, i) ==
    /\ file[i] # Absent
    /\ Editing
    /\ UNCHANGED used
    /\ Loads(a, i, "save", [file EXCEPT ![i] = Absent], Absent)

ChecksRun(a, i) ==
    /\ file[i] # Absent
    /\ UNCHANGED <<used, edits>>
    /\ Loads(a, i, "probe", Nothing, file[i])

Save(a) ==
    /\ req[a].at = "save"
    /\ file' = req[a].copy
    /\ req' = [req EXCEPT ![a].at = IF req[a].def = Absent THEN "store" ELSE "probe",
                          ![a].copy = Nothing]
    /\ UNCHANGED <<host, svc, used, results, sweep, carried, alerts, edits>>

\* _store_check_result probes ...
Probe(a) ==
    /\ req[a].at = "probe"
    /\ req' = [req EXCEPT ![a].at = "store", ![a].def = Absent,
                          ![a].res = run_one_check(req[a].def, disabled_ids)]
    /\ UNCHANGED <<host, svc, file, used, results, sweep, carried, alerts, edits>>

\* ... and stores; checks_delete pops the result.
Store(a) ==
    /\ req[a].at = "store"
    /\ results' = [results EXCEPT ![req[a].id] = req[a].res]
    /\ req' = [req EXCEPT ![a] = NoReq]
    /\ UNCHANGED <<host, svc, file, used, sweep, carried, alerts, edits>>
-----------------------------------------------------------------------------
(* The registry and the services *)

\* node_delete and node_update leave checks.json alone.
SetHost(h, st) ==
    /\ host[h] \notin {"out", st}
    /\ host' = [host EXCEPT ![h] = st]
    /\ UNCHANGED <<svc, file, used, results, req, sweep, carried, alerts, edits>>

SetService(t) ==
    /\ svc' = [svc EXCEPT ![t] = IF @ = "up" THEN "down" ELSE "up"]
    /\ UNCHANGED <<host, file, used, results, req, sweep, carried, alerts, edits>>

MonitorLoop == SweepLoad \/ (\E i \in Ids : SweepProbe(i)) \/ SweepStore \/ Attach \/ Cycle
Answering(a) == Save(a) \/ Probe(a) \/ Store(a)

Next ==
    \/ MonitorLoop
    \/ \E a \in Admins :
         \/ Answering(a)
         \/ \E i \in Ids : \/ ChecksDelete(a, i)
                           \/ ChecksRun(a, i)
                           \/ \E def \in Def : ChecksAdd(a, i, def) \/ ChecksUpdate(a, i, def)
    \/ \E h \in Hosts, st \in {"in", "paused", "out"} : SetHost(h, st)
    \/ \E t \in Targets : SetService(t)

Spec == Init /\ [][Next]_vars

\* The monitor loops for ever, and a request past its load comes to its end: every
\* probe has a timeout.
FairSpec == Spec /\ WF_vars(MonitorLoop) /\ \A a \in Admins : WF_vars(Answering(a))
-----------------------------------------------------------------------------
(* Properties *)

\* Every variable has its type.
TypeOK ==
    /\ host \in [Hosts -> {"in", "paused", "out"}]
    /\ svc \in [Targets -> {"up", "down"}]
    /\ file \in File /\ used \subseteq Ids /\ Defined(file) \subseteq used
    /\ results \in [Ids -> Result]
    /\ req \in [Admins -> [at : {"free", "save", "probe", "store"}, id : Ids, copy : File,
                           def : Def \cup {Absent}, res : Result]]
    /\ sweep \in [at : {"rest", "probe", "build", "cycle"}, cfg : File, off : SUBSET Hosts,
                  todo : SUBSET Ids, res : [Ids -> Result]]
    /\ carried \subseteq Ids /\ alerts \subseteq Ids
    /\ edits \in 0..MaxEdits

\* What a check should read: nothing once it is deleted, paused with its host.
Outcome(i) == IF file[i] = Absent THEN "none" ELSE run_one_check(file[i], disabled_ids)

\* _check_results comes to say what is true: once a check, its host and its service
\* stand still, so does its result, and a deleted check has none, although sweeps
\* and requests under way store results of definitions that have been replaced.
ResultsCatchUp ==
    \A i \in Ids, r \in Result : <>[](Outcome(i) = r) => <>[](results[i] = r)

Watched(i) == file[i] # Absent /\ (file[i].pin # NoPin => host[file[i].pin] = "in")

\* A check that keeps failing is told to every later cycle of the notifier, as its
\* host's condition or as an entity of its own, if and only if its host is there
\* for good.
FailuresReachMonitor ==
    \A i \in Ids, b \in BOOLEAN :
        <>[](Outcome(i) = "down" /\ Watched(i) = b) => <>[](i \in alerts <=> b)
=============================================================================
