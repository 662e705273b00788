----------------------------- MODULE ChecksProofs ----------------------------
(***************************************************************************)
(* Proofs about the service checks: the definitions, results, requests and *)
(* the sweep keep their types for any number of checks, hosts and requests *)
(* that overlap under no lock, no id is ever seen in the file that was     *)
(* not given out, and a cycle in quiet times is told the truth.            *)
(***************************************************************************)
EXTENDS Checks, TLAPS

Request == [at : {"free", "save", "probe", "store"}, id : Ids, copy : File,
            def : Def \cup {Absent}, res : Result]
Sweep == [at : {"rest", "probe", "build", "cycle"}, cfg : File, off : SUBSET Hosts,
          todo : SUBSET Ids, res : [Ids -> Result]]

\* What a request is about to save holds ids that were given out only; whatever is
\* about to be probed has a definition.
RequestsOk == \A a \in Admins : /\ Defined(req[a].copy) \subseteq used
                                /\ req[a].at = "probe" => req[a].def # Absent
SweepOk == \A i \in sweep.todo : sweep.cfg[i] # Absent
ChecksInv == TypeOK /\ RequestsOk /\ SweepOk

-----------------------------------------------------------------------------
LEMMA Empty ==
  /\ Nothing \in File /\ Defined(Nothing) = {} /\ NoResults \in [Ids -> Result]
  /\ NoReq \in Request /\ NoReq.at = "free" /\ NoReq.copy = Nothing
  /\ NoSweep \in Sweep /\ NoSweep.todo = {}
  <1>1. (CHOOSE i \in Ids : TRUE) \in Ids
    BY ChecksAssumption
  <1>2. Nothing \in File /\ Defined(Nothing) = {} /\ NoResults \in [Ids -> Result]
    BY DEF Nothing, File, Defined, NoResults, Result
  <1>3. NoReq \in Request /\ NoReq.at = "free" /\ NoReq.copy = Nothing
    BY <1>1, <1>2 DEF NoReq, Request, Result
  <1>4. NoSweep \in Sweep /\ NoSweep.todo = {}
    BY <1>2 DEF NoSweep, Sweep
  <1> QED
    BY <1>2, <1>3, <1>4

LEMMA TypeOKParts ==
  TypeOK <=> /\ host \in [Hosts -> {"in", "paused", "out"}] /\ svc \in [Targets -> {"up", "down"}]
             /\ file \in File /\ used \subseteq Ids /\ Defined(file) \subseteq used
             /\ results \in [Ids -> Result] /\ req \in [Admins -> Request] /\ sweep \in Sweep
             /\ carried \subseteq Ids /\ alerts \subseteq Ids /\ edits \in 0..MaxEdits
  BY DEF TypeOK, Request, Sweep

\* A probe of a check that is there gives a result.
LEMMA ProbeResult ==
  ASSUME TypeOK, NEW def \in Def, NEW off PROVE run_one_check(def, off) \in Result
  <1>1. def.target \in Targets
    BY DEF Def
  <1>2. svc[def.target] \in {"up", "down"}
    BY <1>1 DEF TypeOK
  <1> QED
    BY <1>2 DEF run_one_check, run_check, Result

LEMMA ChecksInitInv == Init => ChecksInv
  <1> SUFFICES ASSUME Init PROVE ChecksInv
    OBVIOUS
  <1>1. TypeOK
    BY Empty, TypeOKParts, ChecksAssumption DEF Init
  <1>2. RequestsOk
    BY Empty DEF Init, RequestsOk
  <1>3. SweepOk
    BY Empty DEF Init, SweepOk
  <1> QED
    BY <1>1, <1>2, <1>3 DEF ChecksInv

-----------------------------------------------------------------------------
(* The monitor thread *)

\* A step of the sweep touches nothing of the requests.
LEMMA SweepStepInv ==
  ASSUME ChecksInv, host' = host, svc' = svc, file' = file, used' = used, req' = req,
         edits' = edits, results' \in [Ids -> Result], sweep' \in Sweep,
         carried' \subseteq Ids, alerts' \subseteq Ids, SweepOk'
  PROVE  ChecksInv'
  <1>1. TypeOK'
    <2>1. Defined(file)' = Defined(file)
      BY DEF Defined
    <2> QED
      BY <2>1 DEF ChecksInv, TypeOK, Sweep
  <1>2. RequestsOk'
    BY DEF ChecksInv, RequestsOk, Defined
  <1> QED
    BY <1>1, <1>2 DEF ChecksInv

LEMMA BareSweep ==
  ASSUME NEW at \in {"rest", "probe", "build", "cycle"}
  PROVE  [NoSweep EXCEPT !.at = at] \in Sweep /\ [NoSweep EXCEPT !.at = at].todo = {}
  BY Empty DEF Sweep

LEMMA MonitorLoopInv == ASSUME ChecksInv, MonitorLoop PROVE ChecksInv'
  <1>0. /\ host' = host /\ svc' = svc /\ file' = file /\ used' = used /\ req' = req
        /\ edits' = edits
    BY DEF MonitorLoop, SweepLoad, SweepProbe, SweepStore, Attach, Cycle
  <1>1. /\ file \in File /\ results \in [Ids -> Result] /\ sweep \in Sweep
        /\ carried \subseteq Ids /\ alerts \subseteq Ids /\ SweepOk /\ TypeOK
    BY TypeOKParts DEF ChecksInv
  <1>2. CASE SweepLoad
    <2>1. carried' = carried /\ alerts' = alerts
      BY <1>2 DEF SweepLoad
    <2>2. CASE Defined(file) = {}
      <3>1. results' = NoResults /\ sweep' = [NoSweep EXCEPT !.at = "build"]
        BY <1>2, <2>2 DEF SweepLoad, cleared
      <3>2. sweep' \in Sweep /\ sweep'.todo = {}
        BY <3>1, BareSweep
      <3> QED
        BY <1>0, <1>1, <2>1, <3>1, <3>2, Empty, SweepStepInv DEF SweepOk
    <2>3. CASE Defined(file) # {}
      <3>1. results' = results
            /\ sweep' = [at |-> "probe", cfg |-> file, off |-> disabled_ids,
                         todo |-> Defined(file), res |-> NoResults]
        BY <1>2, <2>3 DEF SweepLoad
      <3>2. sweep' \in Sweep /\ sweep'.todo = Defined(file) /\ sweep'.cfg = file
        BY <3>1, <1>1, Empty DEF Sweep, Defined, disabled_ids
      <3>3. SweepOk'
        BY <3>2 DEF SweepOk, Defined
      <3> QED
        BY <1>0, <1>1, <2>1, <3>1, <3>2, <3>3, SweepStepInv
    <2> QED
      BY <2>2, <2>3
  <1>3. ASSUME NEW i \in Ids, SweepProbe(i) PROVE ChecksInv'
    <2> DEFINE r == run_one_check(sweep.cfg[i], sweep.off)
    <2>1. /\ i \in sweep.todo /\ sweep' = [sweep EXCEPT !.todo = @ \ {i}, !.res[i] = r]
          /\ results' = results /\ carried' = carried /\ alerts' = alerts
      BY <1>3 DEF SweepProbe
    <2>2. sweep.cfg[i] \in Def
      BY <2>1, <1>1 DEF SweepOk, Sweep, File
    <2>3. r \in Result
      BY <2>2, <1>1, ProbeResult
    <2> HIDE DEF r
    <2>4. sweep' \in Sweep /\ sweep'.todo = sweep.todo \ {i} /\ sweep'.cfg = sweep.cfg
      BY <2>1, <2>3, <1>1 DEF Sweep
    <2>5. SweepOk'
      BY <2>4, <1>1 DEF SweepOk
    <2> QED
      BY <1>0, <1>1, <2>1, <2>4, <2>5, SweepStepInv
  <1>4. CASE SweepStore
    <2>1. /\ results' = swept(sweep.cfg, sweep.res) /\ sweep' = [NoSweep EXCEPT !.at = "build"]
          /\ carried' = carried /\ alerts' = alerts
      BY <1>4 DEF SweepStore
    <2>2. results' \in [Ids -> Result]
      <3>1. sweep.res \in [Ids -> Result] /\ "none" \in Result
        BY <1>1 DEF Sweep, Result
      <3> QED
        BY <3>1, <2>1 DEF swept
    <2>3. sweep' \in Sweep /\ sweep'.todo = {}
      BY <2>1, BareSweep
    <2> QED
      BY <1>0, <1>1, <2>1, <2>2, <2>3, SweepStepInv DEF SweepOk
  <1>5. CASE Attach
    <2>1. /\ carried' \subseteq Ids /\ sweep' = [NoSweep EXCEPT !.at = "cycle"]
          /\ results' = results /\ alerts' = alerts
      BY <1>5 DEF Attach, Defined
    <2>2. sweep' \in Sweep /\ sweep'.todo = {}
      BY <2>1, BareSweep
    <2> QED
      BY <1>0, <1>1, <2>1, <2>2, SweepStepInv DEF SweepOk
  <1>6. CASE Cycle
    <2>1. carried' = {} /\ alerts' \subseteq Ids /\ sweep' = NoSweep /\ results' = results
      BY <1>6, <1>1 DEF Cycle, Defined
    <2> QED
      BY <1>0, <1>1, <2>1, Empty, SweepStepInv DEF SweepOk
  <1> QED
    BY <1>2, <1>3, <1>4, <1>5, <1>6 DEF MonitorLoop

-----------------------------------------------------------------------------
(* Requests *)

\* A step of a request touches nothing of the sweep.
LEMMA RequestStepInv ==
  ASSUME ChecksInv, NEW a \in Admins, NEW r \in Request, req' = [req EXCEPT ![a] = r],
         file' \in File, used \subseteq used', used' \subseteq Ids, Defined(file') \subseteq used',
         Defined(r.copy) \subseteq used', r.at = "probe" => r.def # Absent,
         results' \in [Ids -> Result], edits' \in 0..MaxEdits,
         host' = host, svc' = svc, sweep' = sweep, carried' = carried, alerts' = alerts
  PROVE  ChecksInv'
  <1>1. req \in [Admins -> Request]
    BY TypeOKParts DEF ChecksInv
  <1>2. req' \in [Admins -> Request] /\ req'[a] = r /\ \A b \in Admins \ {a} : req'[b] = req[b]
    BY <1>1
  <1>3. TypeOK'
    <2>1. Defined(file)' \subseteq used'
      BY DEF Defined
    <2> QED
      BY <1>2, <2>1 DEF ChecksInv, TypeOK, Request
  <1>4. RequestsOk'
    <2> SUFFICES ASSUME NEW b \in Admins
                 PROVE  /\ Defined(req'[b].copy) \subseteq used'
                        /\ req'[b].at = "probe" => req'[b].def # Absent
      BY DEF RequestsOk, Defined
    <2>1. CASE b = a
      BY <2>1, <1>2
    <2>2. CASE b # a
      BY <2>2, <1>2 DEF ChecksInv, RequestsOk
    <2> QED
      BY <2>1, <2>2
  <1> QED
    BY <1>3, <1>4 DEF ChecksInv, SweepOk

\* A request loads the file: its copy differs at its own check only.
LEMMA LoadsInv ==
  ASSUME ChecksInv, NEW a \in Admins, NEW i \in Ids, NEW at \in {"save", "probe"},
         NEW copy \in File, NEW def \in Def \cup {Absent}, Loads(a, i, at, copy, def),
         used \subseteq used', used' \subseteq Ids, Defined(copy) \subseteq used',
         at = "probe" => def # Absent, edits' \in 0..MaxEdits
  PROVE  ChecksInv'
  <1> DEFINE r == [NoReq EXCEPT !.at = at, !.id = i, !.copy = copy, !.def = def]
  <1>1. r \in Request /\ r.at = at /\ r.copy = copy /\ r.def = def
    BY Empty DEF Request
  <1>2. /\ req' = [req EXCEPT ![a] = r] /\ host' = host /\ svc' = svc /\ file' = file
        /\ results' = results /\ sweep' = sweep /\ carried' = carried /\ alerts' = alerts
    BY DEF Loads
  <1> HIDE DEF r
  <1>3. file \in File /\ Defined(file) \subseteq used /\ results \in [Ids -> Result]
    BY DEF ChecksInv, TypeOK
  <1> QED
    BY <1>1, <1>2, <1>3, RequestStepInv

LEMMA EditInv ==
  ASSUME ChecksInv, NEW a \in Admins, NEW i \in Ids,
         \/ ChecksDelete(a, i) \/ ChecksRun(a, i)
         \/ \E def \in Def : ChecksAdd(a, i, def) \/ ChecksUpdate(a, i, def)
  PROVE  ChecksInv'
  <1>1. file \in File /\ Defined(file) \subseteq used /\ used \subseteq Ids /\ edits \in 0..MaxEdits
    BY DEF ChecksInv, TypeOK
  <1>2. ASSUME NEW def \in Def \cup {Absent}
        PROVE  /\ [file EXCEPT ![i] = def] \in File
               /\ Defined([file EXCEPT ![i] = def]) \subseteq Defined(file) \cup {i}
    BY <1>1 DEF File, Defined
  <1>3. Editing => edits' \in 0..MaxEdits
    BY <1>1, ChecksAssumption DEF Editing
  <1>4. Absent \notin Def
    BY ChecksAssumption DEF Def
  <1>5. CASE ChecksDelete(a, i)
    <2>1. /\ file[i] # Absent /\ used' = used /\ Editing
          /\ Loads(a, i, "save", [file EXCEPT ![i] = Absent], Absent)
      BY <1>5 DEF ChecksDelete
    <2>2. i \in used
      BY <2>1, <1>1 DEF Defined
    <2>3. Defined([file EXCEPT ![i] = Absent]) \subseteq used'
      BY <2>1, <2>2, <1>1, <1>2
    <2> QED
      BY <2>1, <2>3, <1>1, <1>2, <1>3, LoadsInv
  <1>6. CASE ChecksRun(a, i)
    <2>1. /\ file[i] # Absent /\ used' = used /\ edits' = edits
          /\ Loads(a, i, "probe", Nothing, file[i])
      BY <1>6 DEF ChecksRun
    <2>2. file[i] \in Def \cup {Absent} /\ Nothing \in File /\ Defined(Nothing) \subseteq used'
      BY <1>1, Empty DEF File
    <2> QED
      BY <2>1, <2>2, <1>1, LoadsInv
  <1>7. ASSUME NEW def \in Def, ChecksAdd(a, i, def) PROVE ChecksInv'
    <2>1. /\ used' = used \cup {i} /\ Editing
          /\ Loads(a, i, "save", [file EXCEPT ![i] = def], def)
      BY <1>7 DEF ChecksAdd
    <2>2. Defined([file EXCEPT ![i] = def]) \subseteq used'
      BY <2>1, <1>1, <1>2
    <2> QED
      BY <2>1, <2>2, <1>1, <1>2, <1>3, LoadsInv
  <1>8. ASSUME NEW def \in Def, ChecksUpdate(a, i, def) PROVE ChecksInv'
    <2>1. /\ file[i] # Absent /\ used' = used /\ Editing
          /\ Loads(a, i, "save", [file EXCEPT ![i] = def], def)
      BY <1>8 DEF ChecksUpdate
    <2>2. i \in used
      BY <2>1, <1>1 DEF Defined
    <2>3. Defined([file EXCEPT ![i] = def]) \subseteq used'
      BY <2>1, <2>2, <1>1, <1>2
    <2> QED
      BY <2>1, <2>3, <1>1, <1>2, <1>3, LoadsInv
  <1> QED
    BY <1>5, <1>6, <1>7, <1>8

LEMMA AnsweringInv == ASSUME ChecksInv, NEW a \in Admins, Answering(a) PROVE ChecksInv'
  <1> DEFINE q == req[a]
  <1>1. /\ req \in [Admins -> Request] /\ q \in Request /\ file \in File /\ used \subseteq Ids
        /\ Defined(file) \subseteq used /\ Defined(q.copy) \subseteq used
        /\ (q.at = "probe" => q.def # Absent)
        /\ results \in [Ids -> Result] /\ edits \in 0..MaxEdits /\ TypeOK
    BY TypeOKParts DEF ChecksInv, RequestsOk
  <1>2. CASE Save(a)
    <2> DEFINE next == IF q.def = Absent THEN "store" ELSE "probe"
               r == [q EXCEPT !.at = next, !.copy = Nothing]
    <2>1. /\ file' = q.copy /\ req' = [req EXCEPT ![a].at = next, ![a].copy = Nothing]
          /\ host' = host /\ svc' = svc /\ used' = used /\ results' = results /\ sweep' = sweep
          /\ carried' = carried /\ alerts' = alerts /\ edits' = edits
      BY <1>2 DEF Save
    <2>2. req' = [req EXCEPT ![a] = r]
      BY <2>1, <1>1
    <2> HIDE DEF q
    <2>3. r \in Request /\ r.at = next /\ r.copy = Nothing /\ r.def = q.def
      BY <1>1, Empty DEF Request
    <2> HIDE DEF r
    <2>4. q.copy \in File
      BY <1>1 DEF Request
    <2>5. r.at = "probe" => r.def # Absent
      BY <2>3
    <2>6. Defined(r.copy) \subseteq used'
      BY <2>3, Empty
    <2> QED
      BY <1>1, <2>1, <2>2, <2>3, <2>4, <2>5, <2>6, RequestStepInv
  <1>3. CASE Probe(a)
    <2> DEFINE out == run_one_check(q.def, disabled_ids)
               r == [q EXCEPT !.at = "store", !.def = Absent, !.res = out]
    <2>1. /\ q.at = "probe"
          /\ req' = [req EXCEPT ![a].at = "store", ![a].def = Absent, ![a].res = out]
          /\ host' = host /\ svc' = svc /\ file' = file /\ used' = used /\ results' = results
          /\ sweep' = sweep /\ carried' = carried /\ alerts' = alerts /\ edits' = edits
      BY <1>3 DEF Probe
    <2>2. req' = [req EXCEPT ![a] = r]
      BY <2>1, <1>1
    <2> HIDE DEF q
    <2>3. q.def \in Def
      BY <2>1, <1>1 DEF Request
    <2>4. out \in Result
      BY <2>3, <1>1, ProbeResult
    <2> HIDE DEF out
    <2>5. r \in Request /\ r.at = "store" /\ r.copy = q.copy
      BY <1>1, <2>4 DEF Request
    <2> HIDE DEF r
    <2> QED
      BY <1>1, <2>1, <2>2, <2>5, RequestStepInv
  <1>4. CASE Store(a)
    <2>1. /\ results' = [results EXCEPT ![q.id] = q.res] /\ req' = [req EXCEPT ![a] = NoReq]
          /\ host' = host /\ svc' = svc /\ file' = file /\ used' = used
          /\ sweep' = sweep /\ carried' = carried /\ alerts' = alerts /\ edits' = edits
      BY <1>4 DEF Store
    <2>2. results' \in [Ids -> Result]
      BY <2>1, <1>1 DEF Request
    <2>3. NoReq \in Request /\ NoReq.at = "free" /\ Defined(NoReq.copy) \subseteq used'
      BY Empty
    <2> HIDE DEF q
    <2> QED
      BY <1>1, <2>1, <2>2, <2>3, RequestStepInv
  <1> QED
    BY <1>2, <1>3, <1>4 DEF Answering

LEMMA ChecksNextInv == ChecksInv /\ [Next]_vars => ChecksInv'
  <1> SUFFICES ASSUME ChecksInv, [Next]_vars PROVE ChecksInv'
    OBVIOUS
  <1>1. CASE UNCHANGED vars
    BY <1>1 DEF vars, ChecksInv, TypeOK, RequestsOk, SweepOk, Defined
  <1>2. ASSUME NEW h \in Hosts, NEW st \in {"in", "paused", "out"}, SetHost(h, st) PROVE ChecksInv'
    BY <1>2 DEF SetHost, ChecksInv, TypeOK, RequestsOk, SweepOk, Defined
  <1>3. ASSUME NEW t \in Targets, SetService(t) PROVE ChecksInv'
    BY <1>3 DEF SetService, ChecksInv, TypeOK, RequestsOk, SweepOk, Defined
  <1> QED
    BY <1>1, <1>2, <1>3, MonitorLoopInv, EditInv, AnsweringInv DEF Next

\* checks.json, the results in memory, the requests and the sweep keep their types,
\* and the file only holds ids that were given out, although a copy of the file read
\* before other requests saved is written over theirs.
THEOREM ChecksType == Spec => []TypeOK
  <1>1. ChecksInv => TypeOK
    BY DEF ChecksInv
  <1> QED
    BY <1>1, ChecksInitInv, ChecksNextInv, PTL DEF Spec
-----------------------------------------------------------------------------
(* Quiet times: what is safe in ResultsCatchUp and FailuresReachMonitor *)

\* The monitor is between two rounds and no request is under way.
Resting == sweep.at = "rest" /\ \A a \in Admins : req[a].at = "free"

\* Nobody edits, hosts and services stand still.  Checks may be run.
Quiet == UNCHANGED <<host, svc, edits>>

Failing == {i \in Ids : Outcome(i) = "down" /\ Watched(i)}
Pinned == {i \in Failing : file[i].pin # NoPin}

\* A request under way is a run of a check as it is in the file.
RunOk(r) == \/ r.at = "free"
            \/ r.at = "probe" /\ r.def = file[r.id]
            \/ r.at = "store" /\ r.res = Outcome(r.id)

\* What the round has found so far is true.
RoundOk ==
  /\ sweep.at = "probe" => /\ sweep.cfg = file /\ sweep.off = disabled_ids
                           /\ \A i \in Defined(file) \ sweep.todo : sweep.res[i] = Outcome(i)
  /\ sweep.at \in {"build", "cycle"} => \A i \in Ids : results[i] = Outcome(i)
  /\ sweep.at = "cycle" => carried = Pinned

QuietInv == ChecksInv /\ (\A a \in Admins : RunOk(req[a])) /\ RoundOk

\* What should be found stands still with file, hosts and services.
LEMMA StandsStill ==
  ASSUME file' = file, host' = host, svc' = svc
  PROVE  /\ \A i : Outcome(i)' = Outcome(i)
         /\ disabled_ids' = disabled_ids /\ Defined(file)' = Defined(file) /\ Pinned' = Pinned
         /\ \A r : RunOk(r)' <=> RunOk(r)
  <1>1. \A i : Outcome(i)' = Outcome(i)
    BY DEF Outcome, run_one_check, run_check, disabled_ids
  <1>2. disabled_ids' = disabled_ids /\ Defined(file)' = Defined(file)
    BY DEF disabled_ids, Defined
  <1>3. \A i : Watched(i)' <=> Watched(i)
    BY DEF Watched
  <1>4. Failing' = Failing
    BY <1>1, <1>3 DEF Failing
  <1>5. Pinned' = Pinned
    BY <1>4 DEF Pinned
  <1>6. \A r : RunOk(r)' <=> RunOk(r)
    BY <1>1 DEF RunOk
  <1> QED
    BY <1>1, <1>2, <1>5, <1>6

\* A quiet step is none of an edit: the file stands still as well.
LEMMA FileStandsStill ==
  ASSUME QuietInv, [Next]_vars, [Quiet]_vars
  PROVE  /\ file' = file /\ host' = host /\ svc' = svc
         /\ \/ UNCHANGED <<results, req, sweep, carried>>
            \/ MonitorLoop
            \/ \E a \in Admins : Probe(a) \/ Store(a) \/ \E i \in Ids : ChecksRun(a, i)
  <1>1. host' = host /\ svc' = svc /\ edits' = edits
    BY DEF Quiet, vars
  <1>2. ASSUME NEW a \in Admins PROVE ~Save(a)
    BY DEF QuietInv, RunOk, Save
  <1>3. ~Editing
    <2>1. edits \in Int
      BY ChecksAssumption DEF QuietInv, ChecksInv, TypeOK
    <2> QED
      BY <1>1, <2>1 DEF Editing
  <1>4. ASSUME NEW a \in Admins, NEW i \in Ids
        PROVE  ~ChecksDelete(a, i) /\ \A def \in Def : ~ChecksAdd(a, i, def) /\ ~ChecksUpdate(a, i, def)
    BY <1>3 DEF ChecksDelete, ChecksAdd, ChecksUpdate
  <1>5. CASE UNCHANGED vars
    BY <1>5 DEF vars
  <1>6. CASE MonitorLoop
    BY <1>1, <1>6 DEF MonitorLoop, SweepLoad, SweepProbe, SweepStore, Attach, Cycle
  <1>7. ASSUME NEW a \in Admins, Probe(a) \/ Store(a) \/ \E i \in Ids : ChecksRun(a, i)
        PROVE  file' = file
    BY <1>7 DEF Probe, Store, ChecksRun, Loads
  <1>8. CASE (\E h \in Hosts, st \in {"in", "paused", "out"} : SetHost(h, st))
             \/ (\E t \in Targets : SetService(t))
    BY <1>1, <1>8 DEF SetHost, SetService
  <1> QED
    BY <1>1, <1>2, <1>4, <1>5, <1>6, <1>7, <1>8 DEF Next, Answering

\* A round that begins in quiet probes what is there and hands it on as it is.
LEMMA QuietRound ==
  ASSUME QuietInv, MonitorLoop, file' = file, host' = host, svc' = svc
  PROVE  req' = req /\ RoundOk'
  <1>1. req' = req
    BY DEF MonitorLoop, SweepLoad, SweepProbe, SweepStore, Attach, Cycle
  <1>2. /\ \A i : Outcome(i)' = Outcome(i)
        /\ disabled_ids' = disabled_ids /\ Defined(file)' = Defined(file) /\ Pinned' = Pinned
    BY StandsStill
  <1>3. /\ sweep \in Sweep /\ file \in File /\ results \in [Ids -> Result] /\ SweepOk /\ RoundOk
    BY TypeOKParts DEF QuietInv, ChecksInv
  <1>4. \A i \in Ids : i \notin Defined(file) => Outcome(i) = "none"
    BY DEF Defined, Outcome
  <1>5. \A i \in Defined(file) : i \in Ids /\ Outcome(i) = run_one_check(file[i], disabled_ids)
    BY DEF Defined, Outcome
  <1>6. \A at : [NoSweep EXCEPT !.at = at].at = at
    BY DEF NoSweep
  <1>7. CASE SweepLoad
    <2>1. CASE Defined(file) = {}
      <3>1. results' = NoResults /\ sweep'.at = "build"
        BY <1>6, <1>7, <2>1 DEF SweepLoad, cleared
      <3>2. \A i \in Ids : results'[i] = "none"
        BY <3>1 DEF NoResults
      <3> QED
        BY <1>1, <1>2, <1>4, <2>1, <3>1, <3>2 DEF RoundOk
    <2>2. CASE Defined(file) # {}
      <3>1. /\ sweep'.at = "probe" /\ sweep'.cfg = file /\ sweep'.off = disabled_ids
            /\ sweep'.todo = Defined(file)
        BY <1>7, <2>2 DEF SweepLoad
      <3> QED
        BY <1>1, <1>2, <3>1 DEF RoundOk
    <2> QED
      BY <2>1, <2>2
  <1>8. ASSUME NEW i \in Ids, SweepProbe(i) PROVE RoundOk'
    <2> DEFINE r == run_one_check(sweep.cfg[i], sweep.off)
    <2>1. /\ sweep.at = "probe" /\ i \in sweep.todo
          /\ sweep' = [sweep EXCEPT !.todo = @ \ {i}, !.res[i] = r]
      BY <1>8 DEF SweepProbe
    <2>2. sweep.cfg = file /\ sweep.off = disabled_ids /\ file[i] # Absent
      BY <1>3, <2>1 DEF RoundOk, SweepOk
    <2>3. r = Outcome(i)
      BY <2>2 DEF Outcome
    <2> HIDE DEF r
    <2>4. /\ sweep'.at = "probe" /\ sweep'.cfg = sweep.cfg /\ sweep'.off = sweep.off
          /\ sweep'.todo = sweep.todo \ {i} /\ sweep'.res[i] = r
          /\ \A j \in Ids \ {i} : sweep'.res[j] = sweep.res[j]
      BY <1>3, <2>1 DEF Sweep
    <2>5. \A j \in Defined(file) \ sweep'.todo : sweep'.res[j] = Outcome(j)
      BY <1>3, <1>5, <2>1, <2>3, <2>4 DEF RoundOk
    <2> QED
      BY <1>2, <1>5, <2>2, <2>4, <2>5 DEF RoundOk
  <1>9. CASE SweepStore
    <2>1. /\ sweep.at = "probe" /\ sweep.todo = {} /\ results' = swept(sweep.cfg, sweep.res)
          /\ sweep'.at = "build"
      BY <1>6, <1>9 DEF SweepStore
    <2>2. sweep.cfg = file /\ \A i \in Defined(file) : sweep.res[i] = Outcome(i)
      BY <1>3, <2>1 DEF RoundOk
    <2>3. \A i \in Ids : results'[i] = IF file[i] = Absent THEN "none" ELSE sweep.res[i]
      BY <2>1, <2>2 DEF swept
    <2>4. \A i \in Ids : results'[i] = Outcome(i)
      BY <1>4, <2>2, <2>3 DEF Defined
    <2> QED
      BY <1>1, <1>2, <2>1, <2>4 DEF RoundOk
  <1>10. CASE Attach
    <2>1. /\ sweep.at = "build" /\ sweep'.at = "cycle" /\ results' = results
          /\ carried' = {i \in Defined(file) : /\ file[i].pin # NoPin /\ host[file[i].pin] = "in"
                                               /\ results[i] = "down"}
      BY <1>6, <1>10 DEF Attach
    <2>2. \A i \in Ids : results[i] = Outcome(i)
      BY <1>3, <2>1 DEF RoundOk
    <2>3. carried' = Pinned
      BY <2>1, <2>2 DEF Pinned, Failing, Watched, Defined
    <2> QED
      BY <1>1, <1>2, <2>1, <2>2, <2>3 DEF RoundOk
  <1>11. CASE Cycle
    <2>1. sweep'.at = "rest"
      BY <1>11 DEF Cycle, NoSweep
    <2> QED
      BY <1>1, <2>1 DEF RoundOk
  <1> QED
    BY <1>1, <1>7, <1>8, <1>9, <1>10, <1>11 DEF MonitorLoop

\* A check that is run in quiet stores what is true.
LEMMA QuietRun ==
  ASSUME QuietInv, NEW a \in Admins, Probe(a) \/ Store(a) \/ (\E i \in Ids : ChecksRun(a, i)),
         file' = file, host' = host, svc' = svc
  PROVE  RunOk(req'[a]) /\ (\A b \in Admins \ {a} : req'[b] = req[b]) /\ RoundOk'
  <1>1. /\ \A i : Outcome(i)' = Outcome(i)
        /\ disabled_ids' = disabled_ids /\ Defined(file)' = Defined(file) /\ Pinned' = Pinned
    BY StandsStill
  <1>2. /\ req \in [Admins -> Request] /\ req[a] \in Request /\ results \in [Ids -> Result]
        /\ RunOk(req[a]) /\ RoundOk /\ (req[a].at = "probe" => req[a].def # Absent)
    BY TypeOKParts DEF QuietInv, ChecksInv, RequestsOk
  <1>3. sweep' = sweep /\ carried' = carried
    BY DEF Probe, Store, ChecksRun, Loads
  <1>4. ASSUME \A i \in Ids : results'[i] = results[i] \/ results'[i] = Outcome(i) PROVE RoundOk'
    BY <1>1, <1>2, <1>3, <1>4 DEF RoundOk
  <1>5. CASE Probe(a)
    <2>1. /\ req[a].at = "probe" /\ results' = results
          /\ req' = [req EXCEPT ![a].at = "store", ![a].def = Absent,
                                ![a].res = run_one_check(req[a].def, disabled_ids)]
      BY <1>5 DEF Probe
    <2>2. /\ req'[a].at = "store" /\ req'[a].id = req[a].id
          /\ req'[a].res = run_one_check(req[a].def, disabled_ids)
          /\ \A b \in Admins \ {a} : req'[b] = req[b]
      BY <1>2, <2>1 DEF Request
    <2>3. run_one_check(req[a].def, disabled_ids) = Outcome(req[a].id)
      BY <1>2, <2>1 DEF RunOk, Outcome
    <2> QED
      BY <1>4, <2>1, <2>2, <2>3 DEF RunOk
  <1>6. CASE Store(a)
    <2>1. /\ req[a].at = "store" /\ results' = [results EXCEPT ![req[a].id] = req[a].res]
          /\ req' = [req EXCEPT ![a] = NoReq]
      BY <1>6 DEF Store
    <2>2. req'[a].at = "free" /\ \A b \in Admins \ {a} : req'[b] = req[b]
      BY <1>2, <2>1, Empty
    <2>3. req[a].id \in Ids /\ req[a].res = Outcome(req[a].id)
      BY <1>2, <2>1 DEF RunOk, Request
    <2>4. \A i \in Ids : results'[i] = results[i] \/ results'[i] = Outcome(i)
      BY <1>2, <2>1, <2>3
    <2> QED
      BY <1>4, <2>2, <2>4 DEF RunOk
  <1>7. ASSUME NEW i \in Ids, ChecksRun(a, i)
        PROVE  RunOk(req'[a]) /\ (\A b \in Admins \ {a} : req'[b] = req[b]) /\ RoundOk'
    <2>1. /\ req' = [req EXCEPT ![a] = [NoReq EXCEPT !.at = "probe", !.id = i, !.copy = Nothing,
                                                     !.def = file[i]]]
          /\ results' = results
      BY <1>7 DEF ChecksRun, Loads
    <2>2. /\ req'[a].at = "probe" /\ req'[a].id = i /\ req'[a].def = file[i]
          /\ \A b \in Admins \ {a} : req'[b] = req[b]
      BY <1>2, <2>1 DEF NoReq
    <2> QED
      BY <1>4, <2>1, <2>2 DEF RunOk
  <1> QED
    BY <1>5, <1>6, <1>7

LEMMA QuietStep == QuietInv /\ [Next]_vars /\ [Quiet]_vars => QuietInv'
  <1> SUFFICES ASSUME QuietInv, [Next]_vars, [Quiet]_vars PROVE QuietInv'
    OBVIOUS
  <1>1. ChecksInv'
    BY ChecksNextInv DEF QuietInv
  <1>2. file' = file /\ host' = host /\ svc' = svc
    BY FileStandsStill
  <1>3. /\ \A i : Outcome(i)' = Outcome(i)
        /\ disabled_ids' = disabled_ids /\ Defined(file)' = Defined(file) /\ Pinned' = Pinned
        /\ \A r : RunOk(r)' <=> RunOk(r)
    BY <1>2, StandsStill
  <1>4. ASSUME \A a \in Admins : RunOk(req'[a]), RoundOk' PROVE QuietInv'
    <2>1. ASSUME NEW a \in Admins PROVE RunOk(req[a])'
      BY <1>2, <1>3, <1>4 DEF RunOk
    <2> QED
      BY <1>1, <1>4, <2>1 DEF QuietInv
  <1>5. CASE UNCHANGED <<results, req, sweep, carried>>
    BY <1>2, <1>3, <1>4, <1>5 DEF QuietInv, RoundOk
  <1>6. CASE MonitorLoop
    BY <1>2, <1>4, <1>6, QuietRound DEF QuietInv
  <1>7. ASSUME NEW a \in Admins, Probe(a) \/ Store(a) \/ \E i \in Ids : ChecksRun(a, i)
        PROVE  QuietInv'
    <2>1. RunOk(req'[a]) /\ (\A b \in Admins \ {a} : req'[b] = req[b]) /\ RoundOk'
      BY <1>2, <1>7, QuietRun
    <2> QED
      BY <1>4, <2>1 DEF QuietInv
  <1> QED
    BY <1>5, <1>6, <1>7, FileStandsStill

(* From any moment at which the monitor rests and no request is under way, *)
(* for as long as nobody edits and hosts and services stand still, every   *)
(* cycle of the notifier is told of exactly the failing checks that it     *)
(* should hear of, whatever lost edits and stale results went before and   *)
(* whatever checks are run meanwhile.  What ResultsCatchUp and             *)
(* FailuresReachMonitor add to it is that such a cycle comes.              *)
THEOREM QuietRoundsTellTheTruth ==
    Spec => [](Resting /\ [][Quiet]_vars => [][Cycle => alerts' = Failing]_vars)
  <1>1. ChecksInv /\ Resting => QuietInv
    BY DEF Resting, QuietInv, RunOk, RoundOk
  <1>2. ASSUME QuietInv, Cycle PROVE alerts' = Failing
    <2>1. /\ sweep.at = "cycle"
          /\ alerts' = carried \cup {i \in Defined(file) : own_entity(i) /\ results[i] = "down"}
      BY <1>2 DEF Cycle
    <2>2. /\ carried = Pinned
          /\ \A i \in Ids : results[i] = Outcome(i)
      BY <1>2, <2>1 DEF QuietInv, RoundOk
    <2>3. \A i \in Ids : Outcome(i) = "down" => file[i] # Absent
      BY DEF Outcome
    <2> QED
      BY <2>1, <2>2, <2>3 DEF Pinned, Failing, Watched, Defined, own_entity
  <1>3. QuietInv => [Cycle => alerts' = Failing]_vars
    BY <1>2
  <1> QED
    BY <1>1, <1>3, QuietStep, ChecksInitInv, ChecksNextInv, PTL DEF Spec

=============================================================================
