--------------------------------- MODULE Pins --------------------------------
(***************************************************************************)
(* What the controller believes about the certificate of a host: the pin   *)
(* in its registry record (nodes_add, node_update, node_repin) and the     *)
(* expiry date that the monitor's sweep keeps for it in memory.            *)
(*                                                                         *)
(* An edit reads the record, probes the host over the network and only     *)
(* then writes, under _REG_LOCK; nothing keeps another edit, a deletion or *)
(* the sweep out in between.  A certificate is a model value that stands   *)
(* for its fingerprint and its expiry date.                                *)
(***************************************************************************)
EXTENDS FiniteSets

CONSTANTS PinHosts, Urls,
          Https,                 \* the URLs that begin with https
          Certs, NoCert,
          Editors                \* requests that edit the registry

ASSUME PinsAssumption == /\ PinHosts # {} /\ Https # {} /\ Https \subseteq Urls
                         /\ NoCert \notin Certs

VARIABLES rec,                   \* nodes.json: [st, url, fp, paused, src]
          serves,                \* URL -> certificate now served; NoCert: down
          edit,                  \* the requests in flight
          sweep,                 \* _sweep_cert_expiry: [on, ids, todo, url]
          expiry,                \* _cert_expiry_cache; NoCert: no entry
          mixed                  \* history: hosts whose last edits overlapped
pinVars == <<rec, serves, edit, sweep, expiry, mixed>>

\* src is history: the URL the pin was captured from
Record == [st : {"new", "in", "out"}, url : Urls, fp : Certs \cup {NoCert},
           paused : BOOLEAN, src : Urls]
SomeUrl == CHOOSE u \in Https : TRUE
NoEdit == [kind |-> "none", host |-> CHOOSE h \in PinHosts : TRUE, url |-> SomeUrl,
           seen |-> NoCert, alone |-> TRUE, probed |-> FALSE]
NoSweep == [on |-> FALSE, ids |-> {}, todo |-> {}, url |-> [h \in PinHosts |-> SomeUrl]]

PinsTypeOK ==
  /\ rec \in [PinHosts -> Record] /\ serves \in [Https -> Certs \cup {NoCert}]
  /\ edit \in [Editors -> [kind : {"none", "add", "update", "repin", "forget"}, host : PinHosts,
                           url : Urls, seen : Certs \cup {NoCert}, alone : BOOLEAN,
                           probed : BOOLEAN]]
  /\ sweep.ids \subseteq PinHosts /\ sweep.todo \subseteq sweep.ids
  /\ expiry \in [PinHosts -> Certs \cup {NoCert}] /\ mixed \subseteq PinHosts

PinsInit ==
  /\ rec = [h \in PinHosts |-> [st |-> "new", url |-> SomeUrl, fp |-> NoCert,
                                paused |-> FALSE, src |-> SomeUrl]]
  /\ serves \in [Https -> Certs]
  /\ edit = [e \in Editors |-> NoEdit]
  /\ sweep = NoSweep
  /\ expiry = [h \in PinHosts |-> NoCert]
  /\ mixed = {}

-----------------------------------------------------------------------------
(* Edits of the registry *)

Enrolled(h) == rec[h].st = "in"
Others(e, h) == {f \in Editors \ {e} : edit[f].kind # "none" /\ edit[f].host = h}

\* a request has looked the record up and goes off to the host at url
Start(e, kind, h, url) ==
  /\ edit[e].kind = "none"
  /\ edit' = [f \in Editors |->
                IF f = e THEN [NoEdit EXCEPT !.kind = kind, !.host = h, !.url = url,
                                             !.alone = Others(e, h) = {},
                                             !.seen = IF kind = "repin" THEN rec[h].fp ELSE NoCert]
                ELSE [edit[f] EXCEPT !.alone = @ /\ f \notin Others(e, h)]]
  /\ UNCHANGED <<rec, serves, sweep, expiry, mixed>>

nodes_add(e, h) == /\ rec[h].st = "new" /\ Others(e, h) = {}
                   /\ \E url \in Urls : Start(e, "add", h, url)
node_update(e, h) == Enrolled(h) /\ \E url \in Urls : Start(e, "update", h, url)
node_repin(e, h) == Enrolled(h) /\ rec[h].url \in Https /\ Start(e, "repin", h, rec[h].url)

End(e) == edit' = [edit EXCEPT ![e] = NoEdit]

\* probe_node, HostAdapter.probe, cert_fingerprint: the certificate served now,
\* none for http; a host that is down ends the request.  A re-pin also ends if
\* the certificate is not the reviewed one, or is the pinned one.
ProbeHost(e) ==
  LET ed == edit[e]
      down == ed.url \in Https /\ serves[ed.url] = NoCert
      mayEnd == down \/ ed.kind = "repin"
  IN  /\ ed.kind \in {"add", "update", "repin"} /\ ~ed.probed
      /\ \/ mayEnd /\ End(e)
         \/ /\ ~down
            /\ ~ (ed.kind = "repin" /\ serves[ed.url] = ed.seen)
            /\ edit' = [edit EXCEPT ![e].probed = TRUE,
                          ![e].seen = IF ed.url \in Https THEN serves[ed.url] ELSE NoCert]
      /\ UNCHANGED <<rec, serves, sweep, expiry, mixed>>

Mixed(e) == IF edit[e].alone THEN mixed \ {edit[e].host} ELSE mixed \cup {edit[e].host}

AddWrite(e) ==
  LET ed == edit[e]
  IN  /\ ed.kind = "add" /\ ed.probed
      /\ rec' = [rec EXCEPT ![ed.host] = [st |-> "in", url |-> ed.url, fp |-> ed.seen,
                                          paused |-> FALSE, src |-> ed.url]]
      /\ End(e)
      /\ UNCHANGED <<serves, sweep, expiry, mixed>>

\* edits.update(base_url=..., cert_fp=...)
Edits_PinKept(r, ed) == [r EXCEPT !.url = ed.url]
Edits(r, ed) == [r EXCEPT !.url = ed.url, !.fp = ed.seen, !.src = ed.url]

UpdateWrite(e) ==
  LET h == edit[e].host
  IN  /\ edit[e].kind = "update" /\ edit[e].probed
      /\ rec' = IF Enrolled(h) THEN [rec EXCEPT ![h] = Edits(rec[h], edit[e])] ELSE rec
      /\ mixed' = Mixed(e)
      /\ End(e)
      /\ UNCHANGED <<serves, sweep, expiry>>

\* the record is read again, the certificate is of the URL read before
RepinWrite(e) ==
  LET h == edit[e].host
  IN  /\ edit[e].kind = "repin" /\ edit[e].probed
      /\ rec' = IF Enrolled(h)
                THEN [rec EXCEPT ![h].fp = edit[e].seen, ![h].src = edit[e].url] ELSE rec
      /\ mixed' = Mixed(e)
      /\ End(e)
      /\ UNCHANGED <<serves, sweep, expiry>>

\* node_update with `disabled`, which probes nothing
SetPaused(h) ==
  /\ Enrolled(h)
  /\ rec' = [rec EXCEPT ![h].paused = ~ @]
  /\ UNCHANGED <<serves, edit, sweep, expiry, mixed>>

\* node_delete: first the registry, then what else is known of the host
node_delete(e, h) ==
  /\ Enrolled(h) /\ edit[e].kind = "none"
  /\ rec' = [rec EXCEPT ![h].st = "out"]
  /\ edit' = [edit EXCEPT ![e] = [NoEdit EXCEPT !.kind = "forget", !.host = h]]
  /\ UNCHANGED <<serves, sweep, expiry, mixed>>
DeleteForgets(e) ==
  /\ edit[e].kind = "forget"
  /\ expiry' = [expiry EXCEPT ![edit[e].host] = NoCert]
  /\ End(e)
  /\ UNCHANGED <<rec, serves, sweep, mixed>>

-----------------------------------------------------------------------------
(* The sweep, in the monitor thread *)

ToSweep_Unknown(h) == rec[h].url \in Https /\ ~rec[h].paused /\ expiry[h] = NoCert
ToSweep(h) == rec[h].url \in Https /\ ~rec[h].paused

SweepBegin ==
  LET ids == {h \in PinHosts : Enrolled(h)}
  IN  /\ ~sweep.on
      /\ sweep' = [on |-> TRUE, ids |-> ids, todo |-> {h \in ids : ToSweep(h)},
                   url |-> [h \in PinHosts |-> rec[h].url]]
      /\ UNCHANGED <<rec, serves, edit, expiry, mixed>>

\* a host that cannot be read keeps its last value
SweepRead(h) ==
  LET now == serves[sweep.url[h]]
  IN  /\ sweep.on /\ h \in sweep.todo
      /\ expiry' = IF now = NoCert THEN expiry ELSE [expiry EXCEPT ![h] = now]
      /\ sweep' = [sweep EXCEPT !.todo = @ \ {h}]
      /\ UNCHANGED <<rec, serves, edit, mixed>>

Forgotten(h) == h \notin sweep.ids

SweepEnd ==
  /\ sweep.on /\ sweep.todo = {}
  /\ expiry' = [h \in PinHosts |-> IF Forgotten(h) THEN NoCert ELSE expiry[h]]
  /\ sweep' = NoSweep
  /\ UNCHANGED <<rec, serves, edit, mixed>>

\* external: a host renews its certificate, goes down, comes back
Serve(u, c) ==
  /\ serves' = [serves EXCEPT ![u] = c]
  /\ UNCHANGED <<rec, edit, sweep, expiry, mixed>>

PinsNext ==
  \/ \E e \in Editors, h \in PinHosts :
       nodes_add(e, h) \/ node_update(e, h) \/ node_repin(e, h) \/ node_delete(e, h)
  \/ \E e \in Editors : \/ ProbeHost(e) \/ AddWrite(e) \/ UpdateWrite(e) \/ RepinWrite(e)
                        \/ DeleteForgets(e)
  \/ \E h \in PinHosts : SetPaused(h) \/ SweepRead(h)
  \/ SweepBegin \/ SweepEnd
  \/ \E u \in Https, c \in Certs \cup {NoCert} : Serve(u, c)

PinsSpec == PinsInit /\ [][PinsNext]_pinVars

-----------------------------------------------------------------------------
(* The pin of a record is a certificate that was seen at the record's own  *)
(* URL, never one of the host it was moved away from.  Excepted are edits  *)
(* that overlapped: a re-pin in flight over a change of URL pairs the new  *)
(* URL with the old host's certificate, until the URL is saved again.      *)
PinFromOwnUrl ==
  \A h \in PinHosts : (Enrolled(h) /\ h \notin mixed) => rec[h].src = rec[h].url

(* The dates come to say what is true.  Once a host stays reachable at one *)
(* https URL the date is that of the certificate it serves; of a removed   *)
(* host there is none: what a sweep in flight read at a former URL, before *)
(* a renewal or before the removal is corrected.                           *)
DateIs(h, u, c) ==
  \/ rec[h].st = "out" /\ c = NoCert
  \/ /\ Enrolled(h) /\ ~rec[h].paused /\ rec[h].url = u
     /\ c # NoCert /\ serves[u] = c
ExpiryConverges ==
  \A h \in PinHosts, u \in Https, c \in Certs \cup {NoCert} :
    <>[]DateIs(h, u, c) => <>[](expiry[h] = c)
=============================================================================
