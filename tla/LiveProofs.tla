------------------------------ MODULE LiveProofs -----------------------------
(***************************************************************************)
(* Proofs about the components that MCLive runs side by side: the bridge   *)
(* (TokenOnlyToPinned), the pins (PinFromOwnUrl) and their expiry dates    *)
(* when a host stands still, the throttle (BudgetKept), and the types of   *)
(* all three.  Each invariant is proved of its component alone; MCLive's   *)
(* specification implements all of them.                                   *)
(***************************************************************************)
EXTENDS MCLive, Integers, FiniteSetTheorems, WellFoundedInduction, TLAPS

-----------------------------------------------------------------------------
(* The bridge *)

\* What is known where the handler's thread is: past the handshake the pin
\* holds, and there is an upstream socket from the first byte on.
BridgeInv ==
  /\ BridgeTypeOK
  /\ TokenOnlyToPinned
  /\ main = "upgrade" => PinHolds
  /\ main \in {"find", "dial"} => upstream = "none" /\ tokenSent = FALSE
  /\ main \in {"shake", "upgrade"} => upstream = "open"

\* The bridge starts with no socket and no token sent.
LEMMA BridgeInitInv == BridgeInit => BridgeInv
  BY DEF BridgeInit, BridgeInv, BridgeTypeOK, TokenOnlyToPinned, PinHolds

\* Every step of node_ws, of its pump and of the far ends keeps BridgeInv.
LEMMA BridgeNextInv == BridgeInv /\ [BridgeNext]_bridgeVars => BridgeInv'
  <1> SUFFICES ASSUME BridgeInv, [BridgeNext]_bridgeVars PROVE BridgeInv'
    OBVIOUS
  <1> USE DEF BridgeInv, BridgeTypeOK, TokenOnlyToPinned, PinHolds, peers
  <1>1. CASE Find
    BY <1>1 DEF Find
  <1>2. CASE Dial
    BY <1>2 DEF Dial
  <1>3. CASE Shake
    BY <1>3 DEF Shake
  <1>4. CASE Upgrade
    BY <1>4 DEF Upgrade, AfterFailedUpgrade
  <1>5. CASE Refuse
    BY <1>5 DEF Refuse
  <1>6. CASE LeaveLoop
    BY <1>6 DEF LeaveLoop
  <1>7. CASE MainData
    BY <1>7 DEF MainData
  <1>8. CASE MainClose
    BY <1>8 DEF MainClose
  <1>9. CASE PumpHangup
    BY <1>9 DEF PumpHangup
  <1>10. CASE PumpData
    BY <1>10 DEF PumpData
  <1>11. CASE PumpClose
    BY <1>11 DEF PumpClose
  <1>12. CASE BrowserHangsUp
    BY <1>12 DEF BrowserHangsUp
  <1>13. CASE NodeHangsUp
    BY <1>13 DEF NodeHangsUp
  <1>14. CASE UNCHANGED bridgeVars
    BY <1>14 DEF bridgeVars
  <1> QED
    BY <1>1, <1>2, <1>3, <1>4, <1>5, <1>6, <1>7, <1>8, <1>9, <1>10, <1>11, <1>12, <1>13, <1>14
    DEF BridgeNext, MainStep

\* node_ws sends the node's token only after the pin was compared on the very
\* connection, whatever the far ends and the pump do in between.
THEOREM BridgeTokenOnlyToPinned == BridgeSpec => [](BridgeTypeOK /\ TokenOnlyToPinned)
  <1>1. BridgeInv => BridgeTypeOK /\ TokenOnlyToPinned
    BY DEF BridgeInv
  <1> QED
    BY <1>1, BridgeInitInv, BridgeNextInv, PTL DEF BridgeSpec

-----------------------------------------------------------------------------
(* Pins and expiry dates *)

Edit == [kind : {"none", "add", "update", "repin", "forget"}, host : PinHosts, url : Urls,
         seen : Certs \cup {NoCert}, alone : BOOLEAN, probed : BOOLEAN]
Sweep == [on : BOOLEAN, ids : SUBSET PinHosts, todo : SUBSET PinHosts,
          url : [PinHosts -> Urls]]
Busy(e) == edit[e].kind \in {"add", "update", "repin"}

\* The types the steps need: the sweep's list was made of https hosts.
PinTypes ==
  /\ rec \in [PinHosts -> Record] /\ serves \in [Https -> Certs \cup {NoCert}]
  /\ edit \in [Editors -> Edit] /\ sweep \in Sweep
  /\ sweep.todo \subseteq sweep.ids /\ \A h \in sweep.todo : sweep.url[h] \in Https
  /\ expiry \in [PinHosts -> Certs \cup {NoCert}] /\ mixed \subseteq PinHosts

\* Two edits of one host that are in flight together both know it ...
AloneIsAlone == \A e, f \in Editors :
  (e # f /\ Busy(e) /\ Busy(f) /\ edit[e].host = edit[f].host) => ~ edit[e].alone
\* ... so the URL that a re-pin alone read is still the URL of the record.
RepinSeesUrl == \A e \in Editors :
  (edit[e].kind = "repin" /\ edit[e].alone) => rec[edit[e].host].url = edit[e].url

PinsInv == PinTypes /\ AloneIsAlone /\ RepinSeesUrl /\ PinFromOwnUrl

\* The placeholders of an idle editor and an idle sweep are of their types.
LEMMA PlaceholderTypes ==
    /\ SomeUrl \in Https /\ SomeUrl \in Urls
    /\ NoEdit \in Edit /\ NoEdit.kind = "none"
    /\ NoSweep \in Sweep /\ NoSweep.todo = {} /\ NoSweep.ids = {}
  <1>1. SomeUrl \in Https
    BY PinsAssumption DEF SomeUrl
  <1>2. (CHOOSE h \in PinHosts : TRUE) \in PinHosts
    BY PinsAssumption
  <1> QED
    BY <1>1, <1>2, PinsAssumption DEF NoEdit, NoSweep, Edit, Sweep

\* The registry starts empty and nobody edits it.
LEMMA PinsInitInv == PinsInit => PinsInv
  BY PlaceholderTypes, PinsAssumption
  DEF PinsInit, PinsInv, PinTypes, AloneIsAlone, RepinSeesUrl, PinFromOwnUrl, Record,
      Busy, Enrolled

\* A request that starts tells every other edit of its host, and is told.
LEMMA StartInv ==
    ASSUME PinsInv, NEW e \in Editors, NEW h \in PinHosts, NEW url \in Urls,
           NEW kind \in {"add", "update", "repin"}, kind = "repin" => url = rec[h].url,
           Start(e, kind, h, url)
    PROVE  PinsInv'
  <1> USE DEF PinsInv
  <1>1. edit'[e].kind = kind /\ edit'[e].host = h /\ edit'[e].url = url
        /\ edit'[e].alone = (Others(e, h) = {}) /\ edit'[e] \in Edit
    BY PlaceholderTypes DEF Start, NoEdit, Edit, PinTypes, Record
  <1>2. \A f \in Editors \ {e} :
          /\ edit'[f] \in Edit
          /\ edit'[f].kind = edit[f].kind /\ edit'[f].host = edit[f].host
          /\ edit'[f].url = edit[f].url
          /\ edit'[f].alone <=> (edit[f].alone /\ f \notin Others(e, h))
    BY ZenonT(30) DEF Start, Edit, PinTypes
  <1>3. PinTypes'
    <2>1. edit' \in [Editors -> Edit]
      BY <1>1, <1>2 DEF Start
    <2> QED
      BY <2>1 DEF Start, PinTypes
  <1>4. AloneIsAlone'
    <2> SUFFICES ASSUME NEW f \in Editors, NEW g \in Editors, f # g, Busy(f)', Busy(g)',
                        edit'[f].host = edit'[g].host
                 PROVE  ~ edit'[f].alone
      BY DEF AloneIsAlone
    <2>1. CASE f = e
      BY <2>1, <1>1, <1>2 DEF Busy, Others
    <2>2. CASE g = e
      BY <2>2, <1>1, <1>2 DEF Busy, Others
    <2>3. CASE f # e /\ g # e
      BY <2>3, <1>2 DEF Busy, AloneIsAlone
    <2> QED
      BY <2>1, <2>2, <2>3
  <1>5. RepinSeesUrl'
    <2> SUFFICES ASSUME NEW f \in Editors, edit'[f].kind = "repin", edit'[f].alone
                 PROVE  rec[edit'[f].host].url = edit'[f].url
      BY DEF RepinSeesUrl, Start
    <2>1. CASE f = e
      BY <2>1, <1>1
    <2>2. CASE f # e
      BY <2>2, <1>2 DEF RepinSeesUrl
    <2> QED
      BY <2>1, <2>2
  <1>6. PinFromOwnUrl'
    BY DEF PinFromOwnUrl, Enrolled, Start
  <1> QED
    BY <1>3, <1>4, <1>5, <1>6

\* Ending an edit leaves the others as they are.
LEMMA EndFacts ==
    ASSUME PinsInv, NEW e \in Editors, End(e)
    PROVE  /\ edit' \in [Editors -> Edit] /\ edit'[e].kind = "none"
           /\ \A f \in Editors \ {e} : edit'[f] = edit[f]
  BY PlaceholderTypes DEF PinsInv, PinTypes, End

\* The edits that remain are still those that overlap.
LEMMA EndAlone ==
    ASSUME PinsInv, NEW e \in Editors, End(e)
    PROVE  AloneIsAlone'
  BY EndFacts DEF PinsInv, AloneIsAlone, Busy

\* The network call of an edit changes nothing but the edit itself.
LEMMA ProbeInv == ASSUME PinsInv, NEW e \in Editors, ProbeHost(e) PROVE PinsInv'
  <1>1. /\ edit' \in [Editors -> Edit]
        /\ \A f \in Editors : \/ edit'[f].kind = "none"
                              \/ /\ edit'[f].kind = edit[f].kind
                                 /\ edit'[f].host = edit[f].host
                                 /\ edit'[f].url = edit[f].url
                                 /\ edit'[f].alone = edit[f].alone
    <2>1. CASE End(e)
      BY <2>1, EndFacts
    <2>2. CASE /\ ~ (edit[e].url \in Https /\ serves[edit[e].url] = NoCert)
               /\ edit' = [edit EXCEPT ![e].probed = TRUE,
                             ![e].seen = IF edit[e].url \in Https
                                         THEN serves[edit[e].url] ELSE NoCert]
      <3>1. PICK c \in Certs \cup {NoCert} :
              edit' = [edit EXCEPT ![e] = [@ EXCEPT !.probed = TRUE, !.seen = c]]
        <4>1. (IF edit[e].url \in Https THEN serves[edit[e].url] ELSE NoCert)
                \in Certs \cup {NoCert}
          BY DEF PinsInv, PinTypes
        <4> QED
          BY <2>2, <4>1 DEF PinsInv, PinTypes
      <3>2. edit \in [Editors -> Edit]
        BY DEF PinsInv, PinTypes
      <3> QED
        BY <3>1, <3>2, ZenonT(30) DEF Edit
    <2> QED
      BY <2>1, <2>2 DEF ProbeHost
  <1>2. UNCHANGED <<rec, serves, sweep, expiry, mixed>>
    BY DEF ProbeHost
  <1>3. PinTypes'
    BY <1>1, <1>2 DEF PinsInv, PinTypes
  <1>4. AloneIsAlone'
    BY <1>1 DEF PinsInv, AloneIsAlone, Busy
  <1>5. RepinSeesUrl'
    BY <1>1, <1>2 DEF PinsInv, RepinSeesUrl
  <1>6. PinFromOwnUrl'
    BY <1>2 DEF PinsInv, PinFromOwnUrl, Enrolled
  <1> QED
    BY <1>3, <1>4, <1>5, <1>6 DEF PinsInv

\* The write of an edit: what it stores agrees with itself, and an edit that
\* loses its URL under it is not alone.
LEMMA WriteInv ==
    ASSUME PinsInv, NEW e \in Editors, AddWrite(e) \/ UpdateWrite(e) \/ RepinWrite(e)
    PROVE  PinsInv'
  <1> DEFINE h == edit[e].host
  <1>1. /\ h \in PinHosts /\ edit[e] \in Edit /\ Busy(e) /\ End(e) /\ rec[h] \in Record
        /\ UNCHANGED <<serves, sweep, expiry>>
    BY DEF PinsInv, PinTypes, AddWrite, UpdateWrite, RepinWrite, Busy, Edit
  <1>2. PICK r \in Record :
          /\ rec' = [rec EXCEPT ![h] = r]
          /\ r.st = "in" => \/ r.src = r.url
                            \/ /\ RepinWrite(e)
                               /\ r.src = edit[e].url /\ r.url = rec[h].url
    <2>1. rec \in [PinHosts -> Record]
      BY DEF PinsInv, PinTypes
    <2>2. CASE AddWrite(e)
      <3> DEFINE r == [st |-> "in", url |-> edit[e].url, fp |-> edit[e].seen,
                       paused |-> FALSE, src |-> edit[e].url]
      <3>1. r \in Record /\ r.src = r.url
        BY <1>1 DEF Record, Edit
      <3> QED
        BY <2>2, <3>1 DEF AddWrite
    <2>3. CASE ~ Enrolled(h) /\ rec' = rec
      BY <2>1, <2>3, <1>1 DEF Enrolled
    <2>4. CASE UpdateWrite(e) /\ Enrolled(h)
      <3>1. Edits(rec[h], edit[e]) \in Record
            /\ Edits(rec[h], edit[e]).src = Edits(rec[h], edit[e]).url
        BY <1>1 DEF Edits, Record, Edit
      <3> QED
        BY <2>4, <3>1 DEF UpdateWrite
    <2>5. CASE RepinWrite(e) /\ Enrolled(h)
      <3> DEFINE r == [rec[h] EXCEPT !.fp = edit[e].seen, !.src = edit[e].url]
      <3>1. r \in Record /\ r.src = edit[e].url /\ r.url = rec[h].url
        BY <1>1 DEF Record, Edit
      <3>2. rec' = [rec EXCEPT ![h] = r]
        BY <2>5, <2>1 DEF RepinWrite
      <3> QED
        BY <2>5, <3>1, <3>2
    <2> QED
      BY <2>2, <2>3, <2>4, <2>5 DEF UpdateWrite, RepinWrite
  <1>3. mixed' \subseteq PinHosts /\ \A k \in PinHosts \ {h} : k \in mixed' <=> k \in mixed
    BY <1>1 DEF PinsInv, PinTypes, AddWrite, UpdateWrite, RepinWrite, Mixed
  <1>4. PinTypes'
    BY <1>1, <1>2, <1>3, EndFacts DEF PinsInv, PinTypes
  <1>5. AloneIsAlone'
    BY <1>1, EndAlone
  <1>6. RepinSeesUrl'
    <2> SUFFICES ASSUME NEW f \in Editors, edit'[f].kind = "repin", edit'[f].alone
                 PROVE  rec'[edit'[f].host].url = edit'[f].url
      BY DEF RepinSeesUrl
    <2>1. f # e /\ edit'[f] = edit[f] /\ rec[edit[f].host].url = edit[f].url
          /\ edit[f].host \in PinHosts
      BY <1>1, EndFacts DEF PinsInv, PinTypes, RepinSeesUrl, Edit
    <2>2. edit[f].host # h
      BY <1>1, <2>1 DEF PinsInv, AloneIsAlone, Busy
    <2> QED
      BY <2>1, <2>2, <1>2
  <1>7. PinFromOwnUrl'
    <2>1. ASSUME r.st = "in", h \notin mixed' PROVE r.src = r.url
      <3>1. ASSUME RepinWrite(e) PROVE rec[h].url = edit[e].url
        BY <2>1, <3>1, <1>1 DEF RepinWrite, Mixed, PinsInv, RepinSeesUrl
      <3> QED
        BY <2>1, <3>1, <1>2
    <2>2. rec \in [PinHosts -> Record]
      BY DEF PinsInv, PinTypes
    <2> QED
      BY <2>1, <2>2, <1>1, <1>2, <1>3 DEF PinsInv, PinFromOwnUrl, Enrolled
  <1> QED
    BY <1>4, <1>5, <1>6, <1>7 DEF PinsInv

\* Pausing and removing a host move no URL and no pin.
LEMMA PauseInv == ASSUME PinsInv, NEW h \in PinHosts, SetPaused(h) PROVE PinsInv'
  <1>1. PICK r \in Record : /\ rec' = [rec EXCEPT ![h] = r]
                            /\ r.st = rec[h].st /\ r.url = rec[h].url /\ r.src = rec[h].src
    <2> DEFINE r == [rec[h] EXCEPT !.paused = ~ @]
    <2>1. rec[h] \in Record
      BY DEF PinsInv, PinTypes
    <2>2. r \in Record /\ r.st = rec[h].st /\ r.url = rec[h].url /\ r.src = rec[h].src
      BY <2>1 DEF Record
    <2>3. rec' = [rec EXCEPT ![h] = r]
      BY DEF SetPaused, PinsInv, PinTypes
    <2> QED
      BY <2>2, <2>3
  <1>2. UNCHANGED <<serves, edit, sweep, expiry, mixed>>
    BY DEF SetPaused
  <1>3. PinTypes'
    BY <1>1, <1>2 DEF PinsInv, PinTypes
  <1>4. AloneIsAlone' /\ RepinSeesUrl' /\ PinFromOwnUrl'
    <2>1. edit \in [Editors -> Edit] /\ rec \in [PinHosts -> Record]
      BY DEF PinsInv, PinTypes
    <2> QED
      BY <2>1, <1>1, <1>2
      DEF PinsInv, AloneIsAlone, Busy, RepinSeesUrl, PinFromOwnUrl, Enrolled, Edit
  <1> QED
    BY <1>3, <1>4 DEF PinsInv

\* node_delete takes the record out and is then no edit that writes it.
LEMMA DeleteInv ==
    ASSUME PinsInv, NEW e \in Editors, NEW h \in PinHosts, node_delete(e, h)
    PROVE  PinsInv'
  <1>0. edit \in [Editors -> Edit] /\ rec \in [PinHosts -> Record]
    BY DEF PinsInv, PinTypes
  <1>1. PICK r \in Record : /\ rec' = [rec EXCEPT ![h] = r]
                            /\ r.st = "out" /\ r.url = rec[h].url
    <2> DEFINE r == [rec[h] EXCEPT !.st = "out"]
    <2>1. r \in Record /\ r.st = "out" /\ r.url = rec[h].url
      BY <1>0 DEF Record
    <2>2. rec' = [rec EXCEPT ![h] = r]
      BY <1>0 DEF node_delete
    <2> QED
      BY <2>1, <2>2
  <1>2. PICK d \in Edit : edit' = [edit EXCEPT ![e] = d] /\ d.kind = "forget"
    <2> DEFINE d == [NoEdit EXCEPT !.kind = "forget", !.host = h]
    <2>1. d \in Edit /\ d.kind = "forget"
      BY PlaceholderTypes DEF Edit, NoEdit
    <2> QED
      BY <2>1 DEF node_delete
  <1>3. UNCHANGED <<serves, sweep, expiry, mixed>>
    BY DEF node_delete
  <1>4. PinTypes'
    BY <1>0, <1>1, <1>2, <1>3 DEF PinsInv, PinTypes
  <1>5. AloneIsAlone' /\ RepinSeesUrl' /\ PinFromOwnUrl'
    BY <1>0, <1>1, <1>2, <1>3
    DEF PinsInv, AloneIsAlone, Busy, RepinSeesUrl, PinFromOwnUrl, Enrolled, Edit
  <1> QED
    BY <1>4, <1>5 DEF PinsInv

\* The steps that touch no record: the end of a removal, the sweep, the hosts.
LEMMA OtherPinsInv ==
    ASSUME PinsInv,
           \/ \E e \in Editors : DeleteForgets(e)
           \/ SweepBegin \/ SweepEnd \/ \E h \in PinHosts : SweepRead(h)
           \/ \E u \in Https, c \in Certs \cup {NoCert} : Serve(u, c)
    PROVE  PinsInv'
  <1>1. UNCHANGED <<rec, mixed>>
    BY DEF DeleteForgets, SweepBegin, SweepEnd, SweepRead, Serve
  <1>2. edit' = edit \/ \E e \in Editors : End(e)
    BY DEF DeleteForgets, SweepBegin, SweepEnd, SweepRead, Serve
  <1>3. edit' \in [Editors -> Edit] /\ AloneIsAlone' /\ RepinSeesUrl'
    <2>1. CASE edit' = edit
      BY <2>1, <1>1 DEF PinsInv, PinTypes, AloneIsAlone, RepinSeesUrl, Busy
    <2>2. CASE \E e \in Editors : End(e)
      BY <2>2, <1>1, EndFacts, EndAlone DEF PinsInv, RepinSeesUrl
    <2> QED
      BY <1>2, <2>1, <2>2
  <1>4. PinFromOwnUrl'
    BY <1>1 DEF PinsInv, PinFromOwnUrl, Enrolled
  <1>5. PinTypes'
    <2> USE DEF PinsInv, PinTypes
    <2>1. CASE \E e \in Editors : DeleteForgets(e)
      BY <2>1, <1>1, <1>3 DEF DeleteForgets
    <2>2. CASE SweepBegin
      BY <2>2, <1>1, <1>3 DEF SweepBegin, Sweep, ToSweep, Record
    <2>3. CASE SweepEnd
      BY <2>3, <1>1, <1>3, PlaceholderTypes DEF SweepEnd
    <2>4. ASSUME NEW h \in PinHosts, SweepRead(h) PROVE PinTypes'
      <3>1. serves[sweep.url[h]] \in Certs \cup {NoCert}
        BY <2>4 DEF SweepRead
      <3>2. expiry' \in [PinHosts -> Certs \cup {NoCert}]
        BY <2>4, <3>1 DEF SweepRead
      <3>3. /\ sweep' \in Sweep /\ sweep'.todo = sweep.todo \ {h}
            /\ sweep'.ids = sweep.ids /\ sweep'.url = sweep.url
        BY <2>4 DEF SweepRead, Sweep
      <3> QED
        BY <2>4, <1>1, <1>3, <3>2, <3>3 DEF SweepRead
    <2>5. CASE \E u \in Https, c \in Certs \cup {NoCert} : Serve(u, c)
      BY <2>5, <1>1, <1>3 DEF Serve
    <2> QED
      BY <2>1, <2>2, <2>3, <2>4, <2>5
  <1> QED
    BY <1>3, <1>4, <1>5 DEF PinsInv

\* Every step of an editor, of the sweep and of the hosts keeps PinsInv.
LEMMA PinsNextInv == PinsInv /\ [PinsNext]_pinVars => PinsInv'
  <1> SUFFICES ASSUME PinsInv, [PinsNext]_pinVars PROVE PinsInv'
    OBVIOUS
  <1>1. ASSUME NEW e \in Editors, NEW h \in PinHosts,
               nodes_add(e, h) \/ node_update(e, h) \/ node_repin(e, h)
        PROVE  PinsInv'
    <2>1. rec[h].url \in Urls
      BY DEF PinsInv, PinTypes, Record
    <2> QED
      BY <1>1, <2>1, StartInv DEF nodes_add, node_update, node_repin
  <1>2. CASE UNCHANGED pinVars
    BY <1>2 DEF pinVars, PinsInv, PinTypes, AloneIsAlone, Busy, RepinSeesUrl,
                PinFromOwnUrl, Enrolled
  <1> QED
    BY <1>1, <1>2, DeleteInv, ProbeInv, WriteInv, PauseInv, OtherPinsInv DEF PinsNext

\* A record's pin was seen at the record's own URL, although every edit of it
\* decides from a copy that it read before the network call: an edit that could
\* pair a pin with another URL overlapped one that knew it.
THEOREM PinsPinFromOwnUrl == PinsSpec => [](PinsTypeOK /\ PinFromOwnUrl)
  <1>1. PinsInv => PinsTypeOK /\ PinFromOwnUrl
    BY DEF PinsInv, PinTypes, PinsTypeOK, Edit, Sweep
  <1> QED
    BY <1>1, PinsInitInv, PinsNextInv, PTL DEF PinsSpec

\* An id is enrolled once and by one request, and what is being forgotten is gone.
PendingOk == \A e \in Editors :
  /\ edit[e].kind = "add" => /\ rec[edit[e].host].st = "new"
                             /\ Others(e, edit[e].host) = {}
  /\ edit[e].kind = "forget" => rec[edit[e].host].st = "out"

LEMMA PendingStep == PinsInv /\ PendingOk /\ [PinsNext]_pinVars => PendingOk'
  <1> SUFFICES ASSUME PinsInv, PendingOk, [PinsNext]_pinVars PROVE PendingOk'
    OBVIOUS
  <1>1. edit \in [Editors -> Edit] /\ rec \in [PinHosts -> Record] /\ NoEdit \in Edit /\ NoEdit.kind = "none"
    BY PlaceholderTypes DEF PinsInv, PinTypes
  <1>2. ASSUME rec' = rec,
               \A e \in Editors : edit'[e].kind = "none" \/ (/\ edit'[e].kind = edit[e].kind
                                                             /\ edit'[e].host = edit[e].host)
        PROVE  PendingOk'
    BY <1>2 DEF PendingOk, Others
  <1>3. ASSUME NEW e \in Editors, NEW h \in PinHosts, NEW kind \in {"add", "update", "repin"},
               NEW url \in Urls, Start(e, kind, h, url),
               IF kind = "add" THEN rec[h].st = "new" /\ Others(e, h) = {} ELSE Enrolled(h)
        PROVE  PendingOk'
    <2>1. /\ rec' = rec /\ edit'[e].kind = kind /\ edit'[e].host = h
          /\ \A f \in Editors \ {e} : edit'[f].kind = edit[f].kind /\ edit'[f].host = edit[f].host
      BY <1>1, <1>3 DEF Start, Edit
    <2>2. \A f \in Editors \ {e} : edit[f].kind = "add" => edit[f].host # h
      BY <1>3 DEF PendingOk, Enrolled, Others
    <2> QED
      BY <1>3, <2>1, <2>2 DEF PendingOk, Others, Enrolled
  <1>4. ASSUME NEW e \in Editors, End(e)
        PROVE  edit'[e].kind = "none" /\ \A f \in Editors \ {e} : edit'[f] = edit[f]
    BY <1>1, <1>4 DEF End
  <1>5. ASSUME NEW e \in Editors, ProbeHost(e) PROVE PendingOk'
    <2>1. rec' = rec /\ (\A f \in Editors \ {e} : edit'[f] = edit[f])
          /\ (edit'[e].kind = "none" \/ (edit'[e].kind = edit[e].kind /\ edit'[e].host = edit[e].host))
      BY <1>1, <1>4, <1>5 DEF ProbeHost, Edit
    <2> QED
      BY <1>2, <2>1
  <1>6. ASSUME NEW e \in Editors, AddWrite(e) \/ UpdateWrite(e) \/ RepinWrite(e)
        PROVE  PendingOk'
    <2> DEFINE h == edit[e].host
    <2>1. End(e) /\ edit[e].kind \in {"add", "update", "repin"} /\ h \in PinHosts
      BY <1>1, <1>6 DEF AddWrite, UpdateWrite, RepinWrite, Edit
    <2>2. /\ \A g \in PinHosts \ {h} : rec'[g] = rec[g]
          /\ rec'[h].st = rec[h].st \/ edit[e].kind = "add"
      <3>1. CASE AddWrite(e)
        BY <1>1, <2>1, <3>1 DEF AddWrite
      <3>2. CASE UpdateWrite(e)
        BY <1>1, <2>1, <3>2 DEF UpdateWrite, Edits, Record
      <3>3. CASE RepinWrite(e)
        BY <1>1, <2>1, <3>3 DEF RepinWrite, Record
      <3> QED
        BY <1>6, <3>1, <3>2, <3>3
    <2>3. edit'[e].kind = "none" /\ \A f \in Editors \ {e} : edit'[f] = edit[f]
      BY <1>4, <2>1
    <2>4. ASSUME NEW f \in Editors \ {e}, edit[f].kind # "none", edit[f].host = h
          PROVE  rec'[h].st = rec[h].st
      BY <2>2, <2>4 DEF PendingOk, Others
    <2>5. \A f \in Editors : edit[f].host \in PinHosts
      BY <1>1 DEF Edit
    <2> HIDE DEF h
    <2> QED
      BY <2>2, <2>3, <2>4, <2>5 DEF PendingOk, Others
  <1>7. ASSUME NEW e \in Editors, NEW h \in PinHosts, node_delete(e, h) PROVE PendingOk'
    <2>1. /\ rec[h].st = "in" /\ rec'[h].st = "out" /\ \A g \in PinHosts \ {h} : rec'[g] = rec[g]
      BY <1>1, <1>7 DEF node_delete, Enrolled, Record
    <2>2. /\ edit'[e].kind = "forget" /\ edit'[e].host = h
          /\ \A f \in Editors \ {e} : edit'[f] = edit[f]
      BY <1>1, <1>7 DEF node_delete, Edit
    <2>3. \A f \in Editors : edit[f].host \in PinHosts
      BY <1>1 DEF Edit
    <2> QED
      BY <2>1, <2>2, <2>3 DEF PendingOk, Others
  <1>8. ASSUME NEW h \in PinHosts, SetPaused(h) PROVE PendingOk'
    <2>1. edit' = edit /\ \A g \in PinHosts : rec'[g].st = rec[g].st
      BY <1>1, <1>8 DEF SetPaused, Record
    <2>2. \A f \in Editors : edit[f].host \in PinHosts
      BY <1>1 DEF Edit
    <2> QED
      BY <2>1, <2>2 DEF PendingOk, Others
  <1>9. ASSUME NEW e \in Editors, DeleteForgets(e) PROVE PendingOk'
    BY <1>2, <1>4, <1>9 DEF DeleteForgets
  <1>10. ASSUME \/ SweepBegin \/ SweepEnd \/ \E h \in PinHosts : SweepRead(h)
                \/ \E u \in Https, c \in Certs \cup {NoCert} : Serve(u, c)
                \/ UNCHANGED pinVars
         PROVE  PendingOk'
    <2>1. rec' = rec /\ edit' = edit
      BY <1>10 DEF SweepBegin, SweepEnd, SweepRead, Serve, pinVars
    <2> QED
      BY <1>2, <2>1
  <1>11. ASSUME NEW e \in Editors, NEW h \in PinHosts,
                nodes_add(e, h) \/ node_update(e, h) \/ node_repin(e, h)
         PROVE  PendingOk'
    <2>1. rec[h].url \in Urls
      BY <1>1 DEF Record
    <2> QED
      BY <1>3, <1>11, <2>1 DEF nodes_add, node_update, node_repin
  <1> QED
    BY <1>5, <1>6, <1>7, <1>8, <1>9, <1>10, <1>11 DEF PinsNext

\* A sweep that began since the host stands still has the host at its URL, and what
\* it has read there is true; of a removed host it has nothing.
SweepKnows(h, u, c) ==
  sweep.on => /\ h \in sweep.todo => h \in sweep.ids
              /\ Enrolled(h) => /\ h \in sweep.ids /\ sweep.url[h] = u
                                /\ h \in sweep.todo \/ expiry[h] = c
              /\ rec[h].st = "out" => h \notin sweep.ids

\* A date that is true is kept, and every sweep that ends has found it.
LEMMA SweepKnowsStep ==
  ASSUME NEW h \in PinHosts, NEW u \in Https, NEW c \in Certs \cup {NoCert},
         PinsInv, PendingOk, DateIs(h, u, c), DateIs(h, u, c)', SweepKnows(h, u, c),
         [PinsNext]_pinVars
  PROVE  /\ SweepKnows(h, u, c)'
         /\ SweepEnd => expiry'[h] = c
         /\ expiry[h] = c => expiry'[h] = c
  <1>1. /\ sweep \in Sweep /\ expiry \in [PinHosts -> Certs \cup {NoCert}]
        /\ edit \in [Editors -> Edit] /\ sweep.todo \subseteq sweep.ids
    BY DEF PinsInv, PinTypes
  <1>2. /\ Enrolled(h)' <=> Enrolled(h)
        /\ Enrolled(h) => rec[h].url = u /\ ~rec[h].paused /\ serves[u] = c /\ c # NoCert
        /\ rec'[h].st = "out" <=> rec[h].st = "out"
        /\ rec[h].st = "out" => c = NoCert
        /\ Enrolled(h) \/ rec[h].st = "out"
    BY DEF DateIs, Enrolled
  <1>3. ASSUME sweep' = sweep, expiry[h] = c => expiry'[h] = c, ~SweepEnd
        PROVE  SweepKnows(h, u, c)' /\ ~SweepEnd
    BY <1>2, <1>3 DEF SweepKnows
  <1>4. CASE SweepBegin
    <2>1. /\ sweep'.on /\ expiry' = expiry /\ ~sweep.on
          /\ sweep'.ids = {g \in PinHosts : Enrolled(g)}
          /\ sweep'.todo = {g \in sweep'.ids : ToSweep(g)} /\ sweep'.url[h] = rec[h].url
      BY <1>4 DEF SweepBegin
    <2>2. Enrolled(h) => ToSweep(h)
      BY <1>2 DEF ToSweep
    <2>3. SweepKnows(h, u, c)'
      BY <1>2, <2>1, <2>2 DEF SweepKnows, Enrolled
    <2>4. ~SweepEnd
      BY <2>1 DEF SweepEnd
    <2> QED
      BY <2>1, <2>3, <2>4
  <1>5. ASSUME NEW g \in PinHosts, SweepRead(g)
        PROVE  SweepKnows(h, u, c)' /\ ~SweepEnd /\ (expiry[h] = c => expiry'[h] = c)
    <2>1. /\ sweep.on /\ g \in sweep.todo /\ sweep' = [sweep EXCEPT !.todo = @ \ {g}]
          /\ expiry' = expiry \/ expiry' = [expiry EXCEPT ![g] = serves[sweep.url[g]]]
          /\ serves[sweep.url[g]] # NoCert => expiry' = [expiry EXCEPT ![g] = serves[sweep.url[g]]]
      BY <1>5 DEF SweepRead
    <2>2. /\ sweep'.on = sweep.on /\ sweep'.ids = sweep.ids /\ sweep'.url = sweep.url
          /\ sweep'.todo = sweep.todo \ {g}
      BY <1>1, <2>1 DEF Sweep
    <2>3. g = h => Enrolled(h) /\ expiry'[h] = c
      BY <1>1, <1>2, <2>1 DEF SweepKnows
    <2>4. g # h => expiry'[h] = expiry[h]
      BY <1>1, <2>1
    <2>5. ~SweepEnd
      BY <2>1 DEF SweepEnd
    <2> QED
      BY <1>2, <2>1, <2>2, <2>3, <2>4, <2>5 DEF SweepKnows
  <1>6. CASE SweepEnd
    <2>1. /\ sweep.on /\ sweep.todo = {} /\ sweep' = NoSweep
          /\ expiry'[h] = IF h \notin sweep.ids THEN NoCert ELSE expiry[h]
      BY <1>6 DEF SweepEnd, Forgotten
    <2>2. expiry'[h] = c
      BY <1>2, <2>1 DEF SweepKnows
    <2> QED
      BY <2>1, <2>2 DEF SweepKnows, NoSweep
  <1>7. ASSUME NEW e \in Editors, DeleteForgets(e)
        PROVE  SweepKnows(h, u, c)' /\ ~SweepEnd /\ (expiry[h] = c => expiry'[h] = c)
    <2>1. /\ edit[e].kind = "forget" /\ expiry' = [expiry EXCEPT ![edit[e].host] = NoCert]
          /\ sweep' = sweep
      BY <1>7 DEF DeleteForgets
    <2>2. edit[e].host = h => c = NoCert
      BY <1>2, <2>1 DEF PendingOk
    <2>3. expiry[h] = c => expiry'[h] = c
      BY <1>1, <2>1, <2>2
    <2>4. ~SweepEnd
      BY <1>7, <2>1 DEF SweepEnd, NoSweep
    <2> QED
      BY <1>3, <2>1, <2>3, <2>4
  <1>8. ASSUME \/ \E e \in Editors : \/ ProbeHost(e) \/ AddWrite(e) \/ UpdateWrite(e) \/ RepinWrite(e)
                                     \/ \E g \in PinHosts : \/ nodes_add(e, g) \/ node_update(e, g)
                                                            \/ node_repin(e, g) \/ node_delete(e, g)
               \/ \E g \in PinHosts : SetPaused(g)
               \/ \E v \in Https, d \in Certs \cup {NoCert} : Serve(v, d)
               \/ UNCHANGED pinVars
        PROVE  UNCHANGED <<sweep, expiry>>
    BY <1>8, ZenonT(30) DEF ProbeHost, AddWrite, UpdateWrite, RepinWrite, nodes_add, node_update, node_repin,
                node_delete, Start, SetPaused, Serve, pinVars
  <1>9. ASSUME UNCHANGED <<sweep, expiry>>
        PROVE  SweepKnows(h, u, c)' /\ ~SweepEnd
    <2>1. ~SweepEnd
      BY <1>9 DEF SweepEnd, NoSweep
    <2> QED
      BY <1>3, <1>9, <2>1
  <1> QED
    BY <1>4, <1>5, <1>6, <1>7, <1>8, <1>9 DEF PinsNext

(* What is safe in ExpiryConverges: from any moment between two sweeps, for *)
(* as long as the host stays as it is at one URL (or removed), every sweep  *)
(* that ends leaves its date true, and a date that is true stays, whatever  *)
(* edits, deletions and renewals of other hosts are under way.             *)
THEOREM QuietSweepsTellTheTruth ==
    ASSUME NEW h \in PinHosts, NEW u \in Https, NEW c \in Certs \cup {NoCert}
    PROVE  PinsSpec => [](~sweep.on /\ []DateIs(h, u, c) =>
                            /\ [][SweepEnd => expiry'[h] = c]_pinVars
                            /\ [](expiry[h] = c => [](expiry[h] = c)))
  <1> DEFINE Is == DateIs(h, u, c)
             Knows == SweepKnows(h, u, c)
             True == expiry[h] = c
  <1>1. PinsInit => PendingOk
    BY PlaceholderTypes DEF PinsInit, PendingOk
  <1>2. ~sweep.on => Knows
    BY DEF SweepKnows
  <1>3. PinsInv /\ PendingOk /\ Is /\ Is' /\ Knows /\ [PinsNext]_pinVars
        => /\ Knows' /\ [SweepEnd => expiry'[h] = c]_pinVars
           /\ True => True'
    BY SweepKnowsStep
  <1> QED
    BY <1>1, <1>2, <1>3, PinsInitInv, PinsNextInv, PendingStep, PTL DEF PinsSpec

-----------------------------------------------------------------------------
(* The login throttle *)

\* Induction up to n, over a set in place of a predicate: the least number that
\* is not in T would follow one that is.
LEMMA IntervalInduction ==
    ASSUME NEW n \in Nat, NEW T, 0 \in T, \A m \in 0 .. n - 1 : m \in T => m + 1 \in T
    PROVE  0 .. n \subseteq T
  <1> DEFINE Bad == 0 .. n \ T
  <1>1. SUFFICES ASSUME Bad # {} PROVE FALSE
    OBVIOUS
  <1>2. IsWellFoundedOn({ss \in Nat \X Nat : ss[1] < ss[2]}, Nat)
    BY NatLessThanWellFounded DEF OpToRel
  <1>3. Bad \subseteq Nat
    OBVIOUS
  <1>4. PICK x \in Bad : \A y \in Bad : ~ (<<y, x>> \in {ss \in Nat \X Nat : ss[1] < ss[2]})
    BY <1>1, <1>2, <1>3, WFMin
  <1>5. x \in Nat /\ x # 0 /\ x - 1 \in 0 .. n - 1 /\ x \notin T /\ (x - 1) + 1 = x
    BY <1>3, <1>4
  <1>6. x - 1 \in T
    <2>1. ~ (<<x - 1, x>> \in {ss \in Nat \X Nat : ss[1] < ss[2]}) => FALSE
      BY <1>5
    <2> QED
      BY <2>1, <1>4, <1>5
  <1> QED
    BY <1>5, <1>6

Ages == 0 .. LOGIN_WINDOW
YoungAges == 0 .. LOGIN_WINDOW - 1
\* One turn of the loop in Recent, and the function that the loop computes.
KeepStep(ts, g, i) ==
  IF i = 0 THEN <<>>
  ELSE IF ts[i] < LOGIN_WINDOW THEN Append(g[i - 1], ts[i]) ELSE g[i - 1]
Kept(ts) == CHOOSE g : g = [i \in 0 .. Len(ts) |-> KeepStep(ts, g, i)]
\* The failures among the first m that are not stale.
Young(ts, m) == {j \in 1 .. m : ts[j] < LOGIN_WINDOW}

\* Recent is what the loop holds at the end.
LEMMA RecentKept == \A ts : Recent(ts) = Kept(ts)[Len(ts)]
  BY DEF Recent, Kept, KeepStep

\* The loop's equation has a solution, so Kept is one.
LEMMA KeptDefined ==
   ASSUME NEW ts \in Seq(Ages)
   PROVE  Kept(ts) = [i \in 0 .. Len(ts) |-> KeepStep(ts, Kept(ts), i)]
  <1> DEFINE T == {m \in Nat : \E g : g = [i \in 0 .. m |-> KeepStep(ts, g, i)]}
  <1>1. Len(ts) \in Nat
    OBVIOUS
  <1>2. 0 \in T
    <2> DEFINE g == [i \in 0 .. 0 |-> <<>>]
    <2>1. g = [i \in 0 .. 0 |-> KeepStep(ts, g, i)]
      BY DEF KeepStep
    <2> HIDE DEF g
    <2> QED
      BY <2>1
  <1>3. ASSUME NEW m \in 0 .. Len(ts) - 1, m \in T PROVE m + 1 \in T
    <2>1. m \in Nat /\ m + 1 # 0 /\ m + 1 \in Nat /\ (m + 1) - 1 = m
      BY <1>1, <1>3
    <2>2. PICK g : g = [i \in 0 .. m |-> KeepStep(ts, g, i)]
      BY <1>3
    <2> DEFINE f == [i \in 0 .. m + 1 |-> IF i = m + 1 THEN KeepStep(ts, g, m + 1) ELSE g[i]]
    <2>3. f[m] = g[m] /\ f[m + 1] = KeepStep(ts, g, m + 1)
      BY <2>1
    <2>4. f[m + 1] = KeepStep(ts, f, m + 1)
      BY <2>1, <2>3 DEF KeepStep
    <2>5. ASSUME NEW i \in 0 .. m PROVE f[i] = KeepStep(ts, f, i)
      <3>1. f[i] = g[i] /\ (i # 0 => f[i - 1] = g[i - 1])
        BY <2>1
      <3>2. g[i] = KeepStep(ts, g, i)
        BY <2>2
      <3> QED
        BY <3>1, <3>2 DEF KeepStep
    <2>6. f = [i \in 0 .. m + 1 |-> KeepStep(ts, f, i)]
      <3>1. \A i \in 0 .. m + 1 : f[i] = KeepStep(ts, f, i)
        BY <2>1, <2>4, <2>5
      <3> QED
        BY <3>1
    <2> HIDE DEF f
    <2> QED
      BY <2>1, <2>6
  <1> HIDE DEF T
  <1>4. 0 .. Len(ts) \subseteq T
    BY <1>1, <1>2, <1>3, IntervalInduction
  <1>5. Len(ts) \in T
    BY <1>1, <1>4
  <1> QED
    BY <1>5 DEF T, Kept

\* The list that _login_throttled prunes to has one entry for each failure that
\* is not stale, and no other.
LEMMA KeptCounts ==
  ASSUME NEW ts \in Seq(Ages)
  PROVE  /\ Kept(ts)[Len(ts)] \in Seq(YoungAges)
         /\ IsFiniteSet(Young(ts, Len(ts)))
         /\ Len(Kept(ts)[Len(ts)]) = Cardinality(Young(ts, Len(ts)))
  <1> DEFINE g == Kept(ts)
             T == {m \in 0 .. Len(ts) : /\ g[m] \in Seq(YoungAges)
                                        /\ IsFiniteSet(Young(ts, m))
                                        /\ Len(g[m]) = Cardinality(Young(ts, m))}
  <1>1. Len(ts) \in Nat
    OBVIOUS
  <1>2. \A m \in 0 .. Len(ts) : g[m] = KeepStep(ts, g, m)
    BY KeptDefined
  <1> HIDE DEF g
  <1>3. 0 \in T
    <2>1. Young(ts, 0) = {}
      BY DEF Young
    <2>2. g[0] = <<>>
      BY <1>1, <1>2 DEF KeepStep
    <2>3. IsFiniteSet({}) /\ Cardinality({}) = 0
      BY FS_EmptySet
    <2>4. g[0] \in Seq(YoungAges) /\ Len(g[0]) = 0 /\ 0 \in 0 .. Len(ts)
      BY <1>1, <2>2
    <2>5. Len(g[0]) = Cardinality(Young(ts, 0)) /\ IsFiniteSet(Young(ts, 0))
      BY <2>1, <2>3, <2>4
    <2> QED
      BY <2>4, <2>5
  <1>4. ASSUME NEW m \in 0 .. Len(ts) - 1, m \in T PROVE m + 1 \in T
    <2>1. m \in Nat /\ m + 1 \in 1 .. Len(ts) /\ (m + 1) - 1 = m /\ m + 1 # 0
          /\ m + 1 \in 0 .. Len(ts)
      BY <1>1, <1>4
    <2>2. g[m + 1] = KeepStep(ts, g, m + 1)
      BY <1>2, <2>1
    <2>3. ts[m + 1] \in Ages
      BY <2>1
    <2>4. CASE ts[m + 1] < LOGIN_WINDOW
      <3>1. g[m + 1] = Append(g[m], ts[m + 1])
        BY <2>1, <2>2, <2>4 DEF KeepStep
      <3>2. ts[m + 1] \in YoungAges
        BY <2>3, <2>4, ThrottleAssumption DEF Ages, YoungAges
      <3>3. g[m + 1] \in Seq(YoungAges) /\ Len(g[m + 1]) = Len(g[m]) + 1
        BY <1>4, <3>1, <3>2
      <3>4. Young(ts, m + 1) = Young(ts, m) \cup {m + 1} /\ m + 1 \notin Young(ts, m)
        BY <2>1, <2>4 DEF Young
      <3>5. IsFiniteSet(Young(ts, m + 1))
            /\ Cardinality(Young(ts, m + 1)) = Cardinality(Young(ts, m)) + 1
        BY <1>4, <3>4, FS_AddElement
      <3> QED
        BY <1>4, <2>1, <3>3, <3>5
    <2>5. CASE ~ (ts[m + 1] < LOGIN_WINDOW)
      <3>1. g[m + 1] = g[m]
        BY <2>1, <2>2, <2>5 DEF KeepStep
      <3>2. Young(ts, m + 1) = Young(ts, m)
        BY <2>1, <2>5 DEF Young
      <3> QED
        BY <1>4, <2>1, <3>1, <3>2
    <2> QED
      BY <2>4, <2>5
  <1> HIDE DEF T
  <1>5. 0 .. Len(ts) \subseteq T
    BY <1>1, <1>3, <1>4, IntervalInduction
  <1>6. Len(ts) \in T
    BY <1>1, <1>5
  <1> QED
    BY <1>6 DEF T, g

\* Recent as a count: its length is the number of the failures that are not stale.
LEMMA RecentCount ==
    ASSUME NEW ts \in Seq(Ages)
    PROVE  /\ Recent(ts) \in Seq(YoungAges) /\ Recent(ts) \in Seq(Ages)
           /\ Len(Recent(ts)) \in Nat
           /\ IsFiniteSet(Young(ts, Len(ts)))
           /\ Len(Recent(ts)) = Cardinality(Young(ts, Len(ts)))
  <1>1. Recent(ts) \in Seq(YoungAges)
    BY KeptCounts, RecentKept
  <1>2. YoungAges \subseteq Ages
    BY ThrottleAssumption DEF YoungAges, Ages
  <1> QED
    BY <1>1, <1>2, KeptCounts, RecentKept

\* Pruning a list again drops nothing.
LEMMA RecentTwice ==
    ASSUME NEW ts \in Seq(Ages)
    PROVE  Len(Recent(Recent(ts))) = Len(Recent(ts))
  <1> DEFINE r == Recent(ts)
  <1>1. r \in Seq(YoungAges) /\ r \in Seq(Ages) /\ Len(r) \in Nat
    BY RecentCount
  <1>2. \A j \in 1 .. Len(r) : r[j] < LOGIN_WINDOW
    BY <1>1, ThrottleAssumption DEF YoungAges
  <1> HIDE DEF r
  <1>3. Young(r, Len(r)) = 1 .. Len(r)
    BY <1>2 DEF Young
  <1>4. Cardinality(1 .. Len(r)) = Len(r)
    <2>1. 1 \in Int /\ Len(r) \in Int
      BY <1>1
    <2>2. Cardinality(1 .. Len(r)) = IF 1 > Len(r) THEN 0 ELSE Len(r) - 1 + 1
      BY <2>1, FS_Interval
    <2> QED
      BY <1>1, <2>2
  <1>5. Len(Recent(r)) = Len(r)
    BY <1>1, <1>3, <1>4, RecentCount
  <1> QED
    BY <1>5 DEF r

\* A failure recorded now counts once.
LEMMA RecentAppend ==
    ASSUME NEW ts \in Seq(Ages)
    PROVE  /\ Append(ts, 0) \in Seq(Ages)
           /\ Len(Recent(Append(ts, 0))) = Len(Recent(ts)) + 1
  <1> DEFINE a == Append(ts, 0)
             n == Len(ts)
  <1>1. 0 \in Ages /\ 0 < LOGIN_WINDOW
    BY ThrottleAssumption DEF Ages
  <1>2. /\ n \in Nat /\ a \in Seq(Ages) /\ Len(a) = n + 1 /\ a[n + 1] = 0
        /\ \A j \in 1 .. n : a[j] = ts[j]
    BY <1>1
  <1> HIDE DEF a, n
  <1>3. Young(a, n + 1) = Young(ts, n) \cup {n + 1} /\ n + 1 \notin Young(ts, n)
    BY <1>1, <1>2 DEF Young
  <1>4. IsFiniteSet(Young(ts, n)) /\ Len(Recent(ts)) = Cardinality(Young(ts, n))
    BY RecentCount DEF n
  <1>5. Len(Recent(a)) = Cardinality(Young(a, n + 1))
    BY <1>2, RecentCount
  <1>6. Len(Recent(a)) = Len(Recent(ts)) + 1
    BY <1>3, <1>4, <1>5, FS_AddElement
  <1> QED
    BY <1>2, <1>6 DEF a

\* No failure becomes recent again as time goes on.
LEMMA RecentOlder ==
    ASSUME NEW ts \in Seq(Ages)
    PROVE  LET t == [i \in DOMAIN ts |-> Older(ts[i])]
           IN  t \in Seq(Ages) /\ Len(Recent(t)) <= Len(Recent(ts))
  <1> DEFINE t == [i \in DOMAIN ts |-> Older(ts[i])]
             n == Len(ts)
  <1>1. n \in Nat /\ DOMAIN ts = 1 .. n /\ \A i \in 1 .. n : ts[i] \in Ages
    OBVIOUS
  <1>2. \A i \in 1 .. n : Older(ts[i]) \in Ages /\ (Older(ts[i]) < LOGIN_WINDOW => ts[i] < LOGIN_WINDOW)
    BY <1>1, ThrottleAssumption DEF Ages, Older
  <1>3. t \in Seq(Ages) /\ Len(t) = n /\ \A i \in 1 .. n : t[i] = Older(ts[i])
    BY <1>1, <1>2
  <1> HIDE DEF t, n
  <1>4. Young(t, n) \subseteq Young(ts, n)
    BY <1>2, <1>3 DEF Young
  <1>5. IsFiniteSet(Young(ts, n)) /\ Len(Recent(ts)) = Cardinality(Young(ts, n))
    BY RecentCount DEF n
  <1>6. Len(Recent(t)) = Cardinality(Young(t, n))
    BY <1>3, RecentCount
  <1>7. Len(Recent(t)) <= Len(Recent(ts))
    BY <1>4, <1>5, <1>6, FS_Subset
  <1> QED
    BY <1>3, <1>7 DEF t

\* A key with no failures counts none.
LEMMA RecentEmpty == <<>> \in Seq(Ages) /\ Len(Recent(<<>>)) = 0
  <1>1. <<>> \in Seq(Ages) /\ Len(<<>>) = 0
    OBVIOUS
  <1>2. Young(<<>>, 0) = {}
    BY DEF Young
  <1>3. Len(Recent(<<>>)) = Cardinality({})
    BY <1>1, <1>2, RecentCount
  <1> QED
    BY <1>1, <1>3, FS_EmptySet

\* The keys of addresses and of (address, name) pairs are all different.
LEMMA KeyFacts ==
    /\ \A i, j : IpKey(i) = IpKey(j) => i = j
    /\ \A i, j, m, n : UserKey(i, m) = UserKey(j, n) => i = j /\ m = n
    /\ \A i, j, n : IpKey(i) # UserKey(j, n)
  BY DEF IpKey, UserKey

\* The keys that an attempt writes, the attempts past the check on a key, and
\* the budget of a key.
KeysOf(a) == {IpKey(a.ip), UserKey(a.ip, a.name)}
Waiting(k) == {r \in LoginRequests : attempt[r] # NoAttempt /\ k \in KeysOf(attempt[r])}
Budget(k) == IF \E ip \in Ips : k = IpKey(ip) THEN LOGIN_MAX_PER_IP ELSE LOGIN_MAX_PER_USER
Count(k) == Len(Recent(fails[k]))

\* The failures of a window and those still to be recorded: each attempt past
\* the check was let in below the budget, and there are as many as threads.
ThrottleInv ==
  /\ ThrottleTypeOK
  /\ \A k \in Keys : Count(k) + Cardinality(Waiting(k)) <= Budget(k) + Slack

\* What the arithmetic needs of a key.
LEMMA KeyNumbers ==
    ASSUME ThrottleTypeOK, NEW k \in Keys
    PROVE  /\ fails[k] \in Seq(Ages) /\ Count(k) \in Nat /\ Budget(k) \in Nat \ {0}
           /\ IsFiniteSet(Waiting(k)) /\ Cardinality(Waiting(k)) \in Nat
           /\ Cardinality(Waiting(k)) <= Cardinality(LoginRequests)
           /\ Cardinality(LoginRequests) \in Nat
           /\ Slack = Cardinality(LoginRequests) - 1 /\ Slack \in Nat
  <1>1. fails[k] \in Seq(Ages)
    BY DEF ThrottleTypeOK, Ages
  <1>2. Count(k) \in Nat
    BY <1>1, RecentCount DEF Count
  <1>3. IsFiniteSet(LoginRequests) /\ LoginRequests # {}
    BY ThrottleAssumption
  <1>4. Waiting(k) \in SUBSET LoginRequests
    BY DEF Waiting
  <1>5. IsFiniteSet(Waiting(k)) /\ Cardinality(Waiting(k)) <= Cardinality(LoginRequests)
    BY <1>3, <1>4, FS_Subset
  <1>6. Cardinality(LoginRequests) \in Nat \ {0} /\ Cardinality(Waiting(k)) \in Nat
    BY <1>3, <1>5, FS_CardinalityType, FS_EmptySet
  <1>7. Budget(k) \in Nat \ {0}
    BY ThrottleAssumption DEF Budget
  <1> QED
    BY <1>1, <1>2, <1>5, <1>6, <1>7 DEF Slack

\* prune_fails forgets no failure of the window.
LEMMA PruneCounts ==
    ASSUME ThrottleTypeOK, NEW K, NEW k \in Keys
    PROVE  prune_fails(K)[k] \in Seq(Ages) /\ Len(Recent(prune_fails(K)[k])) = Count(k)
  <1>1. fails[k] \in Seq(Ages)
    BY KeyNumbers
  <1>2. prune_fails(K)[k] = IF k \in K THEN Recent(fails[k]) ELSE fails[k]
    BY DEF prune_fails
  <1> QED
    BY <1>1, <1>2, RecentCount, RecentTwice DEF Count

\* An invariant of the counts is one of the two budgets.
LEMMA BudgetOfCounts == ThrottleInv => BudgetKept
  <1> SUFFICES ASSUME ThrottleInv, NEW k \in Keys PROVE Count(k) <= Budget(k) + Slack
    <2>1. \A ip \in Ips : IpKey(ip) \in Keys /\ Budget(IpKey(ip)) = LOGIN_MAX_PER_IP
      BY DEF Keys, Budget
    <2>2. \A ip \in Ips, n \in Names :
            UserKey(ip, n) \in Keys /\ Budget(UserKey(ip, n)) = LOGIN_MAX_PER_USER
      BY KeyFacts DEF Keys, Budget
    <2> QED
      BY <2>1, <2>2 DEF BudgetKept, Count
  <1> QED
    BY KeyNumbers DEF ThrottleInv

\* No failures, no attempts.
LEMMA ThrottleInitInv == ThrottleInit => ThrottleInv
  <1> SUFFICES ASSUME ThrottleInit PROVE ThrottleInv
    OBVIOUS
  <1>1. ThrottleTypeOK
    BY RecentEmpty DEF ThrottleInit, ThrottleTypeOK, Ages
  <1>2. ASSUME NEW k \in Keys PROVE Count(k) + Cardinality(Waiting(k)) <= Budget(k) + Slack
    <2>1. Count(k) = 0
      BY RecentEmpty DEF ThrottleInit, Count
    <2>2. Waiting(k) = {}
      BY DEF ThrottleInit, Waiting
    <2>3. Cardinality({}) = 0
      BY FS_EmptySet
    <2> QED
      BY <1>1, <2>1, <2>2, <2>3, KeyNumbers
  <1> QED
    BY <1>1, <1>2 DEF ThrottleInv

\* A step that counts no new failure and adds no attempt keeps the invariant.
LEMMA QuietThrottleStep ==
    ASSUME ThrottleInv, ThrottleTypeOK',
           \A k \in Keys : Count(k)' <= Count(k) /\ Waiting(k)' \subseteq Waiting(k)
    PROVE  ThrottleInv'
  <1> SUFFICES ASSUME NEW k \in Keys
               PROVE  Count(k)' + Cardinality(Waiting(k)') <= Budget(k) + Slack
    BY DEF ThrottleInv, Budget, Slack
  <1>1. Count(k)' \in Nat
    <2>1. fails'[k] \in Seq(Ages)
      BY DEF ThrottleTypeOK, Ages
    <2> QED
      BY <2>1, RecentCount DEF Count
  <1>2. IsFiniteSet(Waiting(k)) /\ Cardinality(Waiting(k)) \in Nat /\ Count(k) \in Nat
        /\ Budget(k) \in Nat /\ Slack \in Nat
    BY KeyNumbers DEF ThrottleInv
  <1>3. IsFiniteSet(Waiting(k)') /\ Cardinality(Waiting(k)') <= Cardinality(Waiting(k))
    BY <1>2, FS_Subset
  <1>4. Cardinality(Waiting(k)') \in Nat
    BY <1>3, FS_CardinalityType
  <1> QED
    BY <1>1, <1>2, <1>3, <1>4 DEF ThrottleInv

\* A refused attempt only prunes.
LEMMA RefusedInv ==
    ASSUME ThrottleInv, NEW ip \in Ips, NEW name \in Names, LoginRefused(ip, name)
    PROVE  ThrottleInv'
  <1>1. /\ fails' = prune_fails(Touched(ip, name)) /\ attempt' = attempt
        /\ ThrottleTypeOK
    BY DEF LoginRefused, ThrottleInv
  <1>2. \A k \in Keys : fails'[k] \in Seq(Ages) /\ Len(Recent(fails'[k])) = Count(k)
    BY <1>1, PruneCounts
  <1>3. ThrottleTypeOK'
    BY <1>1, <1>2 DEF ThrottleTypeOK, prune_fails, Ages
  <1>4. \A k \in Keys : Count(k)' <= Count(k) /\ Waiting(k)' \subseteq Waiting(k)
    BY <1>1, <1>2, KeyNumbers DEF Count, Waiting
  <1> QED
    BY <1>3, <1>4, QuietThrottleStep

\* An attempt that passes the check finds both of its keys below their budget.
LEMMA BeginInv ==
    ASSUME ThrottleInv, NEW r \in LoginRequests, NEW ip \in Ips, NEW name \in Names,
           LoginBegin(r, ip, name)
    PROVE  ThrottleInv'
  <1> DEFINE a == [ip |-> ip, name |-> name]
  <1>1. /\ fails' = prune_fails(Touched(ip, name)) /\ attempt[r] = NoAttempt
        /\ attempt' = [attempt EXCEPT ![r] = a] /\ ThrottleTypeOK
    BY DEF LoginBegin, ThrottleInv
  <1>2. \A k \in Keys : fails'[k] \in Seq(Ages) /\ Len(Recent(fails'[k])) = Count(k)
    BY <1>1, PruneCounts
  <1>3. ThrottleTypeOK'
    BY <1>1, <1>2 DEF ThrottleTypeOK, prune_fails, Ages
  <1>4. SUFFICES ASSUME NEW k \in Keys
                 PROVE  Count(k)' + Cardinality(Waiting(k)') <= Budget(k) + Slack
    BY <1>3 DEF ThrottleInv, Budget, Slack
  <1>5. Count(k)' = Count(k)
    BY <1>2 DEF Count
  <1>6. CASE k \in KeysOf(a)
    <2>1. Count(k) < Budget(k)
      <3>1. Count(IpKey(ip)) \in Nat /\ Count(UserKey(ip, name)) \in Nat
        BY <1>1, KeyNumbers DEF Keys
      <3>2. Count(IpKey(ip)) < LOGIN_MAX_PER_IP
            /\ Count(UserKey(ip, name)) < LOGIN_MAX_PER_USER
        BY <3>1, ThrottleAssumption
        DEF LoginBegin, login_throttled, IpSpent, UserSpent, Count
      <3> QED
        BY <1>6, <3>2, KeyFacts DEF KeysOf, Budget
    <2>2. Cardinality(Waiting(k)') <= Cardinality(LoginRequests)
          /\ Cardinality(Waiting(k)') \in Nat
      <3>1. IsFiniteSet(LoginRequests) /\ Waiting(k)' \in SUBSET LoginRequests
        BY ThrottleAssumption DEF Waiting
      <3> QED
        BY <3>1, FS_Subset, FS_CardinalityType
    <2> QED
      BY <2>1, <2>2, <1>1, <1>5, KeyNumbers
  <1>7. CASE k \notin KeysOf(a)
    <2>1. Waiting(k)' = Waiting(k)
      BY <1>1, <1>7 DEF Waiting, ThrottleTypeOK
    <2> QED
      BY <2>1, <1>5 DEF ThrottleInv
  <1> QED
    BY <1>6, <1>7

\* A failure that is recorded is an attempt that is no longer waiting.
LEMMA FailedInv ==
    ASSUME ThrottleInv, NEW r \in LoginRequests, login_failed(r)
    PROVE  ThrottleInv'
  <1> DEFINE a == attempt[r]
             s == swept(a.ip, a.name)
  <1>1. /\ ThrottleTypeOK /\ a # NoAttempt /\ a \in [ip : Ips, name : Names]
        /\ attempt' = [attempt EXCEPT ![r] = NoAttempt]
        /\ fails' = [s EXCEPT ![IpKey(a.ip)] = Append(@, 0),
                              ![UserKey(a.ip, a.name)] = Append(@, 0)]
    BY DEF login_failed, ThrottleInv, ThrottleTypeOK
  <1>2. \A k \in Keys : s[k] \in Seq(Ages) /\ Len(Recent(s[k])) = Count(k)
    BY <1>1, PruneCounts, KeyNumbers DEF swept, Count
  <1>3. DOMAIN s = Keys
    BY <1>1 DEF swept, prune_fails, ThrottleTypeOK
  <1>4. IpKey(a.ip) \in Keys /\ UserKey(a.ip, a.name) \in Keys
        /\ IpKey(a.ip) # UserKey(a.ip, a.name)
    BY <1>1, KeyFacts DEF Keys
  <1> HIDE DEF s
  <1>5. \A k \in Keys : fails'[k] = IF k \in KeysOf(a) THEN Append(s[k], 0) ELSE s[k]
    BY <1>1, <1>3, <1>4 DEF KeysOf
  <1>6. \A k \in Keys : /\ fails'[k] \in Seq(Ages)
                        /\ Count(k)' = IF k \in KeysOf(a) THEN Count(k) + 1 ELSE Count(k)
    BY <1>2, <1>5, RecentAppend DEF Count
  <1>7. ThrottleTypeOK'
    BY <1>1, <1>3, <1>6 DEF ThrottleTypeOK, Ages
  <1>8. SUFFICES ASSUME NEW k \in Keys
                 PROVE  Count(k)' + Cardinality(Waiting(k)') <= Budget(k) + Slack
    BY <1>7 DEF ThrottleInv, Budget, Slack
  <1>9. Waiting(k)' = Waiting(k) \ {r} /\ (r \in Waiting(k) <=> k \in KeysOf(a))
    BY <1>1 DEF Waiting, ThrottleTypeOK
  <1>10. Cardinality(Waiting(k) \ {r}) = IF r \in Waiting(k) THEN Cardinality(Waiting(k)) - 1
                                         ELSE Cardinality(Waiting(k))
    BY <1>1, KeyNumbers, FS_RemoveElement
  <1> HIDE DEF a
  <1> QED
    BY <1>1, <1>6, <1>9, <1>10, KeyNumbers DEF ThrottleInv

\* A success clears one key and records nothing.
LEMMA SucceededInv ==
    ASSUME ThrottleInv, NEW r \in LoginRequests, login_succeeded(r)
    PROVE  ThrottleInv'
  <1> DEFINE u == UserKey(attempt[r].ip, attempt[r].name)
  <1>1. /\ ThrottleTypeOK /\ attempt' = [attempt EXCEPT ![r] = NoAttempt]
        /\ fails' = [fails EXCEPT ![u] = <<>>]
    BY DEF login_succeeded, ThrottleInv
  <1> HIDE DEF u
  <1>2. \A k \in Keys : fails'[k] = fails[k] \/ fails'[k] = <<>>
    BY <1>1 DEF ThrottleTypeOK
  <1>3. \A k \in Keys : fails'[k] \in Seq(Ages) /\ Count(k)' <= Count(k)
    BY <1>1, <1>2, KeyNumbers, RecentEmpty DEF Count
  <1>4. ThrottleTypeOK'
    BY <1>1, <1>3 DEF ThrottleTypeOK, Ages
  <1>5. \A k \in Keys : Waiting(k)' \subseteq Waiting(k)
    BY <1>1 DEF Waiting, ThrottleTypeOK
  <1> QED
    BY <1>3, <1>4, <1>5, QuietThrottleStep

\* Time only lets failures go stale.
LEMMA TickInv == ASSUME ThrottleInv, ThrottleTick PROVE ThrottleInv'
  <1>1. ThrottleTypeOK /\ attempt' = attempt
        /\ fails' = [k \in Keys |-> [i \in DOMAIN fails[k] |-> Older(fails[k][i])]]
    BY DEF ThrottleTick, ThrottleInv
  <1>2. \A k \in Keys : fails'[k] \in Seq(Ages) /\ Count(k)' <= Count(k)
    BY <1>1, KeyNumbers, RecentOlder DEF Count
  <1>3. ThrottleTypeOK'
    BY <1>1, <1>2 DEF ThrottleTypeOK, Ages
  <1>4. \A k \in Keys : Waiting(k)' \subseteq Waiting(k)
    BY <1>1 DEF Waiting
  <1> QED
    BY <1>2, <1>3, <1>4, QuietThrottleStep

\* Every step of a login and of the clock keeps the counts within the budgets.
LEMMA ThrottleNextInv == ThrottleInv /\ [ThrottleNext]_throttleVars => ThrottleInv'
  <1> SUFFICES ASSUME ThrottleInv, [ThrottleNext]_throttleVars PROVE ThrottleInv'
    OBVIOUS
  <1>1. CASE UNCHANGED throttleVars
    BY <1>1 DEF throttleVars, ThrottleInv, ThrottleTypeOK, Count, Waiting, Budget, Slack
  <1> QED
    BY <1>1, RefusedInv, BeginInv, FailedInv, SucceededInv, TickInv DEF ThrottleNext

\* api_login checks the budget in one lock section and records the failure in
\* another, with the password check in between: the failures of a window exceed
\* a budget by less than the number of threads, for every number of threads.
THEOREM ThrottleBudgetKept == ThrottleSpec => [](ThrottleTypeOK /\ BudgetKept)
  <1>1. ThrottleInv => ThrottleTypeOK /\ BudgetKept
    BY BudgetOfCounts DEF ThrottleInv
  <1> QED
    BY <1>1, ThrottleInitInv, ThrottleNextInv, PTL DEF ThrottleSpec

-----------------------------------------------------------------------------
(* The three together *)

\* A step of MCLive is a step of one component and stutters in the others.
LEMMA LiveStep == [Next]_liveVars => /\ [ThrottleNext]_throttleVars
                                     /\ [BridgeNext]_bridgeVars
                                     /\ [PinsNext]_pinVars
  BY DEF Next, liveVars, throttleVars, bridgeVars, pinVars

\* MCLive checks each component as its own specification has it.
THEOREM LiveImplementsParts == Spec => ThrottleSpec /\ BridgeSpec /\ PinsSpec
  <1>1. Init => ThrottleInit /\ BridgeInit /\ PinsInit
    BY DEF Init
  <1> QED
    BY <1>1, LiveStep, PTL DEF Spec, ThrottleSpec, BridgeSpec, PinsSpec

\* The failed logins, the sockets and threads of the bridge, the records, edits
\* and dates of the hosts keep their types, and the three promises hold together.
THEOREM LiveSafe == Spec => [](TypeOK /\ BudgetKept /\ TokenOnlyToPinned /\ PinFromOwnUrl)
  BY LiveImplementsParts, ThrottleBudgetKept, BridgeTokenOnlyToPinned, PinsPinFromOwnUrl, PTL
  DEF TypeOK

=============================================================================
