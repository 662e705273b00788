------------------------------ MODULE PartsProofs ----------------------------
(***************************************************************************)
(* Proofs about the components of MCParts, which share no state: the       *)
(* assertions of single sign-on (ReplaysBounded, AcceptedUnderConfig), the *)
(* sessions of the collectors (SavedWasRight, CalmPollsSucceed), the       *)
(* delivery of events to webhooks (HooksKeepUp), the files that belong     *)
(* together (FilesGoTogether); and their composition, with the pure        *)
(* functions of QuestionsProofs.                                           *)
(***************************************************************************)
EXTENDS MCParts, QuestionsProofs, FiniteSetTheorems, TLAPS

-----------------------------------------------------------------------------
(* Single sign-on *)

Callback == [pc : {"idle", "arrived", "checking"}, jti : Jtis \cup {NoOne}, cfg : Config,
             now : 0 .. SsoMaxClock, inForce : SUBSET (Issuers \cup {NoOne})]
Assertion == [iss : Issuers \cup {NoOne}, iat : Times, exp : Times]

\* A callback under way carries a signed assertion; its reading of the clock is
\* never ahead; it has seen the configuration of now, and the one it verifies by.
CallbacksOk == \A t \in Callbacks :
  /\ cb[t].now <= clock
  /\ cb[t].pc # "idle" => /\ cb[t].jti \in Jtis /\ minted[cb[t].jti].iss # NoOne
                          /\ config.iss \in cb[t].inForce
  /\ cb[t].pc = "checking" => cb[t].cfg.iss \in cb[t].inForce

\* What was accepted is remembered with its own expiry until it has expired, and
\* till then was accepted once.
Remembered == \A j \in Jtis :
  /\ seen[j] # 0 => minted[j].iss # NoOne /\ seen[j] = minted[j].exp
  /\ uses[j] # 0 => /\ minted[j].iss # NoOne
                    /\ clock < minted[j].exp => seen[j] = minted[j].exp /\ uses[j] = 1

\* Once it is forgotten, every further acceptance takes one of the callbacks that
\* were late then; whoever purged it was not.
Room(j) == uses[j] + Cardinality(Late(j)) <= Cardinality(Callbacks)
Forgotten == \A j \in Jtis : ((uses[j] # 0 /\ seen[j] = 0) \/ uses[j] > 1) => Room(j)

SsoInv == SsoTypeOK /\ CallbacksOk /\ Remembered /\ Forgotten

\* The callbacks that are late are some of all.
LEMMA LateSome ==
    ASSUME NEW S \in SUBSET Callbacks
    PROVE  /\ Cardinality(S) \in Nat /\ Cardinality(Callbacks) \in Nat
           /\ \A t \in Callbacks \ S : Cardinality(S) + 1 <= Cardinality(Callbacks)
           /\ \A t \in S : Cardinality(S \ {t}) = Cardinality(S) - 1
           /\ \A R \in SUBSET S : Cardinality(R) <= Cardinality(S) /\ Cardinality(R) \in Nat
  <1>1. IsFiniteSet(Callbacks) /\ IsFiniteSet(S)
    BY SsoAssumption, FS_Subset
  <1>2. Cardinality(S) \in Nat /\ Cardinality(Callbacks) \in Nat
    BY <1>1, FS_CardinalityType
  <1>3. ASSUME NEW t \in Callbacks \ S PROVE Cardinality(S) + 1 <= Cardinality(Callbacks)
    <2>1. IsFiniteSet(S \cup {t}) /\ Cardinality(S \cup {t}) = Cardinality(S) + 1
      BY <1>1, <1>3, FS_AddElement
    <2>2. S \cup {t} \subseteq Callbacks
      OBVIOUS
    <2> QED
      BY <1>1, <2>1, <2>2, FS_Subset
  <1>4. ASSUME NEW t \in S PROVE Cardinality(S \ {t}) = Cardinality(S) - 1
    BY <1>1, <1>4, FS_RemoveElement
  <1>5. ASSUME NEW R \in SUBSET S
        PROVE  Cardinality(R) <= Cardinality(S) /\ Cardinality(R) \in Nat
    BY <1>1, FS_Subset, FS_CardinalityType
  <1> QED
    BY <1>2, <1>3, <1>4, <1>5

\* Where no callback becomes late and nothing is accepted or forgotten, what was
\* bounded stays so.
LEMMA NoneLater ==
    ASSUME SsoInv, UNCHANGED <<uses, seen>>,
           \A j \in Jtis : \/ Late(j)' \subseteq Late(j)
                           \/ uses[j] = 0 \/ (uses[j] = 1 /\ seen[j] # 0)
    PROVE  Forgotten'
  <1> SUFFICES ASSUME NEW j \in Jtis, (uses[j] # 0 /\ seen[j] = 0) \/ uses[j] > 1
               PROVE  Room(j)'
    BY DEF Forgotten
  <1>1. Late(j)' \subseteq Late(j)
    OBVIOUS
  <1>2. Late(j) \in SUBSET Callbacks
    BY DEF Late
  <1>3. Cardinality(Late(j)') <= Cardinality(Late(j)) /\ Cardinality(Late(j)') \in Nat
        /\ Cardinality(Late(j)) \in Nat /\ Cardinality(Callbacks) \in Nat
    BY <1>1, <1>2, LateSome
  <1>4. Room(j) /\ uses[j] \in Nat
    BY DEF SsoInv, Forgotten, SsoTypeOK
  <1> QED
    BY <1>3, <1>4 DEF Room

\* Numbers and placeholders of single sign-on are of their types.
LEMMA SsoPlaceholders ==
    /\ Off \in Config /\ Off.iss = NoOne /\ Idle \in Callback /\ Idle.pc = "idle"
    /\ Idle.now = 0 /\ 0 \in Times /\ 0 \in 0 .. SsoMaxClock
  BY SsoAssumption DEF Off, Config, Idle, Callback, Times

\* The configuration in force is one, whoever set it.
LEMMA ConfigType ==
    ASSUME SsoTypeOK
    PROVE  /\ config \in Config /\ config.iss \in Issuers \cup {NoOne}
           /\ cb \in [Callbacks -> Callback] /\ minted \in [Jtis -> Assertion]
  BY SsoPlaceholders DEF SsoTypeOK, config, Config, Off, Callback, Assertion

\* A new process remembers nothing and has accepted nothing.
LEMMA SsoInitInv == SsoInit => SsoInv
  <1> SUFFICES ASSUME SsoInit PROVE SsoInv
    OBVIOUS
  <1>1. env \in Config
    BY SsoPlaceholders DEF SsoInit, Config
  <1>2. minted \in [Jtis -> Assertion] /\ cb \in [Callbacks -> Callback]
    BY SsoPlaceholders DEF SsoInit, Assertion
  <1>3. SsoTypeOK
    BY <1>1, <1>2, SsoPlaceholders DEF SsoInit, SsoTypeOK, Callback, Assertion
  <1> QED
    BY <1>3, SsoPlaceholders
    DEF SsoInit, SsoInv, CallbacksOk, Remembered, Forgotten

\* A change of the configuration reaches every callback under way.
LEMMA NowInForceFacts ==
    ASSUME SsoTypeOK, NEW c \in Config, cb' = NowInForce(c)
    PROVE  /\ cb' \in [Callbacks -> Callback]
           /\ \A t \in Callbacks :
                /\ cb'[t].pc = cb[t].pc /\ cb'[t].jti = cb[t].jti /\ cb'[t].cfg = cb[t].cfg
                /\ cb'[t].now = cb[t].now /\ cb[t].inForce \subseteq cb'[t].inForce
                /\ cb[t].pc # "idle" => c.iss \in cb'[t].inForce
  <1>1. cb \in [Callbacks -> Callback] /\ c.iss \in Issuers \cup {NoOne}
    BY ConfigType DEF Config, Off
  <1> QED
    BY <1>1 DEF NowInForce, Callback

\* sso_enroll and sso_disable change the configuration and nothing remembered.
LEMMA EnrollInv ==
    ASSUME SsoInv, EnrollEnd \/ sso_disable \/ \E i \in Issuers : EnrollBegin(i)
    PROVE  SsoInv'
  <1>1. UNCHANGED <<clock, env, minted, seen, uses>> /\ SsoTypeOK
    BY DEF EnrollBegin, EnrollEnd, sso_disable, SsoInv
  <1>2. redeeming' \in Issuers \cup {NoOne}
    BY <1>1 DEF EnrollBegin, EnrollEnd, sso_disable, SsoTypeOK
  <1>3. \/ stored' = stored /\ cb' = cb
        \/ \E c \in Config : stored' = c /\ cb' = NowInForce(c)
    <2>1. CASE EnrollEnd
      <3>1. ASSUME NEW ok \in BOOLEAN, redeeming # NoOne
            PROVE  [iss |-> redeeming, usable |-> ok] \in Config
        BY <1>1, <3>1 DEF SsoTypeOK, Config
      <3> QED
        BY <2>1, <3>1 DEF EnrollEnd
    <2>2. CASE sso_disable
      BY <2>2, SsoPlaceholders DEF sso_disable
    <2>3. CASE \E i \in Issuers : EnrollBegin(i)
      BY <2>3 DEF EnrollBegin
    <2> QED
      BY <2>1, <2>2, <2>3
  <1>4. stored' \in Config /\ cb' \in [Callbacks -> Callback]
    BY <1>1, <1>3, NowInForceFacts, ConfigType DEF SsoTypeOK
  <1>5. SsoTypeOK'
    BY <1>1, <1>2, <1>4 DEF SsoTypeOK, Callback
  <1>6. CallbacksOk'
    <2>1. config' \in {config, stored'}
      BY <1>1 DEF config
    <2>2. CASE stored' = stored /\ cb' = cb
      BY <2>2, <1>1 DEF SsoInv, CallbacksOk, config
    <2>3. ASSUME NEW c \in Config, stored' = c, cb' = NowInForce(c) PROVE CallbacksOk'
      BY <2>1, <2>3, <1>1, NowInForceFacts DEF SsoInv, CallbacksOk
    <2> QED
      BY <1>3, <2>2, <2>3
  <1>7. Remembered'
    BY <1>1 DEF SsoInv, Remembered
  <1>8. \A t \in Callbacks : /\ cb'[t].pc = cb[t].pc /\ cb'[t].jti = cb[t].jti
                            /\ cb'[t].now = cb[t].now
    BY <1>1, <1>3, NowInForceFacts
  <1>9. \A j \in Jtis : Late(j)' \subseteq Late(j)
    BY <1>1, <1>8 DEF Late
  <1>10. Forgotten'
    BY <1>1, <1>9, NoneLater
  <1> QED
    BY <1>5, <1>6, <1>7, <1>10 DEF SsoInv

\* A callback that arrives, or reads configuration and clock, does so now.
LEMMA ArriveInv ==
    ASSUME SsoInv, NEW t \in Callbacks, VerifyBegin(t) \/ \E j \in Jtis : Arrive(t, j)
    PROVE  SsoInv'
  <1>1. UNCHANGED <<clock, env, stored, redeeming, minted, seen, uses>> /\ SsoTypeOK
        /\ config' = config /\ clock \in 0 .. SsoMaxClock
    BY DEF Arrive, VerifyBegin, SsoInv, SsoTypeOK, config
  <1> DEFINE Good(d) ==
          /\ d \in Callback /\ cb' = [cb EXCEPT ![t] = d] /\ d.now <= clock
          /\ d.pc # "idle" => /\ d.jti \in Jtis /\ minted[d.jti].iss # NoOne
                              /\ config.iss \in d.inForce
          /\ d.pc = "checking" => d.cfg.iss \in d.inForce /\ d.now = clock
  <1>2. \E d \in Callback : Good(d)
    <2>1. ASSUME NEW j \in Jtis, Arrive(t, j) PROVE \E d \in Callback : Good(d)
      <3> DEFINE d == [Idle EXCEPT !.pc = "arrived", !.jti = j, !.inForce = {config.iss}]
      <3>1. d \in Callback /\ d.pc = "arrived" /\ d.jti = j /\ d.inForce = {config.iss}
            /\ d.now = 0
        BY <1>1, ConfigType, SsoPlaceholders DEF Idle, Callback
      <3>2. cb' = [cb EXCEPT ![t] = d] /\ minted[j].iss # NoOne
        BY <2>1, Zenon DEF Arrive
      <3>4. 0 <= clock
        BY <1>1
      <3> HIDE DEF d
      <3>3. Good(d)
        BY <3>1, <3>2, <3>4
      <3> QED
        BY <3>1, <3>3
    <2>2. CASE VerifyBegin(t) /\ config.usable
      <3> DEFINE d == [cb[t] EXCEPT !.pc = "checking", !.cfg = config, !.now = clock]
      <3>1. cb[t] \in Callback
        BY <1>1, ConfigType
      <3>2. /\ d \in Callback /\ d.pc = "checking" /\ d.jti = cb[t].jti /\ d.cfg = config
            /\ d.now = clock /\ d.inForce = cb[t].inForce
        BY <1>1, <3>1, ConfigType DEF Callback
      <3>3. cb' = [cb EXCEPT ![t] = d]
        BY <2>2 DEF VerifyBegin
      <3>4. cb[t].jti \in Jtis /\ minted[cb[t].jti].iss # NoOne /\ config.iss \in cb[t].inForce
        BY <2>2 DEF VerifyBegin, SsoInv, CallbacksOk
      <3>5. d.now <= clock
        BY <1>1, <3>2
      <3> HIDE DEF d
      <3>6. Good(d)
        BY <3>2, <3>3, <3>4, <3>5
      <3> QED
        BY <3>2, <3>6
    <2>3. CASE VerifyBegin(t) /\ ~ config.usable
      <3>1. cb' = [cb EXCEPT ![t] = Idle] /\ 0 <= clock
        BY <2>3, <1>1 DEF VerifyBegin
      <3>2. Good(Idle)
        BY <3>1, SsoPlaceholders
      <3> QED
        BY <3>2, SsoPlaceholders
    <2> QED
      BY <2>1, <2>2, <2>3
  <1>3. cb' \in [Callbacks -> Callback]
    BY <1>1, <1>2, ConfigType
  <1>4. SsoTypeOK'
    BY <1>1, <1>3 DEF SsoTypeOK, Callback
  <1>5. CallbacksOk'
    BY <1>1, <1>2, ConfigType DEF SsoInv, CallbacksOk
  <1>6. Remembered'
    BY <1>1 DEF SsoInv, Remembered
  <1>7. ASSUME NEW j \in Jtis, ~(Late(j)' \subseteq Late(j))
        PROVE  uses[j] = 0 \/ (uses[j] = 1 /\ seen[j] # 0)
    <2>1. clock < minted[j].exp
      BY <1>1, <1>2, <1>7, ConfigType DEF Late
    <2>2. minted[j].exp # 0
      BY <1>1, <2>1
    <2> QED
      BY <2>1, <2>2 DEF SsoInv, Remembered
  <1>8. Forgotten'
    BY <1>1, <1>7, NoneLater
  <1> QED
    BY <1>4, <1>5, <1>6, <1>8 DEF SsoInv

\* _remember: a purge by a reading that is not ahead of the clock drops only what
\* has expired, so an assertion accepted before is still there to be refused.
LEMMA VerifyEndInv == ASSUME SsoInv, NEW t \in Callbacks, VerifyEnd(t) PROVE SsoInv'
  <1> DEFINE j == cb[t].jti
             now == cb[t].now
             exp == minted[j].exp
  <1>1. /\ UNCHANGED <<clock, env, stored, redeeming, minted>> /\ SsoTypeOK
        /\ config' = config /\ cb' = [cb EXCEPT ![t] = Idle]
    BY DEF VerifyEnd, SsoInv, config
  <1>2. j \in Jtis /\ minted[j].iss # NoOne /\ now <= clock /\ now \in Nat /\ clock \in Nat
    BY ConfigType DEF VerifyEnd, SsoInv, SsoTypeOK, CallbacksOk, Callback
  <1>3. exp \in Times /\ exp \in Nat /\ \A i \in Jtis : seen[i] \in Times /\ seen[i] \in Nat
    BY <1>1, <1>2, ConfigType, SsoAssumption DEF Assertion, SsoTypeOK, Times
  <1>4. \A i \in Jtis : \/ Purged(t)[i] = seen[i] /\ (seen[i] > now \/ seen[i] = 0)
                        \/ Purged(t)[i] = 0 /\ seen[i] <= now
    BY <1>2, <1>3 DEF Purged
  <1>5. \A i \in Jtis : \/ seen'[i] = seen[i]
                        \/ seen'[i] = 0 /\ seen[i] <= now
                        \/ i = j /\ seen'[i] = exp /\ Accepts(t)
    <2>1. CASE Accepts(t)
      BY <2>1, <1>2, <1>4 DEF VerifyEnd, Purged
    <2>2. CASE ~ Accepts(t)
      BY <2>2, <1>4 DEF VerifyEnd
    <2> QED
      BY <2>1, <2>2
  <1>6. seen' \in [Jtis -> Times]
    <2>1. DOMAIN seen' = Jtis /\ seen' = [i \in Jtis |-> seen'[i]]
      BY <1>1 DEF VerifyEnd, Purged, SsoTypeOK
    <2> QED
      BY <2>1, <1>3, <1>5, SsoPlaceholders
  <1>7. ASSUME Accepts(t), uses[j] # 0 PROVE seen[j] = 0 /\ exp <= clock
    <2>1. Purged(t)[j] = 0 /\ now < exp
      BY <1>7 DEF Accepts, Genuine
    <2>2. seen[j] # exp
      BY <2>1, <1>2, <1>3, <1>4
    <2> QED
      BY <2>2, <1>2, <1>3, <1>7 DEF SsoInv, Remembered
  <1>8. /\ \A i \in Jtis : ~(i = j /\ Accepts(t)) => uses'[i] = uses[i]
        /\ Accepts(t) => uses'[j] = uses[j] + 1
        /\ \A i \in Jtis : uses[i] \in Nat
        /\ uses' \in [Jtis -> Nat]
    BY <1>1, <1>2 DEF VerifyEnd, SsoTypeOK
  <1>9. Accepts(t) => seen'[j] = exp /\ exp # 0 /\ now < exp
    BY <1>2, <1>3 DEF VerifyEnd, Purged, SsoTypeOK, Accepts, Genuine
  <1>10. cb' \in [Callbacks -> Callback]
    BY <1>1, ConfigType, SsoPlaceholders
  <1>11. SsoTypeOK'
    BY <1>1, <1>6, <1>8, <1>10 DEF SsoTypeOK, Callback
  <1>12. CallbacksOk'
    BY <1>1, <1>2, ConfigType, SsoPlaceholders DEF SsoInv, CallbacksOk
  <1>13. Remembered'
    <2> SUFFICES ASSUME NEW i \in Jtis
                 PROVE  /\ seen'[i] # 0 => minted[i].iss # NoOne /\ seen'[i] = minted[i].exp
                        /\ uses'[i] # 0 => /\ minted[i].iss # NoOne
                                           /\ clock < minted[i].exp =>
                                                seen'[i] = minted[i].exp /\ uses'[i] = 1
      BY <1>1 DEF Remembered
    <2>1. minted[i].exp \in Nat
      BY <1>1, ConfigType, SsoAssumption DEF Assertion, Times
    <2>2. CASE i = j /\ Accepts(t)
      <3>1. clock < exp => uses[j] = 0
        BY <2>2, <1>2, <1>3, <1>7
      <3> QED
        BY <2>2, <3>1, <1>2, <1>8, <1>9
    <2>3. CASE ~(i = j /\ Accepts(t))
      <3>1. uses'[i] = uses[i]
        BY <2>3, <1>8
      <3>2. seen'[i] = seen[i] \/ (seen'[i] = 0 /\ seen[i] <= now)
        BY <2>3, <1>5
      <3> QED
        BY <2>1, <3>1, <3>2, <1>2, <1>3 DEF SsoInv, Remembered
    <2> QED
      BY <2>2, <2>3
  <1>14. Forgotten'
    <2> SUFFICES ASSUME NEW i \in Jtis, (uses'[i] # 0 /\ seen'[i] = 0) \/ uses'[i] > 1
                 PROVE  Room(i)'
      BY DEF Forgotten
    <2>1. /\ Late(i) \in SUBSET Callbacks /\ Late(i)' \in SUBSET Late(i)
          /\ t \notin Late(i)'
      BY <1>1, ConfigType, SsoPlaceholders DEF Late
    <2>2. /\ Cardinality(Late(i)) \in Nat /\ Cardinality(Callbacks) \in Nat
          /\ Cardinality(Late(i)') \in Nat /\ Cardinality(Late(i)') <= Cardinality(Late(i))
      BY <2>1, LateSome
    <2>3. CASE i = j /\ Accepts(t)
      <3>1. uses[i] # 0 /\ uses'[i] = uses[i] + 1 /\ uses[i] \in Nat
        BY <2>3, <1>8, <1>9
      <3>2. Room(i)
        BY <3>1, <2>3, <1>2, <1>7 DEF SsoInv, Forgotten
      <3>3. t \in Late(i)
        BY <2>3, <1>9 DEF Late, VerifyEnd
      <3>4. Late(i)' \in SUBSET (Late(i) \ {t}) /\ Late(i) \ {t} \in SUBSET Callbacks
        BY <2>1
      <3>5. Cardinality(Late(i) \ {t}) = Cardinality(Late(i)) - 1
            /\ Cardinality(Late(i)') <= Cardinality(Late(i) \ {t})
        BY <3>3, <3>4, <2>1, LateSome
      <3> QED
        BY <3>1, <3>2, <3>5, <2>2 DEF Room
    <2>4. CASE ~(i = j /\ Accepts(t))
      <3>1. uses'[i] = uses[i] /\ uses[i] \in Nat /\ uses[i] # 0
        BY <2>4, <1>8
      <3>2. CASE uses[i] > 1 \/ seen[i] = 0
        <4>1. Room(i)
          BY <3>1, <3>2 DEF SsoInv, Forgotten
        <4> QED
          BY <4>1, <3>1, <2>2 DEF Room
      <3>3. CASE uses[i] = 1 /\ seen[i] # 0
        <4>1. seen[i] <= now /\ seen[i] = minted[i].exp
          BY <3>1, <3>3, <2>4, <1>5 DEF SsoInv, Remembered
        <4>2. t \notin Late(i)
          BY <4>1, <1>2, <1>3 DEF Late
        <4>3. Cardinality(Late(i)) + 1 <= Cardinality(Callbacks)
          BY <4>2, <2>1, LateSome
        <4> QED
          BY <4>3, <3>1, <3>3, <2>2 DEF Room
      <3> QED
        BY <3>1, <3>2, <3>3
    <2> QED
      BY <2>3, <2>4
  <1> QED
    BY <1>11, <1>12, <1>13, <1>14 DEF SsoInv

\* An assertion is signed once; the clock goes on; a new process forgets.
LEMMA OutsideSsoInv ==
    ASSUME SsoInv,
           \/ \E j \in Jtis, i \in Issuers, ahead \in 0 .. MaxAhead : Mint(j, i, ahead)
           \/ SsoTick \/ SsoRestart
    PROVE  SsoInv'
  <1>1. SsoTypeOK /\ clock \in Nat /\ SsoMaxClock \in Nat
    BY SsoAssumption DEF SsoInv, SsoTypeOK
  <1>2. ASSUME NEW j \in Jtis, NEW i \in Issuers, NEW ahead \in 0 .. MaxAhead, Mint(j, i, ahead)
        PROVE  SsoInv'
    <2>1. UNCHANGED <<clock, env, stored, redeeming, seen, cb, uses>> /\ config' = config
      BY <1>2 DEF Mint, config
    <2> DEFINE a == [iss |-> i, iat |-> clock + ahead, exp |-> clock + ahead + Lifetime]
    <2>2. a \in Assertion /\ a.iss = i
      BY <1>1, SsoAssumption DEF Assertion, Times, SsoTypeOK
    <2>3. minted' = [minted EXCEPT ![j] = a] /\ minted[j].iss = NoOne
      BY <1>2, Zenon DEF Mint
    <2> HIDE DEF a
    <2>4. minted \in [Jtis -> Assertion] /\ i # NoOne
      BY <1>1, ConfigType, SsoAssumption
    <2>5. minted' \in [Jtis -> Assertion]
      BY <2>2, <2>3, <2>4
    <2>6. SsoTypeOK'
      BY <1>1, <2>1, <2>5 DEF SsoTypeOK, Assertion
    <2>7. \A k \in Jtis : minted[k].iss # NoOne => minted'[k] = minted[k]
      BY <2>3, <2>4
    <2>8. CallbacksOk'
      BY <2>1, <2>7 DEF SsoInv, CallbacksOk
    <2>9. Remembered'
      BY <2>1, <2>7 DEF SsoInv, Remembered
    <2>10. ASSUME NEW k \in Jtis, ~(Late(k)' \subseteq Late(k)) PROVE uses[k] = 0
      BY <2>1, <2>7, <2>10 DEF SsoInv, Remembered, Late
    <2>11. Forgotten'
      BY <2>1, <2>10, NoneLater
    <2> QED
      BY <2>1, <2>6, <2>8, <2>9, <2>11 DEF SsoInv
  <1>3. CASE SsoTick
    <2>1. UNCHANGED <<env, stored, redeeming, minted, seen, cb, uses>> /\ config' = config
          /\ clock' = clock + 1 /\ clock' \in 0 .. SsoMaxClock
      BY <1>1, <1>3 DEF SsoTick, config
    <2>2. SsoTypeOK'
      BY <1>1, <2>1 DEF SsoTypeOK
    <2>3. \A t \in Callbacks : cb[t].now \in Nat
      BY <1>1, ConfigType DEF Callback
    <2>4. CallbacksOk'
      BY <1>1, <2>1, <2>3 DEF SsoInv, CallbacksOk
    <2>5. \A j \in Jtis : minted[j].exp \in Nat
      BY <1>1, ConfigType, SsoAssumption DEF Assertion, Times
    <2>6. Remembered'
      BY <1>1, <2>1, <2>5 DEF SsoInv, Remembered
    <2>7. \A j \in Jtis : Late(j)' \subseteq Late(j)
      BY <2>1 DEF Late
    <2>8. Forgotten'
      BY <2>1, <2>7, NoneLater
    <2> QED
      BY <2>1, <2>2, <2>4, <2>6, <2>8 DEF SsoInv
  <1>4. CASE SsoRestart
    <2>1. /\ seen' = [j \in Jtis |-> 0] /\ uses' = [j \in Jtis |-> 0]
          /\ cb' = [t \in Callbacks |-> Idle] /\ redeeming' = NoOne
          /\ UNCHANGED <<clock, env, stored, minted>> /\ config' = config
      BY <1>4 DEF SsoRestart, config
    <2>2. cb' \in [Callbacks -> Callback]
      BY <2>1, SsoPlaceholders
    <2>3. SsoTypeOK'
      BY <1>1, <2>1, <2>2, SsoPlaceholders DEF SsoTypeOK, Callback
    <2>4. CallbacksOk'
      BY <1>1, <2>1, SsoPlaceholders DEF CallbacksOk
    <2> QED
      BY <2>1, <2>3, <2>4 DEF SsoInv, Remembered, Forgotten
  <1> QED
    BY <1>2, <1>3, <1>4

\* Every step of single sign-on keeps SsoInv.
LEMMA SsoNextInv == SsoInv /\ [SsoNext]_ssoVars => SsoInv'
  <1> SUFFICES ASSUME SsoInv, [SsoNext]_ssoVars PROVE SsoInv'
    OBVIOUS
  <1>1. CASE UNCHANGED ssoVars
    <2>1. \A j \in Jtis : Late(j)' = Late(j)
      BY <1>1 DEF ssoVars, Late
    <2>2. Forgotten'
      BY <1>1, <2>1, NoneLater DEF ssoVars
    <2> QED
      BY <1>1, <2>2 DEF ssoVars, SsoInv, SsoTypeOK, CallbacksOk, Remembered, config
  <1> QED
    BY <1>1, EnrollInv, ArriveInv, VerifyEndInv, OutsideSsoInv DEF SsoNext

\* sso.verify reads the clock first and remembers the jti last, with other
\* callbacks purging in between: an assertion buys one session until it expires,
\* and afterwards only what the callbacks that were late then still buy, for any
\* number of threads and any skew.
THEOREM SsoReplaysBounded == SsoSpec => [](SsoTypeOK /\ ReplaysBounded)
  <1>1. SsoInv => SsoTypeOK /\ ReplaysBounded
    BY DEF SsoInv, SsoTypeOK, Remembered, Forgotten, Room, ReplaysBounded
  <1> QED
    BY <1>1, SsoInitInv, SsoNextInv, PTL DEF SsoSpec

\* A callback never succeeds under a configuration that was replaced or disabled
\* before it arrived, although verify works on the copy it read at its start.
THEOREM SsoAcceptedUnderConfig == SsoSpec => AcceptedUnderConfig
  <1> DEFINE Step == \A t \in Callbacks :
               (VerifyEnd(t) /\ Accepts(t)) => minted[cb[t].jti].iss \in cb[t].inForce
  <1>1. SsoInv => Step
    BY DEF SsoInv, CallbacksOk, VerifyEnd, Accepts, Genuine
  <1>2. SsoInv /\ [SsoNext]_ssoVars => [Step]_ssoVars
    BY <1>1
  <1>3. SsoSpec => []SsoInv
    BY SsoInitInv, SsoNextInv, PTL DEF SsoSpec
  <1> QED
    BY <1>2, <1>3, PTL DEF SsoSpec, AcceptedUnderConfig

-----------------------------------------------------------------------------
(* The collectors' sessions *)

Conversation == [pc : {"idle", "login", "read", "ok", "failed"}, pw : Passwords,
                 sid : Sids \cup {NoSid, Dropped}, fresh : BOOLEAN, at : 1 .. 3,
                 calm : BOOLEAN]

\* A session is kept, read with and passed on under the password it was obtained
\* with; a conversation that began in calm holds a live session once it has
\* logged in.
SessionsOk == \A p \in Passwords : sessions[p] # NoSid => p \in everRight
ConversationOk(v) ==
  /\ v.pc \in {"read", "ok"} => v.pw \in everRight
  /\ v.pc # "read" => v.sid = NoSid
  /\ v.calm => steady /\ v.pw = right /\ v.pc # "failed"
  /\ v.calm /\ v.pc = "read" /\ v.fresh => v.sid \in Sids

CollectorInv ==
  /\ CollectorTypeOK /\ SavedWasRight /\ SessionsOk
  /\ \A c \in Conversations : ConversationOk(conv[c])

\* An idle conversation is one, and a kind has one or two runs of reads.
LEMMA CollectorPlaceholders ==
    /\ Quiet \in Conversation /\ Quiet.pc = "idle" /\ Quiet.sid = NoSid /\ Quiet.calm = FALSE
    /\ \A k \in Kinds : Len(k.reads) \in {1, 2} /\ k.kept \in BOOLEAN
  <1>1. (CHOOSE p \in Passwords : TRUE) \in Passwords
    BY CollectorAssumption
  <1>2. Quiet \in Conversation /\ Quiet.pc = "idle" /\ Quiet.sid = NoSid /\ Quiet.calm = FALSE
    BY <1>1 DEF Quiet, Conversation
  <1>3. \A k \in Kinds : Len(k.reads) \in {1, 2} /\ k.kept \in BOOLEAN
    <2>1. Len(<<"must">>) = 1 /\ Len(<<"must", "extra">>) = 2 /\ Len(<<"must", "any">>) = 2
      OBVIOUS
    <2>2. \A k \in Kinds :
            /\ \/ k.reads = <<"must">> \/ k.reads = <<"must", "extra">>
               \/ k.reads = <<"must", "any">>
            /\ k.kept \in BOOLEAN
      <3>1. synology.reads = <<"must", "extra">> /\ synology.kept = TRUE
        BY DEF synology
      <3>2. ugreen.reads = <<"must">> /\ ugreen.kept = TRUE
        BY DEF ugreen
      <3>3. omv.reads = <<"must", "extra">> /\ omv.kept = TRUE
        BY DEF omv
      <3>4. unraid.reads = <<"must">> /\ unraid.kept = TRUE
        BY DEF unraid
      <3>5. zimaos.reads = <<"must">> /\ zimaos.kept = FALSE
        BY DEF zimaos
      <3>6. truenas.reads = <<"must", "any">> /\ truenas.kept = FALSE
        BY DEF truenas
      <3> QED
        BY <3>1, <3>2, <3>3, <3>4, <3>5, <3>6, Zenon DEF Kinds
    <2> QED
      BY <2>1, <2>2
  <1> QED
    BY <1>2, <1>3

\* The types, with the record set named.
LEMMA ConvType ==
    ASSUME CollectorTypeOK
    PROVE  conv \in [Conversations -> Conversation] /\ kind.kept \in BOOLEAN
  BY CollectorPlaceholders DEF CollectorTypeOK, Conversation

\* The first poll finds no session and the password that was enrolled.
LEMMA CollectorInitInv == CollectorInit => CollectorInv
  <1> SUFFICES ASSUME CollectorInit PROVE CollectorInv
    OBVIOUS
  <1>1. conv \in [Conversations -> Conversation]
    BY CollectorPlaceholders DEF CollectorInit
  <1>2. CollectorTypeOK
    BY <1>1 DEF CollectorInit, CollectorTypeOK, Conversation
  <1>3. \A c \in Conversations : ConversationOk(conv[c])
    BY CollectorPlaceholders DEF CollectorInit, ConversationOk
  <1> QED
    BY <1>2, <1>3 DEF CollectorInit, CollectorInv, SavedWasRight, SessionsOk

\* A step that replaces one conversation by one that is in order.
LEMMA ConversationStep ==
    ASSUME CollectorInv, NEW c \in Conversations, NEW v \in Conversation,
           conv' = [conv EXCEPT ![c] = v], ConversationOk(v),
           UNCHANGED <<kind, right, steady, savedPw, sessions, everRight>>
    PROVE  CollectorInv'
  <1>1. conv \in [Conversations -> Conversation]
    BY ConvType DEF CollectorInv
  <1>2. conv' \in [Conversations -> Conversation]
    BY <1>1
  <1>3. CollectorTypeOK'
    BY <1>2 DEF CollectorInv, CollectorTypeOK, Conversation
  <1>4. \A d \in Conversations : ConversationOk(conv[d])'
    BY <1>1 DEF CollectorInv, ConversationOk
  <1> QED
    BY <1>3, <1>4 DEF CollectorInv, SavedWasRight, SessionsOk

\* A kept session was obtained with the password it is kept under.
LEMMA BeginConversationInv ==
    ASSUME CollectorInv, NEW c \in Conversations, NEW pw \in Passwords, Begin(c, pw)
    PROVE  CollectorInv'
  <1> DEFINE hit == kind.kept /\ sessions[pw] # NoSid
             v == [pc |-> IF hit THEN "read" ELSE "login", pw |-> pw,
                   sid |-> IF hit THEN sessions[pw] ELSE NoSid,
                   fresh |-> ~hit, at |-> 1, calm |-> steady /\ pw = right]
  <1>1. conv' = [conv EXCEPT ![c] = v]
        /\ UNCHANGED <<kind, right, steady, savedPw, sessions, everRight>>
    BY DEF Begin, session_key
  <1>2. hit \in BOOLEAN /\ (steady /\ pw = right) \in BOOLEAN
        /\ sessions[pw] \in Sids \cup {NoSid, Dropped}
    BY DEF CollectorInv, CollectorTypeOK
  <1>3. v \in Conversation
    BY <1>2 DEF Conversation
  <1>4. ConversationOk(v)
    BY DEF ConversationOk, CollectorInv, SessionsOk
  <1> HIDE DEF v
  <1> QED
    BY <1>1, <1>3, <1>4, ConversationStep

\* A set that a function maps a finite set onto is no larger.
LEMMA ImageSize ==
    ASSUME NEW S, IsFiniteSet(S), NEW f, f = [x \in S |-> f[x]]
    PROVE  LET T == {f[x] : x \in S}
           IN  IsFiniteSet(T) /\ Cardinality(T) <= Cardinality(S)
  <1> DEFINE T == {f[x] : x \in S}
  <1>1. f \in Surjection(S, T)
    BY DEF Surjection
  <1> HIDE DEF T
  <1>2. IsFiniteSet(T) /\ Cardinality(T) <= Cardinality(S)
    BY <1>1, FS_Surjection
  <1> QED
    BY <1>2 DEF T

\* A login finds a session that nobody presents: the cache holds one for each
\* password, the other conversations one each.
LEMMA FreshSession ==
    ASSUME CollectorInv, NEW c \in Conversations, conv[c].sid = NoSid
    PROVE  \E s \in Sids : s \notin Held
  <1> DEFINE rest == Conversations \ {c}
             f == [d \in rest |-> conv[d].sid]
             A == {sessions[p] : p \in Passwords}
             B == {f[d] : d \in rest}
  <1>1. IsFiniteSet(rest) /\ Cardinality(rest) = Cardinality(Probes)
    <2>1. IsFiniteSet(Conversations) /\ Cardinality(Conversations) = Cardinality(Probes) + 1
      BY CollectorAssumption, FS_AddElement DEF Conversations
    <2>2. Cardinality(Probes) \in Nat
      BY CollectorAssumption, FS_CardinalityType
    <2>3. IsFiniteSet(rest) /\ Cardinality(rest) = Cardinality(Conversations) - 1
      BY <2>1, FS_RemoveElement
    <2> QED
      BY <2>1, <2>2, <2>3
  <1>2. IsFiniteSet(A) /\ Cardinality(A) <= Cardinality(Passwords)
    <2>1. sessions = [p \in Passwords |-> sessions[p]]
      BY DEF CollectorInv, CollectorTypeOK
    <2> QED
      BY <2>1, CollectorAssumption, ImageSize
  <1>3. IsFiniteSet(B) /\ Cardinality(B) <= Cardinality(Probes)
    <2>1. f = [d \in rest |-> f[d]]
      OBVIOUS
    <2> HIDE DEF f
    <2>2. IsFiniteSet(B) /\ Cardinality(B) <= Cardinality(rest)
      BY <2>1, <1>1, ImageSize
    <2> QED
      BY <1>1, <2>2
  <1>4. Held \subseteq A \cup B \cup {NoSid}
    BY DEF Held
  <1> HIDE DEF A, B
  <1>5. IsFiniteSet(A \cup B) /\ Cardinality(A \cup B) <= Cardinality(Passwords) + Cardinality(Probes)
    <2>1. IsFiniteSet(A \cup B)
          /\ Cardinality(A \cup B) = Cardinality(A) + Cardinality(B) - Cardinality(A \cap B)
      BY <1>2, <1>3, FS_Union
    <2>2. IsFiniteSet(A \cap B)
      BY <1>2, FS_Subset
    <2>3. /\ Cardinality(A) \in Nat /\ Cardinality(B) \in Nat /\ Cardinality(A \cap B) \in Nat
          /\ Cardinality(Passwords) \in Nat /\ Cardinality(Probes) \in Nat
      BY <1>2, <1>3, <2>2, CollectorAssumption, FS_CardinalityType
    <2> QED
      BY <1>2, <1>3, <2>1, <2>3
  <1>6. ~ (Sids \subseteq A \cup B)
    <2>1. Cardinality(Sids) > Cardinality(Passwords) + Cardinality(Probes)
          /\ Cardinality(Sids) \in Nat /\ Cardinality(A \cup B) \in Nat
          /\ Cardinality(Passwords) \in Nat /\ Cardinality(Probes) \in Nat
      BY <1>5, CollectorAssumption, FS_CardinalityType
    <2>2. Sids \in SUBSET (A \cup B) => Cardinality(Sids) <= Cardinality(A \cup B)
      BY <1>5, FS_Subset
    <2> QED
      BY <1>5, <2>1, <2>2
  <1> QED
    BY <1>4, <1>6, CollectorAssumption

\* What the ends of a conversation and the way back to the login put in its place.
LEMMA EndsFacts ==
    ASSUME CollectorInv, NEW c \in Conversations, NEW result \in {"ok", "failed", "login"}
    PROVE  LET v == [conv[c] EXCEPT !.pc = result, !.sid = NoSid, !.at = 1]
           IN  /\ v \in Conversation /\ v.pc = result /\ v.sid = NoSid
               /\ v.pw = conv[c].pw /\ v.calm = conv[c].calm
               /\ [conv EXCEPT ![c].pc = result, ![c].sid = NoSid, ![c].at = 1]
                    = [conv EXCEPT ![c] = v]
               /\ [conv EXCEPT ![c].pc = result, ![c].at = 1, ![c].sid = NoSid]
                    = [conv EXCEPT ![c] = v]
  <1> DEFINE v == [conv[c] EXCEPT !.pc = result, !.sid = NoSid, !.at = 1]
  <1>1. conv \in [Conversations -> Conversation]
    BY ConvType DEF CollectorInv
  <1>2. v \in Conversation /\ v.pc = result /\ v.sid = NoSid
        /\ v.pw = conv[c].pw /\ v.calm = conv[c].calm
    <2> DEFINE w == conv[c]
    <2>1. w \in Conversation /\ 1 \in 1 .. 3
      BY <1>1
    <2> HIDE DEF w
    <2>2. [w EXCEPT !.pc = result, !.sid = NoSid, !.at = 1] \in Conversation
      BY <2>1 DEF Conversation
    <2>3. /\ [w EXCEPT !.pc = result, !.sid = NoSid, !.at = 1].pc = result
          /\ [w EXCEPT !.pc = result, !.sid = NoSid, !.at = 1].sid = NoSid
          /\ [w EXCEPT !.pc = result, !.sid = NoSid, !.at = 1].pw = w.pw
          /\ [w EXCEPT !.pc = result, !.sid = NoSid, !.at = 1].calm = w.calm
      BY <2>1 DEF Conversation
    <2> QED
      BY <2>2, <2>3 DEF w
  <1>3. [conv EXCEPT ![c].pc = result, ![c].sid = NoSid, ![c].at = 1] = [conv EXCEPT ![c] = v]
    BY <1>1 DEF Conversation
  <1>4. [conv EXCEPT ![c].pc = result, ![c].at = 1, ![c].sid = NoSid] = [conv EXCEPT ![c] = v]
    BY <1>1 DEF Conversation
  <1> QED
    BY <1>2, <1>3, <1>4

\* A conversation fails only where calm excludes it.
LEMMA FailInv ==
    ASSUME CollectorInv, NEW c \in Conversations, conv[c].calm = FALSE, Ends(c, "failed"),
           UNCHANGED <<kind, right, steady, savedPw, sessions, everRight>>
    PROVE  CollectorInv'
  <1> DEFINE v == [conv[c] EXCEPT !.pc = "failed", !.sid = NoSid, !.at = 1]
  <1>1. /\ v \in Conversation /\ v.pc = "failed" /\ v.sid = NoSid /\ v.calm = FALSE
        /\ conv' = [conv EXCEPT ![c] = v]
    BY EndsFacts DEF Ends
  <1> HIDE DEF v
  <1>2. ConversationOk(v)
    BY <1>1 DEF ConversationOk
  <1> QED
    BY <1>1, <1>2, ConversationStep

\* The login: refused, failed, or a session that nobody holds.
LEMMA LoginInv == ASSUME CollectorInv, NEW c \in Conversations, Login(c) PROVE CollectorInv'
  <1>0. conv[c] \in Conversation /\ conv \in [Conversations -> Conversation]
        /\ ConversationOk(conv[c]) /\ conv[c].pc = "login" /\ right \in everRight
        /\ UNCHANGED <<kind, right, steady, savedPw, sessions, everRight>>
    BY ConvType DEF CollectorInv, CollectorTypeOK, Login
  <1>1. CASE (~ steady \/ conv[c].pw # right) /\ Ends(c, "failed")
    <2>1. conv[c].calm = FALSE
      BY <1>0, <1>1 DEF ConversationOk, Conversation
    <2> QED
      BY <1>0, <1>1, <2>1, FailInv
  <1>2. CASE ~ ((~ steady \/ conv[c].pw # right) /\ Ends(c, "failed"))
    <2> DEFINE s == CHOOSE s \in Sids \ Held : TRUE
               v == [conv[c] EXCEPT !.pc = "read", !.sid = s, !.fresh = TRUE, !.at = 1]
    <2>1. conv[c].pw = right /\ conv' = [conv EXCEPT ![c].pc = "read", ![c].sid = s,
                                                     ![c].fresh = TRUE, ![c].at = 1]
      BY <1>2 DEF Login
    <2>2. s \in Sids
      <3>1. conv[c].sid = NoSid
        BY <1>0 DEF ConversationOk
      <3>2. \E x \in Sids : x \notin Held
        BY <3>1, FreshSession
      <3> QED
        BY <3>2
    <2> HIDE DEF s
    <2>3. v \in Conversation /\ v.pc = "read" /\ v.sid = s /\ v.pw = right
          /\ v.calm = conv[c].calm
      <3> DEFINE w == conv[c]
      <3>1. w \in Conversation /\ 1 \in 1 .. 3 /\ w.pw = right
        BY <1>0, <2>1
      <3> HIDE DEF w
      <3>2. [w EXCEPT !.pc = "read", !.sid = s, !.fresh = TRUE, !.at = 1] \in Conversation
        BY <3>1, <2>2 DEF Conversation
      <3>3. /\ [w EXCEPT !.pc = "read", !.sid = s, !.fresh = TRUE, !.at = 1].pc = "read"
            /\ [w EXCEPT !.pc = "read", !.sid = s, !.fresh = TRUE, !.at = 1].sid = s
            /\ [w EXCEPT !.pc = "read", !.sid = s, !.fresh = TRUE, !.at = 1].pw = right
            /\ [w EXCEPT !.pc = "read", !.sid = s, !.fresh = TRUE, !.at = 1].calm = w.calm
        BY <3>1 DEF Conversation
      <3> QED
        BY <3>2, <3>3 DEF w
    <2>4. conv' = [conv EXCEPT ![c] = v]
      BY <1>0, <2>1 DEF Conversation
    <2> HIDE DEF v
    <2>5. ConversationOk(v)
      BY <1>0, <2>2, <2>3 DEF ConversationOk
    <2> QED
      BY <1>0, <2>3, <2>4, <2>5, ConversationStep
  <1> QED
    BY <1>1, <1>2

\* The reads: a lost session of the cache gives way to a login, a fresh one is
\* not lost in calm, and no call fails in calm.
LEMMA ReadInv == ASSUME CollectorInv, NEW c \in Conversations, Read(c) PROVE CollectorInv'
  <1>0. conv[c] \in Conversation /\ conv \in [Conversations -> Conversation]
        /\ ConversationOk(conv[c]) /\ conv[c].pc = "read"
        /\ UNCHANGED <<kind, right, steady, savedPw, sessions, everRight>>
    BY ConvType DEF CollectorInv, Read
  <1>1. CASE conv' = [conv EXCEPT ![c].at = @ + 1]
    <2> DEFINE v == [conv[c] EXCEPT !.at = @ + 1]
    <2>1. conv[c].at + 1 \in 1 .. 3
      <3>1. conv[c].at \in 1 .. 3 /\ conv[c].at <= Len(kind.reads) /\ Len(kind.reads) \in {1, 2}
        BY <1>0, CollectorPlaceholders DEF Read, Conversation, CollectorInv, CollectorTypeOK
      <3>2. conv[c].at \in {1, 2}
        <4>1. CASE Len(kind.reads) = 1
          BY <3>1, <4>1
        <4>2. CASE Len(kind.reads) = 2
          BY <3>1, <4>2
        <4> QED
          BY <3>1, <4>1, <4>2
      <3> QED
        BY <3>2
    <2>2. v \in Conversation /\ v.pc = conv[c].pc /\ v.pw = conv[c].pw /\ v.sid = conv[c].sid
          /\ v.fresh = conv[c].fresh /\ v.calm = conv[c].calm
      BY <1>0, <2>1 DEF Conversation
    <2>3. conv' = [conv EXCEPT ![c] = v]
      BY <1>0, <1>1
    <2> HIDE DEF v
    <2>4. ConversationOk(v)
      BY <1>0, <2>2 DEF ConversationOk
    <2> QED
      BY <1>0, <2>2, <2>3, <2>4, ConversationStep
  <1>2. CASE conv[c].sid = Dropped /\ Rejected(c)
    <2>1. conv[c].calm => conv[c].fresh = FALSE
      BY <1>0, <1>2, CollectorAssumption DEF ConversationOk, Conversation
    <2>2. CASE conv[c].fresh
      BY <1>0, <1>2, <2>1, <2>2, FailInv DEF Rejected, Conversation
    <2>3. CASE ~ conv[c].fresh
      <3> DEFINE v == [conv[c] EXCEPT !.pc = "login", !.sid = NoSid, !.at = 1]
      <3>1. v \in Conversation /\ v.pc = "login" /\ v.sid = NoSid /\ v.calm = conv[c].calm
            /\ v.pw = conv[c].pw /\ conv' = [conv EXCEPT ![c] = v]
        BY <1>2, <2>3, EndsFacts DEF Rejected
      <3> HIDE DEF v
      <3>2. ConversationOk(v)
        BY <1>0, <3>1 DEF ConversationOk
      <3> QED
        BY <1>0, <3>1, <3>2, ConversationStep
    <2> QED
      BY <2>2, <2>3
  <1>3. CASE ~ steady /\ Ends(c, "failed")
    BY <1>0, <1>3, FailInv DEF ConversationOk, Conversation
  <1> QED
    BY <1>1, <1>2, <1>3 DEF Read

\* A conversation that ends well keeps its session under its own password.
LEMMA FinishInv == ASSUME CollectorInv, NEW c \in Conversations, Finish(c) PROVE CollectorInv'
  <1> DEFINE v == [conv[c] EXCEPT !.pc = "ok", !.sid = NoSid, !.at = 1]
  <1>0. conv[c] \in Conversation /\ conv \in [Conversations -> Conversation]
        /\ ConversationOk(conv[c]) /\ conv[c].pc = "read" /\ conv[c].pw \in everRight
        /\ UNCHANGED <<kind, right, steady, savedPw, everRight>>
    BY ConvType DEF CollectorInv, Finish, ConversationOk
  <1>1. /\ v \in Conversation /\ v.pc = "ok" /\ v.sid = NoSid /\ v.calm = conv[c].calm
        /\ v.pw = conv[c].pw /\ conv' = [conv EXCEPT ![c] = v]
    BY EndsFacts DEF Finish, Ends
  <1> HIDE DEF v
  <1>2. \/ sessions' = sessions
        \/ kind.kept /\ sessions' = [sessions EXCEPT ![conv[c].pw] = conv[c].sid]
    BY DEF Finish, Keeps, session_key
  <1>3. /\ sessions' \in [Passwords -> Sids \cup {NoSid, Dropped}]
        /\ \A p \in Passwords : sessions'[p] = sessions[p] \/ (p = conv[c].pw /\ kind.kept)
    BY <1>0, <1>2 DEF CollectorInv, CollectorTypeOK, Conversation
  <1>4. conv' \in [Conversations -> Conversation]
    BY <1>0, <1>1
  <1>5. CollectorTypeOK'
    BY <1>0, <1>3, <1>4 DEF CollectorInv, CollectorTypeOK, Conversation
  <1>6. \A d \in Conversations : ConversationOk(conv[d])'
    BY <1>0, <1>1 DEF CollectorInv, ConversationOk
  <1>7. SessionsOk'
    BY <1>0, <1>3 DEF CollectorInv, SessionsOk
  <1> QED
    BY <1>0, <1>5, <1>6, <1>7 DEF CollectorInv, SavedWasRight

\* An edit stores the password of a probe that ended well.
LEMMA AnswerInv == ASSUME CollectorInv, NEW c \in Conversations, Answer(c) PROVE CollectorInv'
  <1>0. conv[c] \in Conversation /\ conv \in [Conversations -> Conversation]
        /\ ConversationOk(conv[c]) /\ conv' = [conv EXCEPT ![c] = Quiet]
        /\ UNCHANGED <<kind, right, steady, sessions, everRight>>
    BY ConvType DEF CollectorInv, Answer
  <1>1. savedPw' = savedPw \/ (conv[c].pc = "ok" /\ savedPw' = conv[c].pw)
    BY DEF Answer
  <1>2. savedPw' \in Passwords /\ savedPw' \in everRight
    BY <1>0, <1>1 DEF CollectorInv, CollectorTypeOK, SavedWasRight, ConversationOk, Conversation
  <1>3. conv' \in [Conversations -> Conversation]
    BY <1>0, CollectorPlaceholders
  <1>4. CollectorTypeOK'
    BY <1>0, <1>2, <1>3 DEF CollectorInv, CollectorTypeOK, Conversation
  <1>5. \A d \in Conversations : ConversationOk(conv[d])'
    BY <1>0, CollectorPlaceholders DEF CollectorInv, ConversationOk
  <1> QED
    BY <1>0, <1>2, <1>4, <1>5 DEF CollectorInv, SavedWasRight, SessionsOk

\* The appliance drops sessions and changes its password only before it settles,
\* when no conversation is calm.
LEMMA ApplianceInv ==
    ASSUME CollectorInv,
           Settle \/ (\E s \in Sids : Recycle(s)) \/ \E p \in Passwords : SetPassword(p)
    PROVE  CollectorInv'
  <1>0. /\ conv \in [Conversations -> Conversation] /\ steady = FALSE
        /\ \A c \in Conversations : ConversationOk(conv[c]) /\ conv[c].calm = FALSE
        /\ UNCHANGED <<kind, savedPw>>
    <2>1. conv \in [Conversations -> Conversation] /\ ~ steady /\ steady \in BOOLEAN
      BY ConvType DEF CollectorInv, CollectorTypeOK, Settle, Recycle, SetPassword
    <2> QED
      BY <2>1 DEF CollectorInv, ConversationOk, Conversation, Settle, Recycle, SetPassword
  <1>1. CASE Settle
    <2>1. steady' = TRUE /\ UNCHANGED <<kind, right, savedPw, sessions, conv, everRight>>
      BY <1>1 DEF Settle
    <2>2. CollectorTypeOK'
      BY <2>1 DEF CollectorInv, CollectorTypeOK
    <2>3. \A c \in Conversations : ConversationOk(conv[c])'
      BY <2>1, <1>0 DEF ConversationOk
    <2> QED
      BY <2>1, <2>2, <2>3 DEF CollectorInv, SavedWasRight, SessionsOk
  <1>2. ASSUME NEW p \in Passwords, SetPassword(p) PROVE CollectorInv'
    <2>1. right' = p /\ everRight' = everRight \cup {p}
          /\ UNCHANGED <<kind, steady, savedPw, sessions, conv>>
      BY <1>2 DEF SetPassword
    <2>2. CollectorTypeOK'
      BY <2>1 DEF CollectorInv, CollectorTypeOK
    <2>3. \A c \in Conversations : ConversationOk(conv[c])'
      BY <2>1, <1>0 DEF ConversationOk
    <2> QED
      BY <2>1, <2>2, <2>3 DEF CollectorInv, SavedWasRight, SessionsOk
  <1>3. ASSUME NEW s \in Sids, Recycle(s) PROVE CollectorInv'
    <2> DEFINE Kept(sid) == IF sid = s THEN Dropped ELSE sid
    <2>1. /\ sessions' = [p \in Passwords |-> Kept(sessions[p])]
          /\ conv' = [c \in Conversations |-> [conv[c] EXCEPT !.sid = Kept(@)]]
          /\ UNCHANGED <<kind, right, steady, savedPw, everRight>>
      BY <1>3, Zenon DEF Recycle
    <2>2. /\ Kept(NoSid) = NoSid
          /\ \A x \in Sids \cup {NoSid, Dropped} : Kept(x) \in Sids \cup {NoSid, Dropped}
      BY CollectorAssumption
    <2> HIDE DEF Kept
    <2>3. sessions' \in [Passwords -> Sids \cup {NoSid, Dropped}]
          /\ \A p \in Passwords : sessions[p] = NoSid => sessions'[p] = NoSid
      BY <2>1, <2>2 DEF CollectorInv, CollectorTypeOK
    <2>4. \A c \in Conversations :
            /\ conv'[c] \in Conversation
            /\ conv'[c].pc = conv[c].pc /\ conv'[c].pw = conv[c].pw /\ conv'[c].calm = conv[c].calm
            /\ conv[c].sid = NoSid => conv'[c].sid = NoSid
      BY <2>1, <2>2, <1>0 DEF Conversation
    <2>5. conv' \in [Conversations -> Conversation]
      BY <2>1, <2>4
    <2>6. CollectorTypeOK'
      BY <2>1, <2>3, <2>5 DEF CollectorInv, CollectorTypeOK, Conversation
    <2>7. \A c \in Conversations : ConversationOk(conv[c])'
      BY <2>1, <2>4, <1>0 DEF ConversationOk
    <2> QED
      BY <2>1, <2>3, <2>6, <2>7 DEF CollectorInv, SavedWasRight, SessionsOk
  <1> QED
    BY <1>1, <1>2, <1>3

\* Every step of the conversations and of the appliance keeps CollectorInv.
LEMMA CollectorNextInv == CollectorInv /\ [CollectorNext]_collectorVars => CollectorInv'
  <1> SUFFICES ASSUME CollectorInv, [CollectorNext]_collectorVars PROVE CollectorInv'
    OBVIOUS
  <1>1. Poller \in Conversations /\ Probes \subseteq Conversations /\ savedPw \in Passwords
    BY DEF Conversations, CollectorInv, CollectorTypeOK
  <1>2. ASSUME Poll \/ \E c \in Probes : Probe(c) PROVE CollectorInv'
    BY <1>1, <1>2, BeginConversationInv DEF Poll, Probe
  <1>3. CASE UNCHANGED collectorVars
    BY <1>3 DEF collectorVars, CollectorInv, CollectorTypeOK, SavedWasRight, SessionsOk,
                ConversationOk
  <1> QED
    BY <1>2, <1>3, LoginInv, ReadInv, FinishInv, AnswerInv, ApplianceInv DEF CollectorNext

\* The registry never holds a password that the appliance has not taken: no
\* probe passes on the session of another password, however polls and probes
\* share the cache and whatever the appliance drops.
THEOREM CollectorSavedWasRight == CollectorSpec => [](CollectorTypeOK /\ SavedWasRight)
  <1>1. CollectorInv => CollectorTypeOK /\ SavedWasRight
    BY DEF CollectorInv
  <1> QED
    BY <1>1, CollectorInitInv, CollectorNextInv, PTL DEF CollectorSpec

\* A collection that begins with the right password while the appliance is well
\* does not fail: a stale session in the cache costs one more login at most.
THEOREM CollectorCalmPolls == CollectorSpec => []CalmPollsSucceed
  <1>1. CollectorInv => CalmPollsSucceed
    BY DEF CollectorInv, ConversationOk, CalmPollsSucceed
  <1> QED
    BY <1>1, CollectorInitInv, CollectorNextInv, PTL DEF CollectorSpec

-----------------------------------------------------------------------------
(* Delivery to webhooks *)

Batch == [events : SUBSET Event, hooks : SUBSET Hooks,
          cfg : [Hooks -> HookConf \cup {Absent}], tags : [Pairs -> SUBSET Tags]]

\* What the readers of h take to stand for p is right, as far as h's floor goes.
RightAbout(h, p) == /\ belief[h][p] # Clear => told[p] # Clear
                    /\ told[p] <= hooks[h].min_severity => belief[h][p] # Clear
Due(h, p) == hooksOn /\ hooks[h] # Absent /\ Routed(hooks[h], hostTags[p]) /\ ~excused[h][p]
Underway(h, p) == h \in batch.hooks /\ \E e \in batch.events : e.pair = p

\* The events of a batch say what stands; a hook and a host's tags that have
\* changed since the batch was made are excused; who is not right about a
\* condition is still to be told of it by this batch.
EventsTrue == \A e \in batch.events :
                 /\ told[e.pair] = Clear <=> e.kind = "recovered"
                 /\ told[e.pair] # Clear => e.severity = told[e.pair]
BatchCurrent == \A h \in batch.hooks, p \in Pairs :
                  ~excused[h][p] => batch.cfg[h] = hooks[h] /\ batch.tags[p] = hostTags[p]
RightOrUnderway == \A h \in Hooks, p \in Pairs :
                     Due(h, p) => RightAbout(h, p) \/ Underway(h, p)
DeliveryInv ==
  DeliveryTypeOK /\ batch \in Batch /\ EventsTrue /\ BatchCurrent /\ RightOrUnderway

LEMMA NoBatchIsBatch == NoBatch \in Batch /\ NoBatch.events = {} /\ NoBatch.hooks = {}
  BY DEF NoBatch, Batch

\* A webhook that is there has a floor below Clear.
LEMMA FloorBelowClear ==
  ASSUME NEW c \in HookConf \cup {Absent}, c # Absent
  PROVE  c \in HookConf /\ c.min_severity \in {0, 1} /\ c.tags \subseteq Tags
  BY DEF HookConf, Severity

\* At the start nothing stands and nobody was told anything.
LEMMA DeliveryInitInv == DeliveryInit => DeliveryInv
  <1> SUFFICES ASSUME DeliveryInit PROVE DeliveryInv
    OBVIOUS
  <1>1. DeliveryTypeOK
    BY DeliveryAssumption, NoBatchIsBatch DEF DeliveryInit, DeliveryTypeOK, Severity
  <1>2. RightOrUnderway
    <2> SUFFICES ASSUME NEW h \in Hooks, NEW p \in Pairs, Due(h, p) PROVE RightAbout(h, p)
      BY DEF RightOrUnderway
    <2>1. hooks[h] \in HookConf \cup {Absent} /\ hooks[h] # Absent
      BY <1>1 DEF DeliveryTypeOK, Due
    <2> QED
      BY <2>1, FloorBelowClear DEF DeliveryInit, RightAbout, Clear
  <1> QED
    BY <1>1, <1>2, NoBatchIsBatch DEF DeliveryInit, DeliveryInv, EventsTrue, BatchCurrent

\* An event of the cycle says what stands after it.
LEMMA EventOfTrue ==
  ASSUME NEW p \in Pairs, NEW was \in Severity \cup {Clear}, NEW is \in Severity \cup {Clear},
         was # is
  PROVE  /\ eventOf(p, was, is) \in Event /\ eventOf(p, was, is).pair = p
         /\ is = Clear <=> eventOf(p, was, is).kind = "recovered"
         /\ is # Clear => eventOf(p, was, is).severity = is
  BY DEF eventOf, kindOf, Event, Severity, Clear

\* The cycle puts every change of a condition in its batch, or drops it in
\* silence and excuses who was told of it.
LEMMA NotifierCycleInv == ASSUME DeliveryInv, NotifierCycle PROVE DeliveryInv'
  <1> PICK new \in [Pairs -> Severity \cup {Clear}], silent \in SUBSET Pairs :
        NotifierCycle!2!(new, silent)
    BY DEF NotifierCycle
  <1> DEFINE news == {p \in Pairs \ silent : told[p] # new[p]}
             events == {eventOf(p, told[p], new[p]) : p \in news}
             present == {h \in Hooks : hooks[h] # Absent}
  <1>1. /\ batch = NoBatch /\ told' = new
        /\ \A p \in silent : told[p] # Clear /\ new[p] = Clear
        /\ batch' = IF ~hooksOn \/ events = {} \/ present = {} THEN NoBatch
                    ELSE [events |-> events, hooks |-> present, cfg |-> hooks, tags |-> hostTags]
        /\ excused' = [h \in Hooks |-> [p \in Pairs |->
                         excused[h][p] \/ (p \in silent /\ belief[h][p] # Clear)]]
        /\ hooksOn' = hooksOn /\ hooks' = hooks /\ hostTags' = hostTags /\ saves' = saves
        /\ belief' = belief
    BY DEF NotifierCycle
  <1>2. told \in [Pairs -> Severity \cup {Clear}]
    BY DEF DeliveryInv, DeliveryTypeOK
  <1>3. \A p \in news : /\ eventOf(p, told[p], new[p]) \in Event
                        /\ eventOf(p, told[p], new[p]).pair = p
                        /\ new[p] = Clear <=> eventOf(p, told[p], new[p]).kind = "recovered"
                        /\ new[p] # Clear => eventOf(p, told[p], new[p]).severity = new[p]
    <2> SUFFICES ASSUME NEW p \in news
                 PROVE  /\ eventOf(p, told[p], new[p]) \in Event
                        /\ eventOf(p, told[p], new[p]).pair = p
                        /\ new[p] = Clear <=> eventOf(p, told[p], new[p]).kind = "recovered"
                        /\ new[p] # Clear => eventOf(p, told[p], new[p]).severity = new[p]
      OBVIOUS
    <2>1. p \in Pairs /\ told[p] \in Severity \cup {Clear} /\ new[p] \in Severity \cup {Clear}
          /\ told[p] # new[p]
      BY <1>2
    <2> QED
      BY ONLY <2>1, EventOfTrue
  <1>4. events \subseteq Event
    BY <1>3
  <1>5. /\ \A e \in events : /\ new[e.pair] = Clear <=> e.kind = "recovered"
                             /\ new[e.pair] # Clear => e.severity = new[e.pair]
        /\ \A p \in news : \E e \in events : e.pair = p
    BY <1>3
  <1> HIDE DEF events
  <1>6. CASE ~hooksOn \/ events = {} \/ present = {}
    <2>1. batch' = NoBatch
      BY <1>1, <1>6
    <2>2. DeliveryTypeOK'
      BY <1>1, <2>1, NoBatchIsBatch DEF DeliveryInv, DeliveryTypeOK
    <2>3. RightOrUnderway'
      <3> SUFFICES ASSUME NEW h \in Hooks, NEW p \in Pairs, Due(h, p)' PROVE RightAbout(h, p)'
        BY DEF RightOrUnderway
      <3>1. Due(h, p) /\ hooks[h] \in HookConf \cup {Absent} /\ hooks[h] # Absent
            /\ hooksOn /\ (p \in silent => belief[h][p] = Clear)
        BY <1>1 DEF Due, DeliveryInv, DeliveryTypeOK
      <3>2. RightAbout(h, p)
        BY <3>1, <1>1, NoBatchIsBatch DEF DeliveryInv, RightOrUnderway, Underway
      <3>3. p \notin news
        BY <3>1, <1>5, <1>6
      <3>4. CASE p \in silent
        BY <3>1, <3>4, <1>1, FloorBelowClear DEF RightAbout, Clear
      <3>5. CASE p \notin silent
        BY <3>2, <3>3, <3>5, <1>1 DEF RightAbout
      <3> QED
        BY <3>4, <3>5
    <2> QED
      BY <2>1, <2>2, <2>3, NoBatchIsBatch DEF DeliveryInv, EventsTrue, BatchCurrent
  <1>7. CASE ~(~hooksOn \/ events = {} \/ present = {})
    <2>1. batch' = [events |-> events, hooks |-> present, cfg |-> hooks, tags |-> hostTags]
      BY <1>1, <1>7
    <2>2. batch' \in Batch /\ batch'.events = events /\ batch'.hooks = present
          /\ batch'.cfg = hooks /\ batch'.tags = hostTags
      BY <2>1, <1>4 DEF Batch, DeliveryInv, DeliveryTypeOK
    <2>3. DeliveryTypeOK'
      BY <1>1, <2>2, <1>4 DEF DeliveryInv, DeliveryTypeOK
    <2>4. EventsTrue'
      BY <2>2, <1>1, <1>5 DEF EventsTrue
    <2>5. BatchCurrent'
      BY <2>2, <1>1 DEF BatchCurrent
    <2>6. RightOrUnderway'
      <3> SUFFICES ASSUME NEW h \in Hooks, NEW p \in Pairs, Due(h, p)'
                   PROVE  (RightAbout(h, p) \/ Underway(h, p))'
        BY DEF RightOrUnderway
      <3>1. Due(h, p) /\ hooks[h] \in HookConf \cup {Absent} /\ hooks[h] # Absent
            /\ hooksOn /\ (p \in silent => belief[h][p] = Clear)
        BY <1>1 DEF Due, DeliveryInv, DeliveryTypeOK
      <3>2. RightAbout(h, p)
        BY <3>1, <1>1, NoBatchIsBatch DEF DeliveryInv, RightOrUnderway, Underway
      <3>3. CASE p \in news
        BY <3>3, <3>1, <2>2, <1>5 DEF Underway
      <3>4. CASE p \in silent
        BY <3>1, <3>4, <1>1, FloorBelowClear DEF RightAbout, Clear
      <3>5. CASE p \notin silent /\ p \notin news
        BY <3>2, <3>5, <1>1 DEF RightAbout
      <3> QED
        BY <3>3, <3>4, <3>5
    <2> QED
      BY <2>2, <2>3, <2>4, <2>5, <2>6 DEF DeliveryInv
  <1> QED
    BY <1>6, <1>7

\* A post that arrives makes its readers right; what a hook does not want of a
\* batch is below its floor, and no all-clear is below any floor.
LEMMA PostInv ==
  ASSUME DeliveryInv, NEW h \in Hooks, NEW ok \in BOOLEAN, Post(h, ok) PROVE DeliveryInv'
  <1> DEFINE about == {e.pair : e \in Wanted(h)}
             heard(p) == CHOOSE e \in Wanted(h) : e.pair = p
  <1>1. /\ h \in batch.hooks /\ batch' = Rest(h)
        /\ belief' = [belief EXCEPT ![h] = [p \in Pairs |->
                      IF ~ok \/ p \notin about THEN belief[h][p]
                      ELSE IF heard(p).kind = "recovered" THEN Clear ELSE heard(p).severity]]
        /\ excused' = [excused EXCEPT ![h] = [p \in Pairs |->
                      IF p \in about THEN ~ok ELSE excused[h][p]]]
        /\ told' = told /\ hooksOn' = hooksOn /\ hooks' = hooks /\ hostTags' = hostTags
        /\ saves' = saves
    BY DEF Post
  <1>2. batch \in Batch /\ DeliveryTypeOK /\ EventsTrue /\ BatchCurrent /\ RightOrUnderway
    BY DEF DeliveryInv
  <1>3. batch' \in Batch /\ batch'.hooks \subseteq batch.hooks \ {h}
        /\ batch'.events \subseteq batch.events
        /\ (batch'.hooks # {} => /\ batch'.hooks = batch.hooks \ {h}
                                 /\ batch'.events = batch.events
                                 /\ batch'.cfg = batch.cfg /\ batch'.tags = batch.tags)
        /\ (batch'.hooks = {} => batch.hooks \ {h} = {})
    BY <1>1, <1>2, NoBatchIsBatch DEF Rest, Batch
  <1>4. Wanted(h) \subseteq batch.events /\ batch.events \subseteq Event
    BY <1>2 DEF Wanted, Batch
  <1>5. ASSUME NEW p \in about
        PROVE  /\ heard(p).kind = "recovered" => told[p] = Clear
               /\ heard(p).kind # "recovered" => heard(p).severity = told[p]
               /\ heard(p).kind # "recovered" => told[p] # Clear
    <2>1. heard(p) \in Wanted(h) /\ heard(p).pair = p
      BY <1>5
    <2> QED
      BY <2>1, <1>4, <1>2 DEF EventsTrue
  <1>6. \A p \in Pairs : belief'[h][p] = IF ok /\ p \in about THEN told[p] ELSE belief[h][p]
    BY <1>1, <1>2, <1>5 DEF DeliveryTypeOK
  <1> HIDE DEF heard
  <1>7. \A p \in Pairs : excused'[h][p] = IF p \in about THEN ~ok ELSE excused[h][p]
    BY <1>1, <1>2 DEF DeliveryTypeOK
  <1>8. \A g \in Hooks \ {h} : belief'[g] = belief[g] /\ excused'[g] = excused[g]
    BY <1>1, <1>2 DEF DeliveryTypeOK
  <1>9. DeliveryTypeOK'
    <2>1. belief'[h] \in [Pairs -> Severity \cup {Clear}]
      <3>1. \A p \in Pairs : belief'[h][p] \in Severity \cup {Clear}
        BY <1>6, <1>2 DEF DeliveryTypeOK
      <3>2. \E f : belief'[h] = [p \in Pairs |-> f[p]]
        <4>1. belief'[h] = [p \in Pairs |->
                      IF ~ok \/ p \notin about THEN belief[h][p]
                      ELSE IF heard(p).kind = "recovered" THEN Clear ELSE heard(p).severity]
          BY <1>1, <1>2 DEF DeliveryTypeOK
        <4> QED
          BY <4>1
      <3> QED
        BY <3>1, <3>2
    <2>2. belief' \in [Hooks -> [Pairs -> Severity \cup {Clear}]]
      BY <2>1, <1>8, <1>1, <1>2 DEF DeliveryTypeOK
    <2>3. excused' \in [Hooks -> [Pairs -> BOOLEAN]]
      BY <1>1, <1>2 DEF DeliveryTypeOK
    <2>4. batch'.events \subseteq Event /\ batch'.hooks \subseteq Hooks
      BY <1>3 DEF Batch
    <2> QED
      BY <2>2, <2>3, <2>4, <1>1, <1>2 DEF DeliveryTypeOK
  <1>10. EventsTrue'
    BY <1>2, <1>3, <1>1 DEF EventsTrue
  <1>11. BatchCurrent'
    <2> SUFFICES ASSUME NEW g \in batch'.hooks, NEW p \in Pairs, ~excused'[g][p]
                 PROVE  batch'.cfg[g] = hooks'[g] /\ batch'.tags[p] = hostTags'[p]
      BY DEF BatchCurrent
    <2>1. g \in batch.hooks /\ g # h /\ g \in Hooks
      BY <1>3, <1>2 DEF Batch
    <2>2. ~excused[g][p]
      BY <2>1, <1>8
    <2> QED
      BY <2>1, <2>2, <1>2, <1>3, <1>1 DEF BatchCurrent
  <1>12. RightOrUnderway'
    <2> SUFFICES ASSUME NEW g \in Hooks, NEW p \in Pairs, Due(g, p)'
                 PROVE  (RightAbout(g, p) \/ Underway(g, p))'
      BY DEF RightOrUnderway
    <2>1. CASE g # h
      <3>1. Due(g, p)
        BY <2>1, <1>8, <1>1 DEF Due
      <3>2. CASE RightAbout(g, p)
        BY <3>2, <2>1, <1>8, <1>1 DEF RightAbout
      <3>3. CASE Underway(g, p)
        BY <3>3, <2>1, <1>3 DEF Underway
      <3> QED
        BY <3>1, <3>2, <3>3, <1>2 DEF RightOrUnderway
    <2>2. CASE g = h /\ p \in about
      <3>1. ok /\ belief'[h][p] = told[p]
        BY <2>2, <1>6, <1>7 DEF Due
      <3>2. hooks[h] \in HookConf \cup {Absent} /\ hooks[h] # Absent
        BY <2>2, <1>1, <1>2 DEF DeliveryTypeOK, Due
      <3> QED
        BY <3>1, <3>2, <2>2, <1>1, FloorBelowClear DEF RightAbout, Clear
    <2>3. CASE g = h /\ p \notin about
      <3>1. Due(h, p) /\ ~excused[h][p] /\ belief'[h][p] = belief[h][p]
        BY <2>3, <1>1, <1>6, <1>7 DEF Due
      <3>2. CASE RightAbout(h, p)
        BY <3>1, <3>2, <2>3, <1>1 DEF RightAbout
      <3>3. CASE Underway(h, p)
        <4> PICK e \in batch.events : e.pair = p
          BY <3>3 DEF Underway
        <4>1. e \notin Wanted(h)
          BY <2>3
        <4>2. batch.cfg[h] = hooks[h] /\ batch.tags[p] = hostTags[p]
          BY <3>1, <1>1, <1>2 DEF BatchCurrent
        <4>3. ~AboveFloor(hooks[h], e)
          BY <4>1, <4>2, <3>1 DEF Wanted, hook_wants, Due
        <4>4. told[p] # Clear /\ e.severity = told[p] /\ told[p] \in Severity
          BY <4>3, <1>2 DEF AboveFloor, EventsTrue, DeliveryTypeOK
        <4> QED
          BY <4>3, <4>4, <2>3, <1>1 DEF AboveFloor, RightAbout
      <3> QED
        BY <3>1, <3>2, <3>3, <1>2 DEF RightOrUnderway
    <2> QED
      BY <2>1, <2>2, <2>3
  <1> QED
    BY <1>3, <1>9, <1>10, <1>11, <1>12 DEF DeliveryInv

\* Whoever configures a webhook, or changes a host's tags, excuses what changes.
LEMMA DeliverySaveInv ==
  ASSUME DeliveryInv, batch' = batch, told' = told, belief' = belief, DeliveryTypeOK',
         \A h \in Hooks, p \in Pairs : ~excused'[h][p] =>
           /\ ~excused[h][p] /\ hooksOn' = hooksOn /\ hooks'[h] = hooks[h]
           /\ hostTags'[p] = hostTags[p]
  PROVE  DeliveryInv'
  <1>1. BatchCurrent'
    BY DEF DeliveryInv, BatchCurrent, Batch
  <1>2. RightOrUnderway'
    BY DEF DeliveryInv, RightOrUnderway, Due, RightAbout, Underway
  <1> QED
    BY <1>1, <1>2 DEF DeliveryInv, EventsTrue

LEMMA NotificationsSaveInv == ASSUME DeliveryInv, notifications_save PROVE DeliveryInv'
  <1>0. /\ DeliveryTypeOK /\ saves < MaxSaves /\ saves' = saves + 1
        /\ told' = told /\ hostTags' = hostTags /\ batch' = batch /\ belief' = belief
    BY DEF DeliveryInv, notifications_save
  <1>1. PICK on \in BOOLEAN, new \in [Hooks -> HookConf \cup {Absent}] :
          /\ hooksOn' = on /\ hooks' = new
          /\ excused' = [h \in Hooks |-> [p \in Pairs |->
                           excused[h][p] \/ on # hooksOn \/ new[h] # hooks[h]]]
    BY DEF notifications_save
  <1>2. \A h \in Hooks, p \in Pairs :
          excused'[h][p] = (excused[h][p] \/ on # hooksOn \/ new[h] # hooks[h])
    BY <1>1
  <1>3. excused' \in [Hooks -> [Pairs -> BOOLEAN]]
    <2>1. \A h \in Hooks, p \in Pairs :
            (excused[h][p] \/ on # hooksOn \/ new[h] # hooks[h]) \in BOOLEAN
      OBVIOUS
    <2> QED
      BY <1>1, <2>1
  <1>4. DeliveryTypeOK'
    BY <1>0, <1>1, <1>3, DeliveryAssumption DEF DeliveryTypeOK
  <1>5. ASSUME NEW h \in Hooks, NEW p \in Pairs, ~excused'[h][p]
        PROVE  /\ ~excused[h][p] /\ hooksOn' = hooksOn /\ hooks'[h] = hooks[h]
               /\ hostTags'[p] = hostTags[p]
    <2>1. ~excused[h][p] /\ on = hooksOn /\ new[h] = hooks[h]
      BY <1>2, <1>5
    <2> QED
      BY <2>1, <1>0, <1>1
  <1> QED
    BY <1>0, <1>4, <1>5, DeliverySaveInv

LEMMA SetTagsInv == ASSUME DeliveryInv, NEW q \in Pairs, SetTags(q) PROVE DeliveryInv'
  <1> USE DEF DeliveryInv, DeliveryTypeOK
  <1>1. DeliveryTypeOK'
    BY DeliveryAssumption DEF SetTags
  <1>2. ASSUME NEW h \in Hooks, NEW p \in Pairs, ~excused'[h][p]
        PROVE  /\ ~excused[h][p] /\ hooksOn' = hooksOn /\ hooks'[h] = hooks[h]
               /\ hostTags'[p] = hostTags[p]
    <2>1. p # q
      BY <1>2 DEF SetTags
    <2> QED
      BY <1>2, <2>1 DEF SetTags
  <1> QED
    BY <1>1, <1>2, DeliverySaveInv DEF SetTags

\* A restart excuses everybody.
LEMMA DeliveryRestartInv == ASSUME DeliveryInv, DeliveryRestart PROVE DeliveryInv'
  <1>1. DeliveryTypeOK' /\ batch' = NoBatch
    BY NoBatchIsBatch DEF DeliveryInv, DeliveryTypeOK, DeliveryRestart
  <1>2. \A h \in Hooks, p \in Pairs : excused'[h][p]
    BY DEF DeliveryRestart
  <1> QED
    BY <1>1, <1>2, NoBatchIsBatch
    DEF DeliveryInv, EventsTrue, BatchCurrent, RightOrUnderway, Due

LEMMA DeliveryNextInv == DeliveryInv /\ [DeliveryNext]_deliveryVars => DeliveryInv'
  <1> SUFFICES ASSUME DeliveryInv, [DeliveryNext]_deliveryVars PROVE DeliveryInv'
    OBVIOUS
  <1>1. CASE UNCHANGED deliveryVars
    BY <1>1 DEF deliveryVars, DeliveryInv, DeliveryTypeOK, EventsTrue, BatchCurrent,
                RightOrUnderway, Due, RightAbout, Underway
  <1> QED
    BY <1>1, NotifierCycleInv, PostInv, NotificationsSaveInv, SetTagsInv, DeliveryRestartInv
    DEF DeliveryNext

\* _dispatch reads the webhooks once and posts to one after the other, while they
\* change: with any number of hooks, conditions and edits, whoever was told of a
\* condition hears its all-clear, and what is above a hook's floor reaches it.
THEOREM DeliveryHooksKeepUp == DeliverySpec => [](DeliveryTypeOK /\ HooksKeepUp)
  <1>1. DeliveryInv => DeliveryTypeOK /\ HooksKeepUp
    <2> SUFFICES ASSUME DeliveryInv PROVE HooksKeepUp
      BY DEF DeliveryInv
    <2> QED
      BY NoBatchIsBatch DEF DeliveryInv, RightOrUnderway, Due, RightAbout, Underway, HooksKeepUp
  <1> QED
    BY <1>1, DeliveryInitInv, DeliveryNextInv, PTL DEF DeliverySpec

-----------------------------------------------------------------------------
(* The files that belong together *)

TlsKinds == {"upload", "generate"}
JobKinds == {"none", "restore", "backup"} \cup TlsKinds
Write == [file : Files, to : Files, content : Content]
TlsWrite == [file : Tls \cup Temps, to : Tls \cup Temps, content : Content]
Job == [kind : JobKinds, todo : Seq(Write), overlapped : BOOLEAN]

\* how far an upload or a generation of g that runs alone has come, and what
\* is on the disk by then
UploadProgress(todo, g, d) ==
  \/ todo = UploadWrites(g, g)
  \/ /\ todo = <<Put("tmpKey", g), Rename("tmpCert", "cert"), Rename("tmpKey", "key")>>
     /\ d["tmpCert"] = g
  \/ /\ todo = <<Rename("tmpCert", "cert"), Rename("tmpKey", "key")>>
     /\ d["tmpCert"] = g /\ d["tmpKey"] = g
  \/ todo = <<Rename("tmpKey", "key")>> /\ d["cert"] = g /\ d["tmpKey"] = g
  \/ todo = <<>> /\ d["cert"] = g /\ d["key"] = g
GenerateProgress(todo, g, d) ==
  \/ todo = GenerateWrites(g)
  \/ todo = <<Put("cert", g), Put("key", Torn), Put("key", g)>>
  \/ todo = <<Put("key", Torn), Put("key", g)>> /\ d["cert"] = g
  \/ todo = <<Put("key", g)>> /\ d["cert"] = g
  \/ todo = <<>> /\ d["cert"] = g /\ d["key"] = g
Progress(j) == \E g \in Generations :
                 \/ job[j].kind = "upload" /\ UploadProgress(job[j].todo, g, disk)
                 \/ job[j].kind = "generate" /\ GenerateProgress(job[j].todo, g, disk)

\* A job on the certificate that was overlapped has put it in doubt; one that
\* was not is the only one, and on its way.
TlsJobsOk == \A j \in TlsJobs :
               /\ job[j].todo \in Seq(TlsWrite)
               /\ job[j].overlapped => "tls" \in doubt
               /\ ~job[j].overlapped => TlsJobs = {j} /\ Progress(j)
PairOk == ("tls" \notin doubt /\ \A j \in Jobs : ~HalfDone(j)) => disk["cert"] = disk["key"]
SetOk == "set" \notin doubt => disk["nodes"] \in {disk["auth"], Missing}

\* A restore runs alone, under doubt, and what it has not written it will.
RestoreOk == \A j \in Jobs : job[j].kind = "restore" =>
               /\ up = FALSE /\ {"tls", "set"} \subseteq doubt
               /\ \A i \in Jobs \ {j} : job[i].kind = "none"
               /\ \A k \in 1 .. Len(job[j].todo) :
                    \E f \in Mine : job[j].todo[k] = Put(f, bundle[f])
               /\ \A f \in Mine : \/ disk[f] = bundle[f]
                                  \/ \E k \in 1 .. Len(job[j].todo) : job[j].todo[k].to = f
FilesInv ==
  FilesTypeOK /\ job \in [Jobs -> Job] /\ TlsJobsOk /\ PairOk /\ SetOk /\ RestoreOk

\* At the start nothing runs, and the files are of one generation or missing.
LEMMA FilesInitInv == FilesInit => FilesInv
  <1> SUFFICES ASSUME FilesInit PROVE FilesInv
    OBVIOUS
  <1>1. /\ disk \in [Files -> Content] /\ disk["cert"] = disk["key"]
        /\ disk["nodes"] = disk["auth"]
    BY StateFilesAssumption DEF FilesInit, Files, Members, Tls, Temps, Content, Missing
  <1>2. bundle \in [Members -> Content]
    BY DEF FilesInit, NoBundle, Content
  <1>3. NoJob \in Job /\ NoJob.kind = "none"
    BY DEF NoJob, Job, JobKinds
  <1>4. job \in [Jobs -> Job] /\ \A j \in Jobs : job[j].kind = "none"
    BY <1>3 DEF FilesInit
  <1>5. FilesTypeOK
    <2>1. up = FALSE /\ kills = 0 /\ doubt = {}
      BY DEF FilesInit
    <2>2. up \in BOOLEAN
      BY <2>1
    <2>3. kills \in 0 .. MaxKills
      BY <2>1, StateFilesAssumption
    <2>4. doubt \subseteq {"tls", "set"}
      BY <2>1
    <2>5. \A j \in Jobs : job[j].overlapped \in BOOLEAN
      BY <1>4 DEF Job
    <2> QED
      BY <1>1, <1>2, <1>4, <2>2, <2>3, <2>4, <2>5, Zenon DEF FilesTypeOK
  <1> QED
    BY <1>1, <1>4, <1>5 DEF FilesInv, TlsJobsOk, TlsJobs, PairOk, SetOk, RestoreOk

\* The two lists of writes.
LEMMA WritesTyped ==
  ASSUME NEW g \in Generations
  PROVE  /\ UploadWrites(g, g) \in Seq(TlsWrite) /\ Len(UploadWrites(g, g)) = 4
         /\ GenerateWrites(g) \in Seq(TlsWrite) /\ Len(GenerateWrites(g)) = 4
  <1>1. \A f \in Tls \cup Temps, c \in Content : Put(f, c) \in TlsWrite
    BY DEF Put, TlsWrite
  <1>2. \A t, f \in Tls \cup Temps : Rename(t, f) \in TlsWrite
    BY DEF Rename, TlsWrite, Content
  <1>3. g \in Content /\ Torn \in Content
    BY DEF Content
  <1> QED
    BY <1>1, <1>2, <1>3 DEF UploadWrites, GenerateWrites, Tls, Temps

LEMMA TlsWritesAreWrites == TlsWrite \subseteq Write /\ Seq(TlsWrite) \subseteq Seq(Write)
  <1>1. Tls \cup Temps \subseteq Files
    BY DEF Files, Members
  <1>2. TlsWrite \subseteq Write
    BY <1>1 DEF TlsWrite, Write
  <1> QED
    BY <1>2

\* What Launch does to the other jobs: it marks the ones it overlaps.
LEMMA LaunchJobs ==
  ASSUME job \in [Jobs -> Job], NEW j \in Jobs, NEW kd \in JobKinds, NEW todo \in Seq(Write),
         Launch(j, kd, todo)
  PROVE  LET clash == kd \in TlsKinds /\ TlsJobs # {}
         IN  /\ job' \in [Jobs -> Job]
             /\ job'[j].kind = kd /\ job'[j].todo = todo /\ job'[j].overlapped = clash
             /\ \A i \in Jobs \ {j} :
                  /\ job'[i].kind = job[i].kind /\ job'[i].todo = job[i].todo
                  /\ job'[i].overlapped = (job[i].overlapped \/ (clash /\ i \in TlsJobs))
  <1> DEFINE clash == kd \in TlsKinds /\ TlsJobs # {}
             mine == [kind |-> kd, todo |-> todo, overlapped |-> clash]
             others(i) == [job[i] EXCEPT !.overlapped = @ \/ (clash /\ i \in TlsJobs)]
  <1>1. job' = [i \in Jobs |-> IF i = j THEN mine ELSE others(i)]
    BY Zenon DEF Launch, TlsKinds
  <1>2. clash \in BOOLEAN
    OBVIOUS
  <1> HIDE DEF clash
  <1>3. mine \in Job
    BY <1>2 DEF Job
  <1>4. ASSUME NEW i \in Jobs
        PROVE  /\ others(i) \in Job
               /\ others(i).kind = job[i].kind /\ others(i).todo = job[i].todo
               /\ others(i).overlapped = (job[i].overlapped \/ (clash /\ i \in TlsJobs))
    <2> DEFINE w == job[i]
    <2>1. w \in Job
      OBVIOUS
    <2> HIDE DEF w
    <2>2. \A b \in BOOLEAN : /\ [w EXCEPT !.overlapped = b] \in Job
                             /\ [w EXCEPT !.overlapped = b].kind = w.kind
                             /\ [w EXCEPT !.overlapped = b].todo = w.todo
                             /\ [w EXCEPT !.overlapped = b].overlapped = b
      BY <2>1 DEF Job
    <2>3. (w.overlapped \/ (clash /\ i \in TlsJobs)) \in BOOLEAN
      BY <2>1, <1>2 DEF Job
    <2> QED
      BY <2>2, <2>3 DEF w
  <1> HIDE DEF mine, others
  <1>5. job' \in [Jobs -> Job] /\ job'[j] = mine /\ \A i \in Jobs \ {j} : job'[i] = others(i)
    BY <1>1, <1>3, <1>4
  <1> QED
    BY <1>4, <1>5 DEF mine, clash

\* Steps that leave the jobs on the certificate and its files alone.
LEMMA TlsUntouched ==
  ASSUME FilesInv, job' \in [Jobs -> Job], doubt' = doubt,
         \A i \in Jobs : job[i].kind \in TlsKinds \/ job'[i].kind \in TlsKinds => job'[i] = job[i],
         \A f \in Tls \cup Temps : disk'[f] = disk[f]
  PROVE  TlsJobsOk' /\ PairOk'
  <1>1. TlsJobs' = TlsJobs /\ \A j \in TlsJobs : job'[j] = job[j]
    BY DEF TlsJobs, TlsKinds
  <1>2. \A f \in {"cert", "key", "tmpCert", "tmpKey"} : disk'[f] = disk[f]
    BY DEF Tls, Temps
  <1>3. \A j \in Jobs : HalfDone(j) => HalfDone(j)'
    BY DEF HalfDone, TlsKinds
  <1>4. \A j \in TlsJobs : Progress(j) => Progress(j)'
    BY <1>1, <1>2 DEF Progress, UploadProgress, GenerateProgress
  <1>5. TlsJobsOk'
    BY <1>1, <1>4 DEF FilesInv, TlsJobsOk
  <1>6. PairOk'
    BY <1>2, <1>3 DEF FilesInv, PairOk
  <1> QED
    BY <1>5, <1>6

\* A new job on the certificate overlaps the ones that run, or runs alone.
LEMMA TlsLaunchInv ==
  ASSUME FilesInv, NEW j \in Jobs, job[j].kind = "none",
         \A i \in Jobs : job[i].kind # "restore",
         NEW g \in Generations, NEW kd \in TlsKinds, NEW todo,
         todo = (IF kd = "upload" THEN UploadWrites(g, g) ELSE GenerateWrites(g)),
         Launch(j, kd, todo),
         doubt' = (IF TlsJobs = {} THEN doubt ELSE doubt \cup {"tls"}),
         disk' \in [Files -> Content], \A f \in Tls \cup Temps : disk'[f] = disk[f], SetOk',
         UNCHANGED <<up, bundle, kills>>
  PROVE  FilesInv'
  <1>1. todo \in Seq(TlsWrite) /\ todo \in Seq(Write) /\ Len(todo) = 4 /\ kd \in JobKinds
    BY WritesTyped, TlsWritesAreWrites DEF TlsKinds, JobKinds
  <1> DEFINE clash == TlsJobs # {}
  <1>2. job \in [Jobs -> Job] /\ TlsJobsOk /\ PairOk
    BY DEF FilesInv
  <1>3. /\ job' \in [Jobs -> Job]
        /\ job'[j].kind = kd /\ job'[j].todo = todo /\ job'[j].overlapped = clash
        /\ \A i \in Jobs \ {j} : /\ job'[i].kind = job[i].kind /\ job'[i].todo = job[i].todo
                                 /\ job'[i].overlapped = (job[i].overlapped \/ (clash /\ i \in TlsJobs))
    BY <1>1, <1>2, LaunchJobs
  <1>4. TlsJobs' = TlsJobs \cup {j} /\ j \notin TlsJobs
    BY <1>3 DEF TlsJobs, TlsKinds
  <1>5. FilesTypeOK'
    <2>1. doubt' \subseteq {"tls", "set"}
      BY DEF FilesInv, FilesTypeOK
    <2>2. \A i \in Jobs : /\ job'[i].kind \in {"none", "upload", "generate", "restore", "backup"}
                          /\ job'[i].overlapped \in BOOLEAN
      BY <1>3 DEF Job, JobKinds, TlsKinds
    <2> QED
      BY <2>1, <2>2, Zenon DEF FilesInv, FilesTypeOK
  <1>6. TlsJobsOk'
    <2>1. CASE TlsJobs = {}
      <3>1. TlsJobs' = {j} /\ job'[j].overlapped = FALSE
        BY <1>3, <1>4, <2>1
      <3>2. Progress(j)'
        BY <1>3 DEF Progress, UploadProgress, GenerateProgress, TlsKinds
      <3> QED
        BY <3>1, <3>2, <1>1, <1>3 DEF TlsJobsOk
    <2>2. CASE TlsJobs # {}
      BY <2>2, <1>1, <1>2, <1>3, <1>4, ZenonT(30) DEF TlsJobsOk, TlsJobs
    <2> QED
      BY <2>1, <2>2
  <1>7. PairOk'
    <2>1. \A i \in Jobs : HalfDone(i) => HalfDone(i)'
      BY <1>3 DEF HalfDone
    <2> QED
      BY <2>1, <1>2 DEF PairOk, Tls
  <1>8. RestoreOk'
    BY <1>3 DEF RestoreOk, TlsKinds
  <1> QED
    BY <1>3, <1>5, <1>6, <1>7, <1>8 DEF FilesInv

LEMMA TlsRequestInv ==
  ASSUME FilesInv, NEW j \in Jobs, tls_upload_cert(j) \/ tls_regenerate(j) PROVE FilesInv'
  <1>1. up = TRUE /\ job[j].kind = "none" /\ disk' = disk /\ UNCHANGED <<up, bundle, kills>>
        /\ doubt' = (IF TlsJobs = {} THEN doubt ELSE doubt \cup {"tls"})
    BY DEF tls_upload_cert, tls_regenerate, FilesInv, FilesTypeOK
  <1>2. \E g \in Generations, kd \in TlsKinds :
          Launch(j, kd, IF kd = "upload" THEN UploadWrites(g, g) ELSE GenerateWrites(g))
    <2>1. CASE tls_upload_cert(j)
      <3>1. PICK cert, key \in Generations :
              PairMatches(cert, key) /\ Launch(j, "upload", UploadWrites(cert, key))
        BY <2>1 DEF tls_upload_cert
      <3>2. cert = key
        BY <3>1 DEF PairMatches
      <3> QED
        BY <3>1, <3>2 DEF TlsKinds
    <2>2. CASE tls_regenerate(j)
      <3>1. PICK g \in Generations : Launch(j, "generate", GenerateWrites(g))
        BY <2>2 DEF tls_regenerate
      <3> QED
        BY <3>1 DEF TlsKinds
    <2> QED
      BY <2>1, <2>2
  <1>3. PICK g \in Generations, kd \in TlsKinds :
          Launch(j, kd, IF kd = "upload" THEN UploadWrites(g, g) ELSE GenerateWrites(g))
    BY <1>2
  <1>4. \A i \in Jobs : job[i].kind # "restore"
    BY <1>1 DEF FilesInv, RestoreOk
  <1>5. SetOk' /\ disk' \in [Files -> Content]
    BY <1>1 DEF FilesInv, SetOk, FilesTypeOK
  <1> QED
    BY <1>1, <1>3, <1>4, <1>5, TlsLaunchInv

\* A controller that starts writes the auth file it does not find: no registry
\* is there that another key was used for.
LEMMA StartAuth ==
  ASSUME FilesInv, disk' = [disk EXCEPT !["auth"] = IF @ = Missing THEN 1 ELSE @], doubt' = doubt
  PROVE  /\ disk' \in [Files -> Content] /\ SetOk'
         /\ \A f \in Tls \cup Temps : disk'[f] = disk[f]
  BY StateFilesAssumption
  DEF FilesInv, FilesTypeOK, SetOk, Files, Members, Tls, Temps, Content, Missing

LEMMA StartGeneratingInv ==
  ASSUME FilesInv, NEW j \in Jobs, StartGenerating(j) PROVE FilesInv'
  <1>1. /\ \A i \in Jobs : job[i].kind = "none"
        /\ disk' = [disk EXCEPT !["auth"] = IF @ = Missing THEN 1 ELSE @]
        /\ UNCHANGED <<up, bundle, kills, doubt>>
    BY DEF StartGenerating
  <1>2. PICK g \in Generations : Launch(j, "generate", GenerateWrites(g))
    BY DEF StartGenerating
  <1>3. TlsJobs = {}
    BY <1>1 DEF TlsJobs
  <1>4. "generate" \in TlsKinds /\ "generate" # "upload"
    BY DEF TlsKinds
  <1> QED
    BY <1>1, <1>2, <1>3, <1>4, StartAuth, TlsLaunchInv

\* Serving starts, and the first host is registered, while no restore runs.
LEMMA ServeInv == ASSUME FilesInv, StartServing \/ node_add PROVE FilesInv'
  <1>1. job' = job /\ bundle' = bundle /\ kills' = kills /\ doubt' = doubt /\ up' = TRUE
        /\ \A i \in Jobs : job[i].kind # "restore"
    BY DEF StartServing, node_add, FilesInv, RestoreOk, FilesTypeOK
  <1>2. /\ disk' \in [Files -> Content] /\ SetOk'
        /\ \A f \in Tls \cup Temps : disk'[f] = disk[f]
    <2>1. CASE StartServing
      BY <2>1, <1>1, StartAuth DEF StartServing
    <2>2. CASE node_add
      BY <2>2, <1>1 DEF node_add, FilesInv, FilesTypeOK, SetOk, Files, Members, Tls, Temps
    <2> QED
      BY <2>1, <2>2
  <1>3. FilesTypeOK' /\ job' \in [Jobs -> Job]
    <2>1. up' \in BOOLEAN
      BY <1>1
    <2> QED
      BY <2>1, <1>1, <1>2, Zenon DEF FilesInv, FilesTypeOK
  <1>4. TlsJobsOk' /\ PairOk'
    BY <1>1, <1>2, <1>3, TlsUntouched
  <1> QED
    BY <1>1, <1>2, <1>3, <1>4 DEF FilesInv, RestoreOk

\* A backup reads, and no restore runs meanwhile.
LEMMA BackupInv ==
  ASSUME FilesInv, NEW j \in Jobs, backup_download(j) \/ CopyStep(j) PROVE FilesInv'
  <1>1. disk' = disk /\ up' = up /\ kills' = kills /\ doubt' = doubt
    BY DEF backup_download, CopyStep
  <1>2. job \in [Jobs -> Job] /\ disk \in [Files -> Content] /\ bundle \in [Members -> Content]
        /\ Members \subseteq Files
    BY DEF FilesInv, FilesTypeOK, Files
  <1>3. /\ bundle' \in [Members -> Content] /\ job' \in [Jobs -> Job]
        /\ \A i \in Jobs : job'[i].kind # "restore"
        /\ \A i \in Jobs : job[i].kind \in TlsKinds \/ job'[i].kind \in TlsKinds
                             => job'[i] = job[i]
    <2>1. CASE backup_download(j)
      <3>1. job[j].kind = "none" /\ Launch(j, "backup", BackupReads)
            /\ \A i \in Jobs : job[i].kind # "restore"
            /\ bundle' = [f \in Members |-> IF f \in Tls THEN Missing ELSE disk[f]]
        BY <2>1 DEF backup_download
      <3>2. BackupReads \in Seq(Write) /\ "backup" \in JobKinds /\ "backup" \notin TlsKinds
        BY DEF BackupReads, Put, Write, JobKinds, TlsKinds, Files, Members, Tls, Content
      <3>3. /\ job' \in [Jobs -> Job] /\ job'[j].kind = "backup"
            /\ \A i \in Jobs \ {j} :
                 /\ job'[i].kind = job[i].kind /\ job'[i].todo = job[i].todo
                 /\ job'[i].overlapped = (job[i].overlapped \/ FALSE)
        BY <3>1, <3>2, <1>2, LaunchJobs
      <3>4. ASSUME NEW i \in Jobs \ {j} PROVE job'[i] = job[i]
        <4>1. \A r, q \in Job : (r.kind = q.kind /\ r.todo = q.todo /\ r.overlapped = q.overlapped)
                                => r = q
          BY DEF Job
        <4>2. job[i] \in Job /\ job'[i] \in Job /\ job[i].overlapped \in BOOLEAN
          BY <3>3, <1>2 DEF Job
        <4>3. job'[i].overlapped = job[i].overlapped
          BY <3>3, <4>2
        <4> QED
          BY <3>3, <4>1, <4>2, <4>3
      <3>5. bundle' \in [Members -> Content]
        BY <3>1, <1>2 DEF Content
      <3> QED
        BY <3>1, <3>2, <3>3, <3>4, <3>5 DEF TlsKinds
    <2>2. CASE CopyStep(j)
      <3>1. job[j].kind = "backup" /\ job[j].todo # <<>>
            /\ job' = [job EXCEPT ![j].todo = Tail(@)]
            /\ bundle' = [bundle EXCEPT ![Current(j).to] = disk[Current(j).to]]
        BY <2>2 DEF CopyStep, Advance
      <3>2. job[j] \in Job /\ Tail(job[j].todo) \in Seq(Write)
        BY <3>1, <1>2 DEF Job
      <3>3. job' \in [Jobs -> Job] /\ job'[j].kind = "backup"
            /\ \A i \in Jobs \ {j} : job'[i] = job[i]
        BY <3>1, <3>2, <1>2 DEF Job
      <3>4. bundle' \in [Members -> Content]
        BY <3>1, <1>2
      <3>5. \A i \in Jobs : job[i].kind # "restore"
        BY <3>1 DEF FilesInv, RestoreOk
      <3> QED
        BY <3>1, <3>3, <3>4, <3>5 DEF TlsKinds
    <2> QED
      BY <2>1, <2>2
  <1>4. FilesTypeOK'
    <2>1. \A i \in Jobs : /\ job'[i].kind \in {"none", "upload", "generate", "restore", "backup"}
                          /\ job'[i].overlapped \in BOOLEAN
      BY <1>3 DEF Job, JobKinds, TlsKinds
    <2> QED
      BY <2>1, <1>1, <1>3, Zenon DEF FilesInv, FilesTypeOK
  <1>5. TlsJobsOk' /\ PairOk'
    BY <1>1, <1>3, TlsUntouched
  <1>6. SetOk' /\ RestoreOk'
    BY <1>1, <1>3 DEF FilesInv, SetOk, RestoreOk
  <1> QED
    BY <1>3, <1>4, <1>5, <1>6 DEF FilesInv

Has(s, f) == \E k \in 1 .. Len(s) : s[k] = f

\* What a restore is to write: every member of the bundle, and no more.
LEMMA InOrderAll ==
  ASSUME NEW S \in SUBSET Members
  PROVE  InOrder(S) \in Seq(S) /\ \A f \in S : Has(InOrder(S), f)
  <1>1. ASSUME NEW s \in Seq(S), NEW t \in Seq(S), NEW f, Has(s, f) \/ Has(t, f)
        PROVE  Has(s \o t, f)
    <2>1. Len(s \o t) = Len(s) + Len(t) /\ Len(s) \in Nat /\ Len(t) \in Nat
      OBVIOUS
    <2>2. CASE Has(s, f)
      BY <2>2, <2>1 DEF Has
    <2>3. CASE Has(t, f)
      <3> PICK k \in 1 .. Len(t) : t[k] = f
        BY <2>3 DEF Has
      <3>1. Len(s) + k \in 1 .. Len(s \o t) /\ (s \o t)[Len(s) + k] = f
        BY <2>1
      <3> QED
        BY <3>1 DEF Has
    <2> QED
      BY <1>1, <2>2, <2>3
  <1>2. \A f : One(f, S) \in Seq(S) /\ (f \in S => Has(One(f, S), f))
    BY DEF One, Has
  <1> DEFINE c == One("cert", S)  k == One("key", S)  a == One("auth", S)  n == One("nodes", S)
  <1>3. a \in Seq(S) /\ n \in Seq(S) /\ c \in Seq(S) /\ k \in Seq(S)
    BY <1>2
  <1>4. c \o k \in Seq(S) /\ (c \o k) \o a \in Seq(S) /\ ((c \o k) \o a) \o n \in Seq(S)
    BY <1>3
  <1>5. ASSUME NEW f \in S PROVE Has(a, f) \/ Has(n, f) \/ Has(c, f) \/ Has(k, f)
    <2>1. f \in {"auth", "nodes", "cert", "key"}
      BY DEF Members, Tls
    <2> QED
      BY <2>1, <1>2
  <1>6. ASSUME NEW f \in S PROVE Has(((c \o k) \o a) \o n, f)
    BY <1>1, <1>3, <1>4, <1>5
  <1> QED
    BY <1>4, <1>6 DEF InOrder

LEMMA MineTyped == FilesInv => Mine \in SUBSET Members /\ Members \subseteq Files
  BY DEF Mine, Files

\* A restore starts with everything still to write and everything in doubt.
LEMMA RestoreInv ==
  ASSUME FilesInv, NEW j \in Jobs, NEW force \in BOOLEAN, cli_restore(j, force) PROVE FilesInv'
  <1> DEFINE order == InOrder(Mine)
             todo == [i \in DOMAIN order |-> Put(order[i], bundle[order[i]])]
  <1>1. /\ up = FALSE /\ \A i \in Jobs : job[i].kind = "none"
        /\ Launch(j, "restore", todo) /\ doubt' = doubt \cup {"set", "tls"}
        /\ UNCHANGED <<disk, up, bundle, kills>>
    BY DEF cli_restore, FilesInv, FilesTypeOK
  <1>2. order \in Seq(Mine) /\ \A f \in Mine : Has(order, f)
    BY MineTyped, InOrderAll
  <1>3. /\ bundle \in [Members -> Content] /\ job \in [Jobs -> Job]
        /\ Mine \subseteq Members /\ Members \subseteq Files
    BY MineTyped DEF FilesInv, FilesTypeOK
  <1> HIDE DEF order
  <1>4. \A f \in Mine : Put(f, bundle[f]) \in Write /\ Put(f, bundle[f]).to = f
    BY <1>3 DEF Put, Write
  <1>5. DOMAIN order = 1 .. Len(order) /\ Len(order) \in Nat
        /\ \A k \in 1 .. Len(order) : order[k] \in Mine
    BY <1>2
  <1>6. todo \in Seq(Write) /\ Len(todo) = Len(order)
        /\ \A k \in 1 .. Len(order) : todo[k] = Put(order[k], bundle[order[k]])
    BY <1>4, <1>5
  <1> HIDE DEF todo
  <1>7. /\ job' \in [Jobs -> Job] /\ job'[j].kind = "restore" /\ job'[j].todo = todo
        /\ \A i \in Jobs \ {j} : job'[i].kind = job[i].kind
    <2>1. "restore" \in JobKinds
      BY DEF JobKinds
    <2> QED
      BY <2>1, <1>1, <1>3, <1>6, LaunchJobs
  <1>8. FilesTypeOK'
    <2>1. \A i \in Jobs : /\ job'[i].kind \in {"none", "upload", "generate", "restore", "backup"}
                          /\ job'[i].overlapped \in BOOLEAN
      BY <1>7 DEF Job, JobKinds, TlsKinds
    <2>2. doubt' \subseteq {"tls", "set"}
      BY <1>1 DEF FilesInv, FilesTypeOK
    <2> QED
      BY <2>1, <2>2, <1>1, Zenon DEF FilesInv, FilesTypeOK
  <1>9. TlsJobsOk' /\ PairOk' /\ SetOk'
    BY <1>1, <1>7 DEF TlsJobsOk, TlsJobs, PairOk, SetOk
  <1>10. RestoreOk'
    <2>1. Mine' = Mine
      BY <1>1 DEF Mine
    <2>2. \A k \in 1 .. Len(todo) : \E f \in Mine : todo[k] = Put(f, bundle[f])
      BY <1>5, <1>6
    <2>3. ASSUME NEW f \in Mine PROVE \E k \in 1 .. Len(todo) : todo[k].to = f
      <3> PICK k \in 1 .. Len(order) : order[k] = f
        BY <1>2 DEF Has
      <3> QED
        BY <1>4, <1>6
    <2>4. \A i \in Jobs : job'[i].kind = "restore" => i = j
      BY <1>1, <1>7
    <2>5. up' = FALSE /\ {"tls", "set"} \subseteq doubt' /\ bundle' = bundle
      BY <1>1
    <2> QED
      BY <2>1, <2>2, <2>3, <2>4, <2>5, <1>1, <1>7 DEF RestoreOk
  <1> QED
    BY <1>7, <1>8, <1>9, <1>10 DEF FilesInv

\* Advance takes the first write off one job's list.
LEMMA AdvanceJobs ==
  ASSUME job \in [Jobs -> Job], NEW j \in Jobs, job[j].todo # <<>>, job' = Advance(j)
  PROVE  /\ job' \in [Jobs -> Job] /\ \A i \in Jobs \ {j} : job'[i] = job[i]
         /\ job'[j].kind = job[j].kind /\ job'[j].overlapped = job[j].overlapped
         /\ job'[j].todo = Tail(job[j].todo)
         /\ Current(j) \in Write
  <1>1. job[j] \in Job /\ job[j].todo \in Seq(Write)
    BY DEF Job
  <1>2. Tail(job[j].todo) \in Seq(Write) /\ Head(job[j].todo) \in Write
    BY <1>1
  <1>3. job' = [job EXCEPT ![j].todo = Tail(@)]
    BY DEF Advance
  <1> QED
    BY <1>1, <1>2, <1>3 DEF Job, Current

\* One write: the disk stays typed, and changes nowhere but at the two ends.
LEMMA WriteDisk ==
  ASSUME FilesInv, NEW j \in Jobs, WriteStep(j)
  PROVE  LET w == Current(j)
         IN  /\ w \in Write /\ disk' \in [Files -> Content]
             /\ w.file = w.to => disk' = [disk EXCEPT ![w.to] = w.content]
             /\ w.file # w.to => disk' = [disk EXCEPT ![w.to] = disk[w.file], ![w.file] = Missing]
             /\ \A f \in Files \ {w.to, w.file} : disk'[f] = disk[f]
             /\ job' = Advance(j) /\ job[j].todo # <<>>
             /\ UNCHANGED <<up, bundle, kills, doubt>>
  <1> DEFINE w == Current(j)
  <1>1. /\ IF w.file = w.to THEN disk' = [disk EXCEPT ![w.to] = w.content]
           ELSE disk' = [disk EXCEPT ![w.to] = disk[w.file], ![w.file] = Missing]
        /\ job' = Advance(j) /\ job[j].todo # <<>> /\ UNCHANGED <<up, bundle, kills, doubt>>
    BY DEF WriteStep
  <1>2. w \in Write /\ disk \in [Files -> Content]
    BY <1>1, AdvanceJobs DEF FilesInv, FilesTypeOK
  <1> HIDE DEF w
  <1>3. w.file \in Files /\ w.to \in Files /\ w.content \in Content /\ Missing \in Content
    BY <1>2 DEF Write, Content
  <1>4. disk' \in [Files -> Content] /\ \A f \in Files \ {w.to, w.file} : disk'[f] = disk[f]
    BY <1>1, <1>2, <1>3
  <1> QED
    BY <1>1, <1>2, <1>4 DEF w

\* An upload's step moves it one stage on.
LEMMA UploadStep ==
  ASSUME FilesInv, NEW j \in Jobs, WriteStep(j), NEW g \in Generations,
         UploadProgress(job[j].todo, g, disk), job[j].kind = "upload"
  PROVE  /\ UploadProgress(Tail(job[j].todo), g, disk')
         /\ Len(Tail(job[j].todo)) > 1 => disk'["cert"] = disk["cert"] /\ disk'["key"] = disk["key"]
         /\ Len(Tail(job[j].todo)) = 0 => disk'["cert"] = disk'["key"]
  <1> DEFINE w == Current(j)
             t == job[j].todo
             rest == Tail(t)
  <1>1. /\ t # <<>> /\ disk \in [Files -> Content] /\ w = Head(t)
        /\ w.file = w.to => disk' = [disk EXCEPT ![w.to] = w.content]
        /\ w.file # w.to => disk' = [disk EXCEPT ![w.to] = disk[w.file], ![w.file] = Missing]
    BY WriteDisk DEF FilesInv, FilesTypeOK, Current
  <1>2. UploadProgress(t, g, disk)
    OBVIOUS
  <1> SUFFICES /\ UploadProgress(rest, g, disk')
               /\ Len(rest) > 1 => disk'["cert"] = disk["cert"] /\ disk'["key"] = disk["key"]
               /\ Len(rest) = 0 => disk'["cert"] = disk'["key"]
    OBVIOUS
  <1> HIDE DEF w, t, rest
  <1>3. {"cert", "key", "tmpCert", "tmpKey"} \subseteq Files
    BY DEF Files, Members, Tls, Temps
  <1>4. CASE t = UploadWrites(g, g)
    <2>1. w = Put("tmpCert", g)
          /\ rest = <<Put("tmpKey", g), Rename("tmpCert", "cert"), Rename("tmpKey", "key")>>
      BY <1>1, <1>4 DEF UploadWrites, rest
    <2>2. disk' = [disk EXCEPT !["tmpCert"] = g]
      BY <2>1, <1>1 DEF Put
    <2>3. UploadProgress(rest, g, disk')
      BY <2>1, <2>2, <1>1, <1>3 DEF UploadProgress
    <2>4. Len(rest) = 3
      BY <2>1
    <2> QED
      BY <2>2, <2>3, <2>4, <1>1, <1>3
  <1>5. CASE /\ t = <<Put("tmpKey", g), Rename("tmpCert", "cert"), Rename("tmpKey", "key")>>
             /\ disk["tmpCert"] = g
    <2>1. w = Put("tmpKey", g) /\ rest = <<Rename("tmpCert", "cert"), Rename("tmpKey", "key")>>
      BY <1>1, <1>5 DEF rest
    <2>2. disk' = [disk EXCEPT !["tmpKey"] = g]
      BY <2>1, <1>1 DEF Put
    <2>3. UploadProgress(rest, g, disk')
      BY <2>1, <2>2, <1>1, <1>3, <1>5 DEF UploadProgress
    <2>4. Len(rest) = 2
      BY <2>1
    <2> QED
      BY <2>2, <2>3, <2>4, <1>1, <1>3
  <1>6. CASE /\ t = <<Rename("tmpCert", "cert"), Rename("tmpKey", "key")>>
             /\ disk["tmpCert"] = g /\ disk["tmpKey"] = g
    <2>1. w = Rename("tmpCert", "cert") /\ rest = <<Rename("tmpKey", "key")>>
      BY <1>1, <1>6 DEF rest
    <2>2. disk' = [disk EXCEPT !["cert"] = disk["tmpCert"], !["tmpCert"] = Missing]
      BY <2>1, <1>1 DEF Rename
    <2>3. UploadProgress(rest, g, disk')
      BY <2>1, <2>2, <1>1, <1>3, <1>6 DEF UploadProgress
    <2>4. Len(rest) = 1
      BY <2>1
    <2> QED
      BY <2>3, <2>4
  <1>7. CASE t = <<Rename("tmpKey", "key")>> /\ disk["cert"] = g /\ disk["tmpKey"] = g
    <2>1. w = Rename("tmpKey", "key") /\ rest = <<>>
      BY <1>1, <1>7 DEF rest
    <2>2. disk' = [disk EXCEPT !["key"] = disk["tmpKey"], !["tmpKey"] = Missing]
      BY <2>1, <1>1 DEF Rename
    <2>3. disk'["cert"] = g /\ disk'["key"] = g
      BY <2>2, <1>1, <1>3, <1>7
    <2>4. UploadProgress(rest, g, disk')
      BY <2>1, <2>3 DEF UploadProgress
    <2>5. Len(rest) = 0
      BY <2>1
    <2> QED
      BY <2>3, <2>4, <2>5
  <1> QED
    BY <1>1, <1>2, <1>4, <1>5, <1>6, <1>7 DEF UploadProgress

\* So does a generation's, which writes the files in place.
LEMMA GenerateStep ==
  ASSUME FilesInv, NEW j \in Jobs, WriteStep(j), NEW g \in Generations,
         GenerateProgress(job[j].todo, g, disk), job[j].kind = "generate"
  PROVE  /\ GenerateProgress(Tail(job[j].todo), g, disk')
         /\ Len(Tail(job[j].todo)) \in 0 .. 3
         /\ Len(Tail(job[j].todo)) = 0 => disk'["cert"] = disk'["key"]
  <1> DEFINE w == Current(j)
             t == job[j].todo
             rest == Tail(t)
  <1>1. /\ t # <<>> /\ disk \in [Files -> Content] /\ w = Head(t)
        /\ w.file = w.to => disk' = [disk EXCEPT ![w.to] = w.content]
    BY WriteDisk DEF FilesInv, FilesTypeOK, Current
  <1>2. GenerateProgress(t, g, disk)
    OBVIOUS
  <1> SUFFICES /\ GenerateProgress(rest, g, disk') /\ Len(rest) \in 0 .. 3
               /\ Len(rest) = 0 => disk'["cert"] = disk'["key"]
    OBVIOUS
  <1> HIDE DEF w, t, rest
  <1>3. {"cert", "key"} \subseteq Files
    BY DEF Files, Members, Tls
  <1>4. CASE t = GenerateWrites(g)
    <2>1. rest = <<Put("cert", g), Put("key", Torn), Put("key", g)>>
      BY <1>4 DEF GenerateWrites, rest
    <2>2. GenerateProgress(rest, g, disk')
      BY <2>1 DEF GenerateProgress
    <2>3. Len(rest) = 3
      BY <2>1
    <2> QED
      BY <2>2, <2>3
  <1>5. CASE t = <<Put("cert", g), Put("key", Torn), Put("key", g)>>
    <2>1. w = Put("cert", g) /\ rest = <<Put("key", Torn), Put("key", g)>>
      BY <1>1, <1>5 DEF rest
    <2>2. disk'["cert"] = g
      BY <2>1, <1>1, <1>3 DEF Put
    <2>3. GenerateProgress(rest, g, disk')
      BY <2>1, <2>2 DEF GenerateProgress
    <2>4. Len(rest) = 2
      BY <2>1
    <2> QED
      BY <2>3, <2>4
  <1>6. CASE t = <<Put("key", Torn), Put("key", g)>> /\ disk["cert"] = g
    <2>1. w = Put("key", Torn) /\ rest = <<Put("key", g)>>
      BY <1>1, <1>6 DEF rest
    <2>2. disk'["cert"] = g
      BY <2>1, <1>1, <1>3, <1>6 DEF Put
    <2>3. GenerateProgress(rest, g, disk')
      BY <2>1, <2>2 DEF GenerateProgress
    <2>4. Len(rest) = 1
      BY <2>1
    <2> QED
      BY <2>3, <2>4
  <1>7. CASE t = <<Put("key", g)>> /\ disk["cert"] = g
    <2>1. w = Put("key", g) /\ rest = <<>>
      BY <1>1, <1>7 DEF rest
    <2>2. disk'["cert"] = g /\ disk'["key"] = g
      BY <2>1, <1>1, <1>3, <1>7 DEF Put
    <2>3. GenerateProgress(rest, g, disk')
      BY <2>1, <2>2 DEF GenerateProgress
    <2>4. Len(rest) = 0
      BY <2>1
    <2> QED
      BY <2>2, <2>3, <2>4
  <1> QED
    BY <1>1, <1>2, <1>4, <1>5, <1>6, <1>7 DEF GenerateProgress

LEMMA TailLength ==
  ASSUME NEW S, NEW t \in Seq(S), t # <<>>
  PROVE  Len(Tail(t)) \in Nat /\ (Len(Tail(t)) > 1 => Len(t) # 1)
  <1>1. Len(t) \in Nat /\ Len(t) > 0
    OBVIOUS
  <1>2. Len(Tail(t)) = Len(t) - 1
    OBVIOUS
  <1>3. \A n \in Nat : \A m : (n > 0 /\ m = n - 1) => m \in Nat /\ (m > 1 => n # 1)
    OBVIOUS
  <1> QED
    BY <1>1, <1>2, <1>3, Zenon

\* One write of a job: a restore comes nearer, an overlapped job is in doubt
\* already, and one that runs alone is half done only between its two files.
LEMMA WriteStepInv == ASSUME FilesInv, NEW j \in Jobs, WriteStep(j) PROVE FilesInv'
  <1> DEFINE w == Current(j)
  <1>1. /\ w \in Write /\ disk' \in [Files -> Content]
        /\ w.file = w.to => disk' = [disk EXCEPT ![w.to] = w.content]
        /\ \A f \in Files \ {w.to, w.file} : disk'[f] = disk[f]
        /\ job' = Advance(j) /\ job[j].todo # <<>> /\ UNCHANGED <<up, bundle, kills, doubt>>
    BY WriteDisk
  <1>2. /\ job \in [Jobs -> Job] /\ disk \in [Files -> Content]
        /\ TlsJobsOk /\ PairOk /\ SetOk /\ RestoreOk
    BY DEF FilesInv, FilesTypeOK
  <1>3. /\ job' \in [Jobs -> Job] /\ \A i \in Jobs \ {j} : job'[i] = job[i]
        /\ job'[j].kind = job[j].kind /\ job'[j].overlapped = job[j].overlapped
        /\ job'[j].todo = Tail(job[j].todo)
    BY <1>1, <1>2, AdvanceJobs
  <1>4. FilesTypeOK'
    <2>1. \A i \in Jobs : /\ job'[i].kind \in {"none", "upload", "generate", "restore", "backup"}
                          /\ job'[i].overlapped \in BOOLEAN
      BY <1>3 DEF Job, JobKinds, TlsKinds
    <2> QED
      BY <2>1, <1>1, Zenon DEF FilesInv, FilesTypeOK
  <1>5. w = Head(job[j].todo) /\ job[j].todo \in Seq(Write)
    BY <1>2 DEF Current, Job
  <1> HIDE DEF w
  <1>6. CASE job[j].kind = "restore"
    <2>1. /\ up = FALSE /\ {"tls", "set"} \subseteq doubt
          /\ \A i \in Jobs \ {j} : job[i].kind = "none"
          /\ \A k \in 1 .. Len(job[j].todo) :
               \E f \in Mine : job[j].todo[k] = Put(f, bundle[f])
          /\ \A f \in Mine : \/ disk[f] = bundle[f]
                             \/ \E k \in 1 .. Len(job[j].todo) : job[j].todo[k].to = f
      BY <1>6, <1>2 DEF RestoreOk
    <2> DEFINE t == job[j].todo
               rest == Tail(t)
    <2>2. /\ Len(t) \in Nat /\ Len(t) > 0 /\ w = t[1] /\ Len(rest) = Len(t) - 1
          /\ \A k \in 1 .. Len(rest) : rest[k] = t[k + 1]
      BY <1>1, <1>5
    <2>3. PICK f \in Mine : w = Put(f, bundle[f])
      BY <2>1, <2>2
    <2>4. f \in Files /\ w.to = f /\ disk' = [disk EXCEPT ![f] = bundle[f]]
      BY <2>3, <1>1, MineTyped DEF Put
    <2>5. Mine' = Mine /\ job'[j].todo = rest
      BY <1>1, <1>3 DEF Mine
    <2> HIDE DEF t, rest
    <2>6. \A k \in 1 .. Len(rest) : \E h \in Mine : rest[k] = Put(h, bundle[h])
      BY <2>1, <2>2 DEF t
    <2>7. ASSUME NEW h \in Mine
          PROVE  disk'[h] = bundle[h] \/ \E k \in 1 .. Len(rest) : rest[k].to = h
      <3>1. h \in Files
        BY MineTyped
      <3>2. CASE disk[h] = bundle[h] \/ h = f
        BY <3>1, <3>2, <2>4, <1>2
      <3>3. CASE h # f /\ \E k \in 1 .. Len(t) : t[k].to = h
        <4> PICK k \in 1 .. Len(t) : t[k].to = h
          BY <3>3
        <4>1. k # 1
          BY <3>3, <2>2, <2>4
        <4>2. k - 1 \in 1 .. Len(rest) /\ rest[k - 1] = t[k]
          BY <4>1, <2>2
        <4> QED
          BY <4>2
      <3> QED
        BY <3>2, <3>3, <2>1 DEF t
    <2>8. RestoreOk'
      <3>1. \A i \in Jobs : job'[i].kind = "restore" => i = j
        BY <2>1, <1>3
      <3>2. \A i \in Jobs \ {j} : job'[i].kind = "none"
        BY <2>1, <1>3
      <3>3. up' = FALSE /\ {"tls", "set"} \subseteq doubt' /\ bundle' = bundle
        BY <2>1, <1>1
      <3> QED
        BY <3>1, <3>2, <3>3, <2>5, <2>6, <2>7 DEF RestoreOk
    <2>9. TlsJobsOk' /\ PairOk' /\ SetOk'
      BY <2>1, <1>1, <1>3, <1>6 DEF TlsJobsOk, TlsJobs, PairOk, SetOk
    <2> QED
      BY <2>8, <2>9, <1>3, <1>4 DEF FilesInv
  <1>7. CASE job[j].kind \in TlsKinds
    <2>1. j \in TlsJobs /\ TlsJobs' = TlsJobs
      BY <1>7, <1>3 DEF TlsJobs, TlsKinds
    <2>2. job[j].todo \in Seq(TlsWrite)
      BY <2>1, <1>2 DEF TlsJobsOk
    <2>3. w \in TlsWrite /\ Tail(job[j].todo) \in Seq(TlsWrite)
      BY <2>2, <1>1, <1>5
    <2>4. SetOk'
      <3>1. w.to \notin {"auth", "nodes"} /\ w.file \notin {"auth", "nodes"}
            /\ "auth" \in Files /\ "nodes" \in Files
        BY <2>3 DEF TlsWrite, Tls, Temps, Files, Members
      <3> QED
        BY <3>1, <1>1, <1>2 DEF SetOk
    <2>5. RestoreOk'
      <3>1. \A i \in Jobs : job[i].kind # "restore"
        BY <1>7, <1>2 DEF RestoreOk, TlsKinds
      <3> QED
        BY <3>1, <1>3 DEF RestoreOk
    <2>6. CASE job[j].overlapped
      <3>1. "tls" \in doubt /\ doubt' = doubt
        BY <2>1, <2>6, <1>1, <1>2 DEF TlsJobsOk
      <3>2. \A i \in TlsJobs : job[i].overlapped = TRUE
        BY <2>1, <2>6, <1>2 DEF TlsJobsOk, TlsJobs, Job
      <3>3. TlsJobsOk'
        BY <3>1, <3>2, <2>1, <2>3, <1>2, <1>3 DEF TlsJobsOk, TlsJobs
      <3> QED
        BY <3>1, <3>3, <2>4, <2>5, <1>3, <1>4 DEF FilesInv, PairOk
    <2>7. CASE ~job[j].overlapped
      <3>1. TlsJobs = {j} /\ Progress(j)
        BY <2>1, <2>7, <1>2 DEF TlsJobsOk
      <3>2. \A i \in Jobs \ {j} : ~HalfDone(i)
        BY <3>1 DEF TlsJobs, HalfDone
      <3>3. PICK n \in Nat : n = Len(Tail(job[j].todo)) /\ (n > 1 => Len(job[j].todo) # 1)
        BY <1>1, <1>5, TailLength
      <3>4. CASE job[j].kind = "upload"
        <4> PICK g \in Generations : UploadProgress(job[j].todo, g, disk)
          BY <3>1, <3>4 DEF Progress
        <4>1. /\ UploadProgress(Tail(job[j].todo), g, disk')
              /\ Len(Tail(job[j].todo)) > 1 => disk'["cert"] = disk["cert"] /\ disk'["key"] = disk["key"]
              /\ Len(Tail(job[j].todo)) = 0 => disk'["cert"] = disk'["key"]
          BY <3>4, UploadStep
        <4>2. Progress(j)'
          BY <4>1, <3>4, <1>3 DEF Progress
        <4>3. PairOk'
          <5> SUFFICES ASSUME "tls" \notin doubt', ~HalfDone(j)' PROVE disk'["cert"] = disk'["key"]
            BY DEF PairOk
          <5>1. n # 1
            BY <3>3, <3>4, <1>3 DEF HalfDone
          <5>2. n > 1 => ~HalfDone(j)
            BY <3>3, <3>4 DEF HalfDone
          <5>3. n > 1 => disk["cert"] = disk["key"]
            BY <5>2, <3>2, <1>1, <1>2 DEF PairOk
          <5>4. /\ n > 1 => disk'["cert"] = disk["cert"] /\ disk'["key"] = disk["key"]
                /\ n = 0 => disk'["cert"] = disk'["key"]
            BY <4>1, <3>3
          <5> QED
            BY <5>1, <5>3, <5>4
        <4> QED
          BY <4>2, <4>3, <3>1, <2>1, <2>3, <2>4, <2>5, <2>7, <1>3, <1>4 DEF FilesInv, TlsJobsOk
      <3>5. CASE job[j].kind = "generate"
        <4> PICK g \in Generations : GenerateProgress(job[j].todo, g, disk)
          BY <3>1, <3>5 DEF Progress
        <4>1. /\ GenerateProgress(Tail(job[j].todo), g, disk') /\ Len(Tail(job[j].todo)) \in 0 .. 3
              /\ Len(Tail(job[j].todo)) = 0 => disk'["cert"] = disk'["key"]
          BY <3>5, GenerateStep
        <4>2. Progress(j)'
          BY <4>1, <3>5, <1>3 DEF Progress
        <4>3. PairOk'
          <5> SUFFICES ASSUME ~HalfDone(j)' PROVE disk'["cert"] = disk'["key"]
            BY DEF PairOk
          <5>1. Len(Tail(job[j].todo)) \notin 1 .. 3
            BY <3>5, <1>3 DEF HalfDone
          <5> QED
            BY <5>1, <4>1
        <4> QED
          BY <4>2, <4>3, <3>1, <2>1, <2>3, <2>4, <2>5, <2>7, <1>3, <1>4 DEF FilesInv, TlsJobsOk
      <3> QED
        BY <3>4, <3>5, <1>7 DEF TlsKinds
    <2> QED
      BY <2>6, <2>7
  <1> QED
    BY <1>6, <1>7 DEF WriteStep, TlsKinds

\* A job that ends, or is given up, leaves its place; an upload takes its temp
\* files with it.
LEMMA EndJobs ==
  ASSUME FilesInv, NEW j \in Jobs, disk' = Cleaned(j), job' = [job EXCEPT ![j] = NoJob]
  PROVE  /\ disk' \in [Files -> Content] /\ job' \in [Jobs -> Job]
         /\ \A f \in Members : disk'[f] = disk[f]
         /\ job[j].kind # "upload" => disk' = disk
         /\ job'[j].kind = "none" /\ \A i \in Jobs \ {j} : job'[i] = job[i]
         /\ TlsJobs' = TlsJobs \ {j}
         /\ ~HalfDone(j)'
         /\ {"auth", "nodes", "cert", "key"} \subseteq Members
  <1>1. NoJob \in Job /\ NoJob.kind = "none"
    BY DEF NoJob, Job, JobKinds
  <1>2. job \in [Jobs -> Job] /\ disk \in [Files -> Content]
    BY DEF FilesInv, FilesTypeOK
  <1>3. /\ job' \in [Jobs -> Job] /\ job'[j].kind = "none"
        /\ \A i \in Jobs \ {j} : job'[i] = job[i]
    BY <1>1, <1>2
  <1>4. disk' \in [Files -> Content] /\ \A f \in Members : disk'[f] = disk[f]
    BY <1>2 DEF Cleaned, Content, Files, Members, Tls, Temps
  <1> QED
    BY <1>3, <1>4 DEF Cleaned, TlsJobs, HalfDone, Members, Tls

\* With one job on the certificate gone, the others are as they were: they were
\* overlapped, by this one or by each other, and in doubt.
LEMMA TlsJobGone ==
  ASSUME FilesInv, NEW j \in Jobs, disk' = Cleaned(j), job' = [job EXCEPT ![j] = NoJob],
         job[j].kind \in TlsKinds,
         "tls" \in doubt /\ job[j].overlapped => "tls" \in doubt'
  PROVE  TlsJobsOk' /\ (job[j].overlapped => PairOk') /\ (~job[j].overlapped => TlsJobs' = {})
  <1>1. job \in [Jobs -> Job] /\ TlsJobsOk /\ job[j].overlapped \in BOOLEAN
    BY DEF FilesInv, FilesTypeOK
  <1>2. j \in TlsJobs
    BY DEF TlsJobs, TlsKinds
  <1>3. TlsJobs' = TlsJobs \ {j} /\ \A i \in Jobs \ {j} : job'[i] = job[i]
    BY EndJobs
  <1>4. CASE job[j].overlapped = FALSE
    BY <1>1, <1>2, <1>3, <1>4 DEF TlsJobsOk
  <1>5. CASE job[j].overlapped = TRUE
    <2>1. "tls" \in doubt'
      BY <1>1, <1>2, <1>5 DEF TlsJobsOk
    <2>2. \A i \in TlsJobs' : /\ i \in TlsJobs /\ job'[i] = job[i] /\ i # j
                              /\ job[i].todo \in Seq(TlsWrite)
                              /\ ~job[i].overlapped => TlsJobs = {i}
      BY <1>1, <1>3 DEF TlsJobsOk, TlsJobs
    <2>3. \A i \in TlsJobs' : job'[i].overlapped
      BY <2>2, <1>2
    <2>4. TlsJobsOk'
      BY <2>1, <2>2, <2>3 DEF TlsJobsOk
    <2> QED
      BY <2>1, <2>4, <1>5 DEF PairOk
  <1> QED
    BY <1>1, <1>4, <1>5

\* A job that ran to its end: what it settles is in order.
LEMMA JobDoneInv == ASSUME FilesInv, NEW j \in Jobs, JobDone(j) PROVE FilesInv'
  <1>1. /\ job[j].kind # "none" /\ job[j].todo = <<>>
        /\ disk' = Cleaned(j) /\ doubt' = doubt \ Settled(j)
        /\ up' = (up \/ job[j].kind = "generate") /\ job' = [job EXCEPT ![j] = NoJob]
        /\ bundle' = bundle /\ kills' = kills
    BY DEF JobDone
  <1>2. /\ job \in [Jobs -> Job] /\ disk \in [Files -> Content] /\ doubt \subseteq {"tls", "set"}
        /\ TlsJobsOk /\ PairOk /\ SetOk /\ RestoreOk /\ up \in BOOLEAN
    BY DEF FilesInv, FilesTypeOK
  <1>3. /\ disk' \in [Files -> Content] /\ job' \in [Jobs -> Job]
        /\ \A f \in Members : disk'[f] = disk[f]
        /\ job[j].kind # "upload" => disk' = disk
        /\ job'[j].kind = "none" /\ \A i \in Jobs \ {j} : job'[i] = job[i]
        /\ TlsJobs' = TlsJobs \ {j} /\ ~HalfDone(j)'
        /\ {"auth", "nodes", "cert", "key"} \subseteq Members
    BY <1>1, EndJobs
  <1>4. FilesTypeOK'
    <2>1. \A i \in Jobs : /\ job'[i].kind \in {"none", "upload", "generate", "restore", "backup"}
                          /\ job'[i].overlapped \in BOOLEAN
      BY <1>3 DEF Job, JobKinds, TlsKinds
    <2>2. doubt' \subseteq {"tls", "set"}
      BY <1>1, <1>2
    <2>3. up' \in BOOLEAN
      BY <1>1
    <2> QED
      BY <2>1, <2>2, <2>3, <1>1, <1>3, Zenon DEF FilesInv, FilesTypeOK
  <1>5. RestoreOk'
    <2>1. \A i \in Jobs : job'[i].kind # "restore"
      BY <1>1, <1>2, <1>3 DEF RestoreOk
    <2> QED
      BY <2>1 DEF RestoreOk
  <1>6. ~HalfDone(j)
    <2>1. Len(job[j].todo) = 0
      BY <1>1
    <2>2. Len(job[j].todo) # 1 /\ Len(job[j].todo) \notin 1 .. 3
      BY <2>1
    <2> QED
      BY <2>2 DEF HalfDone
  <1>7. CASE job[j].kind = "backup"
    <2>1. Settled(j) = {}
      BY <1>7 DEF Settled
    <2>2. doubt' = doubt /\ disk' = disk
      BY <2>1, <1>1, <1>3, <1>7
    <2>3. \A i \in Jobs : job[i].kind \in TlsKinds \/ job'[i].kind \in TlsKinds => job'[i] = job[i]
      BY <1>3, <1>7 DEF TlsKinds
    <2>4. TlsJobsOk' /\ PairOk'
      BY <2>2, <2>3, <1>3, TlsUntouched
    <2>5. SetOk'
      BY <2>2, <1>2 DEF SetOk
    <2> QED
      BY <2>4, <2>5, <1>3, <1>4, <1>5 DEF FilesInv
  <1>8. CASE job[j].kind = "restore"
    <2>1. /\ {"tls", "set"} \subseteq doubt /\ \A i \in Jobs \ {j} : job[i].kind = "none"
          /\ \A f \in Mine : disk[f] = bundle[f]
      <3>1. 1 .. Len(job[j].todo) = {}
        BY <1>1
      <3> QED
        BY <3>1, <1>2, <1>8 DEF RestoreOk
    <2>2. disk' = disk
      BY <1>3, <1>8
    <2>3. /\ "set" \notin doubt' => {"auth", "nodes"} \subseteq Mine /\ bundle["auth"] = bundle["nodes"]
          /\ "tls" \notin doubt' => Tls \subseteq Mine /\ bundle["cert"] = bundle["key"]
      <3>1. Settled(j) = (IF {"auth", "nodes"} \subseteq Mine /\ bundle["auth"] = bundle["nodes"]
                          THEN {"set"} ELSE {})
                         \cup (IF Tls \subseteq Mine /\ bundle["cert"] = bundle["key"]
                               THEN {"tls"} ELSE {})
        BY <1>8 DEF Settled
      <3> QED
        BY <3>1, <2>1, <1>1
    <2>4. SetOk' /\ PairOk'
      BY <2>1, <2>2, <2>3 DEF SetOk, PairOk, Tls
    <2>5. TlsJobsOk'
      BY <2>1, <1>3, <1>8 DEF TlsJobsOk, TlsJobs
    <2> QED
      BY <2>4, <2>5, <1>3, <1>4, <1>5 DEF FilesInv
  <1>9. CASE job[j].kind \in TlsKinds
    <2>1. j \in TlsJobs /\ job[j].overlapped \in BOOLEAN
      BY <1>9, <1>2 DEF TlsJobs, TlsKinds, Job
    <2>2. Settled(j) = IF job[j].overlapped THEN {} ELSE {"tls"}
      BY <1>9 DEF Settled, TlsKinds
    <2>3. TlsJobsOk' /\ (job[j].overlapped => PairOk')
      BY <2>2, <1>1, <1>9, TlsJobGone
    <2>4. ~job[j].overlapped => PairOk'
      <3> SUFFICES ASSUME ~job[j].overlapped PROVE disk["cert"] = disk["key"]
        BY <1>3 DEF PairOk
      <3>1. Progress(j)
        BY <2>1, <1>2 DEF TlsJobsOk
      <3> PICK g \in Generations :
             \/ job[j].kind = "upload" /\ UploadProgress(job[j].todo, g, disk)
             \/ job[j].kind = "generate" /\ GenerateProgress(job[j].todo, g, disk)
        BY <3>1 DEF Progress
      <3>2. UploadProgress(<<>>, g, disk) \/ GenerateProgress(<<>>, g, disk)
        BY <1>1
      <3> QED
        BY <3>2 DEF UploadProgress, GenerateProgress, UploadWrites, GenerateWrites
    <2>5. SetOk'
      <3>1. "set" \in doubt => "set" \in doubt'
        BY <2>2, <1>1
      <3> QED
        BY <3>1, <1>2, <1>3 DEF SetOk
    <2> QED
      BY <2>1, <2>3, <2>4, <2>5, <1>3, <1>4, <1>5 DEF FilesInv
  <1> QED
    BY <1>1, <1>2, <1>7, <1>8, <1>9 DEF Job, JobKinds

\* A job that fails half done puts the pair in doubt; before that it has changed
\* nothing but its temp files.
LEMMA JobFailsInv == ASSUME FilesInv, NEW j \in Jobs, JobFails(j) PROVE FilesInv'
  <1>1. /\ job[j].kind \in {"upload", "generate", "restore"} /\ job[j].todo # <<>>
        /\ disk' = Cleaned(j) /\ doubt' = IF HalfDone(j) THEN doubt \cup {"tls"} ELSE doubt
        /\ job' = [job EXCEPT ![j] = NoJob]
        /\ up' = up /\ bundle' = bundle /\ kills' = kills
    BY DEF JobFails
  <1>2. /\ job \in [Jobs -> Job] /\ disk \in [Files -> Content] /\ doubt \subseteq {"tls", "set"}
        /\ TlsJobsOk /\ PairOk /\ SetOk /\ RestoreOk
    BY DEF FilesInv, FilesTypeOK
  <1>3. /\ disk' \in [Files -> Content] /\ job' \in [Jobs -> Job]
        /\ \A f \in Members : disk'[f] = disk[f]
        /\ job'[j].kind = "none" /\ \A i \in Jobs \ {j} : job'[i] = job[i]
        /\ TlsJobs' = TlsJobs \ {j} /\ ~HalfDone(j)'
        /\ {"auth", "nodes", "cert", "key"} \subseteq Members
    BY <1>1, EndJobs
  <1>4. FilesTypeOK'
    <2>1. \A i \in Jobs : /\ job'[i].kind \in {"none", "upload", "generate", "restore", "backup"}
                          /\ job'[i].overlapped \in BOOLEAN
      BY <1>3 DEF Job, JobKinds, TlsKinds
    <2>2. doubt' \subseteq {"tls", "set"}
      BY <1>1, <1>2
    <2> QED
      BY <2>1, <2>2, <1>1, <1>3, Zenon DEF FilesInv, FilesTypeOK
  <1>5. RestoreOk'
    <2>1. \A i \in Jobs : job'[i].kind # "restore"
      BY <1>1, <1>2, <1>3 DEF RestoreOk
    <2> QED
      BY <2>1 DEF RestoreOk
  <1>6. SetOk' /\ doubt \subseteq doubt'
    BY <1>1, <1>2, <1>3 DEF SetOk
  <1>7. CASE job[j].kind = "restore"
    <2>1. "tls" \in doubt' /\ TlsJobs' = {}
      BY <1>2, <1>3, <1>6, <1>7 DEF RestoreOk, TlsJobs
    <2> QED
      BY <2>1, <1>3, <1>4, <1>5, <1>6 DEF FilesInv, TlsJobsOk, PairOk
  <1>8. CASE job[j].kind \in TlsKinds
    <2>1. j \in TlsJobs /\ job[j].overlapped \in BOOLEAN
      BY <1>8, <1>2 DEF TlsJobs, TlsKinds, Job
    <2>2. TlsJobsOk' /\ (job[j].overlapped => PairOk')
      BY <1>1, <1>6, <1>8, TlsJobGone
    <2>3. ~job[j].overlapped => PairOk'
      <3> SUFFICES ASSUME ~job[j].overlapped, "tls" \notin doubt' PROVE disk["cert"] = disk["key"]
        BY <1>3 DEF PairOk
      <3>1. ~HalfDone(j) /\ "tls" \notin doubt
        BY <1>1
      <3>2. TlsJobs = {j}
        BY <2>1, <1>2 DEF TlsJobsOk
      <3>3. \A i \in Jobs \ {j} : ~HalfDone(i)
        BY <3>2 DEF TlsJobs, HalfDone
      <3> QED
        BY <3>1, <3>3, <1>2 DEF PairOk
    <2> QED
      BY <2>1, <2>2, <2>3, <1>3, <1>4, <1>5, <1>6 DEF FilesInv
  <1> QED
    BY <1>1, <1>7, <1>8 DEF TlsKinds

\* The process dies: the same, for every job at once.
LEMMA KillInv == ASSUME FilesInv, KillProcess PROVE FilesInv'
  <1>1. /\ kills < MaxKills /\ kills' = kills + 1 /\ up' = FALSE
        /\ doubt' = IF \E j \in Jobs : HalfDone(j) THEN doubt \cup {"tls"} ELSE doubt
        /\ job' = [j \in Jobs |-> NoJob] /\ disk' = disk /\ bundle' = bundle
    BY DEF KillProcess
  <1>2. NoJob \in Job /\ NoJob.kind = "none"
    BY DEF NoJob, Job, JobKinds
  <1>3. job' \in [Jobs -> Job] /\ \A j \in Jobs : job'[j].kind = "none"
    BY <1>1, <1>2
  <1>4. FilesTypeOK'
    <2>1. \A i \in Jobs : /\ job'[i].kind \in {"none", "upload", "generate", "restore", "backup"}
                          /\ job'[i].overlapped \in BOOLEAN
      BY <1>3 DEF Job
    <2>2. doubt' \subseteq {"tls", "set"}
      BY <1>1 DEF FilesInv, FilesTypeOK
    <2>3. up' \in BOOLEAN
      BY <1>1
    <2>4. kills' \in 0 .. MaxKills
      BY <1>1, StateFilesAssumption DEF FilesInv, FilesTypeOK
    <2> QED
      BY <2>1, <2>2, <2>3, <2>4, <1>1, Zenon DEF FilesInv, FilesTypeOK
  <1>5. TlsJobsOk' /\ RestoreOk'
    BY <1>3 DEF TlsJobsOk, TlsJobs, RestoreOk
  <1>6. PairOk' /\ SetOk'
    BY <1>1 DEF FilesInv, PairOk, SetOk
  <1> QED
    BY <1>3, <1>4, <1>5, <1>6 DEF FilesInv

LEMMA FilesNextInv == FilesInv /\ [FilesNext]_filesVars => FilesInv'
  <1> SUFFICES ASSUME FilesInv, [FilesNext]_filesVars PROVE FilesInv'
    OBVIOUS
  <1>1. CASE UNCHANGED filesVars
    <2>1. disk' = disk /\ up' = up /\ bundle' = bundle /\ job' = job /\ kills' = kills
          /\ doubt' = doubt
      BY <1>1 DEF filesVars
    <2>2. TlsJobs' = TlsJobs /\ Mine' = Mine /\ \A j \in Jobs : HalfDone(j)' <=> HalfDone(j)
      BY <2>1 DEF TlsJobs, Mine, HalfDone
    <2>3. \A j \in Jobs : Progress(j)' <=> Progress(j)
      BY <2>1 DEF Progress
    <2>4. FilesTypeOK' /\ job' \in [Jobs -> Job]
      BY <2>1 DEF FilesInv, FilesTypeOK
    <2>5. TlsJobsOk'
      BY <2>1, <2>2, <2>3 DEF FilesInv, TlsJobsOk, TlsJobs
    <2>6. PairOk' /\ SetOk'
      BY <2>1, <2>2 DEF FilesInv, PairOk, SetOk
    <2>7. RestoreOk'
      BY <2>1, <2>2, ZenonT(30) DEF FilesInv, RestoreOk
    <2> QED
      BY <2>4, <2>5, <2>6, <2>7 DEF FilesInv
  <1> QED
    BY <1>1, TlsRequestInv, StartGeneratingInv, BackupInv, WriteStepInv, JobDoneInv, JobFailsInv,
       RestoreInv, ServeInv, KillInv DEF FilesNext

\* validate_and_install_cert, generate_self_signed, backup.restore and the backup
\* run side by side with no lock and no transaction: whatever their number, their
\* order and where they fail or are killed, the certificate and its key, and the
\* auth file and the registry, go together unless a named accident is unrepaired.
THEOREM FilesStayTogether == FilesSpec => [](FilesTypeOK /\ FilesGoTogether)
  <1>1. FilesInv => FilesTypeOK /\ FilesGoTogether
    <2> SUFFICES ASSUME FilesInv, Writers = {}
                 PROVE  /\ "tls" \notin doubt => disk["cert"] = disk["key"]
                        /\ "set" \notin doubt => disk["nodes"] \in {disk["auth"], Missing}
      BY DEF FilesInv, FilesGoTogether
    <2>1. \A j \in Jobs : ~HalfDone(j)
      BY DEF Writers, HalfDone
    <2> QED
      BY <2>1 DEF FilesInv, PairOk, SetOk
  <1> QED
    BY <1>1, FilesInitInv, FilesNextInv, PTL DEF FilesSpec

-----------------------------------------------------------------------------
(* The components of MCParts together *)

\* A step of MCParts is a step of one component and stutters in the others.
LEMMA PartsStep == [Next]_partVars => /\ [SsoNext]_ssoVars /\ [CollectorNext]_collectorVars
                                      /\ [DeliveryNext]_deliveryVars /\ [FilesNext]_filesVars
                                      /\ [QuestionsNext]_questionVars
  BY DEF Next, partVars, ssoVars, collectorVars, deliveryVars, filesVars, questionVars

\* MCParts checks each component as its own specification has it.
THEOREM PartsImplementParts ==
  Spec => SsoSpec /\ CollectorSpec /\ DeliverySpec /\ FilesSpec
  <1>1. Init => SsoInit /\ CollectorInit /\ DeliveryInit /\ FilesInit
    BY DEF Init
  <1> QED
    BY <1>1, PartsStep, PTL
    DEF Spec, SsoSpec, CollectorSpec, DeliverySpec, FilesSpec

\* The pure functions answer rightly in MCParts too, where most behaviours ask nothing.
LEMMA PartsAnswer == Spec => [](TrendsSound /\ OverviewConsistent)
  <1>1. Init => QuestionsInv
    <2>1. Init => Asked /\ answer = <<>>
      BY DEF Init, QuestionsInit, Asked
    <2> QED
      BY <2>1, QuestionsInitInv
  <1>2. QuestionsInv => TrendsSound /\ OverviewConsistent
    BY DEF QuestionsInv
  <1> QED
    BY <1>1, <1>2, PartsStep, QuestionsNextInv, PTL DEF Spec

\* The types of the components hold together, with what each promises.
THEOREM PartsSafe ==
  Spec => [](TypeOK /\ ReplaysBounded /\ SavedWasRight /\ CalmPollsSucceed
               /\ HooksKeepUp /\ FilesGoTogether /\ TrendsSound /\ OverviewConsistent)
  BY PartsImplementParts, PartsAnswer, SsoReplaysBounded, CollectorSavedWasRight,
     CollectorCalmPolls, DeliveryHooksKeepUp, FilesStayTogether, PTL DEF TypeOK

=============================================================================
