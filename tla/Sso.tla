--------------------------------- MODULE Sso ---------------------------------
(***************************************************************************)
(* Single sign-on: sso.py and its endpoints in app.py.  A browser brings   *)
(* an assertion of the issuer to sso_callback, which exchanges it for a    *)
(* session.  Callbacks run on several threads.  Each reads the             *)
(* configuration and the clock at the start of verify; the signature check *)
(* that follows is slow; the jti is tested and set at the end, under       *)
(* _seen_lock, against the clock reading taken at the start.               *)
(*                                                                         *)
(* Key, kid, issuer and audience stand and fall together, so a             *)
(* configuration is the name of an issuer and whether its key is usable.   *)
(***************************************************************************)
EXTENDS Naturals, FiniteSets

CONSTANTS Callbacks,             \* threads that may serve /sso/callback
          Issuers, Jtis, NoOne,
          CLOCK_SKEW, Lifetime,  \* of an assertion
          MaxAhead,              \* how far an issuer's clock may be ahead
          SsoMaxClock

ASSUME SsoAssumption ==
  /\ CLOCK_SKEW \in Nat /\ Lifetime \in Nat \ {0}
  /\ MaxAhead \in Nat /\ SsoMaxClock \in Nat
  /\ IsFiniteSet(Callbacks)
  /\ NoOne \notin Issuers

VARIABLES clock,
          env,                   \* the configuration of the host, or NoOne
          stored,                \* sso.json
          redeeming,             \* issuer at which an enrolment is under way
          minted,                \* what issuers have signed: jti -> assertion
          seen,                  \* _seen: jti -> exp, 0 if absent
          cb,                    \* the callbacks
          uses                   \* history: jti -> times it was accepted in this
                                 \* life of the process
ssoVars == <<clock, env, stored, redeeming, minted, seen, cb, uses>>

Off == [iss |-> NoOne, usable |-> FALSE]
Config == [iss : Issuers, usable : BOOLEAN] \cup {Off}
Times == 0 .. SsoMaxClock + MaxAhead + Lifetime
Idle == [pc |-> "idle", jti |-> NoOne, cfg |-> Off, now |-> 0, inForce |-> {}]

SsoTypeOK ==
  /\ clock \in 0 .. SsoMaxClock
  /\ env \in Config /\ stored \in Config
  /\ redeeming \in Issuers \cup {NoOne}
  /\ minted \in [Jtis -> [iss : Issuers \cup {NoOne}, iat : Times, exp : Times]]
  /\ seen \in [Jtis -> Times]
  /\ cb \in [Callbacks -> [pc : {"idle", "arrived", "checking"}, jti : Jtis \cup {NoOne},
                           cfg : Config, now : 0 .. SsoMaxClock, inForce : SUBSET (Issuers \cup {NoOne})]]
  /\ uses \in [Jtis -> Nat]

SsoInit ==
  /\ clock = 0
  /\ env \in {Off} \cup [iss : Issuers, usable : {TRUE}]
  /\ stored = Off /\ redeeming = NoOne
  /\ minted = [j \in Jtis |-> [iss |-> NoOne, iat |-> 0, exp |-> 0]]
  /\ seen = [j \in Jtis |-> 0] /\ uses = [j \in Jtis |-> 0]
  /\ cb = [t \in Callbacks |-> Idle]

-----------------------------------------------------------------------------
config == IF env # Off THEN env ELSE stored
locked == env # Off
enabled == config.usable

\* history: every callback under way has also seen the configuration c in force
NowInForce(c) == [t \in Callbacks |-> IF cb[t].pc = "idle" THEN cb[t]
                                      ELSE [cb[t] EXCEPT !.inForce = @ \cup {c.iss}]]

\* sso_enroll: the code is redeemed at the issuer before anything is stored
EnrollBegin(i) ==
  /\ ~locked /\ redeeming = NoOne
  /\ redeeming' = i
  /\ UNCHANGED <<clock, env, stored, minted, seen, cb, uses>>

\* the issuer answers with a key, good or not, or redeem returns an error
EnrollEnd ==
  /\ redeeming # NoOne
  /\ \/ \E ok \in BOOLEAN : LET new == [iss |-> redeeming, usable |-> ok]
                            IN  stored' = new /\ cb' = NowInForce(new)
     \/ UNCHANGED <<stored, cb>>
  /\ redeeming' = NoOne
  /\ UNCHANGED <<clock, env, minted, seen, uses>>

sso_disable ==
  /\ ~locked /\ stored # Off
  /\ stored' = Off /\ cb' = NowInForce(Off)
  /\ UNCHANGED <<clock, env, redeeming, minted, seen, uses>>

\* sso_callback: 404 unless enabled, then verify reads the configuration again
Arrive(t, j) ==
  /\ cb[t].pc = "idle" /\ minted[j].iss # NoOne /\ enabled
  /\ cb' = [cb EXCEPT ![t] = [Idle EXCEPT !.pc = "arrived", !.jti = j, !.inForce = {config.iss}]]
  /\ UNCHANGED <<clock, env, stored, redeeming, minted, seen, uses>>

VerifyBegin(t) ==
  /\ cb[t].pc = "arrived"
  /\ cb' = [cb EXCEPT ![t] = IF config.usable
                             THEN [@ EXCEPT !.pc = "checking", !.cfg = config, !.now = clock]
                             ELSE Idle]
  /\ UNCHANGED <<clock, env, stored, redeeming, minted, seen, uses>>

\* signature and claims, on what the thread read at the start
Genuine_AnyIssuer(t) ==
  LET a == minted[cb[t].jti]
  IN  cb[t].now < a.exp /\ a.iat <= cb[t].now + CLOCK_SKEW
Genuine(t) ==
  LET a == minted[cb[t].jti]
  IN  /\ a.iss = cb[t].cfg.iss
      /\ cb[t].now < a.exp /\ a.iat <= cb[t].now + CLOCK_SKEW

\* _remember: purge what cannot verify any more by the caller's clock
Purged_Early(t) == [j \in Jtis |-> IF seen[j] <= cb[t].now + 1 THEN 0 ELSE seen[j]]
Purged(t) == [j \in Jtis |-> IF seen[j] <= cb[t].now THEN 0 ELSE seen[j]]
Accepts(t) == Genuine(t) /\ Purged(t)[cb[t].jti] = 0

VerifyEnd(t) ==
  /\ cb[t].pc = "checking"
  /\ LET j == cb[t].jti
     IN  /\ seen' = IF Accepts(t) THEN [Purged(t) EXCEPT ![j] = minted[j].exp]
                    ELSE IF Genuine(t) THEN Purged(t) ELSE seen
         /\ uses' = IF Accepts(t) THEN [uses EXCEPT ![j] = @ + 1] ELSE uses
  /\ cb' = [cb EXCEPT ![t] = Idle]
  /\ UNCHANGED <<clock, env, stored, redeeming, minted>>

\* external: an issuer signs an assertion by its own clock; time; a new process
Mint(j, i, ahead) ==
  /\ minted[j].iss = NoOne
  /\ minted' = [minted EXCEPT ![j] = [iss |-> i, iat |-> clock + ahead,
                                      exp |-> clock + ahead + Lifetime]]
  /\ UNCHANGED <<clock, env, stored, redeeming, seen, cb, uses>>

SsoTick ==
  /\ clock < SsoMaxClock
  /\ clock' = clock + 1
  /\ UNCHANGED <<env, stored, redeeming, minted, seen, cb, uses>>

SsoRestart ==
  /\ seen' = [j \in Jtis |-> 0] /\ uses' = [j \in Jtis |-> 0]
  /\ cb' = [t \in Callbacks |-> Idle] /\ redeeming' = NoOne
  /\ UNCHANGED <<clock, env, stored, minted>>

SsoNext ==
  \/ \E i \in Issuers : EnrollBegin(i)
  \/ EnrollEnd \/ sso_disable
  \/ \E t \in Callbacks, j \in Jtis : Arrive(t, j)
  \/ \E t \in Callbacks : VerifyBegin(t) \/ VerifyEnd(t)
  \/ \E j \in Jtis, i \in Issuers, ahead \in 0 .. MaxAhead : Mint(j, i, ahead)
  \/ SsoTick \/ SsoRestart

SsoSpec == SsoInit /\ [][SsoNext]_ssoVars

-----------------------------------------------------------------------------
\* Callbacks that still check j on a reading of the clock from before its expiry.
Late(j) == {t \in Callbacks : /\ cb[t].pc = "checking" /\ cb[t].jti = j
                              /\ cb[t].now < minted[j].exp}

(* Within one life of the process an assertion that has not expired is     *)
(* exchanged for at most one session, whatever other callbacks purge.      *)
(* Once it has expired and another assertion's callback has purged it, it  *)
(* is exchanged again by callbacks that read the clock before and by no    *)
(* other: never for more sessions than there are threads.                  *)
ReplaysBounded ==
  \A j \in Jtis :
    /\ clock < minted[j].exp => uses[j] <= 1
    /\ uses[j] > 1 => uses[j] + Cardinality(Late(j)) <= Cardinality(Callbacks)

(* A callback accepts an assertion only of an issuer that was configured   *)
(* at some moment since the callback arrived: one that arrives after       *)
(* sso_disable or a new enrolment never succeeds under the old one.        *)
AcceptedUnderConfig ==
  [][\A t \in Callbacks :
       (VerifyEnd(t) /\ Accepts(t)) => minted[cb[t].jti].iss \in cb[t].inForce]_ssoVars
=============================================================================
