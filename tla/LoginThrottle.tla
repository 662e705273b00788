---------------------------- MODULE LoginThrottle ----------------------------
(***************************************************************************)
(* The login throttle of app.py: an in-memory sliding window of failed     *)
(* attempts per address and per (address, name), consulted by api_login    *)
(* before the password check and written after it, each under _login_lock  *)
(* but in two separate sections: attempts overlap in between.              *)
(*                                                                         *)
(* A time stamp is kept as its age, the only thing the code computes from  *)
(* it; an age saturates at LOGIN_WINDOW, where the entry is stale.  A key  *)
(* that is not in the table has the empty list.  The reading of the clock  *)
(* and the lock section that follows it are one step.                      *)
(***************************************************************************)
EXTENDS Naturals, Sequences, FiniteSets

CONSTANTS Ips, Names,            \* client addresses, names typed at the login
          LoginRequests,         \* threads that may serve a login
          LOGIN_WINDOW, LOGIN_MAX_PER_USER, LOGIN_MAX_PER_IP,
          SweepAbove,            \* keys above which the table is swept (5000)
          NoAttempt

ASSUME ThrottleAssumption ==
  /\ LOGIN_WINDOW \in Nat \ {0} /\ SweepAbove \in Nat
  /\ LOGIN_MAX_PER_USER \in Nat \ {0} /\ LOGIN_MAX_PER_IP \in Nat \ {0}
  /\ IsFiniteSet(LoginRequests) /\ LoginRequests # {}
  /\ IsFiniteSet(Ips) /\ IsFiniteSet(Names)
  /\ NoAttempt \notin [ip : Ips, name : Names]

VARIABLES fails,                 \* _login_fails: key -> ages of its failures
          attempt                \* request -> the attempt past the check
throttleVars == <<fails, attempt>>

IpKey(ip) == <<"ip", ip>>
UserKey(ip, name) == <<"user", ip, name>>
Keys == {IpKey(ip) : ip \in Ips} \cup {UserKey(ip, n) : ip \in Ips, n \in Names}
Table == {k \in Keys : fails[k] # <<>>}

ThrottleTypeOK ==
  /\ fails \in [Keys -> Seq(0 .. LOGIN_WINDOW)]
  /\ attempt \in [LoginRequests -> [ip : Ips, name : Names] \cup {NoAttempt}]

ThrottleInit == /\ fails = [k \in Keys |-> <<>>]
                /\ attempt = [r \in LoginRequests |-> NoAttempt]

-----------------------------------------------------------------------------
Recent_Forever(ts) == ts
Recent(ts) ==
  LET kept[i \in 0 .. Len(ts)] ==
        IF i = 0 THEN <<>>
        ELSE IF ts[i] < LOGIN_WINDOW THEN Append(kept[i - 1], ts[i]) ELSE kept[i - 1]
  IN  kept[Len(ts)]

\* prune_fails, applied to the keys in K
prune_fails(K) == [k \in Keys |-> IF k \in K THEN Recent(fails[k]) ELSE fails[k]]

IpSpent(ip) == Len(Recent(fails[IpKey(ip)])) >= LOGIN_MAX_PER_IP
UserSpent_OffByOne(ip, name) == Len(Recent(fails[UserKey(ip, name)])) > LOGIN_MAX_PER_USER
UserSpent(ip, name) == Len(Recent(fails[UserKey(ip, name)])) >= LOGIN_MAX_PER_USER
login_throttled(ip, name) == IpSpent(ip) \/ UserSpent(ip, name)
\* `or` does not reach the second key when the first is spent
Touched(ip, name) == {IpKey(ip)} \cup (IF IpSpent(ip) THEN {} ELSE {UserKey(ip, name)})

\* api_login up to the throttle: a spent budget is refused, and leaves no trace
LoginRefused(ip, name) ==
  /\ login_throttled(ip, name)
  /\ fails' = prune_fails(Touched(ip, name))
  /\ UNCHANGED attempt

LoginBegin(r, ip, name) ==
  /\ attempt[r] = NoAttempt
  /\ ~login_throttled(ip, name)
  /\ fails' = prune_fails(Touched(ip, name))
  /\ attempt' = [attempt EXCEPT ![r] = [ip |-> ip, name |-> name]]

swept(ip, name) == IF Cardinality(Table) > SweepAbove THEN prune_fails(Keys) ELSE fails

login_failed(r) ==
  /\ attempt[r] # NoAttempt
  /\ LET ip == attempt[r].ip  name == attempt[r].name
     IN  fails' = [swept(ip, name) EXCEPT ![IpKey(ip)] = Append(@, 0),
                                          ![UserKey(ip, name)] = Append(@, 0)]
  /\ attempt' = [attempt EXCEPT ![r] = NoAttempt]

login_succeeded(r) ==
  /\ attempt[r] # NoAttempt
  /\ fails' = [fails EXCEPT ![UserKey(attempt[r].ip, attempt[r].name)] = <<>>]
  /\ attempt' = [attempt EXCEPT ![r] = NoAttempt]

Older(age) == IF age = LOGIN_WINDOW THEN age ELSE age + 1
ThrottleTick ==
  /\ fails' = [k \in Keys |-> [i \in DOMAIN fails[k] |-> Older(fails[k][i])]]
  /\ UNCHANGED attempt

ThrottleNext ==
  \/ \E ip \in Ips, name \in Names : LoginRefused(ip, name)
  \/ \E r \in LoginRequests, ip \in Ips, name \in Names : LoginBegin(r, ip, name)
  \/ \E r \in LoginRequests : login_failed(r) \/ login_succeeded(r)
  \/ ThrottleTick

ThrottleSpec == ThrottleInit /\ [][ThrottleNext]_throttleVars

-----------------------------------------------------------------------------
(* However many attempts overlap between the check and the record, the     *)
(* failures of one window exceed the budget of a key by less than the      *)
(* number of threads: the throttle bounds guessing, if not exactly.        *)
Slack == Cardinality(LoginRequests) - 1
BudgetKept ==
  \A ip \in Ips :
    /\ Len(Recent(fails[IpKey(ip)])) <= LOGIN_MAX_PER_IP + Slack
    /\ \A name \in Names :
         Len(Recent(fails[UserKey(ip, name)])) <= LOGIN_MAX_PER_USER + Slack

(* A locked-out caller is let in again in the end, even one that keeps     *)
(* trying: refused attempts must not extend the lock-out.                  *)
LockoutEnds ==
  \A ip \in Ips, name \in Names :
    login_throttled(ip, name) ~> ~login_throttled(ip, name)
=============================================================================
