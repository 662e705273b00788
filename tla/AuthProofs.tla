------------------------------ MODULE AuthProofs ------------------------------
(***************************************************************************)
(* Theorems about Auth, for every set of logins, presets and request       *)
(* threads: however many requests overlap, no preset dangles and no        *)
(* session outlives its login's password unless _users_update_locked       *)
(* revives it; and what overlapping requests do break                      *)
(* (PasswordChangeEndsSessions, AdminRemains) holds when a handler judges  *)
(* the cookie, or the role, again under the lock.                          *)
(***************************************************************************)
EXTENDS Auth, TLAPS

\* A cookie that was not revived belongs to this or an earlier incarnation of its
\* login, its generation is not ahead of the record's, and at the record's
\* generation it has the record's password.
Sound(c) ==
    \/ c.revived
    \/ /\ c.inc <= users[c.user].inc
       /\ c.inc = users[c.user].inc /\ Exists(c.user) =>
            /\ c.gen <= users[c.user].gen
            /\ c.gen = users[c.user].gen => c.pwv = users[c.user].pwv

\* The inductive invariant: cookies in browsers are sound, and so is the one a
\* login that has checked its password is about to hand out.
AInv ==
    /\ AuthTypeOK
    /\ PresetsNeverDangle
    /\ \A c \in cookies : Sound(c)
    /\ \A r \in Reqs : req[r].st = "login" => Sound(req[r].cookie)

\* The first states satisfy the invariant.
LEMMA AInvInit == AuthInit => AInv
<1> SUFFICES ASSUME AuthInit PROVE AInv
  OBVIOUS
<1>1. Fleet \in Scope /\ 0 \in 0..MaxGen /\ 0 \in 0..MaxInc /\ Admin0 \in Names
  BY AuthAssumption DEF Scope
<1>2. NoRequest \in Request
  BY <1>1 DEF NoRequest, NoCookie, Request, Cookie, Role
<1>3. users \in [Names -> UserRecord]
  BY <1>1 DEF AuthInit, UserRecord, Role
<1>4. AuthTypeOK
  BY <1>2, <1>3 DEF AuthInit, AuthTypeOK
<1>5. PresetsNeverDangle
  BY AuthAssumption DEF AuthInit, PresetsNeverDangle, Exists
<1>6. \A r \in Reqs : req[r].st # "login"
  BY DEF AuthInit, NoRequest
<1> QED
  BY <1>4, <1>5, <1>6 DEF AInv, AuthInit

\* A record replaced by one of the same incarnation, at the same generation and
\* password or at a later generation, keeps every cookie sound.
LEMMA SoundStep ==
    ASSUME AuthTypeOK, NEW u \in Names, NEW rec \in UserRecord, NEW c \in Cookie, Sound(c),
           users' = [users EXCEPT ![u] = rec],
           Exists(u),
           rec.inc = users[u].inc,
           \/ rec.gen = users[u].gen /\ rec.pwv = users[u].pwv
           \/ rec.gen > users[u].gen
    PROVE  Sound(c)'
<1>1. c.user \in Names /\ users[u] \in UserRecord /\ users[c.user] \in UserRecord
  BY DEF AuthTypeOK, Cookie
<1>2. c.gen \in Nat /\ rec.gen \in Nat /\ users[u].gen \in Nat
  BY <1>1 DEF Cookie, UserRecord
<1>3. CASE c.user = u
  <2>1. users'[c.user] = rec
    BY <1>1, <1>3 DEF AuthTypeOK
  <2> QED
    BY <1>1, <1>2, <1>3, <2>1 DEF Sound, Exists
<1>4. CASE c.user # u
  <2>1. users'[c.user] = users[c.user]
    BY <1>1, <1>4 DEF AuthTypeOK
  <2> QED
    BY <2>1 DEF Sound, Exists
<1> QED
  BY <1>3, <1>4

\* A cookie read off the current record is well typed and sound.
LEMMA CookieOfSound ==
    ASSUME AuthTypeOK, NEW u \in Names
    PROVE  CookieOf(u) \in Cookie /\ Sound(CookieOf(u))
<1>1. users[u] \in UserRecord
  BY DEF AuthTypeOK
<1>2. CookieOf(u) = [user |-> u, gen |-> users[u].gen, inc |-> users[u].inc,
                      pwv |-> users[u].pwv, revived |-> FALSE]
  BY DEF CookieOf, Stamp
<1> QED
  BY <1>1, <1>2 DEF UserRecord, Cookie, Sound

\* A request that goes back to idle leaves the rest of the invariant to the
\* other threads.
LEMMA IdleStep ==
    ASSUME AuthTypeOK, NEW r \in Reqs, Done(r)
    PROVE  /\ req' \in [Reqs -> Request]
           /\ \A q \in Reqs : req'[q].st = "login" => q # r /\ req'[q] = req[q]
<1>1. NoRequest \in Request /\ NoRequest.st = "free"
  BY AuthAssumption DEF NoRequest, NoCookie, Request, Cookie, Role, Scope
<1> QED
  BY <1>1 DEF Done, AuthTypeOK

\* Such an edit keeps the pending login of every other thread sound.
LEMMA PendingStep ==
    ASSUME AInv, NEW r \in Reqs, NEW u \in Names, NEW rec \in UserRecord,
           Exists(u), Done(r),
           users' = [users EXCEPT ![u] = rec],
           rec.inc = users[u].inc,
           \/ rec.gen = users[u].gen /\ rec.pwv = users[u].pwv
           \/ rec.gen > users[u].gen
    PROVE  (\A q \in Reqs : req[q].st = "login" => Sound(req[q].cookie))'
<1>1. AuthTypeOK
  BY DEF AInv
<1> SUFFICES ASSUME NEW q \in Reqs, req'[q].st = "login"
             PROVE  Sound(req[q].cookie)'
  OBVIOUS
<1>2. req'[q] = req[q]
  BY <1>1, IdleStep
<1>3. req[q].cookie \in Cookie /\ Sound(req[q].cookie)
  BY <1>2 DEF AInv, AuthTypeOK, Request
<1>4. PICK c \in Cookie : c = req[q].cookie
  BY <1>3
<1>5. Sound(c)
  BY <1>3, <1>4
<1>6. Sound(c)'
  BY <1>1, <1>5, SoundStep
<1> QED
  BY <1>2, <1>4, <1>6 DEF Sound, Exists

\* A cookie that is stamped anew is revived, or a session of the record as changed.
LEMMA StampKinds ==
    ASSUME NEW c \in Cookie, NEW u \in Names, NEW rec \in UserRecord
    PROVE  /\ Stamp(u, rec) \in Cookie /\ Restamp(c, u, rec) \in Cookie
           /\ Restamp(c, u, rec).revived \/ Restamp(c, u, rec) = Stamp(u, rec)
<1>1. Stamp(u, rec) \in Cookie
  BY DEF Stamp, Cookie, UserRecord
<1>2. CASE c = CookieOf(u)
  BY <1>1, <1>2 DEF Restamp
<1>3. CASE c # CookieOf(u)
  <2>1. Restamp(c, u, rec) = [c EXCEPT !.gen = rec.gen, !.revived = TRUE]
    BY <1>3 DEF Restamp
  <2>2. rec.gen \in 0..MaxGen
    BY DEF UserRecord
  <2> QED
    BY <1>1, <2>1, <2>2 DEF Cookie
<1> QED
  BY <1>2, <1>3

\* An authorised edit of one login's record preserves the invariant when the new
\* record is well typed, its scope does not dangle and its generation is stepped
\* with its password.
LEMMA EditStep ==
    ASSUME AInv, NEW r \in Reqs, NEW u \in Names, NEW rec \in UserRecord,
           Exists(u), Done(r), UNCHANGED <<tokens, presets>>,
           users' = [users EXCEPT ![u] = rec],
           NEW x \in Cookie, x.revived \/ x = Stamp(u, rec), cookies' \subseteq cookies \cup {x},
           rec.inc = users[u].inc,
           rec.scope \in Presets => rec.scope \in presets,
           \/ rec.gen = users[u].gen /\ rec.pwv = users[u].pwv
           \/ rec.gen > users[u].gen
    PROVE  AInv'
<1>1. AuthTypeOK
  BY DEF AInv
<1>4. users' \in [Names -> UserRecord] /\ users'[u] = rec
      /\ \A v \in Names : v # u => users'[v] = users[v]
  BY <1>1 DEF AuthTypeOK
<1>5. AuthTypeOK'
  BY <1>1, <1>4, IdleStep DEF AuthTypeOK
<1>6. PresetsNeverDangle'
  BY <1>4 DEF AInv, PresetsNeverDangle, Exists
<1>7. Sound(x)'
  <2>1. CASE x.revived
    BY <2>1 DEF Sound
  <2>2. CASE x = Stamp(u, rec)
    <3>1. x.user = u /\ x.gen = rec.gen /\ x.inc = rec.inc /\ x.pwv = rec.pwv
      BY <2>2 DEF Stamp
    <3>2. rec.inc \in Int /\ rec.gen \in Int
      BY DEF UserRecord
    <3> QED
      BY <1>4, <3>1, <3>2 DEF Sound
  <2> QED
    BY <2>1, <2>2
<1>8. \A c \in cookies : Sound(c)'
  <2> TAKE c \in cookies
  <2>1. c \in Cookie /\ Sound(c)
    BY DEF AInv, AuthTypeOK
  <2> QED
    BY <1>1, <2>1, SoundStep
<1>9. (\A q \in Reqs : req[q].st = "login" => Sound(req[q].cookie))'
  BY <1>1, PendingStep
<1> QED
  BY <1>5, <1>6, <1>7, <1>8, <1>9 DEF AInv

\* A record that is removed, or replaced by one of a later incarnation, makes
\* every cookie of the old one harmless: the invariant is preserved.
LEMMA ReplaceStep ==
    ASSUME AInv, NEW r \in Reqs, NEW u \in Names, NEW rec \in UserRecord, Done(r),
           tokens' \subseteq tokens, UNCHANGED <<presets, cookies>>,
           users' = [users EXCEPT ![u] = rec],
           rec.inc >= users[u].inc,
           \/ rec.role = "none"
           \/ rec.inc > users[u].inc /\ (rec.scope \in Presets => rec.scope \in presets)
    PROVE  AInv'
<1>1. AuthTypeOK
  BY DEF AInv
<1>2. users' \in [Names -> UserRecord] /\ users'[u] = rec
      /\ \A v \in Names : v # u => users'[v] = users[v]
  BY <1>1 DEF AuthTypeOK
<1>3. AuthTypeOK'
  BY <1>1, <1>2, IdleStep DEF AuthTypeOK
<1>4. PresetsNeverDangle'
  BY <1>2 DEF AInv, PresetsNeverDangle, Exists
<1>5. ASSUME NEW c \in Cookie, Sound(c) PROVE Sound(c)'
  <2>1. c.user \in Names /\ c.inc \in Int /\ rec.inc \in Int
    BY DEF Cookie, UserRecord
  <2>2. users[u].inc \in Int
    BY <1>1 DEF AuthTypeOK, UserRecord
  <2>3. CASE c.user = u
    BY <1>2, <1>5, <2>1, <2>2, <2>3 DEF Sound, Exists
  <2>4. CASE c.user # u
    BY <1>2, <1>5, <2>1, <2>4 DEF Sound, Exists
  <2> QED
    BY <2>3, <2>4
<1>6. (\A c \in cookies : Sound(c))'
  <2>1. \A c \in cookies : c \in Cookie /\ Sound(c)
    BY <1>1 DEF AInv, AuthTypeOK
  <2>2. \A c \in cookies : Sound(c)'
    BY <1>5, <2>1
  <2> QED
    BY <2>2
<1>7. (\A q \in Reqs : req[q].st = "login" => Sound(req[q].cookie))'
  <2> SUFFICES ASSUME NEW q \in Reqs, req'[q].st = "login" PROVE Sound(req[q].cookie)'
    OBVIOUS
  <2>1. req'[q] = req[q]
    BY <1>1, IdleStep
  <2>2. PICK c \in Cookie : c = req[q].cookie
    BY <1>1 DEF AuthTypeOK, Request
  <2>3. Sound(c)
    BY <2>1, <2>2 DEF AInv
  <2>4. Sound(c)'
    BY <1>5, <2>3
  <2> QED
    BY <2>1, <2>2, <2>4 DEF Sound, Exists
<1> QED
  BY <1>3, <1>4, <1>6, <1>7 DEF AInv

\* A step that leaves users, presets and cookies alone and puts no thread into
\* the "login" state preserves the invariant.
LEMMA QuietStep ==
    ASSUME AInv, UNCHANGED <<users, presets, cookies>>, tokens' \subseteq Token,
           req' \in [Reqs -> Request],
           \A q \in Reqs : req'[q].st = "login" => req'[q] = req[q]
    PROVE  AInv'
<1>1. AuthTypeOK'
  BY DEF AInv, AuthTypeOK
<1>2. PresetsNeverDangle' /\ (\A c \in cookies : Sound(c))'
  BY DEF AInv, PresetsNeverDangle, Exists, Sound
<1>3. (\A q \in Reqs : req[q].st = "login" => Sound(req[q].cookie))'
  BY DEF AInv, Sound, Exists
<1> QED
  BY <1>1, <1>2, <1>3 DEF AInv

\* A thread that has identified its caller is well typed and is not logging in:
\* the invariant is preserved.
LEMMA IdentifyStep ==
    ASSUME AInv, NEW r \in Reqs, NEW u \in Names, Exists(u),
           NEW via \in {"session", "token", "both"}, NEW c \in Cookie, Identify(r, u, via, c)
    PROVE  AInv'
<1> DEFINE new == [st |-> "authed", me |-> u, role |-> users[u].role, via |-> via, cookie |-> c]
<1>1. AuthTypeOK
  BY DEF AInv
<1>2. users[u].role \in Role
  BY <1>1 DEF AuthTypeOK, UserRecord, Exists
<1>3. new \in Request /\ new.st = "authed"
  BY <1>2 DEF Request
<1>4. req' = [req EXCEPT ![r] = new] /\ UNCHANGED <<users, tokens, presets, cookies>>
  BY DEF Identify
<1>5. req' \in [Reqs -> Request] /\ \A q \in Reqs : req'[q].st = "login" => req'[q] = req[q]
  BY <1>1, <1>3, <1>4 DEF AuthTypeOK
<1> QED
  BY <1>1, <1>4, <1>5, QuietStep DEF AuthTypeOK

\* Every step preserves the invariant.
LEMMA AInvStep == AInv /\ [AuthNext]_authVars => AInv'
<1> SUFFICES ASSUME AInv, [AuthNext]_authVars PROVE AInv'
  OBVIOUS
<1>0. AuthTypeOK
  BY DEF AInv
<1>1. ASSUME NEW r \in Reqs, NEW u \in Names, LoginCheck(r, u) PROVE AInv'
  <2> DEFINE new == [NoRequest EXCEPT !.st = "login", !.cookie = CookieOf(u)]
  <2>1. CookieOf(u) \in Cookie /\ Sound(CookieOf(u))
    BY <1>0, CookieOfSound
  <2>2. NoRequest \in Request
    BY AuthAssumption DEF NoRequest, NoCookie, Request, Cookie, Role, Scope
  <2>3. new \in Request /\ new.cookie = CookieOf(u)
    BY <2>1, <2>2 DEF Request
  <2>4. req' = [req EXCEPT ![r] = new] /\ UNCHANGED <<users, tokens, presets, cookies>>
    BY <1>1 DEF LoginCheck
  <2>5. AuthTypeOK'
    BY <1>0, <2>3, <2>4 DEF AuthTypeOK
  <2>6. PresetsNeverDangle' /\ (\A c \in cookies : Sound(c))'
    BY <2>4 DEF AInv, PresetsNeverDangle, Exists, Sound
  <2>7. (\A q \in Reqs : req[q].st = "login" => Sound(req[q].cookie))'
    <3> SUFFICES ASSUME NEW q \in Reqs, req'[q].st = "login" PROVE Sound(req[q].cookie)'
      OBVIOUS
    <3>1. CASE q = r
      <4>1. req'[q].cookie = CookieOf(u)
        BY <3>1, <2>3, <2>4, <1>0 DEF AuthTypeOK
      <4> QED
        BY <4>1, <2>1, <2>4 DEF Sound, Exists
    <3>2. CASE q # r
      <4>1. req'[q] = req[q]
        BY <3>2, <2>4, <1>0 DEF AuthTypeOK
      <4> QED
        BY <4>1, <2>4 DEF AInv, Sound, Exists
    <3> QED
      BY <3>1, <3>2
  <2> QED
    BY <2>5, <2>6, <2>7 DEF AInv
<1>2. ASSUME NEW r \in Reqs, StartSession(r) PROVE AInv'
  <2>1. Done(r) /\ UNCHANGED <<users, tokens, presets>>
        /\ req[r].st = "login" /\ cookies' = cookies \cup {req[r].cookie}
    BY <1>2 DEF StartSession, Done
  <2>2. req[r].cookie \in Cookie /\ Sound(req[r].cookie)
    BY <1>0, <2>1 DEF AInv, AuthTypeOK, Request
  <2>3. AuthTypeOK'
    BY <1>0, <2>1, <2>2, IdleStep DEF AuthTypeOK
  <2>4. PresetsNeverDangle'
    BY <2>1 DEF AInv, PresetsNeverDangle, Exists
  <2>5. (\A c \in cookies : Sound(c))'
    BY <2>1, <2>2 DEF AInv, Sound, Exists
  <2>6. (\A q \in Reqs : req[q].st = "login" => Sound(req[q].cookie))'
    BY <1>0, <2>1, IdleStep DEF AInv, Sound, Exists
  <2> QED
    BY <2>3, <2>4, <2>5, <2>6 DEF AInv
<1>3. ASSUME NEW r \in Reqs, NEW c \in cookies, IdentifySession(r, c) PROVE AInv'
  <2>1. c \in Cookie /\ c.user \in Names /\ Exists(c.user) /\ Identify(r, c.user, "session", c)
    BY <1>0, <1>3 DEF IdentifySession, Accepts, AuthTypeOK, Cookie
  <2> QED
    BY <2>1, IdentifyStep
<1>4. ASSUME NEW r \in Reqs, NEW t \in tokens, IdentifyToken(r, t) PROVE AInv'
  <2>1. t.user \in Names /\ Exists(t.user) /\ NoCookie \in Cookie
    BY <1>0, <1>4, AuthAssumption DEF IdentifyToken, AuthTypeOK, Token, NoCookie, Cookie
  <2>2. CASE Identify(r, t.user, "token", NoCookie)
    BY <2>1, <2>2, IdentifyStep
  <2>3. ASSUME NEW c \in cookies, Identify(r, t.user, "both", c) PROVE AInv'
    <3>1. c \in Cookie
      BY <1>0 DEF AuthTypeOK
    <3> QED
      BY <2>1, <2>3, <3>1, IdentifyStep
  <2> QED
    BY <1>4, <2>2, <2>3 DEF IdentifyToken
<1>5. ASSUME NEW r \in Reqs, Handler(r) PROVE AInv'
  <2>1. CASE Respond(r)
    BY <1>0, <2>1, IdleStep, QuietStep DEF Respond, AuthTypeOK
  <2>2. CASE ChangePassword(r)
    <3>1. PICK u \in Names : u = req[r].cookie.user
      BY <1>0 DEF AuthTypeOK, Request, Cookie
    <3>2. PICK old \in UserRecord : old = users[u]
      BY <1>0 DEF AuthTypeOK
    <3>3. PICK rec : rec = [old EXCEPT !.gen = @ + 1, !.pwv = @ + 1]
      OBVIOUS
    <3>4. /\ Exists(u) /\ Done(r) /\ UNCHANGED <<tokens, presets>>
          /\ rec.gen <= MaxGen /\ rec.pwv <= MaxGen
          /\ users' = [users EXCEPT ![u] = rec] /\ cookies' = cookies \cup {Stamp(u, rec)}
      BY <2>2, <3>1, <3>2, <3>3 DEF ChangePassword
    <3>5. /\ rec.gen = old.gen + 1 /\ rec.pwv = old.pwv + 1
          /\ rec.inc = old.inc /\ rec.scope = old.scope /\ rec.role = old.role
      BY <3>3 DEF UserRecord
    <3>6. rec.gen \in 0..MaxGen /\ rec.pwv \in 0..MaxGen /\ rec.gen > old.gen
      BY <3>4, <3>5, AuthAssumption DEF UserRecord
    <3>7. rec \in UserRecord
      BY <3>3, <3>5, <3>6 DEF UserRecord
    <3>8. rec.scope \in Presets => rec.scope \in presets
      BY <3>2, <3>4, <3>5 DEF AInv, PresetsNeverDangle
    <3>9. PICK x \in Cookie : x = Stamp(u, rec)
      <4>1. NoCookie \in Cookie
        BY AuthAssumption DEF NoCookie, Cookie
      <4> QED
        BY <3>7, <4>1, StampKinds
    <3>10. cookies' \subseteq cookies \cup {x}
      BY <3>4, <3>9
    <3> QED
      BY <3>2, <3>4, <3>5, <3>6, <3>7, <3>8, <3>9, <3>10, EditStep
  <2>3. CASE TokensCreate(r)
    <3>1. PICK n \in 1..MaxTokens : tokens' = tokens \cup {[user |-> me(r), n |-> n]}
      BY <2>3 DEF TokensCreate
    <3>2. me(r) \in Names
      BY <1>0 DEF me, AuthTypeOK, Request, Cookie
    <3>3. tokens' \subseteq Token
      BY <1>0, <3>1, <3>2 DEF AuthTypeOK, Token
    <3> QED
      BY <1>0, <2>3, <3>3, IdleStep, QuietStep DEF TokensCreate
  <2>4. ASSUME NEW t \in tokens, TokensDelete(r, t) PROVE AInv'
    <3>1. tokens' \subseteq Token
      BY <1>0, <2>4 DEF TokensDelete, AuthTypeOK
    <3> QED
      BY <1>0, <2>4, <3>1, IdleStep, QuietStep DEF TokensDelete
  <2>5. ASSUME NEW p \in Presets, ScopePresetsSave(r, p) \/ ScopePresetsDelete(r, p)
        PROVE  AInv'
    <3>1. Done(r) /\ UNCHANGED <<users, tokens, cookies>> /\ presets' \subseteq Presets
      BY <1>0, <2>5 DEF ScopePresetsSave, ScopePresetsDelete, AuthTypeOK
    <3>2. PresetsNeverDangle'
      BY <2>5, <3>1 DEF ScopePresetsSave, ScopePresetsDelete, Holders, AInv,
                        PresetsNeverDangle, Exists
    <3>3. AuthTypeOK'
      BY <1>0, <3>1, IdleStep DEF AuthTypeOK
    <3>4. (\A c \in cookies : Sound(c))'
      BY <3>1 DEF AInv, Sound, Exists
    <3>5. (\A q \in Reqs : req[q].st = "login" => Sound(req[q].cookie))'
      BY <1>0, <3>1, IdleStep DEF AInv, Sound, Exists
    <3> QED
      BY <3>2, <3>3, <3>4, <3>5 DEF AInv
  <2>6. ASSUME NEW u \in Names, UsersDelete(r, u) PROVE AInv'
    <3>1. PICK rec : rec = [users[u] EXCEPT !.role = "none", !.gen = 0, !.scope = Fleet, !.pwv = 0]
      OBVIOUS
    <3>2. users' = [users EXCEPT ![u] = rec]
      BY <2>6, <3>1 DEF UsersDelete
    <3>3. users[u] \in UserRecord
      BY <1>0 DEF AuthTypeOK
    <3>4. rec \in UserRecord /\ rec.inc = users[u].inc /\ rec.role = "none"
      <4>1. rec = [role |-> "none", gen |-> 0, scope |-> Fleet, inc |-> users[u].inc, pwv |-> 0]
        BY <3>1, <3>3 DEF UserRecord
      <4>2. 0 \in 0..MaxGen /\ Fleet \in Scope /\ users[u].inc \in 0..MaxInc
        BY <3>3, AuthAssumption DEF Scope, UserRecord
      <4> QED
        BY <4>1, <4>2 DEF UserRecord
    <3>5. Done(r) /\ UNCHANGED <<presets, cookies>> /\ tokens' \subseteq tokens
      BY <2>6 DEF UsersDelete, TokensWithout
    <3>6. rec.inc >= users[u].inc
      BY <3>3, <3>4 DEF UserRecord
    <3> QED
      BY <1>0, <3>2, <3>4, <3>5, <3>6, ReplaceStep
  <2>7. ASSUME NEW u \in Names, NEW role \in Role, NEW scope \in Scope,
               UsersAdd(r, u, role, scope)
        PROVE  AInv'
    <3>1. PICK rec : rec = [role |-> role, gen |-> 0, scope |-> scope,
                            inc |-> users[u].inc + 1, pwv |-> 0]
      OBVIOUS
    <3>2. users' = [users EXCEPT ![u] = rec] /\ Done(r) /\ UNCHANGED <<tokens, presets, cookies>>
          /\ users[u].inc < MaxInc /\ scope \in SettableScope(role)
      BY <2>7, <3>1 DEF UsersAdd
    <3>3. users[u] \in UserRecord
      BY <1>0 DEF AuthTypeOK
    <3>4. rec \in UserRecord /\ rec.inc > users[u].inc /\ rec.inc >= users[u].inc
      BY <3>1, <3>2, <3>3, AuthAssumption DEF UserRecord
    <3>5. rec.scope \in Presets => rec.scope \in presets
      BY <3>1, <3>2, AuthAssumption DEF SettableScope
    <3> QED
      BY <1>0, <3>2, <3>4, <3>5, ReplaceStep
  <2>8. ASSUME NEW u \in Names, NEW role \in Role, NEW scope \in Scope,
               NEW reset \in BOOLEAN, NEW revoke \in BOOLEAN,
               UsersUpdate(r, u, role, scope, reset, revoke)
        PROVE  AInv'
    <3> DEFINE gen == UpdateGen(users[u].gen, reset, revoke)
               pwv == IF reset THEN users[u].pwv + 1 ELSE users[u].pwv
    <3>1. PICK rec : rec = [users[u] EXCEPT !.role = role, !.scope = scope, !.gen = gen, !.pwv = pwv]
      OBVIOUS
    <3>2. /\ Exists(u) /\ Done(r) /\ UNCHANGED <<tokens, presets>>
          /\ users' = [users EXCEPT ![u] = rec]
          /\ cookies' = IF u = me(r) /\ HasCookie(r)
                        THEN cookies \cup {Restamp(req[r].cookie, u, rec)} ELSE cookies
          /\ rec.gen <= MaxGen /\ rec.pwv <= MaxGen
          /\ scope # users[u].scope => scope \in SettableScope(role)
      BY <2>8, <3>1 DEF UsersUpdate
    <3>3. users[u] \in UserRecord
      BY <1>0 DEF AuthTypeOK
    <3>4. rec.gen = gen /\ rec.pwv = pwv
      BY <3>1, <3>3 DEF UserRecord
    <3>5. gen \in 0..MaxGen /\ pwv \in 0..MaxGen
      BY <3>2, <3>3, <3>4, AuthAssumption DEF UpdateGen, UserRecord
    <3>6. gen > users[u].gen \/ (gen = users[u].gen /\ pwv = users[u].pwv)
      BY <3>3 DEF UpdateGen, UserRecord
    <3>7. rec \in UserRecord /\ rec.inc = users[u].inc /\ rec.scope = scope
      <4> HIDE DEF gen, pwv
      <4>1. rec = [role |-> role, gen |-> gen, scope |-> scope, inc |-> users[u].inc, pwv |-> pwv]
        BY <3>1, <3>3 DEF UserRecord
      <4>2. users[u].inc \in 0..MaxInc
        BY <3>3 DEF UserRecord
      <4> QED
        BY <3>5, <4>1, <4>2 DEF UserRecord
    <3>8. rec.scope \in Presets => rec.scope \in presets
      BY <3>2, <3>7, AuthAssumption DEF SettableScope, AInv, PresetsNeverDangle
    <3>9. PICK x \in Cookie : /\ x.revived \/ x = Stamp(u, rec)
                              /\ cookies' \subseteq cookies \cup {x}
      <4>1. req[r].cookie \in Cookie
        BY <1>0 DEF AuthTypeOK, Request
      <4>2. PICK c \in Cookie : c = req[r].cookie
        BY <4>1
      <4>3. /\ Stamp(u, rec) \in Cookie /\ Restamp(c, u, rec) \in Cookie
            /\ Restamp(c, u, rec).revived \/ Restamp(c, u, rec) = Stamp(u, rec)
        BY <3>7, StampKinds
      <4>4. CASE u = me(r) /\ HasCookie(r)
        BY <3>2, <4>2, <4>3, <4>4
      <4>5. CASE ~(u = me(r) /\ HasCookie(r))
        BY <3>2, <4>3, <4>5
      <4> QED
        BY <4>4, <4>5
    <3> HIDE DEF gen, pwv
    <3> QED
      BY <3>2, <3>4, <3>6, <3>7, <3>8, <3>9, EditStep
  <2> QED
    BY <1>5, <2>1, <2>2, <2>3, <2>4, <2>5, <2>6, <2>7, <2>8 DEF Handler
<1>6. CASE UNCHANGED authVars
  <2>1. UNCHANGED <<users, tokens, presets, cookies, req>>
    BY <1>6 DEF authVars
  <2> QED
    BY <1>0, <2>1, QuietStep DEF AuthTypeOK
<1> QED
  BY <1>1, <1>2, <1>3, <1>4, <1>5, <1>6 DEF AuthNext

\* Every reachable state satisfies the inductive invariant.
LEMMA AInvAlways == AuthSpec => []AInv
  BY AInvInit, AInvStep, PTL DEF AuthSpec

\* The auth file, the cookies and the requests keep their types.
THEOREM AuthType == AuthSpec => []AuthTypeOK
<1>1. AInv => AuthTypeOK
  BY DEF AInv
<1> QED
  BY <1>1, AInvAlways, PTL

\* No login ever refers to a scope preset that is gone (scope_presets_delete is
\* refused while one does), for any number of overlapping requests.
THEOREM PresetsCorrect == AuthSpec => []PresetsNeverDangle
<1>1. AInv => PresetsNeverDangle
  BY DEF AInv
<1> QED
  BY <1>1, AInvAlways, PTL

\* A session that users_update has not revived ends with its login's password, for
\* any number of logins, cookies, tokens and overlapping requests.
THEOREM SessionsCorrect == AuthSpec => []SessionsFollowPassword
<1>1. AInv => SessionsFollowPassword
  BY DEF AInv, SessionsFollowPassword, FollowsPassword, Accepts, Sound
<1> QED
  BY <1>1, AInvAlways, PTL

-----------------------------------------------------------------------------
(* Stale cookies *)

\* PasswordChangeEndsSessions does not hold of AuthSpec: _users_update_locked stamps
\* a cookie that nobody judged, beside a token, or that was judged before a password
\* change.  This is the only cause.

\* A request whose cookie is not the caller's current session is handed none.
CookieRechecked ==
    \A r \in Reqs : IsAuthed(r) /\ ~IsAuthed(r)' /\ HasCookie(r)
                    => req[r].cookie = CookieOf(me(r)) \/ UNCHANGED cookies

NoneRevived ==
    /\ \A c \in cookies : ~c.revived
    /\ \A r \in Reqs : req[r].st = "login" => ~req[r].cookie.revived

\* A cookie read off a record, or stamped from one, is not revived.
LEMMA FreshStamps == \A u \in Names : ~CookieOf(u).revived /\ \A rec : ~Stamp(u, rec).revived
  BY DEF CookieOf, Stamp

\* Every step with the cookie judged again revives none.
LEMMA NoneRevivedStep ==
    ASSUME AuthTypeOK, NoneRevived, AuthNext, CookieRechecked
    PROVE  NoneRevived'
<1>1. ASSUME NEW r \in Reqs, Done(r), cookies' = cookies PROVE NoneRevived'
  BY <1>1, IdleStep DEF NoneRevived
<1>2. ASSUME NEW r \in Reqs, NEW u \in Names, LoginCheck(r, u) PROVE NoneRevived'
  <2>1. /\ req' = [req EXCEPT ![r] = [NoRequest EXCEPT !.st = "login", !.cookie = CookieOf(u)]]
        /\ cookies' = cookies
    BY <1>2 DEF LoginCheck
  <2>2. req'[r].cookie = CookieOf(u) /\ \A q \in Reqs : q # r => req'[q] = req[q]
    BY <2>1 DEF AuthTypeOK, NoRequest
  <2> QED
    BY <2>1, <2>2, FreshStamps DEF NoneRevived
<1>3. ASSUME NEW r \in Reqs, StartSession(r) PROVE NoneRevived'
  <2>1. Done(r) /\ req[r].st = "login" /\ cookies' = cookies \cup {req[r].cookie}
    BY <1>3 DEF StartSession, Done
  <2> QED
    BY <2>1, IdleStep DEF NoneRevived
<1>4. ASSUME NEW r \in Reqs, NEW u, NEW via, NEW c, Identify(r, u, via, c) PROVE NoneRevived'
  <2>1. req'[r].st = "authed" /\ (\A q \in Reqs : q # r => req'[q] = req[q]) /\ cookies' = cookies
    BY <1>4 DEF Identify, AuthTypeOK
  <2> QED
    BY <2>1 DEF NoneRevived
<1>5. ASSUME NEW r \in Reqs, ChangePassword(r) PROVE NoneRevived'
  <2>1. PICK u \in Names : u = req[r].cookie.user
    BY DEF AuthTypeOK, Request, Cookie
  <2>2. PICK rec : cookies' = cookies \cup {Stamp(u, rec)} /\ Done(r)
    BY <1>5, <2>1 DEF ChangePassword
  <2>3. ~Stamp(u, rec).revived
    BY FreshStamps
  <2> QED
    BY <2>2, <2>3, IdleStep DEF NoneRevived
<1>6. ASSUME NEW r \in Reqs, NEW u \in Names, NEW role \in Role, NEW scope \in Scope,
             NEW reset \in BOOLEAN, NEW revoke \in BOOLEAN,
             UsersUpdate(r, u, role, scope, reset, revoke)
      PROVE  NoneRevived'
  <2>1. PICK rec : Done(r) /\ IsAuthed(r) /\
          cookies' = IF u = me(r) /\ HasCookie(r)
                     THEN cookies \cup {Restamp(req[r].cookie, u, rec)} ELSE cookies
    BY <1>6 DEF UsersUpdate, IsAdmin
  <2>2. CASE u = me(r) /\ HasCookie(r)
    <3>1. req'[r].st = "free"
      BY <2>1 DEF AuthTypeOK, Done, NoRequest
    <3>2. CASE req[r].cookie = CookieOf(u)
      <4>1. Restamp(req[r].cookie, u, rec) = Stamp(u, rec) /\ ~Stamp(u, rec).revived
        BY <3>2, FreshStamps DEF Restamp
      <4> QED
        BY <2>1, <2>2, <4>1, IdleStep DEF NoneRevived
    <3>3. CASE cookies' = cookies
      BY <1>1, <2>1, <3>3
    <3> QED
      BY <2>1, <2>2, <3>1, <3>2, <3>3 DEF CookieRechecked, IsAuthed
  <2>3. CASE ~(u = me(r) /\ HasCookie(r))
    BY <1>1, <2>1, <2>3
  <2> QED
    BY <2>2, <2>3
<1>7. ASSUME NEW r \in Reqs, Handler(r) PROVE NoneRevived'
  <2>1. CASE Respond(r) \/ TokensCreate(r) \/ (\E t \in tokens : TokensDelete(r, t))
             \/ (\E p \in Presets : ScopePresetsSave(r, p) \/ ScopePresetsDelete(r, p))
             \/ (\E u \in Names : UsersDelete(r, u))
             \/ (\E u \in Names, role \in Role, scope \in Scope : UsersAdd(r, u, role, scope))
    <3>1. Done(r) /\ cookies' = cookies
      BY <2>1 DEF Respond, TokensCreate, TokensDelete, ScopePresetsSave, ScopePresetsDelete,
                  UsersDelete, UsersAdd
    <3> QED
      BY <1>1, <3>1
  <2> QED
    BY <1>5, <1>6, <1>7, <2>1 DEF Handler
<1> QED
  BY <1>2, <1>3, <1>4, <1>7 DEF AuthNext, IdentifySession, IdentifyToken

(* With the cookie judged again when the handler runs, a password change   *)
(* ends every other session of its login, as the README promises, for any  *)
(* number of logins, cookies, tokens and overlapping requests.             *)
THEOREM RecheckingEndsSessions ==
    AuthInit /\ [][AuthNext /\ CookieRechecked]_authVars => []PasswordChangeEndsSessions
<1>1. AuthInit => NoneRevived
  BY DEF AuthInit, NoneRevived, NoRequest
<1>2. AInv /\ NoneRevived /\ [AuthNext /\ CookieRechecked]_authVars => AInv' /\ NoneRevived'
  <2> SUFFICES ASSUME AInv, NoneRevived, [AuthNext /\ CookieRechecked]_authVars
               PROVE  AInv' /\ NoneRevived'
    OBVIOUS
  <2>1. AInv'
    BY AInvStep
  <2>2. CASE UNCHANGED authVars
    BY <2>1, <2>2 DEF authVars, NoneRevived
  <2>3. CASE AuthNext /\ CookieRechecked
    BY <2>1, <2>3, NoneRevivedStep DEF AInv
  <2> QED
    BY <2>2, <2>3
<1>3. AInv /\ NoneRevived => PasswordChangeEndsSessions
  BY DEF AInv, NoneRevived, PasswordChangeEndsSessions, FollowsPassword, Accepts, Sound
<1> QED
  BY <1>1, <1>2, <1>3, AInvInit, PTL

-----------------------------------------------------------------------------
(* Stale authorisation *)

\* AdminRemains does not hold of AuthSpec: a request authorised as an administrator may
\* run its handler after that role, or that login, is gone.  This gap between
\* require_login and the handler is the only cause: with the role looked up again
\* under the lock the handlers' own checks are enough.

\* What require_login found of the caller's role is still so.
Current(r) == IsAuthed(r) => users[me(r)].role = req[r].role

\* No handler runs on a role that has changed since.
Rechecked == \A r \in Reqs : IsAuthed(r) /\ ~IsAuthed(r)' => Current(r)

\* Every API token belongs to a login.
TokensHaveLogins == \A t \in tokens : Exists(t.user)

Governed == AdminRemains /\ TokensHaveLogins

LEMMA GovernedInit == AuthInit => Governed
<1> SUFFICES ASSUME AuthInit PROVE Governed
  OBVIOUS
<1>1. users[Admin0].role = "admin" /\ Admin0 \in Names
  BY AuthAssumption DEF AuthInit
<1> QED
  BY <1>1 DEF AuthInit, Governed, AdminRemains, TokensHaveLogins, admins

\* A replaced record: an administrator other than u, or u itself, remains.
LEMMA AdminStays ==
    ASSUME AuthTypeOK, NEW u \in Names, NEW rec, users' = [users EXCEPT ![u] = rec],
           NEW v \in Names, users[v].role = "admin", v = u => rec.role = "admin"
    PROVE  AdminRemains'
<1>1. users'[v].role = "admin"
  BY DEF AuthTypeOK
<1> QED
  BY <1>1 DEF AdminRemains, admins

\* Every handler of a request whose role is current keeps an administrator, and no
\* token without its login.
LEMMA GovernedStep ==
    ASSUME AInv, Governed, NEW r \in Reqs, Handler(r), Current(r)
    PROVE  Governed'
<1>1. AuthTypeOK /\ tokens \subseteq Token /\ me(r) \in Names /\ req[r].role \in Role
      /\ req[r].cookie \in Cookie
  BY DEF AInv, AuthTypeOK, Request, me
<1>2. ASSUME UNCHANGED users, tokens' \subseteq tokens PROVE Governed'
  BY <1>2 DEF Governed, AdminRemains, TokensHaveLogins, admins, Exists
<1>3. CASE Respond(r) \/ (\E t \in tokens : TokensDelete(r, t))
           \/ (\E p \in Presets : ScopePresetsSave(r, p) \/ ScopePresetsDelete(r, p))
  <2>1. UNCHANGED users /\ tokens' \subseteq tokens
    BY <1>3 DEF Respond, TokensDelete, ScopePresetsSave, ScopePresetsDelete
  <2> QED
    BY <1>2, <2>1
<1>4. CASE TokensCreate(r)
  <2>1. users' = users /\ IsAuthed(r)
        /\ \E n \in 1..MaxTokens : tokens' = tokens \cup {[user |-> me(r), n |-> n]}
    BY <1>4 DEF TokensCreate
  <2>2. Exists(me(r))
    BY <1>1, <2>1 DEF Current, Exists, Role
  <2>3. \A t \in tokens' : t \in tokens \/ t.user = me(r)
    BY <2>1
  <2> QED
    BY <2>1, <2>2, <2>3 DEF Governed, AdminRemains, TokensHaveLogins, admins, Exists
<1>5. ASSUME NEW u \in Names, NEW rec, Exists(u), rec.role \in Role, tokens' = tokens,
             users' = [users EXCEPT ![u] = rec]
      PROVE  TokensHaveLogins'
  <2>1. users[u] \in UserRecord /\ \A t \in tokens : t.user \in Names /\ Exists(t.user)
    BY <1>1 DEF AuthTypeOK, Token, Governed, TokensHaveLogins
  <2>2. \A v \in Names : v # u => users'[v] = users[v]
    BY <1>1, <1>5 DEF AuthTypeOK
  <2>3. users'[u] = rec /\ rec.role # "none"
    BY <1>1, <1>5 DEF AuthTypeOK, Role
  <2> QED
    BY <1>5, <2>1, <2>2, <2>3 DEF TokensHaveLogins, Exists
<1>6. CASE ChangePassword(r)
  <2>0. PICK u \in Names : u = req[r].cookie.user
    BY <1>1 DEF Cookie
  <2>1. PICK rec : rec = [users[u] EXCEPT !.gen = @ + 1, !.pwv = @ + 1]
    OBVIOUS
  <2>2. users' = [users EXCEPT ![u] = rec] /\ tokens' = tokens /\ Exists(u)
    BY <1>6, <2>0, <2>1 DEF ChangePassword
  <2>3. users[u] \in UserRecord
    BY <1>1 DEF AuthTypeOK
  <2>4. rec.role = users[u].role /\ rec.role \in Role
    BY <2>1, <2>2, <2>3 DEF UserRecord, Exists
  <2>5. PICK v \in Names : users[v].role = "admin"
    BY DEF Governed, AdminRemains, admins
  <2> QED
    BY <1>1, <1>5, <2>2, <2>4, <2>5, AdminStays DEF Governed
<1>7. ASSUME NEW u \in Names, UsersDelete(r, u) PROVE Governed'
  <2>1. PICK rec : rec = [users[u] EXCEPT !.role = "none", !.gen = 0, !.scope = Fleet, !.pwv = 0]
    OBVIOUS
  <2>2. /\ users' = [users EXCEPT ![u] = rec] /\ IsAdmin(r) /\ u # me(r)
        /\ tokens' = {t \in tokens : t.user # u}
    BY <1>7, <2>1 DEF UsersDelete, TokensWithout
  <2>3. users[me(r)].role = "admin"
    BY <2>2 DEF IsAdmin, IsAuthed, Current
  <2>4. AdminRemains'
    BY <1>1, <2>2, <2>3, AdminStays
  <2>5. \A v \in Names : v # u => users'[v] = users[v]
    BY <1>1, <2>2 DEF AuthTypeOK
  <2>6. \A t \in tokens' : t.user \in Names /\ t.user # u /\ Exists(t.user)
    BY <1>1, <2>2 DEF Token, Governed, TokensHaveLogins
  <2> QED
    BY <2>4, <2>5, <2>6 DEF Governed, TokensHaveLogins, Exists
<1>8. ASSUME NEW u \in Names, NEW role \in Role, NEW scope \in Scope, UsersAdd(r, u, role, scope)
      PROVE  Governed'
  <2>1. PICK rec : rec = [role |-> role, gen |-> 0, scope |-> scope,
                          inc |-> users[u].inc + 1, pwv |-> 0]
    OBVIOUS
  <2>2. /\ users' = [users EXCEPT ![u] = rec] /\ IsAdmin(r) /\ ~Exists(u) /\ tokens' = tokens
    BY <1>8, <2>1 DEF UsersAdd
  <2>3. users[me(r)].role = "admin" /\ me(r) # u
    BY <2>2 DEF IsAdmin, IsAuthed, Current, Exists
  <2>4. AdminRemains'
    BY <1>1, <2>2, <2>3, AdminStays
  <2>5. \A v \in Names : v # u => users'[v] = users[v]
    BY <1>1, <2>2 DEF AuthTypeOK
  <2>6. \A t \in tokens : t.user \in Names /\ t.user # u /\ Exists(t.user)
    BY <1>1, <2>2 DEF Token, Governed, TokensHaveLogins
  <2> QED
    BY <2>2, <2>4, <2>5, <2>6 DEF Governed, TokensHaveLogins, Exists
<1>9. ASSUME NEW u \in Names, NEW role \in Role, NEW scope \in Scope,
             NEW reset \in BOOLEAN, NEW revoke \in BOOLEAN,
             UsersUpdate(r, u, role, scope, reset, revoke)
      PROVE  Governed'
  <2> DEFINE gen == UpdateGen(users[u].gen, reset, revoke)
             pwv == IF reset THEN users[u].pwv + 1 ELSE users[u].pwv
  <2>1. PICK rec : rec = [users[u] EXCEPT !.role = role, !.scope = scope, !.gen = gen, !.pwv = pwv]
    OBVIOUS
  <2>2. /\ Exists(u) /\ tokens' = tokens /\ users' = [users EXCEPT ![u] = rec] /\ IsAdmin(r)
        /\ role # users[u].role => MayGiveRole(r, u, role)
    BY <1>9, <2>1 DEF UsersUpdate
  <2>3. users[u] \in UserRecord
    BY <1>1 DEF AuthTypeOK
  <2>4. rec.role = role
    <3> HIDE DEF gen, pwv
    <3> QED
      BY <2>1, <2>3 DEF UserRecord
  <2>5. users[me(r)].role = "admin"
    BY <2>2 DEF IsAdmin, IsAuthed, Current
  <2>6. me(r) = u => rec.role = "admin"
    BY <2>2, <2>4, <2>5 DEF MayGiveRole
  <2> HIDE DEF gen, pwv
  <2> QED
    BY <1>1, <1>5, <2>2, <2>4, <2>5, <2>6, AdminStays DEF Governed
<1> QED
  BY <1>3, <1>4, <1>6, <1>7, <1>8, <1>9 DEF Handler

\* A handler ends its request.
LEMMA HandlerEnds ==
    ASSUME NEW r \in Reqs, Handler(r)
    PROVE  IsAuthed(r) /\ Done(r)
<1>1. Respond(r) \/ ChangePassword(r) \/ TokensCreate(r) => IsAuthed(r) /\ Done(r)
  BY DEF Respond, ChangePassword, TokensCreate
<1>2. \A t \in tokens : TokensDelete(r, t) => IsAuthed(r) /\ Done(r)
  BY DEF TokensDelete
<1>3. \A p \in Presets : ScopePresetsSave(r, p) \/ ScopePresetsDelete(r, p)
                          => IsAuthed(r) /\ Done(r)
  BY DEF ScopePresetsSave, ScopePresetsDelete, IsAdmin
<1>4. \A u \in Names : UsersDelete(r, u) => IsAuthed(r) /\ Done(r)
  BY DEF UsersDelete, IsAdmin
<1>5. \A u \in Names, role \in Role, scope \in Scope :
        UsersAdd(r, u, role, scope) => IsAuthed(r) /\ Done(r)
  BY DEF UsersAdd, IsAdmin
<1>6. \A u \in Names, role \in Role, scope \in Scope, reset, revoke \in BOOLEAN :
        UsersUpdate(r, u, role, scope, reset, revoke) => IsAuthed(r) /\ Done(r)
  BY DEF UsersUpdate, IsAdmin
<1> QED
  BY <1>1, <1>2, <1>3, <1>4, <1>5, <1>6 DEF Handler

\* A step outside the handlers leaves logins and tokens alone.
LEMMA StepKinds ==
    ASSUME AuthTypeOK, [AuthNext]_authVars
    PROVE  \/ UNCHANGED <<users, tokens>>
           \/ \E r \in Reqs : Handler(r) /\ IsAuthed(r) /\ Done(r)
<1>1. \A r \in Reqs : Handler(r) => IsAuthed(r) /\ Done(r)
  BY HandlerEnds
<1>2. CASE AuthNext
  BY <1>1, <1>2 DEF AuthNext, LoginCheck, StartSession, IdentifySession, IdentifyToken, Identify
<1>3. CASE UNCHANGED authVars
  BY <1>3 DEF authVars
<1> QED
  BY <1>2, <1>3

(* With the caller's role looked up again when the handler runs, some      *)
(* login is always an administrator and no token outlives its login, for   *)
(* any number of requests that overlap.                                    *)
THEOREM RecheckingGoverns ==
    AuthInit /\ [][AuthNext /\ Rechecked]_authVars => [](AdminRemains /\ TokensHaveLogins)
<1>1. AInv /\ Governed /\ [AuthNext /\ Rechecked]_authVars => AInv' /\ Governed'
  <2> SUFFICES ASSUME AInv, Governed, [AuthNext /\ Rechecked]_authVars PROVE AInv' /\ Governed'
    OBVIOUS
  <2>1. AuthTypeOK /\ [AuthNext]_authVars /\ (Rechecked \/ UNCHANGED authVars)
    BY DEF AInv
  <2>2. AInv'
    BY <2>1, AInvStep
  <2>3. CASE UNCHANGED <<users, tokens>>
    BY <2>2, <2>3 DEF Governed, AdminRemains, TokensHaveLogins, admins, Exists
  <2>4. ASSUME NEW r \in Reqs, Handler(r), IsAuthed(r), Done(r) PROVE Governed'
    <3>1. req'[r].st = "free"
      BY <2>1, <2>4 DEF AuthTypeOK, Done, NoRequest
    <3>2. Rechecked
      BY <2>1, <2>4, <3>1 DEF authVars, IsAuthed
    <3>3. Current(r)
      BY <2>4, <3>1, <3>2 DEF Rechecked, IsAuthed
    <3> QED
      BY <2>4, <3>3, GovernedStep
  <2> QED
    BY <2>1, <2>2, <2>3, <2>4, StepKinds
<1> QED
  BY <1>1, AInvInit, GovernedInit, PTL DEF Governed

(* One request at a time is never stale: then the handlers' checks keep    *)
(* what users_delete and _users_update_locked promise.                     *)
THEOREM OneThreadGoverns ==
    ASSUME \A q, r \in Reqs : q = r
    PROVE  AuthSpec => [](AdminRemains /\ TokensHaveLogins)
<1> DEFINE Fresh == \A r \in Reqs : Current(r)
<1>1. AuthInit => Fresh
  BY DEF AuthInit, NoRequest, Current, IsAuthed
<1>2. AInv /\ Governed /\ Fresh /\ [AuthNext]_authVars => AInv' /\ Governed' /\ Fresh'
  <2> SUFFICES ASSUME AInv, Governed, Fresh, [AuthNext]_authVars PROVE AInv' /\ Governed' /\ Fresh'
    OBVIOUS
  <2>1. AuthTypeOK
    BY DEF AInv
  <2>2. AInv'
    BY AInvStep
  <2>3. ASSUME NEW r \in Reqs, Handler(r), IsAuthed(r), Done(r) PROVE Governed' /\ Fresh'
    <3>1. Governed'
      BY <2>3, GovernedStep
    <3>2. req'[r].st = "free" /\ \A q \in Reqs : q = r
      BY <2>1, <2>3 DEF AuthTypeOK, Done, NoRequest
    <3> QED
      BY <3>1, <3>2 DEF Current, IsAuthed
  <2>4. ASSUME UNCHANGED <<users, tokens>> PROVE Governed' /\ Fresh'
    <3>1. Governed'
      BY <2>4 DEF Governed, AdminRemains, TokensHaveLogins, admins, Exists
    <3>2. ASSUME NEW r \in Reqs, NEW u \in Names, NEW via, NEW c, Identify(r, u, via, c)
          PROVE  Fresh'
      <4>1. req'[r].me = u /\ req'[r].role = users[u].role /\ \A q \in Reqs : q = r
        BY <2>1, <3>2 DEF AuthTypeOK, Identify
      <4> QED
        BY <2>4, <4>1 DEF Current, me
    <3>3. ASSUME NEW r \in Reqs, req'[r].st # "authed" PROVE Fresh'
      BY <3>3 DEF Current, IsAuthed
    <3>4. ASSUME UNCHANGED authVars PROVE Fresh'
      BY <3>4 DEF authVars, Current, IsAuthed, me
    <3>5. ASSUME NEW r \in Reqs, \/ \E u \in Names : LoginCheck(r, u)
                                \/ StartSession(r)
                                \/ Handler(r)
          PROVE  Fresh'
      <4>1. req'[r].st # "authed"
        <5>1. CASE \E u \in Names : LoginCheck(r, u)
          BY <2>1, <5>1 DEF AuthTypeOK, LoginCheck, NoRequest
        <5>2. CASE StartSession(r)
          BY <2>1, <5>2 DEF AuthTypeOK, StartSession, NoRequest
        <5>3. CASE Handler(r)
          BY <2>1, <5>3, HandlerEnds DEF AuthTypeOK, Done, NoRequest
        <5> QED
          BY <3>5, <5>1, <5>2, <5>3
      <4> QED
        BY <3>3, <4>1
    <3>6. ASSUME NEW r \in Reqs, NEW c \in cookies, IdentifySession(r, c) PROVE Fresh'
      <4>1. c.user \in Names
        BY <2>1 DEF AuthTypeOK, Cookie
      <4> QED
        BY <3>2, <3>6, <4>1 DEF IdentifySession
    <3>7. ASSUME NEW r \in Reqs, NEW t \in tokens, IdentifyToken(r, t) PROVE Fresh'
      <4>1. t.user \in Names
        BY <2>1 DEF AuthTypeOK, Token
      <4> QED
        BY <3>2, <3>7, <4>1 DEF IdentifyToken
    <3> HIDE DEF Fresh
    <3> QED
      BY <3>1, <3>4, <3>5, <3>6, <3>7 DEF AuthNext
  <2> QED
    BY <2>1, <2>2, <2>3, <2>4, StepKinds
<1> QED
  BY <1>1, <1>2, AInvInit, GovernedInit, PTL DEF Governed, AuthSpec
=============================================================================
