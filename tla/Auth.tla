--------------------------------- MODULE Auth ---------------------------------
(***************************************************************************)
(* Controller logins: the user records, API tokens and scope presets of    *)
(* the auth file, the signed session cookies handed to browsers, and the   *)
(* requests that use them.  Every handler changes the file in one          *)
(* _CFG_LOCK section, so it is one action; but a request is authorised by  *)
(* require_login before, from reads of its own, and what those reads found *)
(* may be stale when the handler runs.  That gap is what is modelled.  The  *)
(* filtering of answers by tag scope is not; the binding of logins to      *)
(* scope presets is.                                                       *)
(*                                                                         *)
(* A request may bring an API token and a cookie: then the token names the *)
(* caller and nobody looks at the cookie, until a handler does.            *)
(*                                                                         *)
(* Records and cookies carry history fields the code does not have: `inc`, *)
(* the incarnation of the login under that name, `pwv`, the version of its *)
(* password, and `revived`, the cookie was stamped anew when it was not    *)
(* the caller's current session.                                           *)
(***************************************************************************)
EXTENDS Integers, FiniteSets

CONSTANTS
    Names,      \* login names
    Admin0,     \* the bootstrap administrator
    Presets,    \* names of scope presets
    Fleet,      \* scope of a record without one: the whole fleet
    Tags,       \* scope by literal tags
    Reqs,       \* request threads
    MaxGen,     \* bound on session generations and password versions
    MaxInc,     \* bound on incarnations of a name
    MaxCookies, \* bound on cookies ever issued
    MaxTokens   \* bound on API tokens alive

ASSUME AuthAssumption ==
    /\ Admin0 \in Names
    /\ Fleet \notin Presets /\ Tags \notin Presets /\ Fleet # Tags
    /\ MaxGen \in Nat /\ MaxInc \in Nat /\ MaxCookies \in Nat /\ MaxTokens \in Nat

VARIABLES
    users,      \* auth file: users; role "none": no such login
    tokens,     \* auth file: api_tokens, as [user, n]
    presets,    \* auth file: scope_presets
    cookies,    \* every session cookie issued so far (logout deletes no copy)
    req         \* the request each thread is serving

authVars == <<users, tokens, presets, cookies, req>>

Role   == {"admin", "user"}     \* "user": operator or viewer, alike to these handlers
Scope  == Presets \cup {Fleet, Tags}
UserRecord == [role : Role \cup {"none"}, gen : 0..MaxGen, scope : Scope,
               inc : 0..MaxInc, pwv : 0..MaxGen]
Cookie == [user : Names, gen : 0..MaxGen, inc : 0..MaxInc, pwv : 0..MaxGen,
           revived : BOOLEAN]
Token  == [user : Names, n : 1..MaxTokens]

\* A thread is free, has checked a password ("login"), or is past require_login
\* ("authed"): g.identity_name, the role it found, how the caller was identified,
\* and the cookie in the request ("token": none).
Request == [st : {"free", "login", "authed"}, me : Names, role : Role,
            via : {"session", "token", "both"}, cookie : Cookie]

me(r) == req[r].me
HasCookie(r) == req[r].via # "token"
Exists(u) == users[u].role # "none"
admins == {u \in Names : users[u].role = "admin"}
Stamp(u, rec) == [user |-> u, gen |-> rec.gen, inc |-> rec.inc, pwv |-> rec.pwv,
                  revived |-> FALSE]
CookieOf(u) == Stamp(u, users[u])

NoCookie == [user |-> Admin0, gen |-> 0, inc |-> 0, pwv |-> 0, revived |-> FALSE]
NoRequest == [st |-> "free", me |-> Admin0, role |-> "user", via |-> "session",
              cookie |-> NoCookie]

\* ensure_bootstrap: one administrator.
AuthInit ==
    /\ users = [u \in Names |->
                  [role |-> IF u = Admin0 THEN "admin" ELSE "none",
                   gen |-> 0, scope |-> Fleet, inc |-> 0, pwv |-> 0]]
    /\ tokens = {}
    /\ presets = {}
    /\ cookies = {}
    /\ req = [r \in Reqs |-> NoRequest]
-----------------------------------------------------------------------------
(* From a request to an identity *)

\* api_login / sso_callback read the record and judge the credential ...
LoginCheck(r, u) ==
    /\ req[r].st = "free"
    /\ Exists(u)
    /\ req' = [req EXCEPT ![r] = [NoRequest EXCEPT !.st = "login", !.cookie = CookieOf(u)]]
    /\ UNCHANGED <<users, tokens, presets, cookies>>

\* ... and _start_session stamps the cookie from the record that was read.
StartSession(r) ==
    /\ req[r].st = "login"
    /\ Cardinality(cookies) < MaxCookies
    /\ cookies' = cookies \cup {req[r].cookie}
    /\ req' = [req EXCEPT ![r] = NoRequest]
    /\ UNCHANGED <<users, tokens, presets>>

\* _resolve_identity on a session: the login exists and its generation matches.
Accepts(c) == Exists(c.user) /\ c.gen = users[c.user].gen

Identify(r, u, via, c) ==
    /\ req' = [req EXCEPT ![r] = [st |-> "authed", me |-> u, role |-> users[u].role,
                                  via |-> via, cookie |-> c]]
    /\ UNCHANGED <<users, tokens, presets, cookies>>

IdentifySession(r, c) ==
    /\ req[r].st = "free"
    /\ Accepts(c)
    /\ Identify(r, c.user, "session", c)

\* _resolve_token: the login a token was minted for must exist, by its name.  A
\* cookie beside the token, any one issued so far, is not looked at.
IdentifyToken(r, t) ==
    /\ req[r].st = "free"
    /\ Exists(t.user)
    /\ \/ Identify(r, t.user, "token", NoCookie)
       \/ \E c \in cookies : Identify(r, t.user, "both", c)
-----------------------------------------------------------------------------
(* Handlers *)

Done(r) == req' = [req EXCEPT ![r] = NoRequest]
IsAuthed(r) == req[r].st = "authed"
IsAdmin(r) == IsAuthed(r) /\ req[r].role = "admin"

\* A read, a refused request, a logout: nothing of this state changes.
Respond(r) ==
    /\ IsAuthed(r)
    /\ Done(r)
    /\ UNCHANGED <<users, tokens, presets, cookies>>

\* A scope the caller may set: a preset must exist, an admin record has none.
SettableScope(role) == IF role = "admin" THEN {Fleet} ELSE presets \cup {Fleet, Tags}

UsersAdd(r, u, role, scope) ==
    /\ IsAdmin(r)
    /\ ~Exists(u)
    /\ scope \in SettableScope(role)
    /\ users[u].inc < MaxInc
    /\ users' = [users EXCEPT ![u] = [role |-> role, gen |-> 0, scope |-> scope,
                                      inc |-> users[u].inc + 1, pwv |-> 0]]
    /\ Done(r)
    /\ UNCHANGED <<tokens, presets, cookies>>

\* session['gen'] = the new generation.  The caller's current session goes on as
\* a session of the record as changed; any other cookie, of an earlier password
\* or of another login, gets the generation all the same.
Restamp(c, u, rec) ==
    IF c = CookieOf(u) THEN Stamp(u, rec) ELSE [c EXCEPT !.gen = rec.gen, !.revived = TRUE]

\* Nobody gives up his own admin role.
MayGiveRole(r, u, role) == ~(u = me(r) /\ role # "admin")

\* Mutant: the generation runs backwards.
UpdateGen_Down(gen, reset, revoke) == gen - (IF reset \/ revoke THEN 1 ELSE 0)

\* Mutant: a password reset leaves the generation alone.
UpdateGen_NoBump(gen, reset, revoke) == gen + (IF revoke THEN 1 ELSE 0)

\* _bump_session_gen, once per reason.
UpdateGen(gen, reset, revoke) ==
    gen + (IF reset THEN 1 ELSE 0) + (IF revoke THEN 1 ELSE 0)

UsersUpdate(r, u, role, scope, reset, revoke) ==
    LET old == users[u]
        rec == [old EXCEPT !.role = role, !.scope = scope,
                           !.gen = UpdateGen(old.gen, reset, revoke),
                           !.pwv = IF reset THEN old.pwv + 1 ELSE old.pwv]
    IN  /\ IsAdmin(r)
        /\ Exists(u)
        /\ role # old.role => MayGiveRole(r, u, role)
        /\ scope # old.scope => scope \in SettableScope(role)
        /\ rec.gen <= MaxGen /\ rec.pwv <= MaxGen
        /\ users' = [users EXCEPT ![u] = rec]
        /\ cookies' = IF u = me(r) /\ HasCookie(r)
                      THEN cookies \cup {Restamp(req[r].cookie, u, rec)} ELSE cookies
        /\ Cardinality(cookies') <= MaxCookies
        /\ Done(r)
        /\ UNCHANGED <<tokens, presets>>

\* change_password: of the login the cookie names, its old password checked under
\* the lock; every session ends but the one that gave the password.
ChangePassword(r) ==
    LET u   == req[r].cookie.user
        rec == [users[u] EXCEPT !.gen = @ + 1, !.pwv = @ + 1]
    IN  /\ IsAuthed(r) /\ HasCookie(r)
        /\ Exists(u)
        /\ rec.gen <= MaxGen /\ rec.pwv <= MaxGen
        /\ users' = [users EXCEPT ![u] = rec]
        /\ cookies' = cookies \cup {Stamp(u, rec)}
        /\ Cardinality(cookies') <= MaxCookies
        /\ Done(r)
        /\ UNCHANGED <<tokens, presets>>

MayDelete(u) == Exists(u) /\ (users[u].role = "admin" => Cardinality(admins) > 1)

TokensWithout(u) == {t \in tokens : t.user # u}

UsersDelete(r, u) ==
    /\ IsAdmin(r)
    /\ u # me(r)
    /\ MayDelete(u)
    /\ users' = [users EXCEPT ![u] = [@ EXCEPT !.role = "none", !.gen = 0,
                                                !.scope = Fleet, !.pwv = 0]]
    /\ tokens' = TokensWithout(u)
    /\ Done(r)
    /\ UNCHANGED <<presets, cookies>>

TokensCreate(r) ==
    /\ IsAuthed(r) /\ req[r].via = "session"
    /\ \E n \in 1..MaxTokens :
         /\ \A t \in tokens : t.n # n
         /\ tokens' = tokens \cup {[user |-> me(r), n |-> n]}
    /\ Done(r)
    /\ UNCHANGED <<users, presets, cookies>>

TokensDelete(r, t) ==
    /\ IsAuthed(r)
    /\ t.user = me(r) \/ req[r].role = "admin"
    /\ tokens' = tokens \ {t}
    /\ Done(r)
    /\ UNCHANGED <<users, presets, cookies>>

ScopePresetsSave(r, p) ==
    /\ IsAdmin(r)
    /\ presets' = presets \cup {p}
    /\ Done(r)
    /\ UNCHANGED <<users, tokens, cookies>>

\* Mutant: a preset in use can be deleted.
Holders_None(p) == {u \in Names : FALSE}

Holders(p) == {u \in Names : Exists(u) /\ users[u].scope = p}

ScopePresetsDelete(r, p) ==
    /\ IsAdmin(r)
    /\ p \in presets
    /\ Holders(p) = {}
    /\ presets' = presets \ {p}
    /\ Done(r)
    /\ UNCHANGED <<users, tokens, cookies>>

Handler(r) ==
    \/ Respond(r)
    \/ ChangePassword(r)
    \/ TokensCreate(r)
    \/ \E t \in tokens : TokensDelete(r, t)
    \/ \E p \in Presets : ScopePresetsSave(r, p) \/ ScopePresetsDelete(r, p)
    \/ \E u \in Names :
         \/ UsersDelete(r, u)
         \/ \E role \in Role, scope \in Scope :
              \/ UsersAdd(r, u, role, scope)
              \/ \E reset, revoke \in BOOLEAN : UsersUpdate(r, u, role, scope, reset, revoke)

AuthNext ==
    \E r \in Reqs :
        \/ \E u \in Names : LoginCheck(r, u)
        \/ StartSession(r)
        \/ \E c \in cookies : IdentifySession(r, c)
        \/ \E t \in tokens : IdentifyToken(r, t)
        \/ Handler(r)

AuthSpec == AuthInit /\ [][AuthNext]_authVars
-----------------------------------------------------------------------------
(* Properties *)

\* Every variable has its type: generations and incarnations never leave their
\* range, whatever requests overlap.
AuthTypeOK ==
    /\ users \in [Names -> UserRecord]
    /\ tokens \subseteq Token
    /\ presets \subseteq Presets
    /\ cookies \subseteq Cookie
    /\ req \in [Reqs -> Request]

\* No login refers to a preset that does not exist: scope_presets_delete is
\* refused while the preset is in use, "so a scoped account can never silently
\* lose (or gain) access", whatever edits of logins overlap with it.
PresetsNeverDangle ==
    \A u \in Names : Exists(u) /\ users[u].scope \in Presets => users[u].scope \in presets

\* An accepted cookie of the login it was issued to is of its current password.
FollowsPassword(c) ==
    Accepts(c) /\ c.inc = users[c.user].inc => c.pwv = users[c.user].pwv

\* A password change ends the sessions begun under the old one, also when it comes
\* between a login's password check and its _start_session, and whatever tokens,
\* edits and deletions overlap with it; a stolen cookie comes back to life only if
\* _users_update_locked stamps it anew in a request of the login's own.
SessionsFollowPassword == \A c \in cookies : ~c.revived => FollowsPassword(c)

\* README: "a password change ends all the others", of the sessions of a login.
PasswordChangeEndsSessions == \A c \in cookies : FollowsPassword(c)

\* users_delete: "Can't delete yourself or the last admin"; _users_update_locked:
\* "Don't let the last admin demote themselves out of admin access".  Some login
\* is always an administrator.
AdminRemains == admins # {}
=============================================================================
