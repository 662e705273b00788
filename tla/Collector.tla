------------------------------ MODULE Collector ------------------------------
(***************************************************************************)
(* How the collectors talk to an appliance: log in, read, and keep the     *)
(* session for the next poll.  The poller and the probes of enroll / edit  *)
(* requests run the same conversation and share the cache of sessions; the *)
(* appliance drops sessions at will, changes its password, fails calls.    *)
(*                                                                         *)
(* The kinds of appliance differ in the reads whose failure is tolerated   *)
(* and in whether the session is kept.  A run of calls with the same       *)
(* consequences is one step: the calls of a login; the reads that must     *)
(* succeed; those a poll can do without if the call fails (extra) or       *)
(* whatever happens (any).  One host, whose address and user name do not   *)
(* change: a session key is the password.  What the answers say is left    *)
(* out.                                                                    *)
(***************************************************************************)
EXTENDS Naturals, Sequences, FiniteSets

CONSTANTS Poller, Probes,        \* the conversations: threads
          Passwords, Sids, NoSid, Dropped

Conversations == Probes \cup {Poller}

\* there is always a session that nobody holds yet
ASSUME CollectorAssumption ==
  /\ Poller \notin Probes /\ Passwords # {} /\ {NoSid, Dropped} \cap Sids = {}
  /\ IsFiniteSet(Probes) /\ IsFiniteSet(Passwords) /\ IsFiniteSet(Sids)
  /\ Cardinality(Sids) > Cardinality(Passwords) + Cardinality(Probes)

\* discovery, login; system, utilization, storage; services if they answer
synology == [reads |-> <<"must", "extra">>, kept |-> TRUE]
\* RSA key, login; machine, statistics, pools, disks
ugreen   == [reads |-> <<"must">>, kept |-> TRUE]
\* login with role; information, file systems; RAID, SMART, services if they answer
omv      == [reads |-> <<"must", "extra">>, kept |-> TRUE]
\* login, page with the token; one query
unraid   == [reads |-> <<"must">>, kept |-> TRUE]
\* login; utilization, storages, RAID, disks
zimaos   == [reads |-> <<"must">>, kept |-> FALSE]
\* socket, key; information, pools; disks, alerts, services, graphs whatever happens
truenas  == [reads |-> <<"must", "any">>, kept |-> FALSE]

Kinds == {synology, ugreen, omv, unraid, zimaos, truenas}

VARIABLES kind,                  \* of the appliance
          right,                 \* the password the appliance takes
          steady,                \* it has stopped failing and dropping
          savedPw,               \* the password in the registry
          sessions,              \* _sessions: session key -> session
          conv,                  \* the conversations
          everRight              \* history: passwords it took at some time
collectorVars == <<kind, right, steady, savedPw, sessions, conv, everRight>>

Quiet == [pc |-> "idle", pw |-> CHOOSE p \in Passwords : TRUE, sid |-> NoSid,
          fresh |-> FALSE, at |-> 1, calm |-> FALSE]

CollectorTypeOK ==
  /\ kind \in Kinds /\ right \in Passwords
  /\ steady \in BOOLEAN /\ savedPw \in Passwords
  /\ sessions \in [Passwords -> Sids \cup {NoSid, Dropped}]
  /\ conv \in [Conversations -> [pc : {"idle", "login", "read", "ok", "failed"},
                pw : Passwords, sid : Sids \cup {NoSid, Dropped}, fresh : BOOLEAN,
                at : 1 .. 3, calm : BOOLEAN]]
  /\ everRight \subseteq Passwords /\ right \in everRight
  /\ kind.kept \/ \A p \in Passwords : sessions[p] = NoSid

CollectorInit ==
  /\ kind \in Kinds /\ right \in Passwords /\ savedPw = right /\ everRight = {right}
  /\ steady = FALSE
  /\ sessions = [p \in Passwords |-> NoSid]
  /\ conv = [c \in Conversations |-> Quiet]

-----------------------------------------------------------------------------
session_key_ByHost(pw) == CHOOSE p \in Passwords : TRUE
session_key(pw) == pw

\* collect_metrics: the cached session, if there is one, else a login
Begin(c, pw) ==
  LET key == session_key(pw)
      hit == kind.kept /\ sessions[key] # NoSid
  IN  /\ conv[c].pc = "idle"
      /\ conv' = [conv EXCEPT ![c] = [pc |-> IF hit THEN "read" ELSE "login", pw |-> pw,
                                      sid |-> IF hit THEN sessions[key] ELSE NoSid,
                                      fresh |-> ~hit, at |-> 1,
                                      calm |-> steady /\ pw = right]]
      /\ UNCHANGED <<kind, right, steady, savedPw, sessions, everRight>>

\* VirtAdapter.collect and VirtAdapter.probe
Poll == Begin(Poller, savedPw)
Probe(c) == \E pw \in Passwords : Begin(c, pw)

Ends(c, result) == conv' = [conv EXCEPT ![c].pc = result, ![c].sid = NoSid, ![c].at = 1]
\* the sessions somebody presents; one the appliance has dropped loses its name
Held == {sessions[p] : p \in Passwords} \cup {conv[c].sid : c \in Conversations}

\* a call fails, or the password is refused, or there is a new session
Login(c) ==
  /\ conv[c].pc = "login"
  /\ \/ /\ ~steady \/ conv[c].pw # right
        /\ Ends(c, "failed")
     \/ LET s == CHOOSE s \in Sids \ Held : TRUE
        IN  /\ conv[c].pw = right
            /\ conv' = [conv EXCEPT ![c].pc = "read", ![c].sid = s,
                                    ![c].fresh = TRUE, ![c].at = 1]
  /\ UNCHANGED <<kind, right, steady, savedPw, sessions, everRight>>

\* the appliance does not know the session: PermissionError.  A kept session
\* gives way to a fresh login, a fresh one fails the conversation.
Rejected_Fails(c) == Ends(c, "failed")
Rejected(c) ==
  IF conv[c].fresh THEN Ends(c, "failed")
  ELSE conv' = [conv EXCEPT ![c].pc = "login", ![c].at = 1, ![c].sid = NoSid]

Read(c) ==
  LET sort == kind.reads[conv[c].at]
      lost == conv[c].sid = Dropped
      goOn == conv' = [conv EXCEPT ![c].at = @ + 1]
  IN  /\ conv[c].pc = "read" /\ conv[c].at <= Len(kind.reads)
      /\ \/ ~lost /\ goOn
         \/ lost /\ sort # "any" /\ Rejected(c)
         \/ lost /\ sort = "any" /\ goOn
         \/ ~steady /\ sort = "must" /\ Ends(c, "failed")
         \/ ~steady /\ sort # "must" /\ goOn
      /\ UNCHANGED <<kind, right, steady, savedPw, sessions, everRight>>

Keeps_Always(c) == conv[c].fresh
Keeps(c) == conv[c].fresh /\ kind.kept

\* all reads done: keep a fresh session and return
Finish(c) ==
  /\ conv[c].pc = "read" /\ conv[c].at > Len(kind.reads)
  /\ sessions' = IF Keeps(c)
                 THEN [sessions EXCEPT ![session_key(conv[c].pw)] = conv[c].sid]
                 ELSE sessions
  /\ Ends(c, "ok")
  /\ UNCHANGED <<kind, right, steady, savedPw, everRight>>

\* the caller takes the result: an edit stores the password its probe proved
Answer(c) ==
  /\ conv[c].pc \in {"ok", "failed"}
  /\ savedPw' = IF c \in Probes /\ conv[c].pc = "ok" THEN conv[c].pw ELSE savedPw
  /\ conv' = [conv EXCEPT ![c] = Quiet]
  /\ UNCHANGED <<kind, right, steady, sessions, everRight>>

\* external: the appliance
Recycle(s) ==
  LET Known(sid) == IF sid = s THEN Dropped ELSE sid
  IN  /\ ~steady /\ s \in Held
      /\ sessions' = [p \in Passwords |-> Known(sessions[p])]
      /\ conv' = [c \in Conversations |-> [conv[c] EXCEPT !.sid = Known(@)]]
      /\ UNCHANGED <<kind, right, steady, savedPw, everRight>>
SetPassword(p) ==
  /\ ~steady /\ p # right
  /\ right' = p /\ everRight' = everRight \cup {p}
  /\ UNCHANGED <<kind, steady, savedPw, sessions, conv>>
Settle ==
  /\ ~steady /\ steady' = TRUE
  /\ UNCHANGED <<kind, right, savedPw, sessions, conv, everRight>>

CollectorNext ==
  \/ Poll \/ Settle
  \/ \E c \in Probes : Probe(c)
  \/ \E c \in Conversations : Login(c) \/ Read(c) \/ Finish(c) \/ Answer(c)
  \/ \E s \in Sids : Recycle(s)
  \/ \E p \in Passwords : SetPassword(p)

CollectorSpec == CollectorInit /\ [][CollectorNext]_collectorVars

-----------------------------------------------------------------------------
(* The registry holds no password the appliance has never taken: a probe   *)
(* with a wrong one must not pass on the session of another password.      *)
SavedWasRight == savedPw \in everRight

(* A conversation that begins with the right password while the appliance  *)
(* is well succeeds, whatever stale session the cache holds from before.   *)
CalmPollsSucceed == \A c \in Conversations : conv[c].calm => conv[c].pc # "failed"
=============================================================================
