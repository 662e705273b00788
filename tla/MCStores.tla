------------------------------- MODULE MCStores ------------------------------
(***************************************************************************)
(* Two components that share no state here: the logins of the auth file    *)
(* with their sessions, and a JSON state file on disk.  A behaviour moves  *)
(* one of them; the other stays in one initial state.  Threads are         *)
(* interchangeable.                                                        *)
(***************************************************************************)
EXTENDS Auth, JsonFile, TLC

VARIABLE part
vars == <<part, authVars, fileVars>>

Init ==
    /\ part \in {"auth", "file"}
    /\ AuthInit /\ FileInit
    /\ part = "auth" => guarded

Next ==
    /\ UNCHANGED part
    /\ \/ part = "auth" /\ AuthNext /\ UNCHANGED fileVars
       \/ part = "file" /\ FileNext /\ UNCHANGED authVars

Spec == Init /\ [][Next]_vars

Threads == Permutations(Reqs)

(* The types of the two components. *)
TypeOK == AuthTypeOK /\ FileTypeOK
=============================================================================
