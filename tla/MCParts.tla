------------------------------- MODULE MCParts -------------------------------
(***************************************************************************)
(* Components that share no state: single sign-on, the collectors'         *)
(* sessions, the delivery of events to webhooks, the files that belong     *)
(* together, and the pure functions.  A behaviour moves one; the others    *)
(* stay in one initial state.  Threads are interchangeable, and so are     *)
(* assertions and issuers until an assertion is signed: the first one      *)
(* signed is FirstJti, by FirstIssuer.                                     *)
(***************************************************************************)
EXTENDS Sso, Collector, Delivery, StateFiles, Questions, TLC

VARIABLE part
partVars == <<part, ssoVars, collectorVars, deliveryVars, filesVars,
              questionVars>>

Init ==
  /\ part \in {"sso", "collector", "delivery", "files", "questions"}
  /\ SsoInit /\ CollectorInit /\ DeliveryInit /\ FilesInit
  /\ part # "sso" => env = Off
  /\ part # "collector" => kind = unraid /\ right = CHOOSE p \in Passwords : TRUE
  /\ part # "delivery" => \A h \in Hooks : hooks[h] = [min_severity |-> 1, tags |-> {}]
  /\ part # "files" => disk["auth"] = Missing /\ bundle = NoBundle
  /\ \/ part = "questions" /\ QuestionsInit
     \/ part # "questions" /\ topic = "none" /\ query = <<>> /\ answer = <<>>

FirstJti == CHOOSE j \in Jtis : TRUE
FirstIssuer == CHOOSE i \in Issuers : TRUE
SignedInOrder ==
  (\E j \in Jtis : minted[j].iss # NoOne) => minted[FirstJti].iss = FirstIssuer

Next ==
  /\ UNCHANGED part
  /\ \/ /\ part = "sso" /\ SsoNext /\ SignedInOrder'
        /\ UNCHANGED <<collectorVars, deliveryVars, filesVars, questionVars>>
     \/ /\ part = "collector" /\ CollectorNext
        /\ UNCHANGED <<ssoVars, deliveryVars, filesVars, questionVars>>
     \/ /\ part = "delivery" /\ DeliveryNext
        /\ UNCHANGED <<ssoVars, collectorVars, filesVars, questionVars>>
     \/ /\ part = "files" /\ FilesNext
        /\ UNCHANGED <<ssoVars, collectorVars, deliveryVars, questionVars>>
     \/ /\ part = "questions" /\ QuestionsNext
        /\ UNCHANGED <<ssoVars, collectorVars, deliveryVars, filesVars>>

Spec == Init /\ [][Next]_partVars

Threads == Permutations(Callbacks \cup Jobs)

(* The types of the components that keep state. *)
TypeOK ==
  SsoTypeOK /\ CollectorTypeOK /\ DeliveryTypeOK /\ FilesTypeOK

=============================================================================
