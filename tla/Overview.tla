------------------------------- MODULE Overview ------------------------------
(***************************************************************************)
(* What is shown of a built fleet: the health list of a host without its   *)
(* acknowledged conditions, the colour of its tile on the wallboard, and   *)
(* the rollup in the header, for the hosts inside the reader's tag scope.  *)
(*                                                                         *)
(* A host's envelope is abstracted to what these functions ask of it: its  *)
(* faults are conditions of warning or worse; those in Raw are also read   *)
(* by the rollup from the envelope itself.                                 *)
(***************************************************************************)
EXTENDS Lists, FiniteSets

CONSTANTS Raw,                   \* alerts, services, pools, stale, checks
          Other,                 \* the conditions only host_conditions knows
          Unscoped, Dangling     \* user_scope's None; a preset that is gone

\* neither is the empty set of tags
ASSUME OverviewAssumption == Unscoped # {} /\ Dangling # {}

\* up: "ok", or why not: "await" for the first poll, "down"
Outage == "unreachable"
Plain == [disabled |-> FALSE, up |-> "ok", faults |-> {}, acks |-> {}, hot |-> {},
          exempt |-> FALSE, tags |-> {}]

\* host_conditions and health_entries: the keys of warning or worse
health_entries(env) ==
  IF env.disabled \/ env.up = "await" THEN {}
  ELSE IF env.up = "down" THEN {Outage}
  ELSE env.faults

\* split_acked; a host without entries carries neither list
health(env) == health_entries(env) \ env.acks
health_acked(env) == health_entries(env) \cap env.acks

-----------------------------------------------------------------------------
Amber(env) == "cpu" \in env.hot \/ "storage" \in env.hot \/ ("mem" \in env.hot /\ ~env.exempt)

board_state(env) ==
  IF env.disabled THEN "grey"
  ELSE CASE env.up = "await" -> "amber"
         [] env.up = "down"  -> IF health_acked(env) # {} /\ health(env) = {} THEN "amber" ELSE "red"
         [] OTHER            -> IF health(env) # {} THEN "red" ELSE IF Amber(env) THEN "amber" ELSE "green"

\* Mutant: an acknowledged fault still counts.
degraded_Raw(env) == env.faults \cap Raw # {}
\* compute_rollup: the health list if the envelope carries one, else the raw facts
degraded(env) == IF health(env) # {} \/ health_acked(env) # {} THEN health(env) # {}
                 ELSE env.faults \cap Raw # {}

Count(fleet, Test(_)) == Cardinality({i \in DOMAIN fleet : Test(fleet[i])})
compute_rollup(fleet) ==
  [total       |-> Len(fleet),
   disabled    |-> Count(fleet, LAMBDA e : e.disabled),
   unreachable |-> Count(fleet, LAMBDA e : ~e.disabled /\ e.up # "ok"),
   healthy     |-> Count(fleet, LAMBDA e : ~e.disabled /\ e.up = "ok"),
   degraded    |-> Count(fleet, LAMBDA e : ~e.disabled /\ e.up = "ok" /\ degraded(e))]

\* user_scope, on a record with literal tags or a preset (a set)
user_scope(role, preset, tags) ==
  IF role = "admin" THEN Unscoped
  ELSE IF preset = Dangling THEN {}
  ELSE LET own == IF preset # Unscoped THEN preset ELSE tags
       IN  IF own = {} THEN Unscoped ELSE own

scope_allows(scope, env) == scope = Unscoped \/ scope \cap env.tags # {}
scoped_fleet(fleet, scope) ==
  Selected(Len(fleet), {i \in DOMAIN fleet : scope_allows(scope, fleet[i])}, fleet)

\* what a reader is sent of a fleet
overview(fleet, role, preset, tags) ==
  LET shown == scoped_fleet(fleet, user_scope(role, preset, tags))
  IN  [rollup |-> compute_rollup(shown), shown |-> shown,
       tiles |-> [i \in DOMAIN shown |-> board_state(shown[i])]]

-----------------------------------------------------------------------------
\* the tiles of one colour, of the hosts that answer or of those that do not
Tiled(view, colour, up) ==
  {i \in DOMAIN view.tiles : view.tiles[i] = colour /\ (view.shown[i].up = "ok") = up}

(* Header and wallboard are computed apart and tell one story: every red   *)
(* tile is counted as degraded or unreachable, and every host counted so   *)
(* is red, unless it awaits its first poll or its outage is acknowledged.  *)
(* A reader with a scope is told of no host outside it.                    *)
Consistent(view, role, preset) ==
  LET r == view.rollup
      tiles(colour, up) == Cardinality(Tiled(view, colour, up))
  IN  /\ r.degraded = tiles("red", TRUE)
      /\ r.unreachable = tiles("red", FALSE) + tiles("amber", FALSE)
      /\ r.disabled = tiles("grey", TRUE) + tiles("grey", FALSE)
      /\ r.healthy + r.unreachable + r.disabled = r.total
      /\ (role # "admin" /\ preset # Unscoped) =>
           \A i \in DOMAIN view.shown :
             preset # Dangling /\ preset \cap view.shown[i].tags # {}
=============================================================================
