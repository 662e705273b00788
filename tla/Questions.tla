------------------------------ MODULE Questions ------------------------------
(***************************************************************************)
(* The pure functions of the program, asked one question each behaviour:   *)
(* Init draws any question of the bounded sets, an action computes what the*)
(* code would return.                                                      *)
(***************************************************************************)
EXTENDS Ed25519, Trends, Overview

CONSTANTS Instants, Levels, Buckets, Size

ASSUME QuestionsAssumption ==
  Instants \subseteq Nat /\ Levels \subseteq Int /\ Buckets \subseteq Nat \ {0} /\ Size \in Nat

VARIABLES topic,                 \* the function asked
          query, answer
questionVars == <<topic, query, answer>>

\* scalars up to 2 Order; the hash is reduced by the code
SignatureQueries == [pub : Encoding, r : Encoding, s : 0 .. 2 * Order - 1, hash : 0 .. Order - 1]

Rows == Instants \X (Levels \cup {NoValue})
SampleQueries == [rows : UNION {[1 .. n -> Rows] : n \in 0 .. 3}, buckets : Buckets]
\* what is used now: not known, or more than there is
CapacityQueries == [rows : [1 .. 4 -> Rows], used_now : {NoValue, Size + 1}]

Ok == [disabled : {FALSE}, up : {"ok"}, faults : SUBSET (Raw \cup Other),
       acks : SUBSET (Raw \cup Other), hot : SUBSET {"cpu", "mem"}, exempt : BOOLEAN,
       tags : {{"t1"}}]
NotOk == [disabled : BOOLEAN, up : {"await", "down"}, faults : SUBSET Raw,
          acks : SUBSET (Raw \cup {Outage}), hot : {{}}, exempt : {FALSE}, tags : {{"t1"}}]
Down == [Plain EXCEPT !.up = "down"]
Second == {[e EXCEPT !.tags = t] : e \in {Plain, Down, [Down EXCEPT !.acks = {Outage}]},
                                   t \in {{}, {"t1"}, {"t2"}}}
FleetQueries == [fleet : {<<e, f>> : e \in Ok \cup NotOk, f \in Second},
                 role : {"admin", "viewer"}, preset : {Unscoped, Dangling, {"t1"}},
                 tags : {{}, {"t2"}}]

QuestionsInit ==
  /\ answer = <<>>
  /\ \/ topic = "signature" /\ query \in SignatureQueries
     \/ topic = "samples" /\ query \in SampleQueries
     \/ topic = "capacity" /\ query \in CapacityQueries
     \/ topic = "overview" /\ query \in FleetQueries

Verify == /\ topic = "signature"
          /\ answer' = <<verify(query.pub, query.r, query.s, query.hash)>>
Downsample == /\ topic = "samples"
              /\ answer' = <<downsample(query.rows, query.buckets)>>
Forecast == /\ topic = "capacity"
            /\ answer' = <<forecast_capacity(query.rows, Size, query.used_now)>>
Show == /\ topic = "overview"
        /\ answer' = <<overview(query.fleet, query.role, query.preset, query.tags)>>

QuestionsNext ==
  /\ answer = <<>>
  /\ Verify \/ Downsample \/ Forecast \/ Show
  /\ UNCHANGED <<topic, query>>

QuestionsSpec == QuestionsInit /\ [][QuestionsNext]_questionVars

-----------------------------------------------------------------------------
Answered(p) == topic = p /\ answer # <<>>
Got == answer[1]

(* The verifier accepts exactly the signatures that satisfy the equation   *)
(* of RFC 8032 in the curve's group: projective arithmetic, double-and-add *)
(* and the square root compute the group law, and an encoding that names   *)
(* no point, by its size, its sign or its y, is refused.  So a signature   *)
(* cannot be turned into another one: of all scalars that satisfy the      *)
(* equation only the least is accepted.                                    *)
VerifiesEquation ==
  Answered("signature") => (Got <=> Valid(query.pub, query.r, query.s, query.hash))

(* What the history pages show agrees with its reference: downsample loses *)
(* and invents no sample (Conserved), forecast_capacity gives the least-   *)
(* squares slope and never the wrong trend (SoundForecast).                *)
TrendsSound ==
  /\ Answered("samples") => Conserved(query.rows, query.buckets, Got)
  /\ Answered("capacity") => SoundForecast(query.rows, Got)

(* Header, wallboard and scope, as Consistent has it, of what is shown.     *)
OverviewConsistent ==
  Answered("overview") => Consistent(Got, query.role, query.preset)
=============================================================================
