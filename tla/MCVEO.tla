-------------------------------- MODULE MCVEO --------------------------------
(***************************************************************************)
(* The two builds of the query programs: the adaptive order of VEO and the *)
(* static one of SimpleOrder.  A behaviour is one of either; the other     *)
(* module's variables rest at values that no action leaves.                *)
(*                                                                         *)
(* Queries of up to four variables: three patterns in a row closed by a    *)
(* comparison, a comparison of edges, a variable compared with itself, and *)
(* one without any shared variable.  The static order also gets two parts  *)
(* that nothing connects, an edge compared with a node, and a variable     *)
(* that no pattern has.                                                    *)
(***************************************************************************)
EXTENDS VEO, SimpleOrder, TLC

ASSUME StaticAssumption == StaticConstants

Profile(n, nodes, lonely, joined) ==
  [vars |-> 1 .. n, nodes |-> nodes, lonely |-> lonely,
   related |-> [v \in 1 .. n |-> {w \in 1 .. n : <<v, w>> \in joined \/ <<w, v>> \in joined}]]

MCProfiles ==
  {Profile(4, {1, 2, 3}, {4}, {<<1, 2>>, <<2, 3>>, <<1, 3>>}),
   Profile(4, {2}, {4}, {<<1, 3>>, <<2, 2>>}),
   Profile(4, {1, 3}, {1, 2}, {<<3, 4>>}),
   Profile(3, {1, 3}, {1, 2, 3}, {})}

MCReported == {1, 2, 5}       \* one half, 1 and 2.5

Query(n, iterated, nodes, once, pairs, compared) ==
  [vars |-> 1 .. n, iterated |-> iterated, nodes |-> nodes, once |-> once,
   pairs |-> pairs, compared |-> compared]

MCQueries ==
  {Query(4, 1 .. 4, {1, 2, 3}, {4}, {<<1, 2>>, <<2, 3>>}, {<<1, 3>>, <<2, 4>>}),
   Query(5, 1 .. 5, 1 .. 4, {}, {<<1, 3>>, <<2, 4>>}, {<<5, 3>>}),
   Query(4, 1 .. 4, {1, 2}, {1, 3}, {<<1, 2>>}, {<<2, 4>>, <<4, 4>>}),
   Query(4, 1 .. 4, {1, 3}, {1, 2, 3, 4}, {<<1, 3>>}, {}),
   Query(3, {1, 2}, {1, 2, 3}, {1}, {<<1, 2>>}, {<<2, 3>>})}

StaticRests ==
  /\ query = 0 /\ weights = 0 /\ aux = <<>> /\ checked = {} /\ heap = {} /\ m_order = <<>>
  /\ i = 0 /\ index = 0 /\ given = <<>> /\ at = "idle"

AdaptiveRests ==
  /\ profile = CHOOSE p \in Profiles : TRUE
  /\ is_bound = [v \in NotLonely |-> FALSE] /\ weight = [v \in NotLonely |-> 0]
  /\ m_index = 0 /\ m_bound = <<>> /\ m_versions = <<>> /\ order = <<>> /\ saved = <<>>
  /\ pc = "done"

MCInit == (Init /\ StaticRests) \/ (AdaptiveRests /\ SInit)

MCNext ==
  \/ Next /\ UNCHANGED svars
  \/ SNext /\ UNCHANGED vars

MCSpec == MCInit /\ [][MCNext]_<<vars, svars>>
=============================================================================
