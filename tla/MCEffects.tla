----------------------------- MODULE MCEffects ------------------------------
(* Three effects in a row: keyed by attempt and reversible, idempotent and *)
(* reversible, non-idempotent.  The run may be cancelled at any moment.    *)
EXTENDS GraphWorker, TLC
CONSTANTS w1, w2, id

MCDef ==
  [nodes |-> 1..3,
   kind |-> [n \in 1..3 |-> "effect"],
   pred |-> [n \in 1..3 |-> {n - 1} \ {0}],
   idem |-> <<"keyed", "idempotent", "non_idempotent">>,
   keySource |-> [n \in 1..3 |-> "run_node_attempt"],
   reversible |-> {1, 2},
   wall |-> [n \in 1..3 |-> 1],
   runWall |-> 0,
   regions |-> {},
   fails |-> <<{"unsafe_effect"}, {}, {"unsafe_effect"}>>,
   reports |-> [n \in 1..3 |-> {NoControl}]]

SharedId == [w \in Workers |-> id]
Sym == Permutations(Workers)
Cancellation == {[kind |-> "cancellation_requested"]}
=============================================================================
