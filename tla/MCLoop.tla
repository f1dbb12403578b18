------------------------------- MODULE MCLoop -------------------------------
(* A loop of two nodes that may go round twice, and a node behind it.  The *)
(* first loop node is measured and may be retried; the second says whether *)
(* to go on and whether the invariant held.                                *)
EXTENDS GraphWorker, TLC
CONSTANTS w1, w2, id

Retry == [do |-> "retry", node |-> 1, attempts |-> 1]

MCDef ==
  [nodes |-> 1..3,
   kind |-> [n \in 1..3 |-> "plain"],
   pred |-> <<{}, {1}, {2}>>,
   idem |-> <<>>,
   keySource |-> <<>>,
   reversible |-> {},
   wall |-> <<1, 0, 0>>,
   runWall |-> 2,
   regions |-> {1},
   members |-> <<{1, 2}>>,
   entry |-> <<1>>,
   exit |-> <<2>>,
   continuedBy |-> <<2>>,
   invariantsBy |-> <<{2}>>,
   measuredBy |-> <<{1}>>,
   direction |-> <<"decreasing">>,
   budget |-> <<[iterations |-> 2, wall |-> 1, effects |-> 0]>>,
   routes |-> <<[stale_reference |-> Retry, budget_exhaustion |-> Retry]>>,
   fails |-> <<{"stale_reference"}, {}, {}>>,
   reports |->
     <<{[NoControl EXCEPT !.measure = <<m>>] : m \in 1..2},
       {[NoControl EXCEPT !.go = <<TRUE>>, !.inv = <<TRUE>>],
        [NoControl EXCEPT !.go = <<FALSE>>, !.inv = <<TRUE>>],
        [NoControl EXCEPT !.go = <<TRUE>>, !.inv = <<FALSE>>],
        [NoControl EXCEPT !.inv = <<TRUE>>]},
       {NoControl}>>]

\* The first node's failures are handed to the second.
RepairDef ==
  [MCDef EXCEPT !.routes = <<[stale_reference |-> [do |-> "repair", node |-> 2]]>>]

\* The second node says nothing about the invariant.
SilentDef ==
  [MCDef EXCEPT !.reports[2] = {[NoControl EXCEPT !.go = <<TRUE>>]},
                !.fails[1] = {}, !.runWall = 0, !.wall = [n \in 1..3 |-> 1]]

SharedId == [w \in Workers |-> id]

\* The definitions satisfy what the theorems about loops ask of one.
ASSUME LoopsAreClosed == RoutesStayInside /\ EnteredByEntry
=============================================================================
