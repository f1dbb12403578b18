------------------------------- MODULE MCWaits ------------------------------
(* A loop of one node whose failures go to a reviewer, and from outside a  *)
(* timer, an event wait, and signals that do and do not answer them.       *)
EXTENDS GraphWorker, TLC
CONSTANTS w1, w2, id

MCDef ==
  [nodes |-> {1},
   kind |-> <<"plain">>,
   pred |-> <<{}>>,
   idem |-> <<>>,
   keySource |-> <<>>,
   reversible |-> {},
   wall |-> <<1>>,
   runWall |-> 0,
   regions |-> {1},
   members |-> <<{1}>>,
   entry |-> <<1>>,
   exit |-> <<1>>,
   continuedBy |-> <<1>>,
   invariantsBy |-> <<{}>>,
   measuredBy |-> <<{}>>,
   direction |-> <<"decreasing">>,
   budget |-> <<[iterations |-> 1, wall |-> 1, effects |-> 0]>>,
   routes |-> <<[interpretation_residual |-> [do |-> "escalate", to |-> "reviewer"]]>>,
   fails |-> <<{"interpretation_residual"}>>,
   reports |-> <<{[NoControl EXCEPT !.go = <<FALSE>>]}>>]

SharedId == [w \in Workers |-> id]
Sym == Permutations(Workers)

Signal(kind, subject, authorities) ==
  [kind |-> kind, subject |-> subject, authorities |-> authorities]

Decisions == {Signal("human", "reviewer", {"reviewer"})}
MCSignals == Decisions \cup
             {Signal("human", "reviewer", {}),
              Signal("event", "webhook", {}),
              Signal("timer", "", {})}

MCRequests == {[kind |-> "suspended", wait |-> Timer(1)],
               [kind |-> "suspended", wait |-> EventWait("webhook")]}
=============================================================================
