------------------------------- MODULE MCJobs -------------------------------
(***************************************************************************)
(* Two workers of one slot each.  Run 1 goes to Kubernetes; run 2 to the   *)
(* local runners, with a retry.                                            *)
(***************************************************************************)
EXTENDS JobRuns

CONSTANTS w1, w2

MCSlots    == {1, 2}
MCWorkerOf == <<w1, w2>>

Marker == [marker |-> TRUE, plain |-> TRUE, typed |-> TRUE, decodes |-> TRUE, size |-> 1]

MCModes ==
    {[runner |-> "kubernetes", runs |-> {1}], [runner |-> "process", runs |-> {2}],
     [runner |-> "wasm", runs |-> {2}]}

PoolModes == {[runner |-> "kubernetes", runs |-> {1, 2}]}

MCJob == [r \in Runs |->
    [id |-> [short |-> r, long |-> r], pool |-> "mini",
     found |-> TRUE, image |-> [name |-> "python:3", digest |-> FALSE],
     deps |-> {}, command |-> "python -c", inputs |-> <<1>>, retries |-> IF r = 2 THEN 2 ELSE 1,
     output |-> <<Marker>>]]

MCPools == [p \in {"mini"} |->
    [maxConcurrent |-> 1, allowedImages |-> {}, requireDigest |-> FALSE,
     maxDeps |-> Absent, maxDepLength |-> Absent, blocked |-> {},
     policy |-> [allowed |-> {{"python:3"}}, requireDigest |-> FALSE, maxDeps |-> Given(1),
                 maxDepLength |-> Absent, blocked |-> {"torch"}]]]
=============================================================================
