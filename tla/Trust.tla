------------------------------- MODULE Trust -------------------------------
(***************************************************************************)
(* Checks, and trust classes: crates/ir/src/trust.rs.  A check returns Ok  *)
(* or the name of the first fault it meets, in the order of the            *)
(* identifiers, as the code walks its ordered maps and lists.              *)
(***************************************************************************)
EXTENDS Integers, Sequences, FiniteSets, FiniteSetsExt, SequencesExt, TLC

CONSTANT NoContract

Ok == "ok"

First(S, Fault(_)) ==
    LET bad == {x \in S : Fault(x) # Ok}
    IN IF bad = {} THEN Ok ELSE Fault(Min(bad))

Along(seq, Fault(_)) == First(DOMAIN seq, LAMBDA i : Fault(seq[i]))

\* The first of a sequence of checks that does not pass.
Checks(faults) == Along(faults, LAMBDA f : f)

Unless(holds, fault) == IF holds THEN Ok ELSE fault

-----------------------------------------------------------------------------
(***************************************************************************)
(* A class is [level, contract], level 0 unverified, 1 conditional, 2      *)
(* verified; two classes meet in the weaker one when they are about the    *)
(* same contract and in nothing otherwise.                                 *)
(***************************************************************************)
Unverified == [level |-> 0, contract |-> NoContract]

Meet(a, b) ==
    IF a.contract = b.contract /\ a.contract # NoContract
    THEN IF a.level <= b.level THEN a ELSE b
    ELSE Unverified

\* The fold of Meet over the classes: the weakest of them when they are all
\* about one contract, and nothing otherwise or when there are none.
MeetAll(classes) ==
    LET Weakest(c) == \A b \in Range(classes) : b.contract = c.contract /\ c.level <= b.level
    IN IF \E c \in Range(classes) : Weakest(c) THEN CHOOSE c \in Range(classes) : Weakest(c) ELSE Unverified
=============================================================================
