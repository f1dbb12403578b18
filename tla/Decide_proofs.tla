---------------------------- MODULE Decide_proofs ----------------------------
(***************************************************************************)
(* What the operators of the fold and of the decision core return, for     *)
(* every definition: the facts the proofs about the workers rest on.       *)
(*                                                                         *)
(* Induction is by least counterexample: LeastNumber gives the smallest    *)
(* element of a non-empty set of numbers.                                  *)
(***************************************************************************)
EXTENDS Decide, TLAPS, WellFoundedInduction

\* A non-empty set of numbers has a least element.
LEMMA LeastNumber ==
  ASSUME NEW S, S \subseteq Nat, S # {}
  PROVE  \E x \in S : \A y \in S : x <= y
<1>1. PICK x \in S : \A y \in S : ~(<<y, x>> \in OpToRel(<, Nat))
  BY NatLessThanWellFounded, WFMin, Zenon
<1>2. \A y \in S : ~(y < x)
  BY <1>1 DEF OpToRel
<1> QED BY <1>2

\* Least picks it.
LEMMA LeastIsLeast ==
  ASSUME NEW S, S \subseteq Nat, S # {}
  PROVE  Least(S) \in S /\ \A y \in S : Least(S) <= y
  BY LeastNumber, Zenon DEF Least

\* A non-empty set of positions in a sequence has a last one.
LEMMA GreatestPosition ==
  ASSUME NEW N \in Nat, NEW S, S \subseteq 1..N, S # {}
  PROVE  \E x \in S : \A y \in S : y <= x
<1> DEFINE T == {N - x : x \in S}
<1>1. T \subseteq Nat /\ T # {}
  <2>1. \A x \in S : N - x \in Nat
    OBVIOUS
  <2> QED BY <2>1, Zenon
<1> HIDE DEF T
<1>2. PICK t \in T : \A u \in T : t <= u
  BY <1>1, LeastNumber, Zenon
<1>3. PICK x \in S : t = N - x
  BY <1>2 DEF T
<1>4. ASSUME NEW y \in S PROVE y <= x
  <2>1. N - y \in T
    BY DEF T
  <2>2. N - x <= N - y
    BY <1>2, <1>3, <2>1
  <2> QED BY <2>2
<1> QED BY <1>4

-----------------------------------------------------------------------------
(* The claims `retain` leaves *)

Retains(f, q, n, N) ==
  f = [i \in 0..N |-> IF i = 0 THEN <<>>
                      ELSE IF q[i].node = n THEN f[i - 1]
                      ELSE Append(f[i - 1], q[i])]

\* The recursion in OtherClaims defines a function.
LEMMA RetainedExists ==
  ASSUME NEW C, NEW n, NEW q \in Seq(C), NEW N \in 0..Len(q)
  PROVE  \E f : Retains(f, q, n, N)
<1> DEFINE Bad == {m \in 0..Len(q) : ~ \E f : Retains(f, q, n, m)}
<1> SUFFICES ASSUME Bad # {} PROVE FALSE
  OBVIOUS
<1>1. Bad \subseteq Nat
  OBVIOUS
<1>2. Bad \subseteq 0..Len(q) /\ \A k \in Bad : ~ \E f : Retains(f, q, n, k)
  OBVIOUS
<1>3. \A k \in 0..Len(q) : k \notin Bad => \E f : Retains(f, q, n, k)
  OBVIOUS
<1> HIDE DEF Bad
<1>4. PICK m \in Bad : \A k \in Bad : m <= k
  BY <1>1, LeastNumber, Zenon
<1>5. Retains([i \in 0..0 |-> <<>>], q, n, 0)
  BY DEF Retains
<1>6. m # 0
  BY <1>2, <1>5
<1>7. m \in 1..Len(q) /\ m - 1 \in 0..Len(q) /\ m - 1 \notin Bad
  BY <1>2, <1>4, <1>6
<1>8. PICK g : Retains(g, q, n, m - 1)
  BY <1>3, <1>7
<1> DEFINE h == [i \in 0..m |->
                   IF i = m THEN IF q[m].node = n THEN g[m - 1]
                                 ELSE Append(g[m - 1], q[m])
                   ELSE g[i]]
           Step(f, i) == IF i = 0 THEN <<>>
                         ELSE IF q[i].node = n THEN f[i - 1]
                         ELSE Append(f[i - 1], q[i])
<1>9. ASSUME NEW i \in 0..m PROVE h[i] = Step(h, i)
  <2>1. CASE i = m
    <3>1. h[i - 1] = g[i - 1]
      BY <1>7, <2>1
    <3> QED BY <1>7, <2>1, <3>1
  <2>2. CASE i # m
    <3>1. i \in 0..(m - 1)
      BY <1>7, <2>2
    <3>2. h[i] = g[i] /\ (i # 0 => h[i - 1] = g[i - 1])
      BY <1>7, <2>2
    <3>3. g[i] = Step(g, i)
      BY <1>8, <3>1, Zenon DEF Retains
    <3> QED BY <3>2, <3>3
  <2> QED BY <2>1, <2>2
<1>10. Retains(h, q, n, m)
  BY <1>9, Zenon DEF Retains
<1> QED BY <1>2, <1>4, <1>10

\* OtherClaims is the last value of that function.
LEMMA OtherClaimsRetain ==
  ASSUME NEW s, NEW n, NEW C, s.outstanding \in Seq(C)
  PROVE  \E f : /\ Retains(f, s.outstanding, n, Len(s.outstanding))
                /\ OtherClaims(s, n) = f[Len(s.outstanding)]
<1> DEFINE q == s.outstanding
           K == CHOOSE f : Retains(f, q, n, Len(q))
<1>1. Retains(K, q, n, Len(q))
  <2>1. Len(q) \in 0..Len(q)
    OBVIOUS
  <2>2. \E f : Retains(f, q, n, Len(q))
    BY <2>1, RetainedExists, Zenon
  <2> QED BY <2>2, Zenon
<1>2. OtherClaims(s, n) = K[Len(q)]
  BY DEF OtherClaims, Retains
<1> HIDE DEF K
<1> QED BY <1>1, <1>2

\* What is left are claims that were there, none of them of the node; the
\* claims of other nodes all stay.
LEMMA OtherClaimsAre ==
  ASSUME NEW s, NEW n, NEW C, s.outstanding \in Seq(C)
  PROVE  LET q == s.outstanding
             kept == OtherClaims(s, n)
         IN  /\ kept \in Seq(C)
             /\ Len(kept) <= Len(q)
             /\ \A i \in 1..Len(kept) :
                  kept[i].node # n /\ \E j \in 1..Len(q) : kept[i] = q[j]
             /\ \A j \in 1..Len(q) :
                  q[j].node # n => \E i \in 1..Len(kept) : kept[i] = q[j]
<1> DEFINE q == s.outstanding
<1>1. PICK f : Retains(f, q, n, Len(q)) /\ OtherClaims(s, n) = f[Len(q)]
  BY OtherClaimsRetain
<1> DEFINE Good(m) ==
             /\ f[m] \in Seq(C)
             /\ Len(f[m]) <= m
             /\ \A i \in 1..Len(f[m]) :
                  f[m][i].node # n /\ \E j \in 1..m : f[m][i] = q[j]
             /\ \A j \in 1..m :
                  q[j].node # n => \E i \in 1..Len(f[m]) : f[m][i] = q[j]
           Bad == {m \in 0..Len(q) : ~Good(m)}
<1>2. \A i \in 0..Len(q) :
        f[i] = IF i = 0 THEN <<>>
               ELSE IF q[i].node = n THEN f[i - 1]
               ELSE Append(f[i - 1], q[i])
  BY <1>1, Zenon DEF Retains
<1>3. Good(0)
  <2>1. f[0] = <<>>
    BY <1>2
  <2> QED BY <2>1
<1>4. ASSUME NEW m \in 1..Len(q), Good(m - 1) PROVE Good(m)
  <2> DEFINE g == f[m - 1]
  <2>1. m \in 0..Len(q) /\ m # 0 /\ q[m] \in C
    OBVIOUS
  <2>2. /\ g \in Seq(C)
        /\ Len(g) <= m - 1
        /\ \A i \in 1..Len(g) :
             g[i].node # n /\ \E j \in 1..(m - 1) : g[i] = q[j]
        /\ \A j \in 1..(m - 1) :
             q[j].node # n => \E i \in 1..Len(g) : g[i] = q[j]
    BY <1>4
  <2> HIDE DEF g
  <2>3. CASE q[m].node = n
    <3>1. f[m] = g
      BY <1>2, <2>1, <2>3 DEF g
    <3> QED BY <2>1, <2>2, <2>3, <3>1
  <2>4. CASE q[m].node # n
    <3>1. f[m] = Append(g, q[m])
      BY <1>2, <2>1, <2>4, Zenon DEF g
    <3> DEFINE h == Append(g, q[m])
    <3>2. /\ h \in Seq(C)
          /\ Len(h) = Len(g) + 1
          /\ \A i \in 1..Len(g) : h[i] = g[i]
          /\ h[Len(g) + 1] = q[m]
      BY <2>1, <2>2
    <3> HIDE DEF h
    <3>3. \A i \in 1..Len(h) :
            h[i].node # n /\ \E j \in 1..m : h[i] = q[j]
      <4>1. m \in 1..m /\ \A j \in 1..(m - 1) : j \in 1..m
        OBVIOUS
      <4> TAKE i \in 1..Len(h)
      <4>2. CASE i = Len(g) + 1
        BY <2>4, <3>2, <4>1, <4>2
      <4>3. CASE i # Len(g) + 1
        <5>1. i \in 1..Len(g)
          BY <2>2, <3>2, <4>3
        <5>2. h[i] = g[i]
          BY <3>2, <5>1
        <5>3. g[i].node # n /\ \E j \in 1..(m - 1) : g[i] = q[j]
          BY <2>2, <5>1
        <5> QED BY <4>1, <5>2, <5>3, Zenon
      <4> QED BY <4>2, <4>3
    <3>4. ASSUME NEW j \in 1..m, q[j].node # n
          PROVE  \E i \in 1..Len(h) : h[i] = q[j]
      <4>1. CASE j = m
        BY <2>2, <3>2, <4>1
      <4>2. CASE j # m
        <5>1. PICK i \in 1..Len(g) : g[i] = q[j]
          BY <2>2, <3>4, <4>2
        <5> QED BY <2>2, <3>2, <5>1
      <4> QED BY <4>1, <4>2
    <3>5. Len(h) <= m
      BY <2>2, <3>2
    <3> QED BY <3>1, <3>2, <3>3, <3>4, <3>5 DEF h
  <2> QED BY <2>3, <2>4
<1> HIDE DEF Good
<1>5. Bad = {}
  <2> SUFFICES ASSUME Bad # {} PROVE FALSE
    OBVIOUS
  <2>1. Bad \subseteq Nat
    OBVIOUS
  <2>2. \A k \in 0..Len(q) : k \in Bad <=> ~Good(k)
    OBVIOUS
  <2>3. Bad \subseteq 0..Len(q)
    OBVIOUS
  <2> HIDE DEF Bad
  <2>4. PICK m \in Bad : \A k \in Bad : m <= k
    BY <2>1, LeastNumber, Zenon
  <2>5. m # 0
    BY <1>3, <2>2, <2>3, <2>4
  <2>6. m \in 1..Len(q) /\ m - 1 \in 0..Len(q) /\ m - 1 \notin Bad
    BY <2>3, <2>4, <2>5
  <2> QED BY <1>4, <2>2, <2>3, <2>4, <2>6
<1>6. Good(Len(q))
  BY <1>5
<1> QED BY <1>1, <1>6 DEF Good

-----------------------------------------------------------------------------
(* What each decision rests on *)

\* A claim on the log carries the key its node's first attempt was given.
Claims == {c \in [node : Effects, attempt : Nat, key : Seq(Nat)] :
             c.key = FreshKey(c.node, 0)}

NewEffect(s, n) ==
  /\ s.outstanding = <<>>
  /\ s.uncertain = <<>>
  /\ ~s.cancel
  /\ n \notin s.completed

RepeatedEffect(s, n) ==
  /\ s.outstanding # <<>>
  /\ n = Head(s.outstanding).node
  /\ Def.idem[n] # "non_idempotent"

\* n is the most recent of the effects that are still to be undone.
NextUndone(s, n) ==
  /\ s.outstanding = <<>>
  /\ \E i \in Owed(s) : n = s.finalized[i] /\ \A k \in Owed(s) : k <= i

NothingOwed(s) == s.outstanding = <<>> /\ Owed(s) = {}

AllDone(s) ==
  /\ s.outstanding = <<>>
  /\ s.uncertain = <<>>
  /\ Nodes \subseteq s.finished
  /\ \A r \in Regions : s.loops[r].stopped = "condition_false"

Performs(s, d) ==
  /\ d = Perform(s, d.node, d.attempt, d.key)
  /\ d.node \in Effects /\ d.attempt \in Nat /\ d.key = FreshKey(d.node, 0)
  /\ \/ NewEffect(s, d.node) /\ d.node \notin s.running
     \/ RepeatedEffect(s, d.node)

Grounded(s, d) ==
  \/ d.do \in {"idle", "start", "control_missing", "time_out"}
  \/ d.do = "start_node" /\ d.node \in Nat
  \/ d.do = "perform" /\ Performs(s, d)
  \/ d.do = "halt" /\ s.outstanding # <<>> /\ d.node = Head(s.outstanding).node
  \/ d.do = "compensate" /\ NextUndone(s, d.node)
  \/ d.do \in {"cancel", "fail"} /\ NothingOwed(s)
  \/ d.do \in {"stop_loop", "start_iteration", "finish_iteration"}
     /\ d.region \in Regions
  \/ d.do = "suspend" /\ d.wait.kind = "gate"
  \/ d.do = "resume_wait" /\ s.waitingOn.kind = "timer" /\ s.waitingOn.left = 0
  \/ d.do = "complete" /\ AllDone(s)

\* The rules are tried in order: the answer is one of the first rule that has
\* something to say.
LEMMA FirstAnswerIsFirst ==
  ASSUME NEW N \in Nat, NEW rules, DOMAIN rules = 1..N,
         NEW last \in 1..N, rules[last] # {}
  PROVE  \E i \in 1..N : /\ FirstAnswer(rules) \in rules[i]
                         /\ \A k \in 1..(i - 1) : rules[k] = {}
<1> DEFINE speaks == {i \in DOMAIN rules : rules[i] # {}}
<1>1. speaks \subseteq Nat /\ last \in speaks
  OBVIOUS
<1>2. \A k \in 1..N : k \in speaks <=> rules[k] # {}
  OBVIOUS
<1>3. speaks \subseteq 1..N
  OBVIOUS
<1>4. FirstAnswer(rules) = Only(rules[Least(speaks)])
  BY DEF FirstAnswer
<1> HIDE DEF speaks
<1>5. Least(speaks) \in speaks /\ \A k \in speaks : Least(speaks) <= k
  BY <1>1, LeastIsLeast, Zenon
<1>6. \A S : S # {} => Only(S) \in S
  BY DEF Only
<1>7. FirstAnswer(rules) \in rules[Least(speaks)]
  BY <1>2, <1>3, <1>4, <1>5, <1>6, Zenon
<1>8. ASSUME NEW k \in 1..(Least(speaks) - 1) PROVE rules[k] = {}
  <2>1. Least(speaks) \in 1..N
    BY <1>3, <1>5
  <2>2. k \in 1..N /\ ~(Least(speaks) <= k)
    BY <2>1
  <2> QED BY <1>2, <1>5, <2>2
<1> QED BY <1>3, <1>5, <1>7, <1>8, Zenon

\* decide_outstanding_effect repeats the oldest open claim, under its key, or
\* halts on it.
LEMMA OutstandingIs ==
  ASSUME NEW s, s.outstanding \in Seq(Claims), NEW d \in OutstandingRule(s)
  PROVE  Grounded(s, d) /\ d.do # "fail"
<1>1. s.outstanding # <<>>
  BY DEF OutstandingRule
<1> DEFINE c == Head(s.outstanding)
<1>2. c \in Claims
  BY <1>1
<1> HIDE DEF c
<1>3. c.node \in Effects /\ c.attempt \in Nat /\ c.key = FreshKey(c.node, 0)
  BY <1>2 DEF Claims
<1>4. Def.idem[c.node] \in Idempotencies
  BY <1>3, DefAssumption
<1>5. CASE Def.idem[c.node] = "idempotent"
  <2>1. d = Perform(s, c.node, c.attempt + 1, c.key)
    BY <1>1, <1>5 DEF OutstandingRule, c
  <2>2. /\ d.do = "perform" /\ d.node = c.node
        /\ d.attempt = c.attempt + 1 /\ d.key = c.key
    BY <2>1 DEF Perform
  <2>3. RepeatedEffect(s, d.node)
    BY <1>1, <1>5, <2>2 DEF RepeatedEffect, c
  <2>4. Performs(s, d)
    BY <1>3, <2>1, <2>2, <2>3 DEF Performs
  <2> QED BY <2>2, <2>4 DEF Grounded
<1>6. CASE Def.idem[c.node] = "keyed"
  <2>1. d = Perform(s, c.node, c.attempt, c.key)
    BY <1>1, <1>6 DEF OutstandingRule, c
  <2>2. /\ d.do = "perform" /\ d.node = c.node
        /\ d.attempt = c.attempt /\ d.key = c.key
    BY <2>1 DEF Perform
  <2>3. RepeatedEffect(s, d.node)
    BY <1>1, <1>6, <2>2 DEF RepeatedEffect, c
  <2>4. Performs(s, d)
    BY <1>3, <2>1, <2>2, <2>3 DEF Performs
  <2> QED BY <2>2, <2>4 DEF Grounded
<1>7. CASE Def.idem[c.node] = "non_idempotent"
  <2>1. d = [do |-> "halt", node |-> c.node, attempt |-> c.attempt]
    BY <1>1, <1>7 DEF OutstandingRule, c
  <2> QED BY <1>1, <2>1 DEF Grounded, c
<1> QED BY <1>4, <1>5, <1>6, <1>7 DEF Idempotencies

\* pending_compensations starts with the most recent effect.
LEMMA CompensateIs ==
  ASSUME NEW s, NEW C, s.finalized \in Seq(C), s.outstanding = <<>>,
         Owed(s) # {}
  PROVE  /\ Compensate(s) # {}
         /\ \A d \in Compensate(s) :
              d.do = "compensate" /\ NextUndone(s, d.node)
<1> DEFINE i == CHOOSE j \in Owed(s) : \A k \in Owed(s) : k <= j
<1>1. Owed(s) \subseteq 1..Len(s.finalized) /\ Len(s.finalized) \in Nat
  BY DEF Owed
<1>2. i \in Owed(s) /\ \A k \in Owed(s) : k <= i
  <2>1. \E j \in Owed(s) : \A k \in Owed(s) : k <= j
    BY <1>1, GreatestPosition
  <2> QED BY <2>1
<1>3. Compensate(s) = {[do |-> "compensate", node |-> s.finalized[i]]}
  BY DEF Compensate
<1> HIDE DEF i
<1> QED BY <1>2, <1>3 DEF NextUndone

\* A cancelled run undoes, then stops.
LEMMA CancelIs ==
  ASSUME NEW s, NEW C, s.finalized \in Seq(C), s.outstanding = <<>>
  PROVE  /\ s.cancel => CancelRule(s) # {}
         /\ \A d \in CancelRule(s) : Grounded(s, d) /\ d.do # "fail"
<1>1. CASE ~s.cancel
  BY <1>1 DEF CancelRule
<1>2. CASE s.cancel /\ Owed(s) # {}
  <2>1. CancelRule(s) = Compensate(s)
    BY <1>2 DEF CancelRule
  <2> QED BY <1>2, <2>1, CompensateIs DEF Grounded
<1>3. CASE s.cancel /\ Owed(s) = {}
  <2>1. CancelRule(s) = {[do |-> "cancel"]}
    BY <1>3 DEF CancelRule, SafeToStop
  <2> QED BY <1>3, <2>1 DEF Grounded, NothingOwed
<1> QED BY <1>1, <1>2, <1>3

\* A node whose wall time is spent times out.
LEMMA TimeOutIs ==
  ASSUME NEW s, s.running \subseteq Nat, NEW d \in TimeOutRule(s)
  PROVE  d.do = "time_out" /\ d.node \in s.running
<1> DEFINE Rule(n) == IF Def.wall[n] > 0 /\ s.age[n] >= Def.wall[n]
                      THEN {[do |-> "time_out", node |-> n]} ELSE {}
           speaks == {n \in s.running : Rule(n) # {}}
<1>1. TimeOutRule(s) = IF speaks = {} THEN {} ELSE Rule(Least(speaks))
  BY DEF TimeOutRule, FirstOf
<1>2. speaks # {} /\ speaks \subseteq Nat
  BY <1>1, Zenon
<1>3. Least(speaks) \in speaks
  <2> HIDE DEF speaks
  <2> QED BY <1>2, LeastIsLeast, Zenon
<1>4. d \in Rule(Least(speaks)) /\ Least(speaks) \in s.running
  BY <1>1, <1>2, <1>3
<1> QED BY <1>4

\* decide_loop fails the run or stops a region; with nothing to say, every
\* region that stopped stopped because its condition was false.
LEMMA LoopIs ==
  ASSUME NEW s
  PROVE  /\ LoopRule(s) = {} => \A r \in Regions : LoopRuleOf(s, r) = {}
         /\ \A d \in LoopRule(s) :
              d.do = "fail" \/ (d.do = "stop_loop" /\ d.region \in Regions)
<1> DEFINE speaks == {r \in Regions : LoopRuleOf(s, r) # {}}
<1>1. LoopRule(s) = IF speaks = {} THEN {} ELSE LoopRuleOf(s, Least(speaks))
  BY DEF LoopRule, FirstOf
<1>2. speaks \subseteq Nat
  BY DefAssumption, Zenon
<1>3. CASE speaks = {}
  BY <1>1, <1>3
<1>4. CASE speaks # {}
  <2>1. Least(speaks) \in speaks
    <3> HIDE DEF speaks
    <3> QED BY <1>2, <1>4, LeastIsLeast, Zenon
  <2>2. PICK r \in Regions : LoopRuleOf(s, r) # {} /\ LoopRule(s) = LoopRuleOf(s, r)
    BY <1>1, <1>4, <2>1, Zenon
  <2>3. ASSUME NEW d \in LoopRuleOf(s, r)
        PROVE  d = Fail("loop_stopped") \/ \E reason : d = StopLoop(r, reason)
    BY DEF LoopRuleOf
  <2>4. ASSUME NEW d \in LoopRuleOf(s, r)
        PROVE  d.do = "fail" \/ (d.do = "stop_loop" /\ d.region = r)
    BY <2>3 DEF Fail, StopLoop
  <2> QED BY <2>2, <2>4
<1> QED BY <1>3, <1>4

\* What a route leads to.
LEMMA RepairIs ==
  ASSUME NEW s, NEW r \in Regions, NEW n
  PROVE  LET d == Repair(s, r, n) IN
         \/ d.do = "fail"
         \/ d.do = "stop_loop" /\ d.region = r
         \/ d.do = "start_node" /\ d.node \in Nat
         \/ d.do = "suspend" /\ d.wait.kind = "gate"
<1> DEFINE failure == LastFailure(s, n)
           route == Def.routes[r][failure]
           d == Repair(s, r, n)
<1>1. CASE failure \notin DOMAIN Def.routes[r]
  BY <1>1 DEF Repair, Fail
<1>2. CASE failure \in DOMAIN Def.routes[r]
  <2>1. /\ route.do \in {"retry", "repair", "escalate", "reject"}
        /\ route.do \in {"retry", "repair"} => route.node \in Nat
    BY <1>2, DefAssumption
  <2>2. d = CASE route.do = "retry" ->
                   IF FailureCount(s, n, failure) > route.attempts
                   THEN StopLoop(r, "repair_exhausted")
                   ELSE StartNode(route.node)
              [] route.do = "repair" -> StartNode(route.node)
              [] route.do = "escalate" ->
                   [do |-> "suspend", wait |-> Gate(n, route.to)]
              [] route.do = "reject" -> Fail("node")
    BY <1>2, Zenon DEF Repair
  <2> HIDE DEF route, failure
  <2>3. CASE route.do = "retry"
    BY <2>1, <2>2, <2>3 DEF StopLoop, StartNode
  <2>4. CASE route.do = "repair"
    BY <2>1, <2>2, <2>4 DEF StartNode
  <2>5. CASE route.do = "escalate"
    BY <2>1, <2>2, <2>5 DEF Gate
  <2>6. CASE route.do = "reject"
    BY <2>1, <2>2, <2>6 DEF Fail
  <2> QED BY <2>1, <2>3, <2>4, <2>5, <2>6 DEF d
<1> QED BY <1>1, <1>2

\* decide_failure fails the run or follows a route.
LEMMA FailureIs ==
  ASSUME NEW s, NEW d \in FailureRule(s)
  PROVE  \/ d.do = "fail"
         \/ d.do = "stop_loop" /\ d.region \in Regions
         \/ d.do = "start_node" /\ d.node \in Nat
         \/ d.do = "suspend" /\ d.wait.kind = "gate"
<1> DEFINE Rule(n) == IF \E r \in RegionsOf(n) : ~HasStopped(s, r)
                      THEN {Repair(s, r, n) : r \in RegionsOf(n)}
                      ELSE {Fail("node")}
<1>1. PICK n : d \in Rule(n)
  BY Zenon DEF FailureRule, FirstOf
<1>2. CASE d = Fail("node")
  BY <1>2 DEF Fail
<1>3. ASSUME NEW r \in RegionsOf(n), d = Repair(s, r, n)
      PROVE  \/ d.do = "fail"
             \/ d.do = "stop_loop" /\ d.region \in Regions
             \/ d.do = "start_node" /\ d.node \in Nat
             \/ d.do = "suspend" /\ d.wait.kind = "gate"
  <2>1. r \in Regions
    BY DEF RegionsOf
  <2> QED BY <1>3, <2>1, RepairIs
<1> QED BY <1>1, <1>2, <1>3

\* decide_one_loop opens, closes or stops a region; once every node has
\* finished it has something to say of each region that has not stopped.
LEMMA IterationIs ==
  ASSUME NEW s
  PROVE  /\ IterationRule(s) = {} /\ Nodes \subseteq s.finished =>
              \A r \in Regions : HasStopped(s, r)
         /\ \A d \in IterationRule(s) :
              \/ d.do \in {"fail", "control_missing"}
              \/ d.do \in {"stop_loop", "start_iteration", "finish_iteration"}
                 /\ d.region \in Regions
<1> DEFINE speaks == {r \in Regions : IterationRuleOf(s, r) # {}}
<1>1. IterationRule(s) =
        IF speaks = {} THEN {} ELSE IterationRuleOf(s, Least(speaks))
  BY DEF IterationRule, FirstOf
<1>2. speaks \subseteq Nat
  BY DefAssumption, Zenon
<1>3. CASE speaks = {}
  <2>1. ASSUME Nodes \subseteq s.finished, NEW r \in Regions
        PROVE  HasStopped(s, r)
    <3>1. IterationRuleOf(s, r) = {}
      BY <1>3
    <3>2. Def.exit[r] \in s.finished
      BY <2>1, DefAssumption, Zenon
    <3>3. RegionReachable(s, r)
      <4>1. Def.entry[r] \in Nodes
        BY DefAssumption
      <4>2. Def.pred[Def.entry[r]] \subseteq Nodes
        BY <4>1, DefAssumption, Zenon
      <4> QED BY <2>1, <4>2 DEF RegionReachable
    <3> QED BY <3>1, <3>2, <3>3, Zenon DEF IterationRuleOf
  <2> QED BY <1>1, <1>3, <2>1
<1>4. CASE speaks # {}
  <2>1. Least(speaks) \in speaks
    <3> HIDE DEF speaks
    <3> QED BY <1>2, <1>4, LeastIsLeast, Zenon
  <2>2. PICK r \in Regions : /\ IterationRuleOf(s, r) # {}
                             /\ IterationRule(s) = IterationRuleOf(s, r)
    BY <1>1, <1>4, <2>1
  <2>3. ASSUME NEW d \in IterationRuleOf(s, r)
        PROVE  \/ d = FinishIteration(s, r)
               \/ d = StartIteration(r)
               \/ d = Fail("control_missing")
               \/ \E reason : d = StopLoop(r, reason)
    BY Zenon DEF IterationRuleOf
  <2>4. LET f == FinishIteration(s, r) IN
        f.do = "control_missing" \/ (f.do = "finish_iteration" /\ f.region = r)
    <3>1. \/ FinishIteration(s, r) = [do |-> "control_missing"]
          \/ \E record : FinishIteration(s, r) =
               [do |-> "finish_iteration", region |-> r, record |-> record]
      BY Zenon DEF FinishIteration
    <3> QED BY <3>1
  <2>5. ASSUME NEW d \in IterationRuleOf(s, r)
        PROVE  \/ d.do \in {"fail", "control_missing"}
               \/ d.do \in {"stop_loop", "start_iteration", "finish_iteration"}
                  /\ d.region \in Regions
    BY <2>3, <2>4 DEF StartIteration, Fail, StopLoop
  <2> QED BY <2>2, <2>5
<1> QED BY <1>3, <1>4

\* next_ready_node performs an effect that is not done, or starts a node.
LEMMA NodeIs ==
  ASSUME NEW s, NEW d \in NodeRule(s)
  PROVE  \E n \in Nodes \ s.running :
           \/ d = StartNode(n)
           \/ n \in Effects \ s.completed /\ d = Perform(s, n, 0, FreshKey(n, 0))
<1> DEFINE Rule(n) == IF n \in Effects \ s.completed
                      THEN {Perform(s, n, 0, FreshKey(n, 0))}
                      ELSE {StartNode(n)}
           speaks == {n \in Ready(s) : Rule(n) # {}}
<1>1. NodeRule(s) = IF speaks = {} THEN {} ELSE Rule(Least(speaks))
  BY DEF NodeRule, FirstOf
<1>2. speaks \subseteq Nodes \ s.running
  BY DEF Ready
<1>3. speaks # {} /\ speaks \subseteq Nat
  BY <1>1, <1>2, DefAssumption, Zenon
<1>4. Least(speaks) \in speaks
  <2> HIDE DEF speaks
  <2> QED BY <1>3, LeastIsLeast, Zenon
<1>5. d \in Rule(Least(speaks)) /\ Least(speaks) \in Nodes \ s.running
  BY <1>1, <1>2, <1>3, <1>4
<1> QED BY <1>5

\* The fields of a fold that a decision is taken on have their types.
Foldable(s) ==
  /\ s.running \subseteq Nat
  /\ s.outstanding \in Seq(Claims)
  /\ s.finalized \in Seq(Effects)

\* The rules of decide_next, in order.
Rules(s) ==
  <<OutstandingRule(s), UncertainRule(s), CancelRule(s), WaitRule(s),
    StartRule(s), TimeOutRule(s), DeadlineRule(s), LoopRule(s),
    FailureRule(s), IterationRule(s), NodeRule(s), EndRule(s)>>

\* decide_next's answer is that of the first rule that has one.
LEMMA FirstRuleAnswers ==
  ASSUME NEW s, ~IsTerminal(s)
  PROVE  \E i \in 1..12 : /\ DecideNext(s) \in Rules(s)[i]
                          /\ \A k \in 1..(i - 1) : Rules(s)[k] = {}
<1> DEFINE rules == Rules(s)
<1>1. DecideNext(s) = FirstAnswer(rules)
  BY Zenon DEF DecideNext, Rules
<1>2. DOMAIN rules = 1..12 /\ 12 \in Nat /\ 12 \in 1..12
  BY DEF Rules
<1>3. EndRule(s) # {}
  BY Zenon DEF EndRule
<1>4. rules[12] # {}
  BY <1>3 DEF Rules
<1> HIDE DEF rules
<1>5. PICK N \in Nat : N = 12
  OBVIOUS
<1>6. DOMAIN rules = 1..N /\ N \in 1..N /\ rules[N] # {}
  BY <1>2, <1>4, <1>5
<1>7. \E i \in 1..N : /\ FirstAnswer(rules) \in rules[i]
                      /\ \A k \in 1..(i - 1) : rules[k] = {}
  BY <1>6, FirstAnswerIsFirst, Zenon
<1> QED BY <1>1, <1>5, <1>7 DEF rules

\* With no rule before it answering, nothing is open.
LEMMA NothingOpen ==
  ASSUME NEW s, Foldable(s), OutstandingRule(s) = {}
  PROVE  s.outstanding = <<>>
<1> SUFFICES ASSUME s.outstanding # <<>> PROVE OutstandingRule(s) # {}
  OBVIOUS
<1>1. Head(s.outstanding) \in Claims
  BY DEF Foldable
<1>2. Head(s.outstanding).node \in Effects
  BY <1>1 DEF Claims
<1>3. Def.idem[Head(s.outstanding).node] \in Idempotencies
  BY <1>2, DefAssumption
<1> QED BY <1>3, Zenon DEF OutstandingRule, Idempotencies

\* decide_next, rule by rule: what it answers is grounded in the fold, and it
\* fails a run only with no claim open.
LEMMA DecideNextIsGrounded ==
  ASSUME NEW s, Foldable(s)
  PROVE  LET d == DecideNext(s) IN
         Grounded(s, d) \/ (d.do = "fail" /\ s.outstanding = <<>>)
<1> DEFINE d == DecideNext(s)
           Goal == Grounded(s, d) \/ (d.do = "fail" /\ s.outstanding = <<>>)
           rules == Rules(s)
<1> SUFFICES Goal
  OBVIOUS
<1>1. CASE IsTerminal(s)
  <2>1. d = Idle
    BY <1>1 DEF DecideNext
  <2> QED BY <2>1 DEF Grounded, Idle
<1>2. CASE ~IsTerminal(s)
  <2>5. PICK i \in 1..12 : d \in rules[i] /\ \A k \in 1..(i - 1) : rules[k] = {}
    BY <1>2, FirstRuleAnswers
  <2> HIDE DEF d
  <2> USE DEF Rules
  <2>6. i > 1 => s.outstanding = <<>>
    <3>1. i > 1 => OutstandingRule(s) = {}
      BY <2>5
    <3> QED BY <3>1, NothingOpen
  <2>7. i > 2 => s.uncertain = <<>>
    <3>1. i > 2 => UncertainRule(s) = {}
      BY <2>5
    <3> QED BY <3>1 DEF UncertainRule
  <2>8. i > 3 => ~s.cancel
    <3>1. i > 3 => CancelRule(s) = {}
      BY <2>5
    <3> QED BY <3>1, <2>6, CancelIs DEF Foldable
  <2>9. i > 8 => LoopRule(s) = {}
    BY <2>5
  <2>10. i > 10 => IterationRule(s) = {}
    BY <2>5
  <2>11. CASE i = 1
    <3>1. d \in OutstandingRule(s)
      BY <2>5, <2>11
    <3> QED BY <3>1, OutstandingIs DEF Foldable
  <2>12. CASE i = 2
    <3>1. d \in UncertainRule(s)
      BY <2>5, <2>12
    <3> QED BY <2>6, <2>12, <3>1 DEF UncertainRule, Fail
  <2>13. CASE i = 3
    <3>1. d \in CancelRule(s)
      BY <2>5, <2>13
    <3> QED BY <2>6, <2>13, <3>1, CancelIs DEF Foldable
  <2>14. CASE i = 4
    <3>1. d \in WaitRule(s)
      BY <2>5, <2>14
    <3> QED BY <3>1 DEF WaitRule, Idle, Grounded
  <2>15. CASE i = 5
    <3>1. d \in StartRule(s)
      BY <2>5, <2>15
    <3> QED BY <3>1 DEF StartRule, Grounded
  <2>16. CASE i = 6
    <3>1. d \in TimeOutRule(s)
      BY <2>5, <2>16
    <3> QED BY <3>1, TimeOutIs DEF Foldable, Grounded
  <2>17. CASE i = 7
    <3>1. d \in DeadlineRule(s)
      BY <2>5, <2>17
    <3> QED BY <2>6, <2>17, <3>1 DEF DeadlineRule, Fail
  <2>18. CASE i = 8
    <3>1. d \in LoopRule(s)
      BY <2>5, <2>18
    <3> QED BY <2>6, <2>18, <3>1, LoopIs DEF Grounded
  <2>19. CASE i = 9
    <3>1. d \in FailureRule(s)
      BY <2>5, <2>19
    <3> QED BY <2>6, <2>19, <3>1, FailureIs DEF Grounded
  <2>20. CASE i = 10
    <3>1. d \in IterationRule(s)
      BY <2>5, <2>20
    <3> QED BY <2>6, <2>20, <3>1, IterationIs DEF Grounded
  <2>21. CASE i = 11
    <3>1. d \in NodeRule(s)
      BY <2>5, <2>21
    <3>2. PICK n \in Nodes \ s.running :
            \/ d = StartNode(n)
            \/ n \in Effects \ s.completed
               /\ d = Perform(s, n, 0, FreshKey(n, 0))
      BY <3>1, NodeIs
    <3>3. CASE d = StartNode(n)
      BY <3>2, <3>3, DefAssumption DEF StartNode, Grounded
    <3>4. CASE n \in Effects \ s.completed
                 /\ d = Perform(s, n, 0, FreshKey(n, 0))
      <4>1. /\ d.do = "perform" /\ d.node = n /\ d.attempt = 0
            /\ d.key = FreshKey(n, 0)
        BY <3>4 DEF Perform
      <4>2. NewEffect(s, n)
        BY <2>6, <2>7, <2>8, <2>21, <3>4 DEF NewEffect
      <4>3. Performs(s, d)
        BY <3>2, <3>4, <4>1, <4>2 DEF Performs
      <4> QED BY <4>1, <4>3 DEF Grounded
    <3> QED BY <3>2, <3>3, <3>4
  <2>22. CASE i = 12
    <3>1. d \in EndRule(s)
      BY <2>5, <2>22
    <3>2. CASE Nodes \subseteq s.finished
      <4>1. \A r \in Regions : HasStopped(s, r)
        BY <2>10, <2>22, <3>2, IterationIs
      <4>2. \A r \in Regions : LoopRuleOf(s, r) = {}
        BY <2>9, <2>22, LoopIs
      <4>3. \A r \in Regions : s.loops[r].stopped = "condition_false"
        BY <4>1, <4>2 DEF LoopRuleOf
      <4>4. AllDone(s)
        BY <2>6, <2>7, <2>22, <3>2, <4>3 DEF AllDone
      <4> QED BY <3>1, <4>4 DEF EndRule, Idle, Grounded
    <3>3. CASE ~(Nodes \subseteq s.finished)
      BY <3>1, <3>3 DEF EndRule, Idle, Grounded
    <3> QED BY <3>2, <3>3
  <2>23. i \in {1, 2, 3, 4, 5, 6, 7, 8, 9, 10, 11, 12}
    OBVIOUS
  <2> QED BY <2>11, <2>12, <2>13, <2>14, <2>15, <2>16, <2>17, <2>18, <2>19,
             <2>20, <2>21, <2>22, <2>23
<1> QED BY <1>1, <1>2

\* Every decision the core takes is grounded in the fold it was given: an
\* effect is performed only if it is new and nothing is open, in doubt or
\* cancelled, or as the repetition of the oldest open claim under that claim's
\* key; what is undone is the latest effect still standing; a run fails or is
\* cancelled with nothing open and nothing owed, and completes with every node
\* finished and every loop at its false condition.
THEOREM DecideIsGrounded ==
  ASSUME NEW s, Foldable(s)
  PROVE  Grounded(s, Decide(s))
<1> DEFINE next == DecideNext(s)
<1>1. Grounded(s, next) \/ (next.do = "fail" /\ s.outstanding = <<>>)
  BY DecideNextIsGrounded
<1>2. CASE next.do = "fail" /\ s.outstanding = <<>> /\ Owed(s) # {}
  <2>1. Compensate(s) # {} /\ \A d \in Compensate(s) :
                                d.do = "compensate" /\ NextUndone(s, d.node)
    BY <1>2, CompensateIs DEF Foldable
  <2>2. Decide(s) = Only(Compensate(s))
    BY <1>2 DEF Decide
  <2>3. Decide(s) \in Compensate(s)
    BY <2>1, <2>2 DEF Only
  <2> QED BY <2>1, <2>3 DEF Grounded
<1>3. CASE next.do = "fail" /\ s.outstanding = <<>> /\ Owed(s) = {}
  <2>1. Decide(s) = next
    BY <1>3 DEF Decide
  <2> QED BY <1>3, <2>1 DEF Grounded, NothingOwed
<1>4. CASE Grounded(s, next) /\ next.do # "fail"
  <2>1. Decide(s) = next
    BY <1>4 DEF Decide
  <2> QED BY <1>4, <2>1
<1>5. Grounded(s, next) /\ next.do = "fail" => s.outstanding = <<>>
  BY DEF Grounded, NothingOwed
<1> QED BY <1>1, <1>2, <1>3, <1>4, <1>5
-----------------------------------------------------------------------------
(* What each event does to the fold *)

\* The fold is a record with the fields it was admitted with.
Fields == {"ok", "status", "running", "finished", "failures", "control",
           "outstanding", "completed", "finalized", "uncertain",
           "compensated", "loops", "waitingOn", "cancel", "spentWall",
           "spentEffects", "age", "runAge"}

HasClaim(s, n) == \E i \in DOMAIN s.outstanding : s.outstanding[i].node = n
InDoubt(s, n) == \E i \in DOMAIN s.uncertain : s.uncertain[i] = n
Writable(s) == s.ok /\ ~IsTerminal(s)

LoopFields == {"started", "finished", "stopped", "stalled", "previous", "last",
               "failedInvariant", "age"}

\* A record of the fold's, and of its loops', is one.
Shaped(s) == s = [f \in Fields |-> s[f]]
LoopsShaped(loops) ==
  /\ loops = [r \in Regions |-> loops[r]]
  /\ \A r \in Regions : loops[r] = [f \in LoopFields |-> loops[r][f]]

\* What a list lists, and that it lists nothing twice.
Listed(q) == {q[i] : i \in DOMAIN q}
Once(q) == \A i, j \in DOMAIN q : q[i] = q[j] => i = j

\* The fold, as far as effects go: what was finalized was finalized once and
\* is not open.
FoldOK(s) ==
  /\ Foldable(s)
  /\ LoopsShaped(s.loops)
  /\ s.uncertain \in Seq(Effects)
  /\ s.completed = Listed(s.finalized)
  /\ Once(s.finalized)
  /\ \A i \in DOMAIN s.outstanding : s.outstanding[i].node \notin s.completed

EffectKinds == {"effect_claimed", "effect_finalized", "effect_abandoned",
                "effect_uncertain"}
LoopKinds == {"iteration_started", "iteration_finished", "loop_stopped"}
PlainKinds == LoopKinds \cup FinalStatuses \cup
  {"started", "node_started", "node_finished", "node_failed", "suspended",
   "resumed", "cancellation_requested", "compensated"}

\* An event that is not about an effect leaves the effects as they were.
SameEffects(s, t) ==
  /\ t.outstanding = s.outstanding /\ t.completed = s.completed
  /\ t.finalized = s.finalized /\ t.uncertain = s.uncertain

\* How the status moves: a terminal event ends the run and changes nothing
\* else, an event after the end or after an error is an error.
EndsWith(s, t, e) ==
  \/ /\ Writable(s) /\ e.kind \in FinalStatuses /\ t.status = e.kind
     /\ t.finished = s.finished /\ t.loops = s.loops
     /\ t.compensated = s.compensated
  \/ /\ ~Writable(s) /\ ~t.ok /\ t.status = s.status
     /\ t.finished = s.finished /\ t.loops = s.loops
     /\ t.compensated = s.compensated
  \/ Writable(s) /\ t.status \notin FinalStatuses

\* What RunState::apply does with an event that is not about an effect.
LEMMA ApplyPlain ==
  ASSUME NEW s, NEW e, Shaped(s), LoopsShaped(s.loops),
         e.kind \notin EffectKinds,
         e.kind \in LoopKinds => e.region \in Regions
  PROVE  LET t == Apply(s, e) IN
         /\ SameEffects(s, t)
         /\ LoopsShaped(t.loops)
         /\ EndsWith(s, t, e)
         /\ t.running \subseteq s.running \cup {e.node}
         /\ e.kind # "node_started" => t.running \subseteq s.running
         /\ e.kind # "cancellation_requested" => t.cancel = s.cancel
         /\ s.compensated \subseteq t.compensated
         /\ t.compensated # s.compensated =>
              /\ e.kind = "compensated"
              /\ t.compensated = s.compensated \cup {e.node}
<1> DEFINE t == Apply(s, e)
           Kept == /\ SameEffects(s, t)
                   /\ LoopsShaped(t.loops)
                   /\ EndsWith(s, t, e)
           Others == /\ t.running \subseteq s.running \cup {e.node}
                     /\ e.kind # "node_started" => t.running \subseteq s.running
                     /\ e.kind # "cancellation_requested" => t.cancel = s.cancel
                     /\ s.compensated \subseteq t.compensated
                     /\ t.compensated # s.compensated =>
                          /\ e.kind = "compensated"
                          /\ t.compensated = s.compensated \cup {e.node}
           Same == /\ SameEffects(s, t)
                   /\ t.loops = s.loops /\ t.running \subseteq s.running
                   /\ t.cancel = s.cancel /\ t.compensated = s.compensated
<1> SUFFICES Kept /\ Others
  BY Zenon
<1> USE DEF Fields, Shaped, SameEffects
<1>1. ASSUME t = Unfoldable(s)
      PROVE  Same /\ ~t.ok /\ t.status = s.status /\ t.finished = s.finished
  BY <1>1 DEF Unfoldable
<1>2. CASE ~Writable(s)
  <2>1. t = Unfoldable(s)
    BY <1>2 DEF Apply, Writable
  <2>2. Same /\ ~t.ok /\ t.status = s.status /\ t.finished = s.finished
    BY <1>1, <2>1
  <2> HIDE DEF t
  <2> QED BY <1>2, <2>2 DEF EndsWith
<1> SUFFICES ASSUME Writable(s) PROVE Kept /\ Others
  BY <1>2
<1>w. s.ok /\ s.status \notin FinalStatuses
  BY DEF Writable, IsTerminal
<1>3. ASSUME t = Unfoldable(s) PROVE Kept /\ Others
  <2>1. Same /\ t.status = s.status
    BY <1>1, <1>3
  <2> HIDE DEF t
  <2> QED BY <1>w, <2>1 DEF EndsWith
<1>4. CASE e.kind = "started"
  <2>1. t = Started(s)
    BY <1>w, <1>4 DEF Apply, IsTerminal, FinalStatuses
  <2>2. Same /\ t.status = "running"
    BY <2>1, Zenon DEF Started
  <2> HIDE DEF t
  <2> QED BY <2>2 DEF EndsWith, FinalStatuses
<1>5. CASE e.kind = "node_started"
  <2>1. t = NodeStarted(s, e.node)
    BY <1>w, <1>5 DEF Apply, IsTerminal, FinalStatuses
  <2>2. CASE e.node \in s.running
    BY <1>3, <2>1, <2>2 DEF NodeStarted
  <2>3. CASE e.node \notin s.running
    <3>1. /\ SameEffects(s, t) /\ t.loops = s.loops /\ t.cancel = s.cancel
          /\ t.compensated = s.compensated
          /\ t.running = s.running \cup {e.node} /\ t.status = "running"
      BY <2>1, <2>3, Zenon DEF NodeStarted
    <3> HIDE DEF t
    <3> QED BY <1>5, <3>1 DEF EndsWith, FinalStatuses
  <2> QED BY <2>2, <2>3, Zenon
<1>6. CASE e.kind = "node_finished"
  <2>1. t = NodeFinished(s, e.node, e.control)
    BY <1>w, <1>6 DEF Apply, IsTerminal, FinalStatuses
  <2>2. CASE e.node \notin s.running
    BY <1>3, <2>1, <2>2 DEF NodeFinished
  <2>3. CASE e.node \in s.running
    <3>1. /\ SameEffects(s, t) /\ t.loops = s.loops /\ t.cancel = s.cancel
          /\ t.compensated = s.compensated
          /\ t.running = s.running \ {e.node} /\ t.status = s.status
      BY <2>1, <2>3, Zenon DEF NodeFinished
    <3> HIDE DEF t
    <3> QED BY <1>w, <3>1 DEF EndsWith
  <2> QED BY <2>2, <2>3
<1>7. CASE e.kind = "node_failed"
  <2>1. t = NodeFailed(s, e.node, e.failure)
    BY <1>w, <1>7 DEF Apply, IsTerminal, FinalStatuses
  <2>2. /\ SameEffects(s, t) /\ t.loops = s.loops /\ t.cancel = s.cancel
        /\ t.compensated = s.compensated
        /\ t.running = s.running \ {e.node} /\ t.status = s.status
    BY <2>1, Zenon DEF NodeFailed
  <2> HIDE DEF t
  <2> QED BY <1>w, <2>2 DEF EndsWith
<1>8. CASE e.kind = "iteration_started"
  <2>1. t = IterationStarted(s, e.region) /\ e.region \in Regions
    BY <1>w, <1>8 DEF Apply, IsTerminal, FinalStatuses, LoopKinds
  <2>2. CASE s.loops[e.region].started > s.loops[e.region].finished
    BY <1>3, <2>1, <2>2 DEF IterationStarted
  <2>3. CASE ~(s.loops[e.region].started > s.loops[e.region].finished)
    <3>1. /\ SameEffects(s, t) /\ t.cancel = s.cancel
          /\ t.compensated = s.compensated
          /\ t.running = s.running \ Def.members[e.region]
          /\ t.status = s.status
      BY <2>1, <2>3, Zenon DEF IterationStarted
    <3> DEFINE p == [s.loops[e.region] EXCEPT !.started = @ + 1, !.age = 0]
    <3>2. t.loops = [s.loops EXCEPT ![e.region] = p]
      <4>1. t.loops = [s.loops EXCEPT ![e.region].started = @ + 1,
                                      ![e.region].age = 0]
        BY <2>1, <2>3, Zenon DEF IterationStarted
      <4> HIDE DEF t
      <4>2. PICK l : l = s.loops
        OBVIOUS
      <4>3. /\ t.loops = [l EXCEPT ![e.region].started = @ + 1,
                                   ![e.region].age = 0]
            /\ p = [l[e.region] EXCEPT !.started = @ + 1, !.age = 0]
            /\ l = [r \in Regions |-> l[r]]
        BY <4>1, <4>2, Zenon DEF LoopsShaped
      <4>4. t.loops = [l EXCEPT ![e.region] = p]
        BY <2>1, <4>3, Zenon
      <4> QED BY <4>2, <4>4
    <3>4. p = [f \in LoopFields |-> p[f]]
      BY <2>1, Zenon DEF LoopsShaped
    <3> HIDE DEF t, p
    <3>3. LoopsShaped(t.loops)
      BY <2>1, <3>2, <3>4 DEF LoopsShaped
    <3> QED BY <1>w, <3>1, <3>3 DEF EndsWith
  <2> QED BY <2>2, <2>3
<1>9. CASE e.kind = "iteration_finished"
  <2>1. t = IterationFinished(s, e.region, e.record) /\ e.region \in Regions
    BY <1>w, <1>9 DEF Apply, IsTerminal, FinalStatuses, LoopKinds
  <2>2. CASE s.loops[e.region].finished >= s.loops[e.region].started
    BY <1>3, <2>1, <2>2 DEF IterationFinished
  <2>3. CASE ~(s.loops[e.region].finished >= s.loops[e.region].started)
    <3>1. /\ SameEffects(s, t) /\ t.cancel = s.cancel
          /\ t.compensated = s.compensated
          /\ t.running \subseteq s.running /\ t.status = s.status
      BY <2>1, <2>3, Zenon DEF IterationFinished
    <3> DEFINE was == s.loops[e.region]
               read == e.record.measure # <<>>
               p == [was EXCEPT
                       !.finished = @ + 1,
                       !.age = 0,
                       !.stalled = IF ~read THEN @
                                   ELSE IF was.last = e.record.measure THEN @ + 1
                                   ELSE 0,
                       !.previous = IF read THEN was.last ELSE @,
                       !.last = IF read THEN e.record.measure ELSE @,
                       !.failedInvariant = ~e.record.held]
    <3>2. t.loops = [s.loops EXCEPT ![e.region] = p]
      BY <2>1, <2>3, Zenon DEF IterationFinished
    <3>4. p = [f \in LoopFields |-> p[f]]
      BY <2>1, Zenon DEF LoopsShaped
    <3> HIDE DEF t, p
    <3>3. LoopsShaped(t.loops)
      BY <2>1, <3>2, <3>4 DEF LoopsShaped
    <3> QED BY <1>w, <3>1, <3>3 DEF EndsWith
  <2> QED BY <2>2, <2>3, Zenon
<1>10. CASE e.kind = "loop_stopped"
  <2>1. t = LoopStopped(s, e.region, e.reason) /\ e.region \in Regions
    BY <1>w, <1>10 DEF Apply, IsTerminal, FinalStatuses, LoopKinds
  <2>2. /\ SameEffects(s, t) /\ t.cancel = s.cancel
        /\ t.compensated = s.compensated
        /\ t.running = s.running /\ t.status = s.status
    BY <2>1 DEF LoopStopped
  <2> DEFINE p == [s.loops[e.region] EXCEPT !.stopped = e.reason]
  <2>4. t.loops = [s.loops EXCEPT ![e.region] = p]
    BY <2>1 DEF LoopStopped
  <2>5. p = [f \in LoopFields |-> p[f]]
    BY <2>1, Zenon DEF LoopsShaped
  <2> HIDE DEF t, p
  <2>3. LoopsShaped(t.loops)
    BY <2>1, <2>4, <2>5 DEF LoopsShaped
  <2> QED BY <1>w, <2>2, <2>3 DEF EndsWith
<1>11. CASE e.kind = "suspended"
  <2>1. t = Suspended(s, e.wait)
    BY <1>w, <1>11 DEF Apply, IsTerminal, FinalStatuses
  <2>2. Same /\ t.status = "waiting"
    BY <2>1, Zenon DEF Suspended
  <2> HIDE DEF t
  <2> QED BY <2>2 DEF EndsWith, FinalStatuses
<1>12. CASE e.kind = "resumed"
  <2>1. t = Resumed(s)
    BY <1>w, <1>12 DEF Apply, IsTerminal, FinalStatuses
  <2>2. CASE s.waitingOn = NoWait
    BY <1>3, <2>1, <2>2 DEF Resumed
  <2>3. CASE s.waitingOn # NoWait
    <3>1. Same /\ t.status = "running"
      BY <2>1, <2>3, Zenon DEF Resumed
    <3> HIDE DEF t
    <3> QED BY <3>1 DEF EndsWith, FinalStatuses
  <2> QED BY <2>2, <2>3
<1>13. CASE e.kind = "cancellation_requested"
  <2>1. t = CancellationRequested(s)
    BY <1>w, <1>13 DEF Apply, IsTerminal, FinalStatuses
  <2>2. /\ SameEffects(s, t) /\ t.loops = s.loops /\ t.running = s.running
        /\ t.compensated = s.compensated /\ t.status = s.status
    BY <2>1 DEF CancellationRequested
  <2> HIDE DEF t
  <2> QED BY <1>13, <1>w, <2>2 DEF EndsWith
<1>14. CASE e.kind = "compensated"
  <2>1. t = Compensated(s, e.node)
    BY <1>w, <1>14 DEF Apply, IsTerminal, FinalStatuses
  <2>2. /\ SameEffects(s, t) /\ t.loops = s.loops /\ t.running = s.running
        /\ t.cancel = s.cancel /\ t.compensated = s.compensated \cup {e.node}
        /\ t.status = s.status
    BY <2>1 DEF Compensated
  <2> HIDE DEF t
  <2> QED BY <1>14, <1>w, <2>2 DEF EndsWith
<1>15. CASE e.kind \in FinalStatuses
  <2>1. t = Ended(s, e.kind)
    BY <1>w, <1>15 DEF Apply, IsTerminal, FinalStatuses
  <2>2. Same /\ t.status = e.kind /\ t.finished = s.finished
    BY <2>1 DEF Ended
  <2> HIDE DEF t
  <2> QED BY <1>15, <2>2 DEF EndsWith
<1>16. CASE e.kind \notin PlainKinds
  <2>1. t = Unfoldable(s)
    BY <1>w, <1>16 DEF Apply, IsTerminal, PlainKinds, LoopKinds, EffectKinds,
                       FinalStatuses
  <2> QED BY <1>3, <2>1
<1> QED BY <1>4, <1>5, <1>6, <1>7, <1>8, <1>9, <1>10, <1>11, <1>12, <1>13,
           <1>14, <1>15, <1>16, Zenon
    DEF PlainKinds, LoopKinds, EffectKinds, FinalStatuses

\* What an event about an effect leaves alone.
SameCourse(s, t) ==
  /\ t.ok = s.ok /\ t.status = s.status
  /\ t.running = s.running /\ t.finished = s.finished
  /\ t.compensated = s.compensated /\ t.loops = s.loops
  /\ t.cancel = s.cancel

\* What RunState::apply does with an event about an effect.
LEMMA ApplyEffect ==
  ASSUME NEW s, NEW e, Shaped(s), Writable(s),
         e.kind \in EffectKinds
  PROVE  LET t == Apply(s, e)
             others == OtherClaims(s, e.node)
         IN
         /\ e.kind = "effect_claimed" =>
              /\ SameCourse(s, t)
              /\ t.outstanding = Append(s.outstanding,
                   [node |-> e.node, attempt |-> e.attempt, key |-> e.key])
              /\ t.completed = s.completed /\ t.finalized = s.finalized
              /\ t.uncertain = s.uncertain
         /\ e.kind = "effect_finalized" /\ others # s.outstanding =>
              /\ SameCourse(s, t)
              /\ t.outstanding = others
              /\ t.completed = s.completed \cup {e.node}
              /\ t.finalized = Append(s.finalized, e.node)
              /\ t.uncertain = s.uncertain
         /\ e.kind = "effect_abandoned" =>
              /\ SameCourse(s, t)
              /\ t.outstanding = others
              /\ t.completed = s.completed /\ t.finalized = s.finalized
              /\ t.uncertain = s.uncertain
         /\ e.kind = "effect_uncertain" =>
              /\ SameCourse(s, t)
              /\ t.outstanding = others
              /\ t.completed = s.completed /\ t.finalized = s.finalized
              /\ t.uncertain = Append(s.uncertain, e.node)
<1> DEFINE t == Apply(s, e)
           others == OtherClaims(s, e.node)
<1> USE DEF Fields, Shaped, SameCourse
<1>1. s.ok /\ ~IsTerminal(s)
  BY DEF Writable
<1>2. CASE e.kind = "effect_claimed"
  <2>1. t = EffectClaimed(s, e.node, e.attempt, e.key)
    BY <1>1, <1>2 DEF Apply, FinalStatuses
  <2> QED BY <1>2, <2>1, Zenon DEF EffectClaimed
<1>3. CASE e.kind = "effect_finalized"
  <2>1. t = EffectFinalized(s, e.node)
    BY <1>1, <1>3 DEF Apply, FinalStatuses
  <2> QED BY <1>3, <2>1, Zenon DEF EffectFinalized
<1>4. CASE e.kind = "effect_abandoned"
  <2>1. t = EffectAbandoned(s, e.node)
    BY <1>1, <1>4 DEF Apply, FinalStatuses
  <2> QED BY <1>4, <2>1 DEF EffectAbandoned
<1>5. CASE e.kind = "effect_uncertain"
  <2>1. t = EffectUncertain(s, e.node)
    BY <1>1, <1>5 DEF Apply, FinalStatuses
  <2> QED BY <1>5, <2>1, Zenon DEF EffectUncertain
<1> QED BY <1>2, <1>3, <1>4, <1>5, Zenon DEF EffectKinds

\* The claims of n are closed.
Closes(s, n, t) == t.outstanding = OtherClaims(s, n)

\* The claims that stay are those of the other nodes.
LEMMA ClosedClaims ==
  ASSUME NEW s, NEW n, NEW t, FoldOK(s), Closes(s, n, t)
  PROVE  /\ t.outstanding \in Seq(Claims)
         /\ HasClaim(s, n) => t.outstanding # s.outstanding
         /\ ~HasClaim(t, n)
         /\ \A m : m # n => (HasClaim(t, m) <=> HasClaim(s, m))
         /\ \A i \in DOMAIN t.outstanding :
              /\ t.outstanding[i].node # n
              /\ t.outstanding[i].node \notin s.completed
<1> DEFINE q == s.outstanding
           kept == t.outstanding
<1>1. q \in Seq(Claims)
  BY DEF FoldOK, Foldable
<1>2. /\ kept \in Seq(Claims)
      /\ \A i \in 1..Len(kept) :
           kept[i].node # n /\ \E j \in 1..Len(q) : kept[i] = q[j]
      /\ \A j \in 1..Len(q) :
           q[j].node # n => \E i \in 1..Len(kept) : kept[i] = q[j]
  BY <1>1, OtherClaimsAre DEF Closes
<1>3. DOMAIN q = 1..Len(q) /\ DOMAIN kept = 1..Len(kept)
  BY <1>1, <1>2
<1>4. \A j \in DOMAIN q : q[j].node \notin s.completed
  BY DEF FoldOK
<1> HIDE DEF q, kept
<1>5. \A m : HasClaim(s, m) <=> \E j \in DOMAIN q : q[j].node = m
  BY DEF HasClaim, q
<1>6. \A m : HasClaim(t, m) <=> \E j \in DOMAIN kept : kept[j].node = m
  BY DEF HasClaim, kept
<1>7. /\ kept \in Seq(Claims)
      /\ HasClaim(s, n) => kept # q
      /\ ~HasClaim(t, n)
      /\ \A m : m # n => (HasClaim(t, m) <=> HasClaim(s, m))
      /\ \A i \in DOMAIN kept :
           kept[i].node # n /\ kept[i].node \notin s.completed
  <2>1. HasClaim(s, n) => kept # q
    BY <1>2, <1>3, <1>5, Zenon
  <2>2. ASSUME NEW m, m # n PROVE HasClaim(t, m) <=> HasClaim(s, m)
    <3>1. ASSUME HasClaim(t, m) PROVE HasClaim(s, m)
      <4>1. PICK i \in 1..Len(kept) : kept[i].node = m
        BY <3>1, <1>3, <1>6
      <4>2. PICK j \in 1..Len(q) : kept[i] = q[j]
        BY <1>2, <4>1
      <4> QED BY <1>3, <1>5, <4>1, <4>2
    <3>2. ASSUME HasClaim(s, m) PROVE HasClaim(t, m)
      <4>1. PICK j \in 1..Len(q) : q[j].node = m
        BY <3>2, <1>3, <1>5
      <4>2. PICK i \in 1..Len(kept) : kept[i] = q[j]
        BY <1>2, <2>2, <4>1
      <4> QED BY <1>3, <1>6, <4>1, <4>2
    <3> QED BY <3>1, <3>2
  <2> QED BY <1>2, <1>3, <1>4, <1>6, <2>1, <2>2
<1> QED BY <1>7 DEF q, kept

\* A claim a worker writes is one of Claims.
LEMMA ClaimIsOne ==
  ASSUME NEW n \in Effects, NEW a \in Nat
  PROVE  [node |-> n, attempt |-> a, key |-> FreshKey(n, 0)] \in Claims
<1>1. n \in Nat /\ Def.keySource[n] \in KeySources
  BY DefAssumption DEF Effects
<1>2. KeyFor(n, 0) \in Seq(Nat)
  BY <1>1 DEF KeyFor, KeySources
<1>3. FreshKey(n, 0) \in Seq(Nat)
  BY <1>2 DEF FreshKey, NoKey
<1> DEFINE c == [node |-> n, attempt |-> a, key |-> FreshKey(n, 0)]
<1>4. c \in [node : Effects, attempt : Nat, key : Seq(Nat)]
  BY <1>3
<1>5. c.key = FreshKey(c.node, 0)
  OBVIOUS
<1> QED BY <1>4, <1>5 DEF Claims

\* What Append does to a list.
LEMMA AppendIs ==
  ASSUME NEW S, NEW q \in Seq(S), NEW n \in S, NEW p, p = Append(q, n)
  PROVE  /\ p \in Seq(S)
         /\ \A i \in DOMAIN p : \/ i \in DOMAIN q /\ p[i] = q[i]
                                \/ i = Len(q) + 1 /\ p[i] = n
         /\ \A i \in DOMAIN q : i \in DOMAIN p /\ p[i] = q[i]
         /\ Len(q) + 1 \in DOMAIN p /\ p[Len(q) + 1] = n
<1>1. /\ p \in Seq(S) /\ Len(p) = Len(q) + 1
      /\ DOMAIN p = 1..(Len(q) + 1) /\ DOMAIN q = 1..Len(q)
      /\ \A i \in 1..Len(q) : p[i] = q[i]
      /\ p[Len(q) + 1] = n /\ Len(q) \in Nat
  OBVIOUS
<1>2. \A i \in 1..(Len(q) + 1) : i \in 1..Len(q) \/ i = Len(q) + 1
  BY <1>1
<1> QED BY <1>1, <1>2

\* What it does to what is listed.
LEMMA AppendLists ==
  ASSUME NEW S, NEW q \in Seq(S), NEW n \in S, NEW p, p = Append(q, n)
  PROVE  /\ Listed(p) = Listed(q) \cup {n}
         /\ Once(q) /\ n \notin Listed(q) => Once(p)
<1>1. /\ \A i \in DOMAIN p : \/ i \in DOMAIN q /\ p[i] = q[i]
                             \/ i = Len(q) + 1 /\ p[i] = n
      /\ \A i \in DOMAIN q : i \in DOMAIN p /\ p[i] = q[i]
      /\ Len(q) + 1 \in DOMAIN p /\ p[Len(q) + 1] = n
  BY AppendIs
<1>2. Listed(p) = Listed(q) \cup {n}
  BY <1>1 DEF Listed
<1>3. Once(q) /\ n \notin Listed(q) => Once(p)
  BY <1>1 DEF Once, Listed
<1> QED BY <1>2, <1>3
-----------------------------------------------------------------------------
(***************************************************************************)
(* Loops: what a fold says of them, which decisions and events keep it     *)
(* true.  Two hypotheses are needed that admission does not check,         *)
(* RoutesStayInside and, for what runs behind a loop, EnteredByEntry.      *)
(***************************************************************************)

\* In the iteration at hand, or outside of loops, n was started.
Touched(s, n) == n \in s.running \cup s.finished \/ s.failures[n] # <<>>

\* The loops n is behind.
Upstream(n) ==
  {r \in Regions \ RegionsOf(n) : Def.pred[n] \cap Def.members[r] # {}}

\* The loops n is behind are done, and the loop n is in was entered.
Reached(s, n) ==
  EnteredByEntry =>
    /\ \A r \in Upstream(n) : s.loops[r].stopped = "condition_false"
    /\ \A r \in RegionsOf(n) : n = Def.entry[r] \/ Touched(s, Def.entry[r])

\* n may be started, and may finish.
May(s, n) ==
  /\ n \in Nodes
  /\ Reached(s, n)
  /\ \A r \in RegionsOf(n) : ~HasStopped(s, r)

Readings == {<<>>, <<TRUE>>, <<FALSE>>}

\* Why a loop stops, as far as something follows from it.
Justifies(s, r, reason) ==
  LET go == s.control[Def.continuedBy[r]].go IN
  /\ reason = "condition_false" => go = <<FALSE>> /\ ~IsOpen(s, r)
  /\ reason = "iterations" =>
       go = <<TRUE>> /\ s.loops[r].finished = Def.budget[r].iterations

LoopOK(s, r) ==
  /\ s.loops[r].started \in Nat /\ s.loops[r].finished \in Nat
  /\ s.loops[r].finished <= s.loops[r].started
  /\ s.loops[r].started <= Def.budget[r].iterations
  /\ Justifies(s, r, s.loops[r].stopped)

\* The parts of a fold that loops are about are well formed.
Formed(s) ==
  /\ s.running \cup s.finished \subseteq Nodes
  /\ s.failures \in [Nodes -> Seq(FailureKinds)]
  /\ DOMAIN s.control = Nodes
  /\ \A n \in Nodes :
       DOMAIN s.control[n] = {"go", "inv", "measure"} /\ s.control[n].go \in Readings

LoopsOK(s) ==
  /\ Formed(s)
  /\ \A n \in Nodes : Touched(s, n) => Reached(s, n)
  /\ \A i \in DOMAIN s.outstanding : May(s, s.outstanding[i].node)
  /\ \A r \in Regions : LoopOK(s, r)

\* What is true of the loops when e is recorded.
LoopFits(s, e) ==
  /\ e.kind = "node_started" => May(s, e.node)
  /\ e.kind = "node_finished" => May(s, e.node) /\ e.control.go \in Readings
  /\ e.kind = "node_failed" =>
       e.node \in Nodes /\ Reached(s, e.node) /\ e.failure \in FailureKinds
  /\ e.kind = "effect_claimed" => May(s, e.node)
  /\ e.kind \in LoopKinds => e.region \in Regions /\ ~HasStopped(s, e.region)
  /\ e.kind \in {"iteration_started", "loop_stopped"} => s.outstanding = <<>>
  /\ e.kind = "iteration_started" => ~IterationsExhausted(s, e.region)
  /\ e.kind = "loop_stopped" => Justifies(s, e.region, e.reason)

\* What is true of the loops when d is decided.
LoopGrounded(s, d) ==
  /\ d.do \in {"start_node", "perform"} => May(s, d.node)
  /\ d.do = "time_out" => d.node \in s.running
  /\ d.do \in {"stop_loop", "start_iteration", "finish_iteration"} =>
       d.region \in Regions /\ ~HasStopped(s, d.region)
  /\ d.do \in {"start_iteration", "stop_loop"} => s.outstanding = <<>>
  /\ d.do = "start_iteration" => ~IterationsExhausted(s, d.region)
  /\ d.do = "stop_loop" => Justifies(s, d.region, d.reason)

\* decide_loop stops a loop that has not stopped, and never because its
\* condition is false or its iterations are spent.
LEMMA LoopStops ==
  ASSUME NEW s, s.outstanding = <<>>, NEW d \in LoopRule(s)
  PROVE  LoopGrounded(s, d)
<1> DEFINE speaks == {r \in Regions : LoopRuleOf(s, r) # {}}
<1>1. LoopRule(s) = IF speaks = {} THEN {} ELSE LoopRuleOf(s, Least(speaks))
  BY DEF LoopRule, FirstOf
<1>2. speaks \subseteq Nat
  BY DefAssumption, Zenon
<1>3. Least(speaks) \in speaks
  <2>1. speaks # {}
    BY <1>1
  <2> HIDE DEF speaks
  <2> QED BY <1>2, <2>1, LeastIsLeast, Zenon
<1>4. PICK r \in Regions : d \in LoopRuleOf(s, r)
  BY <1>1, <1>3, Zenon
<1>5. \/ d = Fail("loop_stopped")
      \/ /\ ~HasStopped(s, r)
         /\ \E reason \in {"wall_time", "effects", "invariant_failed", "non_progress"} :
              d = StopLoop(r, reason)
  <2>1. Exhausted(s, r) # {} =>
          (CHOOSE b \in Exhausted(s, r) : TRUE) \in {"wall_time", "effects"}
    <3>1. Exhausted(s, r) \subseteq {"wall_time", "effects"}
      BY Zenon DEF Exhausted
    <3> QED BY <3>1
  <2> QED BY <1>4, <2>1, Zenon DEF LoopRuleOf
<1>6. CASE d = Fail("loop_stopped")
  BY <1>6 DEF Fail, LoopGrounded
<1>7. ASSUME ~HasStopped(s, r),
             NEW reason \in {"wall_time", "effects", "invariant_failed", "non_progress"},
             d = StopLoop(r, reason)
      PROVE  LoopGrounded(s, d)
  <2>1. d.do = "stop_loop" /\ d.region = r /\ d.reason = reason
    BY <1>7 DEF StopLoop
  <2>2. Justifies(s, r, reason)
    BY DEF Justifies
  <2> QED BY <1>7, <2>1, <2>2 DEF LoopGrounded
<1> QED BY <1>5, <1>6, <1>7

\* A node of the same loop as one that was started may be started.
LEMMA InsideMay ==
  ASSUME NEW s, NEW r \in Regions, ~HasStopped(s, r),
         NEW n \in Def.members[r], Touched(s, n), Reached(s, n),
         Touched(s, Def.entry[r]) => Reached(s, Def.entry[r]),
         NEW m \in Def.members[r]
  PROVE  May(s, m)
<1>1. m \in Nodes /\ Def.members[r] \subseteq Nodes
  BY DefAssumption
<1>2. RegionsOf(m) = {r} /\ RegionsOf(n) = {r}
  <2>1. \A q \in Regions \ {r} : Def.members[q] \cap Def.members[r] = {}
    BY DefAssumption
  <2> QED BY <2>1 DEF RegionsOf
<1>3. ASSUME EnteredByEntry PROVE Touched(s, Def.entry[r])
  <2>1. n = Def.entry[r] \/ Touched(s, Def.entry[r])
    BY <1>2, <1>3 DEF Reached
  <2> QED BY <2>1
<1>4. Reached(s, m)
  <2>1. CASE m = Def.entry[r]
    BY <1>3, <2>1 DEF Reached
  <2>2. CASE m # Def.entry[r]
    <3>1. ASSUME EnteredByEntry PROVE Upstream(m) = {}
      <4>1. Def.pred[m] \subseteq Def.members[r]
        BY <2>2, <3>1 DEF EnteredByEntry
      <4>2. \A q \in Regions \ {r} : Def.members[q] \cap Def.members[r] = {}
        BY DefAssumption
      <4> QED BY <1>2, <4>1, <4>2 DEF Upstream
    <3> QED BY <1>2, <1>3, <3>1 DEF Reached
  <2> QED BY <2>1, <2>2
<1> QED BY <1>1, <1>2, <1>4 DEF May

\* A route that stays inside the loop restarts a node that may run, or stops
\* the loop for its failures.
LEMMA FailureLoops ==
  ASSUME RoutesStayInside, NEW s, LoopsOK(s), s.outstanding = <<>>,
         NEW d \in FailureRule(s)
  PROVE  LoopGrounded(s, d)
<1> DEFINE Rule(n) == IF \E r \in RegionsOf(n) : ~HasStopped(s, r)
                      THEN {Repair(s, r, n) : r \in RegionsOf(n)}
                      ELSE {Fail("node")}
           speaks == {n \in Unresolved(s) : Rule(n) # {}}
<1>1. FailureRule(s) = IF speaks = {} THEN {} ELSE Rule(Least(speaks))
  BY DEF FailureRule, FirstOf
<1>2. speaks # {} /\ speaks \subseteq Nat
  <2>1. Unresolved(s) \subseteq Nat
    BY DefAssumption DEF Unresolved
  <2> QED BY <1>1, <2>1, Zenon
<1>3. Least(speaks) \in speaks
  <2> HIDE DEF speaks
  <2> QED BY <1>2, LeastIsLeast, Zenon
<1>4. PICK n \in Unresolved(s) : d \in Rule(n)
  BY <1>1, <1>2, <1>3, Zenon
<1>5. CASE d = Fail("node")
  BY <1>5 DEF Fail, LoopGrounded
<1>6. ASSUME NEW r \in RegionsOf(n), NEW q \in RegionsOf(n), ~HasStopped(s, q),
             d = Repair(s, r, n)
      PROVE  LoopGrounded(s, d)
  <2>1. r \in Regions /\ q = r /\ n \in Def.members[r] /\ ~HasStopped(s, r)
    BY <1>6, DefAssumption DEF RegionsOf
  <2>2. n \in Nodes /\ Touched(s, n)
    BY <1>4 DEF Unresolved, Touched
  <2>3. Reached(s, n) /\ (Touched(s, Def.entry[r]) => Reached(s, Def.entry[r]))
    <3>1. Def.entry[r] \in Nodes
      BY <2>1, DefAssumption
    <3> QED BY <2>2, <3>1 DEF LoopsOK
  <2>4. \A m \in Def.members[r] : May(s, m)
    BY <2>1, <2>2, <2>3, InsideMay
  <2> DEFINE failure == LastFailure(s, n)
             route == Def.routes[r][failure]
  <2>5. CASE failure \notin DOMAIN Def.routes[r]
    BY <1>6, <2>5 DEF Repair, Fail, LoopGrounded
  <2>6. CASE failure \in DOMAIN Def.routes[r]
    <3>1. /\ route.do \in {"retry", "repair", "escalate", "reject"}
          /\ route.do \in {"retry", "repair"} => route.node \in Def.members[r]
      BY <2>1, <2>6, DefAssumption DEF RoutesStayInside
    <3>2. \/ d = StopLoop(r, "repair_exhausted")
          \/ route.do \in {"retry", "repair"} /\ d = StartNode(route.node)
          \/ \E wait : d = [do |-> "suspend", wait |-> wait]
          \/ d = Fail("node")
      <4>1. d = CASE route.do = "retry" ->
                       IF FailureCount(s, n, failure) > route.attempts
                       THEN StopLoop(r, "repair_exhausted")
                       ELSE StartNode(route.node)
                  [] route.do = "repair" -> StartNode(route.node)
                  [] route.do = "escalate" ->
                       [do |-> "suspend", wait |-> Gate(n, route.to)]
                  [] route.do = "reject" -> Fail("node")
        BY <1>6, <2>6, Zenon DEF Repair
      <4> HIDE DEF route, failure
      <4> QED BY <3>1, <4>1, Zenon
    <3> HIDE DEF route
    <3>3. CASE d = StopLoop(r, "repair_exhausted")
      <4>1. Justifies(s, r, "repair_exhausted")
        BY DEF Justifies
      <4> QED BY <2>1, <3>3, <4>1 DEF StopLoop, LoopGrounded
    <3>4. CASE route.do \in {"retry", "repair"} /\ d = StartNode(route.node)
      BY <2>4, <3>1, <3>4 DEF StartNode, LoopGrounded
    <3>5. CASE \E wait : d = [do |-> "suspend", wait |-> wait]
      BY <3>5 DEF LoopGrounded
    <3>6. CASE d = Fail("node")
      BY <3>6 DEF Fail, LoopGrounded
    <3> QED BY <3>2, <3>3, <3>4, <3>5, <3>6
  <2> QED BY <2>5, <2>6
<1> QED BY <1>4, <1>5, <1>6

\* decide_one_loop opens an iteration the budget allows, and stops a loop
\* between iterations: because its reading says so, or because the budget is
\* spent and its reading says to go on.
LEMMA IterationLoops ==
  ASSUME NEW s, LoopsOK(s), s.outstanding = <<>>, NEW d \in IterationRule(s)
  PROVE  LoopGrounded(s, d)
<1> DEFINE speaks == {r \in Regions : IterationRuleOf(s, r) # {}}
<1>1. IterationRule(s) =
        IF speaks = {} THEN {} ELSE IterationRuleOf(s, Least(speaks))
  BY DEF IterationRule, FirstOf
<1>2. speaks \subseteq Nat
  BY DefAssumption, Zenon
<1>3. Least(speaks) \in speaks
  <2>1. speaks # {}
    BY <1>1
  <2> HIDE DEF speaks
  <2> QED BY <1>2, <2>1, LeastIsLeast, Zenon
<1>4. PICK r \in Regions : d \in IterationRuleOf(s, r)
  BY <1>1, <1>3, Zenon
<1> DEFINE go == s.control[Def.continuedBy[r]].go
           p == s.loops[r]
<1>5. /\ ~HasStopped(s, r)
      /\ \/ d = FinishIteration(s, r)
         \/ d = Fail("control_missing")
         \/ ~IsOpen(s, r) /\ p.finished = 0 /\ d = StartIteration(r)
         \/ ~IsOpen(s, r) /\ go = <<FALSE>> /\ d = StopLoop(r, "condition_false")
         \/ /\ ~IsOpen(s, r) /\ go \notin {<<>>, <<FALSE>>}
            /\ IterationsExhausted(s, r) /\ d = StopLoop(r, "iterations")
         \/ ~IterationsExhausted(s, r) /\ d = StartIteration(r)
  BY <1>4, Zenon DEF IterationRuleOf
<1>6. /\ LoopOK(s, r) /\ go \in Readings
      /\ Def.budget[r].iterations \in Nat \ {0}
  <2>1. Def.continuedBy[r] \in Nodes
    BY DefAssumption
  <2>2. Def.budget[r].iterations \in Nat \ {0}
    BY DefAssumption
  <2> QED BY <2>1, <2>2 DEF LoopsOK, Formed
<1>7. ~IsOpen(s, r) => p.started = p.finished
  BY <1>6 DEF IsOpen, LoopOK
<1>8. CASE d = FinishIteration(s, r)
  <2>1. \/ FinishIteration(s, r) = [do |-> "control_missing"]
        \/ \E record : FinishIteration(s, r) =
             [do |-> "finish_iteration", region |-> r, record |-> record]
    BY Zenon DEF FinishIteration
  <2> QED BY <1>5, <1>8, <2>1 DEF LoopGrounded
<1>9. CASE d = Fail("control_missing")
  BY <1>9 DEF Fail, LoopGrounded
<1>10. CASE d = StartIteration(r) /\ ~IterationsExhausted(s, r)
  BY <1>5, <1>10 DEF StartIteration, LoopGrounded
<1>11. CASE ~IsOpen(s, r) /\ p.finished = 0 /\ d = StartIteration(r)
  <2>1. ~IterationsExhausted(s, r)
    BY <1>6, <1>7, <1>11 DEF IterationsExhausted
  <2> QED BY <1>10, <1>11, <2>1
<1>12. ASSUME NEW reason, d = StopLoop(r, reason), Justifies(s, r, reason)
       PROVE  LoopGrounded(s, d)
  BY <1>5, <1>12 DEF StopLoop, LoopGrounded
<1>13. CASE ~IsOpen(s, r) /\ go = <<FALSE>> /\ d = StopLoop(r, "condition_false")
  <2>1. Justifies(s, r, "condition_false")
    BY <1>13 DEF Justifies
  <2> QED BY <1>12, <1>13, <2>1
<1>14. CASE /\ ~IsOpen(s, r) /\ go \notin {<<>>, <<FALSE>>}
            /\ IterationsExhausted(s, r) /\ d = StopLoop(r, "iterations")
  <2>1. go = <<TRUE>>
    BY <1>6, <1>14, Zenon DEF Readings
  <2>2. p.finished = Def.budget[r].iterations
    BY <1>6, <1>7, <1>14 DEF LoopOK, IterationsExhausted
  <2>3. Justifies(s, r, "iterations")
    BY <2>1, <2>2 DEF Justifies
  <2> QED BY <1>12, <1>14, <2>3
<1> QED BY <1>5, <1>8, <1>9, <1>10, <1>11, <1>13, <1>14

\* With every stopped loop at its false condition, a ready node may be started:
\* the loops it is behind are done, and the loop it is in was entered.
LEMMA ReadyMay ==
  ASSUME NEW s, LoopsOK(s), LoopRule(s) = {}, NEW n \in Ready(s)
  PROVE  May(s, n)
<1>1. n \in Nodes /\ \A r \in RegionsOf(n) : ~HasStopped(s, r)
  BY DEF Ready
<1>2. \A p \in Def.pred[n] : Settled(s, n, p)
  BY DEF Ready
<1>3. ASSUME NEW r \in Upstream(n) PROVE s.loops[r].stopped = "condition_false"
  <2>1. r \in Regions /\ n \notin Def.members[r]
    BY DEF Upstream, RegionsOf
  <2>2. PICK p \in Def.pred[n] : p \in Def.members[r]
    BY DEF Upstream
  <2>3. HasStopped(s, r)
    BY <1>2, <2>1, <2>2 DEF Settled, RegionsOf
  <2>4. LoopRuleOf(s, r) = {}
    BY <2>1, LoopIs
  <2> QED BY <2>3, <2>4 DEF LoopRuleOf
<1>4. ASSUME EnteredByEntry, NEW r \in RegionsOf(n), n # Def.entry[r]
      PROVE  Touched(s, Def.entry[r])
  <2>1. r \in Regions /\ n \in Def.members[r]
    BY DEF RegionsOf
  <2>2. PICK p \in Def.pred[n] : p \in Def.members[r]
    BY <1>4, <2>1 DEF EnteredByEntry
  <2>3. Touched(s, p)
    BY <1>2, <2>2 DEF Settled, Touched
  <2>4. p \in Nodes /\ r \in RegionsOf(p)
    BY <2>1, <2>2, DefAssumption DEF RegionsOf
  <2>5. p = Def.entry[r] \/ Touched(s, Def.entry[r])
    BY <1>4, <2>3, <2>4 DEF LoopsOK, Reached
  <2> QED BY <2>3, <2>5
<1>5. Reached(s, n)
  BY <1>3, <1>4 DEF Reached
<1> QED BY <1>1, <1>5 DEF May

\* next_ready_node opens nodes that may be started.
LEMMA NodeLoops ==
  ASSUME NEW s, LoopsOK(s), LoopRule(s) = {}, NEW d \in NodeRule(s)
  PROVE  LoopGrounded(s, d)
<1> DEFINE Rule(n) == IF n \in Effects \ s.completed
                      THEN {Perform(s, n, 0, FreshKey(n, 0))}
                      ELSE {StartNode(n)}
           speaks == {n \in Ready(s) : Rule(n) # {}}
<1>1. NodeRule(s) = IF speaks = {} THEN {} ELSE Rule(Least(speaks))
  BY DEF NodeRule, FirstOf
<1>2. speaks \subseteq Nodes
  BY DEF Ready
<1>3. speaks # {} /\ speaks \subseteq Nat
  BY <1>1, <1>2, DefAssumption, Zenon
<1>4. Least(speaks) \in speaks
  <2> HIDE DEF speaks
  <2> QED BY <1>3, LeastIsLeast, Zenon
<1>5. PICK n \in Ready(s) : d \in Rule(n)
  BY <1>1, <1>3, <1>4, Zenon
<1>6. May(s, n)
  BY ReadyMay
<1>7. d.do \in {"start_node", "perform"} /\ d.node = n
  BY <1>5 DEF Perform, StartNode
<1> QED BY <1>6, <1>7 DEF LoopGrounded

\* Every decision the core takes respects the loops: it opens a node only while
\* the loop the node is in goes on and, where loops are entered by their entry,
\* once every loop the node is behind stopped on a false condition (May); it
\* opens no more iterations than the budget
\* allows; it stops a loop as "condition_false" only on a reading that says
\* so, as "iterations" only with the budget spent and a reading to go on.
THEOREM DecideRespectsLoops ==
  ASSUME RoutesStayInside, NEW s, Foldable(s), LoopsOK(s)
  PROVE  LoopGrounded(s, Decide(s))
<1> DEFINE d == DecideNext(s)
<1>1. LoopGrounded(s, d)
  <2>1. CASE IsTerminal(s)
    <3>1. d = Idle
      BY <2>1 DEF DecideNext
    <3> QED BY <3>1 DEF LoopGrounded, Idle
  <2>2. CASE ~IsTerminal(s)
    <3>1. PICK i \in 1..12 : /\ d \in Rules(s)[i]
                             /\ \A k \in 1..(i - 1) : Rules(s)[k] = {}
      BY <2>2, FirstRuleAnswers
    <3> HIDE DEF d
    <3>2. i > 1 => s.outstanding = <<>>
      <4>1. i > 1 => OutstandingRule(s) = {}
        BY <3>1 DEF Rules
      <4> QED BY <4>1, NothingOpen
    <3>3. i > 8 => LoopRule(s) = {}
      BY <3>1 DEF Rules
    <3>4. CASE i = 1
      <4>1. d \in OutstandingRule(s)
        BY <3>1, <3>4 DEF Rules
      <4>2. s.outstanding # <<>>
        BY <4>1 DEF OutstandingRule
      <4>3. 1 \in DOMAIN s.outstanding /\ Head(s.outstanding) = s.outstanding[1]
        BY <4>2 DEF Foldable
      <4>4. Head(s.outstanding).node \in Effects
        BY <4>2, <4>3 DEF Foldable, Claims
      <4>5. d.do \in {"perform", "halt"} /\ d.node = Head(s.outstanding).node
        <5>1. Def.idem[Head(s.outstanding).node] \in Idempotencies
          BY <4>4, DefAssumption
        <5> QED BY <4>1, <4>2, <5>1 DEF OutstandingRule, Perform, Idempotencies
      <4>6. May(s, d.node)
        BY <4>3, <4>5 DEF LoopsOK
      <4> QED BY <4>5, <4>6 DEF LoopGrounded
    <3>5. CASE i \in {2, 3, 4, 5, 7, 12}
      <4>1. d \in UncertainRule(s) \cup CancelRule(s) \cup WaitRule(s) \cup
                  StartRule(s) \cup DeadlineRule(s) \cup EndRule(s)
        BY <3>1, <3>5 DEF Rules
      <4>2. d.do \in {"fail", "compensate", "cancel", "resume_wait", "idle",
                      "start", "complete"}
        <5>1. CASE d \in CancelRule(s)
          BY <5>1 DEF CancelRule, Compensate
        <5> QED BY <4>1, <5>1 DEF UncertainRule, WaitRule, StartRule,
                     DeadlineRule, EndRule, Fail, Idle
      <4> QED BY <4>2 DEF LoopGrounded
    <3>6. CASE i = 6
      <4>1. d \in TimeOutRule(s)
        BY <3>1, <3>6 DEF Rules
      <4> QED BY <4>1, TimeOutIs DEF Foldable, LoopGrounded
    <3>7. CASE i = 8
      <4>1. d \in LoopRule(s)
        BY <3>1, <3>7 DEF Rules
      <4> QED BY <3>2, <3>7, <4>1, LoopStops
    <3>8. CASE i = 9
      <4>1. d \in FailureRule(s)
        BY <3>1, <3>8 DEF Rules
      <4> QED BY <3>2, <3>8, <4>1, FailureLoops
    <3>9. CASE i = 10
      <4>1. d \in IterationRule(s)
        BY <3>1, <3>9 DEF Rules
      <4> QED BY <3>2, <3>9, <4>1, IterationLoops
    <3>10. CASE i = 11
      <4>1. d \in NodeRule(s)
        BY <3>1, <3>10 DEF Rules
      <4> QED BY <3>3, <3>10, <4>1, NodeLoops
    <3>11. i \in {1, 2, 3, 4, 5, 6, 7, 8, 9, 10, 11, 12}
      OBVIOUS
    <3> QED BY <3>4, <3>5, <3>6, <3>7, <3>8, <3>9, <3>10, <3>11
  <2> QED BY <2>1, <2>2
<1>2. CASE d.do = "fail" /\ Owed(s) # {}
  <2>1. Decide(s) \in Compensate(s)
    <3>1. Decide(s) = Only(Compensate(s)) /\ Compensate(s) # {}
      BY <1>2 DEF Decide, Compensate
    <3> QED BY <3>1 DEF Only
  <2>2. Decide(s).do = "compensate"
    BY <2>1 DEF Compensate
  <2> QED BY <2>2 DEF LoopGrounded
<1>3. CASE ~(d.do = "fail" /\ Owed(s) # {})
  BY <1>1, <1>3 DEF Decide
<1> QED BY <1>2, <1>3

\* From s to t no node is taken back and no loop stops.
Onward(s, t) ==
  /\ \A n \in Nodes : Touched(s, n) => Touched(t, n)
  /\ \A r \in Regions : t.loops[r].stopped = s.loops[r].stopped

LEMMA MayStays ==
  ASSUME NEW s, NEW t, Onward(s, t), NEW n
  PROVE  /\ Reached(s, n) => Reached(t, n)
         /\ May(s, n) => May(t, n)
<1>1. ASSUME Reached(s, n) PROVE Reached(t, n)
  <2> SUFFICES ASSUME EnteredByEntry
               PROVE  /\ \A r \in Upstream(n) : t.loops[r].stopped = "condition_false"
                      /\ \A r \in RegionsOf(n) : n = Def.entry[r] \/ Touched(t, Def.entry[r])
    BY DEF Reached
  <2>1. /\ \A r \in Upstream(n) : s.loops[r].stopped = "condition_false"
        /\ \A r \in RegionsOf(n) : n = Def.entry[r] \/ Touched(s, Def.entry[r])
    BY <1>1 DEF Reached
  <2>2. Upstream(n) \subseteq Regions /\ RegionsOf(n) \subseteq Regions
    BY DEF Upstream, RegionsOf
  <2>3. \A r \in Regions : Def.entry[r] \in Nodes
    BY DefAssumption
  <2> QED BY <2>1, <2>2, <2>3 DEF Onward
<1>2. ASSUME May(s, n) PROVE May(t, n)
  <2>1. \A r \in RegionsOf(n) : HasStopped(t, r) <=> HasStopped(s, r)
    BY DEF Onward, HasStopped, RegionsOf
  <2> QED BY <1>1, <1>2, <2>1 DEF May
<1> QED BY <1>1, <1>2

\* What is enough for the loops to stay in order while none of them moves.
LEMMA OnwardKeeps ==
  ASSUME NEW s, NEW t, LoopsOK(s), Formed(t), Onward(s, t),
         \A n \in Nodes : Touched(t, n) => Reached(s, n),
         \A i \in DOMAIN t.outstanding : May(s, t.outstanding[i].node),
         \A r \in Regions : /\ t.loops[r].started = s.loops[r].started
                            /\ t.loops[r].finished = s.loops[r].finished,
         \A r \in Regions : HasStopped(s, r) =>
           t.control[Def.continuedBy[r]].go = s.control[Def.continuedBy[r]].go
  PROVE  LoopsOK(t)
<1>1. ASSUME NEW r \in Regions PROVE LoopOK(t, r)
  <2>1. /\ t.loops[r].started = s.loops[r].started
        /\ t.loops[r].finished = s.loops[r].finished
        /\ t.loops[r].stopped = s.loops[r].stopped
    BY DEF Onward
  <2>2. LoopOK(s, r)
    BY DEF LoopsOK
  <2>3. Justifies(t, r, t.loops[r].stopped)
    <3>1. CASE HasStopped(s, r)
      <4>1. t.control[Def.continuedBy[r]].go = s.control[Def.continuedBy[r]].go
        BY <3>1
      <4> QED BY <2>1, <2>2, <4>1 DEF LoopOK, Justifies, IsOpen
    <3>2. CASE ~HasStopped(s, r)
      BY <2>1, <3>2 DEF HasStopped, Justifies
    <3> QED BY <3>1, <3>2
  <2> QED BY <2>1, <2>2, <2>3 DEF LoopOK
<1>2. \A n \in Nodes : Touched(t, n) => Reached(t, n)
  BY MayStays
<1>3. \A i \in DOMAIN t.outstanding : May(t, t.outstanding[i].node)
  BY MayStays
<1> QED BY <1>1, <1>2, <1>3 DEF LoopsOK

\* An event that touches neither a node nor a loop, and opens no claim.
Aside(s, t) ==
  /\ t.running = s.running /\ t.finished = s.finished
  /\ t.failures = s.failures /\ t.control = s.control
  /\ t.loops = s.loops
  /\ \A i \in DOMAIN t.outstanding : HasClaim(s, t.outstanding[i].node)

LEMMA AsideKeeps ==
  ASSUME NEW s, NEW t, LoopsOK(s), Aside(s, t)
  PROVE  LoopsOK(t) /\ Onward(s, t)
<1>1. Onward(s, t)
  BY DEF Aside, Onward, Touched
<1>2. Formed(t)
  BY DEF Aside, LoopsOK, Formed
<1>3. \A n \in Nodes : Touched(t, n) => Reached(s, n)
  BY DEF Aside, LoopsOK, Touched
<1>4. \A i \in DOMAIN t.outstanding : May(s, t.outstanding[i].node)
  BY DEF Aside, LoopsOK, HasClaim
<1>5. \A r \in Regions :
        /\ t.loops[r].started = s.loops[r].started
        /\ t.loops[r].finished = s.loops[r].finished
        /\ t.control[Def.continuedBy[r]].go = s.control[Def.continuedBy[r]].go
  BY DEF Aside
<1> QED BY <1>1, <1>2, <1>3, <1>4, <1>5, OnwardKeeps

\* The events that are neither of a node's course nor of a loop's.
LEMMA AsideEvents ==
  ASSUME NEW s, NEW e, Shaped(s), s.outstanding \in Seq(Claims),
         e.kind \notin LoopKinds \cup
           {"node_started", "node_finished", "node_failed", "effect_claimed"}
           \/ ~Writable(s)
  PROVE  Aside(s, Apply(s, e))
<1> DEFINE t == Apply(s, e)
           q == s.outstanding
           kept == OtherClaims(s, e.node)
<1> SUFFICES Aside(s, t)
  OBVIOUS
<1>0. /\ kept \in Seq(Claims)
      /\ \A i \in 1..Len(kept) :
           kept[i].node # e.node /\ \E j \in 1..Len(q) : kept[i] = q[j]
  BY OtherClaimsAre
<1> USE DEF Shaped, Fields
<1>1. /\ t.running = s.running /\ t.finished = s.finished
      /\ t.failures = s.failures /\ t.control = s.control
      /\ t.loops = s.loops
      /\ t.outstanding = s.outstanding \/ t.outstanding = OtherClaims(s, e.node)
  <2>1. CASE t = Unfoldable(s)
    BY <2>1, Zenon DEF Unfoldable
  <2>2. CASE ~Writable(s)
    BY <2>1, <2>2 DEF Apply, Writable
  <2>3. CASE Writable(s)
    <3>1. s.ok /\ ~IsTerminal(s)
      BY <2>3 DEF Writable
    <3>2. CASE e.kind \in EffectKinds
      <4>1. \/ t = EffectFinalized(s, e.node)
            \/ t = EffectAbandoned(s, e.node) \/ t = EffectUncertain(s, e.node)
        BY <2>3, <3>1, <3>2 DEF Apply, EffectKinds, FinalStatuses
      <4> QED BY <4>1, Zenon DEF EffectFinalized, EffectAbandoned,
                                 EffectUncertain, Unfoldable
    <3>3. CASE e.kind \in {"started", "suspended", "resumed",
                           "cancellation_requested", "compensated"} \cup FinalStatuses
      <4>1. \/ t = Started(s) \/ t = Suspended(s, e.wait) \/ t = Resumed(s)
            \/ t = CancellationRequested(s) \/ t = Compensated(s, e.node)
            \/ t = Ended(s, e.kind)
        BY <3>1, <3>3 DEF Apply, FinalStatuses
      <4> QED BY <4>1, Zenon DEF Started, Suspended, Resumed,
                   CancellationRequested, Compensated, Ended, Unfoldable
    <3>4. CASE e.kind \notin EffectKinds \cup PlainKinds
      <4>1. t = Unfoldable(s)
        BY <3>1, <3>4 DEF Apply, EffectKinds, PlainKinds, LoopKinds, FinalStatuses
      <4> QED BY <2>1, <4>1
    <3> QED BY <2>3, <3>2, <3>3, <3>4 DEF PlainKinds, EffectKinds
  <2> QED BY <2>2, <2>3
<1>2. CASE t.outstanding = s.outstanding
  BY <1>1, <1>2 DEF Aside, HasClaim
<1>3. CASE t.outstanding = OtherClaims(s, e.node)
  <2> HIDE DEF kept
  <2>2. DOMAIN q = 1..Len(q) /\ DOMAIN kept = 1..Len(kept)
    BY <1>0
  <2>3. \A i \in DOMAIN kept : HasClaim(s, kept[i].node)
    BY <1>0, <2>2 DEF HasClaim
  <2>4. t.outstanding = kept
    BY <1>3 DEF kept
  <2> HIDE DEF t
  <2> QED BY <1>1, <2>3, <2>4 DEF Aside
<1> QED BY <1>1, <1>2, <1>3

\* The events of a node's course.
LEMMA CourseEvents ==
  ASSUME NEW s, NEW e, Shaped(s), s.outstanding \in Seq(Claims), Writable(s),
         LoopsOK(s), LoopFits(s, e),
         e.kind \in {"node_started", "node_finished", "node_failed", "effect_claimed"},
         e.kind = "effect_claimed" =>
           [node |-> e.node, attempt |-> e.attempt, key |-> e.key] \in Claims
  PROVE  LoopsOK(Apply(s, e)) /\ Onward(s, Apply(s, e))
<1> DEFINE t == Apply(s, e)
           n == e.node
<1>0. s.ok /\ ~IsTerminal(s) /\ Formed(s)
  BY DEF Writable, LoopsOK
<1>1. /\ \A m \in Nodes : Touched(s, m) => Reached(s, m)
      /\ \A i \in DOMAIN s.outstanding : May(s, s.outstanding[i].node)
  BY DEF LoopsOK
<1>2. CASE t = Unfoldable(s)
  <2>1. Aside(s, t)
    BY <1>2, Zenon DEF Shaped, Fields, Unfoldable, Aside, HasClaim
  <2> HIDE DEF t
  <2>2. LoopsOK(t) /\ Onward(s, t)
    BY <2>1, AsideKeeps
  <2> QED BY <2>2 DEF t
<1>3. CASE e.kind = "node_started" /\ n \notin s.running
  <2>1. t = [s EXCEPT !.status = "running", !.running = @ \cup {n}, !.age[n] = 0]
    BY <1>0, <1>3 DEF Apply, FinalStatuses, NodeStarted
  <2>2. /\ t.running = s.running \cup {n} /\ t.finished = s.finished
        /\ t.failures = s.failures /\ t.control = s.control
        /\ t.outstanding = s.outstanding /\ t.loops = s.loops
    BY <2>1, Zenon DEF Shaped, Fields
  <2>3. n \in Nodes /\ Reached(s, n)
    BY <1>3 DEF LoopFits, May
  <2> HIDE DEF t
  <2>4. Formed(t)
    BY <1>0, <2>2, <2>3 DEF Formed
  <2>5. Onward(s, t) /\ \A m \in Nodes : Touched(t, m) => Touched(s, m) \/ m = n
    BY <2>2 DEF Onward, Touched
  <2>6. LoopsOK(t)
    BY <1>1, <2>2, <2>3, <2>4, <2>5, OnwardKeeps
  <2> QED BY <2>5, <2>6 DEF t
<1>4. CASE e.kind = "node_finished" /\ n \in s.running
  <2> DEFINE was == s.control[n]
             now == [port \in DOMAIN was |->
                       IF e.control[port] = <<>> THEN was[port] ELSE e.control[port]]
  <2>1. t = [s EXCEPT !.running = @ \ {n}, !.finished = @ \cup {n}, !.age[n] = 0,
                      !.control[n] = now]
    BY <1>0, <1>4, Zenon DEF Apply, FinalStatuses, NodeFinished
  <2>2. /\ t.running = s.running \ {n} /\ t.finished = s.finished \cup {n}
        /\ t.failures = s.failures /\ t.control = [s.control EXCEPT ![n] = now]
        /\ t.outstanding = s.outstanding /\ t.loops = s.loops
    <3> HIDE DEF now
    <3> QED BY <2>1, Zenon DEF Shaped, Fields
  <2>3. /\ n \in Nodes /\ Reached(s, n) /\ \A r \in RegionsOf(n) : ~HasStopped(s, r)
        /\ e.control.go \in Readings
    BY <1>4 DEF LoopFits, May
  <2>4. DOMAIN now = {"go", "inv", "measure"} /\ now.go \in Readings
    <3>1. DOMAIN was = {"go", "inv", "measure"} /\ was.go \in Readings
      BY <1>0, <2>3 DEF Formed
    <3> QED BY <2>3, <3>1
  <2> HIDE DEF t, now
  <2>5. Formed(t)
    BY <1>0, <2>2, <2>3, <2>4 DEF Formed
  <2>6. Onward(s, t) /\ \A m \in Nodes : Touched(t, m) => Touched(s, m)
    BY <1>4, <2>2 DEF Onward, Touched
  <2>7. ASSUME NEW r \in Regions, HasStopped(s, r)
        PROVE  t.control[Def.continuedBy[r]].go = s.control[Def.continuedBy[r]].go
    <3>1. Def.continuedBy[r] \in Def.members[r] /\ Def.continuedBy[r] \in Nodes
      BY DefAssumption
    <3>2. Def.continuedBy[r] # n
      BY <2>3, <2>7, <3>1 DEF RegionsOf
    <3> QED BY <1>0, <2>2, <3>1, <3>2 DEF Formed
  <2>8. LoopsOK(t)
    BY <1>1, <2>2, <2>5, <2>6, <2>7, OnwardKeeps
  <2> QED BY <2>6, <2>8 DEF t
<1>5. CASE e.kind = "node_failed"
  <2>1. t = [s EXCEPT !.running = @ \ {n}, !.age[n] = 0,
                      !.failures[n] = Append(@, e.failure)]
    BY <1>0, <1>5, Zenon DEF Apply, FinalStatuses, NodeFailed
  <2>2. /\ t.running = s.running \ {n} /\ t.finished = s.finished
        /\ t.failures = [s.failures EXCEPT ![n] = Append(@, e.failure)]
        /\ t.control = s.control
        /\ t.outstanding = s.outstanding /\ t.loops = s.loops
    BY <2>1, Zenon DEF Shaped, Fields
  <2>3. n \in Nodes /\ Reached(s, n) /\ e.failure \in FailureKinds
    BY <1>5 DEF LoopFits
  <2> HIDE DEF t
  <2>4. /\ t.failures \in [Nodes -> Seq(FailureKinds)] /\ t.failures[n] # <<>>
        /\ \A m \in Nodes : m # n => t.failures[m] = s.failures[m]
    <3>1. s.failures \in [Nodes -> Seq(FailureKinds)] /\ s.failures[n] \in Seq(FailureKinds)
      BY <1>0, <2>3 DEF Formed
    <3>2. /\ Append(s.failures[n], e.failure) \in Seq(FailureKinds)
          /\ Append(s.failures[n], e.failure) # <<>>
      <4>1. PICK was : was = s.failures[n]
        OBVIOUS
      <4>2. PICK now : now = Append(was, e.failure)
        OBVIOUS
      <4>3. now \in Seq(FailureKinds) /\ Len(was) + 1 \in DOMAIN now
        BY <2>3, <3>1, <4>1, <4>2, AppendIs
      <4>4. now # <<>>
        BY <4>3
      <4> QED BY <4>1, <4>2, <4>3, <4>4
    <3> QED BY <2>2, <2>3, <3>1, <3>2
  <2>5. Formed(t)
    BY <1>0, <2>2, <2>4 DEF Formed
  <2>6. Onward(s, t) /\ \A m \in Nodes : Touched(t, m) => Touched(s, m) \/ m = n
    BY <2>2, <2>4 DEF Onward, Touched
  <2>7. LoopsOK(t)
    BY <1>1, <2>2, <2>3, <2>5, <2>6, OnwardKeeps
  <2> QED BY <2>6, <2>7 DEF t
<1>6. CASE e.kind = "effect_claimed"
  <2> DEFINE claim == [node |-> n, attempt |-> e.attempt, key |-> e.key]
  <2>1. t = EffectClaimed(s, n, e.attempt, e.key)
    BY <1>0, <1>6 DEF Apply, FinalStatuses
  <2>2. /\ t.running = s.running /\ t.finished = s.finished
        /\ t.failures = s.failures /\ t.control = s.control
        /\ t.outstanding = Append(s.outstanding, claim) /\ t.loops = s.loops
    BY <2>1, Zenon DEF Shaped, Fields, EffectClaimed
  <2>3. May(s, n) /\ claim \in Claims /\ claim.node = n
    BY <1>6 DEF LoopFits
  <2> HIDE DEF t, claim
  <2>4. Formed(t)
    BY <1>0, <2>2 DEF Formed
  <2>5. Onward(s, t) /\ \A m \in Nodes : Touched(t, m) => Touched(s, m)
    BY <2>2 DEF Onward, Touched
  <2>6. \A i \in DOMAIN t.outstanding :
          \/ i \in DOMAIN s.outstanding /\ t.outstanding[i] = s.outstanding[i]
          \/ i = Len(s.outstanding) + 1 /\ t.outstanding[i] = claim
    BY <2>2, <2>3, AppendIs
  <2>7. \A i \in DOMAIN t.outstanding : May(s, t.outstanding[i].node)
    BY <1>1, <2>3, <2>6
  <2>8. LoopsOK(t)
    BY <1>1, <2>2, <2>4, <2>5, <2>7, OnwardKeeps
  <2> QED BY <2>5, <2>8 DEF t
<1>7. CASE \/ e.kind = "node_started" /\ n \in s.running
           \/ e.kind = "node_finished" /\ n \notin s.running
  <2>1. t = Unfoldable(s)
    BY <1>0, <1>7 DEF Apply, FinalStatuses, NodeStarted, NodeFinished
  <2> QED BY <1>2, <2>1
<1> QED BY <1>3, <1>4, <1>5, <1>6, <1>7

\* An iteration opens with its members untouched and the count within the
\* budget.
LEMMA IterationOpens ==
  ASSUME NEW s, NEW e, Shaped(s), LoopsShaped(s.loops), Writable(s),
         LoopsOK(s), LoopFits(s, e), e.kind = "iteration_started"
  PROVE  LoopsOK(Apply(s, e))
<1> DEFINE t == Apply(s, e)
           r == e.region
           members == Def.members[r]
<1> SUFFICES LoopsOK(t)
  OBVIOUS
<1>1. /\ r \in Regions /\ ~HasStopped(s, r) /\ s.outstanding = <<>>
      /\ ~IterationsExhausted(s, r)
  BY DEF LoopFits, LoopKinds
<1>2. t = IterationStarted(s, r)
  BY DEF Apply, Writable, FinalStatuses
<1>3. LoopOK(s, r) /\ Formed(s) /\ Def.budget[r].iterations \in Nat
  BY <1>1, DefAssumption DEF LoopsOK
<1>4. CASE IsOpen(s, r)
  <2>1. t = Unfoldable(s)
    BY <1>2, <1>4 DEF IterationStarted, IsOpen
  <2>2. Aside(s, t)
    BY <2>1, Zenon DEF Shaped, Fields, Unfoldable, Aside, HasClaim
  <2> HIDE DEF t
  <2> QED BY <2>2, AsideKeeps
<1>5. CASE ~IsOpen(s, r)
  <2>1. /\ t.running = s.running \ members /\ t.finished = s.finished \ members
        /\ t.failures = [n \in Nodes |-> IF n \in members THEN <<>> ELSE s.failures[n]]
        /\ t.control = [n \in Nodes |-> IF n \in members THEN NoControl ELSE s.control[n]]
        /\ t.outstanding = s.outstanding
        /\ t.loops = [[s.loops EXCEPT ![r].started = @ + 1] EXCEPT ![r].age = 0]
    BY <1>2, <1>5, Zenon DEF Shaped, Fields, IterationStarted, IsOpen
  <2> HIDE DEF t
  <2>2. /\ t.loops[r].started = s.loops[r].started + 1
        /\ t.loops[r].finished = s.loops[r].finished
        /\ t.loops[r].stopped = s.loops[r].stopped
        /\ \A q \in Regions \ {r} : t.loops[q] = s.loops[q]
    <3>1. PICK l : l = s.loops
      OBVIOUS
    <3>2. PICK k : k = [l EXCEPT ![r].started = @ + 1]
      OBVIOUS
    <3>3. DOMAIN l = Regions /\ DOMAIN l[r] = LoopFields
      BY <1>1, <3>1 DEF LoopsShaped
    <3>4. /\ DOMAIN k = Regions /\ DOMAIN k[r] = LoopFields
          /\ k[r].started = l[r].started + 1
          /\ k[r].finished = l[r].finished /\ k[r].stopped = l[r].stopped
          /\ \A q \in Regions \ {r} : k[q] = l[q]
      BY <1>1, <3>2, <3>3 DEF LoopFields
    <3>5. t.loops = [k EXCEPT ![r].age = 0]
      BY <2>1, <3>1, <3>2
    <3>6. /\ t.loops[r].started = k[r].started
          /\ t.loops[r].finished = k[r].finished /\ t.loops[r].stopped = k[r].stopped
          /\ \A q \in Regions \ {r} : t.loops[q] = k[q]
      BY <1>1, <3>4, <3>5 DEF LoopFields
    <3> QED BY <3>1, <3>4, <3>6
  <2>3. Formed(t)
    <3>1. /\ t.running \cup t.finished \subseteq Nodes
          /\ t.failures \in [Nodes -> Seq(FailureKinds)]
      <4>1. t.running \cup t.finished \subseteq Nodes
        BY <1>3, <2>1 DEF Formed
      <4>2. <<>> \in Seq(FailureKinds)
        OBVIOUS
      <4>3. \A n \in Nodes : s.failures[n] \in Seq(FailureKinds)
        BY <1>3 DEF Formed
      <4> HIDE DEF members
      <4>4. t.failures \in [Nodes -> Seq(FailureKinds)]
        BY <2>1, <4>2, <4>3
      <4> QED BY <4>1, <4>4
    <3>2. DOMAIN NoControl = {"go", "inv", "measure"} /\ NoControl.go \in Readings
      BY DEF NoControl, Readings
    <3> HIDE DEF members
    <3> QED BY <1>3, <2>1, <3>1, <3>2 DEF Formed
  <2>4. /\ \A n \in members \cap Nodes : ~Touched(t, n)
        /\ \A n \in Nodes \ members : Touched(t, n) <=> Touched(s, n)
    BY <2>1 DEF Touched
  <2>5. \A q \in Regions \ {r} : Def.members[q] \cap members = {}
    BY <1>1, DefAssumption
  <2>6. \A q \in Regions : /\ Def.entry[q] \in Def.members[q] /\ Def.entry[q] \in Nodes
                           /\ Def.continuedBy[q] \in Def.members[q]
                           /\ Def.continuedBy[q] \in Nodes
    BY DefAssumption
  <2>7. ASSUME NEW n \in Nodes, Touched(t, n) PROVE Reached(t, n)
    <3>1. n \notin members /\ Touched(s, n) /\ Reached(s, n)
      BY <2>4, <2>7 DEF LoopsOK
    <3>2. \A q \in Regions : t.loops[q].stopped = s.loops[q].stopped
      BY <2>2
    <3>3. RegionsOf(n) \subseteq Regions \ {r} /\ Upstream(n) \subseteq Regions
      BY <3>1 DEF RegionsOf, Upstream
    <3>4. \A q \in RegionsOf(n) : Touched(t, Def.entry[q]) <=> Touched(s, Def.entry[q])
      BY <2>4, <2>5, <2>6, <3>3
    <3> QED BY <3>1, <3>2, <3>3, <3>4 DEF Reached
  <2>8. LoopOK(t, r)
    <3>1. s.loops[r].started < Def.budget[r].iterations
      BY <1>1, <1>3 DEF IterationsExhausted, LoopOK
    <3>2. t.loops[r].stopped = "no"
      BY <1>1, <2>2 DEF HasStopped
    <3> QED BY <1>3, <2>2, <3>1, <3>2 DEF LoopOK, Justifies
  <2>9. ASSUME NEW q \in Regions \ {r} PROVE LoopOK(t, q)
    <3>1. t.loops[q] = s.loops[q]
      BY <2>2
    <3>2. t.control[Def.continuedBy[q]] = s.control[Def.continuedBy[q]]
      BY <2>1, <2>5, <2>6
    <3>3. LoopOK(s, q)
      BY DEF LoopsOK
    <3> QED BY <3>1, <3>2, <3>3 DEF LoopOK, Justifies, IsOpen
  <2>10. \A i \in DOMAIN t.outstanding : May(t, t.outstanding[i].node)
    BY <1>1, <2>1
  <2> QED BY <2>3, <2>7, <2>8, <2>9, <2>10 DEF LoopsOK
<1> QED BY <1>4, <1>5

\* An iteration closes, or a loop stops for a reason that is there, with the
\* nodes as they are.
LEMMA LoopMoves ==
  ASSUME NEW s, NEW e, Shaped(s), LoopsShaped(s.loops), Writable(s),
         LoopsOK(s), LoopFits(s, e),
         e.kind \in {"iteration_finished", "loop_stopped"}
  PROVE  LoopsOK(Apply(s, e))
<1> DEFINE t == Apply(s, e)
           r == e.region
           was == s.loops[r]
<1> SUFFICES LoopsOK(t)
  OBVIOUS
<1>0. r \in Regions /\ ~HasStopped(s, r) /\ LoopOK(s, r) /\ Formed(s)
  BY DEF LoopFits, LoopKinds, LoopsOK
<1>w. DOMAIN was = LoopFields
  BY <1>0 DEF LoopsShaped
<1>1. CASE e.kind = "iteration_finished" /\ was.finished >= was.started
  <2>1. t = Unfoldable(s)
    BY <1>1 DEF Apply, Writable, FinalStatuses, IterationFinished
  <2>2. Aside(s, t)
    BY <2>1, Zenon DEF Shaped, Fields, Unfoldable, Aside, HasClaim
  <2> HIDE DEF t
  <2> QED BY <2>2, AsideKeeps
<1>2. CASE e.kind = "iteration_finished" /\ ~(was.finished >= was.started)
  <2>1. t = IterationFinished(s, r, e.record)
    BY <1>2 DEF Apply, Writable, FinalStatuses
  <2> DEFINE read == e.record.measure # <<>>
             now == [was EXCEPT
                       !.finished = @ + 1,
                       !.age = 0,
                       !.stalled = IF ~read THEN @
                                   ELSE IF was.last = e.record.measure THEN @ + 1
                                   ELSE 0,
                       !.previous = IF read THEN was.last ELSE @,
                       !.last = IF read THEN e.record.measure ELSE @,
                       !.failedInvariant = ~e.record.held]
  <2>2. /\ t.running = s.running /\ t.finished = s.finished
        /\ t.failures = s.failures /\ t.control = s.control
        /\ t.outstanding = s.outstanding
        /\ t.loops = [s.loops EXCEPT ![r] = now]
    BY <1>2, <2>1, Zenon DEF Shaped, Fields, IterationFinished
  <2>3. /\ now.started = was.started /\ now.finished = was.finished + 1
        /\ now.stopped = was.stopped
    BY <1>w, Zenon DEF LoopFields
  <2> HIDE DEF t, now
  <2>4. /\ t.loops[r] = now
        /\ \A q \in Regions \ {r} : t.loops[q] = s.loops[q]
    BY <1>0, <2>2 DEF LoopsShaped
  <2>5. Onward(s, t)
    BY <2>2, <2>3, <2>4 DEF Onward, Touched
  <2>6. Formed(t)
    BY <1>0, <2>2 DEF Formed
  <2>7. \A n \in Nodes : Touched(t, n) => Reached(t, n)
    BY <2>2, <2>5, MayStays DEF Touched, LoopsOK
  <2>8. \A i \in DOMAIN t.outstanding : May(t, t.outstanding[i].node)
    BY <2>2, <2>5, MayStays DEF LoopsOK
  <2>9. LoopOK(t, r)
    <3>1. t.loops[r].stopped = "no"
      BY <1>0, <2>3, <2>4 DEF HasStopped
    <3>2. /\ t.loops[r].started = was.started
          /\ t.loops[r].finished = was.finished + 1
      BY <2>3, <2>4
    <3>3. was.finished + 1 <= was.started /\ was.finished \in Nat /\ was.started \in Nat
      BY <1>0, <1>2 DEF LoopOK
    <3>4. was.started <= Def.budget[r].iterations
      BY <1>0 DEF LoopOK
    <3>5. Justifies(t, r, "no")
      BY DEF Justifies
    <3> HIDE DEF was, r
    <3> QED BY <3>1, <3>2, <3>3, <3>4, <3>5 DEF LoopOK
  <2>10. \A q \in Regions \ {r} : LoopOK(t, q)
    BY <2>2, <2>4 DEF LoopsOK, LoopOK, Justifies, IsOpen
  <2> QED BY <2>6, <2>7, <2>8, <2>9, <2>10 DEF LoopsOK
<1>3. CASE e.kind = "loop_stopped"
  <2> DEFINE now == [was EXCEPT !.stopped = e.reason]
  <2>1. t = LoopStopped(s, r, e.reason)
    BY <1>3 DEF Apply, Writable, FinalStatuses
  <2>2. /\ t.running = s.running /\ t.finished = s.finished
        /\ t.failures = s.failures /\ t.control = s.control
        /\ t.outstanding = s.outstanding
        /\ t.loops = [s.loops EXCEPT ![r] = now]
    BY <2>1 DEF Shaped, Fields, LoopStopped
  <2>3. /\ now.started = was.started /\ now.finished = was.finished
        /\ now.stopped = e.reason
    BY <1>w, Zenon DEF LoopFields
  <2>4. s.outstanding = <<>> /\ Justifies(s, r, e.reason)
    BY <1>3 DEF LoopFits
  <2> HIDE DEF t, now
  <2>5. /\ t.loops[r] = now
        /\ \A q \in Regions \ {r} : t.loops[q] = s.loops[q]
    BY <1>0, <2>2 DEF LoopsShaped
  <2>6. Formed(t)
    BY <1>0, <2>2 DEF Formed
  <2>7. ASSUME NEW n \in Nodes, Touched(t, n) PROVE Reached(t, n)
    <3>1. \A m : Touched(t, m) <=> Touched(s, m)
      BY <2>2 DEF Touched
    <3>2. Reached(s, n)
      BY <2>7, <3>1 DEF LoopsOK
    <3>3. \A q \in Regions : s.loops[q].stopped = "condition_false" =>
                               t.loops[q].stopped = "condition_false"
      BY <1>0, <2>5 DEF HasStopped
    <3>4. Upstream(n) \subseteq Regions
      BY DEF Upstream
    <3> QED BY <3>1, <3>2, <3>3, <3>4 DEF Reached
  <2>8. \A i \in DOMAIN t.outstanding : May(t, t.outstanding[i].node)
    BY <2>2, <2>4
  <2>9. LoopOK(t, r)
    BY <1>0, <2>2, <2>3, <2>4, <2>5 DEF LoopOK, Justifies, IsOpen
  <2>10. \A q \in Regions \ {r} : LoopOK(t, q)
    BY <2>2, <2>5 DEF LoopsOK, LoopOK, Justifies, IsOpen
  <2> QED BY <2>6, <2>7, <2>8, <2>9, <2>10 DEF LoopsOK
<1> QED BY <1>1, <1>2, <1>3

\* Every event that fits keeps the loops in order; one that is not of a loop
\* moves onward.
LEMMA ApplyKeepsLoops ==
  ASSUME NEW s, NEW e, Shaped(s), FoldOK(s), LoopsOK(s), LoopFits(s, e),
         e.kind = "effect_claimed" =>
           [node |-> e.node, attempt |-> e.attempt, key |-> e.key] \in Claims
  PROVE  /\ LoopsOK(Apply(s, e))
         /\ e.kind \notin LoopKinds => Onward(s, Apply(s, e))
<1>0. s.outstanding \in Seq(Claims) /\ LoopsShaped(s.loops)
  BY DEF FoldOK, Foldable
<1> DEFINE course == {"node_started", "node_finished", "node_failed", "effect_claimed"}
<1>1. CASE e.kind \notin LoopKinds \cup course \/ ~Writable(s)
  <2>1. Aside(s, Apply(s, e))
    BY <1>0, <1>1, AsideEvents
  <2> QED BY <2>1, AsideKeeps
<1>2. CASE e.kind \in course /\ Writable(s)
  BY <1>0, <1>2, CourseEvents
<1>3. CASE e.kind = "iteration_started" /\ Writable(s)
  <2>1. LoopsOK(Apply(s, e))
    BY <1>0, <1>3, IterationOpens
  <2> QED BY <1>3, <2>1 DEF LoopKinds
<1>4. CASE e.kind \in {"iteration_finished", "loop_stopped"} /\ Writable(s)
  <2>1. LoopsOK(Apply(s, e))
    BY <1>0, <1>4, LoopMoves
  <2> QED BY <1>4, <2>1 DEF LoopKinds
<1> QED BY <1>1, <1>2, <1>3, <1>4 DEF LoopKinds
=============================================================================
