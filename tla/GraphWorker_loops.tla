------------------------- MODULE GraphWorker_loops --------------------------
(***************************************************************************)
(* Loops, for every definition, every number of workers and whatever       *)
(* happens to them: a loop stops for the reason it gives, and what is      *)
(* behind it waits.  The holder of the lease acts on a fold in which the   *)
(* node it is about to open may be opened and the loop it is about to move *)
(* may move, and it stays one until the event is written.                  *)
(***************************************************************************)
EXTENDS GraphWorker_effects

\* What a worker is about to write respects the loops.
LoopStage(s, me) ==
  /\ /\ me.pc \in {"opening", "execute"}
     /\ me.plan.do \in {"start_node", "perform"}
     => May(s, me.plan.node)
  /\ me.pc = "closing" => \A i \in DOMAIN me.queue : LoopFits(s, me.queue[i])

LoopDoing(s, me) ==
  /\ LoopStage(s, me)
  /\ Undecided(me) => LoopStage(s, CarryOut(me.plan))

LoopWork == \A w \in Workers : Holds(w) => LoopDoing(st, wk[w])

LoopInv == LoopsOK(st) /\ LoopWork

\* A worker with nothing to write and nothing decided respects them.
LEMMA RestDoes ==
  ASSUME NEW s, NEW me,
         me.pc \in {"idle", "leased", "fold", "beat", "release", "consume"}
  PROVE  LoopDoing(s, me)
  BY DEF LoopDoing, LoopStage, Undecided

\* So does one at the end of its pass, or between two steps of it.
LEMMA RestPoints ==
  ASSUME NEW s, NEW me,
         \/ \E pc \in {"leased", "fold", "beat", "release"} : me = At(pc)
         \/ me = Idling
  PROVE  LoopDoing(s, me)
<1>1. CASE me = Idling
  <2>1. me.pc = "idle"
    BY <1>1, IdlingRemembers
  <2> QED BY <2>1, RestDoes
<1>2. ASSUME NEW pc \in {"leased", "fold", "beat", "release"}, me = At(pc)
      PROVE  LoopDoing(s, me)
  <2>1. me.pc = pc
    BY <1>2, RestRemembers
  <2> QED BY <2>1, RestDoes
<1> QED BY <1>1, <1>2

\* So does one whose events do.
LEMMA ClosingDoes ==
  ASSUME NEW s, NEW q, \A i \in DOMAIN q : LoopFits(s, q[i])
  PROVE  LoopDoing(s, Closing(q))
<1> DEFINE me == Closing(q)
<1>1. me.pc = "closing" /\ me.queue = q
  BY FreshClosing, Zenon DEF Fresh
<1> HIDE DEF me
<1>2. LoopDoing(s, me)
  BY <1>1 DEF LoopDoing, LoopStage, Undecided
<1> QED BY <1>2 DEF me

\* One event, or two.
LEMMA ClosingOne ==
  ASSUME NEW s, NEW e, LoopFits(s, e)
  PROVE  LoopDoing(s, Closing(<<e>>))
<1> DEFINE q == <<e>>
<1>1. \A i \in DOMAIN q : LoopFits(s, q[i])
  OBVIOUS
<1> HIDE DEF q
<1>2. LoopDoing(s, Closing(q))
  BY <1>1, ClosingDoes
<1> QED BY <1>2 DEF q

LEMMA ClosingTwo ==
  ASSUME NEW s, NEW e, NEW f, LoopFits(s, e), LoopFits(s, f)
  PROVE  LoopDoing(s, Closing(<<e, f>>))
<1> DEFINE q == <<e, f>>
<1>1. \A i \in DOMAIN q : LoopFits(s, q[i])
  OBVIOUS
<1> HIDE DEF q
<1>2. LoopDoing(s, Closing(q))
  BY <1>1, ClosingDoes
<1> QED BY <1>2 DEF q

\* Most events say nothing about loops.
Course == {"node_started", "node_finished", "node_failed", "effect_claimed"}

LEMMA OtherFits ==
  ASSUME NEW s, NEW e, e.kind \notin Course \cup LoopKinds
  PROVE  LoopFits(s, e)
  BY DEF LoopFits, Course, LoopKinds

\* A decision that respects the loops is carried out by events that do.
LEMMA CarryOutDoes ==
  ASSUME NEW s, NEW d, LoopsOK(s), LoopGrounded(s, d)
  PROVE  LoopDoing(s, CarryOut(d))
<1> DEFINE c == CarryOut(d)
<1> SUFFICES LoopDoing(s, c)
  OBVIOUS
<1>1. CASE d.do \in {"start_node", "perform"}
  <2>1. PICK q : c = [Opening(q) EXCEPT !.plan = d]
    BY <1>1, Zenon DEF CarryOut
  <2>4. Fresh(c, "opening", d, q)
    BY <2>1, FreshOpening
  <2> HIDE DEF c
  <2>2. c.pc = "opening" /\ c.plan = d
    BY <2>4 DEF Fresh
  <2>3. May(s, d.node)
    BY <1>1 DEF LoopGrounded
  <2> QED BY <2>2, <2>3 DEF LoopDoing, LoopStage, Undecided
<1>2. CASE d.do = "compensate"
  <2>1. c = [At("execute") EXCEPT !.plan = d]
    BY <1>2 DEF CarryOut
  <2>2. c.pc = "execute" /\ c.plan = d
    BY <2>1, FreshExecute, Zenon DEF Fresh
  <2> HIDE DEF c
  <2> QED BY <1>2, <2>2 DEF LoopDoing, LoopStage, Undecided
<1>3. CASE d.do = "stop_loop"
  <2>1. PICK e : e = [kind |-> "loop_stopped", region |-> d.region,
                      reason |-> d.reason]
    BY Zenon
  <2>2. c = Closing(<<e>>)
    BY <1>3, <2>1 DEF CarryOut
  <2>3. LoopFits(s, e)
    BY <1>3, <2>1 DEF LoopFits, LoopGrounded, LoopKinds
  <2> HIDE DEF c
  <2> QED BY <2>2, <2>3, ClosingOne
<1>4. CASE d.do = "start_iteration"
  <2>1. PICK e : e = [kind |-> "iteration_started", region |-> d.region]
    BY Zenon
  <2>2. c = Closing(<<e>>)
    BY <1>4, <2>1 DEF CarryOut
  <2>3. LoopFits(s, e)
    BY <1>4, <2>1 DEF LoopFits, LoopGrounded, LoopKinds
  <2> HIDE DEF c
  <2> QED BY <2>2, <2>3, ClosingOne
<1>5. CASE d.do = "finish_iteration"
  <2>1. PICK e : e = [kind |-> "iteration_finished", region |-> d.region,
                      record |-> d.record]
    BY Zenon
  <2>2. c = Closing(<<e>>)
    BY <1>5, <2>1 DEF CarryOut
  <2>3. LoopFits(s, e)
    BY <1>5, <2>1 DEF LoopFits, LoopGrounded, LoopKinds
  <2> HIDE DEF c
  <2> QED BY <2>2, <2>3, ClosingOne
<1>6. CASE d.do = "time_out"
  <2>1. PICK e : e = Failed(d.node, "budget_exhaustion")
    OBVIOUS
  <2>2. c = Closing(<<e>>)
    BY <1>6, <2>1 DEF CarryOut
  <2>3. e.kind = "node_failed" /\ e.node = d.node /\ e.failure \in FailureKinds
    BY <2>1 DEF Failed, FailureKinds
  <2>4. d.node \in Nodes /\ Reached(s, d.node)
    BY <1>6 DEF LoopGrounded, LoopsOK, Formed, Touched
  <2>5. LoopFits(s, e)
    BY <2>3, <2>4 DEF LoopFits, LoopKinds
  <2> HIDE DEF c
  <2> QED BY <2>2, <2>5, ClosingOne
<1>7. CASE d.do \notin {"start_node", "perform", "compensate", "stop_loop",
                        "start_iteration", "finish_iteration", "time_out"}
  <2>1. \/ c = At("release")
        \/ \E e : e.kind \notin Course \cup LoopKinds /\ c = Closing(<<e>>)
    <3>1. CASE d.do = "halt"
      <4>1. c = Closing(<<EffectEvent("effect_uncertain", d)>>)
        BY <3>1 DEF CarryOut
      <4>2. EffectEvent("effect_uncertain", d).kind = "effect_uncertain"
        BY DEF EffectEvent
      <4> QED BY <4>1, <4>2, Zenon DEF Course, LoopKinds
    <3>2. CASE d.do = "suspend"
      <4>1. PICK e : e = [kind |-> "suspended", wait |-> d.wait]
        BY Zenon
      <4>2. c = Closing(<<e>>) /\ e.kind = "suspended"
        BY <3>2, <4>1 DEF CarryOut
      <4> QED BY <4>2, Zenon DEF Course, LoopKinds
    <3>3. CASE d.do \notin {"halt", "suspend"}
      <4>1. \/ c = At("release")
            \/ \E k \in {"started", "cancelled", "resumed", "completed", "failed"} :
                 c = Closing(<<[kind |-> k]>>)
        BY <1>7, <3>3, Zenon DEF CarryOut
      <4>2. \A k : [kind |-> k].kind = k
        OBVIOUS
      <4>3. \A k \in {"started", "cancelled", "resumed", "completed", "failed"} :
              k \notin Course \cup LoopKinds
        BY DEF Course, LoopKinds
      <4> HIDE DEF c
      <4> QED BY <4>1, <4>2, <4>3, Zenon
    <3> QED BY <3>1, <3>2, <3>3, Zenon
  <2> HIDE DEF c
  <2> QED BY <2>1, OtherFits, ClosingOne, RestPoints, Zenon
<1> QED BY <1>1, <1>2, <1>3, <1>4, <1>5, <1>6, <1>7

\* One worker moves and the log does not: it is enough that what it is about to
\* do respects the loops, if it holds the lease.
LEMMA OneDoes ==
  ASSUME EffectInv, LoopInv, NEW w \in Workers, NEW me,
         wk' = [wk EXCEPT ![w] = me], st' = st,
         \/ TakeLease(w)
         \/ /\ epoch' = epoch
            /\ held' = held \/ held' = [held EXCEPT ![w] = 0],
         Holds(w)' /\ (Holds(w) \/ TakeLease(w)) => LoopDoing(st, me)
  PROVE  LoopInv'
<1>1. \A v \in Workers \ {w} : Holds(v)' => Holds(v)
  <2>1. CASE TakeLease(w)
    BY <2>1 DEF EffectInv, LeaseInv, LeaseTypeOK, HeldIsPast, TakeLease, Holds
  <2>2. CASE ~TakeLease(w)
    BY <2>2, SameEpoch DEF EffectInv
  <2> QED BY <2>1, <2>2
<1>2. Holds(w)' => Holds(w) \/ TakeLease(w)
  BY SameEpoch DEF EffectInv
<1>3. wk = [v \in Workers |-> wk[v]]
  BY DEF EffectInv, WorkInv
<1>4. ASSUME NEW v \in Workers, Holds(v)' PROVE LoopDoing(st', wk'[v])
  <2>1. CASE v = w
    <3>1. wk'[v] = me
      BY <1>3, <2>1
    <3> QED BY <1>2, <1>4, <2>1, <3>1
  <2>2. CASE v # w
    <3>1. wk'[v] = wk[v]
      BY <1>3, <2>2
    <3>2. Holds(v)
      BY <1>1, <1>4, <2>2
    <3> QED BY <3>1, <3>2 DEF LoopInv, LoopWork
  <2> QED BY <2>1, <2>2
<1>5. LoopsOK(st')
  BY DEF LoopInv
<1> QED BY <1>4, <1>5 DEF LoopInv, LoopWork

\* A worker takes the lease, to advance the run or to record a request.
LEMMA LeaseDoes ==
  ASSUME EffectInv, LoopInv, NEW w \in Workers, LeaseRun(w) \/ LeaseToRecord(w)
  PROVE  LoopInv'
<1>1. CASE LeaseRun(w)
  <2>1. /\ wk' = [wk EXCEPT ![w] = At("leased")]
        /\ st' = st /\ TakeLease(w)
    BY <1>1 DEF LeaseRun, Become, runVars
  <2>2. LoopDoing(st, At("leased"))
    BY RestPoints
  <2> QED BY <2>1, <2>2, OneDoes, Zenon
<1>2. CASE LeaseToRecord(w)
  <2>1. PICK e \in asks : wk' = [wk EXCEPT ![w] = Closing(<<e>>)]
    BY <1>2, Zenon DEF LeaseToRecord, Become
  <2>2. st' = st /\ TakeLease(w)
    BY <1>2 DEF LeaseToRecord
  <2>3. e.kind \notin Course \cup LoopKinds
    BY RequestAssumption DEF EffectInv, WorkInv, Course, LoopKinds
  <2>4. LoopDoing(st, Closing(<<e>>))
    BY <2>3, OtherFits, ClosingOne
  <2> QED BY <2>1, <2>2, <2>4, OneDoes, Zenon
<1> QED BY <1>1, <1>2

\* A worker folds the log and decides.
LEMMA FoldDoes ==
  ASSUME RoutesStayInside, EffectInv, LoopInv, NEW w \in Workers, Fold(w)
  PROVE  LoopInv'
<1> DEFINE d == IF st.ok THEN Decide(st) ELSE Idle
           waits == [At("inbox") EXCEPT !.plan = d, !.wait = st.waitingOn]
           me == IF MaxSignals = 0 \/ ~st.ok THEN CarryOut(d) ELSE waits
<1>1. /\ wk' = [wk EXCEPT ![w] = me]
      /\ st' = st /\ epoch' = epoch /\ held' = held
  BY Zenon DEF Fold, Become, leaseVars, rowVars, runVars
<1>2. LoopGrounded(st, d)
  <2>1. CASE st.ok
    <3>1. Foldable(st) /\ LoopsOK(st)
      BY DEF EffectInv, EffectsSafe, FoldOK, LoopInv
    <3>2. LoopGrounded(st, Decide(st))
      BY <3>1, DecideRespectsLoops
    <3> QED BY <2>1, <3>2
  <2>2. CASE ~st.ok
    BY <2>2, Zenon DEF LoopGrounded, Idle
  <2> QED BY <2>1, <2>2
<1> HIDE DEF d
<1>3. LoopDoing(st, CarryOut(d))
  BY <1>2, CarryOutDoes DEF LoopInv
<1>4. LoopDoing(st, waits)
  <2>1. waits.pc = "inbox" /\ waits.plan = d
    BY Zenon DEF At, Idling
  <2> HIDE DEF waits
  <2> QED BY <1>3, <2>1 DEF LoopDoing, LoopStage
<1>5. LoopDoing(st, me)
  BY <1>3, <1>4
<1> HIDE DEF me
<1> QED BY <1>1, <1>5, OneDoes, Zenon

\* A plan is carried out once the inbox is dealt with.
LEMMA PlanDoes ==
  ASSUME NEW s, NEW me, Undecided(me), LoopDoing(s, me)
  PROVE  LoopDoing(s, CarryOut(me.plan))
<1> DEFINE d == me.plan
           c == CarryOut(d)
<1>1. PICK pc \in {"opening", "execute", "closing", "release"} :
        Fresh(c, pc, c.plan, c.queue)
  BY CarryOutIs, Zenon DEF Fresh
<1> HIDE DEF c
<1>2. c.pc = pc
  BY <1>1 DEF Fresh
<1>3. ~Undecided(c)
  BY <1>1, <1>2 DEF Undecided
<1>4. LoopStage(s, c)
  BY DEF LoopDoing, c
<1>5. LoopDoing(s, c)
  BY <1>3, <1>4 DEF LoopDoing
<1> QED BY <1>5 DEF c

\* Reading the inbox.
LEMMA ReadInboxDoes ==
  ASSUME EffectInv, LoopInv, NEW w \in Workers, ReadInbox(w)
  PROVE  LoopInv'
<1> DEFINE was == wk[w]
           reads == [was EXCEPT !.pc = "answer", !.todo = Pending]
           me == IF Pending = {} THEN CarryOut(was.plan) ELSE reads
<1>1. /\ wk' = [wk EXCEPT ![w] = me]
      /\ was.pc = "inbox"
      /\ st' = st /\ epoch' = epoch /\ held' = held
  BY DEF ReadInbox, Pc, Become, leaseVars, rowVars, runVars
<1>2. Remembers(was, DOMAIN inbox) /\ (Holds(w) => LoopDoing(st, was))
  BY DEF EffectInv, WorkInv, LoopInv, LoopWork
<1>3. was = [f \in MemoryFields |-> was[f]]
  BY <1>2 DEF Remembers
<1> HIDE DEF was
<1>4. reads.pc = "answer" /\ reads.plan = was.plan
  BY <1>3, Zenon DEF MemoryFields
<1> HIDE DEF reads
<1>5. ASSUME Holds(w) PROVE LoopDoing(st, me)
  <2>1. LoopDoing(st, was) /\ Undecided(was)
    BY <1>1, <1>2, <1>5 DEF Undecided
  <2>2. LoopDoing(st, CarryOut(was.plan))
    BY <2>1, PlanDoes
  <2>3. LoopDoing(st, reads)
    BY <1>4, <2>2, Zenon DEF LoopDoing, LoopStage
  <2> QED BY <2>2, <2>3
<1>6. ~TakeLease(w)
  BY <1>1 DEF EffectInv, LeaseInv, LeaseTypeOK, TakeLease
<1> HIDE DEF me
<1> QED BY <1>1, <1>5, <1>6, OneDoes, Zenon

\* A worker moves within its pass or ends it.
LEMMA PassDoes ==
  ASSUME EffectInv, LoopInv, NEW w \in Workers, NEW me,
         wk' = [wk EXCEPT ![w] = me], st' = st, epoch' = epoch,
         held' = held \/ held' = [held EXCEPT ![w] = 0],
         Holds(w) => LoopDoing(st, me)
  PROVE  LoopInv'
<1>1. ~TakeLease(w)
  BY DEF EffectInv, LeaseInv, LeaseTypeOK, TakeLease
<1> QED BY <1>1, OneDoes, Zenon

\* Done with a signal, the worker takes the next, folds again, or goes on to
\* what it decided.
LEMMA NextSignalDoes ==
  ASSUME EffectInv, LoopInv, NEW w \in Workers,
         wk[w].pc \in {"answer", "consume"}, Holds(w)
  PROVE  LoopDoing(st, NextSignal(wk[w]))
<1>1. PICK was : was = wk[w]
  OBVIOUS
<1>2. /\ was = [f \in MemoryFields |-> was[f]]
      /\ LoopDoing(st, was)
      /\ was.pc \in {"answer", "consume"}
      /\ was.pc = "consume" => was.resumed
  BY <1>1 DEF EffectInv, WorkInv, Remembers, Fits, LoopInv, LoopWork
<1>3. PICK i : i = FirstSignal(was)
  OBVIOUS
<1>4. ASSUME ~was.resumed PROVE LoopDoing(st, CarryOut(was.plan))
  <2>1. Undecided(was)
    BY <1>2, <1>4 DEF Undecided
  <2> QED BY <1>2, <2>1, PlanDoes
<1>5. CASE was.todo # {i}
  <2>1. PICK goes : goes = [was EXCEPT !.pc = "answer", !.todo = @ \ {i}]
    OBVIOUS
  <2>2. /\ goes.pc = "answer"
        /\ goes.plan = was.plan /\ goes.resumed = was.resumed
    BY <1>2, <2>1, Zenon DEF MemoryFields
  <2>3. LoopDoing(st, goes)
    BY <1>4, <2>2, Zenon DEF LoopDoing, LoopStage, Undecided
  <2>4. NextSignal(was) = goes
    BY <1>3, <1>5, <2>1 DEF NextSignal
  <2> QED BY <1>1, <2>3, <2>4
<1>6. CASE was.todo = {i} /\ was.resumed
  <2>1. NextSignal(was) = At("fold")
    BY <1>3, <1>6 DEF NextSignal
  <2> QED BY <1>1, <2>1, RestPoints
<1>7. CASE was.todo = {i} /\ ~was.resumed
  <2>1. NextSignal(was) = CarryOut(was.plan)
    BY <1>3, <1>7 DEF NextSignal
  <2> QED BY <1>1, <1>4, <1>7, <2>1
<1> QED BY <1>5, <1>6, <1>7

\* answer_signals where it does not resume the run, and the mark after it did.
LEMMA AnswerDoes ==
  ASSUME EffectInv, LoopInv, NEW w \in Workers,
         (AnswerSignal(w) /\ ~Resumes(w)) \/ ConsumeSignal(w)
  PROVE  LoopInv'
<1>1. /\ wk[w].pc \in {"answer", "consume"}
      /\ st' = st /\ epoch' = epoch /\ held' = held
      /\ \/ wk' = [wk EXCEPT ![w] = NextSignal(wk[w])]
         \/ wk' = [wk EXCEPT ![w] = CarryOut(wk[w].plan)] /\ ~Current(w)
  BY DEF AnswerSignal, ConsumeSignal, Pc, Become, Resumes, leaseVars, rowVars
<1>2. CASE wk' = [wk EXCEPT ![w] = NextSignal(wk[w])]
  <2>1. Holds(w) => LoopDoing(st, NextSignal(wk[w]))
    BY <1>1, NextSignalDoes
  <2> QED BY <1>1, <1>2, <2>1, PassDoes, Zenon
<1>3. CASE wk' = [wk EXCEPT ![w] = CarryOut(wk[w].plan)] /\ ~Current(w)
  <2>1. ~Holds(w)
    BY <1>3 DEF Holds, Current
  <2> QED BY <1>1, <1>3, <2>1, PassDoes, Zenon
<1> QED BY <1>1, <1>2, <1>3

\* A worker that ends its pass, or is between two steps of it.
LEMMA EndDoes ==
  ASSUME EffectInv, LoopInv, NEW w \in Workers,
         \/ Heartbeat(w) \/ Release(w) \/ Yield(w) \/ Crash(w)
         \/ /\ AppendStep(w)
            /\ ~Current(w) \/ LedgerRefuses(Head(wk[w].queue))
  PROVE  LoopInv'
<1>1. /\ st' = st /\ epoch' = epoch
      /\ held' = held \/ held' = [held EXCEPT ![w] = 0]
      /\ \/ \E pc \in {"leased", "fold", "beat", "release"} : Become(w, At(pc))
         \/ Become(w, Idling)
  BY DEF Heartbeat, Release, Yield, Crash, AppendStep, DropLease, ExtendLease,
         ReleaseLease, leaseVars, rowVars, runVars
<1>2. PICK me : /\ wk' = [wk EXCEPT ![w] = me]
                /\ \/ \E pc \in {"leased", "fold", "beat", "release"} : me = At(pc)
                   \/ me = Idling
  BY <1>1 DEF Become
<1>3. LoopDoing(st, me)
  BY <1>2, RestPoints
<1> QED BY <1>1, <1>2, <1>3, PassDoes, Zenon

\* A worker runs a node: it may have finished, or have failed.
LEMMA RunNodeDoes ==
  ASSUME EffectInv, LoopInv, NEW w \in Workers, RunNode(w)
  PROVE  LoopInv'
<1>1. PICK n : n = wk[w].plan.node
  OBVIOUS
<1>2. st' = st /\ epoch' = epoch /\ held' = held
  BY Zenon DEF RunNode, leaseVars, rowVars, runVars
<1>3. Holds(w) => May(st, n)
  BY <1>1, Zenon DEF RunNode, Pc, LoopInv, LoopWork, LoopDoing, LoopStage
<1>4. ASSUME NEW control \in Def.reports[n],
             Become(w, Closing(<<[kind |-> "node_finished", node |-> n,
                                  control |-> control]>>))
      PROVE  LoopInv'
  <2>1. PICK e : e = [kind |-> "node_finished", node |-> n, control |-> control]
    BY Zenon
  <2>2. /\ e.kind = "node_finished" /\ e.node = n /\ e.control = control
        /\ wk' = [wk EXCEPT ![w] = Closing(<<e>>)]
    BY <1>4, <2>1 DEF Become
  <2>3. Holds(w) => control.go \in Readings
    BY <1>3, <1>4, DefAssumption, Zenon DEF May, Readings
  <2>4. Holds(w) => LoopFits(st, e)
    BY <1>3, <2>2, <2>3, Zenon DEF LoopFits, LoopKinds
  <2>5. Holds(w) => LoopDoing(st, Closing(<<e>>))
    BY <2>4, ClosingOne
  <2> QED BY <1>2, <2>2, <2>5, PassDoes, Zenon
<1>5. ASSUME NEW failure \in Def.fails[n], Become(w, Closing(<<Failed(n, failure)>>))
      PROVE  LoopInv'
  <2>1. PICK e : e = Failed(n, failure)
    OBVIOUS
  <2>2. /\ e.kind = "node_failed" /\ e.node = n /\ e.failure = failure
        /\ wk' = [wk EXCEPT ![w] = Closing(<<e>>)]
    BY <1>5, <2>1, Zenon DEF Become, Failed
  <2>3. Holds(w) => failure \in FailureKinds
    BY <1>3, <1>5, DefAssumption, Zenon DEF May
  <2>4. Holds(w) => LoopFits(st, e)
    BY <1>3, <2>2, <2>3, Zenon DEF LoopFits, LoopKinds, May
  <2>5. Holds(w) => LoopDoing(st, Closing(<<e>>))
    BY <2>4, ClosingOne, Zenon
  <2> QED BY <1>2, <2>2, <2>5, PassDoes, Zenon
<1> QED BY <1>1, <1>4, <1>5, Zenon DEF RunNode

\* A worker performs the effect it has claimed: finalized and finished,
\* abandoned and failed, or nothing is known.
LEMMA PerformDoes ==
  ASSUME EffectInv, LoopInv, NEW w \in Workers, PerformEffect(w)
  PROVE  LoopInv'
<1>1. PICK d : d = wk[w].plan
  OBVIOUS
<1>2. st' = st /\ epoch' = epoch /\ held' = held
  BY Zenon DEF PerformEffect, leaseVars, rowVars
<1>3. Holds(w) => May(st, d.node)
  BY <1>1 DEF PerformEffect, Pc, LoopInv, LoopWork, LoopDoing, LoopStage
<1>4. ASSUME Become(w, Closing(
               <<EffectEvent("effect_finalized", d),
                 [kind |-> "node_finished", node |-> d.node,
                  control |-> NoControl]>>))
      PROVE  LoopInv'
  <2>1. PICK e, f : /\ e = EffectEvent("effect_finalized", d)
                    /\ f = [kind |-> "node_finished", node |-> d.node,
                            control |-> NoControl]
    BY Zenon
  <2>2. /\ e.kind = "effect_finalized"
        /\ f.kind = "node_finished" /\ f.node = d.node /\ f.control = NoControl
        /\ wk' = [wk EXCEPT ![w] = Closing(<<e, f>>)]
    BY <1>4, <2>1 DEF Become, EffectEvent
  <2>3. NoControl.go \in Readings
    BY DEF NoControl, Readings
  <2>4. Holds(w) => LoopFits(st, f)
    BY <1>3, <2>2, <2>3 DEF LoopFits, LoopKinds
  <2>5. LoopFits(st, e)
    BY <2>2, OtherFits DEF Course, LoopKinds
  <2>6. Holds(w) => LoopDoing(st, Closing(<<e, f>>))
    BY <2>4, <2>5, ClosingTwo
  <2> QED BY <1>2, <2>2, <2>6, PassDoes, Zenon
<1>5. ASSUME NEW failure \in Def.fails[d.node],
             Become(w, Closing(<<EffectEvent("effect_abandoned", d),
                                 Failed(d.node, failure)>>))
      PROVE  LoopInv'
  <2>1. PICK e, f : /\ e = EffectEvent("effect_abandoned", d)
                    /\ f = Failed(d.node, failure)
    OBVIOUS
  <2>2. /\ e.kind = "effect_abandoned"
        /\ f.kind = "node_failed" /\ f.node = d.node /\ f.failure = failure
        /\ wk' = [wk EXCEPT ![w] = Closing(<<e, f>>)]
    BY <1>5, <2>1 DEF Become, EffectEvent, Failed
  <2>3. Holds(w) => failure \in FailureKinds
    BY <1>3, <1>5, DefAssumption, Zenon DEF May
  <2>4. Holds(w) => LoopFits(st, f)
    BY <1>3, <2>2, <2>3, Zenon DEF LoopFits, LoopKinds, May
  <2>5. LoopFits(st, e)
    BY <2>2, OtherFits DEF Course, LoopKinds
  <2>6. Holds(w) => LoopDoing(st, Closing(<<e, f>>))
    BY <2>4, <2>5, ClosingTwo, Zenon
  <2> QED BY <1>2, <2>2, <2>6, PassDoes, Zenon
<1>6. CASE Become(w, At("beat"))
  <2>1. LoopDoing(st, At("beat"))
    BY RestPoints
  <2> QED BY <1>2, <1>6, <2>1, PassDoes, Zenon DEF Become
<1> QED BY <1>1, <1>4, <1>5, <1>6, Zenon DEF PerformEffect

\* A worker undoes an effect, or fails to.
LEMMA CompensateDoes ==
  ASSUME EffectInv, LoopInv, NEW w \in Workers, CompensateEffect(w)
  PROVE  LoopInv'
<1>1. st' = st /\ epoch' = epoch /\ held' = held
  BY Zenon DEF CompensateEffect, leaseVars, rowVars
<1>2. PICK e : /\ e.kind \in {"compensated", "failed"}
               /\ wk' = [wk EXCEPT ![w] = Closing(<<e>>)]
  <2>1. PICK a, b : /\ a = NodeEvent("compensated", wk[w].plan.node)
                    /\ b = [kind |-> "failed"]
    BY Zenon
  <2>2. a.kind = "compensated" /\ b.kind = "failed"
    BY <2>1 DEF NodeEvent
  <2>3. \/ wk' = [wk EXCEPT ![w] = Closing(<<a>>)]
        \/ wk' = [wk EXCEPT ![w] = Closing(<<b>>)]
    BY <2>1, Zenon DEF CompensateEffect, Become
  <2> QED BY <2>2, <2>3
<1>3. LoopDoing(st, Closing(<<e>>))
  BY <1>2, OtherFits, ClosingOne DEF Course, LoopKinds
<1> QED BY <1>1, <1>2, <1>3, PassDoes, Zenon

\* The holder of the lease writes an event: nobody else holds it, so what it
\* does next is all that is left to look at.
LEMMA WriterDoes ==
  ASSUME EffectInv, LoopInv, NEW w \in Workers, NEW e, NEW me, Record(w, e),
         wk' = [wk EXCEPT ![w] = me], LoopsOK(st'), LoopDoing(st', me)
  PROVE  LoopInv'
<1>1. held' = held /\ epoch' = epoch /\ held[w] # 0 /\ held[w] = epoch
  BY Zenon DEF Record, AppendEvent, WriteEvent, Current
<1>2. \A v \in Workers \ {w} : ~Holds(v)
  BY <1>1, Zenon DEF EffectInv, LeaseInv, OneHolderPerEpoch, Holds
<1>3. ASSUME NEW v \in Workers, Holds(v)' PROVE LoopDoing(st', wk'[v])
  <2>1. v = w
    BY <1>1, <1>2, <1>3, Zenon DEF Holds
  <2>2. wk'[v] = me
    BY <2>1 DEF EffectInv, WorkInv
  <2> QED BY <2>2
<1> QED BY <1>3 DEF LoopInv, LoopWork

\* answer_signals where it resumes the run.
LEMMA ResumesDoes ==
  ASSUME EffectInv, LoopInv, NEW w \in Workers, AnswerSignal(w), Resumes(w)
  PROVE  LoopInv'
<1>1. PICK was, me, e :
        /\ was = wk[w] /\ me = [was EXCEPT !.pc = "consume", !.resumed = TRUE]
        /\ e = [kind |-> "resumed"]
  BY Zenon
<1>2. Record(w, e) /\ st' = Apply(st, e) /\ wk' = [wk EXCEPT ![w] = me]
  BY <1>1 DEF Resumes, Record
<1>3. was = [f \in MemoryFields |-> was[f]]
  BY <1>1 DEF EffectInv, WorkInv, Remembers
<1>4. me.pc = "consume"
  BY <1>1, <1>3, Zenon DEF MemoryFields
<1>5. e.kind = "resumed"
  BY <1>1
<1>6. LoopFits(st, e)
  BY <1>5, OtherFits DEF Course, LoopKinds
<1>7. Shaped(st) /\ FoldOK(st) /\ LoopsOK(st)
  BY DEF EffectInv, RowInv, Shaped, EffectsSafe, LoopInv
<1>8. LoopsOK(st')
  BY <1>2, <1>5, <1>6, <1>7, ApplyKeepsLoops, Zenon
<1>9. LoopDoing(st', me)
  BY <1>4, RestDoes
<1> QED BY <1>2, <1>8, <1>9, WriterDoes, Zenon

\* What a worker has still to write respects the loops after an event that is
\* not of a loop.
LEMMA StillMay ==
  ASSUME NEW s, NEW t, Onward(s, t), NEW f,
         f.kind \in {"node_finished", "node_failed"}, LoopFits(s, f)
  PROVE  LoopFits(t, f)
<1>1. f.kind = "node_finished" => May(t, f.node) /\ f.control.go \in Readings
  BY MayStays DEF LoopFits
<1>2. f.kind = "node_failed" =>
        f.node \in Nodes /\ Reached(t, f.node) /\ f.failure \in FailureKinds
  BY MayStays DEF LoopFits
<1> QED BY <1>1, <1>2 DEF LoopFits, LoopKinds

\* A worker appends the next event of its plan.
LEMMA AppendDoes ==
  ASSUME EffectInv, LoopInv, NEW w \in Workers, AppendStep(w),
         Current(w), ~LedgerRefuses(Head(wk[w].queue))
  PROVE  LoopInv'
<1>1. PICK was, e, me, rest :
        /\ was = wk[w] /\ e = Head(was.queue)
        /\ rest = [was EXCEPT !.queue = Tail(@)]
        /\ me = CASE Len(was.queue) > 1 -> rest
                  [] Len(was.queue) = 1 /\ was.pc = "opening" ->
                       [rest EXCEPT !.pc = "execute"]
                  [] OTHER -> At("beat")
  BY Zenon
<1>2. /\ was.pc \in {"opening", "closing"}
      /\ Record(w, e)
      /\ wk' = [wk EXCEPT ![w] = me]
      /\ st' = Apply(st, e) /\ Holds(w)
  BY <1>1 DEF AppendStep, Pc, Become, Record, AppendEvent, Current, Holds
<1>3. /\ was = [f \in MemoryFields |-> was[f]]
      /\ Stage(View, was) /\ LoopStage(st, was)
  BY <1>1, <1>2 DEF EffectInv, WorkInv, Remembers, Fits, LoopInv, LoopWork, LoopDoing
<1>4. EventFits(View, e)
  BY <1>1, HeadFits
<1>5. Shaped(st) /\ FoldOK(st) /\ LoopsOK(st)
  BY DEF EffectInv, RowInv, Shaped, EffectsSafe, LoopInv
<1>6. e.kind = "effect_claimed" =>
        [node |-> e.node, attempt |-> e.attempt, key |-> e.key] \in Claims
  BY <1>4, ClaimIsOne, Zenon DEF EventFits
<1>7. ASSUME LoopFits(st, e)
      PROVE  LoopsOK(st') /\ (e.kind \notin LoopKinds => Onward(st, st'))
  BY <1>2, <1>5, <1>6, <1>7, ApplyKeepsLoops
<1>8. Shorter(was, rest, was.pc) /\ Shorter(was, [rest EXCEPT !.pc = "execute"], "execute")
  BY <1>1, <1>3, QueueShorter, Zenon
<1>9. CASE was.pc = "closing"
  <2>1. ClosingFits(View, was)
    BY <1>3, <1>9 DEF Stage
  <2>2. PICK f : \/ was.queue = <<e>>
                 \/ /\ was.queue = <<e, f>>
                    /\ e.kind \in {"effect_finalized", "effect_abandoned"}
                    /\ f.kind \in {"node_finished", "node_failed"}
    BY <1>1, <2>1 DEF ClosingFits
  <2>3. \A i \in DOMAIN was.queue : LoopFits(st, was.queue[i])
    BY <1>3, <1>9 DEF LoopStage
  <2>4. LoopFits(st, e)
    BY <2>2, <2>3
  <2>5. CASE was.queue = <<e>>
    <3>1. me = At("beat")
      BY <1>1, <1>9, <2>5
    <3>2. LoopDoing(st', me)
      BY <3>1, RestPoints
    <3> QED BY <1>2, <1>7, <2>4, <3>2, WriterDoes, Zenon
  <2>6. CASE was.queue # <<e>>
    <3>1. /\ was.queue = <<e, f>>
          /\ e.kind \in {"effect_finalized", "effect_abandoned"}
          /\ f.kind \in {"node_finished", "node_failed"}
      BY <2>2, <2>6
    <3>2. me = rest /\ Tail(was.queue) = <<f>> /\ LoopFits(st, f)
      BY <1>1, <2>3, <3>1
    <3>3. me.pc = "closing" /\ me.queue = <<f>>
      BY <1>8, <1>9, <3>2, Zenon DEF Shorter
    <3>4. Onward(st, st')
      BY <1>7, <2>4, <3>1 DEF LoopKinds
    <3>5. LoopFits(st', f)
      BY <3>1, <3>2, <3>4, StillMay
    <3>6. LoopDoing(st', me)
      BY <3>3, <3>5 DEF LoopDoing, LoopStage, Undecided
    <3> QED BY <1>2, <1>7, <2>4, <3>6, WriterDoes, Zenon
  <2> QED BY <2>5, <2>6
<1>10. CASE was.pc = "opening"
  <2>1. OpeningFits(View, was)
    BY <1>3, <1>10 DEF Stage
  <2>2. was.plan.do \in {"start_node", "perform"}
    BY <2>1 DEF OpeningFits
  <2>3. May(st, was.plan.node)
    BY <1>3, <1>10, <2>2 DEF LoopStage
  <2>4. PICK a, c : /\ a = NodeEvent("node_started", was.plan.node)
                    /\ c = Claim(was.plan)
    OBVIOUS
  <2>5. /\ a.kind = "node_started" /\ a.node = was.plan.node
        /\ c.kind = "effect_claimed" /\ c.node = was.plan.node
    BY <2>4 DEF NodeEvent, Claim
  <2>6. was.queue = <<a>> \/ was.queue = <<c>> \/ was.queue = <<a, c>>
    BY <2>1, <2>4 DEF OpeningFits
  <2>7. e \in {a, c}
    BY <1>1, <2>6
  <2>8. LoopFits(st, e) /\ e.kind \notin LoopKinds
    BY <2>3, <2>5, <2>7 DEF LoopFits, LoopKinds
  <2>9. Onward(st, st') /\ LoopsOK(st')
    BY <1>7, <2>8
  <2>10. May(st', was.plan.node)
    BY <2>3, <2>9, MayStays
  <2>11. me = rest \/ me = [rest EXCEPT !.pc = "execute"]
    <3>1. CASE was.queue = <<a, c>>
      <4>1. Len(was.queue) = 2
        BY <3>1
      <4> QED BY <1>1, <4>1
    <3>2. ASSUME NEW x, was.queue = <<x>>
          PROVE  me = [rest EXCEPT !.pc = "execute"]
      <4>1. Len(was.queue) = 1
        BY <3>2
      <4> QED BY <1>1, <1>10, <4>1
    <3> QED BY <2>6, <3>1, <3>2
  <2>12. me.pc \in {"opening", "execute"} /\ me.plan = was.plan
    BY <1>8, <1>10, <2>11, Zenon DEF Shorter
  <2>13. LoopDoing(st', me)
    BY <2>10, <2>12 DEF LoopDoing, LoopStage, Undecided
  <2> QED BY <1>2, <2>9, <2>13, WriterDoes, Zenon
<1> QED BY <1>2, <1>9, <1>10

\* Time passes: only ages move.
LEMMA TickDoes ==
  ASSUME EffectInv, LoopInv, Tick
  PROVE  LoopInv'
<1>1. st' = Older(st) /\ UNCHANGED <<wk, held, epoch>>
  BY DEF Tick, leaseVars, rowVars
<1>2. st = [f \in Fields |-> st[f]] /\ LoopsShaped(st.loops) /\ LoopsOK(st)
  BY DEF EffectInv, RowInv, EffectsSafe, FoldOK, LoopInv
<1>3. /\ st'.running = st.running /\ st'.finished = st.finished
      /\ st'.failures = st.failures /\ st'.control = st.control
      /\ st'.outstanding = st.outstanding
  BY <1>1, <1>2, Zenon DEF Older, Fields
<1>4. ASSUME NEW r \in Regions
      PROVE  /\ st'.loops[r].started = st.loops[r].started
             /\ st'.loops[r].finished = st.loops[r].finished
             /\ st'.loops[r].stopped = st.loops[r].stopped
  <2>1. \/ st'.loops[r] = st.loops[r]
        \/ \E age : st'.loops[r] = [st.loops[r] EXCEPT !.age = age]
    BY <1>1, <1>2, Zenon DEF Older, Fields
  <2>2. st.loops[r] = [f \in LoopFields |-> st.loops[r][f]]
    BY <1>2 DEF LoopsShaped
  <2> QED BY <2>1, <2>2, Zenon DEF LoopFields
<1>5. Onward(st, st')
  BY <1>3, <1>4 DEF Onward, Touched
<1>6. LoopsOK(st')
  <2>1. Formed(st')
    BY <1>2, <1>3, Zenon DEF LoopsOK, Formed
  <2>2. \A n \in Nodes : Touched(st', n) => Reached(st, n)
    BY <1>2, <1>3 DEF LoopsOK, Touched
  <2>3. \A i \in DOMAIN st'.outstanding : May(st, st'.outstanding[i].node)
    BY <1>2, <1>3 DEF LoopsOK
  <2>4. \A r \in Regions : HasStopped(st, r) =>
          st'.control[Def.continuedBy[r]].go = st.control[Def.continuedBy[r]].go
    BY <1>3
  <2> QED BY <1>2, <1>4, <1>5, <2>1, <2>2, <2>3, <2>4, OnwardKeeps, Zenon
<1>7. ASSUME NEW e, LoopFits(st, e) PROVE LoopFits(st', e)
  <2>1. /\ May(st, e.node) => May(st', e.node)
        /\ Reached(st, e.node) => Reached(st', e.node)
    BY <1>5, MayStays
  <2>2. ASSUME e.region \in Regions
        PROVE  /\ HasStopped(st', e.region) = HasStopped(st, e.region)
               /\ IterationsExhausted(st', e.region) = IterationsExhausted(st, e.region)
               /\ Justifies(st', e.region, e.reason) = Justifies(st, e.region, e.reason)
    BY <1>3, <1>4, <2>2, Zenon DEF HasStopped, IterationsExhausted, Justifies, IsOpen
  <2> QED BY <1>3, <1>7, <2>1, <2>2, Zenon DEF LoopFits, LoopKinds
<1>8. ASSUME NEW me, LoopStage(st, me) PROVE LoopStage(st', me)
  BY <1>5, <1>7, <1>8, MayStays DEF LoopStage
<1>9. ASSUME NEW v \in Workers, Holds(v)' PROVE LoopDoing(st', wk'[v])
  <2>1. wk'[v] = wk[v] /\ LoopDoing(st, wk[v])
    BY <1>1, <1>9 DEF Holds, LoopInv, LoopWork
  <2> QED BY <1>8, <2>1 DEF LoopDoing
<1> QED BY <1>6, <1>9 DEF LoopInv, LoopWork

\* No step takes the loops out of order.
LEMMA StepKeepsLoops ==
  ASSUME RoutesStayInside, EffectInv, LoopInv, [Next]_vars
  PROVE  LoopInv'
<1>1. ASSUME NEW w \in Workers, Advance(w) PROVE LoopInv'
  <2>1. CASE AppendStep(w)
    BY <2>1, AppendDoes, EndDoes
  <2>2. CASE AnswerSignal(w)
    BY <2>2, AnswerDoes, ResumesDoes
  <2> QED BY <1>1, <2>1, <2>2, LeaseDoes, FoldDoes, ReadInboxDoes, AnswerDoes,
             RunNodeDoes, PerformDoes, CompensateDoes, EndDoes DEF Advance
<1>2. ASSUME NEW w \in Workers, LeaseToRecord(w) \/ Yield(w) \/ Crash(w)
      PROVE  LoopInv'
  BY <1>2, LeaseDoes, EndDoes
<1>3. CASE Expire \/ UNCHANGED vars \/ \E signal \in Signals : Deliver(signal)
  <2>1. UNCHANGED <<st, wk, epoch, held>>
    BY <1>3, Zenon DEF Expire, Deliver, ExpireLease, vars, runVars, leaseVars,
                       rowVars
  <2> QED BY <2>1 DEF LoopInv, LoopWork, Holds
<1>4. CASE Tick
  BY <1>4, TickDoes
<1> QED BY <1>1, <1>2, <1>3, <1>4 DEF Next

\* A run as it is admitted has opened nothing.
LEMMA InitLoops == Init => LoopInv
<1> SUFFICES ASSUME Init PROVE LoopInv
  OBVIOUS
<1>1. /\ st.running = {} /\ st.finished = {} /\ st.outstanding = <<>>
      /\ st.failures = [n \in Nodes |-> <<>>]
      /\ st.control = [n \in Nodes |-> NoControl]
      /\ st.loops = [r \in Regions |-> FreshLoop]
  BY Zenon DEF Init, Admitted
<1>2. /\ DOMAIN NoControl = {"go", "inv", "measure"}
      /\ NoControl.go \in Readings
  BY DEF NoControl, Readings
<1>3. Formed(st)
  BY <1>1, <1>2 DEF Formed
<1>4. \A n \in Nodes : ~Touched(st, n)
  BY <1>1 DEF Touched
<1>5. ASSUME NEW r \in Regions PROVE LoopOK(st, r)
  <2>1. st.loops[r] = FreshLoop
    BY <1>1
  <2>2. /\ FreshLoop.started = 0 /\ FreshLoop.finished = 0
        /\ FreshLoop.stopped \notin {"condition_false", "iterations"}
    BY DEF FreshLoop
  <2>3. Def.budget[r].iterations \in Nat
    BY DefAssumption
  <2>4. Justifies(st, r, FreshLoop.stopped)
    BY <2>2, Zenon DEF Justifies
  <2> HIDE DEF FreshLoop
  <2> QED BY <2>1, <2>2, <2>3, <2>4 DEF LoopOK
<1>6. LoopsOK(st)
  <2>1. DOMAIN st.outstanding = {}
    BY <1>1
  <2> QED BY <1>3, <1>4, <1>5, <2>1, Zenon DEF LoopsOK
<1>7. ASSUME NEW w \in Workers PROVE LoopDoing(st, wk[w])
  <2>1. wk[w] = Idling
    BY DEF Init
  <2> QED BY <2>1, RestPoints
<1> QED BY <1>6, <1>7 DEF LoopInv, LoopWork

\* The loops stay in order if no loop hands a failure to a node outside of it.
THEOREM LoopInvariant ==
  ASSUME RoutesStayInside
  PROVE  Spec => [](EffectInv /\ LoopInv)
<1>1. Init => EffectInv /\ LoopInv
  BY InitEffects, InitLoops
<1>2. EffectInv /\ LoopInv /\ [Next]_vars => EffectInv' /\ LoopInv'
  BY StepKeepsEffects, StepKeepsLoops
<1> QED BY <1>1, <1>2, PTL DEF Spec

\* A loop goes round no more often than its budget says, and says why it
\* stopped: a false condition only on a reading of the iteration that ended it,
\* the iteration budget only when that is spent and the reading says to go on.
\* For every definition whose loops answer their failures inside, any number
\* of workers and whatever happens to them between deciding and writing.
THEOREM LoopsStopForTheirReason ==
  ASSUME RoutesStayInside
  PROVE  Spec => []LoopStopsForItsReason
<1>1. LoopInv => LoopStopsForItsReason
  BY Zenon DEF LoopInv, LoopsOK, LoopOK, Justifies, LoopStopsForItsReason
<1> QED BY <1>1, LoopInvariant, PTL

\* A node behind a loop runs only once the loop stopped on a false condition:
\* neither an iteration's output nor a loop that ran out of something lets the
\* run go on.  For every definition whose loops are entered by their entry and
\* answer their failures inside.
THEOREM LoopsHoldBackTheRest ==
  ASSUME RoutesStayInside, EnteredByEntry
  PROVE  Spec => []DownstreamWaitsForLoop
<1>1. LoopInv => DownstreamWaitsForLoop
  <2> SUFFICES ASSUME LoopInv, NEW r \in Regions,
                      NEW n \in (st.running \cup st.finished) \ Def.members[r],
                      Def.pred[n] \cap Def.members[r] # {}
               PROVE  st.loops[r].stopped = "condition_false"
    BY DEF DownstreamWaitsForLoop
  <2>1. n \in Nodes /\ Reached(st, n)
    BY DEF LoopInv, LoopsOK, Formed, Touched
  <2>2. r \in Upstream(n)
    BY DEF Upstream, RegionsOf
  <2> QED BY <2>1, <2>2 DEF Reached
<1> QED BY <1>1, LoopInvariant, PTL
=============================================================================
