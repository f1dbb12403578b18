------------------------ MODULE GraphWorker_effects -------------------------
(***************************************************************************)
(* Effects take place as often as they may and are accounted for, a run    *)
(* ends settled, the ledger agrees with the fold and a wait ends for its   *)
(* reason: for every definition, every number of workers, every inbox and  *)
(* however many crashes, lost leases and unclear answers.  The invariant is *)
(* EffectInv of GraphWorker_proofs; what is left of it is the steps that   *)
(* write an event, the calls of the executor and what happens outside the  *)
(* workers.                                                                *)
(***************************************************************************)
EXTENDS GraphWorker_proofs

-----------------------------------------------------------------------------
(* Steps that write an event *)

\* The ledger's rows that are finalized are those of the completed effects,
\* still, after an event that fits.
LEMMA LedgerMoves ==
  ASSUME LedgerFinalizes, Shaped(st), FoldOK(st), NEW e,
         EventFits(View, e) \/ e.kind = "resumed",
         ~LedgerRefuses(e), st' = Apply(st, e), ledger' = LedgerAfter(e),
         e.kind \notin EffectKinds => st'.completed = st.completed
  PROVE  LedgerFinalizes'
<1> DEFINE Final(n) == \E row \in DOMAIN ledger :
                         row[1] = n /\ ledger[row] = "finalized"
<1>1. \A n \in Effects : n \in st.completed <=> Final(n)
  BY DEF LedgerFinalizes
<1>2. CASE e.kind \notin EffectKinds
  <2>1. ledger' = ledger
    BY <1>2 DEF LedgerAfter, EffectKinds
  <2> QED BY <1>2, <2>1 DEF LedgerFinalizes
<1> SUFFICES ASSUME e.kind \in EffectKinds PROVE LedgerFinalizes'
  BY <1>2
<1>3. View.s = st /\ View.rows = DOMAIN ledger /\ EventFits(View, e)
  BY Zenon DEF View, EffectKinds
<1>4. /\ e.kind # "effect_claimed" => e.node \notin st.completed
      /\ e.kind = "effect_finalized" => st'.completed = st.completed \cup {e.node}
      /\ e.kind # "effect_finalized" => st'.completed = st.completed
  BY <1>3, LogMoves
<1>5. e.node \in Effects /\ RowOf(e)[1] = e.node
  BY <1>3, Zenon DEF EventFits, EffectKinds, RowOf
<1>6. PICK row : row = RowOf(e)
  BY Zenon
<1>7. CASE e.kind = "effect_claimed"
  <2>1. ledger' = [q \in DOMAIN ledger \cup {row} |->
                     IF q = row THEN "claimed" ELSE ledger[q]]
    BY <1>6, <1>7 DEF LedgerAfter, Inserted
  <2>2. row \in DOMAIN ledger => ledger[row] # "finalized"
    BY <1>6, <1>7 DEF LedgerRefuses
  <2>3. \A n : (\E q \in DOMAIN ledger' : q[1] = n /\ ledger'[q] = "finalized")
                 <=> Final(n)
    BY <2>1, <2>2
  <2> QED BY <1>1, <1>4, <1>7, <2>3 DEF LedgerFinalizes
<1>8. CASE e.kind = "effect_finalized"
  <2>1. ledger' = [q \in DOMAIN ledger |->
                     IF q = row THEN "finalized" ELSE ledger[q]]
    BY <1>6, <1>8 DEF LedgerAfter, Updated
  <2>2. row \in DOMAIN ledger
    BY <1>3, <1>6, <1>8, Zenon DEF EventFits
  <2>3. \A n : (\E q \in DOMAIN ledger' : q[1] = n /\ ledger'[q] = "finalized")
                 <=> Final(n) \/ n = e.node
    BY <1>5, <1>6, <2>1, <2>2, Zenon
  <2> QED BY <1>1, <1>4, <1>8, <2>3 DEF LedgerFinalizes
<1>9. CASE e.kind \in {"effect_abandoned", "effect_uncertain"}
  <2>1. PICK o \in {"abandoned", "uncertain"} :
          ledger' = [q \in DOMAIN ledger |-> IF q = row THEN o ELSE ledger[q]]
    BY <1>6, <1>9 DEF LedgerAfter, Updated
  <2>2. row \in DOMAIN ledger => ledger[row] # "finalized"
    BY <1>1, <1>4, <1>5, <1>6, <1>9, Zenon
  <2>3. \A n : (\E q \in DOMAIN ledger' : q[1] = n /\ ledger'[q] = "finalized")
                 <=> Final(n)
    BY <2>1, <2>2
  <2> QED BY <1>1, <1>4, <1>9, <2>3, Zenon DEF LedgerFinalizes
<1> QED BY <1>7, <1>8, <1>9, Zenon DEF EffectKinds
\* An event that fits leaves every effect charged and a run that ends settled,
\* if only whoever wrote a claim starts asking for its effect.
LEMMA EventKeepsSafe ==
  ASSUME EffectInv, NEW w \in Workers, NEW e,
         EventFits(View, e) \/ e.kind = "resumed",
         ~LedgerRefuses(e), st' = Apply(st, e), ledger' = LedgerAfter(e),
         world' = world,
         \A v \in Workers, n \in Effects : AsksFor(wk'[v], n) =>
           \/ AsksFor(wk[v], n)
           \/ v = w /\ e.kind = "effect_claimed" /\ n = e.node
  PROVE  EffectsSafe'
<1> USE DEF EffectInv
<1>1. View.s = st /\ Shaped(st) /\ FoldOK(st)
  BY DEF View, RowInv, Shaped, EffectsSafe
<1>2. FoldOK(st)'
  BY <1>1, FoldMoves, Zenon
<1>3. WorldOK'
  BY DEF EffectsSafe, WorldOK
<1>4. CASE e.kind \notin EffectKinds
  <2>1. e.kind \in LoopKinds => e.region \in Regions
    BY Zenon DEF EventFits, LoopKinds
  <2>2. LoopsShaped(st.loops)
    BY <1>1, Zenon DEF FoldOK
  <2>3. /\ SameEffects(st, st')
        /\ EndsWith(st, st', e)
        /\ st.compensated \subseteq st'.compensated
    BY <1>1, <1>4, <2>1, <2>2, ApplyPlain, Zenon
  <2>4. LedgerFinalizes'
    <3>1. LedgerFinalizes /\ st'.completed = st.completed
      BY <2>3, Zenon DEF EffectsSafe, SameEffects
    <3> QED BY <1>1, <3>1, LedgerMoves, Zenon
  <2>5. \A v \in Workers, n \in Effects :
          AsksFor(wk'[v], n) => AsksFor(wk[v], n)
    BY <1>4 DEF EffectKinds
  <2>6. ASSUME NEW n \in Effects PROVE Charged(n)'
    <3>1. Charged(n) /\ (Asked(n)' => Asked(n))
      BY <2>5, Zenon DEF EffectsSafe, Asked
    <3>2. OnLog(st, n)' <=> OnLog(st, n)
      BY <2>3, Zenon DEF OnLog, HasClaim, InDoubt, SameEffects
    <3> QED BY <2>5, <3>1, <3>2, Zenon DEF Charged
  <2>7. EndsSettled'
    <3>1. Owed(st') \subseteq Owed(st)
      BY <2>3, Zenon DEF Owed, SameEffects
    <3>2. CASE /\ Writable(st) /\ e.kind \in FinalStatuses /\ st'.status = e.kind
               /\ st'.finished = st.finished /\ st'.loops = st.loops
      <4>1. /\ e.kind \in {"failed", "cancelled"} =>
                 st.outstanding = <<>> /\ (Owed(st) = {} \/ world.stuck)
            /\ e.kind = "completed" => AllDone(st)
        BY <1>1, Zenon DEF EventFits, NothingOwed, View
      <4> QED BY <2>3, <3>1, <3>2, <4>1, Zenon
          DEF EndsSettled, SameEffects, AllDone, IsTerminal, FinalStatuses
    <3>3. CASE /\ st'.status = st.status
               /\ st'.finished = st.finished /\ st'.loops = st.loops
      BY <2>3, <3>1, <3>3, Zenon DEF EffectsSafe, EndsSettled, SameEffects, IsTerminal
    <3>4. CASE st'.status \notin FinalStatuses
      BY <3>4, Zenon DEF EndsSettled, IsTerminal, FinalStatuses
    <3> QED BY <2>3, <3>2, <3>3, <3>4, Zenon DEF EndsWith
  <2> QED BY <1>2, <1>3, <2>4, <2>6, <2>7, Zenon DEF EffectsSafe
<1>5. CASE e.kind \in EffectKinds
  <2>1. EventFits(View, e)
    BY <1>5 DEF EffectKinds
  <2>2. /\ Writable(st) /\ SameCourse(st, st')
        /\ \A m : OnLog(st, m) /\ (m # e.node \/ e.kind # "effect_abandoned")
                    => OnLog(st, m)'
        /\ e.kind = "effect_claimed" => HasClaim(st', e.node)
    BY <1>1, <1>5, <2>1, LogMoves, Zenon
  <2>3. LedgerFinalizes'
    BY <1>1, <1>5, LedgerMoves, Zenon DEF EffectsSafe
  <2>4. EndsSettled'
    BY <2>2, Zenon DEF EndsSettled, Writable, IsTerminal, SameCourse, FinalStatuses
  <2>5. ASSUME NEW n \in Effects, n # e.node PROVE Charged(n)'
    <3>1. \A v \in Workers : AsksFor(wk'[v], n) => AsksFor(wk[v], n)
      BY <2>5, Zenon
    <3>2. Charged(n) /\ (Asked(n)' => Asked(n)) /\ (OnLog(st, n) => OnLog(st, n)')
      BY <2>2, <2>5, <3>1, Zenon DEF EffectsSafe, Asked
    <3> QED BY <3>1, <3>2, Zenon DEF Charged
  <2>6. ASSUME NEW n \in Effects, n = e.node PROVE Charged(n)'
    <3>0. Charged(n)
      BY Zenon DEF EffectsSafe
    <3>1. CASE e.kind \in {"effect_finalized", "effect_uncertain"}
      <4>1. \A v \in Workers : AsksFor(wk'[v], n) => AsksFor(wk[v], n)
        BY <3>1, Zenon
      <4>2. (Asked(n)' => Asked(n)) /\ (OnLog(st, n) => OnLog(st, n)')
        BY <2>2, <3>1, <4>1, Zenon DEF Asked
      <4> QED BY <3>0, <4>1, <4>2, Zenon DEF Charged
    <3>2. CASE e.kind = "effect_abandoned"
      <4>1. \A v \in Workers : AsksFor(wk'[v], n) => AsksFor(wk[v], n)
        BY <3>2, Zenon
      <4>2. Asked(n)' => Asked(n)
        BY <4>1, Zenon DEF Asked
      <4>3. /\ n \in world.refused
            /\ Def.idem[n] = "non_idempotent" => world.did[n] = 0 /\ ~Asked(n)
        BY <2>1, <2>6, <3>2, Zenon DEF EventFits, Refused, View
      <4>4. Def.idem[n] = "non_idempotent" => world.did[n] = 0 /\ ~Asked(n)'
        BY <4>2, <4>3, Zenon
      <4>5. \A u, v \in Workers : AsksFor(wk'[u], n) => Asked(n)'
        BY Zenon DEF Asked
      <4> QED BY <3>0, <4>3, <4>4, <4>5 DEF Charged
    <3>3. CASE e.kind = "effect_claimed"
      <4>1. OnLog(st, n)'
        BY <2>2, <2>6, <3>3, Zenon DEF OnLog
      <4>2. ASSUME Def.idem[n] = "non_idempotent"
            PROVE  world.did[n] = 0 /\ ~Asked(n)
        <5>1. NewEffect(st, n)
          BY <1>1, <2>1, <2>6, <3>3, <4>2, Zenon DEF EventFits, RepeatedEffect
        <5>2. ~OnLog(st, n)
          BY <5>1 DEF NewEffect, OnLog, HasClaim, InDoubt
        <5>3. world.did[n] \in Nat
          BY DEF EffectsSafe, WorldOK
        <5> QED BY <3>0, <4>2, <5>2, <5>3 DEF Charged
      <4>3. ASSUME Def.idem[n] = "non_idempotent", NEW v \in Workers,
                   AsksFor(wk'[v], n)
            PROVE  v = w
        BY <4>2, <4>3 DEF Asked
      <4> QED BY <3>0, <4>1, <4>2, <4>3, Zenon DEF Charged
    <3> QED BY <1>5, <3>1, <3>2, <3>3, Zenon DEF EffectKinds
  <2> QED BY <1>2, <1>3, <2>3, <2>4, <2>5, <2>6 DEF EffectsSafe
<1> QED BY <1>4, <1>5

\* Only the holder writes: what it goes on to fits the log it wrote.
LEMMA HolderMoves ==
  ASSUME EffectInv, NEW w \in Workers, NEW e, NEW me, Record(w, e),
         wk' = [wk EXCEPT ![w] = me], asks' = asks,
         inbox' \in Seq(Mail), DOMAIN inbox' = DOMAIN inbox,
         Remembers(me, DOMAIN inbox), Fits(View', me)
  PROVE  WorkInv'
<1> USE DEF EffectInv
<1>1. held' = held /\ epoch' = epoch /\ held[w] # 0 /\ held[w] = epoch
  BY Zenon DEF Record, AppendEvent, WriteEvent, Current
<1>2. \A v \in Workers \ {w} : ~Holds(v)
  BY <1>1, Zenon DEF LeaseInv, OneHolderPerEpoch, Holds
<1>3. ASSUME NEW v \in Workers
      PROVE  /\ Remembers(wk'[v], DOMAIN inbox')
             /\ wk'[v].pc # "idle" => held'[v] # 0
             /\ Holds(v)' => Fits(View', wk'[v])
  <2>1. CASE v = w
    <3>1. wk'[v] = me
      BY <2>1 DEF WorkInv
    <3> QED BY <1>1, <2>1, <3>1, Zenon
  <2>2. CASE v # w
    <3>1. wk'[v] = wk[v]
      BY <2>2 DEF WorkInv
    <3>2. ~Holds(v)'
      BY <1>1, <1>2, <2>2, Zenon DEF Holds
    <3> QED BY <1>1, <3>1, <3>2 DEF WorkInv
  <2> QED BY <2>1, <2>2, Zenon
<1>4. wk' = [v \in Workers |-> wk'[v]] /\ asks' \subseteq Requests
  BY DEF WorkInv
<1> QED BY <1>3, <1>4 DEF WorkInv
-----------------------------------------------------------------------------
(* Steps that write to the log *)

\* A worker with one event fewer to write.
Shorter(was, me, pc) ==
  /\ me = [f \in MemoryFields |-> me[f]]
  /\ me.pc = pc /\ me.queue = Tail(was.queue) /\ me.plan = was.plan
  /\ me.todo = was.todo /\ me.resumed = was.resumed

\* Dropping the event just written leaves a memory that is shorter by it.
LEMMA QueueShorter ==
  ASSUME NEW was, was = [f \in MemoryFields |-> was[f]]
  PROVE  LET rest == [was EXCEPT !.queue = Tail(@)] IN
         /\ Shorter(was, rest, was.pc)
         /\ Shorter(was, [rest EXCEPT !.pc = "execute"], "execute")
  BY Zenon DEF Shorter, MemoryFields

\* A worker that has written one event of its queue still remembers the inbox.
LEMMA ShorterRemembers ==
  ASSUME NEW was, NEW me, NEW pc \in {"opening", "execute", "closing"},
         NEW mail, Shorter(was, me, pc), Remembers(was, mail)
  PROVE  Remembers(me, mail)
  BY DEF Shorter, Remembers

\* The node of an effect is marked as started: the claim still fits.
LEMMA StartedStillClaims ==
  ASSUME NEW x, NEW y, NEW e, NEW c, Shaped(x.s), LoopsShaped(x.s.loops),
         e.kind = "node_started", e.node \notin x.s.running,
         y.s = Apply(x.s, e), c.kind = "effect_claimed", EventFits(x, c)
  PROVE  EventFits(y, c)
<1> DEFINE s == x.s
           t == y.s
<1>1. /\ Writable(s)
      /\ c.node \in Effects /\ c.attempt \in Nat /\ c.key = FreshKey(c.node, 0)
      /\ NewEffect(s, c.node) \/ RepeatedEffect(s, c.node)
  BY Zenon DEF EventFits
<1>2. t = [s EXCEPT !.status = "running", !.running = @ \cup {e.node},
                    !.age[e.node] = 0]
  BY <1>1 DEF Apply, NodeStarted, Writable, FinalStatuses
<1>3. /\ t.ok = s.ok /\ t.status = "running" /\ t.outstanding = s.outstanding
      /\ t.uncertain = s.uncertain /\ t.cancel = s.cancel
      /\ t.completed = s.completed
  BY <1>2, Zenon DEF Shaped, Fields
<1> HIDE DEF s, t
<1>4. Writable(t)
  BY <1>1, <1>3, Zenon DEF Writable, IsTerminal, FinalStatuses
<1>5. NewEffect(t, c.node) \/ RepeatedEffect(t, c.node)
  BY <1>1, <1>3, Zenon DEF NewEffect, RepeatedEffect
<1> QED BY <1>1, <1>4, <1>5, Zenon DEF EventFits, t

\* The claim is on the log and in the ledger: what the effect comes to will be
\* an outcome of it.
LEMMA ClaimedExecutes ==
  ASSUME EffectInv, NEW d, EventFits(View, Claim(d)),
         st' = Apply(st, Claim(d)), ledger' = LedgerAfter(Claim(d))
  PROVE  EventFits(View', EffectEvent("effect_finalized", d))
<1> DEFINE c == Claim(d)
           e == EffectEvent("effect_finalized", d)
<1>1. /\ c.kind = "effect_claimed" /\ c.node = d.node /\ c.attempt = d.attempt
      /\ e.kind = "effect_finalized" /\ e.node = d.node /\ e.attempt = d.attempt
  BY DEF Claim, EffectEvent
<1> HIDE DEF c, e
<1>2. View.s = st /\ Shaped(st) /\ FoldOK(st)
  BY DEF View, EffectInv, RowInv, Shaped, EffectsSafe
<1>3. EventFits(View, c) /\ st' = Apply(st, c) /\ ledger' = LedgerAfter(c)
  BY DEF c
<1>4. /\ Writable(st) /\ SameCourse(st, st')
      /\ HasClaim(st', d.node)
  BY <1>1, <1>2, <1>3, LogMoves, Zenon DEF EffectKinds
<1>5. Writable(st') /\ d.node \in Effects
  BY <1>1, <1>2, <1>3, <1>4, Zenon DEF SameCourse, Writable, IsTerminal, EventFits
<1>6. RowOf(e) \in DOMAIN ledger'
  BY <1>1, <1>3 DEF LedgerAfter, Inserted, RowOf
<1>7. View'.s = st' /\ View'.rows = DOMAIN ledger'
  BY DEF View
<1>8. EventFits(View', e)
  BY <1>1, <1>4, <1>5, <1>6, <1>7, Zenon DEF EventFits
<1> QED BY <1>8 DEF e

\* append_ir_run_event, where the event is written.
LEMMA AppendKeeps ==
  ASSUME EffectInv, NEW w \in Workers, AppendStep(w),
         Current(w), ~LedgerRefuses(Head(wk[w].queue))
  PROVE  WorkInv' /\ EffectsSafe'
<1> USE DEF EffectInv
<1>1. PICK was, e, me, rest :
        /\ was = wk[w] /\ e = Head(was.queue)
        /\ rest = [was EXCEPT !.queue = Tail(@)]
        /\ me = CASE Len(was.queue) > 1 -> rest
                  [] Len(was.queue) = 1 /\ was.pc = "opening" ->
                       [rest EXCEPT !.pc = "execute"]
                  [] OTHER -> At("beat")
  BY Zenon
<1>2. /\ was.pc \in {"opening", "closing"}
      /\ UNCHANGED <<inbox, world, asks>>
      /\ Record(w, e)
      /\ wk' = [wk EXCEPT ![w] = me]
  BY <1>1 DEF AppendStep, Pc, Become
<1>3. /\ st' = Apply(st, e) /\ ledger' = LedgerAfter(e) /\ Holds(w)
      /\ ~LedgerRefuses(e)
  BY <1>1, <1>2 DEF Record, AppendEvent, Current, Holds
<1>4. Remembers(was, DOMAIN inbox) /\ Stage(View, was)
  BY <1>1, <1>3 DEF WorkInv, Fits
<1>5. inbox' \in Seq(Mail) /\ DOMAIN inbox' = DOMAIN inbox
  BY <1>2 DEF WorkInv
<1>6. View.s = st /\ View'.s = st' /\ Shaped(st) /\ LoopsShaped(st.loops)
  BY DEF View, RowInv, Shaped, EffectsSafe, FoldOK
<1>7. ASSUME EventFits(View, e), Remembers(me, DOMAIN inbox), Stage(View', me),
             me.pc \in {"opening", "execute", "closing", "beat"},
             \/ ~(me.pc = "execute" /\ me.plan.do = "perform")
             \/ e.kind = "effect_claimed" /\ e.node = me.plan.node
      PROVE  WorkInv' /\ EffectsSafe'
  <2>1. Fits(View', me)
    BY <1>7 DEF Fits, Undecided
  <2>2. WorkInv'
    BY <1>2, <1>5, <1>7, <2>1, HolderMoves, Zenon
  <2>3. \A v \in Workers, n \in Effects : AsksFor(wk'[v], n) =>
           \/ AsksFor(wk[v], n)
           \/ v = w /\ e.kind = "effect_claimed" /\ n = e.node
    BY <1>2, <1>7 DEF WorkInv, AsksFor
  <2>4. EffectsSafe'
    BY <1>2, <1>3, <1>7, <2>3, EventKeepsSafe, Zenon
  <2> QED BY <2>2, <2>4
<1>8. Shorter(was, rest, was.pc) /\ Shorter(was, [rest EXCEPT !.pc = "execute"], "execute")
  BY <1>1, <1>4, QueueShorter, Zenon DEF Remembers
<1>9. CASE was.pc = "closing"
  <2>1. ClosingFits(View, was)
    BY <1>4, <1>9 DEF Stage
  <2>2. PICK f : \/ was.queue = <<e>>
                 \/ was.queue = <<e, f>> /\ f.kind \in {"node_finished", "node_failed"}
    BY <1>1, <2>1 DEF ClosingFits
  <2>3. EventFits(View, e)
    BY <2>1, <2>2 DEF ClosingFits
  <2>4. CASE was.queue = <<e>>
    <3>1. me = At("beat")
      BY <1>1, <1>9, <2>4
    <3>2. Remembers(me, DOMAIN inbox) /\ me.pc = "beat"
      BY <3>1, RestRemembers
    <3> QED BY <1>7, <2>3, <3>2 DEF Stage
  <2>5. CASE was.queue = <<e, f>> /\ f.kind \in {"node_finished", "node_failed"}
    <3>1. me = rest /\ Tail(was.queue) = <<f>>
      BY <1>1, <2>5
    <3>2. Remembers(me, DOMAIN inbox) /\ me.pc = "closing" /\ me.queue = <<f>>
      BY <1>4, <1>8, <1>9, <3>1, ShorterRemembers, Zenon DEF Shorter
    <3>3. EventFits(View', f)
      BY <2>5, Zenon DEF EventFits
    <3>4. Stage(View', me)
      BY <3>2, <3>3 DEF Stage, ClosingFits
    <3> QED BY <1>7, <2>3, <3>2, <3>4
  <2> QED BY <2>2, <2>4, <2>5
<1>10. CASE was.pc = "opening"
  <2>1. OpeningFits(View, was)
    BY <1>4, <1>10 DEF Stage
  <2>2. CASE /\ was.plan.do = "start_node" /\ was.plan.node \in Nat
             /\ was.queue = <<NodeEvent("node_started", was.plan.node)>>
    <3>1. e = NodeEvent("node_started", was.plan.node) /\ Len(was.queue) = 1
      BY <1>1, <2>2
    <3>2. EventFits(View, e)
      BY <2>2, <3>1, Zenon DEF EventFits, NodeEvent
    <3>3. me = [rest EXCEPT !.pc = "execute"]
      BY <1>1, <1>10, <3>1
    <3>4. /\ Remembers(me, DOMAIN inbox)
          /\ me.pc = "execute" /\ me.plan.do = "start_node"
      BY <1>4, <1>8, <2>2, <3>3, ShorterRemembers, Zenon DEF Shorter
    <3>5. Stage(View', me)
      BY <3>4, Zenon DEF Stage, ExecuteFits
    <3> QED BY <1>7, <3>2, <3>4, <3>5, Zenon
  <2>3. CASE /\ was.plan.do = "perform" /\ EventFits(View, Claim(was.plan))
             /\ was.queue = <<Claim(was.plan)>>
    <3>1. e = Claim(was.plan) /\ Len(was.queue) = 1
      BY <1>1, <2>3
    <3>2. me = [rest EXCEPT !.pc = "execute"]
      BY <1>1, <1>10, <3>1
    <3>3. /\ Remembers(me, DOMAIN inbox)
          /\ me.pc = "execute" /\ me.plan = was.plan
      BY <1>4, <1>8, <3>2, ShorterRemembers, Zenon DEF Shorter
    <3>4. EventFits(View', EffectEvent("effect_finalized", was.plan))
      BY <1>3, <2>3, <3>1, ClaimedExecutes, Zenon
    <3>5. Stage(View', me)
      BY <2>3, <3>3, <3>4, Zenon DEF Stage, ExecuteFits
    <3>6. e.kind = "effect_claimed" /\ e.node = me.plan.node
      BY <3>1, <3>3 DEF Claim
    <3> QED BY <1>7, <2>3, <3>1, <3>3, <3>5, <3>6, Zenon
  <2>4. CASE /\ was.plan.do = "perform" /\ EventFits(View, Claim(was.plan))
             /\ was.queue = <<NodeEvent("node_started", was.plan.node),
                              Claim(was.plan)>>
             /\ was.plan.node \notin View.s.running
    <3> DEFINE c == Claim(was.plan)
    <3>1. /\ e = NodeEvent("node_started", was.plan.node) /\ Len(was.queue) = 2
          /\ Tail(was.queue) = <<c>>
      BY <1>1, <2>4
    <3>2. me = rest
      BY <1>1, <3>1
    <3>3. /\ Remembers(me, DOMAIN inbox) /\ me.queue = <<c>>
          /\ me.pc = "opening" /\ me.plan = was.plan
      BY <1>4, <1>8, <1>10, <3>1, <3>2, ShorterRemembers, Zenon DEF Shorter
    <3>4. c.kind = "effect_claimed" /\ c.node \in Effects /\ c.node = was.plan.node
      BY <2>4, Zenon DEF Claim, EventFits
    <3>5. e.kind = "node_started" /\ e.node = was.plan.node /\ e.node \in Nat
      BY <3>1, <3>4, DefAssumption, Zenon DEF NodeEvent, Effects, Nodes
    <3>6. EventFits(View, e)
      BY <3>5, Zenon DEF EventFits
    <3> HIDE DEF c
    <3>7. EventFits(View', c)
      BY <1>3, <1>6, <2>4, <3>4, <3>5, StartedStillClaims, Zenon DEF c
    <3>8. Stage(View', me)
      BY <2>4, <3>3, <3>7, Zenon DEF Stage, OpeningFits, c
    <3> QED BY <1>7, <3>3, <3>6, <3>8, Zenon
  <2> QED BY <2>1, <2>2, <2>3, <2>4 DEF OpeningFits
<1> QED BY <1>2, <1>9, <1>10

\* answer_signals, where it resumes the run.
LEMMA ResumesKeeps ==
  ASSUME EffectInv, NEW w \in Workers, AnswerSignal(w), Resumes(w)
  PROVE  WorkInv' /\ EffectsSafe'
<1> USE DEF EffectInv
<1>1. PICK was, me, e, i :
        /\ was = wk[w] /\ me = [was EXCEPT !.pc = "consume", !.resumed = TRUE]
        /\ e = [kind |-> "resumed"] /\ i = FirstSignal(was)
  BY Zenon
<1>2. /\ was.pc = "answer" /\ Record(w, e) /\ wk' = [wk EXCEPT ![w] = me]
      /\ inbox' = [inbox EXCEPT ![i].resumes = @ + 1]
      /\ UNCHANGED <<world, asks>>
  BY <1>1 DEF AnswerSignal, Resumes, Pc
<1>3. inbox' \in Seq(Mail) /\ DOMAIN inbox' = DOMAIN inbox
  BY <1>1, <1>2, FirstSignalIsThere, InboxStays, Zenon
<1>4. Remembers(was, DOMAIN inbox)
  BY <1>1 DEF WorkInv
<1>5. /\ me = [f \in MemoryFields |-> me[f]]
      /\ me.pc = "consume" /\ me.resumed
      /\ me.todo = was.todo /\ me.plan = was.plan
  BY <1>1, <1>4, Zenon DEF Remembers, MemoryFields
<1>6. Remembers(me, DOMAIN inbox)
  BY <1>2, <1>4, <1>5 DEF Remembers
<1>7. Fits(View', me)
  BY <1>5 DEF Fits, Stage, Undecided
<1>8. WorkInv'
  BY <1>2, <1>3, <1>6, <1>7, HolderMoves, Zenon
<1>9. \A v \in Workers, n \in Effects : AsksFor(wk'[v], n) => AsksFor(wk[v], n)
  BY <1>2, <1>5 DEF WorkInv, AsksFor
<1>10. /\ e.kind = "resumed" /\ st' = Apply(st, e) /\ ledger' = LedgerAfter(e)
       /\ ~LedgerRefuses(e)
  BY <1>1, <1>2 DEF Record, LedgerRefuses
<1>11. EffectsSafe'
  BY <1>2, <1>9, <1>10, EventKeepsSafe
<1> QED BY <1>8, <1>11

-----------------------------------------------------------------------------
(* What happens outside the workers *)

\* The lease runs out, a signal is delivered, or nothing happens.
LEMMA OutsideKeeps ==
  ASSUME EffectInv,
         Expire \/ UNCHANGED vars \/ \E signal \in Signals : Deliver(signal)
  PROVE  WorkInv' /\ EffectsSafe'
<1> USE DEF EffectInv
<1>1. UNCHANGED <<st, ledger, world, asks, wk, epoch, held>>
  BY Zenon DEF Expire, Deliver, ExpireLease, vars, runVars, leaseVars, rowVars
<1>2. inbox' \in Seq(Mail) /\ DOMAIN inbox \subseteq DOMAIN inbox'
  <2>1. CASE inbox' = inbox
    BY <2>1 DEF WorkInv
  <2>2. ASSUME NEW signal \in Signals, Deliver(signal)
        PROVE  inbox' \in Seq(Mail) /\ DOMAIN inbox \subseteq DOMAIN inbox'
    <3> DEFINE m == [kind |-> signal.kind, subject |-> signal.subject,
                     authorities |-> signal.authorities,
                     outcome |-> "pending", resumes |-> 0]
    <3>1. m \in Mail
      <4>1. PICK o \in {"pending", "refused", "resumed"} : o = "pending"
        OBVIOUS
      <4>2. PICK r \in Nat : r = 0
        OBVIOUS
      <4>3. [kind |-> signal.kind, subject |-> signal.subject,
             authorities |-> signal.authorities,
             outcome |-> o, resumes |-> r] \in Mail
        BY DEF Mail
      <4> QED BY <4>1, <4>2, <4>3
    <3>2. inbox' = Append(inbox, m)
      BY <2>2 DEF Deliver
    <3> HIDE DEF m
    <3> QED BY <3>1, <3>2 DEF WorkInv
  <2> QED BY <2>1, <2>2 DEF Expire, vars, runVars
<1>3. EffectsSafe' /\ LogUntouched(View, View')
  <2>1. \A v \in Workers, n \in Effects :
          AsksFor(wk'[v], n) => AsksFor(wk[v], n)
    BY <1>1
  <2> QED BY <1>1, <2>1, SafeKept
<1> QED BY <1>1, <1>2, <1>3, NobodyMoves

\* While time passes only ages and a timer change.
LEMMA TickIsLater ==
  ASSUME EffectInv, Tick
  PROVE  Later(st, st')
<1> USE DEF EffectInv
<1>0. st' = Older(st)
  BY DEF Tick
<1>1. st = [f \in Fields |-> st[f]]
  BY DEF RowInv
<1>2. /\ st'.ok = st.ok /\ st'.status = st.status
      /\ st'.running = st.running /\ st'.finished = st.finished
      /\ st'.outstanding = st.outstanding /\ st'.completed = st.completed
      /\ st'.finalized = st.finalized /\ st'.uncertain = st.uncertain
      /\ st'.compensated = st.compensated /\ st'.cancel = st.cancel
  BY <1>0, <1>1, Zenon DEF Older, Fields
<1>3. ASSUME NEW r \in Regions
      PROVE  st'.loops[r].stopped = st.loops[r].stopped
  <2>1. \/ st'.loops[r] = st.loops[r]
        \/ \E age : st'.loops[r] = [st.loops[r] EXCEPT !.age = age]
    BY <1>0, <1>1, Zenon DEF Older, Fields
  <2>2. st.loops[r] = [f \in LoopFields |-> st.loops[r][f]]
    BY DEF EffectsSafe, FoldOK, LoopsShaped
  <2> QED BY <2>1, <2>2, Zenon DEF LoopFields
<1>4. st'.waitingOn = IF st.waitingOn.kind = "timer" /\ st.waitingOn.left > 0
                      THEN Timer(st.waitingOn.left - 1) ELSE st.waitingOn
  BY <1>0, <1>1, Zenon DEF Older, Fields
<1>5. \/ st'.waitingOn = st.waitingOn
      \/ /\ st.waitingOn.kind = "timer" /\ st'.waitingOn.kind = "timer"
         /\ st.waitingOn.left # 0
  BY <1>4 DEF Timer
<1> QED BY <1>2, <1>3, <1>5 DEF Later

\* Time passes.
LEMMA TickKeeps ==
  ASSUME EffectInv, Tick
  PROVE  WorkInv' /\ EffectsSafe'
<1> USE DEF EffectInv
<1>1. /\ st' = Older(st)
      /\ UNCHANGED <<ledger, world, asks, inbox, wk, epoch, held>>
  BY DEF Tick, leaseVars, rowVars
<1>2. Later(st, st')
  BY TickIsLater
<1>3. LogUntouched(View, View')
  BY <1>1, <1>2, Zenon DEF LogUntouched, View, Asked
<1>4. EffectsSafe'
  <2>1. Owed(st') = Owed(st) /\ IsTerminal(st') = IsTerminal(st)
    BY <1>2 DEF Later, Owed, IsTerminal
  <2>2. FoldOK(st')
    <3>1. LoopsShaped(st'.loops)
      <4>1. st = [f \in Fields |-> st[f]]
        BY DEF RowInv
      <4>2. st'.loops = [r \in Regions |-> st'.loops[r]]
        BY <1>1, <4>1, Zenon DEF Older, Fields
      <4>3. ASSUME NEW r \in Regions
            PROVE  st'.loops[r] = [f \in LoopFields |-> st'.loops[r][f]]
        <5>1. \/ st'.loops[r] = st.loops[r]
              \/ \E age : st'.loops[r] = [st.loops[r] EXCEPT !.age = age]
          BY <1>1, <4>1, Zenon DEF Older, Fields
        <5>2. st.loops[r] = [f \in LoopFields |-> st.loops[r][f]]
          BY DEF EffectsSafe, FoldOK, LoopsShaped
        <5> QED BY <5>1, <5>2, Zenon
      <4> QED BY <4>2, <4>3 DEF LoopsShaped
    <3> QED BY <1>2, <3>1 DEF EffectsSafe, FoldOK, Foldable, Later
  <2>4. WorldOK' /\ LedgerFinalizes'
    BY <1>1, <1>2 DEF EffectsSafe, Later, WorldOK, LedgerFinalizes
  <2>5. EndsSettled'
    BY <1>1, <1>2, <2>1 DEF EffectsSafe, Later, EndsSettled
  <2>3. \A n \in Effects : Charged(n)'
    BY <1>1, <1>2 DEF EffectsSafe, Charged, Later, OnLog, HasClaim, InDoubt,
                      Asked
  <2> QED BY <2>2, <2>3, <2>4, <2>5 DEF EffectsSafe
<1>5. inbox' \in Seq(Mail) /\ DOMAIN inbox \subseteq DOMAIN inbox'
  BY <1>1 DEF WorkInv
<1> QED BY <1>1, <1>3, <1>4, <1>5, NobodyMoves

-----------------------------------------------------------------------------
(* Calls of the executor *)

\* A worker whose call has returned is no longer asking; everybody else asks
\* for what they asked for.
LEMMA StopsAsking ==
  ASSUME WorkInv, NEW w \in Workers, NEW me, wk' = [wk EXCEPT ![w] = me],
         ~(me.pc = "execute" /\ me.plan.do = "perform")
  PROVE  /\ \A v \in Workers, n \in Effects :
              AsksFor(wk'[v], n) => v # w /\ AsksFor(wk[v], n)
         /\ \A n \in Effects : Asked(n)' => Asked(n)
         /\ View'.asked \subseteq View.asked
<1>1. \A v \in Workers, n \in Effects :
        AsksFor(wk'[v], n) => v # w /\ AsksFor(wk[v], n)
  BY DEF WorkInv, AsksFor
<1>2. \A n \in Effects : Asked(n)' => Asked(n)
  BY <1>1 DEF Asked
<1> QED BY <1>1, <1>2, Zenon DEF View

\* Where an effect that must not be repeated was being asked for, nobody is
\* asking for it once its caller has its answer.
LEMMA OnlyCaller ==
  ASSUME WorkInv, EffectsSafe, NEW w \in Workers, NEW me,
         wk' = [wk EXCEPT ![w] = me],
         ~(me.pc = "execute" /\ me.plan.do = "perform"),
         NEW n \in Effects, AsksFor(wk[w], n), Def.idem[n] = "non_idempotent"
  PROVE  ~Asked(n)' /\ world.did[n] = 0
<1>1. Charged(n) /\ Asked(n)
  BY DEF EffectsSafe, Asked
<1>2. \A v \in Workers : AsksFor(wk'[v], n) => v # w /\ AsksFor(wk[v], n)
  BY StopsAsking, Zenon
<1> QED BY <1>1, <1>2 DEF Charged, Asked

\* A keyed effect has a key.
LEMMA KeyedHasKey ==
  ASSUME NEW n \in Effects, Def.idem[n] = "keyed"
  PROVE  FreshKey(n, 0) # NoKey
<1>1. Def.keySource[n] \in KeySources
  BY DefAssumption
<1>2. KeyFor(n, 0) \in {<<0>>, <<0, n>>, <<0, n, 0>>}
  BY <1>1 DEF KeyFor, KeySources
<1>3. FreshKey(n, 0) = KeyFor(n, 0)
  BY DEF FreshKey
<1> QED BY <1>2, <1>3 DEF NoKey

\* What the call may do to the world.
LEMMA PerformEffectWorld ==
  ASSUME WorldOK, NEW d, d.node \in Effects,
         \/ world' = world
         \/ world' = TakesPlace(d)
         \/ world' = [world EXCEPT !.refused = @ \cup {d.node}]
  PROVE  /\ WorldOK'
         /\ world.refused \subseteq world'.refused
         /\ world'.stuck = world.stuck
         /\ \A n \in Effects \ {d.node} :
              world'.did[n] = world.did[n] /\ world'.keys[n] = world.keys[n]
         /\ \/ world'.did = world.did /\ world'.keys = world.keys
            \/ /\ d.key = NoKey \/ d.key \notin world.keys[d.node]
               /\ world'.did[d.node] = world.did[d.node] + 1
               /\ world'.keys[d.node] = world.keys[d.node] \cup {d.key}
<1>1. CASE world' = world
  BY <1>1 DEF WorldOK
<1>2. CASE world' = [world EXCEPT !.refused = @ \cup {d.node}]
  BY <1>2 DEF WorldOK
<1>3. CASE world' = TakesPlace(d) /\ world' # world
  <2>1. /\ d.key = NoKey \/ d.key \notin world.keys[d.node]
        /\ world' = [world EXCEPT !.did[d.node] = @ + 1,
                                  !.keys[d.node] = @ \cup {d.key}]
    BY <1>3 DEF TakesPlace
  <2>2. /\ world'.did = [world.did EXCEPT ![d.node] = @ + 1]
        /\ world'.keys = [world.keys EXCEPT ![d.node] = @ \cup {d.key}]
        /\ world'.refused = world.refused
        /\ world'.stuck = world.stuck
        /\ world' = [f \in {"did", "keys", "undone", "refused", "stuck"} |-> world'[f]]
    BY <2>1, Zenon DEF WorldOK
  <2>3. world'.did \in [Effects -> Nat]
    BY <2>2 DEF WorldOK
  <2>4. world'.keys = [n \in Effects |-> world'.keys[n]]
    BY <2>2, Zenon DEF WorldOK
  <2>5. WorldOK'
    BY <2>2, <2>3, <2>4 DEF WorldOK
  <2> QED BY <2>1, <2>2, <2>5, Zenon DEF WorldOK
<1> QED BY <1>1, <1>2, <1>3

\* Whatever the call does, its effect stays charged.
LEMMA PerformEffectCharges ==
  ASSUME EffectInv, NEW w \in Workers, NEW me, wk' = [wk EXCEPT ![w] = me],
         ~(me.pc = "execute" /\ me.plan.do = "perform"),
         wk[w].pc = "execute", wk[w].plan.do = "perform",
         UNCHANGED <<st, ledger>>,
         \/ world' = world
         \/ world' = TakesPlace(wk[w].plan)
         \/ world' = [world EXCEPT !.refused = @ \cup {wk[w].plan.node}]
  PROVE  EffectsSafe' /\ LogUntouched(View, View')
<1> USE DEF EffectInv
<1>0. PICK d : d = wk[w].plan
  OBVIOUS
<1>1. d.node \in Effects /\ d.key = FreshKey(d.node, 0)
  BY <1>0 DEF WorkInv, Remembers
<1>2. AsksFor(wk[w], d.node) /\ Asked(d.node)
  BY <1>0 DEF AsksFor, Asked
<1>3. /\ \A v \in Workers, n \in Effects :
           AsksFor(wk'[v], n) => v # w /\ AsksFor(wk[v], n)
      /\ \A n \in Effects : Asked(n)' => Asked(n)
      /\ View'.asked \subseteq View.asked
  BY StopsAsking, Zenon
<1>a. WorldOK
  BY DEF EffectsSafe
<1>4. /\ WorldOK'
      /\ world.refused \subseteq world'.refused
      /\ world'.stuck = world.stuck
      /\ \A n \in Effects \ {d.node} :
           world'.did[n] = world.did[n] /\ world'.keys[n] = world.keys[n]
      /\ \/ world'.did = world.did /\ world'.keys = world.keys
         \/ /\ d.key = NoKey \/ d.key \notin world.keys[d.node]
            /\ world'.did[d.node] = world.did[d.node] + 1
            /\ world'.keys[d.node] = world.keys[d.node] \cup {d.key}
  <2>1. \/ world' = world
        \/ world' = TakesPlace(d)
        \/ world' = [world EXCEPT !.refused = @ \cup {d.node}]
    BY <1>0
  <2> QED BY <1>1, <1>a, <2>1, PerformEffectWorld
<1>5. ASSUME NEW n \in Effects \ {d.node} PROVE Charged(n)'
  <2>1. Charged(n)
    BY DEF EffectsSafe
  <2> QED BY <1>3, <1>4, <2>1 DEF Charged
<1>6. Charged(d.node)'
  <2> DEFINE n == d.node
  <2>1. Charged(n) /\ n \in Effects /\ Asked(n)
    BY <1>1, <1>2 DEF EffectsSafe
  <2>2. world.did[n] \in Nat
    BY <1>1, <1>a DEF WorldOK
  <2>3. n \in world'.refused \/ OnLog(st, n)'
    BY <1>4, <2>1 DEF Charged
  <2>4. Def.idem[n] = "non_idempotent" =>
          /\ OnLog(st, n)' /\ ~Asked(n)' /\ world'.did[n] <= 1
          /\ \A u, v \in Workers : AsksFor(wk'[u], n) /\ AsksFor(wk'[v], n) => u = v
    <3> SUFFICES ASSUME Def.idem[n] = "non_idempotent"
                 PROVE  /\ OnLog(st, n)' /\ ~Asked(n)' /\ world'.did[n] <= 1
                        /\ \A u, v \in Workers :
                             AsksFor(wk'[u], n) /\ AsksFor(wk'[v], n) => u = v
      OBVIOUS
    <3>1. ~Asked(n)' /\ world.did[n] = 0
      BY <1>1, <1>2, OnlyCaller, Zenon
    <3>2. OnLog(st, n)'
      BY <2>1 DEF Charged
    <3>3. world'.did[n] <= 1
      BY <1>4, <3>1
    <3> QED BY <3>1, <3>2, <3>3 DEF Asked
  <2>5. Def.idem[n] = "keyed" =>
          \/ world'.did[n] = 0
          \/ world'.did[n] = 1 /\ FreshKey(n, 0) \in world'.keys[n]
    BY <1>1, <1>4, <2>1, <2>2, KeyedHasKey DEF Charged
  <2> HIDE DEF n
  <2>6. Charged(n)'
    BY <2>3, <2>4, <2>5 DEF Charged
  <2> QED BY <2>6 DEF n
<1>7. LogUntouched(View, View')
  <2>1. d.node \in View.asked
    BY <1>1, <1>2 DEF View
  <2>2. Later(View.s, View'.s) /\ View'.rows = View.rows
    BY DEF View, Later
  <2>3. /\ View.refused \subseteq View'.refused
        /\ View.stuck => View'.stuck
        /\ \A n \in Effects \ View.asked : View'.did[n] = View.did[n]
    BY <1>4, <2>1 DEF View
  <2> QED BY <1>3, <2>2, <2>3 DEF LogUntouched
<1>8. FoldOK(st)' /\ LedgerFinalizes' /\ EndsSettled'
  BY <1>4 DEF EffectsSafe, LedgerFinalizes, EndsSettled
<1> QED BY <1>4, <1>5, <1>6, <1>7, <1>8 DEF EffectsSafe
\* A worker about to write what became of an effect, and of its node.
LEMMA ClosingPairStage ==
  ASSUME NEW x, NEW e, NEW f, EventFits(x, e),
         e.kind \in {"effect_finalized", "effect_abandoned"},
         f.kind \in {"node_finished", "node_failed"}
  PROVE  Stage(x, Closing(<<e, f>>))
<1> DEFINE me == Closing(<<e, f>>)
<1>1. me.pc = "closing" /\ me.queue = <<e, f>>
  BY FreshClosing, Zenon DEF Fresh
<1> HIDE DEF me
<1>2. me.queue[1] = e /\ me.queue[2] = f
  BY <1>1
<1>3. ClosingFits(x, me)
  BY <1>1, <1>2 DEF ClosingFits
<1> QED BY <1>1, <1>3 DEF Stage, me

\* The worker has its answer, and the lease it had.
LEMMA CallReturns ==
  ASSUME EffectInv, NEW w \in Workers, NEW me, wk' = [wk EXCEPT ![w] = me],
         UNCHANGED <<leaseVars, asks, inbox>>, wk[w].pc = "execute",
         LogUntouched(View, View'),
         Remembers(me, DOMAIN inbox), Planned(me) \/ me.pc = "beat",
         Holds(w) => Stage(View', me)
  PROVE  WorkInv'
<1> USE DEF EffectInv
<1>1. held' = held /\ epoch' = epoch
  BY DEF leaseVars, rowVars
<1>2. /\ \A v \in Workers \ {w} :
           held'[v] = held[v] /\ (Holds(v)' => Holds(v))
      /\ Holds(w)' => Holds(w)
  BY <1>1, SameEpoch
<1>3. Holds(w)' => Fits(View', me)
  BY <1>2, PlannedFits, RestFits
<1>4. held'[w] # 0 /\ inbox' \in Seq(Mail)
  BY <1>1 DEF WorkInv
<1> QED BY <1>2, <1>3, <1>4, WorkKept, Zenon

\* A worker calls the executor for the effect it has claimed.
LEMMA PerformEffectKeeps ==
  ASSUME EffectInv, NEW w \in Workers, PerformEffect(w)
  PROVE  WorkInv' /\ EffectsSafe'
<1> USE DEF EffectInv
<1>1. PICK d : d = wk[w].plan
  OBVIOUS
<1>2. /\ wk[w].pc = "execute" /\ wk[w].plan.do = "perform"
      /\ UNCHANGED <<leaseVars, st, ledger, asks, inbox>>
  BY DEF PerformEffect, Pc
<1>3. d.node \in Effects
  BY <1>1, <1>2 DEF WorkInv, Remembers
<1> DEFINE fin == EffectEvent("effect_finalized", d)
           aba == EffectEvent("effect_abandoned", d)
<1>4. fin.kind = "effect_finalized" /\ aba.kind = "effect_abandoned"
        /\ fin.node = d.node /\ aba.node = d.node
        /\ RowOf(fin) = RowOf(aba)
  BY DEF EffectEvent, RowOf
<1>5. Holds(w) => EventFits(View, fin)
  BY <1>1, <1>2 DEF WorkInv, Fits, Stage, ExecuteFits
<1> HIDE DEF fin, aba
<1>6. ASSUME NEW me, wk' = [wk EXCEPT ![w] = me],
             ~(me.pc = "execute" /\ me.plan.do = "perform"),
             world' \in {world, TakesPlace(d),
                         [world EXCEPT !.refused = @ \cup {d.node}]}
      PROVE  EffectsSafe' /\ LogUntouched(View, View')
  BY <1>1, <1>2, <1>6, PerformEffectCharges, Zenon
<1>7. CASE /\ world' = TakesPlace(d)
           /\ \E f : /\ f.kind = "node_finished"
                     /\ Become(w, Closing(<<fin, f>>))
  <2>1. PICK f : /\ f.kind = "node_finished" 
                 /\ wk' = [wk EXCEPT ![w] = Closing(<<fin, f>>)]
    BY <1>7, Zenon DEF Become
  <2>2. PICK me : me = Closing(<<fin, f>>)
    OBVIOUS
  <2>3. Remembers(me, DOMAIN inbox) /\ Planned(me)
    BY <2>2, ClosingRemembers
  <2>4. EffectsSafe' /\ LogUntouched(View, View')
    BY <1>6, <1>7, <2>1, <2>2, <2>3, Zenon DEF Planned
  <2>5. Holds(w) => EventFits(View', fin)
    BY <1>5, <2>4, EventStillFits
  <2>6. Holds(w) => Stage(View', me)
    BY <1>4, <2>1, <2>2, <2>5, ClosingPairStage, Zenon
  <2> QED BY <1>2, <2>1, <2>2, <2>3, <2>4, <2>6, CallReturns, Zenon
<1>8. CASE /\ world' = [world EXCEPT !.refused = @ \cup {d.node}]
           /\ world.did[d.node] = 0
           /\ \E f : /\ f.kind = "node_failed"
                     /\ Become(w, Closing(<<aba, f>>))
  <2>1. PICK f : /\ f.kind = "node_failed" 
                 /\ wk' = [wk EXCEPT ![w] = Closing(<<aba, f>>)]
    BY <1>8, Zenon DEF Become
  <2>2. PICK me : me = Closing(<<aba, f>>)
    OBVIOUS
  <2>3. Remembers(me, DOMAIN inbox) /\ Planned(me)
    BY <2>2, ClosingRemembers
  <2>4. EffectsSafe' /\ LogUntouched(View, View')
    BY <1>6, <1>8, <2>1, <2>2, <2>3, Zenon DEF Planned
  <2>5. Holds(w) => EventFits(View', fin)
    BY <1>5, <2>4, EventStillFits
  <2>6. Refused(View', d.node)
    <3>1. d.node \in View'.refused
      BY <1>8 DEF View, EffectsSafe, WorldOK
    <3>2. View'.did[d.node] = 0
      BY <1>8 DEF View, EffectsSafe, WorldOK
    <3>3. ASSUME Def.idem[d.node] = "non_idempotent"
          PROVE  d.node \notin View'.asked
      <4>1. AsksFor(wk[w], d.node)
        BY <1>1, <1>2 DEF AsksFor
      <4>2. ~Asked(d.node)'
        BY <1>3, <2>1, <2>2, <2>3, <3>3, <4>1, OnlyCaller, Zenon DEF Planned
      <4> QED BY <4>2 DEF View
    <3> QED BY <3>1, <3>2, <3>3 DEF Refused
  <2>7. Holds(w) => EventFits(View', aba)
    BY <1>4, <2>5, <2>6, Zenon DEF EventFits
  <2>8. Holds(w) => Stage(View', me)
    BY <1>4, <2>1, <2>2, <2>7, ClosingPairStage, Zenon
  <2> QED BY <1>2, <2>1, <2>2, <2>3, <2>4, <2>8, CallReturns, Zenon
<1>9. CASE world' \in {world, TakesPlace(d)} /\ Become(w, At("beat"))
  <2>1. PICK me : me = At("beat")
    OBVIOUS
  <2>2. Remembers(me, DOMAIN inbox) /\ me.pc = "beat"
    BY <2>1, RestRemembers
  <2>3. wk' = [wk EXCEPT ![w] = me]
    BY <1>9, <2>1 DEF Become
  <2>4. EffectsSafe' /\ LogUntouched(View, View')
    BY <1>6, <1>9, <2>2, <2>3, Zenon
  <2>5. Stage(View', me)
    BY <2>2 DEF Stage
  <2> QED BY <1>2, <2>2, <2>3, <2>4, <2>5, CallReturns, Zenon
<1>10. \A g : [kind |-> "node_finished", node |-> d.node, control |-> g].kind = "node_finished"
                /\ Failed(d.node, g).kind = "node_failed"
  BY DEF Failed
<1> QED BY <1>1, <1>7, <1>8, <1>9, <1>10, Zenon DEF PerformEffect, fin, aba

\* A worker calls the executor to undo the last effect the run owes.
LEMMA CompensateEffectKeeps ==
  ASSUME EffectInv, NEW w \in Workers, CompensateEffect(w)
  PROVE  WorkInv' /\ EffectsSafe'
<1> USE DEF EffectInv
<1>1. PICK n : n = wk[w].plan.node
  OBVIOUS
<1>2. /\ wk[w].pc = "execute" /\ wk[w].plan.do = "compensate"
      /\ UNCHANGED <<leaseVars, st, ledger, asks, inbox>>
  BY DEF CompensateEffect, Pc
<1>3. Holds(w) => NextUndone(st, n)
  BY <1>1, <1>2, Zenon DEF WorkInv, Fits, Stage, ExecuteFits, View
<1>4. /\ world'.did = world.did /\ world'.keys = world.keys
      /\ world'.refused = world.refused
      /\ world' = [f \in {"did", "keys", "undone", "refused", "stuck"} |-> world'[f]]
  BY Zenon DEF CompensateEffect, EffectsSafe, WorldOK
<1>5. \/ /\ world'.stuck = world.stuck
         /\ Become(w, Closing(<<NodeEvent("compensated", n)>>))
      \/ /\ world'.stuck = TRUE
         /\ Become(w, Closing(<<[kind |-> "failed"]>>))
  BY <1>1, Zenon DEF CompensateEffect, EffectsSafe, WorldOK
<1>6. PICK e : /\ Become(w, Closing(<<e>>))
               /\ \/ world'.stuck = world.stuck /\ e = NodeEvent("compensated", n)
                  \/ world'.stuck = TRUE /\ e = [kind |-> "failed"]
  BY <1>5, Zenon
<1>7. PICK me : me = Closing(<<e>>)
  OBVIOUS
<1>8. Remembers(me, DOMAIN inbox) /\ Planned(me) /\ wk' = [wk EXCEPT ![w] = me]
  BY <1>6, <1>7, ClosingRemembers, Zenon DEF Become
<1>9. /\ \A v \in Workers, m \in Effects :
           AsksFor(wk'[v], m) => v # w /\ AsksFor(wk[v], m)
      /\ \A m \in Effects : Asked(m)' => Asked(m)
      /\ View'.asked \subseteq View.asked
  BY <1>8, StopsAsking, Zenon DEF Planned
<1>10. ASSUME NEW m \in Effects PROVE Charged(m)'
  <2>1. Charged(m)
    BY DEF EffectsSafe
  <2> QED BY <1>2, <1>4, <1>9, <2>1 DEF Charged
<1>11. FoldOK(st)' /\ LedgerFinalizes' /\ WorldOK'
  BY <1>2, <1>4 DEF EffectsSafe, LedgerFinalizes, WorldOK
<1>12. world.stuck => world'.stuck
  BY <1>6, Zenon
<1>13. EndsSettled'
  BY <1>2, <1>12 DEF EffectsSafe, EndsSettled
<1>14. LogUntouched(View, View')
  <2>1. Later(View.s, View'.s) /\ View'.rows = View.rows
    BY <1>2, Zenon DEF View, Later
  <2>2. /\ View.refused \subseteq View'.refused
        /\ View.stuck => View'.stuck
        /\ \A m \in Effects \ View.asked : View'.did[m] = View.did[m]
    BY <1>4, <1>12 DEF View
  <2> QED BY <1>9, <2>1, <2>2 DEF LogUntouched
<1>15. Holds(w) => EventFits(View', e)
  <2>1. View'.s = st /\ View'.stuck = world'.stuck
    BY <1>2 DEF View
  <2>2. CASE e = NodeEvent("compensated", n)
    BY <1>3, <2>1, <2>2, Zenon DEF EventFits, NodeEvent
  <2>3. CASE world'.stuck = TRUE /\ e = [kind |-> "failed"]
    BY <1>3, <2>1, <2>3, Zenon DEF EventFits, NextUndone
  <2> QED BY <1>6, <2>2, <2>3, Zenon
<1>16. Holds(w) => Stage(View', me)
  BY <1>7, <1>15, ClosingStage
<1> QED BY <1>2, <1>8, <1>10, <1>11, <1>13, <1>14, <1>16, CallReturns, Zenon
    DEF EffectsSafe
-----------------------------------------------------------------------------
(* The invariant *)

\* Every step keeps it.
LEMMA StepKeepsEffects == EffectInv /\ [Next]_vars => EffectInv'
<1> SUFFICES ASSUME EffectInv, [Next]_vars PROVE EffectInv'
  OBVIOUS
<1>1. LeaseInv'
  BY LeaseStepInv, StepImplementsLease DEF EffectInv
<1>2. RowInv'
  BY StepKeepsRow DEF EffectInv
<1>3. ASSUME NEW w \in Workers, Advance(w) PROVE WorkInv' /\ EffectsSafe'
  <2>1. CASE AppendStep(w)
    BY <2>1, AppendKeeps, RefusedAppendKeeps
  <2>2. CASE AnswerSignal(w)
    BY <2>2, AnswerKeeps, ResumesKeeps
  <2> QED BY <1>3, <2>1, <2>2, LeaseRunKeeps, FoldKeeps, ReadInboxKeeps,
             ConsumeKeeps, RunNodeKeeps, PerformEffectKeeps,
             CompensateEffectKeeps, PassEndKeeps DEF Advance
<1>4. ASSUME NEW w \in Workers, LeaseToRecord(w) \/ Yield(w) \/ Crash(w)
      PROVE  WorkInv' /\ EffectsSafe'
  BY <1>4, LeaseToRecordKeeps, PassEndKeeps
<1>5. ASSUME Expire \/ UNCHANGED vars \/ \E signal \in Signals : Deliver(signal)
      PROVE  WorkInv' /\ EffectsSafe'
  BY <1>5, OutsideKeeps
<1>6. ASSUME Tick PROVE WorkInv' /\ EffectsSafe'
  BY <1>6, TickKeeps
<1>7. WorkInv' /\ EffectsSafe'
  BY <1>3, <1>4, <1>5, <1>6 DEF Next
<1> QED BY <1>1, <1>2, <1>7 DEF EffectInv

\* A run as create_ir_run admits it, with every worker between passes.
LEMMA InitEffects == Init => EffectInv
<1> SUFFICES ASSUME Init PROVE EffectInv
  OBVIOUS
<1>1. LeaseInv
  BY LeaseInitInv DEF Init
<1>2. RowInv
  BY InitRow
<1>3. \A w \in Workers : wk[w] = Idling /\ wk[w].pc = "idle"
  BY IdlingRemembers, Zenon DEF Init
<1>4. WorkInv
  <2>1. wk = [w \in Workers |-> wk[w]] /\ asks \subseteq Requests
    BY DEF Init
  <2>2. inbox \in Seq(Mail)
    BY DEF Init
  <2>3. ASSUME NEW w \in Workers
        PROVE  Remembers(wk[w], DOMAIN inbox) /\ Fits(View, wk[w])
    <3>1. wk[w] = Idling /\ wk[w].pc = "idle"
      BY <1>3
    <3>2. Remembers(Idling, DOMAIN inbox)
      BY IdlingRemembers
    <3>3. Fits(View, wk[w])
      BY <3>1, RestFits
    <3> QED BY <3>1, <3>2, <3>3
  <2> QED BY <1>3, <2>1, <2>2, <2>3 DEF WorkInv
<1>5. /\ st.status = "queued" /\ st.running = {} /\ st.outstanding = <<>>
      /\ st.finalized = <<>> /\ st.completed = {} /\ st.uncertain = <<>>
      /\ st.loops = [r \in Regions |-> FreshLoop]
  BY Zenon DEF Init, Admitted
<1>6. FoldOK(st)
  <2>1. FreshLoop = [f \in LoopFields |-> FreshLoop[f]]
    BY DEF FreshLoop, LoopFields
  <2>2. LoopsShaped(st.loops)
    BY <1>5, <2>1 DEF LoopsShaped
  <2>3. Foldable(st) /\ st.uncertain \in Seq(Effects)
    BY <1>5 DEF Foldable
  <2>4. st.completed = Listed(st.finalized) /\ Once(st.finalized)
    BY <1>5 DEF Listed, Once
  <2> QED BY <1>5, <2>2, <2>3, <2>4 DEF FoldOK
<1>7. WorldOK /\ \A n \in Effects : world.did[n] = 0
  BY Zenon DEF Init, WorldOK
<1>8. ASSUME NEW n \in Effects PROVE Charged(n)
  <2>1. ~Asked(n) /\ \A w \in Workers : ~AsksFor(wk[w], n)
    BY <1>3 DEF Asked, AsksFor
  <2> QED BY <1>7, <2>1 DEF Charged
<1>9. LedgerFinalizes
  BY <1>5 DEF Init, LedgerFinalizes
<1>10. EndsSettled
  BY <1>5 DEF EndsSettled, IsTerminal, FinalStatuses
<1> QED BY <1>1, <1>2, <1>4, <1>6, <1>7, <1>8, <1>9, <1>10
    DEF EffectInv, EffectsSafe

\* Whatever happens to the workers, what the holder of the lease is about to do
\* fits the log, and whatever took place or may still take place is on it.
THEOREM EffectInvariant == Spec => []EffectInv
  BY InitEffects, StepKeepsEffects, PTL DEF Spec

\* An effect the definition does not call idempotent takes place at most once:
\* decide_outstanding_effect never repeats a non-idempotent one, and a keyed one
\* is repeated with the key of its claim, for every definition, any number of
\* workers and any number of crashes and takeovers.
THEOREM EffectsHappenOnce == Spec => []ProtectedEffectOnce
<1>1. EffectInv => ProtectedEffectOnce
  <2> SUFFICES ASSUME EffectInv, NEW n \in Effects,
                      Def.idem[n] # "idempotent"
               PROVE  world.did[n] <= 1
    BY DEF ProtectedEffectOnce
  <2>1. Def.idem[n] \in {"non_idempotent", "keyed"}
    BY DefAssumption DEF Idempotencies
  <2>2. Charged(n)
    BY DEF EffectInv, EffectsSafe
  <2> QED BY <2>1, <2>2 DEF Charged
<1> QED BY <1>1, EffectInvariant, PTL

\* Whatever took place outside is finalized, claimed or uncertain on the log
\* the next worker folds, or was refused once: no crash between the call of the
\* executor and the event that records it loses an effect.
THEOREM EffectsAreAccountedFor == Spec => []EffectsAccountedFor
<1>1. EffectInv => EffectsAccountedFor
  BY DEF EffectInv, EffectsSafe, Charged, EffectsAccountedFor, OnLog, HasClaim,
         InDoubt, WorldOK
<1> QED BY <1>1, EffectInvariant, PTL

\* A run ends with no claim open, its effects undone or, if it completed, all
\* of its nodes finished and all of its loops stopped by their condition.
THEOREM RunsEndSettled == Spec => []EndsSettled
<1>1. EffectInv => EndsSettled
  BY DEF EffectInv, EffectsSafe
<1> QED BY <1>1, EffectInvariant, PTL

\* The ledger trigger finalizes an attempt of exactly the effects the fold of
\* the log calls completed.
THEOREM LedgerIsTheFold == Spec => []LedgerFinalizes
<1>1. EffectInv => LedgerFinalizes
  BY DEF EffectInv, EffectsSafe
<1> QED BY <1>1, EffectInvariant, PTL

-----------------------------------------------------------------------------
(* What a step may never do *)

\* The event a current worker writes next fits the log.
LEMMA HeadFits ==
  ASSUME EffectInv, NEW w \in Workers, AppendStep(w), Current(w)
  PROVE  EventFits(View, Head(wk[w].queue))
<1>1. PICK was, e : was = wk[w] /\ e = Head(was.queue)
  OBVIOUS
<1>2. was.pc \in {"opening", "closing"}
  BY <1>1 DEF AppendStep, Pc
<1>3. Stage(View, was)
  BY <1>1, <1>2 DEF EffectInv, WorkInv, Holds, Current, Fits
<1>4. CASE was.pc = "closing"
  <2>1. ClosingFits(View, was)
    BY <1>3, <1>4 DEF Stage
  <2>2. e = was.queue[1]
    BY <1>1, <2>1 DEF ClosingFits
  <2> QED BY <1>1, <2>1, <2>2 DEF ClosingFits
<1>5. CASE was.pc = "opening"
  <2>1. OpeningFits(View, was)
    BY <1>3, <1>5 DEF Stage
  <2>2. CASE was.queue = <<Claim(was.plan)>> /\ EventFits(View, Claim(was.plan))
    <3>1. e = Claim(was.plan)
      BY <1>1, <2>2
    <3> QED BY <1>1, <2>2, <3>1
  <2>3. ASSUME NEW c, NEW n \in Nat,
               \/ was.queue = <<NodeEvent("node_started", n)>>
               \/ was.queue = <<NodeEvent("node_started", n), c>>
        PROVE  EventFits(View, e)
    <3>1. e = NodeEvent("node_started", n)
      BY <1>1, <2>3
    <3> QED BY <3>1, Zenon DEF EventFits, NodeEvent
  <2>4. EventFits(View, Claim(was.plan)) => was.plan.node \in Nat
    BY DefAssumption, Zenon DEF EventFits, Claim, Effects, Nodes
  <2> QED BY <1>1, <2>1, <2>2, <2>3, <2>4, Zenon DEF OpeningFits
<1> QED BY <1>2, <1>4, <1>5

\* The log only moves with time, by an event that fits it, or by a resumption.
LEMMA LogSteps ==
  ASSUME EffectInv, [Next]_vars
  PROVE  \/ Later(st, st')
         \/ \E e : EventFits(View, e) /\ st' = Apply(st, e)
         \/ \E w \in Workers : AnswerSignal(w) /\ Resumes(w)
<1>1. ASSUME UNCHANGED st PROVE Later(st, st')
  BY <1>1 DEF Later
<1>2. ASSUME NEW w \in Workers, AppendStep(w)
      PROVE  \/ UNCHANGED st
             \/ \E e : EventFits(View, e) /\ st' = Apply(st, e)
  <2>1. CASE Current(w) /\ ~LedgerRefuses(Head(wk[w].queue))
    <3>1. st' = Apply(st, Head(wk[w].queue))
      BY <1>2, <2>1 DEF AppendStep, Record
    <3> QED BY <1>2, <2>1, <3>1, HeadFits
  <2>2. CASE ~Current(w) \/ LedgerRefuses(Head(wk[w].queue))
    BY <1>2, <2>2 DEF AppendStep
  <2> QED BY <2>1, <2>2
<1>3. ASSUME NEW w \in Workers, AnswerSignal(w)
      PROVE  UNCHANGED st \/ Resumes(w)
  BY <1>3 DEF AnswerSignal, Resumes, Become
<1>4. ASSUME NEW w \in Workers, Advance(w), ~AppendStep(w), ~AnswerSignal(w)
      PROVE  UNCHANGED st
  BY <1>4, Zenon DEF Advance, LeaseRun, Fold, ReadInbox, ConsumeSignal, RunNode,
              PerformEffect, CompensateEffect, Heartbeat, Release, runVars
<1>5. ASSUME NEW w \in Workers, LeaseToRecord(w) \/ Yield(w) \/ Crash(w)
      PROVE  UNCHANGED st
  BY <1>5 DEF LeaseToRecord, Yield, Crash, runVars
<1>6. CASE \/ Expire \/ UNCHANGED vars
           \/ \E signal \in Signals : Deliver(signal)
  BY <1>1, <1>6, Zenon DEF Expire, Deliver, vars, runVars
<1>7. CASE Tick
  BY <1>7, TickIsLater
<1> QED BY <1>1, <1>2, <1>3, <1>4, <1>5, <1>6, <1>7 DEF Next
\* Compensated nodes are recorded in the reverse of the order their effects
\* were finalized in: a worker that decided to undo one still holds the lease
\* when it records that it did, so nothing was finalized after it.
THEOREM UndoneInReverse == Spec => CompensatedInReverse
<1> DEFINE Undoes(n) ==
             \A i, j \in DOMAIN st.finalized :
               /\ i < j
               /\ st.finalized[i] = n
               /\ st.finalized[j] \in Def.reversible
               => st.finalized[j] \in st.compensated
<1>1. ASSUME EffectInv, [Next]_vars,
             NEW n \in st'.compensated \ st.compensated
      PROVE  Undoes(n)
  <2>1. View.s = st /\ Shaped(st) /\ FoldOK(st)
    BY <1>1 DEF View, EffectInv, RowInv, Shaped, EffectsSafe
  <2>2. ASSUME NEW e, EventFits(View, e) \/ e.kind = "resumed",
               st' = Apply(st, e)
        PROVE  e.kind = "compensated" /\ n = e.node
    <3>1. e.kind \notin EffectKinds
      <4> SUFFICES ASSUME e.kind \in EffectKinds PROVE FALSE
        OBVIOUS
      <4>1. SameCourse(st, st')
        BY <2>1, <2>2, LogMoves, Zenon DEF EffectKinds
      <4> QED BY <1>1, <4>1 DEF SameCourse
    <3>2. e.kind \in LoopKinds => e.region \in Regions
      BY <2>2, Zenon DEF EventFits, LoopKinds
    <3>3. /\ e.kind = "compensated"
          /\ st'.compensated = st.compensated \cup {e.node}
      BY <1>1, <2>1, <2>2, <3>1, <3>2, ApplyPlain, Zenon DEF FoldOK
    <3> QED BY <1>1, <3>3
  <2>3. CASE Later(st, st')
    BY <1>1, <2>3 DEF Later
  <2>4. ASSUME NEW w \in Workers, Resumes(w) PROVE FALSE
    <3>1. PICK e : e = [kind |-> "resumed"]
      BY Zenon
    <3>2. st' = Apply(st, e) /\ e.kind = "resumed"
      BY <2>4, <3>1 DEF Resumes, Record
    <3> QED BY <2>2, <3>2
  <2>5. ASSUME NEW e, EventFits(View, e), st' = Apply(st, e) PROVE Undoes(n)
    <3>1. NextUndone(st, n)
      BY <2>1, <2>2, <2>5, Zenon DEF EventFits
    <3>2. PICK k \in Owed(st) : n = st.finalized[k] /\ \A m \in Owed(st) : m <= k
      BY <3>1 DEF NextUndone
    <3>3. k \in DOMAIN st.finalized /\ DOMAIN st.finalized \subseteq Nat
      BY <2>1 DEF Owed, FoldOK, Foldable
    <3>4. ASSUME NEW i \in DOMAIN st.finalized, NEW j \in DOMAIN st.finalized,
                 i < j, st.finalized[i] = n,
                 st.finalized[j] \in Def.reversible,
                 st.finalized[j] \notin st.compensated
          PROVE  FALSE
      <4>1. i = k
        BY <2>1, <3>2, <3>3, <3>4 DEF FoldOK, Once
      <4>2. j \in Owed(st)
        BY <3>4 DEF Owed
      <4> QED BY <3>2, <3>3, <3>4, <4>1, <4>2
    <3> QED BY <3>4
  <2> QED BY <1>1, <2>3, <2>4, <2>5, LogSteps, Zenon
<1>2. EffectInv /\ [Next]_vars =>
        [\A n \in st'.compensated \ st.compensated : Undoes(n)]_vars
  BY <1>1
<1> QED BY <1>2, EffectInvariant, PTL DEF Spec, CompensatedInReverse

\* Once a cancellation is on the log no effect is claimed that was not open
\* already: the claim of a worker that decided before it is not appended after.
THEOREM CancelledStartsNothing == Spec => NoNewEffectOnceCancelled
<1> DEFINE Last == st'.outstanding[Len(st'.outstanding)]
           Open == \E i \in DOMAIN st.outstanding :
                     st.outstanding[i].node = Last.node
           NewClaim == st.cancel /\ Len(st'.outstanding) > Len(st.outstanding)
<1>1. ASSUME EffectInv, [Next]_vars, NewClaim PROVE Open
  <2>1. View.s = st /\ Shaped(st) /\ FoldOK(st)
    BY <1>1 DEF View, EffectInv, RowInv, Shaped, EffectsSafe
  <2>2. st'.outstanding # st.outstanding
    BY <1>1, <2>1 DEF FoldOK, Foldable
  <2>3. st.outstanding \in Seq(Claims) /\ st'.outstanding \in Seq(Claims)
    BY <1>1, <2>1, StepKeepsEffects DEF EffectInv, EffectsSafe, FoldOK, Foldable
  <2>4. Len(st'.outstanding) \in DOMAIN st'.outstanding
    BY <1>1, <2>3
  <2>5. HasClaim(st', Last.node)
    BY <2>4 DEF HasClaim
  <2>6. CASE Later(st, st')
    BY <2>2, <2>6 DEF Later
  <2>7. ASSUME NEW e, EventFits(View, e) \/ e.kind = "resumed",
               st' = Apply(st, e)
        PROVE  Open
    <3>1. CASE e.kind \notin EffectKinds
      <4>1. e.kind \in LoopKinds => e.region \in Regions
        BY <2>7 DEF EventFits, LoopKinds
      <4>2. SameEffects(st, st')
        BY <2>1, <2>7, <3>1, <4>1, ApplyPlain DEF FoldOK
      <4> QED BY <2>2, <4>2 DEF SameEffects
    <3>2. CASE e.kind = "effect_claimed"
      <4>1. /\ Writable(st)
            /\ NewEffect(st, e.node) \/ RepeatedEffect(st, e.node)
        BY <2>1, <2>7, <3>2, Zenon DEF EventFits
      <4>2. st'.outstanding = Append(st.outstanding,
              [node |-> e.node, attempt |-> e.attempt, key |-> e.key])
        BY <2>1, <2>7, <3>2, <4>1, ApplyEffect, Zenon DEF EffectKinds, EventFits
      <4>3. Last.node = e.node
        BY <2>3, <4>2
      <4>4. RepeatedEffect(st, e.node)
        BY <1>1, <4>1 DEF NewEffect
      <4>5. 1 \in DOMAIN st.outstanding /\ st.outstanding[1].node = e.node
        BY <2>3, <4>4 DEF RepeatedEffect
      <4> QED BY <4>3, <4>5
    <3>3. CASE e.kind \in EffectKinds \ {"effect_claimed"}
      <4>1. EventFits(View, e)
        BY <2>7, <3>3 DEF EffectKinds
      <4>2. \A m : HasClaim(st', m) => HasClaim(st, m)
        BY <2>1, <2>7, <3>3, <4>1, LogMoves
      <4>3. HasClaim(st, Last.node)
        BY <2>5, <4>2
      <4> QED BY <4>3 DEF HasClaim
    <3> QED BY <3>1, <3>2, <3>3 DEF EffectKinds
  <2>8. ASSUME NEW w \in Workers, Resumes(w) PROVE Open
    <3>1. PICK e : e = [kind |-> "resumed"]
      BY Zenon
    <3>2. st' = Apply(st, e) /\ e.kind = "resumed"
      BY <2>8, <3>1 DEF Resumes, Record
    <3> QED BY <2>7, <3>2
  <2> QED BY <1>1, <2>6, <2>7, <2>8, LogSteps
<1>2. EffectInv /\ [Next]_vars => [NewClaim => Open]_vars
  BY <1>1
<1> QED BY <1>2, EffectInvariant, PTL DEF Spec, NoNewEffectOnceCancelled

\* A wait ends only by what it waits for.  A worker may answer it from a
\* snapshot it took earlier; while it holds the lease only a timer can have run
\* down in between, and wait::resume refuses a timer that had time left.
THEOREM WaitsEndForTheirReason == Spec => ResumedForItsReason
<1> DEFINE Ends == st.waitingOn # NoWait /\ st'.waitingOn = NoWait
           Reason == \/ st.waitingOn.kind = "timer" /\ st.waitingOn.left = 0
                     \/ \E i \in DOMAIN inbox : Answers(st.waitingOn, inbox[i])
<1>1. ASSUME EffectInv, [Next]_vars, Ends PROVE Reason
  <2>1. View.s = st /\ st = [f \in Fields |-> st[f]]
    BY <1>1 DEF View, EffectInv, RowInv
  <2>2. CASE Later(st, st')
    <3>1. st'.waitingOn.kind # "timer"
      BY <1>1 DEF NoWait
    <3> QED BY <1>1, <2>2, <3>1 DEF Later
  <2>3. ASSUME NEW e, EventFits(View, e), st' = Apply(st, e) PROVE Reason
    <3>1. st'.waitingOn = WaitAfter(st, e) \/ st'.waitingOn = st.waitingOn
      BY <2>1, <2>3, ApplyProjects
    <3>2. NoWait = WaitAfter(st, e) /\ st.waitingOn # NoWait
      BY <1>1, <3>1
    <3>3. e.kind = "suspended" => e.wait # NoWait
      <4>1. e.kind = "suspended" => e.wait.kind # "none"
        BY <2>3, Zenon DEF EventFits
      <4>2. NoWait.kind = "none"
        BY DEF NoWait
      <4> QED BY <4>1, <4>2
    <3>4. e.kind = "resumed"
      BY <3>2, <3>3 DEF WaitAfter
    <3> QED BY <2>1, <2>3, <3>4 DEF EventFits
  <2>4. ASSUME NEW w \in Workers, AnswerSignal(w), Resumes(w) PROVE Reason
    <3>1. PICK me, i, signal : /\ me = wk[w] /\ i = FirstSignal(me)
                               /\ signal = inbox[i]
      OBVIOUS
    <3>2. /\ me.pc = "answer" /\ ~me.resumed
          /\ Verdict(me.wait, signal) = "resumed" /\ Holds(w)
      BY <2>4, <3>1 DEF AnswerSignal, Resumes, Pc, Record, AppendEvent, Holds,
                        Current
    <3>3. WaitFits(View, me) /\ i \in DOMAIN inbox
      BY <1>1, <3>1, <3>2, FirstSignalIsThere DEF EffectInv, WorkInv, Fits,
                                                  Undecided
    <3>4. \/ me.wait.kind = "timer" /\ me.wait.left = 0
          \/ me.wait.kind # "timer" /\ Answers(me.wait, signal)
      BY <3>2 DEF Verdict, Answers
    <3>5. me.wait = st.waitingOn
      BY <2>1, <3>3, <3>4 DEF WaitFits
    <3> QED BY <3>1, <3>3, <3>4, <3>5
  <2> QED BY <1>1, <2>2, <2>3, <2>4, LogSteps
<1>2. EffectInv /\ [Next]_vars => [Ends => Reason]_vars
  BY <1>1
<1> QED BY <1>2, EffectInvariant, PTL DEF Spec, ResumedForItsReason
=============================================================================
