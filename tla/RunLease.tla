------------------------------ MODULE RunLease ------------------------------
(***************************************************************************)
(* The row of one durable run in `ir_runs`, and the four statements that   *)
(* touch it: taking the lease, extending it, giving it back, and appending *)
(* one event to the run's log under the lease's fencing epoch.             *)
(*                                                                         *)
(* Several workers run against the row.  Any of them may pause for longer  *)
(* than its lease, or die, between two statements; nothing but the epoch   *)
(* tells the row that a statement comes from a worker that was replaced.   *)
(*                                                                         *)
(* Of an event only its kind is kept here (the status column is projected  *)
(* from it by a trigger).  GraphWorker extends this module with what the   *)
(* events say.                                                             *)
(***************************************************************************)
EXTENDS Naturals

CONSTANTS
  Workers,     \* graph worker processes
  WorkerId,    \* the configured worker_id of each; by default all share one
  NoOwner,     \* NULL in the lease_owner column
  Creator,     \* who wrote the admission event: the API, which holds no lease
  MaxEpoch,    \* bound: how many leases are ever taken
  MaxPosition  \* bound: how long the log grows

ASSUME LeaseAssumption ==
  /\ MaxEpoch \in Nat
  /\ MaxPosition \in Nat
  /\ Creator \notin Workers
  /\ \A w \in Workers : WorkerId[w] # NoOwner

VARIABLES
  status,      \* ir_runs.status, projected by trigger
  epoch,       \* ir_runs.epoch
  owner,       \* ir_runs.lease_owner
  lease,       \* lease_expires_at: "free" (NULL), "held" (ahead), "expired"
  position,    \* ir_runs.next_position
  lastEpoch,   \* the epoch of the newest event in the log
  lastBy,      \* who wrote it
  held         \* per worker: the epoch of the lease it works under, 0 if none

rowVars == <<status, epoch, owner, lease, position, lastEpoch, lastBy>>
leaseVars == <<rowVars, held>>

Terminal == {"completed", "failed", "cancelled"}
Leasable == {"queued", "running", "waiting"}
Statuses == Leasable \cup Terminal

EventKinds ==
  {"started", "node_started", "node_finished", "node_failed",
   "effect_claimed", "effect_finalized", "effect_abandoned",
   "effect_uncertain", "iteration_started", "iteration_finished",
   "loop_stopped", "suspended", "resumed", "cancellation_requested",
   "compensated", "cancelled", "failed", "completed"}

\* The status trigger: seven kinds move the column, the rest leave it.
ProjectStatus(was, kind) ==
  CASE kind \in {"started", "node_started", "resumed"} -> "running"
    [] kind = "suspended" -> "waiting"
    [] kind \in Terminal -> kind
    [] OTHER -> was

-----------------------------------------------------------------------------
(* Statements on the row *)

LeaseFree == lease # "held"

\* lease_next_ir_run: one UPDATE under FOR UPDATE SKIP LOCKED.
TakeLease(w) ==
  /\ held[w] = 0
  /\ status \in Leasable
  /\ LeaseFree
  /\ epoch < MaxEpoch
  /\ epoch' = epoch + 1
  /\ owner' = WorkerId[w]
  /\ lease' = "held"
  /\ held' = [held EXCEPT ![w] = epoch + 1]
  /\ UNCHANGED <<status, position, lastEpoch, lastBy>>

\* The predicate `epoch = $n` every later statement of the worker carries.
Current(w) == held[w] = epoch

\* append_ir_run_event when the row matches: the next position is taken and
\* the event is written under the lease's epoch, in one statement.
WriteEvent(w, kind) ==
  /\ position' = position + 1
  /\ lastEpoch' = held[w]
  /\ lastBy' = w
  /\ status' = ProjectStatus(status, kind)
  /\ UNCHANGED <<epoch, owner, lease>>

AppendEvent(w, kind) ==
  /\ held[w] # 0
  /\ Current(w)
  /\ position < MaxPosition
  /\ WriteEvent(w, kind)
  /\ UNCHANGED held

\* The predicate of heartbeat_ir_run and release_ir_run_lease.
StillHeld(w) == owner = WorkerId[w] /\ Current(w)

\* heartbeat_ir_run when the row matches.
ExtendLease(w) ==
  /\ held[w] # 0
  /\ StillHeld(w)
  /\ lease' = "held"
  /\ UNCHANGED <<status, epoch, owner, position, lastEpoch, lastBy, held>>

\* release_ir_run_lease, at the end of a pass; it matches or it changes nothing.
ReleaseLease(w) ==
  /\ held[w] # 0
  /\ IF StillHeld(w) THEN owner' = NoOwner /\ lease' = "free"
                     ELSE UNCHANGED <<owner, lease>>
  /\ held' = [held EXCEPT ![w] = 0]
  /\ UNCHANGED <<status, epoch, position, lastEpoch, lastBy>>

\* The worker's memory of its lease goes: it crashed, or it was told that the
\* lease is lost and has nothing to give back.
DropLease(w) ==
  /\ held[w] # 0
  /\ held' = [held EXCEPT ![w] = 0]
  /\ UNCHANGED rowVars

\* Database time passes lease_expires_at.
ExpireLease ==
  /\ lease = "held"
  /\ lease' = "expired"
  /\ UNCHANGED <<status, epoch, owner, position, lastEpoch, lastBy, held>>

-----------------------------------------------------------------------------
\* create_ir_run: the row and its admission event, at position 0 and epoch 0.
LeaseInit ==
  /\ status = "queued"
  /\ epoch = 0
  /\ owner = NoOwner
  /\ lease = "free"
  /\ position = 1
  /\ lastEpoch = 0
  /\ lastBy = Creator
  /\ held = [w \in Workers |-> 0]

LeaseNext ==
  \/ ExpireLease
  \/ \E w \in Workers :
       \/ TakeLease(w)
       \/ \E kind \in EventKinds : AppendEvent(w, kind)
       \/ ExtendLease(w)
       \/ ReleaseLease(w)
       \/ DropLease(w)

LeaseSpec == LeaseInit /\ [][LeaseNext]_leaseVars

-----------------------------------------------------------------------------
(* Properties *)

LeaseTypeOK ==
  /\ status \in Statuses
  /\ epoch \in Nat
  /\ owner \in {WorkerId[w] : w \in Workers} \cup {NoOwner}
  /\ lease \in {"free", "held", "expired"}
  /\ position \in Nat
  /\ lastEpoch \in Nat
  /\ lastBy \in Workers \cup {Creator}
  /\ held \in [Workers -> Nat]

\* No two workers ever work under the same epoch, however their leases
\* expired and were retaken: `epoch = ir_runs.epoch + 1` on every lease.
OneHolderPerEpoch ==
  \A v, w \in Workers : held[v] = held[w] /\ held[v] # 0 => v = w

\* A lease that was given back leaves nobody who may still write.  A worker
\* that lost its lease and only then releases must not free its successor's.
FreeMeansUnheld ==
  lease = "free" => \A w \in Workers : held[w] # 0 => ~Current(w)

\* A superseded worker writes nothing: epochs never go down along the log,
\* and all the events of one epoch come from one writer.
FencedAppend ==
  position' # position =>
    /\ lastEpoch' >= lastEpoch
    /\ lastEpoch' = lastEpoch => lastBy' = lastBy

LogIsFenced == [][FencedAppend]_leaseVars
=============================================================================
