------------------------------- MODULE Runner -------------------------------
(***************************************************************************)
(* What a runner backend decides without touching the database:            *)
(* crates/runner/src/internal.rs.  Which executions a pool's policy lets   *)
(* through, how a Kubernetes Job is named and recognised, what a Job's     *)
(* status means for the attempt, what a finished process or pod reports,   *)
(* and which artifacts its output stream carries.                          *)
(*                                                                         *)
(* A command, an image or a payload is a model value; what the code reads  *)
(* out of a string (the image pinned by digest, the dependency's bare      *)
(* name, the marker's fields) is a field of a record.                      *)
(***************************************************************************)
EXTENDS Naturals, Sequences, FiniteSets, Functions

CONSTANTS
    MaxInlineInput,     \* MAX_INLINE_INPUT_ARTIFACT_BYTES
    MaxArtifact         \* MAX_COLLECTED_ARTIFACT_BYTES

Absent == [set |-> FALSE, value |-> 0]
Given(n) == [set |-> TRUE, value |-> n]

-----------------------------------------------------------------------------
(***************************************************************************)
(* Execution policy.  A pool carries a policy record and the older         *)
(* top-level fields, which win wherever they are set.  An allowed image    *)
(* pattern is the set of images it matches: one image, or every image with *)
(* its prefix.                                                             *)
(***************************************************************************)
ExecutionPolicy(pool) ==
    LET Over(top, nested) == IF top.set THEN top ELSE nested
        Or(top, nested)   == IF top # {} THEN top ELSE nested
    IN [allowed       |-> Or(pool.allowedImages, pool.policy.allowed),
        requireDigest |-> pool.requireDigest \/ pool.policy.requireDigest,
        maxDeps       |-> Over(pool.maxDeps, pool.policy.maxDeps),
        maxDepLength  |-> Over(pool.maxDepLength, pool.policy.maxDepLength),
        blocked       |-> Or(pool.blocked, pool.policy.blocked)]

ImageAdmitted(policy, image) ==
    /\ policy.requireDigest => image.digest
    /\ policy.allowed # {} => \E pattern \in policy.allowed : image.name \in pattern

DependenciesAdmitted(policy, deps) ==
    /\ policy.maxDeps.set => Cardinality(deps) <= policy.maxDeps.value
    /\ policy.maxDepLength.set =>
           \A d \in deps : d.length <= policy.maxDepLength.value
    /\ \A d \in deps : d.name \notin policy.blocked

PolicyAdmits(pool, def) ==
    /\ ImageAdmitted(ExecutionPolicy(pool), def.image)
    /\ DependenciesAdmitted(ExecutionPolicy(pool), def.deps)

(***************************************************************************)
(* The WASI runner takes a bare Python command only.                       *)
(***************************************************************************)
WasmAccepts(def) ==
    /\ def.deps = {}
    /\ def.command \in {"python -c", "python file"}

(***************************************************************************)
(* Input artifacts travel inside the Job's command, encoded four bytes for *)
(* three; local runners write them as files and set no limit.              *)
(***************************************************************************)
EncodedLength(bytes) == ((bytes + 2) \div 3) * 4

InputsFit(sizes) == FoldFunction(LAMBDA n, sum : sum + EncodedLength(n), 0, sizes) <= MaxInlineInput

-----------------------------------------------------------------------------
(***************************************************************************)
(* Kubernetes identity.  The Job name keeps 45 characters of the run id    *)
(* and the run label 63: id.short and id.long.  Two runs may share a name, *)
(* so a Job found under the name is checked by its labels.                 *)
(***************************************************************************)
KubernetesJobName(id, attempt) == <<id.short, attempt>>

JobLabels(id, attempt) == [run |-> id.long, attempt |-> attempt]

SameIdentity(labels, id, attempt) == labels = JobLabels(id, attempt)

(***************************************************************************)
(* What wait_for_job makes of the status it fetched: "waiting" is another  *)
(* round of the loop.  `late` says the wait's own deadline has passed.     *)
(***************************************************************************)
JobOutcome(status, late) ==
    CASE status = "deadline"  -> "timed_out"
      [] status = "succeeded" -> "succeeded"
      [] status = "failed"    -> IF late THEN "timed_out" ELSE "failed"
      [] status = "active"    -> IF late THEN "timed_out" ELSE "waiting"

(***************************************************************************)
(* How an execution ends.  `install` is pip's result, `command` the job's  *)
(* own.  The pod's wrapper script runs the command whether or not pip      *)
(* succeeded and exits with the command's status; the process runner stops *)
(* at a failed install.                                                    *)
(***************************************************************************)
WrapperExit(install, command) == command

ProcessReport(install, command) ==
    IF install = "failed" THEN "failed" ELSE command

-----------------------------------------------------------------------------
(***************************************************************************)
(* Artifacts multiplexed into a pod's log.  A line is plain text or a      *)
(* marker; `plain` says its name is a usable file name, `typed` that its   *)
(* content type is, `decodes` that the payload is base64, `size` is the    *)
(* decoded length.  `cut` says the log's last line has no newline: its     *)
(* payload may be a prefix that still decodes.                             *)
(***************************************************************************)
MarkerParses(line) ==
    /\ line.plain
    /\ line.typed
    /\ line.decodes
    /\ line.size <= MaxArtifact

\* (mutant) A marker the log limit cut short is parsed like any other.
SplitIgnoringCut(lines, cut) ==
    LET Kept(i) == lines[i].marker /\ MarkerParses(lines[i])
    IN [artifacts |-> {i \in DOMAIN lines : Kept(i)},
        logs      |-> {i \in DOMAIN lines : ~Kept(i)}]

SplitArtifactMarkers(lines, cut) ==
    LET Kept(i) == /\ lines[i].marker
                   /\ ~(cut /\ i = Len(lines))
                   /\ MarkerParses(lines[i])
    IN [artifacts |-> {i \in DOMAIN lines : Kept(i)},
        logs      |-> {i \in DOMAIN lines : ~Kept(i)}]

(***************************************************************************)
(* Local runners read the artifact directory instead: every plain file in  *)
(* it, whatever its size.                                                  *)
(***************************************************************************)
CollectLocalArtifacts(lines) ==
    [artifacts |-> {i \in DOMAIN lines : lines[i].marker},
     logs      |-> {i \in DOMAIN lines : ~lines[i].marker}]
=============================================================================
