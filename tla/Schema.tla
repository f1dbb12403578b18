------------------------------- MODULE Schema -------------------------------
(***************************************************************************)
(* Structural value schemas: crates/ir/src/value.rs.  Which schema may     *)
(* supply which, where opacity is carried, and the schemas the port tags   *)
(* of a runtime graph stand for.                                           *)
(*                                                                         *)
(* A schema is a record with a `kind` and what that kind needs: `range`    *)
(* for integers, texts and lists, `scale`, `members`, `item`, `fields`     *)
(* (name -> [schema, required]), `tag` and `variants`, `contract`.         *)
(***************************************************************************)
EXTENDS Trust

Bounds(lo, hi) == [min |-> lo, max |-> hi]
Within(range, required) == range.min >= required.min /\ range.max <= required.max

UnitSchema     == [kind |-> "unit"]
BoolSchema     == [kind |-> "bool"]
BytesRef       == [kind |-> "bytes_ref"]
Json           == [kind |-> "json"]
Integer(range) == [kind |-> "integer", range |-> range]
Decimal(scale) == [kind |-> "decimal", scale |-> scale]
Text(length)   == [kind |-> "text", range |-> length]
Enumeration(m) == [kind |-> "enumeration", members |-> m]
List(item, length) == [kind |-> "list", item |-> item, range |-> length]
Record(fields) == [kind |-> "record", fields |-> fields]
Union(tag, variants) == [kind |-> "union", tag |-> tag, variants |-> variants]
ArtifactRef(c) == [kind |-> "artifact_ref", contract |-> c]

Required(schema) == [schema |-> schema, required |-> TRUE]
Optional(schema) == [schema |-> schema, required |-> FALSE]

(***************************************************************************)
(* A schema that is opaque anywhere inside.                                *)
(***************************************************************************)
RECURSIVE CarriesOpacity(_)
CarriesOpacity(s) ==
    \/ s.kind = "json"
    \/ s.kind = "list" /\ CarriesOpacity(s.item)
    \/ s.kind = "record" /\ \E f \in DOMAIN s.fields : CarriesOpacity(s.fields[f].schema)
    \/ s.kind = "union" /\ \E v \in DOMAIN s.variants : CarriesOpacity(s.variants[v])

\* (mutant) A field the producer may leave out passes for one it always sends.
RECURSIVE SatisfiesLoosely(_, _)
SatisfiesLoosely(s, r) ==
    \/ r.kind = "json"
    \/ /\ s.kind = r.kind
       /\ CASE s.kind \in {"integer", "text"} -> Within(s.range, r.range)
            [] s.kind = "list" -> Within(s.range, r.range) /\ SatisfiesLoosely(s.item, r.item)
            [] s.kind = "record" ->
                   \A f \in DOMAIN r.fields :
                       IF f \in DOMAIN s.fields
                       THEN SatisfiesLoosely(s.fields[f].schema, r.fields[f].schema)
                       ELSE ~r.fields[f].required
            [] OTHER -> TRUE

(***************************************************************************)
(* check_satisfies: records by width, unions by the producer's variants,   *)
(* and an opaque producer only where opacity is accepted.                  *)
(***************************************************************************)
RECURSIVE Satisfies(_, _)
Satisfies(s, r) ==
    \/ r.kind = "json"
    \/ /\ s.kind = r.kind
       /\ CASE s.kind \in {"unit", "bool", "bytes_ref"} -> TRUE
            [] s.kind \in {"integer", "text"} -> Within(s.range, r.range)
            [] s.kind = "decimal" -> s.scale = r.scale
            [] s.kind = "enumeration" -> s.members \subseteq r.members
            [] s.kind = "list" -> Within(s.range, r.range) /\ Satisfies(s.item, r.item)
            [] s.kind = "record" ->
                   \A f \in DOMAIN r.fields :
                       IF f \in DOMAIN s.fields
                       THEN /\ r.fields[f].required => s.fields[f].required
                            /\ Satisfies(s.fields[f].schema, r.fields[f].schema)
                       ELSE ~r.fields[f].required
            [] s.kind = "union" ->
                   /\ s.tag = r.tag
                   /\ \A v \in DOMAIN s.variants :
                          /\ v \in DOMAIN r.variants
                          /\ Satisfies(s.variants[v], r.variants[v])
            [] s.kind = "artifact_ref" -> r.contract \in {NoContract, s.contract}

-----------------------------------------------------------------------------
(***************************************************************************)
(* The structural aliases of the runtime's port tags.  Lengths and offsets *)
(* are the code's, scaled down: short for a prose-sized text or list.      *)
(***************************************************************************)
Short == Bounds(0, 2)

Prose == Text(Short)

Document ==
    Record([source_id      |-> Required(Prose),
            content_digest |-> Required(BytesRef),
            span_start     |-> Optional(Integer(Short)),
            span_end       |-> Optional(Integer(Short))])

Documents == List(Document, Short)

ForPortValueType ==
    [user_query           |-> Prose,
     normalized_query     |-> Prose,
     prompt               |-> Prose,
     model_response       |-> Prose,
     final_answer         |-> Prose,
     conversation_context |-> List(Prose, Short),
     embedding_vector     |-> BytesRef,
     retrieved_documents  |-> Documents,
     ranked_documents     |-> Documents,
     validation_result    |-> Record([passed |-> Required(BoolSchema),
                                      detail |-> Optional(Prose)]),
     json                 |-> Json]

-----------------------------------------------------------------------------
(***************************************************************************)
(* What a schema describes, as a reference for the check above: the values *)
(* a producer that declares exactly `s` can emit, and whether a value is   *)
(* one a consumer that declares `r` can read.  A consumer reads the fields *)
(* it knows and no others.  Texts are their lengths.                       *)
(***************************************************************************)
RECURSIVE ValuesOf(_)
ValuesOf(s) ==
    CASE s.kind = "bool" -> {[bool |-> b] : b \in BOOLEAN}
      [] s.kind = "integer" -> {[int |-> i] : i \in s.range.min..s.range.max}
      [] s.kind = "text" -> {[text |-> i] : i \in s.range.min..s.range.max}
      [] s.kind = "enumeration" -> {[member |-> m] : m \in s.members}
      [] s.kind = "list" ->
             {[list |-> v] : v \in UNION {[1..n -> ValuesOf(s.item)] : n \in s.range.min..s.range.max}}
      [] s.kind = "record" ->
             LET Always == {f \in DOMAIN s.fields : s.fields[f].required}
                 Of(sent) == {fn \in [sent -> UNION {ValuesOf(s.fields[f].schema) : f \in sent}] :
                                 \A f \in sent : fn[f] \in ValuesOf(s.fields[f].schema)}
             IN {[record |-> v] :
                    v \in UNION {Of(sent) : sent \in {t \in SUBSET DOMAIN s.fields : Always \subseteq t}}}
      [] s.kind = "union" ->
             UNION {{[tag |-> s.tag, arm |-> v, value |-> x] : x \in ValuesOf(s.variants[v])} :
                       v \in DOMAIN s.variants}
      [] OTHER -> {[opaque |-> s]}

RECURSIVE Reads(_, _)
Reads(r, v) ==
    CASE r.kind = "json" -> TRUE
      [] r.kind = "bool" -> "bool" \in DOMAIN v
      [] r.kind = "integer" -> "int" \in DOMAIN v /\ v.int \in r.range.min..r.range.max
      [] r.kind = "text" -> "text" \in DOMAIN v /\ v.text \in r.range.min..r.range.max
      [] r.kind = "enumeration" -> "member" \in DOMAIN v /\ v.member \in r.members
      [] r.kind = "list" ->
             /\ "list" \in DOMAIN v
             /\ Len(v.list) \in r.range.min..r.range.max
             /\ \A i \in DOMAIN v.list : Reads(r.item, v.list[i])
      [] r.kind = "record" ->
             /\ "record" \in DOMAIN v
             /\ \A f \in DOMAIN r.fields :
                    IF f \in DOMAIN v.record THEN Reads(r.fields[f].schema, v.record[f])
                                             ELSE ~r.fields[f].required
      [] r.kind = "union" ->
             /\ "tag" \in DOMAIN v
             /\ v.tag = r.tag
             /\ v.arm \in DOMAIN r.variants
             /\ Reads(r.variants[v.arm], v.value)
      [] r.kind = "artifact_ref" ->
             /\ "opaque" \in DOMAIN v
             /\ v.opaque.kind = r.kind
             /\ r.contract \in {NoContract, v.opaque.contract}
      [] OTHER -> "opaque" \in DOMAIN v /\ v.opaque = r
=============================================================================
