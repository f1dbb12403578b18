----------------------------- MODULE Reasoning -----------------------------
(***************************************************************************)
(* Asking a question of a text: ask of crates/api/src/reasoning.rs, the    *)
(* statements it runs (crates/postgres/src memory.rs and certificates.rs)  *)
(* and the proposer (crates/proposer/src/ollama.rs), whose model may       *)
(* answer anything.                                                        *)
(*                                                                         *)
(* Every ask is a process and every statement a step; a source has its     *)
(* ask's name, an evidence record is <<source, number of the span>>.       *)
(***************************************************************************)
EXTENDS Replay

CONSTANTS
    Asserts(_),     \* what a reader of a whole text is told: folded propositions
    Contracts,      \* contract -> [mine, compiles, ast]
    RawProposals,   \* what the model may answer: [prop, span, quote, rationale]
    MaxAskFaults    \* store failures in a behaviour

VARIABLES
    asking,         \* ask -> [pc, book, spans, raw]
    sources,        \* memory_sources: source -> authority
    contents,       \* memory_source_contents
    evidence,       \* memory_evidence
    decisions,      \* reasoning_certificates
    askFaults

askVars == <<asking, sources, contents, evidence, decisions, askFaults>>

AuthorityFloor == "low"

NoBook == [relations |-> [r \in {} |-> <<>>], types |-> [r \in {} |-> ""], cues |-> {},
           policy |-> [currency |-> "", order |-> ""]]

\* An ask is [n, text, question, authority, contract].
AskInit(asks) ==
    /\ asking = [q \in asks |-> [pc |-> "resolve", book |-> NoBook, spans |-> 0, raw |-> <<>>]]
    /\ sources = [s \in {} |-> "low"]
    /\ contents = {}
    /\ evidence = [e \in {} |-> 0]
    /\ decisions = {}
    /\ askFaults = 0

AskAt(q, pc) == asking[q].pc = pc
AskGoes(q, pc) == asking' = [asking EXCEPT ![q].pc = pc]

\* contract_phrasebook: a contract of another project is not there.
ContractPhrasebook(q) ==
    IF q.contract = NoContract THEN Some(NoBook)
    ELSE IF q.contract \in DOMAIN Contracts /\ Contracts[q.contract].mine /\ Contracts[q.contract].compiles
    THEN Some(FromContract(Contracts[q.contract].ast)) ELSE None

\* Everything that can be refused is, before anything is written.
Resolve(q) ==
    LET valid == q.text # <<>> /\ q.question # "" /\ q.authority \in DOMAIN AuthorityRank
        book  == ContractPhrasebook(q)
    IN /\ AskAt(q, "resolve")
       /\ asking' = [asking EXCEPT ![q] = IF valid /\ book # None
                                          THEN [@ EXCEPT !.pc = "source", !.book = book[1]]
                                          ELSE [@ EXCEPT !.pc = "refused"]]
       /\ UNCHANGED <<sources, contents, evidence, decisions, askFaults>>

StoreSource(q) ==
    /\ AskAt(q, "source")
    /\ sources' = (q.n :> q.authority) @@ sources
    /\ AskGoes(q, "content")
    /\ UNCHANGED <<contents, evidence, decisions, askFaults>>

StoreContent(q) ==
    /\ AskAt(q, "content")
    /\ contents' = contents \cup {[source |-> q.n, text |-> q.text]}
    /\ AskGoes(q, "spans")
    /\ UNCHANGED <<sources, evidence, decisions, askFaults>>

\* persist_span_evidence, one span at a time.
StoreSpan(q) ==
    LET spans == ChunkIntoSpans(q.text)
        k     == asking[q].spans + 1
    IN /\ AskAt(q, "spans")
       /\ IF k \in DOMAIN spans
          THEN /\ evidence' = (<<q.n, k>> :> [source |-> q.n, span |-> spans[k],
                                              excerpt |-> SubSeq(q.text, spans[k].start, spans[k].end)]) @@ evidence
               /\ asking' = [asking EXCEPT ![q].spans = k]
          ELSE UNCHANGED evidence /\ AskGoes(q, IF k = 1 THEN "refused" ELSE "propose")
       /\ UNCHANGED <<sources, contents, decisions, askFaults>>

\* The evidence this request has stored.
Offered(q) == [e \in {<<q.n, k>> : k \in 1..asking[q].spans} |-> evidence[e]]

\* The model is not reached, or answers, from the alphabet or from outside it.
Propose(q) ==
    /\ AskAt(q, "propose")
    /\ \/ AskGoes(q, "failed")
       \/ \E raw \in RawProposals :
            asking' = [asking EXCEPT ![q] = IF <<q.n, raw.span>> \in AlphabetOf(Offered(q))
                                            THEN [@ EXCEPT !.pc = "record", !.raw = <<raw>>]
                                            ELSE [@ EXCEPT !.pc = "failed"]]
    /\ UNCHANGED <<sources, contents, evidence, decisions, askFaults>>

AskSnapshot(q) ==
    [evidence |-> Offered(q), sources |-> q.n :> q.authority,
     contents |-> {[source |-> q.n, text |-> q.text]},
     claims |-> [c \in {} |-> 0], floor |-> AuthorityFloor, book |-> asking[q].book]

\* check, and the row of the decision.
RecordDecision(q) ==
    LET raw      == asking[q].raw[1]
        cited    == <<q.n, raw.span>>
        proposal == BuildProposal([prop |-> raw.prop, evidence |-> cited, quote |-> raw.quote,
                                   rationale |-> raw.rationale], evidence[cited].excerpt, asking[q].book)
    IN /\ AskAt(q, "record")
       /\ decisions' = decisions \cup {[ask |-> q.n, goal |-> raw.prop, cited |-> cited,
                                        verdict |-> Check(proposal, AskSnapshot(q)).verdict]}
       /\ AskGoes(q, "answered")
       /\ UNCHANGED <<sources, contents, evidence, askFaults>>

AskStoreFails(q) ==
    /\ asking[q].pc \in {"resolve", "source", "content", "spans", "record"}
    /\ askFaults < MaxAskFaults
    /\ askFaults' = askFaults + 1
    /\ AskGoes(q, "failed")
    /\ UNCHANGED <<sources, contents, evidence, decisions>>

AskNext ==
    \E q \in DOMAIN asking : \/ Resolve(q) \/ StoreSource(q) \/ StoreContent(q) \/ StoreSpan(q)
                    \/ Propose(q) \/ RecordDecision(q) \/ AskStoreFails(q)

-----------------------------------------------------------------------------
Folded(prop) == <<Fold(prop.subject), prop.predicate, Fold(prop.object)>>

\* An accepted answer is something the text asserts, to a reader of the whole
\* text: not a span of a negated, hedged or asked sentence, and not part of a
\* larger value; and the span it cites is stored, with the bytes it was cut
\* from (the promise of crates/kernel/src/phrasing.rs, with chunk_into_spans
\* and ask).
AcceptedIsAsserted ==
    \A d \in decisions : d.verdict = "accepted" =>
        /\ \A q \in DOMAIN asking : q.n = d.ask =>
              Folded(d.goal) \in Asserts(q.text)
        /\ d.cited \in DOMAIN evidence
        /\ \E c \in contents : VerifyEvidenceSpan(evidence[d.cited], c)
=============================================================================
