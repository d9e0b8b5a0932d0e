-------------------------- MODULE ProtocolContracts --------------------------
(***************************************************************************)
(* How the contracts between roles come to be (src/src/contracts):         *)
(*   - a work packet says what the roles need of each contract;            *)
(*   - an agent proposes a fragment of every contract, in one proposal or  *)
(*     in batches that are corrected and assembled; another one reviews    *)
(*     the proposal; applied, its contracts become active;                 *)
(*   - where roles escalate with classes the shared vocabulary lacks, a    *)
(*     reviewed reconciliation maps them, and may extend the vocabulary.   *)
(*                                                                         *)
(* A row is identified by the digest of its content, here the content.     *)
(* The JSON an agent writes is a record; a fragment holds what the checks  *)
(* read of it.  Duplicate fragments and malformed JSON are one flag.       *)
(***************************************************************************)
EXTENDS RoleData, Sequences, SequencesExt

CONSTANTS
    Sessions,
    Vocabularies,    \* shared schemas that may be registered: [family, classes, defines]
    Fragments,       \* fragments an agent may write: [parses, owned, copied, uses, examples]
    Mappings,        \* sets of [role, source, target] a reconciliation may hold
    Additions,       \* sets of classes a reconciliation may add
    RoleEdits,       \* contracts a role may be given: [role, input]
    Escalations,     \* escalations a role may be given: [role, class]
    Bounded,         \* roles whose policy bounds their self-correction; it is not edited here
    Seed,            \* the role data of a store before this protocol is used
    MaxRows,         \* bound: batches, proposals and reconciliations stored
    MaxEdits,        \* bound: edits of the role data
    None

VARIABLES
    sharedSchemas,   \* the registered shared schemas <<family, minor>>, in order
    workPackets,     \* protocol_work_packets
    batches,         \* protocol_proposal_batches: content -> valid
    proposals,       \* protocol_proposals: content -> [valid, status]
    reviews,         \* protocol_proposal_reviews: set of [proposal, reviewer, verdict]
    activations,     \* artifact_contract_activations: ref -> proposal
    reconciliations, \* protocol_reconciliation_proposals: content -> [valid, status]
    verdicts,        \* protocol_reconciliation_reviews
    edits

protocolVars == <<sharedSchemas, workPackets, batches, proposals, reviews, activations,
                  reconciliations, verdicts>>
vars == <<roleVars, protocolVars, edits>>

Init ==
    /\ responsibilities = Seed.responsibilities
    /\ contextItems = Seed.contextItems
    /\ roleContracts = Seed.roleContracts
    /\ roleHandoffs = Seed.roleHandoffs
    /\ roleEscalations = Seed.roleEscalations
    /\ requiredRoles = Seed.requiredRoles
    /\ artifactContracts = << >>
    /\ sharedSchemas = << >> /\ workPackets = {}
    /\ batches = << >> /\ proposals = << >> /\ reviews = {} /\ activations = << >>
    /\ reconciliations = << >> /\ verdicts = {} /\ edits = 0

-----------------------------------------------------------------------------
(***************************************************************************)
(* The work packet.                                                        *)
(***************************************************************************)
\* What a packet says of a role; its definition version is not part of it.
loadRoles ==
    [r \in DOMAIN roleContracts |->
       [context |-> roleContracts[r].context, input |-> roleContracts[r].input,
        output |-> roleContracts[r].output, judgments |-> roleContracts[r].judgments,
        bounded |-> r \in Bounded,
        escalations |-> {e.class : e \in {x \in roleEscalations : x.role = r}}]]

\* The registered schemas that are active, each at its place in the order.
loadSharedSchemas ==
    [i \in {j \in DOMAIN sharedSchemas : sharedSchemas[j] \in activeSchemas} |->
       [ref |-> sharedSchemas[i], schema |-> artifactContracts[sharedSchemas[i]].schema]]

createPacket ==
    [roles |-> loadRoles, handoffs |-> roleHandoffs, runtime |-> runtimeResponsibilities,
     shared |-> loadSharedSchemas]

\* The contracts the roles of a packet need.
contractFacts(p) ==
    UNION {{p.roles[r].input, p.roles[r].output} : r \in DOMAIN p.roles}
      \cup {h.contract : h \in p.handoffs}

sharedRefs(p) == {p.shared[i].ref : i \in DOMAIN p.shared}
allowedEscalations(p) == UNION {p.shared[i].schema.classes : i \in DOMAIN p.shared}
unsupportedEscalations(p) ==
    {e \in UNION {{[role |-> r, class |-> c] : c \in p.roles[r].escalations} : r \in DOMAIN p.roles} :
       e.class \notin allowedEscalations(p)}

escalationViolations(p) ==
    DOMAIN p.shared = {} \/ allowedEscalations(p) = {} \/ unsupportedEscalations(p) # {}

Definitions == {"provenance", "escalation", "correction"}
sourceViolations(p) ==
    \/ ~ roleSetIsClosed
    \/ escalationViolations(p)
    \/ ~ Definitions \subseteq UNION {p.shared[i].schema.defines : i \in DOMAIN p.shared}

\* The first shared schema that gives a definition, in a packet without violations.
sharedDefinitionRef(p, definition) ==
    p.shared[CHOOSE i \in DOMAIN p.shared :
               /\ definition \in p.shared[i].schema.defines
               /\ \A j \in DOMAIN p.shared : j < i => definition \notin p.shared[j].schema.defines].ref

\* The properties the runtime owns of a contract, each with the definition it refers to.
contractScaffold(p, ref) ==
    LET outputRoles == {r \in DOMAIN p.roles : p.roles[r].output = ref}
    IN  {"provenance"} \cup {d \in {"escalation"} : outputRoles # {}}
                       \cup {d \in {"correction"} : \E r \in outputRoles : p.roles[r].bounded}

persistProtocolWorkInspection ==
    /\ workPackets' = workPackets \cup {createPacket}
    /\ UNCHANGED <<roleVars, edits, sharedSchemas, batches, proposals, reviews, activations,
                   reconciliations, verdicts>>

\* Every step on proposals begins with it: it refuses an inconsistent source and
\* stores the packet otherwise.
compileProtocolWorkPacket ==
    /\ ~ sourceViolations(createPacket)
    /\ workPackets' = workPackets \cup {createPacket}

\* The shared schema and the schema of its metadata become contracts together.
metadataRef(ref) == <<"metadata", ref>>
vocabulary(ref) == artifactContracts[ref].schema

registerProtocolSupport(v) ==
    LET ref == <<v.family, 1>>
    IN  /\ {ref, metadataRef(ref)} \cap DOMAIN artifactContracts = {}
        /\ artifactContracts' =
             over(one(ref, activeRow(Schema({}, v.classes, v.defines))),
               over(one(metadataRef(ref), activeRow(Schema({}, {}, {}))), artifactContracts))
        /\ sharedSchemas' = Append(sharedSchemas, ref)
        /\ UNCHANGED <<responsibilities, contextItems, roleContracts, roleHandoffs,
                       roleEscalations, requiredRoles, edits, workPackets, batches, proposals,
                       reviews, activations, reconciliations, verdicts>>

-----------------------------------------------------------------------------
(***************************************************************************)
(* The mechanical check of a proposal [packet, contracts].  A fragment     *)
(* says whether it parses, which runtime-owned properties it declares (and *)
(* copies from the scaffold), the shared schemas it uses, and whether its  *)
(* examples are accepted and rejected as they should.                      *)
(***************************************************************************)
parseProposal(value) == \A ref \in DOMAIN value.contracts : value.contracts[ref].parses

\* The schema a fragment becomes: its own references and the scaffold's.
composeSchema(p, ref, fragment) ==
    Schema(fragment.uses \cup {sharedDefinitionRef(p, d) : d \in contractScaffold(p, ref)}, {}, {})

composable(p, ref, fragment) ==
    /\ fragment.owned \cap contractScaffold(p, ref) = {}
    /\ fragment.uses \subseteq sharedRefs(p)

contractCoverageViolations(value, refs) == DOMAIN value.contracts # refs

checkProtocolProposalForRefs(value, refs) ==
    LET p == createPacket
    IN  /\ parseProposal(value)
        /\ value.packet = p
        /\ ~ contractCoverageViolations(value, refs)
        /\ \A ref \in DOMAIN value.contracts :
             /\ composable(p, ref, value.contracts[ref])
             /\ value.contracts[ref].examples

checkProtocolProposal(value) == checkProtocolProposalForRefs(value, contractFacts(createPacket))

\* INSERT OR IGNORE: content that is stored already keeps its row as it was.
evaluateAndPersistAssembledProtocolProposal(value, authors, sources) ==
    LET content == over([authors |-> authors, sources |-> sources], value)
    IN  /\ compileProtocolWorkPacket
        /\ proposals' =
             over(proposals, one(content, [valid |-> checkProtocolProposal(value),
                                           status |-> "evaluated"]))

ingestProtocolProposalOutput(session, value) ==
    /\ evaluateAndPersistAssembledProtocolProposal(value, {session}, {})
    /\ UNCHANGED <<roleVars, edits, sharedSchemas, batches, reviews, activations,
                   reconciliations, verdicts>>

-----------------------------------------------------------------------------
(***************************************************************************)
(* Batches.  The runtime supplies the identity of the packet and drops the *)
(* properties copied from its scaffold; what conflicts is a violation.     *)
(***************************************************************************)
injectRuntimeIdentity(given) == given \in {None, createPacket}

removeRedundantScaffoldProperties(ref, fragment) ==
    [fragment EXCEPT !.owned = @ \ (fragment.copied \cap contractScaffold(createPacket, ref))]

normalized(contracts) ==
    [ref \in DOMAIN contracts |-> removeRedundantScaffoldProperties(ref, contracts[ref])]

checkProtocolProposalBatch(contracts, assigned) ==
    /\ assigned # {} /\ assigned \subseteq contractFacts(createPacket)
    /\ checkProtocolProposalForRefs([packet |-> createPacket, contracts |-> contracts], assigned)

\* "writers" follows from the rest of the content: who wrote each fragment.
persistNormalizedBatch(session, contracts, assigned, clean, source, changed, writers) ==
    LET content == [packet |-> createPacket, contracts |-> contracts, assigned |-> assigned,
                    author |-> session, source |-> source, changed |-> changed,
                    writers |-> writers]
    IN  /\ compileProtocolWorkPacket
        /\ batches' = over(batches, one(content, clean /\ checkProtocolProposalBatch(contracts, assigned)))
        /\ UNCHANGED <<roleVars, edits, sharedSchemas, proposals, reviews, activations,
                       reconciliations, verdicts>>

ingestProtocolProposalBatchOutput(session, given, contracts, assigned) ==
    persistNormalizedBatch(session, normalized(contracts), assigned, injectRuntimeIdentity(given),
                           None, {}, [ref \in DOMAIN contracts |-> session])

\* A batch is used only while it is valid and its packet is the current one.
loadBatch(b) == b \in DOMAIN batches /\ batches[b] /\ b.packet = createPacket

correctionViolations(source, contracts, changed) ==
    \/ changed = {} \/ ~ changed \subseteq source.assigned
    \/ \E ref \in source.assigned \ changed :
         ref \notin DOMAIN contracts \/ contracts[ref] # source.contracts[ref]

ingestProtocolProposalBatchCorrectionOutput(session, given, source, contracts, changed) ==
    LET corrected == normalized(contracts)
    IN  /\ loadBatch(source)
        /\ persistNormalizedBatch(session, corrected, source.assigned,
             injectRuntimeIdentity(given) /\ ~ correctionViolations(source, corrected, changed),
             source, changed,
             [ref \in DOMAIN corrected |->
                IF ref \in changed THEN session ELSE source.writers[ref]])

indexContracts(bs) ==
    [ref \in UNION {DOMAIN b.contracts : b \in bs} |->
       (CHOOSE b \in bs : ref \in DOMAIN b.contracts).contracts[ref]]

assembleProtocolProposalBatches(bs) ==
    /\ bs # {} /\ \A b \in bs : loadBatch(b)
    /\ \A b, c \in bs : b # c => DOMAIN b.contracts \cap DOMAIN c.contracts = {}
    /\ DOMAIN indexContracts(bs) = contractFacts(createPacket)
    /\ evaluateAndPersistAssembledProtocolProposal(
         [packet |-> createPacket, contracts |-> indexContracts(bs)], {b.author : b \in bs}, bs)
    /\ UNCHANGED <<roleVars, edits, sharedSchemas, batches, reviews, activations,
                   reconciliations, verdicts>>

-----------------------------------------------------------------------------
(***************************************************************************)
(* Review and activation of a proposal.                                    *)
(***************************************************************************)
\* Mutant: authors may review what they proposed.
relationshipViolations_anyReviewer(c, reviewer) ==
    ~ proposals[c].valid \/ proposals[c].status # "evaluated"
\* A stored proposal takes one review, of somebody who is not among its authors.
relationshipViolations(c, reviewer) ==
    ~ proposals[c].valid \/ proposals[c].status # "evaluated" \/ reviewer \in c.authors

verdictStatus(verdict) == IF verdict = "PASS" THEN "approved" ELSE "rejected"

persistAcceptedReview(c, reviewer, verdict) ==
    /\ reviews' = reviews \cup {[proposal |-> c, reviewer |-> reviewer, verdict |-> verdict]}
    /\ proposals' = [proposals EXCEPT ![c].status = verdictStatus(verdict)]

evaluateReview(c, reviewer, verdict) ==
    /\ c \in DOMAIN proposals /\ ~ relationshipViolations(c, reviewer)
    /\ persistAcceptedReview(c, reviewer, verdict)
    /\ UNCHANGED <<roleVars, edits, sharedSchemas, workPackets, batches, activations,
                   reconciliations, verdicts>>

\* The proposal is checked again, against the packet of now; one transaction adds
\* its contracts.
activateApprovedProtocolProposal(c) ==
    LET generated == [ref \in DOMAIN c.contracts |-> composeSchema(createPacket, ref, c.contracts[ref])]
    IN  /\ c \in DOMAIN proposals /\ proposals[c].status = "approved"
        /\ compileProtocolWorkPacket
        /\ checkProtocolProposal([packet |-> c.packet, contracts |-> c.contracts])
        /\ DOMAIN generated \cap DOMAIN artifactContracts = {}
        /\ artifactContracts' = over([ref \in DOMAIN generated |-> activeRow(generated[ref])], artifactContracts)
        /\ activations' = over([ref \in DOMAIN generated |-> c], activations)
        /\ proposals' = [proposals EXCEPT ![c].status = "applied"]
        /\ UNCHANGED <<responsibilities, contextItems, roleContracts, roleHandoffs,
                       roleEscalations, requiredRoles, edits, sharedSchemas, batches, reviews,
                       reconciliations, verdicts>>

-----------------------------------------------------------------------------
(***************************************************************************)
(* Reconciliation of the escalation classes: [packet, author, additions,   *)
(* mappings], the mappings in the order they are applied.                  *)
(***************************************************************************)
keys(c) == {[role |-> c.mappings[i].role, class |-> c.mappings[i].source] : i \in DOMAIN c.mappings}
targets(c) == {c.mappings[i].target : i \in DOMAIN c.mappings}

\* Every unsupported escalation is mapped once, and no other one.
coverageViolations(c, p) ==
    keys(c) # unsupportedEscalations(p) \/ Cardinality(keys(c)) # Len(c.mappings)

proposalViolations(c, p) ==
    \/ coverageViolations(c, p)
    \/ c.packet # p
    \/ c.additions \cap allowedEscalations(p) # {}
    \/ ~ targets(c) \subseteq allowedEscalations(p) \cup c.additions
    \/ ~ c.additions \subseteq targets(c)

evaluateAndPersistReconciliationProposal(c) ==
    /\ workPackets' = workPackets \cup {createPacket}
    /\ reconciliations' =
         over(reconciliations, one(c, [valid |-> ~ proposalViolations(c, createPacket),
                                       status |-> "evaluated"]))
    /\ UNCHANGED <<roleVars, edits, sharedSchemas, batches, proposals, reviews, activations,
                   verdicts>>

storedProposalViolations(c, reviewer) ==
    \/ ~ reconciliations[c].valid \/ reconciliations[c].status # "evaluated"
    \/ reviewer = c.author

evaluateAndPersistReconciliationReview(c, reviewer, verdict) ==
    /\ c \in DOMAIN reconciliations /\ ~ storedProposalViolations(c, reviewer)
    /\ verdicts' = verdicts \cup {[proposal |-> c, reviewer |-> reviewer, verdict |-> verdict]}
    /\ reconciliations' = [reconciliations EXCEPT ![c].status = verdictStatus(verdict)]
    /\ UNCHANGED <<roleVars, edits, sharedSchemas, workPackets, batches, proposals, reviews,
                   activations>>

\* The next minor version, with the classes added to those of the current one.
versionBump(ref) == <<ref[1], ref[2] + 1>>
\* Mutant: the new version lists the classes added only.
evolveSchema_additionsOnly(schema, additions) == [schema EXCEPT !.classes = additions]
evolveSchema(schema, additions) == [schema EXCEPT !.classes = @ \cup additions]

\* Mutant: the metadata schema of the old version stays in force.
retired_schemaOnly(ref) == {ref}
retired(ref) == {ref, metadataRef(ref)}

\* The one shared schema and its metadata schema are replaced and retired.
evolveProtocolVocabulary(additions) ==
    LET old == sharedSchemas[1]
        next == versionBump(old)
    IN  /\ Len(sharedSchemas) = 1
        /\ {next, metadataRef(next)} \cap DOMAIN artifactContracts = {}
        /\ artifactContracts' =
             over(one(next, activeRow(evolveSchema(vocabulary(old), additions))),
               over(one(metadataRef(next), activeRow(vocabulary(metadataRef(old)))),
                 [ref \in DOMAIN artifactContracts |->
                    [artifactContracts[ref] EXCEPT !.status = IF ref \in retired(old) THEN "retired" ELSE @]]))
        /\ sharedSchemas' = <<next>>

applyMapping(escalations, m) ==
    (escalations \ {[role |-> m.role, class |-> m.source]}) \cup {[role |-> m.role, class |-> m.target]}

\* It is not checked against the packet of now.
applyApprovedReconciliation(c) ==
    /\ c \in DOMAIN reconciliations /\ reconciliations[c].status = "approved"
    /\ IF c.additions = {} THEN UNCHANGED <<artifactContracts, sharedSchemas>>
       ELSE evolveProtocolVocabulary(c.additions)
    /\ roleEscalations' = FoldLeft(applyMapping, roleEscalations, c.mappings)
    /\ reconciliations' = [reconciliations EXCEPT ![c].status = "applied"]
    /\ UNCHANGED <<responsibilities, contextItems, roleContracts, roleHandoffs, requiredRoles,
                   edits, workPackets, batches, proposals, reviews, activations, verdicts>>

-----------------------------------------------------------------------------
editRoleData ==
    /\ edits < MaxEdits /\ edits' = edits + 1 /\ UNCHANGED protocolVars
    /\ \/ \E e \in RoleEdits : setRoleContract(e.role, e.input)
       \/ \E e \in Escalations : addRoleEscalation(e.role, e.class)

\* Agents name a packet that was stored.
assignments == (SUBSET contractFacts(createPacket)) \ {{}}
room == Cardinality(DOMAIN batches) + Cardinality(DOMAIN proposals)
          + Cardinality(DOMAIN reconciliations) < MaxRows

propose ==
    /\ room
    /\ \/ \E s \in Sessions, p \in workPackets : \E contracts \in [contractFacts(p) -> Fragments] :
            ingestProtocolProposalOutput(s, [packet |-> p, contracts |-> contracts])
       \/ \E bs \in SUBSET DOMAIN batches : assembleProtocolProposalBatches(bs)

batch ==
    /\ room
    /\ \E s \in Sessions, given \in workPackets \cup {None} :
         \/ \E refs \in assignments : \E contracts \in [refs -> Fragments] :
              ingestProtocolProposalBatchOutput(s, given, contracts, refs)
         \/ \E source \in DOMAIN batches : \E contracts \in [source.assigned -> Fragments] :
              \E changed \in SUBSET source.assigned :
                ingestProtocolProposalBatchCorrectionOutput(s, given, source, contracts, changed)

reconcile ==
    \/ /\ room
       /\ \E p \in workPackets, s \in Sessions, a \in Additions, m \in Mappings :
            evaluateAndPersistReconciliationProposal(
              [packet |-> p, author |-> s, additions |-> a, mappings |-> m])
    \/ \E c \in DOMAIN reconciliations, s \in Sessions, v \in {"PASS", "FAIL"} :
         evaluateAndPersistReconciliationReview(c, s, v)
    \/ \E c \in DOMAIN reconciliations : applyApprovedReconciliation(c)

Next ==
    \/ editRoleData
    \/ \E v \in Vocabularies : registerProtocolSupport(v)
    \/ createPacket \notin workPackets /\ persistProtocolWorkInspection
    \/ propose
    \/ batch
    \/ \E c \in DOMAIN proposals, s \in Sessions, v \in {"PASS", "FAIL"} : evaluateReview(c, s, v)
    \/ \E c \in DOMAIN proposals : activateApprovedProtocolProposal(c)
    \/ reconcile

Spec == Init /\ [][Next]_vars

-----------------------------------------------------------------------------
(***************************************************************************)
(* Properties.                                                             *)
(***************************************************************************)
\* An active contract that came from a proposal stands on a review that passed
\* it, of a session that wrote none of its batches, and came into force with every
\* other contract of that proposal.
ActivatedWasReviewed ==
    \A ref \in DOMAIN activations :
      LET c == activations[ref]
      IN  /\ ref \in activeSchemas /\ proposals[c].valid /\ proposals[c].status = "applied"
          /\ \E r \in reviews : /\ r.proposal = c /\ r.verdict = "PASS"
                              /\ r.reviewer \notin c.authors \cup {b.author : b \in c.sources}
          /\ \A other \in DOMAIN c.contracts : other \in DOMAIN activations /\ activations[other] = c

\* Whatever is evolved, and however late: a registered vocabulary is in force with
\* its metadata, and no earlier version of it is.
OneVersionInForce ==
    \A i \in DOMAIN sharedSchemas :
      LET ref == sharedSchemas[i]
          versions == {<<ref[1], n>> : n \in 1..ref[2]}
      IN  /\ versions \cap activeSchemas = {ref}
          /\ {metadataRef(v) : v \in versions} \cap activeSchemas = {metadataRef(ref)}

\* What a reconciliation settled stays settled: the classes it mapped to, and those
\* of every retired version, are in the vocabulary in force, through every later
\* evolution and stale application.
SettledEscalationsStaySupported ==
    LET allowed == allowedEscalations(createPacket)
    IN  /\ \A c \in DOMAIN reconciliations :
             reconciliations[c].status = "applied" => targets(c) \subseteq allowed
        /\ \A ref \in DOMAIN artifactContracts \ activeSchemas : vocabulary(ref).classes \subseteq allowed

\* "everything that referred to it is pointed at the new reference"
\* (protocol-evolution.ts:105-111): evolving the vocabulary leaves no active
\* contract with a reference to a retired schema.
ActiveContractsResolve == resolveSchemas

=============================================================================
