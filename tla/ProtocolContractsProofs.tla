----------------------- MODULE ProtocolContractsProofs -----------------------
(***************************************************************************)
(* What holds of ProtocolContracts for all sessions, vocabularies,         *)
(* fragments and mappings: its invariants, by one inductive invariant.     *)
(*                                                                         *)
(* The argument: a contract is only ever added under a reference that is   *)
(* free, so the references of the registered vocabularies and those of the *)
(* activated proposals stay apart, and retiring a vocabulary touches no    *)
(* activated contract.  Every earlier version of a registered vocabulary   *)
(* keeps its row, so a version is never added twice, and its classes are   *)
(* among those in force, so what a reconciliation may use only grows.      *)
(***************************************************************************)
EXTENDS ProtocolContracts, TLAPS

Versions == {v.family : v \in Vocabularies} \X (Nat \ {0})
upTo(ref) == {<<ref[1], n>> : n \in 1..ref[2]}
metadata(refs) == {metadataRef(v) : v \in refs}
classes(ref) == vocabulary(ref).classes

\* The classes of the vocabularies in force.
Allowed == UNION {classes(sharedSchemas[i]) : i \in DOMAIN sharedSchemas}

\* A contract is a row of a status and a schema; a stored proposal one of a verdict
\* of the checks and a status.
RowsOK ==
    /\ \A ref \in DOMAIN artifactContracts :
         LET row == artifactContracts[ref]
         IN  row = [status |-> row.status,
                    schema |-> Schema(row.schema.needs, row.schema.classes, row.schema.defines)]
    /\ \A c \in DOMAIN proposals :
         proposals[c] = [valid |-> proposals[c].valid, status |-> proposals[c].status]
    /\ \A c \in DOMAIN reconciliations :
         reconciliations[c] = [valid |-> reconciliations[c].valid,
                               status |-> reconciliations[c].status]

\* Every version of a registered vocabulary has its row and that of its metadata;
\* those of the last one are active and the earlier ones are not.
VocabulariesOK ==
    /\ sharedSchemas \in Seq(Versions)
    /\ \A i \in DOMAIN sharedSchemas :
         LET ref == sharedSchemas[i]
         IN  /\ upTo(ref) \cup metadata(upTo(ref)) \subseteq DOMAIN artifactContracts
             /\ upTo(ref) \cap activeSchemas = {ref}
             /\ metadata(upTo(ref)) \cap activeSchemas = {metadataRef(ref)}
             /\ classes(metadataRef(ref)) \subseteq classes(ref)

\* What is retired had only classes that are still allowed.
RetiredOK ==
    \A ref \in DOMAIN artifactContracts \ activeSchemas : classes(ref) \subseteq Allowed

\* A review that passed stands behind every proposal that goes further.
ProposalsOK ==
    \A c \in DOMAIN proposals :
      /\ {b.author : b \in c.sources} \subseteq c.authors
      /\ proposals[c].status \in {"approved", "applied"} =>
           /\ proposals[c].valid
           /\ \E r \in reviews : r.proposal = c /\ r.verdict = "PASS" /\ r.reviewer \notin c.authors

\* Activated contracts are those of applied proposals, and no part of a vocabulary.
ActivationsOK ==
    \A ref \in DOMAIN activations :
      /\ ref \in activeSchemas
      /\ activations[ref] \in DOMAIN proposals
      /\ proposals[activations[ref]].status = "applied"
      /\ \A other \in DOMAIN activations[ref].contracts :
           other \in DOMAIN activations /\ activations[other] = activations[ref]
      /\ \A i \in DOMAIN sharedSchemas : ref \notin retired(sharedSchemas[i])

\* What a valid reconciliation maps to is allowed, or will be once it is applied.
ReconciliationsOK ==
    \A c \in DOMAIN reconciliations :
      /\ reconciliations[c].valid => targets(c) \subseteq Allowed \cup c.additions
      /\ reconciliations[c].status \in {"approved", "applied"} => reconciliations[c].valid
      /\ reconciliations[c].status = "applied" => targets(c) \subseteq Allowed

IInv ==
    /\ RowsOK
    /\ VocabulariesOK
    /\ RetiredOK
    /\ ProposalsOK
    /\ ActivationsOK
    /\ ReconciliationsOK

-----------------------------------------------------------------------------
\* Laying rows over a table keeps its other keys, and what a row at one key is.
LEMMA Laying ==
  ASSUME NEW rows, NEW table
  PROVE  /\ DOMAIN over(rows, table) = DOMAIN table \cup DOMAIN rows
         /\ \A k \in DOMAIN rows : over(rows, table)[k] = rows[k]
         /\ \A k \in DOMAIN table \ DOMAIN rows : over(rows, table)[k] = table[k]
  BY DEF over

\* A table with one row.
LEMMA OneRow ==
  ASSUME NEW key, NEW row
  PROVE  DOMAIN one(key, row) = {key} /\ one(key, row)[key] = row
  BY DEF one

\* While every registered vocabulary is active, a packet allows what they list.
LEMMA AllowedByPacket ==
  ASSUME VocabulariesOK
  PROVE  allowedEscalations(createPacket) = Allowed
<1>1. \A i \in DOMAIN sharedSchemas : sharedSchemas[i] \in activeSchemas
  BY DEF VocabulariesOK
<1>2. loadSharedSchemas =
        [i \in DOMAIN sharedSchemas |->
           [ref |-> sharedSchemas[i], schema |-> artifactContracts[sharedSchemas[i]].schema]]
  BY <1>1 DEF loadSharedSchemas
<1>3. createPacket.shared = loadSharedSchemas
  BY DEF createPacket
<1> QED
  BY <1>2, <1>3 DEF allowedEscalations, Allowed, classes, vocabulary

\* A last version is one of its versions, and the versions of the next are one more.
LEMMA Upwards ==
  ASSUME NEW ref \in Versions
  PROVE  /\ ref \in upTo(ref)
         /\ versionBump(ref) \in Versions
         /\ upTo(versionBump(ref)) = upTo(ref) \cup {versionBump(ref)}
<1>1. PICK f \in {v.family : v \in Vocabularies}, n \in Nat \ {0} : ref = <<f, n>>
  BY DEF Versions
<1>2. ref[1] = f /\ ref[2] = n
  BY <1>1
<1>3. ref \in upTo(ref)
  BY <1>1, <1>2 DEF upTo
<1>4. versionBump(ref) = <<f, n + 1>>
  BY <1>2 DEF versionBump
<1>5. upTo(ref) = {<<f, m>> : m \in 1..n} /\ upTo(<<f, n + 1>>) = {<<f, m>> : m \in 1..(n + 1)}
  BY <1>2 DEF upTo
<1>6. 1..(n + 1) = (1..n) \cup {n + 1}
  BY <1>1
<1> QED
  BY <1>3, <1>4, <1>5, <1>6, SMT DEF Versions

\* The invariant holds at the start.
LEMMA InitOK ==
  ASSUME Init PROVE IInv
<1>1. DOMAIN << >> = {}
  OBVIOUS
<1>2. /\ DOMAIN artifactContracts = {} /\ DOMAIN proposals = {} /\ DOMAIN reconciliations = {}
      /\ DOMAIN activations = {} /\ DOMAIN sharedSchemas = {} /\ sharedSchemas \in Seq(Versions)
  BY <1>1 DEF Init
<1> QED
  BY <1>2 DEF IInv, RowsOK, VocabulariesOK, RetiredOK, ProposalsOK, ActivationsOK, ReconciliationsOK

\* What the invariant is about stays in every step that only adds packets, batches or
\* role data.
LEMMA Aside ==
  ASSUME IInv,
         UNCHANGED <<artifactContracts, sharedSchemas, proposals, reviews, activations,
                     reconciliations>>
  PROVE  IInv'
<1> QED
  BY DEF IInv, RowsOK, VocabulariesOK, RetiredOK, ProposalsOK, ActivationsOK, ReconciliationsOK,
         activeSchemas, classes, vocabulary, Allowed

\* The properties follow from the invariant.
LEMMA FromInvariant ==
  ASSUME IInv
  PROVE  ActivatedWasReviewed /\ OneVersionInForce /\ SettledEscalationsStaySupported
<1>1. ActivatedWasReviewed
  <2> SUFFICES ASSUME NEW ref \in DOMAIN activations
               PROVE  LET c == activations[ref]
                      IN  /\ ref \in activeSchemas
                          /\ proposals[c].valid /\ proposals[c].status = "applied"
                          /\ \E r \in reviews :
                               /\ r.proposal = c /\ r.verdict = "PASS"
                               /\ r.reviewer \notin c.authors \cup {b.author : b \in c.sources}
                          /\ \A other \in DOMAIN c.contracts :
                               other \in DOMAIN activations /\ activations[other] = c
    BY DEF ActivatedWasReviewed
  <2> DEFINE c == activations[ref]
  <2>1. /\ ref \in activeSchemas /\ c \in DOMAIN proposals /\ proposals[c].status = "applied"
        /\ \A other \in DOMAIN c.contracts : other \in DOMAIN activations /\ activations[other] = c
    BY DEF IInv, ActivationsOK
  <2>2. /\ {b.author : b \in c.sources} \subseteq c.authors /\ proposals[c].valid
        /\ \E r \in reviews : r.proposal = c /\ r.verdict = "PASS" /\ r.reviewer \notin c.authors
    BY <2>1 DEF IInv, ProposalsOK
  <2> QED
    BY <2>1, <2>2
<1>2. OneVersionInForce
  BY DEF IInv, VocabulariesOK, OneVersionInForce, upTo, metadata
<1>3. SettledEscalationsStaySupported
  BY AllowedByPacket
     DEF IInv, ReconciliationsOK, RetiredOK, SettledEscalationsStaySupported, classes
<1> QED
  BY <1>1, <1>2, <1>3
-----------------------------------------------------------------------------
\* While the contracts stay, so does all that is said of the vocabularies.
LEMMA ContractsStay ==
  ASSUME IInv, UNCHANGED <<artifactContracts, sharedSchemas>>
  PROVE  /\ VocabulariesOK' /\ RetiredOK' /\ Allowed' = Allowed /\ activeSchemas' = activeSchemas
         /\ \A ref \in DOMAIN artifactContracts' :
              LET row == artifactContracts'[ref]
              IN  row = [status |-> row.status,
                         schema |-> Schema(row.schema.needs, row.schema.classes, row.schema.defines)]
  BY DEF IInv, RowsOK, VocabulariesOK, RetiredOK, activeSchemas, classes, vocabulary, Allowed

\* A proposal is added with its verdict, unless it is there already.
LEMMA ProposalIsAdded ==
  ASSUME IInv, NEW content, NEW valid,
         {b.author : b \in content.sources} \subseteq content.authors,
         proposals' = over(proposals, one(content, [valid |-> valid, status |-> "evaluated"])),
         UNCHANGED <<artifactContracts, sharedSchemas, reviews, activations, reconciliations>>
  PROVE  IInv'
<1> DEFINE row == [valid |-> valid, status |-> "evaluated"]
           known == one(content, row)
<1>1. DOMAIN known = {content} /\ known[content] = row
  BY OneRow
<1>2. /\ DOMAIN proposals' = DOMAIN proposals \cup {content}
      /\ \A c \in DOMAIN proposals : proposals'[c] = proposals[c]
      /\ content \in DOMAIN proposals \/ proposals'[content] = row
  <2>1. proposals' = over(proposals, known)
    OBVIOUS
  <2> HIDE DEF known, row
  <2>2. /\ DOMAIN over(proposals, known) = DOMAIN known \cup DOMAIN proposals
        /\ \A k \in DOMAIN proposals : over(proposals, known)[k] = proposals[k]
        /\ \A k \in DOMAIN known \ DOMAIN proposals : over(proposals, known)[k] = known[k]
    BY DEF over
  <2> QED BY <1>1, <2>1, <2>2
<1>3. row.valid = valid /\ row.status = "evaluated"
  OBVIOUS
<1>4. RowsOK'
  BY <1>2, <1>3, ContractsStay DEF RowsOK, IInv
<1>5. ProposalsOK'
  <2> HIDE DEF row
  <2> SUFFICES ASSUME NEW c \in DOMAIN proposals'
               PROVE  /\ {b.author : b \in c.sources} \subseteq c.authors
                      /\ proposals'[c].status \in {"approved", "applied"} =>
                           /\ proposals'[c].valid
                           /\ \E r \in reviews : r.proposal = c /\ r.verdict = "PASS"
                                                   /\ r.reviewer \notin c.authors
    BY DEF ProposalsOK
  <2>1. CASE c \in DOMAIN proposals
    BY <2>1, <1>2 DEF IInv, ProposalsOK
  <2>2. CASE c \notin DOMAIN proposals
    BY <2>2, <1>2, <1>3
  <2> QED BY <2>1, <2>2
<1>6. ActivationsOK'
  BY <1>2, ContractsStay DEF ActivationsOK, IInv
<1>7. ReconciliationsOK'
  BY ContractsStay DEF ReconciliationsOK, IInv
<1> QED
  BY <1>4, <1>5, <1>6, <1>7, ContractsStay DEF IInv

\* A whole proposal has one author and no batches.
LEMMA WholeProposal ==
  ASSUME IInv, NEW session, NEW p, NEW contracts,
         ingestProtocolProposalOutput(session, [packet |-> p, contracts |-> contracts])
  PROVE  IInv'
<1> DEFINE value == [packet |-> p, contracts |-> contracts]
           content == over([authors |-> {session}, sources |-> {}], value)
<1>1. content.authors = {session} /\ content.sources = {}
  BY DEF over
<1>2. /\ proposals' = over(proposals, one(content, [valid |-> checkProtocolProposal(value),
                                                   status |-> "evaluated"]))
      /\ UNCHANGED <<roleVars, edits, sharedSchemas, batches, reviews, activations,
                     reconciliations, verdicts>>
  BY DEF ingestProtocolProposalOutput, evaluateAndPersistAssembledProtocolProposal
<1>3. UNCHANGED <<artifactContracts, sharedSchemas, reviews, activations, reconciliations>>
  BY <1>2 DEF roleVars
<1> HIDE DEF content, value
<1> QED
  BY <1>1, <1>2, <1>3, ProposalIsAdded

\* The authors of an assembled proposal are those of its batches.
LEMMA AssembledProposal ==
  ASSUME IInv, NEW bs, assembleProtocolProposalBatches(bs)
  PROVE  IInv'
<1> DEFINE value == [packet |-> createPacket, contracts |-> indexContracts(bs)]
           content == over([authors |-> {b.author : b \in bs}, sources |-> bs], value)
<1>1. content.authors = {b.author : b \in bs} /\ content.sources = bs
  BY DEF over
<1>2. /\ proposals' = over(proposals, one(content, [valid |-> checkProtocolProposal(value),
                                                   status |-> "evaluated"]))
      /\ UNCHANGED <<roleVars, edits, sharedSchemas, batches, reviews, activations,
                     reconciliations, verdicts>>
  BY DEF assembleProtocolProposalBatches, evaluateAndPersistAssembledProtocolProposal
<1>3. UNCHANGED <<artifactContracts, sharedSchemas, reviews, activations, reconciliations>>
  BY <1>2 DEF roleVars
<1> HIDE DEF content, value
<1> QED
  BY <1>1, <1>2, <1>3, ProposalIsAdded

\* Of a proposal or a reconciliation only the status changes, and only to this one.
LEMMA StatusIsSet ==
  ASSUME NEW table, NEW c \in DOMAIN table, NEW status, NEW set,
         table[c] = [valid |-> table[c].valid, status |-> table[c].status],
         set = [table EXCEPT ![c].status = status]
  PROVE  /\ DOMAIN set = DOMAIN table
         /\ set[c] = [valid |-> table[c].valid, status |-> status]
         /\ \A d \in DOMAIN table : d # c => set[d] = table[d]
  OBVIOUS

\* A review is of somebody else, and stays.
LEMMA ProposalIsReviewed ==
  ASSUME IInv, NEW c, NEW reviewer, NEW verdict, evaluateReview(c, reviewer, verdict)
  PROVE  IInv'
<1> DEFINE review == [proposal |-> c, reviewer |-> reviewer, verdict |-> verdict]
           status == verdictStatus(verdict)
<1>1. /\ c \in DOMAIN proposals /\ proposals[c].valid /\ proposals[c].status = "evaluated"
      /\ reviewer \notin c.authors
      /\ reviews' = reviews \cup {review}
      /\ proposals' = [proposals EXCEPT ![c].status = status]
      /\ UNCHANGED <<artifactContracts, sharedSchemas, activations, reconciliations>>
  BY DEF evaluateReview, relationshipViolations, persistAcceptedReview, roleVars
<1>2. /\ DOMAIN proposals' = DOMAIN proposals
      /\ proposals'[c] = [valid |-> proposals[c].valid, status |-> status]
      /\ \A d \in DOMAIN proposals : d # c => proposals'[d] = proposals[d]
  <2>1. proposals[c] = [valid |-> proposals[c].valid, status |-> proposals[c].status]
    BY <1>1 DEF IInv, RowsOK
  <2> HIDE DEF status
  <2> QED BY <1>1, <2>1, StatusIsSet
<1>3. /\ status = "approved" => verdict = "PASS"
      /\ status # "applied"
      /\ review.proposal = c /\ review.verdict = verdict /\ review.reviewer = reviewer
  BY DEF verdictStatus
<1> HIDE DEF review, status
<1>4. RowsOK'
  BY <1>1, <1>2, ContractsStay DEF RowsOK, IInv
<1>5. ProposalsOK'
  <2> SUFFICES ASSUME NEW d \in DOMAIN proposals'
               PROVE  /\ {b.author : b \in d.sources} \subseteq d.authors
                      /\ proposals'[d].status \in {"approved", "applied"} =>
                           /\ proposals'[d].valid
                           /\ \E r \in reviews' : r.proposal = d /\ r.verdict = "PASS"
                                                    /\ r.reviewer \notin d.authors
    BY DEF ProposalsOK
  <2>1. CASE d # c
    BY <2>1, <1>1, <1>2 DEF IInv, ProposalsOK
  <2>2. CASE d = c
    BY <2>2, <1>1, <1>2, <1>3 DEF IInv, ProposalsOK
  <2> QED BY <2>1, <2>2
<1>6. ActivationsOK'
  <2>1. \A d \in DOMAIN proposals : proposals[d].status = "applied" => proposals'[d] = proposals[d]
    BY <1>1, <1>2
  <2>2. activeSchemas' = activeSchemas
    BY <1>1, ContractsStay
  <2>3. UNCHANGED <<activations, sharedSchemas>> /\ ActivationsOK
    BY <1>1 DEF IInv
  <2> QED BY <1>2, <2>1, <2>2, <2>3 DEF ActivationsOK
<1>7. ReconciliationsOK'
  BY <1>1, ContractsStay DEF ReconciliationsOK, IInv
<1> QED
  BY <1>1, <1>4, <1>5, <1>6, <1>7, ContractsStay DEF IInv
-----------------------------------------------------------------------------
\* Rows are added under references that were free.
RowsAreNew(new, made) ==
    /\ new \cap DOMAIN artifactContracts = {}
    /\ DOMAIN artifactContracts' = DOMAIN artifactContracts \cup new
    /\ \A ref \in new :
         /\ artifactContracts'[ref] = activeRow(made[ref])
         /\ made[ref] = Schema(made[ref].needs, made[ref].classes, made[ref].defines)
    /\ \A ref \in DOMAIN artifactContracts : artifactContracts'[ref] = artifactContracts[ref]

\* The rows are active, and the registered vocabularies are as they were.
VocabulariesStand(new) ==
    /\ activeSchemas' = activeSchemas \cup new
    /\ \A ref \in DOMAIN artifactContracts' :
         LET row == artifactContracts'[ref]
         IN  row = [status |-> row.status,
                    schema |-> Schema(row.schema.needs, row.schema.classes, row.schema.defines)]
    /\ \A i \in DOMAIN sharedSchemas :
         LET ref == sharedSchemas[i]
         IN  /\ upTo(ref) \cup metadata(upTo(ref)) \subseteq DOMAIN artifactContracts'
             /\ upTo(ref) \cap activeSchemas' = {ref}
             /\ metadata(upTo(ref)) \cap activeSchemas' = {metadataRef(ref)}
             /\ artifactContracts'[ref] = artifactContracts[ref]
             /\ artifactContracts'[metadataRef(ref)] = artifactContracts[metadataRef(ref)]
    /\ DOMAIN artifactContracts' \ activeSchemas' = DOMAIN artifactContracts \ activeSchemas

\* Rows added under free references are active, and disturb no vocabulary.
LEMMA RowsAreAdded ==
  ASSUME IInv, NEW new, NEW made, RowsAreNew(new, made)
  PROVE  VocabulariesStand(new)
<1>0. /\ new \cap DOMAIN artifactContracts = {}
      /\ DOMAIN artifactContracts' = DOMAIN artifactContracts \cup new
      /\ \A ref \in new :
           /\ artifactContracts'[ref] = activeRow(made[ref])
           /\ made[ref] = Schema(made[ref].needs, made[ref].classes, made[ref].defines)
      /\ \A ref \in DOMAIN artifactContracts : artifactContracts'[ref] = artifactContracts[ref]
  BY DEF RowsAreNew
<1>1. \A ref \in new : /\ artifactContracts'[ref].status = "active"
                       /\ artifactContracts'[ref].schema = made[ref]
  BY <1>0 DEF activeRow
<1>2. activeSchemas' = activeSchemas \cup new
  BY <1>0, <1>1 DEF activeSchemas
<1>3. \A ref \in DOMAIN artifactContracts' :
              LET row == artifactContracts'[ref]
              IN  row = [status |-> row.status,
                         schema |-> Schema(row.schema.needs, row.schema.classes, row.schema.defines)]
  <2> SUFFICES ASSUME NEW ref \in DOMAIN artifactContracts'
               PROVE  LET row == artifactContracts'[ref]
                      IN  row = [status |-> row.status,
                                 schema |-> Schema(row.schema.needs, row.schema.classes,
                                                   row.schema.defines)]
    OBVIOUS
  <2>1. CASE ref \in DOMAIN artifactContracts
    BY <2>1, <1>0 DEF IInv, RowsOK
  <2>2. CASE ref \in new
    BY <2>2, <1>0, <1>1 DEF activeRow
  <2> QED BY <2>1, <2>2, <1>0
<1>4. ASSUME NEW i \in DOMAIN sharedSchemas
      PROVE  LET ref == sharedSchemas[i]
              IN  /\ upTo(ref) \cup metadata(upTo(ref)) \subseteq DOMAIN artifactContracts'
                  /\ upTo(ref) \cap activeSchemas' = {ref}
                  /\ metadata(upTo(ref)) \cap activeSchemas' = {metadataRef(ref)}
                  /\ artifactContracts'[ref] = artifactContracts[ref]
                  /\ artifactContracts'[metadataRef(ref)] = artifactContracts[metadataRef(ref)]
  <2> DEFINE ref == sharedSchemas[i]
  <2>1. /\ upTo(ref) \cup metadata(upTo(ref)) \subseteq DOMAIN artifactContracts
        /\ upTo(ref) \cap activeSchemas = {ref}
        /\ metadata(upTo(ref)) \cap activeSchemas = {metadataRef(ref)}
    BY DEF IInv, VocabulariesOK
  <2> QED
    BY <2>1, <1>0, <1>2
<1>5. activeSchemas \subseteq DOMAIN artifactContracts
  BY DEF activeSchemas
<1> QED
  BY <1>0, <1>2, <1>3, <1>4, <1>5 DEF VocabulariesStand

\* An approved proposal is applied: its contracts come into force together.
LEMMA ProposalIsActivated ==
  ASSUME IInv, NEW c, activateApprovedProtocolProposal(c)
  PROVE  IInv'
<1> DEFINE new == DOMAIN c.contracts
           made == [ref \in new |-> composeSchema(createPacket, ref, c.contracts[ref])]
           rows == [ref \in new |-> activeRow(made[ref])]
           from == [ref \in new |-> c]
<1>1. /\ c \in DOMAIN proposals /\ proposals[c].status = "approved"
      /\ new \cap DOMAIN artifactContracts = {}
      /\ artifactContracts' = over(rows, artifactContracts)
      /\ activations' = over(from, activations)
      /\ proposals' = [proposals EXCEPT ![c].status = "applied"]
      /\ UNCHANGED <<sharedSchemas, reviews, reconciliations>>
  BY DEF activateApprovedProtocolProposal
<1>2. /\ DOMAIN artifactContracts' = DOMAIN artifactContracts \cup new
      /\ \A ref \in new : artifactContracts'[ref] = activeRow(made[ref])
      /\ \A ref \in DOMAIN artifactContracts : artifactContracts'[ref] = artifactContracts[ref]
  <2> HIDE DEF made
  <2> QED BY <1>1 DEF over
<1>3. \A ref \in new : made[ref] = Schema(made[ref].needs, made[ref].classes, made[ref].defines)
  BY DEF composeSchema, Schema
<1>4. /\ DOMAIN activations' = DOMAIN activations \cup new
      /\ \A ref \in new : activations'[ref] = c
      /\ \A ref \in DOMAIN activations \ new : activations'[ref] = activations[ref]
  BY <1>1 DEF over
<1>5. /\ DOMAIN proposals' = DOMAIN proposals
      /\ proposals'[c] = [valid |-> proposals[c].valid, status |-> "applied"]
      /\ \A d \in DOMAIN proposals : d # c => proposals'[d] = proposals[d]
  <2>1. proposals[c] = [valid |-> proposals[c].valid, status |-> proposals[c].status]
    BY <1>1 DEF IInv, RowsOK
  <2> QED BY <1>1, <2>1, StatusIsSet
<1>6. DOMAIN activations \cap new = {}
  BY <1>1 DEF IInv, ActivationsOK, activeSchemas
<1> HIDE DEF made, rows, from
<1>15. VocabulariesStand(new)
  <2>1. RowsAreNew(new, made)
    BY <1>1, <1>2, <1>3 DEF RowsAreNew
  <2> QED BY <2>1, RowsAreAdded
<1>7. /\ activeSchemas' = activeSchemas \cup new
      /\ \A ref \in DOMAIN artifactContracts' :
              LET row == artifactContracts'[ref]
              IN  row = [status |-> row.status,
                         schema |-> Schema(row.schema.needs, row.schema.classes, row.schema.defines)]
      /\ \A i \in DOMAIN sharedSchemas :
              LET ref == sharedSchemas[i]
              IN  /\ upTo(ref) \cup metadata(upTo(ref)) \subseteq DOMAIN artifactContracts'
                  /\ upTo(ref) \cap activeSchemas' = {ref}
                  /\ metadata(upTo(ref)) \cap activeSchemas' = {metadataRef(ref)}
                  /\ artifactContracts'[ref] = artifactContracts[ref]
                  /\ artifactContracts'[metadataRef(ref)] = artifactContracts[metadataRef(ref)]
      /\ DOMAIN artifactContracts' \ activeSchemas' = DOMAIN artifactContracts \ activeSchemas
  BY <1>15 DEF VocabulariesStand
<1>8. RowsOK'
  BY <1>1, <1>5, <1>7 DEF RowsOK, IInv
<1>9. VocabulariesOK'
  BY <1>1, <1>7 DEF IInv, VocabulariesOK, classes, vocabulary
<1>10. Allowed' = Allowed
  BY <1>1, <1>7 DEF Allowed, classes, vocabulary
<1>11. RetiredOK'
  BY <1>2, <1>7, <1>10 DEF IInv, RetiredOK, classes, vocabulary
<1>12. ProposalsOK'
  <2> SUFFICES ASSUME NEW d \in DOMAIN proposals'
               PROVE  /\ {b.author : b \in d.sources} \subseteq d.authors
                      /\ proposals'[d].status \in {"approved", "applied"} =>
                           /\ proposals'[d].valid
                           /\ \E r \in reviews : r.proposal = d /\ r.verdict = "PASS"
                                                   /\ r.reviewer \notin d.authors
    BY <1>1 DEF ProposalsOK
  <2>1. /\ {b.author : b \in d.sources} \subseteq d.authors
        /\ proposals[d].status \in {"approved", "applied"} =>
             /\ proposals[d].valid
             /\ \E r \in reviews : r.proposal = d /\ r.verdict = "PASS" /\ r.reviewer \notin d.authors
    BY <1>5 DEF IInv, ProposalsOK
  <2>2. /\ proposals'[d].status \in {"approved", "applied"}
             => proposals[d].status \in {"approved", "applied"}
        /\ proposals'[d].valid = proposals[d].valid
    <3>1. CASE d = c
      BY <1>1, <1>5, <3>1
    <3>2. CASE d # c
      BY <1>5, <3>2
    <3> QED BY <3>1, <3>2
  <2> QED BY <2>1, <2>2
<1>13. ActivationsOK'
  <2> SUFFICES ASSUME NEW ref \in DOMAIN activations'
               PROVE  /\ ref \in activeSchemas'
                      /\ activations'[ref] \in DOMAIN proposals'
                      /\ proposals'[activations'[ref]].status = "applied"
                      /\ \A other \in DOMAIN activations'[ref].contracts :
                           other \in DOMAIN activations' /\ activations'[other] = activations'[ref]
                      /\ \A i \in DOMAIN sharedSchemas : ref \notin retired(sharedSchemas[i])
    BY <1>1 DEF ActivationsOK
  <2>1. CASE ref \in new
    <3>1. \A i \in DOMAIN sharedSchemas : retired(sharedSchemas[i]) \subseteq DOMAIN artifactContracts
      BY DEF IInv, VocabulariesOK, retired, activeSchemas
    <3> QED
      BY <2>1, <3>1, <1>1, <1>4, <1>5, <1>7
  <2>2. CASE ref \in DOMAIN activations /\ ref \notin new
    <3> DEFINE d == activations[ref]
    <3>1. /\ ref \in activeSchemas /\ d \in DOMAIN proposals /\ proposals[d].status = "applied"
          /\ \A other \in DOMAIN d.contracts : other \in DOMAIN activations /\ activations[other] = d
          /\ \A i \in DOMAIN sharedSchemas : ref \notin retired(sharedSchemas[i])
      BY <2>2 DEF IInv, ActivationsOK
    <3>2. activations'[ref] = d /\ d # c
      BY <2>2, <3>1, <1>1, <1>4
    <3>3. proposals'[d].status = "applied"
      BY <3>1, <3>2, <1>5
    <3>4. \A other \in DOMAIN d.contracts : other \in DOMAIN activations' /\ activations'[other] = d
      BY <3>1, <1>4, <1>6
    <3> QED BY <3>1, <3>2, <3>3, <3>4, <1>5, <1>7
  <2> QED BY <2>1, <2>2, <1>4
<1>14. ReconciliationsOK'
  BY <1>1, <1>10 DEF IInv, ReconciliationsOK
<1> QED
  BY <1>8, <1>9, <1>11, <1>12, <1>13, <1>14 DEF IInv
-----------------------------------------------------------------------------
\* A vocabulary is registered with its metadata, in its first version.
LEMMA SupportIsRegistered ==
  ASSUME IInv, NEW v \in Vocabularies, registerProtocolSupport(v)
  PROVE  IInv'
<1> DEFINE ref == <<v.family, 1>>
           meta == metadataRef(ref)
           new == {ref, meta}
           given == Schema({}, v.classes, v.defines)
           made == [r \in new |-> IF r = ref THEN given ELSE Schema({}, {}, {})]
<1>1. /\ new \cap DOMAIN artifactContracts = {}
      /\ artifactContracts' =
           over(one(ref, activeRow(given)),
             over(one(meta, activeRow(Schema({}, {}, {}))), artifactContracts))
      /\ sharedSchemas' = Append(sharedSchemas, ref)
      /\ UNCHANGED <<proposals, reviews, activations, reconciliations>>
  BY DEF registerProtocolSupport
<1>2. ref \in Versions /\ upTo(ref) = {ref}
  BY DEF Versions, upTo
<1> HIDE DEF ref, meta, given
<1>3. /\ made[ref] = given
      /\ \A r \in new : made[r] = IF r = ref THEN given ELSE Schema({}, {}, {})
  OBVIOUS
<1>4. RowsAreNew(new, made)
  <2>1. \A r \in new : made[r] = Schema(made[r].needs, made[r].classes, made[r].defines)
    BY <1>3 DEF given, Schema
  <2>2. /\ DOMAIN artifactContracts' = DOMAIN artifactContracts \cup new
        /\ \A r \in new : artifactContracts'[r] =
             IF r = ref THEN activeRow(given) ELSE activeRow(Schema({}, {}, {}))
        /\ \A r \in DOMAIN artifactContracts : artifactContracts'[r] = artifactContracts[r]
    BY <1>1 DEF over, one
  <2> QED
    BY <1>1, <1>3, <2>1, <2>2 DEF RowsAreNew
<1>5. VocabulariesStand(new)
  BY <1>4, RowsAreAdded
<1>6. /\ activeSchemas' = activeSchemas \cup new
      /\ artifactContracts'[ref] = activeRow(made[ref])
      /\ artifactContracts'[meta] = activeRow(made[meta])
      /\ new \subseteq DOMAIN artifactContracts'
  BY <1>4, <1>5 DEF RowsAreNew, VocabulariesStand
<1>7. metadata(upTo(ref)) = {meta}
  BY <1>2 DEF metadata, meta
<1>8. artifactContracts'[meta].schema.classes \subseteq artifactContracts'[ref].schema.classes
  <2>1. meta = ref \/ made[meta] = Schema({}, {}, {})
    BY <1>3
  <2>2. meta = ref \/ made[meta].classes = {}
    BY <2>1 DEF Schema
  <2>3. artifactContracts'[meta].schema = made[meta]
    BY <1>6 DEF activeRow
  <2> QED BY <2>2, <2>3
<1>9. /\ sharedSchemas' \in Seq(Versions)
      /\ DOMAIN sharedSchemas' = DOMAIN sharedSchemas \cup {Len(sharedSchemas) + 1}
      /\ sharedSchemas'[Len(sharedSchemas) + 1] = ref
      /\ \A i \in DOMAIN sharedSchemas : sharedSchemas'[i] = sharedSchemas[i]
  <2>1. sharedSchemas \in Seq(Versions)
    BY DEF IInv, VocabulariesOK
  <2> QED BY <2>1, <1>1, <1>2
<1>10. VocabulariesOK'
  <2> SUFFICES ASSUME NEW i \in DOMAIN sharedSchemas'
               PROVE  LET r == sharedSchemas'[i]
                      IN  /\ upTo(r) \cup metadata(upTo(r)) \subseteq DOMAIN artifactContracts'
                          /\ upTo(r) \cap activeSchemas' = {r}
                          /\ metadata(upTo(r)) \cap activeSchemas' = {metadataRef(r)}
                          /\ artifactContracts'[metadataRef(r)].schema.classes
                               \subseteq artifactContracts'[r].schema.classes
    BY <1>9 DEF VocabulariesOK, classes, vocabulary
  <2>1. CASE i \in DOMAIN sharedSchemas
    BY <2>1, <1>5, <1>9 DEF IInv, VocabulariesOK, VocabulariesStand, classes, vocabulary
  <2>2. CASE i = Len(sharedSchemas) + 1
    BY <2>2, <1>2, <1>6, <1>7, <1>8, <1>9 DEF meta
  <2> QED BY <2>1, <2>2, <1>9
<1>11. Allowed \subseteq Allowed'
  BY <1>5, <1>9 DEF Allowed, classes, vocabulary, VocabulariesStand
<1>12. RetiredOK'
  <2>1. \A r \in DOMAIN artifactContracts : artifactContracts'[r] = artifactContracts[r]
    BY <1>4 DEF RowsAreNew
  <2> QED
    BY <2>1, <1>5, <1>11 DEF IInv, RetiredOK, VocabulariesStand, classes, vocabulary
<1>13. ActivationsOK'
  <2>1. \A r \in DOMAIN activations : r \notin new
    BY <1>1 DEF IInv, ActivationsOK, activeSchemas
  <2>2. retired(ref) = new
    BY DEF retired, meta
  <2> QED
    BY <2>1, <2>2, <1>1, <1>6, <1>9 DEF IInv, ActivationsOK
<1>14. RowsOK' /\ ProposalsOK' /\ ReconciliationsOK'
  BY <1>1, <1>5, <1>11 DEF IInv, RowsOK, VocabulariesStand, ProposalsOK, ReconciliationsOK
<1> QED
  BY <1>10, <1>12, <1>13, <1>14 DEF IInv

-----------------------------------------------------------------------------
\* A reconciliation is valid when it maps to what is allowed or will be.
LEMMA ReconciliationIsAdded ==
  ASSUME IInv, NEW c, evaluateAndPersistReconciliationProposal(c)
  PROVE  IInv'
<1> DEFINE row == [valid |-> ~ proposalViolations(c, createPacket), status |-> "evaluated"]
<1>1. /\ reconciliations' = over(reconciliations, one(c, row))
      /\ UNCHANGED <<artifactContracts, sharedSchemas, proposals, reviews, activations>>
  BY DEF evaluateAndPersistReconciliationProposal, roleVars
<1>2. row.valid => targets(c) \subseteq Allowed \cup c.additions
  BY AllowedByPacket DEF proposalViolations, IInv
<1>3. row = [valid |-> row.valid, status |-> row.status] /\ row.status = "evaluated"
  OBVIOUS
<1> HIDE DEF row
<1>4. /\ DOMAIN reconciliations' = DOMAIN reconciliations \cup {c}
      /\ \A d \in DOMAIN reconciliations : reconciliations'[d] = reconciliations[d]
      /\ c \in DOMAIN reconciliations \/ reconciliations'[c] = row
  BY <1>1 DEF over, one
<1>5. Allowed' = Allowed
  BY <1>1, ContractsStay
<1>6. ReconciliationsOK'
  <2> SUFFICES ASSUME NEW d \in DOMAIN reconciliations'
               PROVE  /\ reconciliations'[d].valid => targets(d) \subseteq Allowed \cup d.additions
                      /\ reconciliations'[d].status \in {"approved", "applied"}
                           => reconciliations'[d].valid
                      /\ reconciliations'[d].status = "applied" => targets(d) \subseteq Allowed
    BY <1>5 DEF ReconciliationsOK
  <2>1. CASE d \in DOMAIN reconciliations
    BY <2>1, <1>4 DEF IInv, ReconciliationsOK
  <2>2. CASE d \notin DOMAIN reconciliations
    BY <2>2, <1>2, <1>3, <1>4
  <2> QED BY <2>1, <2>2
<1>7. RowsOK'
  BY <1>1, <1>3, <1>4 DEF IInv, RowsOK
<1>8. ProposalsOK' /\ ActivationsOK'
  BY <1>1, ContractsStay DEF IInv, ProposalsOK, ActivationsOK
<1> QED
  BY <1>1, <1>6, <1>7, <1>8, ContractsStay DEF IInv

\* Only a valid one is reviewed.
LEMMA ReconciliationIsReviewed ==
  ASSUME IInv, NEW c, NEW reviewer, NEW verdict,
         evaluateAndPersistReconciliationReview(c, reviewer, verdict)
  PROVE  IInv'
<1> DEFINE status == verdictStatus(verdict)
<1>1. /\ c \in DOMAIN reconciliations /\ reconciliations[c].valid
      /\ reconciliations' = [reconciliations EXCEPT ![c].status = status]
      /\ UNCHANGED <<artifactContracts, sharedSchemas, proposals, reviews, activations>>
  BY DEF evaluateAndPersistReconciliationReview, storedProposalViolations, roleVars
<1>2. status # "applied"
  BY DEF verdictStatus
<1> HIDE DEF status
<1>3. /\ DOMAIN reconciliations' = DOMAIN reconciliations
      /\ reconciliations'[c] = [valid |-> reconciliations[c].valid, status |-> status]
      /\ \A d \in DOMAIN reconciliations : d # c => reconciliations'[d] = reconciliations[d]
  <2>1. reconciliations[c] = [valid |-> reconciliations[c].valid, status |-> reconciliations[c].status]
    BY <1>1 DEF IInv, RowsOK
  <2> QED BY <1>1, <2>1, StatusIsSet
<1>4. Allowed' = Allowed
  BY <1>1, ContractsStay
<1>5. ReconciliationsOK'
  <2> SUFFICES ASSUME NEW d \in DOMAIN reconciliations
               PROVE  /\ reconciliations'[d].valid => targets(d) \subseteq Allowed \cup d.additions
                      /\ reconciliations'[d].status \in {"approved", "applied"} => reconciliations'[d].valid
                      /\ reconciliations'[d].status = "applied" => targets(d) \subseteq Allowed
    BY <1>3, <1>4 DEF ReconciliationsOK
  <2>1. /\ reconciliations[d].valid => targets(d) \subseteq Allowed \cup d.additions
        /\ reconciliations[d].status \in {"approved", "applied"} => reconciliations[d].valid
        /\ reconciliations[d].status = "applied" => targets(d) \subseteq Allowed
    BY DEF IInv, ReconciliationsOK
  <2>2. CASE d = c
    BY <1>1, <1>2, <1>3, <2>1, <2>2
  <2>3. CASE d # c
    BY <1>3, <2>1, <2>3
  <2> QED BY <2>2, <2>3
<1>6. RowsOK'
  BY <1>1, <1>3 DEF IInv, RowsOK
<1>7. ProposalsOK' /\ ActivationsOK'
  BY <1>1, ContractsStay DEF IInv, ProposalsOK, ActivationsOK
<1> QED
  BY <1>1, <1>5, <1>6, <1>7, ContractsStay DEF IInv
-----------------------------------------------------------------------------
\* Evolved, the one vocabulary allows what it did and the additions; only its own
\* rows are retired, and its next version takes references that were free.
LEMMA VocabularyEvolves ==
  ASSUME IInv, NEW additions, evolveProtocolVocabulary(additions)
  PROVE  /\ VocabulariesOK' /\ RetiredOK'
         /\ Allowed \cup additions \subseteq Allowed'
         /\ \A ref \in DOMAIN artifactContracts' :
              LET row == artifactContracts'[ref]
              IN  row = [status |-> row.status,
                         schema |-> Schema(row.schema.needs, row.schema.classes, row.schema.defines)]
         /\ \A ref \in activeSchemas :
              ref \in activeSchemas' \/ \E i \in DOMAIN sharedSchemas : ref \in retired(sharedSchemas[i])
         /\ \A i \in DOMAIN sharedSchemas' :
              retired(sharedSchemas'[i]) \cap DOMAIN artifactContracts = {}
<1> DEFINE old == sharedSchemas[1]
           next == versionBump(old)
           meta == metadataRef(next)
           evolved == evolveSchema(vocabulary(old), additions)
           kept == [ref \in DOMAIN artifactContracts |->
                      [artifactContracts[ref] EXCEPT
                         !.status = IF ref \in retired(old) THEN "retired" ELSE @]]
<1>1. /\ Len(sharedSchemas) = 1
      /\ {next, meta} \cap DOMAIN artifactContracts = {}
      /\ artifactContracts' =
           over(one(next, activeRow(evolved)),
             over(one(meta, activeRow(vocabulary(metadataRef(old)))), kept))
      /\ sharedSchemas' = <<next>>
  BY DEF evolveProtocolVocabulary
<1>2. /\ sharedSchemas \in Seq(Versions) /\ DOMAIN sharedSchemas = {1} /\ old \in Versions
  BY <1>1 DEF IInv, VocabulariesOK
<1>3. /\ next \in Versions
      /\ upTo(next) = upTo(old) \cup {next}
      /\ metadata(upTo(next)) = metadata(upTo(old)) \cup {meta}
  BY <1>2, Upwards DEF metadata
<1>4. /\ upTo(old) \cup metadata(upTo(old)) \subseteq DOMAIN artifactContracts
      /\ upTo(old) \cap activeSchemas = {old}
      /\ metadata(upTo(old)) \cap activeSchemas = {metadataRef(old)}
      /\ classes(metadataRef(old)) \subseteq classes(old)
      /\ retired(old) = {old, metadataRef(old)}
      /\ retired(old) \subseteq DOMAIN artifactContracts
  BY <1>2 DEF IInv, VocabulariesOK, retired
<1>5. Allowed = classes(old)
  BY <1>2 DEF Allowed
<1>6. \A ref \in DOMAIN artifactContracts :
        kept[ref] = [status |-> IF ref \in retired(old) THEN "retired"
                                ELSE artifactContracts[ref].status,
                     schema |-> artifactContracts[ref].schema]
  <2> SUFFICES ASSUME NEW ref \in DOMAIN artifactContracts
               PROVE  kept[ref] = [status |-> IF ref \in retired(old) THEN "retired"
                                              ELSE artifactContracts[ref].status,
                                   schema |-> artifactContracts[ref].schema]
    OBVIOUS
  <2>1. artifactContracts[ref] = [status |-> artifactContracts[ref].status,
                                  schema |-> artifactContracts[ref].schema]
    <3> DEFINE row == artifactContracts[ref]
    <3>1. row = [status |-> row.status,
                 schema |-> Schema(row.schema.needs, row.schema.classes, row.schema.defines)]
      BY DEF IInv, RowsOK
    <3> HIDE DEF row
    <3>2. row.schema = Schema(row.schema.needs, row.schema.classes, row.schema.defines)
      BY <3>1
    <3> QED BY <3>1, <3>2 DEF row
  <2> QED BY <2>1
<1>7. /\ evolved.classes = classes(old) \cup additions
      /\ evolved = Schema(evolved.needs, evolved.classes, evolved.defines)
  <2> DEFINE schema == vocabulary(old)
  <2>1. schema = Schema(schema.needs, schema.classes, schema.defines)
    <3> DEFINE row == artifactContracts[old]
    <3>1. old \in DOMAIN artifactContracts
      BY <1>4
    <3>2. row = [status |-> row.status,
                 schema |-> Schema(row.schema.needs, row.schema.classes, row.schema.defines)]
      BY <3>1 DEF IInv, RowsOK
    <3> HIDE DEF row
    <3>3. row.schema = Schema(row.schema.needs, row.schema.classes, row.schema.defines)
      BY <3>2
    <3> QED BY <3>3 DEF row, vocabulary
  <2> HIDE DEF schema
  <2>2. [schema EXCEPT !.classes = @ \cup additions]
          = Schema(schema.needs, schema.classes \cup additions, schema.defines)
    BY <2>1 DEF Schema
  <2>3. evolved = Schema(schema.needs, schema.classes \cup additions, schema.defines)
    BY <2>2 DEF evolveSchema, schema
  <2> QED
    BY <2>3 DEF Schema, classes, schema
<1> HIDE DEF kept, evolved, next, meta
<1>8. /\ DOMAIN artifactContracts' = DOMAIN artifactContracts \cup {next, meta}
      /\ artifactContracts'[next] = activeRow(evolved)
      /\ meta # next => artifactContracts'[meta] = activeRow(vocabulary(metadataRef(old)))
      /\ \A ref \in DOMAIN artifactContracts : artifactContracts'[ref] = kept[ref]
  <2>1. DOMAIN kept = DOMAIN artifactContracts
    BY DEF kept
  <2> QED
    BY <1>1, <2>1 DEF over, one
<1>9. /\ \A ref \in DOMAIN artifactContracts :
           /\ artifactContracts'[ref].schema = artifactContracts[ref].schema
           /\ artifactContracts'[ref].status = IF ref \in retired(old) THEN "retired"
                                               ELSE artifactContracts[ref].status
      /\ artifactContracts'[next].status = "active" /\ artifactContracts'[next].schema = evolved
      /\ artifactContracts'[meta].status = "active"
      /\ meta # next => artifactContracts'[meta].schema = vocabulary(metadataRef(old))
  <2>1. ASSUME NEW ref \in DOMAIN artifactContracts
        PROVE  /\ artifactContracts'[ref].schema = artifactContracts[ref].schema
               /\ artifactContracts'[ref].status = IF ref \in retired(old) THEN "retired"
                                                   ELSE artifactContracts[ref].status
    <3>1. artifactContracts'[ref] = kept[ref]
      BY <1>8
    <3>2. kept[ref] = [status |-> IF ref \in retired(old) THEN "retired"
                                  ELSE artifactContracts[ref].status,
                       schema |-> artifactContracts[ref].schema]
      BY <1>6
    <3> QED BY <3>1, <3>2
  <2>2. \A schema : activeRow(schema).status = "active" /\ activeRow(schema).schema = schema
    BY DEF activeRow
  <2>3. artifactContracts'[next].status = "active" /\ artifactContracts'[next].schema = evolved
    BY <1>8, <2>2
  <2>4. /\ meta # next => artifactContracts'[meta].schema = vocabulary(metadataRef(old))
        /\ artifactContracts'[meta].status = "active"
    BY <1>8, <2>2, <2>3
  <2> QED BY <2>1, <2>3, <2>4
<1>10. activeSchemas' = (activeSchemas \ retired(old)) \cup {next, meta}
  BY <1>1, <1>8, <1>9 DEF activeSchemas
<1>11. /\ DOMAIN sharedSchemas' = {1} /\ sharedSchemas'[1] = next
       /\ sharedSchemas' \in Seq(Versions)
  BY <1>1, <1>3
<1>12. VocabulariesOK'
  <2>1. upTo(next) \cup metadata(upTo(next)) \subseteq DOMAIN artifactContracts'
    BY <1>3, <1>4, <1>8
  <2>2. upTo(next) \cap activeSchemas' = {next}
    BY <1>1, <1>3, <1>4, <1>10
  <2>3. metadata(upTo(next)) \cap activeSchemas' = {meta}
    BY <1>1, <1>3, <1>4, <1>10
  <2>4. artifactContracts'[meta].schema.classes \subseteq artifactContracts'[next].schema.classes
    BY <1>4, <1>7, <1>9 DEF classes, vocabulary
  <2> QED
    BY <2>1, <2>2, <2>3, <2>4, <1>11 DEF VocabulariesOK, classes, vocabulary, meta
<1>13. Allowed' = classes(old) \cup additions
  BY <1>7, <1>9, <1>11 DEF Allowed, classes, vocabulary
<1>14. RetiredOK'
  <2> SUFFICES ASSUME NEW ref \in DOMAIN artifactContracts', ref \notin activeSchemas'
               PROVE  artifactContracts'[ref].schema.classes \subseteq Allowed'
    BY DEF RetiredOK, classes, vocabulary
  <2>1. ref \in DOMAIN artifactContracts
    BY <1>8, <1>10
  <2>2. artifactContracts'[ref].schema.classes = classes(ref)
    BY <2>1, <1>9 DEF classes, vocabulary
  <2>3. CASE ref \in retired(old)
    BY <2>2, <2>3, <1>4, <1>13
  <2>4. CASE ref \notin retired(old)
    BY <2>1, <2>2, <2>4, <1>5, <1>10, <1>13 DEF IInv, RetiredOK
  <2> QED BY <2>3, <2>4
<1>15. \A ref \in DOMAIN artifactContracts' :
         LET row == artifactContracts'[ref]
         IN  row = [status |-> row.status,
                    schema |-> Schema(row.schema.needs, row.schema.classes, row.schema.defines)]
  <2> SUFFICES ASSUME NEW ref \in DOMAIN artifactContracts'
               PROVE  LET row == artifactContracts'[ref]
                      IN  row = [status |-> row.status,
                                 schema |-> Schema(row.schema.needs, row.schema.classes,
                                                   row.schema.defines)]
    OBVIOUS
  <2>1. \A r \in DOMAIN artifactContracts :
          LET schema == artifactContracts[r].schema
          IN  schema = Schema(schema.needs, schema.classes, schema.defines)
    BY DEF IInv, RowsOK
  <2>2. CASE ref \in DOMAIN artifactContracts
    <3>1. artifactContracts'[ref] = kept[ref]
      BY <2>2, <1>8
    <3>2. kept[ref] = [status |-> IF ref \in retired(old) THEN "retired"
                                  ELSE artifactContracts[ref].status,
                       schema |-> artifactContracts[ref].schema]
      BY <2>2, <1>6
    <3>3. LET schema == artifactContracts[ref].schema
          IN  schema = Schema(schema.needs, schema.classes, schema.defines)
      BY <2>1, <2>2
    <3> QED BY <3>1, <3>2, <3>3
  <2>3. CASE ref = next
    <3>1. artifactContracts'[ref] = [status |-> "active", schema |-> evolved]
      BY <2>3, <1>8 DEF activeRow
    <3>2. evolved = Schema(evolved.needs, evolved.classes, evolved.defines)
      BY <1>7
    <3> QED BY <3>1, <3>2
  <2>4. CASE ref = meta /\ meta # next
    <3>1. LET schema == vocabulary(metadataRef(old))
          IN  schema = Schema(schema.needs, schema.classes, schema.defines)
      BY <2>1, <1>4 DEF vocabulary
    <3> QED BY <2>4, <3>1, <1>8 DEF activeRow
  <2> QED BY <2>2, <2>3, <2>4, <1>8
<1>16. \A i \in DOMAIN sharedSchemas' : retired(sharedSchemas'[i]) \cap DOMAIN artifactContracts = {}
  BY <1>1, <1>11 DEF retired, meta
<1> QED
  BY <1>2, <1>5, <1>10, <1>12, <1>13, <1>14, <1>15, <1>16

\* An approved reconciliation is applied, however old it is.
LEMMA ReconciliationIsApplied ==
  ASSUME IInv, NEW c, applyApprovedReconciliation(c)
  PROVE  IInv'
<1>1. /\ c \in DOMAIN reconciliations /\ reconciliations[c].status = "approved"
      /\ IF c.additions = {} THEN UNCHANGED <<artifactContracts, sharedSchemas>>
         ELSE evolveProtocolVocabulary(c.additions)
      /\ reconciliations' = [reconciliations EXCEPT ![c].status = "applied"]
      /\ UNCHANGED <<proposals, reviews, activations>>
  BY DEF applyApprovedReconciliation
<1>2. /\ DOMAIN reconciliations' = DOMAIN reconciliations
      /\ reconciliations'[c] = [valid |-> reconciliations[c].valid, status |-> "applied"]
      /\ \A d \in DOMAIN reconciliations : d # c => reconciliations'[d] = reconciliations[d]
  <2>1. reconciliations[c] = [valid |-> reconciliations[c].valid, status |-> reconciliations[c].status]
    BY <1>1 DEF IInv, RowsOK
  <2> QED BY <1>1, <2>1, StatusIsSet
<1>3. /\ VocabulariesOK' /\ RetiredOK'
      /\ Allowed \cup c.additions \subseteq Allowed'
      /\ \A ref \in DOMAIN artifactContracts' :
           LET row == artifactContracts'[ref]
           IN  row = [status |-> row.status,
                      schema |-> Schema(row.schema.needs, row.schema.classes, row.schema.defines)]
      /\ ActivationsOK'
  <2>1. CASE c.additions = {}
    BY <2>1, <1>1, ContractsStay DEF IInv, ActivationsOK
  <2>2. CASE c.additions # {}
    <3>1. evolveProtocolVocabulary(c.additions)
      BY <2>2, <1>1
    <3>2. /\ VocabulariesOK' /\ RetiredOK' /\ Allowed \cup c.additions \subseteq Allowed'
          /\ \A ref \in DOMAIN artifactContracts' :
              LET row == artifactContracts'[ref]
              IN  row = [status |-> row.status,
                         schema |-> Schema(row.schema.needs, row.schema.classes, row.schema.defines)]
          /\ \A ref \in activeSchemas :
               ref \in activeSchemas' \/ \E i \in DOMAIN sharedSchemas : ref \in retired(sharedSchemas[i])
          /\ \A i \in DOMAIN sharedSchemas' :
               retired(sharedSchemas'[i]) \cap DOMAIN artifactContracts = {}
      BY <3>1, VocabularyEvolves
    <3>3. ActivationsOK'
      BY <3>2, <1>1 DEF IInv, ActivationsOK, activeSchemas
    <3> QED BY <3>2, <3>3
  <2> QED BY <2>1, <2>2
<1>4. ReconciliationsOK'
  <2> SUFFICES ASSUME NEW d \in DOMAIN reconciliations'
               PROVE  /\ reconciliations'[d].valid => targets(d) \subseteq Allowed' \cup d.additions
                      /\ reconciliations'[d].status \in {"approved", "applied"}
                           => reconciliations'[d].valid
                      /\ reconciliations'[d].status = "applied" => targets(d) \subseteq Allowed'
    BY DEF ReconciliationsOK
  <2>1. /\ reconciliations[d].valid => targets(d) \subseteq Allowed \cup d.additions
        /\ reconciliations[d].status \in {"approved", "applied"} => reconciliations[d].valid
        /\ reconciliations[d].status = "applied" => targets(d) \subseteq Allowed
    BY <1>2 DEF IInv, ReconciliationsOK
  <2>2. CASE d # c
    BY <2>1, <2>2, <1>2, <1>3
  <2>3. CASE d = c
    BY <2>1, <2>3, <1>1, <1>2, <1>3
  <2> QED BY <2>2, <2>3
<1>5. RowsOK'
  BY <1>1, <1>2, <1>3 DEF IInv, RowsOK
<1>6. ProposalsOK'
  BY <1>1 DEF IInv, ProposalsOK
<1> QED
  BY <1>3, <1>4, <1>5, <1>6 DEF IInv
-----------------------------------------------------------------------------
\* Every step keeps the invariant.
LEMMA StepOK ==
  ASSUME IInv, [Next]_vars
  PROVE  IInv'
<1>1. CASE editRoleData
  <2>1. UNCHANGED artifactContracts /\ UNCHANGED protocolVars
    BY <1>1 DEF editRoleData, setRoleContract, addRoleEscalation
  <2> QED BY <2>1, Aside DEF protocolVars
<1>2. CASE \E v \in Vocabularies : registerProtocolSupport(v)
  BY <1>2, SupportIsRegistered
<1>3. CASE persistProtocolWorkInspection
  <2>1. UNCHANGED <<roleVars, edits, sharedSchemas, batches, proposals, reviews, activations,
                   reconciliations, verdicts>>
    BY <1>3 DEF persistProtocolWorkInspection
  <2> QED BY <2>1, Aside DEF roleVars
<1>4. CASE propose
  <2>1. CASE \E s \in Sessions, p \in workPackets : \E contracts \in [contractFacts(p) -> Fragments] :
               ingestProtocolProposalOutput(s, [packet |-> p, contracts |-> contracts])
    BY <2>1, WholeProposal
  <2>2. CASE \E bs \in SUBSET DOMAIN batches : assembleProtocolProposalBatches(bs)
    BY <2>2, AssembledProposal
  <2> QED BY <2>1, <2>2, <1>4 DEF propose
<1>5. CASE batch
  <2>1. UNCHANGED <<roleVars, edits, sharedSchemas, proposals, reviews, activations,
                    reconciliations, verdicts>>
    <3>1. PICK s \in Sessions, given \in workPackets \cup {None} :
           \/ \E refs \in assignments : \E contracts \in [refs -> Fragments] :
                ingestProtocolProposalBatchOutput(s, given, contracts, refs)
           \/ \E source \in DOMAIN batches : \E contracts \in [source.assigned -> Fragments] :
                \E changed \in SUBSET source.assigned :
                  ingestProtocolProposalBatchCorrectionOutput(s, given, source, contracts, changed)
      BY <1>5 DEF batch
    <3>2. ASSUME NEW refs, NEW contracts, ingestProtocolProposalBatchOutput(s, given, contracts, refs)
          PROVE  UNCHANGED <<roleVars, edits, sharedSchemas, proposals, reviews, activations,
                             reconciliations, verdicts>>
      BY <3>2 DEF ingestProtocolProposalBatchOutput, persistNormalizedBatch
    <3>3. ASSUME NEW source, NEW contracts, NEW changed,
                 ingestProtocolProposalBatchCorrectionOutput(s, given, source, contracts, changed)
          PROVE  UNCHANGED <<roleVars, edits, sharedSchemas, proposals, reviews, activations,
                             reconciliations, verdicts>>
      BY <3>3 DEF ingestProtocolProposalBatchCorrectionOutput, persistNormalizedBatch
    <3> QED BY <3>1, <3>2, <3>3
  <2> QED BY <2>1, Aside DEF roleVars
<1>6. CASE \E c \in DOMAIN proposals, s \in Sessions, v \in {"PASS", "FAIL"} : evaluateReview(c, s, v)
  BY <1>6, ProposalIsReviewed
<1>7. CASE \E c \in DOMAIN proposals : activateApprovedProtocolProposal(c)
  BY <1>7, ProposalIsActivated
<1>8. CASE reconcile
  <2>1. CASE \E p \in workPackets, s \in Sessions, a \in Additions, m \in Mappings :
               evaluateAndPersistReconciliationProposal(
                 [packet |-> p, author |-> s, additions |-> a, mappings |-> m])
    BY <2>1, ReconciliationIsAdded
  <2>2. CASE \E c \in DOMAIN reconciliations, s \in Sessions, v \in {"PASS", "FAIL"} :
               evaluateAndPersistReconciliationReview(c, s, v)
    BY <2>2, ReconciliationIsReviewed
  <2>3. CASE \E c \in DOMAIN reconciliations : applyApprovedReconciliation(c)
    BY <2>3, ReconciliationIsApplied
  <2> QED BY <2>1, <2>2, <2>3, <1>8 DEF reconcile
<1>9. CASE UNCHANGED vars
  BY <1>9, Aside DEF vars, roleVars, protocolVars
<1> QED
  BY <1>1, <1>2, <1>3, <1>4, <1>5, <1>6, <1>7, <1>8, <1>9 DEF Next

\* The inductive invariant holds in every reachable state.
THEOREM ContractsInvariant == Spec => []IInv
<1>1. Init => IInv
  BY InitOK
<1>2. IInv /\ [Next]_vars => IInv'
  BY StepOK
<1> QED
  BY <1>1, <1>2, PTL DEF Spec

\* An active contract that came from a proposal stands on a review that passed it, of
\* a session that wrote no part of it, and came into force with all of its proposal
\* (activateApprovedProtocolProposal, evaluateReview).
THEOREM ActivatedContractsWereReviewed == Spec => []ActivatedWasReviewed
<1>1. IInv => ActivatedWasReviewed
  BY FromInvariant
<1> QED
  BY <1>1, ContractsInvariant, PTL

\* A registered vocabulary is in force in one version only, with its metadata
\* (registerProtocolSupport, evolveProtocolVocabulary).
THEOREM OneVocabularyVersion == Spec => []OneVersionInForce
<1>1. IInv => OneVersionInForce
  BY FromInvariant
<1> QED
  BY <1>1, ContractsInvariant, PTL

\* What reconciliations mapped to, and what retired versions listed, stays in the
\* vocabulary in force (applyApprovedReconciliation, also of a stale one).
THEOREM SettledStaysSupported == Spec => []SettledEscalationsStaySupported
<1>1. IInv => SettledEscalationsStaySupported
  BY FromInvariant
<1> QED
  BY <1>1, ContractsInvariant, PTL
=============================================================================
