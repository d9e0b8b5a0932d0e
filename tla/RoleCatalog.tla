----------------------------- MODULE RoleCatalog -----------------------------
(***************************************************************************)
(* The role catalogue (src/src/roles): its activation as a version, the    *)
(* bootstrap of the bundled profile, the evidence that a model can do what *)
(* a role needs, the execution profiles and run specs that name a model,   *)
(* the admission of a run (gateway.ts) and the projection of the roles to  *)
(* the adapter's configuration and to a document.                          *)
(*                                                                         *)
(* A command is one step unless it awaits (an evaluation) or writes in     *)
(* several transactions or to files (a bootstrap, a projection): there the *)
(* process may die between two writes.  A digest is what it digests.       *)
(***************************************************************************)
EXTENDS RoleData, Sequences

CONSTANTS
    None,
    Bundled,        \* [profile, contracts, policies, escalations, handoffs, contexts]
    Envelope,       \* the contract the bundled roles exchange
    ReviewContract, \* the contract of the input of a review
    Capability,     \* the capability the evaluation suite measures
    Capable,        \* the models that have it
    Attested,       \* the models people vouch for by hand
    Seeds,          \* what a store may hold before its first bootstrap
    Wanted,         \* the roles there is work for
    RoleInputs,     \* [role, input]: definitions people give
    PolicyInputs,   \* [role, policy, escalations]
    ProfileInputs,  \* execution profiles people give: [id, role, agent, model, enabled]
    MaxEdits, MaxRelease, MaxSpecs

\* The bundled profile starts at one of its roles.  Before its first bootstrap a store
\* holds whole rows, and a profile of a role that it has.
ASSUME CatalogAssumption ==
    /\ Bundled.profile # None /\ Bundled.profile.entry \in DOMAIN Bundled.contracts
    /\ \A seed \in Seeds :
         /\ seed.edits \in Nat
         /\ seed.operatingProfile # None =>
              seed.operatingProfile.entry \in DOMAIN seed.roleContracts
         /\ \A ref \in DOMAIN seed.artifactContracts :
              LET row == seed.artifactContracts[ref]
              IN  row = [status |-> row.status, schema |-> row.schema]

VARIABLES
    policies,          \* role -> [mode, scopes]
    operatingProfile,  \* None or [id, entry, source]
    modelCapabilities, \* set of capabilities
    catalogVersions,   \* sequence of snapshots: version n is the n-th
    activation,        \* 0 or the version in force
    bootstrapReceipt,  \* None or the version the bootstrap activated
    executionProfiles, \* id -> [id, role, agent, model, enabled]
    preferences,       \* set of [role, profile]
    modelEvidence,     \* set of [model, capability, source]: the evidence that is current
    evaluation,        \* None or [todo, running]: an evaluation of the configured models
    runSpecs,          \* set of [role, profile, output]
    dispatched,        \* None or the last run admitted: [spec, catalog, evidence]
    usedContracts,     \* contracts immutable artifacts refer to
    written,           \* [part, content] on disk: what the receipt names, and later ones
    projections,       \* None or the receipt in force: [version, files]
    boot,              \* None or [step, mode]: a bootstrap in progress
    projecting,        \* None or [files, left]: a projection being promoted
    release,           \* the release of the program
    edits              \* edits made by hand, those of the seed included

bootVars == <<boot, bootstrapReceipt>>
gatewayVars == <<executionProfiles, preferences, runSpecs, dispatched>>
evidenceVars == <<modelEvidence, evaluation>>
projectionVars == <<written, projections, projecting>>
activationVars == <<catalogVersions, activation>>
catalogVars == <<policies, operatingProfile, modelCapabilities>>
vars == <<roleVars, catalogVars, activationVars, bootVars, gatewayVars, evidenceVars,
          projectionVars, usedContracts, release, edits>>

-----------------------------------------------------------------------------
(***************************************************************************)
(* What a version holds, and what must be true of it.                      *)
(***************************************************************************)
\* Contexts, artifact contracts, execution profiles and evidence are no part of it.
roleCatalogSnapshot ==
    [responsibilities |-> responsibilities, roleContracts |-> roleContracts,
     operatingProfile |-> operatingProfile, roleHandoffs |-> roleHandoffs,
     modelCapabilities |-> modelCapabilities, requiredRoles |-> requiredRoles,
     rolePolicies |-> policies, escalationClasses |-> roleEscalations]

roleViolations(s) ==
    {r \in DOMAIN s.roleContracts :
        \/ s.roleContracts[r].judgments = {}
        \/ s.roleContracts[r].capability \notin s.modelCapabilities
        \/ r \notin DOMAIN s.rolePolicies}

ownershipViolations(s) ==
    LET owned == UNION {s.roleContracts[r].judgments : r \in DOMAIN s.roleContracts}
    IN  {id \in DOMAIN s.responsibilities : (s.responsibilities[id] = "SEMANTIC") # (id \in owned)}

routingViolations(s) ==
    LET contracts == s.roleContracts
        unrouted == {r \in DOMAIN contracts :
                       \/ ~\E h \in s.roleHandoffs : h.source = r /\ h.contract = contracts[r].output
                       \/ ~\E e \in s.escalationClasses : e.role = r}
        incompatible == {h \in s.roleHandoffs :
                           \/ contracts[h.source].output # h.contract
                           \/ contracts[h.target].input # h.contract}
    IN  unrouted \cup incompatible

profileResolves(s) ==
    s.operatingProfile # None /\ s.operatingProfile.entry \in DOMAIN s.roleContracts

wellFormed(s) ==
    /\ roleViolations(s) = {} /\ ownershipViolations(s) = {} /\ routingViolations(s) = {}
    /\ s.requiredRoles # {} /\ s.requiredRoles = DOMAIN s.roleContracts
    /\ profileResolves(s)

hasRoleContext(r) ==
    contextItems[roleContracts[r].context].active /\ contextItems[roleContracts[r].context].role = r

validateRoleCatalog ==
    wellFormed(roleCatalogSnapshot) /\ \A r \in DOMAIN roleContracts : hasRoleContext(r)

-----------------------------------------------------------------------------
(***************************************************************************)
(* Evidence: it belongs to a model, whatever profile or adapter ran it.    *)
(***************************************************************************)
evidenceForProfile(profile) ==
    {e \in modelEvidence : /\ e.model = profile.model
                           /\ e.capability = roleContracts[profile.role].capability}

profileViolation(profile) ==
    profile.role \notin DOMAIN roleContracts \/ evidenceForProfile(profile) = {}

enabledProfiles == {p \in {executionProfiles[id] : id \in DOMAIN executionProfiles} : p.enabled}

checkModelCapabilityEvidence == \A p \in enabledProfiles : ~profileViolation(p)

checkRoleCatalog == validateRoleCatalog /\ checkArtifactContracts /\ checkModelCapabilityEvidence

-----------------------------------------------------------------------------
(***************************************************************************)
(* Activation: versions are by content.                                    *)
(***************************************************************************)
storedVersion(s) == {n \in 1..Len(catalogVersions) : catalogVersions[n] = s}

activateRoleCatalog ==
    LET s == roleCatalogSnapshot
    IN  /\ checkRoleCatalog
        /\ IF storedVersion(s) # {}
           THEN activation' \in storedVersion(s) /\ UNCHANGED catalogVersions
           ELSE catalogVersions' = Append(catalogVersions, s) /\ activation' = Len(catalogVersions')

\* Mutant: activated once is enough.
requireActiveRoleCatalog_ever == activation # 0

\* Activated, and not edited since.
requireActiveRoleCatalog ==
    activation # 0 /\ catalogVersions[activation] = roleCatalogSnapshot

-----------------------------------------------------------------------------
(***************************************************************************)
(* Bootstrap of the bundled profile.                                       *)
(***************************************************************************)
bundledRoles == DOMAIN Bundled.contracts

managedSchema(ref) == Schema({}, {}, {release})

\* Mutant: the repair does not look for artifacts.
ensureManagedArtifactContract_always(ref) ==
    artifactContracts' =
        over(one(ref, [status |-> IF ref \in DOMAIN artifactContracts THEN artifactContracts[ref].status
                                  ELSE "active",
                       schema |-> managedSchema(ref)]), artifactContracts)

\* A contract the program maintains follows its schema, unless artifacts stand on it.
ensureManagedArtifactContract(ref) ==
    \/ /\ ref \notin DOMAIN artifactContracts
       /\ artifactContracts' = over(one(ref, activeRow(managedSchema(ref))), artifactContracts)
    \/ /\ ref \in DOMAIN artifactContracts
       /\ artifactContracts[ref].schema = managedSchema(ref) \/ ref \notin usedContracts
       /\ artifactContracts' = [artifactContracts EXCEPT ![ref].schema = managedSchema(ref)]

\* Mutant: an interrupted bootstrap starts over.
resumableBundledProfile_never == FALSE

resumableBundledProfile == operatingProfile = Bundled.profile

\* The modes a bootstrap may start in; none when it refuses.
bootstrapAvailable ==
    IF bootstrapReceipt # None THEN {"receipt"}
    ELSE IF DOMAIN roleContracts = {} THEN {"empty"}
    ELSE IF DOMAIN roleContracts # bundledRoles THEN {}
    ELSE IF resumableBundledProfile THEN {"resume"} ELSE {"reconcile"}

bootstrapBundledRoleCatalog ==
    /\ boot = None /\ projecting = None
    /\ \E mode \in bootstrapAvailable :
         boot' = [mode |-> mode, step |-> IF mode \in {"empty", "reconcile"} THEN "seed" ELSE "policies"]
    /\ UNCHANGED <<roleVars, catalogVars, activationVars, bootstrapReceipt, gatewayVars, evidenceVars,
                   projectionVars, usedContracts, release, edits>>

\* What a role leaves of an older definition: its number, and the judgments nobody owned.
seededResponsibilities(legacy) ==
    LET judged == UNION {Bundled.contracts[r].judgments : r \in bundledRoles}
        owned == UNION {roleContracts[r].judgments : r \in legacy}
    IN  over([id \in judged |-> "SEMANTIC"],
             [id \in DOMAIN responsibilities \ owned |-> responsibilities[id]])

seedBundledRoleCatalog ==
    LET legacy == DOMAIN roleContracts
    IN  /\ boot # None /\ boot.step = "seed"
        /\ responsibilities' = seededResponsibilities(legacy)
        /\ contextItems' = over(contextItems, Bundled.contexts)
        /\ roleContracts' = [r \in bundledRoles |->
             contractRow(IF r \in legacy THEN roleContracts[r].version + 1 ELSE 1, Bundled.contracts[r])]
        /\ policies' = Bundled.policies /\ roleEscalations' = Bundled.escalations
        /\ roleHandoffs' = Bundled.handoffs /\ requiredRoles' = bundledRoles
        /\ operatingProfile' = Bundled.profile
        /\ modelCapabilities' = modelCapabilities \cup {Capability}
        /\ artifactContracts' = over(artifactContracts, one(Envelope, activeRow(managedSchema(Envelope))))
        /\ boot' = [boot EXCEPT !.step = "policies"]
        /\ UNCHANGED <<activationVars, bootstrapReceipt, gatewayVars, evidenceVars, projectionVars,
                       usedContracts, release, edits>>

ensureBundledInputPolicies ==
    /\ boot # None /\ boot.step = "policies" /\ ensureManagedArtifactContract(ReviewContract)
    /\ boot' = [boot EXCEPT !.step = "envelope"]
    /\ UNCHANGED <<responsibilities, contextItems, roleContracts, roleHandoffs, roleEscalations,
                   requiredRoles, catalogVars, activationVars, bootstrapReceipt, gatewayVars,
                   evidenceVars, projectionVars, usedContracts, release, edits>>

ensureBundledEnvelopeContract ==
    /\ boot # None /\ boot.step = "envelope" /\ ensureManagedArtifactContract(Envelope)
    /\ boot' = IF boot.mode = "receipt" THEN None ELSE [boot EXCEPT !.step = "activate"]
    /\ UNCHANGED <<responsibilities, contextItems, roleContracts, roleHandoffs, roleEscalations,
                   requiredRoles, catalogVars, activationVars, bootstrapReceipt, gatewayVars,
                   evidenceVars, projectionVars, usedContracts, release, edits>>

bootstrapActivates ==
    /\ boot # None /\ boot.step = "activate" /\ activateRoleCatalog
    /\ boot' = [boot EXCEPT !.step = "receipt"]
    /\ UNCHANGED <<roleVars, catalogVars, bootstrapReceipt, gatewayVars, evidenceVars,
                   projectionVars, usedContracts, release, edits>>

bootstrapRecords ==
    /\ boot # None /\ boot.step = "receipt"
    /\ bootstrapReceipt' = activation /\ boot' = None
    /\ UNCHANGED <<roleVars, catalogVars, activationVars, gatewayVars, evidenceVars,
                   projectionVars, usedContracts, release, edits>>

\* A write fails, a contract in use drifted, the catalogue is refused or the process dies.
bootstrapStops ==
    /\ boot # None /\ boot' = None
    /\ UNCHANGED <<roleVars, catalogVars, activationVars, bootstrapReceipt, gatewayVars, evidenceVars,
                   projectionVars, usedContracts, release, edits>>

-----------------------------------------------------------------------------
(***************************************************************************)
(* The commands that edit the catalogue and the execution profiles.        *)
(***************************************************************************)
idle == boot = None /\ projecting = None

edit ==
    /\ idle /\ edits < MaxEdits /\ edits' = edits + 1
    /\ UNCHANGED <<activationVars, bootVars, evaluation, runSpecs, dispatched, projectionVars,
                   usedContracts, release>>

consistent(policy) == (policy.mode = "none") = (policy.scopes = {})

\* A policy is inserted once, with the classes the role escalates.
setRolePolicy(p) ==
    LET rows == {[role |-> p.role, class |-> c] : c \in p.escalations}
    IN  /\ consistent(p.policy) /\ p.escalations # {}
        /\ p.role \in DOMAIN roleContracts \ DOMAIN policies /\ rows \cap roleEscalations = {}
        /\ policies' = over(one(p.role, p.policy), policies)
        /\ roleEscalations' = roleEscalations \cup rows
        /\ UNCHANGED <<responsibilities, contextItems, roleContracts, roleHandoffs, requiredRoles,
                       artifactContracts, operatingProfile, modelCapabilities>>

setRoleCatalogProfile(entry) ==
    /\ entry \in DOMAIN roleContracts
    /\ operatingProfile' = [id |-> "own", entry |-> entry, source |-> "custom"]
    /\ UNCHANGED <<roleVars, policies, modelCapabilities>>

addModelCapability(c) ==
    /\ c \notin modelCapabilities /\ modelCapabilities' = modelCapabilities \cup {c}
    /\ UNCHANGED <<roleVars, policies, operatingProfile>>

retireContext(x) ==
    /\ contextItems[x].active
    /\ contextItems' = [contextItems EXCEPT ![x].active = FALSE]
    /\ UNCHANGED <<responsibilities, roleContracts, roleHandoffs, roleEscalations, requiredRoles,
                   artifactContracts, catalogVars>>

EditCatalog ==
    /\ edit /\ UNCHANGED <<executionProfiles, preferences, modelEvidence>>
    /\ \/ /\ UNCHANGED catalogVars
          /\ \/ \E i \in RoleInputs :
                  \/ setRoleContract(i.role, i.input)
                  \/ \E id \in i.input.judgments : addResponsibility(id, "SEMANTIC")
                  \/ \E t \in bundledRoles :
                       addRoleHandoff([source |-> i.role, target |-> t, contract |-> i.input.output])
             \/ \E r \in bundledRoles : requireRole(r)
             \/ \E ref \in {Envelope, ReviewContract} : addArtifactContract(ref, Schema({}, {}, {}))
       \/ \E p \in PolicyInputs : setRolePolicy(p)
       \/ \E r \in bundledRoles : setRoleCatalogProfile(r)
       \/ addModelCapability(Capability)
       \/ \E x \in DOMAIN contextItems : retireContext(x)

addExecutionProfile(p) ==
    /\ p.id \notin DOMAIN executionProfiles /\ p.role \in DOMAIN roleContracts
    /\ executionProfiles' = over(one(p.id, p), executionProfiles) /\ UNCHANGED preferences

setExecutionProfile(p) ==
    /\ p.id \in DOMAIN executionProfiles /\ p.role \in DOMAIN roleContracts
    /\ executionProfiles' = [executionProfiles EXCEPT ![p.id] = p] /\ UNCHANGED preferences

\* A copy of a profile, for another role or another model.
cloneExecutionProfile(id, p) ==
    id \in DOMAIN executionProfiles /\ addExecutionProfile([p EXCEPT !.enabled = executionProfiles[id].enabled])

removeExecutionProfile(id) ==
    /\ id \in DOMAIN executionProfiles /\ \A spec \in runSpecs : spec.profile.id # id
    /\ executionProfiles' = [other \in DOMAIN executionProfiles \ {id} |-> executionProfiles[other]]
    /\ preferences' = {x \in preferences : x.profile # id}

setExecutionProfilePreference(role, id) ==
    /\ id \in DOMAIN executionProfiles /\ executionProfiles[id].role = role
    /\ preferences' = preferences \cup {[role |-> role, profile |-> id]} /\ UNCHANGED executionProfiles

EditProfiles ==
    /\ edit /\ UNCHANGED <<roleVars, catalogVars, modelEvidence>>
    /\ \E p \in ProfileInputs :
         \/ addExecutionProfile(p) \/ setExecutionProfile(p) \/ removeExecutionProfile(p.id)
         \/ setExecutionProfilePreference(p.role, p.id)
         \/ \E id \in DOMAIN executionProfiles : cloneExecutionProfile(id, p)

ActivateCatalog ==
    /\ idle /\ activateRoleCatalog
    /\ UNCHANGED <<roleVars, catalogVars, bootVars, gatewayVars, evidenceVars, projectionVars,
                   usedContracts, release, edits>>

\* A new release of the program carries other schemas for the contracts it maintains.
Upgrade ==
    /\ idle /\ evaluation = None /\ release < MaxRelease /\ release' = release + 1
    /\ UNCHANGED <<roleVars, catalogVars, activationVars, bootVars, gatewayVars, evidenceVars,
                   projectionVars, usedContracts, edits>>

-----------------------------------------------------------------------------
(***************************************************************************)
(* Evidence by hand, and by an evaluation that awaits the models.          *)
(***************************************************************************)
evidenceRow(model, capability, source) ==
    [model |-> model, capability |-> capability, source |-> source]

AddModelCapabilityEvidence ==
    /\ edit /\ UNCHANGED <<roleVars, catalogVars, executionProfiles, preferences>>
    /\ \E model \in Attested : modelEvidence' = modelEvidence \cup {evidenceRow(model, Capability, "hand")}

\* An expired row counts for as little as a missing one.
EvidenceExpires ==
    /\ idle /\ \E e \in modelEvidence : modelEvidence' = modelEvidence \ {e}
    /\ UNCHANGED <<roleVars, catalogVars, activationVars, bootVars, gatewayVars, evaluation,
                   projectionVars, usedContracts, release, edits>>

\* One enabled profile for each model; the code takes the first by its identifier.
representativeProfiles ==
    {S \in SUBSET enabledProfiles :
        /\ {p.model : p \in S} = {p.model : p \in enabledProfiles}
        /\ \A p, q \in S : p.model = q.model => p = q}

evaluationStep ==
    /\ idle
    /\ UNCHANGED <<roleVars, catalogVars, activationVars, bootVars, gatewayVars, projectionVars,
                   usedContracts, release, edits>>

EvaluateConfiguredModels ==
    /\ evaluation = None /\ enabledProfiles # {}
    /\ \E S \in representativeProfiles : evaluation' = [todo |-> S, running |-> None]
    /\ UNCHANGED modelEvidence /\ evaluationStep

\* The model answers in its own time: the profile is the one read at the start.
EvaluateProfile ==
    /\ evaluation # None /\ evaluation.running = None
    /\ \E p \in evaluation.todo :
         /\ p.role \in DOMAIN roleContracts /\ roleContracts[p.role].capability = Capability
         /\ evaluation' = [todo |-> evaluation.todo \ {p}, running |-> p]
    /\ UNCHANGED modelEvidence /\ evaluationStep

\* Mutant: the row of the profile is read again at the end.
recordEvaluation_readsAgain(p) ==
    IF p.model \in Capable /\ p.id \in DOMAIN executionProfiles
    THEN modelEvidence \cup {evidenceRow(executionProfiles[p.id].model, Capability, "evaluation")}
    ELSE modelEvidence

\* A model passes when it has the capability.
recordEvaluation(p) ==
    IF p.model \in Capable
    THEN modelEvidence \cup {evidenceRow(p.model, Capability, "evaluation")}
    ELSE modelEvidence

EvaluationAnswered ==
    /\ evaluation # None /\ evaluation.running # None
    /\ modelEvidence' = recordEvaluation(evaluation.running)
    /\ evaluation' = IF evaluation.todo = {} THEN None ELSE [evaluation EXCEPT !.running = None]
    /\ evaluationStep

\* Another capability, no progress, an adapter's error or a crash end it.
EvaluationStops ==
    /\ evaluation # None /\ evaluation' = None
    /\ UNCHANGED modelEvidence /\ evaluationStep

-----------------------------------------------------------------------------
(***************************************************************************)
(* Run specs and the admission of a run.                                   *)
(***************************************************************************)
gatewayStep ==
    /\ idle
    /\ UNCHANGED <<roleVars, catalogVars, activationVars, bootVars, executionProfiles, preferences,
                   evidenceVars, projectionVars, release, edits>>

\* A preference is for a role and a profile, and stays when the profile is given
\* to another role.
selectExecutionProfile(role) ==
    LET preferred == {executionProfiles[x.profile] : x \in {y \in preferences : y.role = role}}
        own == {p \in enabledProfiles : p.role = role}
    IN  IF preferred \cap enabledProfiles # {} THEN preferred \cap enabledProfiles
        ELSE IF Cardinality(own) = 1 THEN own ELSE {}

PrepareRunSpec ==
    /\ Cardinality(runSpecs) < MaxSpecs
    /\ \E role \in Wanted \cap DOMAIN roleContracts :
         LET output == roleContracts[role].output
         IN  \E p \in selectExecutionProfile(role) \cup enabledProfiles :
              /\ p.role = role /\ output \in activeSchemas
              /\ runSpecs' = runSpecs \cup {[role |-> role, profile |-> p, output |-> output]}
    /\ UNCHANGED <<dispatched, usedContracts>> /\ gatewayStep

DispatchRun ==
    /\ \E spec \in runSpecs :
         /\ requireActiveRoleCatalog /\ ~profileViolation(spec.profile)
         /\ dispatched' = [spec |-> spec, catalog |-> roleCatalogSnapshot,
                           evidence |-> {[e EXCEPT !.source = "any"] : e \in evidenceForProfile(spec.profile)}]
    /\ UNCHANGED <<runSpecs, usedContracts>> /\ gatewayStep

\* The artifact a run produced is stored under the contract of its spec.
StoreOutput ==
    /\ dispatched # None /\ validateArtifact(dispatched.spec.output)
    /\ usedContracts' = usedContracts \cup {dispatched.spec.output}
    /\ UNCHANGED <<runSpecs, dispatched>> /\ gatewayStep

\* A review starts from an artifact that names the version and its projection.
SubmitReview ==
    /\ activation # 0 /\ projections # None
    /\ catalogVersions[projections.version] = catalogVersions[activation]
    /\ validateArtifact(ReviewContract)
    /\ usedContracts' = usedContracts \cup {ReviewContract}
    /\ UNCHANGED <<runSpecs, dispatched>> /\ gatewayStep

-----------------------------------------------------------------------------
(***************************************************************************)
(* Projection: files first, then the receipts.                             *)
(***************************************************************************)
projectionStep ==
    UNCHANGED <<roleVars, catalogVars, activationVars, bootVars, gatewayVars, evidenceVars,
                usedContracts, release, edits>>

\* Every required role can run, and no agent has two roles.
checkCatalogClosure ==
    /\ {p.role : p \in enabledProfiles} = requiredRoles
    /\ \A p, q \in enabledProfiles : p.agent = q.agent => p.role = q.role

compileRoleProjections == [config |-> enabledProfiles, charter |-> roleCatalogSnapshot]

ProjectRoles ==
    /\ idle /\ checkRoleCatalog /\ checkCatalogClosure /\ requireActiveRoleCatalog
    /\ projecting' = [files |-> compileRoleProjections, left |-> {"config", "charter"}]
    /\ UNCHANGED <<written, projections>> /\ projectionStep

PromoteRoleProjection ==
    /\ projecting # None
    /\ \E part \in projecting.left :
         /\ projecting' = [projecting EXCEPT !.left = @ \ {part}]
         /\ written' = written \cup {[part |-> part, content |-> projecting.files[part]]}
    /\ UNCHANGED projections /\ projectionStep

\* Mutant: the receipt does not wait for the files.
promoted_assumed == TRUE

promoted == projecting.left = {}

RecordRoleProjectionReceipts ==
    /\ projecting # None /\ promoted
    /\ projections' = [version |-> activation, files |-> projecting.files]
    /\ written' = {w \in written : w.content = projecting.files[w.part]}
    /\ projecting' = None /\ projectionStep

ProjectionStops ==
    /\ projecting # None /\ projecting' = None
    /\ UNCHANGED <<written, projections>> /\ projectionStep

-----------------------------------------------------------------------------
Init ==
    /\ \E seed \in Seeds :
         /\ responsibilities = seed.responsibilities /\ contextItems = seed.contextItems
         /\ roleContracts = seed.roleContracts /\ roleHandoffs = seed.roleHandoffs
         /\ roleEscalations = seed.roleEscalations /\ requiredRoles = seed.requiredRoles
         /\ artifactContracts = seed.artifactContracts /\ policies = seed.policies
         /\ operatingProfile = seed.operatingProfile /\ modelCapabilities = seed.modelCapabilities
         /\ executionProfiles = seed.executionProfiles /\ edits = seed.edits
    /\ catalogVersions = <<>> /\ activation = 0 /\ bootstrapReceipt = None /\ boot = None
    /\ preferences = {} /\ runSpecs = {} /\ dispatched = None
    /\ modelEvidence = {} /\ evaluation = None
    /\ usedContracts = {} /\ written = {} /\ projections = None /\ projecting = None
    /\ release = 1

Next ==
    \/ EditCatalog \/ EditProfiles \/ ActivateCatalog \/ Upgrade
    \/ bootstrapBundledRoleCatalog \/ seedBundledRoleCatalog \/ ensureBundledInputPolicies
    \/ ensureBundledEnvelopeContract \/ bootstrapActivates \/ bootstrapRecords \/ bootstrapStops
    \/ AddModelCapabilityEvidence \/ EvidenceExpires
    \/ EvaluateConfiguredModels \/ EvaluateProfile \/ EvaluationAnswered \/ EvaluationStops
    \/ PrepareRunSpec \/ DispatchRun \/ StoreOutput \/ SubmitReview
    \/ ProjectRoles \/ PromoteRoleProjection \/ RecordRoleProjectionReceipts \/ ProjectionStops

Spec == Init /\ [][Next]_vars

-----------------------------------------------------------------------------
(***************************************************************************)
(* Properties.                                                             *)
(***************************************************************************)
\* A run is admitted on a catalogue that was checked and activated, unedited since,
\* and with a model that has current evidence for what that catalogue's role needs
\* -- the model its spec names, whatever became of the profile.
DispatchedOnCheckedCatalog ==
    dispatched # None =>
      LET c == dispatched.catalog  p == dispatched.spec.profile
      IN  /\ \E n \in 1..Len(catalogVersions) : catalogVersions[n] = c
          /\ wellFormed(c)
          /\ \E e \in dispatched.evidence : /\ e.model = p.model
                                            /\ e.capability = c.roleContracts[p.role].capability

\* In a store whose profile is the bundled one, or that has a receipt, only a hand
\* edits role data: no bootstrap, resumed after a crash or repeated, writes over it.
EditsSurviveBootstrap ==
    [][operatingProfile = Bundled.profile \/ bootstrapReceipt # None =>
          edits' # edits \/ UNCHANGED <<responsibilities, roleContracts, roleHandoffs, roleEscalations,
                                        requiredRoles, catalogVars>>]_vars

\* Evidence that comes from an evaluation is about a model that passed it, although
\* profiles are edited and removed while the models work.
EvidenceOfWhatRan ==
    \A e \in modelEvidence : e.source = "evaluation" => e.model \in Capable /\ e.capability = Capability

\* An immutable artifact keeps the schema it was stored under, through repairs of the
\* contracts the program maintains, releases and edits.
ArtifactsKeepTheirSchema ==
    [][\A ref \in usedContracts : artifactContracts'[ref].schema = artifactContracts[ref].schema]_vars

\* "A receipt is the proof that a concrete catalogue was projected"
\* (role-projection-receipt.ts:14): what it names was on disk, for the version it
\* names, whenever the command died.
ReceiptsProveProjection ==
    projections # None =>
        /\ \A part \in DOMAIN projections.files :
             [part |-> part, content |-> projections.files[part]] \in written
        /\ catalogVersions[projections.version] = projections.files.charter
=============================================================================
