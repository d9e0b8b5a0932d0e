-------------------------- MODULE RoleCatalogProofs --------------------------
(***************************************************************************)
(* What holds of RoleCatalog for every bundled catalogue, store and set of *)
(* models: its invariants and its action properties, by one inductive      *)
(* invariant.                                                              *)
(*                                                                         *)
(* The argument: a bootstrap and a projection exclude each other and every *)
(* edit, so what each of them read at its start still holds at its end --  *)
(* a bootstrap that seeds found no receipt and another profile, and a      *)
(* projection is of the version in force.  Versions are checked when they  *)
(* are stored and never change.  A contract an artifact stands on has a    *)
(* row, and rows are repaired only where no artifact stands.               *)
(***************************************************************************)
EXTENDS RoleCatalog, TLAPS

Parts == {"config", "charter"}

\* Every version stored was well formed, and one of them may be in force.
VersionsOK ==
    /\ \E S : catalogVersions \in Seq(S)
    /\ activation \in 0..Len(catalogVersions)
    /\ \A n \in 1..Len(catalogVersions) : wellFormed(catalogVersions[n])

\* Contracts and evidence are whole rows, and artifacts stand on contracts that exist.
RowsOK ==
    /\ \A ref \in DOMAIN artifactContracts :
         LET row == artifactContracts[ref] IN row = [status |-> row.status, schema |-> row.schema]
    /\ usedContracts \subseteq DOMAIN artifactContracts
    /\ \A e \in modelEvidence : e = evidenceRow(e.model, e.capability, e.source)

\* A profile starts at a role the store has.
ProfileOK ==
    /\ operatingProfile # None => operatingProfile.entry \in DOMAIN roleContracts
    /\ edits \in Nat

\* A bootstrap runs alone; one that is to seed has nothing of people before it.
BootOK ==
    boot # None =>
      /\ projecting = None
      /\ boot = [mode |-> boot.mode, step |-> boot.step]
      /\ boot.step = "seed" => bootstrapReceipt = None /\ operatingProfile # Bundled.profile

\* The files of a projection and the version they are of.
onDisk(files, parts) == \A part \in parts : [part |-> part, content |-> files[part]] \in written

ProjectingOK ==
    projecting # None =>
      /\ projecting = [files |-> projecting.files, left |-> projecting.left]
      /\ DOMAIN projecting.files = Parts /\ projecting.left \subseteq Parts
      /\ activation # 0 /\ catalogVersions[activation] = projecting.files.charter
      /\ onDisk(projecting.files, Parts \ projecting.left)

ReceiptOK ==
    projections # None =>
      /\ projections.version \in 1..Len(catalogVersions)
      /\ catalogVersions[projections.version] = projections.files.charter
      /\ onDisk(projections.files, DOMAIN projections.files)

IInv ==
    /\ VersionsOK
    /\ RowsOK
    /\ ProfileOK
    /\ BootOK
    /\ ProjectingOK
    /\ ReceiptOK
    /\ DispatchedOnCheckedCatalog
    /\ EvidenceOfWhatRan

-----------------------------------------------------------------------------
\* Each part of the invariant speaks of few variables.
LEMMA Stays ==
  ASSUME IInv
  PROVE  /\ UNCHANGED <<catalogVersions, activation>> => VersionsOK'
         /\ UNCHANGED <<artifactContracts, usedContracts, modelEvidence>> => RowsOK'
         /\ UNCHANGED <<operatingProfile, roleContracts, edits>> => ProfileOK'
         /\ UNCHANGED <<boot, projecting, bootstrapReceipt, operatingProfile>> => BootOK'
         /\ UNCHANGED <<projecting, activation, catalogVersions, written>> => ProjectingOK'
         /\ UNCHANGED <<projections, catalogVersions, written>> => ReceiptOK'
         /\ UNCHANGED <<dispatched, catalogVersions>> => DispatchedOnCheckedCatalog'
         /\ UNCHANGED modelEvidence => EvidenceOfWhatRan'
<1>1. UNCHANGED <<catalogVersions, activation>> => VersionsOK'
  BY DEF IInv, VersionsOK
<1>2. UNCHANGED <<artifactContracts, usedContracts, modelEvidence>> => RowsOK'
  BY DEF IInv, RowsOK
<1>3. UNCHANGED <<operatingProfile, roleContracts, edits>> => ProfileOK'
  BY DEF IInv, ProfileOK
<1>4. UNCHANGED <<boot, projecting, bootstrapReceipt, operatingProfile>> => BootOK'
  BY DEF IInv, BootOK
<1>5. UNCHANGED <<projecting, activation, catalogVersions, written>> => ProjectingOK'
  BY DEF IInv, ProjectingOK, onDisk
<1>6. UNCHANGED <<projections, catalogVersions, written>> => ReceiptOK'
  BY DEF IInv, ReceiptOK, onDisk
<1>7. UNCHANGED <<dispatched, catalogVersions>> => DispatchedOnCheckedCatalog'
  BY DEF IInv, DispatchedOnCheckedCatalog
<1>8. UNCHANGED modelEvidence => EvidenceOfWhatRan'
  BY DEF IInv, EvidenceOfWhatRan
<1> QED
  BY <1>1, <1>2, <1>3, <1>4, <1>5, <1>6, <1>7, <1>8

\* The invariant holds at the start.
LEMMA InitOK ==
  ASSUME Init PROVE IInv
<1>1. PICK seed \in Seeds :
        /\ roleContracts = seed.roleContracts /\ artifactContracts = seed.artifactContracts
        /\ operatingProfile = seed.operatingProfile /\ edits = seed.edits
  BY DEF Init
<1>2. /\ catalogVersions = << >> /\ activation = 0 /\ boot = None /\ dispatched = None
      /\ modelEvidence = {} /\ usedContracts = {} /\ projections = None /\ projecting = None
  BY DEF Init
<1>3. VersionsOK
  <2>1. Len(<< >>) = 0 /\ << >> \in Seq({})
    OBVIOUS
  <2>2. Len(catalogVersions) = 0 /\ \E S : catalogVersions \in Seq(S)
    BY <2>1, <1>2
  <2> QED BY <2>2, <1>2 DEF VersionsOK
<1>4. RowsOK
  BY <1>1, <1>2, CatalogAssumption DEF RowsOK
<1>5. ProfileOK
  BY <1>1, CatalogAssumption DEF ProfileOK
<1> QED
  BY <1>2, <1>3, <1>4, <1>5
     DEF IInv, BootOK, ProjectingOK, ReceiptOK, DispatchedOnCheckedCatalog, EvidenceOfWhatRan

\* What a step may never do: change the schema an artifact stands on; and, in a store
\* bootstrapped before, change role data that nobody edits.
KeepsSchemas == \A ref \in usedContracts : artifactContracts'[ref].schema = artifactContracts[ref].schema
LeavesRoleData ==
    operatingProfile = Bundled.profile \/ bootstrapReceipt # None =>
      edits' # edits \/ UNCHANGED <<responsibilities, roleContracts, roleHandoffs, roleEscalations,
                                    requiredRoles, catalogVars>>
Safe == IInv' /\ KeepsSchemas /\ LeavesRoleData

\* Without a change of the contracts or the role data a step is safe if the
\* invariant is kept.
LEMMA NothingEdited ==
  ASSUME IInv', UNCHANGED <<roleVars, catalogVars>>
  PROVE  Safe
  BY DEF Safe, KeepsSchemas, LeavesRoleData, roleVars

-----------------------------------------------------------------------------
\* An edit by hand leaves every contract its row, and the roles that exist.
LEMMA CatalogIsEdited ==
  ASSUME IInv, EditCatalog
  PROVE  Safe
<1>1. /\ boot = None /\ projecting = None /\ edits' = edits + 1
      /\ UNCHANGED <<catalogVersions, activation, boot, bootstrapReceipt, dispatched, written,
                     projections, projecting, usedContracts, modelEvidence>>
  BY DEF EditCatalog, edit, idle, activationVars, bootVars, projectionVars
<1>2. edits' # edits /\ edits' \in Nat
  BY <1>1 DEF IInv, ProfileOK
<1> DEFINE Kept ==
      /\ DOMAIN artifactContracts \subseteq DOMAIN artifactContracts'
      /\ \A ref \in DOMAIN artifactContracts : artifactContracts'[ref] = artifactContracts[ref]
      /\ \A ref \in DOMAIN artifactContracts' \ DOMAIN artifactContracts :
           LET row == artifactContracts'[ref] IN row = [status |-> row.status, schema |-> row.schema]
      /\ DOMAIN roleContracts \subseteq DOMAIN roleContracts'
      /\ UNCHANGED operatingProfile \/ operatingProfile'.entry \in DOMAIN roleContracts'
<1>3. Kept
  <2>1. ASSUME NEW i, setRoleContract(i.role, i.input), UNCHANGED catalogVars PROVE Kept
    <3>1. UNCHANGED artifactContracts /\ UNCHANGED operatingProfile
      BY <2>1 DEF setRoleContract, catalogVars
    <3>2. DOMAIN roleContracts \subseteq DOMAIN roleContracts'
      BY <2>1 DEF setRoleContract, addRoleContract, over, one
    <3> QED BY <3>1, <3>2
  <2>2. ASSUME NEW id, addResponsibility(id, "SEMANTIC"), UNCHANGED catalogVars PROVE Kept
    BY <2>2 DEF addResponsibility, catalogVars
  <2>3. ASSUME NEW h, addRoleHandoff(h), UNCHANGED catalogVars PROVE Kept
    BY <2>3 DEF addRoleHandoff, catalogVars
  <2>4. ASSUME NEW r, requireRole(r), UNCHANGED catalogVars PROVE Kept
    BY <2>4 DEF requireRole, catalogVars
  <2>5. ASSUME NEW ref, addArtifactContract(ref, Schema({}, {}, {})), UNCHANGED catalogVars PROVE Kept
    <3>1. /\ ref \notin DOMAIN artifactContracts
          /\ artifactContracts' = over(one(ref, activeRow(Schema({}, {}, {}))), artifactContracts)
          /\ UNCHANGED <<roleContracts, operatingProfile>>
      BY <2>5 DEF addArtifactContract, catalogVars
    <3>2. /\ DOMAIN artifactContracts' = DOMAIN artifactContracts \cup {ref}
          /\ artifactContracts'[ref] = activeRow(Schema({}, {}, {}))
          /\ \A other \in DOMAIN artifactContracts : artifactContracts'[other] = artifactContracts[other]
      BY <3>1 DEF over, one
    <3> QED BY <3>1, <3>2 DEF activeRow
  <2>6. ASSUME NEW p, setRolePolicy(p) PROVE Kept
    BY <2>6 DEF setRolePolicy
  <2>7. ASSUME NEW r, setRoleCatalogProfile(r) PROVE Kept
    BY <2>7 DEF setRoleCatalogProfile, roleVars
  <2>8. ASSUME addModelCapability(Capability) PROVE Kept
    BY <2>8 DEF addModelCapability, roleVars
  <2>9. ASSUME NEW x, retireContext(x) PROVE Kept
    BY <2>9 DEF retireContext, catalogVars
  <2> HIDE DEF Kept
  <2> QED
    BY <2>1, <2>2, <2>3, <2>4, <2>5, <2>6, <2>7, <2>8, <2>9 DEF EditCatalog
<1>4. RowsOK'
  BY <1>1, <1>3 DEF IInv, RowsOK
<1>5. ProfileOK'
  BY <1>2, <1>3 DEF IInv, ProfileOK
<1>6. BootOK'
  BY <1>1 DEF BootOK
<1>7. IInv'
  BY <1>1, <1>4, <1>5, <1>6, Stays DEF IInv
<1>8. KeepsSchemas
  BY <1>1, <1>3 DEF IInv, RowsOK, KeepsSchemas
<1> QED
  BY <1>2, <1>7, <1>8 DEF Safe, LeavesRoleData

\* An edit of the execution profiles, or evidence by hand, touches no role data.
LEMMA ProfilesAreEdited ==
  ASSUME IInv, EditProfiles
  PROVE  Safe
<1>1. /\ boot = None /\ edits' = edits + 1 /\ UNCHANGED <<roleVars, catalogVars, modelEvidence>>
      /\ UNCHANGED <<catalogVersions, activation, boot, bootstrapReceipt, dispatched, written,
                     projections, projecting, usedContracts>>
  BY DEF EditProfiles, edit, idle, activationVars, bootVars, projectionVars
<1>2. UNCHANGED <<artifactContracts, roleContracts, operatingProfile>>
  BY <1>1 DEF roleVars, catalogVars
<1>3. ProfileOK'
  BY <1>1, <1>2 DEF IInv, ProfileOK
<1>4. IInv'
  BY <1>1, <1>2, <1>3, Stays DEF IInv
<1> QED
  BY <1>1, <1>4, NothingEdited

\* Evidence by hand is no evaluation's.
LEMMA EvidenceIsGiven ==
  ASSUME IInv, AddModelCapabilityEvidence
  PROVE  Safe
<1>1. /\ edits' = edits + 1 /\ UNCHANGED <<roleVars, catalogVars>>
      /\ UNCHANGED <<catalogVersions, activation, boot, bootstrapReceipt, dispatched, written,
                     projections, projecting, usedContracts>>
  BY DEF AddModelCapabilityEvidence, edit, activationVars, bootVars, projectionVars
<1>2. PICK model \in Attested : modelEvidence' = modelEvidence \cup {evidenceRow(model, Capability, "hand")}
  BY DEF AddModelCapabilityEvidence
<1>3. UNCHANGED <<artifactContracts, roleContracts, operatingProfile>>
  BY <1>1 DEF roleVars, catalogVars
<1>4. /\ evidenceRow(model, Capability, "hand").model = model
      /\ evidenceRow(model, Capability, "hand").capability = Capability
      /\ evidenceRow(model, Capability, "hand").source = "hand"
  BY DEF evidenceRow
<1>5. RowsOK'
  BY <1>1, <1>2, <1>3, <1>4 DEF IInv, RowsOK
<1>6. EvidenceOfWhatRan'
  BY <1>2, <1>4 DEF IInv, EvidenceOfWhatRan
<1>7. ProfileOK'
  BY <1>1, <1>3 DEF IInv, ProfileOK
<1>8. IInv'
  BY <1>1, <1>3, <1>5, <1>6, <1>7, Stays DEF IInv
<1> QED
  BY <1>1, <1>8, NothingEdited
-----------------------------------------------------------------------------
\* A version is checked when it is stored, and stays the n-th.
LEMMA VersionIsActivated ==
  ASSUME IInv, activateRoleCatalog
  PROVE  /\ VersionsOK' /\ activation' # 0
         /\ \A n \in 1..Len(catalogVersions) :
              n \in 1..Len(catalogVersions') /\ catalogVersions'[n] = catalogVersions[n]
<1> DEFINE s == roleCatalogSnapshot
<1>1. /\ wellFormed(s)
      /\ IF storedVersion(s) # {}
         THEN activation' \in storedVersion(s) /\ UNCHANGED catalogVersions
         ELSE catalogVersions' = Append(catalogVersions, s) /\ activation' = Len(catalogVersions')
  BY DEF activateRoleCatalog, checkRoleCatalog, validateRoleCatalog
<1>2. /\ \E S : catalogVersions \in Seq(S)
      /\ activation \in 0..Len(catalogVersions)
      /\ \A n \in 1..Len(catalogVersions) : wellFormed(catalogVersions[n])
  BY DEF IInv, VersionsOK
<1> HIDE DEF s
<1>3. PICK S : catalogVersions \in Seq(S)
  BY <1>2
<1>4. Len(catalogVersions) \in Nat
  BY <1>3
<1>5. CASE storedVersion(s) # {}
  <2>1. activation' \in 1..Len(catalogVersions) /\ catalogVersions' = catalogVersions
    BY <1>1, <1>5 DEF storedVersion
  <2>2. /\ \E T : catalogVersions' \in Seq(T)
        /\ \A n \in 1..Len(catalogVersions') : wellFormed(catalogVersions'[n])
    BY <2>1, <1>2
  <2> QED BY <2>1, <2>2, <1>4 DEF VersionsOK
<1>6. CASE storedVersion(s) = {}
  <2>1. catalogVersions' = Append(catalogVersions, s) /\ activation' = Len(catalogVersions')
    BY <1>1, <1>6
  <2>2. catalogVersions \in Seq(S \cup {s}) /\ s \in S \cup {s}
    BY <1>3
  <2>3. /\ catalogVersions' \in Seq(S \cup {s})
        /\ Len(catalogVersions') = Len(catalogVersions) + 1
        /\ catalogVersions'[Len(catalogVersions) + 1] = s
        /\ \A n \in 1..Len(catalogVersions) : catalogVersions'[n] = catalogVersions[n]
    BY <2>1, <2>2
  <2>4. \A n \in 1..Len(catalogVersions') : n \in 1..Len(catalogVersions) \/ n = Len(catalogVersions) + 1
    BY <2>3, <1>4
  <2>5. \A n \in 1..Len(catalogVersions') : wellFormed(catalogVersions'[n])
    BY <2>3, <2>4, <1>1, <1>2
  <2>6. activation' \in 0..Len(catalogVersions') /\ activation' # 0
    BY <2>1, <2>3, <1>4
  <2>7. \A n \in 1..Len(catalogVersions) : n \in 1..Len(catalogVersions')
    BY <2>3, <1>4
  <2>8. \E T : catalogVersions' \in Seq(T)
    BY <2>3
  <2> QED BY <2>3, <2>5, <2>6, <2>7, <2>8 DEF VersionsOK
<1> QED BY <1>5, <1>6

\* What refers to a version is not disturbed by another one.
LEMMA CatalogIsActivated ==
  ASSUME IInv, activateRoleCatalog, projecting = None,
         UNCHANGED <<roleVars, catalogVars, gatewayVars, evidenceVars, projectionVars,
                     usedContracts, edits>>
  PROVE  /\ VersionsOK' /\ RowsOK' /\ ProfileOK' /\ ProjectingOK' /\ ReceiptOK'
         /\ DispatchedOnCheckedCatalog' /\ EvidenceOfWhatRan'
<1>1. /\ UNCHANGED <<artifactContracts, roleContracts, operatingProfile, modelEvidence, dispatched>>
      /\ UNCHANGED <<written, projections, projecting, usedContracts, edits>>
  BY DEF roleVars, catalogVars, gatewayVars, evidenceVars, projectionVars
<1>2. /\ VersionsOK'
      /\ \A n \in 1..Len(catalogVersions) :
           n \in 1..Len(catalogVersions') /\ catalogVersions'[n] = catalogVersions[n]
  BY VersionIsActivated
<1>3. ProjectingOK'
  BY <1>1 DEF ProjectingOK
<1>4. ReceiptOK'
  BY <1>1, <1>2 DEF IInv, ReceiptOK, onDisk
<1>5. DispatchedOnCheckedCatalog'
  BY <1>1, <1>2 DEF IInv, DispatchedOnCheckedCatalog
<1> QED
  BY <1>1, <1>2, <1>3, <1>4, <1>5, Stays

\* By hand.
LEMMA HandActivates ==
  ASSUME IInv, ActivateCatalog
  PROVE  Safe
<1>1. /\ activateRoleCatalog /\ projecting = None /\ boot = None
      /\ UNCHANGED <<roleVars, catalogVars, gatewayVars, evidenceVars, projectionVars,
                     usedContracts, edits>>
      /\ UNCHANGED <<roleVars, catalogVars, bootVars>>
  BY DEF ActivateCatalog, idle
<1>2. BootOK'
  <2>1. UNCHANGED <<boot, projecting, bootstrapReceipt, operatingProfile>>
    BY <1>1 DEF bootVars, projectionVars, catalogVars
  <2> QED BY <2>1, Stays
<1>3. IInv'
  BY <1>1, <1>2, CatalogIsActivated DEF IInv
<1> QED
  BY <1>1, <1>3, NothingEdited

\* By a bootstrap.
LEMMA BootstrapActivates ==
  ASSUME IInv, bootstrapActivates
  PROVE  Safe
<1>1. /\ activateRoleCatalog /\ boot # None /\ boot' = [boot EXCEPT !.step = "receipt"]
      /\ UNCHANGED <<roleVars, catalogVars, gatewayVars, evidenceVars, projectionVars,
                     usedContracts, edits>>
      /\ UNCHANGED <<roleVars, catalogVars>>
  BY DEF bootstrapActivates
<1>2. projecting = None /\ boot = [mode |-> boot.mode, step |-> boot.step]
  BY <1>1 DEF IInv, BootOK
<1>3. boot' = [mode |-> boot.mode, step |-> "receipt"] /\ projecting' = None
  BY <1>1, <1>2 DEF projectionVars
<1>4. BootOK'
  BY <1>3 DEF BootOK
<1>5. IInv'
  BY <1>1, <1>2, <1>4, CatalogIsActivated DEF IInv
<1> QED
  BY <1>1, <1>5, NothingEdited

-----------------------------------------------------------------------------
\* A bootstrap that may seed finds no receipt and another profile than the bundled one.
LEMMA BootstrapStarts ==
  ASSUME IInv, bootstrapBundledRoleCatalog
  PROVE  Safe
<1>1. PICK mode \in bootstrapAvailable :
        boot' = [mode |-> mode, step |-> IF mode \in {"empty", "reconcile"} THEN "seed" ELSE "policies"]
  BY DEF bootstrapBundledRoleCatalog
<1>2. /\ projecting = None
      /\ UNCHANGED <<roleVars, catalogVars, activationVars, bootstrapReceipt, gatewayVars,
                     evidenceVars, projectionVars, usedContracts, edits>>
      /\ UNCHANGED <<roleVars, catalogVars>>
  BY DEF bootstrapBundledRoleCatalog
<1>3. mode \in {"empty", "reconcile"} =>
        bootstrapReceipt = None /\ operatingProfile # Bundled.profile
  <2>1. DOMAIN roleContracts = {} => operatingProfile # Bundled.profile
    BY CatalogAssumption DEF IInv, ProfileOK
  <2> QED
    BY <2>1, <1>1 DEF bootstrapAvailable, resumableBundledProfile
<1>4. UNCHANGED <<operatingProfile, projecting, bootstrapReceipt>>
  BY <1>2 DEF catalogVars, projectionVars
<1>5. BootOK'
  BY <1>1, <1>2, <1>3, <1>4 DEF BootOK
<1>6. /\ UNCHANGED <<catalogVersions, activation, artifactContracts, usedContracts, modelEvidence>>
      /\ UNCHANGED <<operatingProfile, roleContracts, edits, dispatched>>
      /\ UNCHANGED <<projecting, written, projections>>
  BY <1>2 DEF roleVars, catalogVars, activationVars, gatewayVars, evidenceVars, projectionVars
<1>7. IInv'
  BY <1>5, <1>6, Stays DEF IInv
<1> QED
  BY <1>2, <1>7, NothingEdited

\* Only such a bootstrap seeds; the contracts that exist keep their rows.
LEMMA CatalogIsSeeded ==
  ASSUME IInv, seedBundledRoleCatalog
  PROVE  Safe
<1> DEFINE row == activeRow(managedSchema(Envelope))
<1>1. /\ boot # None /\ boot.step = "seed" /\ boot' = [boot EXCEPT !.step = "policies"]
      /\ operatingProfile' = Bundled.profile
      /\ artifactContracts' = over(artifactContracts, one(Envelope, row))
      /\ DOMAIN roleContracts' = bundledRoles
      /\ UNCHANGED <<activationVars, bootstrapReceipt, gatewayVars, evidenceVars, projectionVars,
                     usedContracts, edits>>
  BY DEF seedBundledRoleCatalog
<1>2. /\ projecting = None /\ boot = [mode |-> boot.mode, step |-> boot.step]
      /\ bootstrapReceipt = None /\ operatingProfile # Bundled.profile
  BY <1>1 DEF IInv, BootOK
<1>3. row = [status |-> "active", schema |-> managedSchema(Envelope)]
  BY DEF activeRow
<1> HIDE DEF row
<1>4. /\ DOMAIN artifactContracts' = DOMAIN artifactContracts \cup {Envelope}
      /\ Envelope \notin DOMAIN artifactContracts => artifactContracts'[Envelope] = row
      /\ \A ref \in DOMAIN artifactContracts : artifactContracts'[ref] = artifactContracts[ref]
  BY <1>1 DEF over, one
<1>5. /\ UNCHANGED <<catalogVersions, activation, usedContracts, modelEvidence>>
      /\ UNCHANGED <<edits, dispatched, projecting, written, projections, bootstrapReceipt>>
  BY <1>1 DEF activationVars, gatewayVars, evidenceVars, projectionVars
<1>6. RowsOK'
  <2>1. /\ usedContracts \subseteq DOMAIN artifactContracts
        /\ \A e \in modelEvidence : e = evidenceRow(e.model, e.capability, e.source)
    BY DEF IInv, RowsOK
  <2>2. \A ref \in DOMAIN artifactContracts' :
          LET r == artifactContracts'[ref] IN r = [status |-> r.status, schema |-> r.schema]
    BY <1>3, <1>4 DEF IInv, RowsOK
  <2> QED BY <2>1, <2>2, <1>4, <1>5 DEF RowsOK
<1>7. ProfileOK'
  BY <1>1, <1>5, CatalogAssumption DEF IInv, ProfileOK, bundledRoles
<1>8. boot' = [mode |-> boot.mode, step |-> "policies"]
  BY <1>1, <1>2
<1>9. BootOK'
  BY <1>2, <1>5, <1>8 DEF BootOK
<1>10. IInv'
  BY <1>5, <1>6, <1>7, <1>9, Stays DEF IInv
<1>11. KeepsSchemas
  BY <1>4 DEF KeepsSchemas, IInv, RowsOK
<1> QED
  BY <1>2, <1>10, <1>11 DEF Safe, LeavesRoleData

\* A repaired contract is a new one, has its schema already, or carries no artifact.
LEMMA ContractIsEnsured ==
  ASSUME IInv, NEW ref, ensureManagedArtifactContract(ref), UNCHANGED <<usedContracts, modelEvidence>>
  PROVE  RowsOK' /\ KeepsSchemas
<1>1. usedContracts \subseteq DOMAIN artifactContracts
  BY DEF IInv, RowsOK
<1>2. \A e \in modelEvidence : e = evidenceRow(e.model, e.capability, e.source)
  BY DEF IInv, RowsOK
<1>3. CASE /\ ref \notin DOMAIN artifactContracts
           /\ artifactContracts' = over(one(ref, activeRow(managedSchema(ref))), artifactContracts)
  <2>1. /\ DOMAIN artifactContracts' = DOMAIN artifactContracts \cup {ref}
        /\ artifactContracts'[ref] = activeRow(managedSchema(ref))
        /\ \A other \in DOMAIN artifactContracts : artifactContracts'[other] = artifactContracts[other]
    BY <1>3 DEF over, one
  <2>2. \A other \in DOMAIN artifactContracts' :
          LET r == artifactContracts'[other] IN r = [status |-> r.status, schema |-> r.schema]
    BY <2>1 DEF IInv, RowsOK, activeRow
  <2> QED BY <2>1, <2>2, <1>1, <1>2 DEF RowsOK, KeepsSchemas
<1>4. CASE /\ ref \in DOMAIN artifactContracts
           /\ artifactContracts[ref].schema = managedSchema(ref) \/ ref \notin usedContracts
           /\ artifactContracts' = [artifactContracts EXCEPT ![ref].schema = managedSchema(ref)]
  <2>1. artifactContracts[ref] = [status |-> artifactContracts[ref].status,
                                  schema |-> artifactContracts[ref].schema]
    BY <1>4 DEF IInv, RowsOK
  <2>2. /\ DOMAIN artifactContracts' = DOMAIN artifactContracts
        /\ artifactContracts'[ref] = [status |-> artifactContracts[ref].status,
                                      schema |-> managedSchema(ref)]
        /\ \A other \in DOMAIN artifactContracts :
             other # ref => artifactContracts'[other] = artifactContracts[other]
    BY <2>1, <1>4
  <2>3. \A other \in DOMAIN artifactContracts' :
          LET r == artifactContracts'[other] IN r = [status |-> r.status, schema |-> r.schema]
    BY <2>2 DEF IInv, RowsOK
  <2>4. RowsOK'
    BY <2>2, <2>3, <1>1, <1>2 DEF RowsOK
  <2>5. KeepsSchemas
    BY <2>2, <1>1, <1>4 DEF KeepsSchemas
  <2> QED BY <2>4, <2>5
<1> QED
  BY <1>3, <1>4 DEF ensureManagedArtifactContract
\* A bootstrap that repaired a contract goes on, or is done.
LEMMA BootstrapRepairs ==
  ASSUME IInv, ensureBundledInputPolicies \/ ensureBundledEnvelopeContract
  PROVE  Safe
<1>1. PICK ref : ensureManagedArtifactContract(ref)
  BY DEF ensureBundledInputPolicies, ensureBundledEnvelopeContract
<1>2. /\ boot # None
      /\ \/ boot' = None
         \/ boot' = [boot EXCEPT !.step = "envelope"]
         \/ boot' = [boot EXCEPT !.step = "activate"]
      /\ UNCHANGED <<responsibilities, contextItems, roleContracts, roleHandoffs, roleEscalations,
                     requiredRoles, catalogVars, activationVars, bootstrapReceipt, gatewayVars,
                     evidenceVars, projectionVars, usedContracts, release, edits>>
  BY DEF ensureBundledInputPolicies, ensureBundledEnvelopeContract
<1>3. /\ UNCHANGED <<catalogVersions, activation, usedContracts, modelEvidence>>
      /\ UNCHANGED <<edits, dispatched, projecting, written, projections, operatingProfile>>
  BY <1>2 DEF catalogVars, activationVars, gatewayVars, evidenceVars, projectionVars
<1>4. projecting = None /\ boot = [mode |-> boot.mode, step |-> boot.step]
  BY <1>2 DEF IInv, BootOK
<1>5. \/ boot' = None
      \/ boot' = [mode |-> boot.mode, step |-> "envelope"]
      \/ boot' = [mode |-> boot.mode, step |-> "activate"]
  BY <1>2, <1>4
<1>6. BootOK'
  BY <1>3, <1>4, <1>5 DEF BootOK
<1>7. RowsOK' /\ KeepsSchemas
  BY <1>1, <1>3, ContractIsEnsured
<1>8. IInv'
  BY <1>2, <1>3, <1>6, <1>7, Stays DEF IInv
<1> QED
  BY <1>2, <1>7, <1>8 DEF Safe, LeavesRoleData

\* It ends with its receipt, or without.
LEMMA BootstrapEnds ==
  ASSUME IInv, bootstrapRecords \/ bootstrapStops
  PROVE  Safe
<1>1. /\ boot' = None
      /\ UNCHANGED <<roleVars, catalogVars, activationVars, gatewayVars, evidenceVars,
                     projectionVars, usedContracts, release, edits>>
      /\ UNCHANGED <<roleVars, catalogVars>>
  BY DEF bootstrapRecords, bootstrapStops
<1>2. /\ UNCHANGED <<catalogVersions, activation, artifactContracts, usedContracts, modelEvidence>>
      /\ UNCHANGED <<operatingProfile, roleContracts, edits, dispatched>>
      /\ UNCHANGED <<projecting, written, projections>>
  BY <1>1 DEF roleVars, catalogVars, activationVars, gatewayVars, evidenceVars, projectionVars
<1>3. BootOK'
  BY <1>1 DEF BootOK
<1>4. IInv'
  BY <1>2, <1>3, Stays DEF IInv
<1> QED
  BY <1>1, <1>4, NothingEdited

-----------------------------------------------------------------------------
\* Steps that change only what no part of the invariant speaks of.
LEMMA Others ==
  ASSUME IInv,
         UNCHANGED <<roleVars, catalogVars, activationVars, bootVars, projectionVars>>,
         UNCHANGED <<modelEvidence, dispatched, usedContracts, edits>>
  PROVE  Safe
<1>1. /\ UNCHANGED <<catalogVersions, activation, artifactContracts, usedContracts, modelEvidence>>
      /\ UNCHANGED <<operatingProfile, roleContracts, edits, dispatched, boot, bootstrapReceipt>>
      /\ UNCHANGED <<projecting, written, projections>>
      /\ UNCHANGED <<roleVars, catalogVars>>
  BY DEF roleVars, catalogVars, activationVars, bootVars, projectionVars
<1>2. IInv'
  BY <1>1, Stays DEF IInv
<1> QED
  BY <1>1, <1>2, NothingEdited

\* Evidence expires, or an evaluation adds what a model showed.
LEMMA EvidenceChanges ==
  ASSUME IInv, EvidenceExpires \/ EvaluationAnswered
  PROVE  Safe
<1>1. /\ UNCHANGED <<roleVars, catalogVars, activationVars, bootVars, gatewayVars, projectionVars,
                     usedContracts, release, edits>>
      /\ UNCHANGED <<roleVars, catalogVars>>
  BY DEF EvidenceExpires, EvaluationAnswered, evaluationStep
<1>2. /\ UNCHANGED <<catalogVersions, activation, artifactContracts, usedContracts>>
      /\ UNCHANGED <<operatingProfile, roleContracts, edits, dispatched, boot, bootstrapReceipt>>
      /\ UNCHANGED <<projecting, written, projections>>
  BY <1>1 DEF roleVars, catalogVars, activationVars, bootVars, gatewayVars, projectionVars
<1>3. \A e \in modelEvidence' :
        \/ e \in modelEvidence
        \/ \E p : p.model \in Capable /\ e = evidenceRow(p.model, Capability, "evaluation")
  BY DEF EvidenceExpires, EvaluationAnswered, recordEvaluation
<1>4. \A m, c, s : /\ evidenceRow(m, c, s).model = m /\ evidenceRow(m, c, s).capability = c
                   /\ evidenceRow(m, c, s).source = s
  BY DEF evidenceRow
<1>5. RowsOK'
  <2>1. \A e \in modelEvidence : e = evidenceRow(e.model, e.capability, e.source)
    BY DEF IInv, RowsOK
  <2>2. \A e \in modelEvidence' : e = evidenceRow(e.model, e.capability, e.source)
    BY <2>1, <1>3, <1>4
  <2> QED BY <2>2, <1>2 DEF IInv, RowsOK
<1>6. EvidenceOfWhatRan'
  BY <1>3, <1>4 DEF IInv, EvidenceOfWhatRan
<1>7. IInv'
  BY <1>2, <1>5, <1>6, Stays DEF IInv
<1> QED
  BY <1>1, <1>7, NothingEdited

\* A run is admitted on the version in force, with evidence that is current.
LEMMA RunIsDispatched ==
  ASSUME IInv, DispatchRun
  PROVE  Safe
<1>1. PICK spec \in runSpecs :
         /\ requireActiveRoleCatalog /\ ~profileViolation(spec.profile)
         /\ dispatched' = [spec |-> spec, catalog |-> roleCatalogSnapshot,
                           evidence |-> {[e EXCEPT !.source = "any"] : e \in evidenceForProfile(spec.profile)}]
  BY DEF DispatchRun
<1>2. /\ UNCHANGED <<roleVars, catalogVars, activationVars, bootVars, executionProfiles, preferences,
                     evidenceVars, projectionVars, release, edits>>
      /\ UNCHANGED usedContracts /\ UNCHANGED <<roleVars, catalogVars>>
  BY DEF DispatchRun, gatewayStep
<1>3. /\ UNCHANGED <<catalogVersions, activation, artifactContracts, usedContracts, modelEvidence>>
      /\ UNCHANGED <<operatingProfile, roleContracts, edits, boot, bootstrapReceipt>>
      /\ UNCHANGED <<projecting, written, projections>>
  BY <1>2 DEF roleVars, catalogVars, activationVars, bootVars, evidenceVars, projectionVars
<1> DEFINE p == spec.profile
           c == roleCatalogSnapshot
           anyOf(e) == [e EXCEPT !.source = "any"]
<1>4. /\ dispatched'.spec.profile = p /\ dispatched'.catalog = c
      /\ dispatched'.evidence = {anyOf(e) : e \in evidenceForProfile(p)}
  BY <1>1
<1>5. /\ activation \in 1..Len(catalogVersions) /\ catalogVersions[activation] = c
      /\ wellFormed(c)
  <2>1. Len(catalogVersions) \in Nat
    <3>1. PICK S : catalogVersions \in Seq(S)
      BY DEF IInv, VersionsOK
    <3> QED BY <3>1
  <2>2. activation \in 1..Len(catalogVersions) /\ catalogVersions[activation] = c
    BY <2>1, <1>1 DEF requireActiveRoleCatalog, IInv, VersionsOK
  <2> HIDE DEF c
  <2> QED BY <2>2 DEF IInv, VersionsOK
<1>6. c.roleContracts = roleContracts
  BY DEF roleCatalogSnapshot
<1>7. PICK e \in modelEvidence :
        /\ e \in evidenceForProfile(p)
        /\ e.model = p.model /\ e.capability = roleContracts[p.role].capability
  BY <1>1 DEF profileViolation, evidenceForProfile
<1>8. anyOf(e).model = e.model /\ anyOf(e).capability = e.capability
  <2>1. e = [model |-> e.model, capability |-> e.capability, source |-> e.source]
    BY DEF IInv, RowsOK, evidenceRow
  <2>2. anyOf(e) = [model |-> e.model, capability |-> e.capability, source |-> "any"]
    BY <2>1
  <2> QED BY <2>2
<1> HIDE DEF c, anyOf
<1>9. DispatchedOnCheckedCatalog'
  <2>1. anyOf(e) \in dispatched'.evidence
    BY <1>4, <1>7
  <2> QED
    BY <2>1, <1>3, <1>4, <1>5, <1>6, <1>7, <1>8 DEF DispatchedOnCheckedCatalog
<1>10. IInv'
  BY <1>3, <1>9, Stays DEF IInv
<1> QED
  BY <1>2, <1>10, NothingEdited

\* An artifact is stored under a contract that exists.
LEMMA ArtifactIsStored ==
  ASSUME IInv, StoreOutput \/ SubmitReview
  PROVE  Safe
<1>1. PICK ref : validateArtifact(ref) /\ usedContracts' = usedContracts \cup {ref}
  BY DEF StoreOutput, SubmitReview
<1>2. /\ UNCHANGED <<roleVars, catalogVars, activationVars, bootVars, executionProfiles, preferences,
                     evidenceVars, projectionVars, release, edits>>
      /\ UNCHANGED dispatched /\ UNCHANGED <<roleVars, catalogVars>>
  BY DEF StoreOutput, SubmitReview, gatewayStep
<1>3. /\ UNCHANGED <<catalogVersions, activation, artifactContracts, modelEvidence, dispatched>>
      /\ UNCHANGED <<operatingProfile, roleContracts, edits, boot, bootstrapReceipt>>
      /\ UNCHANGED <<projecting, written, projections>>
  BY <1>2 DEF roleVars, catalogVars, activationVars, bootVars, evidenceVars, projectionVars
<1>4. RowsOK'
  BY <1>1, <1>3 DEF IInv, RowsOK, validateArtifact, activeSchemas
<1>5. IInv'
  BY <1>3, <1>4, Stays DEF IInv
<1> QED
  BY <1>2, <1>5, NothingEdited
-----------------------------------------------------------------------------
\* What a step of a projection leaves alone.
LEMMA ProjectionAside ==
  ASSUME IInv, projectionStep
  PROVE  /\ UNCHANGED <<roleVars, catalogVars>>
         /\ UNCHANGED <<catalogVersions, activation, boot, bootstrapReceipt, operatingProfile>>
         /\ VersionsOK' /\ RowsOK' /\ ProfileOK' /\ DispatchedOnCheckedCatalog' /\ EvidenceOfWhatRan'
<1>1. /\ UNCHANGED <<roleVars, catalogVars>>
      /\ UNCHANGED <<catalogVersions, activation, artifactContracts, modelEvidence, dispatched>>
      /\ UNCHANGED <<operatingProfile, roleContracts, edits, boot, bootstrapReceipt, usedContracts>>
  BY DEF projectionStep, roleVars, catalogVars, activationVars, bootVars, gatewayVars, evidenceVars
<1> QED
  BY <1>1, Stays

\* A projection is of the version in force.
LEMMA ProjectionStarts ==
  ASSUME IInv, ProjectRoles
  PROVE  Safe
<1> DEFINE files == compileRoleProjections
<1>1. /\ boot = None /\ requireActiveRoleCatalog
      /\ projecting' = [files |-> files, left |-> {"config", "charter"}]
      /\ UNCHANGED <<written, projections>> /\ projectionStep
  BY DEF ProjectRoles, idle
<1>2. DOMAIN files = Parts /\ files.charter = roleCatalogSnapshot
  BY DEF compileRoleProjections, Parts
<1> HIDE DEF files
<1>3. projecting'.files = files /\ projecting'.left = Parts
  BY <1>1 DEF Parts
<1>4. UNCHANGED <<catalogVersions, activation, boot>>
  BY <1>1, ProjectionAside
<1>5. ProjectingOK'
  <2>1. projecting' = [files |-> projecting'.files, left |-> projecting'.left]
    BY <1>1
  <2>2. activation' # 0 /\ catalogVersions'[activation'] = projecting'.files.charter
    BY <1>1, <1>2, <1>3, <1>4 DEF requireActiveRoleCatalog
  <2>3. \A part \in Parts \ projecting'.left :
          [part |-> part, content |-> projecting'.files[part]] \in written'
    BY <1>3
  <2> QED
    BY <1>2, <1>3, <2>1, <2>2, <2>3 DEF ProjectingOK, onDisk
<1>6. BootOK'
  BY <1>1, <1>4 DEF BootOK
<1>7. ReceiptOK'
  BY <1>1, <1>4, Stays
<1>8. IInv'
  BY <1>1, <1>5, <1>6, <1>7, ProjectionAside DEF IInv
<1> QED
  BY <1>1, <1>8, ProjectionAside, NothingEdited

\* Files that are promoted stay on disk until the receipts are recorded.
LEMMA PartIsPromoted ==
  ASSUME IInv, PromoteRoleProjection
  PROVE  Safe
<1>1. PICK part \in projecting.left :
        /\ projecting' = [projecting EXCEPT !.left = @ \ {part}]
        /\ written' = written \cup {[part |-> part, content |-> projecting.files[part]]}
  BY DEF PromoteRoleProjection
<1>2. projecting # None /\ UNCHANGED projections /\ projectionStep
  BY DEF PromoteRoleProjection
<1> DEFINE files == projecting.files
           left == projecting.left
<1>3. /\ projecting = [files |-> files, left |-> left]
      /\ DOMAIN files = Parts /\ left \subseteq Parts
      /\ activation # 0 /\ catalogVersions[activation] = files.charter
      /\ onDisk(files, Parts \ left)
  BY <1>2 DEF IInv, ProjectingOK
<1> HIDE DEF files, left
<1>4. projecting' = [files |-> files, left |-> left \ {part}]
  BY <1>1, <1>3
<1>5. UNCHANGED <<catalogVersions, activation, boot>>
  BY <1>2, ProjectionAside
<1>6. ProjectingOK'
  <2>1. projecting'.files = files /\ projecting'.left = left \ {part}
    BY <1>4
  <2>2. \A x \in Parts \ (left \ {part}) : [part |-> x, content |-> files[x]] \in written'
    <3>1. \A x \in Parts \ left : [part |-> x, content |-> files[x]] \in written
      BY <1>3 DEF onDisk
    <3>2. [part |-> part, content |-> files[part]] \in written'
      BY <1>1 DEF files
    <3> QED BY <3>1, <3>2, <1>1
  <2>3. \A x \in Parts \ projecting'.left : [part |-> x, content |-> projecting'.files[x]] \in written'
    BY <2>1, <2>2
  <2>4. /\ projecting' = [files |-> projecting'.files, left |-> projecting'.left]
        /\ DOMAIN projecting'.files = Parts /\ projecting'.left \subseteq Parts
        /\ activation' # 0 /\ catalogVersions'[activation'] = projecting'.files.charter
    BY <1>3, <1>4, <1>5, <2>1
  <2> QED
    BY <2>3, <2>4 DEF ProjectingOK, onDisk
<1>7. BootOK'
  BY <1>2, <1>5 DEF IInv, BootOK
<1>8. ReceiptOK'
  BY <1>1, <1>2, <1>5 DEF IInv, ReceiptOK, onDisk
<1>9. IInv'
  BY <1>2, <1>6, <1>7, <1>8, ProjectionAside DEF IInv
<1> QED
  BY <1>2, <1>9, ProjectionAside, NothingEdited

\* The receipts name what was promoted, of the version that is still in force.
LEMMA ReceiptsAreRecorded ==
  ASSUME IInv, RecordRoleProjectionReceipts
  PROVE  Safe
<1> DEFINE files == projecting.files
<1>1. /\ projecting # None /\ promoted
      /\ projections' = [version |-> activation, files |-> files]
      /\ written' = {w \in written : w.content = files[w.part]}
      /\ projecting' = None /\ projectionStep
  BY DEF RecordRoleProjectionReceipts
<1>2. /\ DOMAIN files = Parts /\ activation # 0 /\ catalogVersions[activation] = files.charter
      /\ onDisk(files, Parts)
  BY <1>1 DEF IInv, ProjectingOK, promoted
<1> HIDE DEF files
<1>3. UNCHANGED <<catalogVersions, activation, boot, bootstrapReceipt, operatingProfile>>
  BY <1>1, ProjectionAside
<1>4. projections'.version = activation /\ projections'.files = files
  BY <1>1
<1>5. activation \in 1..Len(catalogVersions)
  <2>1. PICK S : catalogVersions \in Seq(S)
    BY DEF IInv, VersionsOK
  <2>2. Len(catalogVersions) \in Nat
    BY <2>1
  <2> QED BY <2>2, <1>2 DEF IInv, VersionsOK
<1>6. ReceiptOK'
  <2>1. \A part \in Parts : [part |-> part, content |-> files[part]] \in written'
    BY <1>1, <1>2 DEF onDisk
  <2> QED
    BY <2>1, <1>2, <1>3, <1>4, <1>5 DEF ReceiptOK, onDisk
<1>7. ProjectingOK'
  BY <1>1 DEF ProjectingOK
<1>8. BootOK'
  BY <1>1, <1>3 DEF IInv, BootOK
<1>9. IInv'
  BY <1>1, <1>6, <1>7, <1>8, ProjectionAside DEF IInv
<1> QED
  BY <1>1, <1>9, ProjectionAside, NothingEdited

\* A projection that stops leaves the receipts that were.
LEMMA ProjectionIsStopped ==
  ASSUME IInv, ProjectionStops
  PROVE  Safe
<1>1. projecting' = None /\ UNCHANGED <<written, projections>> /\ projectionStep
  BY DEF ProjectionStops
<1>2. UNCHANGED <<catalogVersions, activation, boot, bootstrapReceipt, operatingProfile>>
  BY <1>1, ProjectionAside
<1>3. ProjectingOK' /\ BootOK'
  BY <1>1, <1>2 DEF IInv, BootOK, ProjectingOK
<1>4. ReceiptOK'
  BY <1>1, <1>2, Stays
<1>5. IInv'
  BY <1>1, <1>3, <1>4, ProjectionAside DEF IInv
<1> QED
  BY <1>1, <1>5, ProjectionAside, NothingEdited

-----------------------------------------------------------------------------
\* Every step is safe.
LEMMA StepOK ==
  ASSUME IInv, [Next]_vars
  PROVE  Safe
<1>1. CASE Upgrade \/ EvaluateConfiguredModels \/ EvaluateProfile \/ EvaluationStops
  <2>1. /\ UNCHANGED <<roleVars, catalogVars, activationVars, bootVars, projectionVars>>
        /\ UNCHANGED <<modelEvidence, dispatched, usedContracts, edits>>
    BY <1>1 DEF Upgrade, EvaluateConfiguredModels, EvaluateProfile, EvaluationStops, evaluationStep,
                gatewayVars, evidenceVars
  <2> QED BY <2>1, Others
<1>2. CASE PrepareRunSpec
  <2>1. /\ UNCHANGED <<roleVars, catalogVars, activationVars, bootVars, projectionVars>>
        /\ UNCHANGED <<modelEvidence, dispatched, usedContracts, edits>>
    BY <1>2 DEF PrepareRunSpec, gatewayStep, evidenceVars
  <2> QED BY <2>1, Others
<1>3. CASE UNCHANGED vars
  <2>1. /\ UNCHANGED <<roleVars, catalogVars, activationVars, bootVars, projectionVars>>
        /\ UNCHANGED <<modelEvidence, dispatched, usedContracts, edits>>
    BY <1>3 DEF vars, gatewayVars, evidenceVars
  <2> QED BY <2>1, Others
<1>4. CASE EditCatalog \/ EditProfiles \/ AddModelCapabilityEvidence
  BY <1>4, CatalogIsEdited, ProfilesAreEdited, EvidenceIsGiven
<1>5. CASE ActivateCatalog \/ bootstrapActivates \/ bootstrapBundledRoleCatalog
  BY <1>5, HandActivates, BootstrapActivates, BootstrapStarts
<1>6. CASE seedBundledRoleCatalog \/ ensureBundledInputPolicies \/ ensureBundledEnvelopeContract
  BY <1>6, CatalogIsSeeded, BootstrapRepairs
<1>7. CASE bootstrapRecords \/ bootstrapStops \/ EvidenceExpires \/ EvaluationAnswered
  BY <1>7, BootstrapEnds, EvidenceChanges
<1>8. CASE DispatchRun \/ StoreOutput \/ SubmitReview
  BY <1>8, RunIsDispatched, ArtifactIsStored
<1>9. CASE ProjectRoles \/ PromoteRoleProjection \/ RecordRoleProjectionReceipts \/ ProjectionStops
  BY <1>9, ProjectionStarts, PartIsPromoted, ReceiptsAreRecorded, ProjectionIsStopped
<1> QED
  BY <1>1, <1>2, <1>3, <1>4, <1>5, <1>6, <1>7, <1>8, <1>9 DEF Next

\* The inductive invariant holds in every reachable state.
THEOREM CatalogInvariant == Spec => []IInv
<1>1. Init => IInv
  BY InitOK
<1>2. IInv /\ [Next]_vars => IInv'
  BY StepOK DEF Safe
<1> QED
  BY <1>1, <1>2, PTL DEF Spec

\* A run is admitted on a catalogue that was checked and activated, unedited since, and
\* with current evidence for the model its spec names (DispatchRun).
THEOREM RunsAreAdmitted == Spec => []DispatchedOnCheckedCatalog
<1>1. IInv => DispatchedOnCheckedCatalog
  BY DEF IInv
<1> QED
  BY <1>1, CatalogInvariant, PTL

\* Evidence of an evaluation is about a model that passed it (EvaluationAnswered).
THEOREM EvaluationsAreOfWhatRan == Spec => []EvidenceOfWhatRan
<1>1. IInv => EvidenceOfWhatRan
  BY DEF IInv
<1> QED
  BY <1>1, CatalogInvariant, PTL

\* What a receipt names is on disk, and is the version it names, whenever a
\* projection died (PromoteRoleProjection, RecordRoleProjectionReceipts).
THEOREM ReceiptsAreProof == Spec => []ReceiptsProveProjection
<1>1. IInv => ReceiptsProveProjection
  BY DEF IInv, ReceiptOK, onDisk, ReceiptsProveProjection
<1> QED
  BY <1>1, CatalogInvariant, PTL

\* No step changes the schema an immutable artifact was stored under
\* (ensureManagedArtifactContract).
THEOREM ArtifactSchemasAreKept == Spec => ArtifactsKeepTheirSchema
<1>1. IInv /\ [Next]_vars =>
        [\A ref \in usedContracts : artifactContracts'[ref].schema = artifactContracts[ref].schema]_vars
  BY StepOK DEF Safe, KeepsSchemas
<1> QED
  BY <1>1, CatalogInvariant, PTL DEF Spec, ArtifactsKeepTheirSchema

\* In a store with the bundled profile or a receipt only a hand edits role data
\* (bootstrapAvailable, seedBundledRoleCatalog).
THEOREM EditsAreKept == Spec => EditsSurviveBootstrap
<1>1. IInv /\ [Next]_vars =>
        [operatingProfile = Bundled.profile \/ bootstrapReceipt # None =>
          edits' # edits \/ UNCHANGED <<responsibilities, roleContracts, roleHandoffs, roleEscalations,
                                        requiredRoles, catalogVars>>]_vars
  BY StepOK DEF Safe, LeavesRoleData
<1> QED
  BY <1>1, CatalogInvariant, PTL DEF Spec, EditsSurviveBootstrap
=============================================================================
