------------------------------ MODULE RoleData ------------------------------
(***************************************************************************)
(* The tables that hold the roles and the artifact contracts, and the      *)
(* commands that edit them (src/src/roles/catalog.ts,                      *)
(* src/src/contracts/artifacts.ts).  ProtocolContracts and RoleCatalog     *)
(* build on them.                                                          *)
(*                                                                         *)
(* A command runs to its end without awaiting, and the daemon runs one at  *)
(* a time, so a command is one step.  A mission, a description or an       *)
(* identifier is never blank; capability request classes are left out.     *)
(***************************************************************************)
EXTENDS Naturals, FiniteSets, TLC

VARIABLES
    responsibilities, \* id -> "DETERMINISTIC" or "SEMANTIC"
    contextItems,     \* ref -> [active, role]: its status and the role it selects
    roleContracts,    \* role -> [version, context, input, output, judgments]
    roleHandoffs,     \* set of [source, target, contract]
    roleEscalations,  \* set of [role, class]
    requiredRoles,    \* set of roles
    artifactContracts \* ref -> [status, schema]

roleVars == <<responsibilities, contextItems, roleContracts, roleHandoffs,
              roleEscalations, requiredRoles, artifactContracts>>

\* A table over which rows are laid: theirs replace its own of the same key.
over(rows, table) ==
    [k \in DOMAIN table \cup DOMAIN rows |-> IF k \in DOMAIN rows THEN rows[k] ELSE table[k]]
one(key, row) == [k \in {key} |-> row]

\* A schema is known by the schemas it refers to, the escalation classes it
\* lists and the shared definitions it gives.
Schema(needs, classes, defines) == [needs |-> needs, classes |-> classes, defines |-> defines]

-----------------------------------------------------------------------------
(***************************************************************************)
(* Responsibilities and roles.                                             *)
(***************************************************************************)
addResponsibility(id, classification) ==
    /\ id \notin DOMAIN responsibilities
    /\ responsibilities' = over(one(id, classification), responsibilities)
    /\ UNCHANGED <<contextItems, roleContracts, roleHandoffs, roleEscalations, requiredRoles,
                   artifactContracts>>

\* The runtime owns every deterministic responsibility from its creation on.
runtimeResponsibilities == {id \in DOMAIN responsibilities : responsibilities[id] = "DETERMINISTIC"}

\* What a contract may say: known, semantic judgments, at least one.
ownable(judgments) ==
    /\ judgments # {} /\ judgments \subseteq DOMAIN responsibilities
    /\ judgments \cap runtimeResponsibilities = {}

\* role_responsibilities.responsibility_id and the context reference are unique.
storable(role, input) ==
    /\ input.context \in DOMAIN contextItems
    /\ \A other \in DOMAIN roleContracts \ {role} :
         /\ roleContracts[other].judgments \cap input.judgments = {}
         /\ roleContracts[other].context # input.context

contractRow(version, input) == over([version |-> version], input)

addRoleContract(role, input) ==
    /\ role \notin DOMAIN roleContracts
    /\ ownable(input.judgments) /\ storable(role, input)
    /\ roleContracts' = over(one(role, contractRow(1, input)), roleContracts)

setRoleContract(role, input) ==
    /\ \/ addRoleContract(role, input)
       \/ /\ role \in DOMAIN roleContracts
          /\ ownable(input.judgments) /\ storable(role, input)
          /\ roleContracts' =
               [roleContracts EXCEPT ![role] = contractRow(@.version + 1, input)]
    /\ UNCHANGED <<responsibilities, contextItems, roleHandoffs, roleEscalations, requiredRoles,
                   artifactContracts>>

addRoleHandoff(h) ==
    /\ h.source # h.target /\ {h.source, h.target} \subseteq DOMAIN roleContracts
    /\ h \notin roleHandoffs
    /\ roleHandoffs' = roleHandoffs \cup {h}
    /\ UNCHANGED <<responsibilities, contextItems, roleContracts, roleEscalations, requiredRoles,
                   artifactContracts>>

addRoleEscalation(role, class) ==
    /\ role \in DOMAIN roleContracts /\ [role |-> role, class |-> class] \notin roleEscalations
    /\ roleEscalations' = roleEscalations \cup {[role |-> role, class |-> class]}
    /\ UNCHANGED <<responsibilities, contextItems, roleContracts, roleHandoffs, requiredRoles,
                   artifactContracts>>

requireRole(role) ==
    /\ role \in DOMAIN roleContracts \ requiredRoles
    /\ requiredRoles' = requiredRoles \cup {role}
    /\ UNCHANGED <<responsibilities, contextItems, roleContracts, roleHandoffs, roleEscalations,
                   artifactContracts>>

roleSetIsClosed == requiredRoles # {} /\ requiredRoles = DOMAIN roleContracts

-----------------------------------------------------------------------------
(***************************************************************************)
(* Artifact contracts.                                                     *)
(***************************************************************************)
activeRow(schema) == [status |-> "active", schema |-> schema]

\* The reference is the key of the table: no contract is inserted twice.
addArtifactContract(ref, schema) ==
    /\ ref \notin DOMAIN artifactContracts
    /\ artifactContracts' = over(one(ref, activeRow(schema)), artifactContracts)
    /\ UNCHANGED <<responsibilities, contextItems, roleContracts, roleHandoffs, roleEscalations,
                   requiredRoles>>

activeSchemas == {ref \in DOMAIN artifactContracts : artifactContracts[ref].status = "active"}

\* The schemas the contract ref refers to, directly or through others.
contractDependencies(ref) ==
    LET needs(refs) == UNION {artifactContracts[r].schema.needs : r \in refs \cap DOMAIN artifactContracts}
        after[n \in Nat] == IF n = 0 THEN needs({ref}) ELSE after[n - 1] \cup needs(after[n - 1])
    IN  after[Cardinality(DOMAIN artifactContracts)]

\* A reference to a contract that is not active leaves a schema uncompiled.
resolveSchemas == \A ref \in activeSchemas : contractDependencies(ref) \subseteq activeSchemas

roleReferences == UNION {{c.input, c.output} : c \in {roleContracts[r] : r \in DOMAIN roleContracts}}
handoffReferences == {h.contract : h \in roleHandoffs}

checkArtifactContracts ==
    resolveSchemas /\ roleReferences \cup handoffReferences \subseteq activeSchemas

\* Any artifact at all is refused while one active schema does not compile.
validateArtifact(ref) == ref \in activeSchemas /\ resolveSchemas
=============================================================================
