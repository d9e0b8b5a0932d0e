--------------------------- MODULE ContextCatalog ---------------------------
(***************************************************************************)
(* The context catalogue (src/src/context): versioned items -- principles, *)
(* tastes, the charters of the roles -- that agents are given, ranked by   *)
(* their kind, and the compilation of a pack of them for a role.           *)
(*                                                                         *)
(* An item is an immutable row of which only the status changes.  Its tags,*)
(* strength and provenance reach no decision and are left out, as are the  *)
(* order of the items in a pack and the receipt of what was left out.      *)
(***************************************************************************)
EXTENDS Naturals, Integers, Sequences, FiniteSetsExt, TLC

CONSTANTS
    Refused,        \* what a compilation that throws returns
    Wildcard,       \* the selector value "*"
    RoleKind,       \* the kind of the charters of the roles
    KnownRoles,
    RoleCharters,   \* role -> the item its contract names
    ItemInputs,     \* items people add: [id, version, kind, semanticKey, body, ...]
    VersionedInputs,\* items the bootstrap scripts keep: the same without version and supersedes
    Precedences,    \* sequences of kinds, the highest first
    Requests,       \* [role, attributes, references, requestedCapabilities]
    MaxVersions,    \* bound: versions of an item
    MaxPacks        \* bound: packs stored

ASSUME PrecedencesAssumption ==
    \A kinds \in Precedences : kinds \in Seq({kinds[i] : i \in DOMAIN kinds})

VARIABLES
    contextItems,      \* [id, version] -> row
    contextPrecedence, \* kind -> rank
    contextPacks       \* set of [input, items, capabilities]

contextVars == <<contextItems, contextPrecedence, contextPacks>>

Active(ref) == ref \in DOMAIN contextItems /\ contextItems[ref].status = "active"
activeItems == {ref \in DOMAIN contextItems : Active(ref)}

-----------------------------------------------------------------------------
(***************************************************************************)
(* Intake.                                                                 *)
(***************************************************************************)
validateSelectorRoles(item) ==
    "role" \in DOMAIN item.selectors => item.selectors["role"] \subseteq KnownRoles

validateKindPrecedence(item) == item.kind \in DOMAIN contextPrecedence

validateDependencyReferences(item) == item.dependencies \subseteq DOMAIN contextItems

\* An item replaces active items that mean the same.
validateSupersessions(item) ==
    \A ref \in item.supersedes :
        Active(ref) /\ contextItems[ref].semanticKey = item.semanticKey

storedItem(item) ==
    [status |-> "active", kind |-> item.kind, semanticKey |-> item.semanticKey, body |-> item.body,
     selectors |-> item.selectors, dependencies |-> item.dependencies, capabilities |-> item.capabilities]

\* One transaction: the row and the end of those it supersedes.
addContextItem(item) ==
    LET ref == [id |-> item.id, version |-> item.version]
        row(r) == IF r = ref THEN storedItem(item)
                  ELSE IF r \in item.supersedes THEN [contextItems[r] EXCEPT !.status = "superseded"]
                  ELSE contextItems[r]
    IN  /\ validateSelectorRoles(item) /\ validateKindPrecedence(item)
        /\ validateDependencyReferences(item) /\ validateSupersessions(item)
        /\ ref \notin DOMAIN contextItems
        /\ contextItems' = [r \in DOMAIN contextItems \cup {ref} |-> row(r)]
        /\ UNCHANGED <<contextPrecedence, contextPacks>>

AddContextItem == \E item \in ItemInputs : addContextItem(item)

\* What the scripts keep in step with content/: a changed body is a new version, and
\* so is an item whose versions were all retired.
bootstrapVersionedContextItem(item) ==
    LET versions == {ref \in DOMAIN contextItems : ref.id = item.id}
        numbers == {ref.version : ref \in versions}
        live == versions \cap activeItems
        oldest == {ref \in live : \A other \in live : ref.version <= other.version}
        version == Max(numbers \cup {0}) + 1
    IN  /\ \A ref \in oldest : contextItems[ref].body # item.body
        /\ version <= MaxVersions
        /\ addContextItem(item @@ [version |-> version, supersedes |-> oldest])

BootstrapContextItem == \E item \in VersionedInputs : bootstrapVersionedContextItem(item)

retireContextItem(ref) ==
    /\ Active(ref)
    /\ contextItems' = [contextItems EXCEPT ![ref].status = "retired"]
    /\ UNCHANGED <<contextPrecedence, contextPacks>>

RetireContextItem == \E ref \in DOMAIN contextItems : retireContextItem(ref)

\* Kinds of items in the store may be left without a rank.
replaceContextPrecedence(kinds) ==
    /\ contextPrecedence' =
         [kind \in {kinds[i] : i \in DOMAIN kinds} |->
             Len(kinds) + 1 - CHOOSE i \in DOMAIN kinds : kinds[i] = kind]
    /\ UNCHANGED <<contextItems, contextPacks>>

ReplaceContextPrecedence == \E kinds \in Precedences : replaceContextPrecedence(kinds)

\* The bootstrap of the roles ranks their kind below the others.
ensureBundledContextPrecedence ==
    LET ranks == {contextPrecedence[kind] : kind \in DOMAIN contextPrecedence}
        rank == IF ranks = {} THEN 1 ELSE Min(ranks \cup {1}) - 1
    IN  /\ RoleKind \notin DOMAIN contextPrecedence
        /\ contextPrecedence' = [kind \in DOMAIN contextPrecedence \cup {RoleKind} |->
                                  IF kind = RoleKind THEN rank ELSE contextPrecedence[kind]]
        /\ UNCHANGED <<contextItems, contextPacks>>

-----------------------------------------------------------------------------
(***************************************************************************)
(* Compilation.                                                            *)
(***************************************************************************)
requestAttributes(input) == ("role" :> {input.role}) @@ input.attributes

selectorMatches(expected, dimension, attributes) ==
    \/ expected = {} \/ Wildcard \in expected
    \/ dimension \in DOMAIN attributes /\ expected \cap attributes[dimension] # {}

isApplicable(ref, attributes) ==
    LET selectors == contextItems[ref].selectors
    IN  \A dimension \in DOMAIN selectors : selectorMatches(selectors[dimension], dimension, attributes)

\* Mutant: whichever version comes.
indexCatalog_anyVersion == TRUE

\* Two active versions of one item make every compilation fail.
indexCatalog == \A r, s \in activeItems : r.id = s.id => r = s

requireReference(ref, attributes) == Active(ref) /\ isApplicable(ref, attributes)

\* Where the walk from ref comes: to ref, and from an item that is not yet selected to
\* those it depends on.
reached(selected, ref) ==
    {r \in DOMAIN contextItems : \A visited \in SUBSET DOMAIN contextItems :
        /\ ref \in visited
        /\ \A v \in visited \ selected : contextItems[v].dependencies \subseteq visited
        => r \in visited}

\* The items in selected and what ref needs, unless the walk meets an item it came from
\* or one that cannot be given.
addDependencies(selected, ref, attributes, visiting) ==
    LET found == reached(selected, ref)
        cycle == \/ visiting \cap found # {}
                 \/ \E r \in found \ selected : \E d \in contextItems[r].dependencies : r \in reached(selected, d)
    IN  IF cycle \/ \E r \in found \cup {ref} : ~requireReference(r, attributes) THEN Refused
        ELSE selected \cup found

\* No walk adds an item (WalksAddNothing), so that each may start from the same selection.
selectCandidates(input) ==
    LET attributes == requestAttributes(input)
        applicable == {ref \in activeItems : isApplicable(ref, attributes)}
        walks == UNION {{addDependencies(applicable, next, attributes, {ref}) : next \in contextItems[ref].dependencies}
                           : ref \in applicable}
    IN  IF (\A ref \in input.references : requireReference(ref, attributes)) /\ Refused \notin walks
        THEN applicable \cup UNION walks
        ELSE Refused

rankOf(ref) == contextPrecedence[contextItems[ref].kind]

topRanked(refs) == {r \in refs : \A s \in refs : rankOf(s) <= rankOf(r)}

\* Of the items that mean the same one remains, of the highest kind.
resolveSemanticConflicts(selected) ==
    LET rivals(ref) == {r \in selected : contextItems[r].semanticKey = contextItems[ref].semanticKey}
        ranked == \A ref \in selected : contextItems[ref].kind \in DOMAIN contextPrecedence
    IN  IF ranked /\ \A ref \in selected : Cardinality(topRanked(rivals(ref))) = 1
        THEN UNION {topRanked(rivals(ref)) : ref \in selected}
        ELSE Refused

\* Mutant: one item that allows is enough, whatever its rank.
compileCapabilities_anyAllows(selected, requested) ==
    LET sources(c) == {ref \in selected : c \in DOMAIN contextItems[ref].capabilities}
    IN  [c \in requested |->
            IF \E ref \in sources(c) : contextItems[ref].capabilities[c] = "allow" THEN "allow" ELSE "deny"]

\* Nothing is allowed that no item of the highest kind that mentions it allows.
compileCapabilities(selected, requested) ==
    LET sources(c) == {ref \in selected : c \in DOMAIN contextItems[ref].capabilities}
        effects(c) == {contextItems[ref].capabilities[c] : ref \in topRanked(sources(c))}
    IN  IF \E c \in requested : Cardinality(effects(c)) > 1 THEN Refused
        ELSE [c \in requested |-> IF sources(c) = {} THEN "deny" ELSE CHOOSE e \in effects(c) : TRUE]

compileContext(input) ==
    LET candidates == IF indexCatalog THEN selectCandidates(input) ELSE Refused
        selected == IF candidates = Refused THEN Refused ELSE resolveSemanticConflicts(candidates)
        capabilities == IF selected = Refused THEN Refused
                        ELSE compileCapabilities(selected, input.requestedCapabilities)
    IN  IF capabilities = Refused THEN Refused
        ELSE [input |-> input, items |-> selected, capabilities |-> capabilities]

-----------------------------------------------------------------------------
\* A pack is what it holds: the same pack again is not a second row.
persistContextPack(pack) ==
    /\ contextPacks' = contextPacks \cup {pack}
    /\ Cardinality(contextPacks') <= MaxPacks
    /\ UNCHANGED <<contextItems, contextPrecedence>>

CompileContext ==
    \E input \in Requests :
        LET pack == compileContext(input)
        IN  pack # Refused /\ persistContextPack(pack)

\* A run spec asks for its role's charter, and is refused when anything it requests is.
compileRunSpecInput ==
    \E input \in Requests :
        LET own == RoleCharters[input.role]
            pack == compileContext([input EXCEPT !.references = @ \cup {own}])
        IN  /\ pack # Refused
            /\ \A c \in DOMAIN pack.capabilities : pack.capabilities[c] # "deny"
            /\ persistContextPack(pack)

ContextInit ==
    contextItems = <<>> /\ contextPrecedence = <<>> /\ contextPacks = {}

ContextNext ==
    \/ AddContextItem \/ BootstrapContextItem \/ RetireContextItem
    \/ ReplaceContextPrecedence \/ ensureBundledContextPrecedence
    \/ CompileContext \/ compileRunSpecInput

ContextSpec == ContextInit /\ [][ContextNext]_contextVars

-----------------------------------------------------------------------------
(***************************************************************************)
(* Properties: of the packs as they are compiled, against the catalogue    *)
(* they are compiled from.                                                 *)
(***************************************************************************)
\* An item that a pack needs -- it was asked for, or another item of the pack depends
\* on it -- is in the pack or gave way to one that means the same and ranks higher.
inOrOutranked(ref, pack) ==
    \/ ref \in pack.items
    \/ /\ Active(ref)
       /\ \E r \in pack.items : /\ contextItems[r].semanticKey = contextItems[ref].semanticKey
                                /\ rankOf(r) > rankOf(ref)

\* A pack holds one version of an item and one item of a meaning, and nothing it
\* needs is missing: whatever was superseded, retired or added in between, in any
\* order, a pack that cannot be whole is refused.
PackIsWhole ==
    [][\A pack \in contextPacks' \ contextPacks :
         /\ \A r, s \in pack.items :
              r.id = s.id \/ contextItems[r].semanticKey = contextItems[s].semanticKey => r = s
         /\ \A ref \in pack.input.references \cup
                       UNION {contextItems[r].dependencies : r \in pack.items} :
              inOrOutranked(ref, pack)]_contextVars

\* What a pack grants, an item of that pack allows, and no item of it that ranks as
\* high denies.
GrantIsBacked ==
    [][\A pack \in contextPacks' \ contextPacks, c \in UNION {DOMAIN p.capabilities : p \in contextPacks'} :
         c \in DOMAIN pack.capabilities /\ pack.capabilities[c] = "allow" =>
            LET says(ref, effect) == /\ c \in DOMAIN contextItems[ref].capabilities
                                     /\ contextItems[ref].capabilities[c] = effect
            IN  \E r \in pack.items :
                  /\ says(r, "allow")
                  /\ \A s \in pack.items : says(s, "deny") => rankOf(s) < rankOf(r)]_contextVars
=============================================================================
