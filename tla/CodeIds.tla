------------------------------- MODULE CodeIds -------------------------------
(* How a code id comes to be indexed: api-service/asset registers it with a    *)
(* type of contract, the indexers of services/asset-indexer check whether its  *)
(* contracts have that interface, and write what they find by code-id-manager. *)
(* Until the status is final every transaction of its contracts has it checked *)
(* again.  Nothing waits for the updates of the status.                        *)
EXTENDS Naturals, Sequences

CONSTANTS
    Types,              \* CW20, CW721, CW4973
    CodeType,           \* the one whose interface the contracts have
    MaxRequests,        \* bound: requests to register
    MaxChecks,          \* bound: checks under way at a time
    MaxLcdFails         \* bound: calls of the LCD that fail

ASSUME CodeIdsAssumption ==
    /\ CodeType \in Types
    /\ {MaxRequests, MaxChecks, MaxLcdFails} \subseteq Nat

VARIABLES
    codeDocs,           \* the documents of the code id: [type, status]
    asked,              \* requests that have looked the code id up: [type, found]
    checks,             \* validate events whose check has not ended: their types
    codeUpdates,        \* updates of the status on their way: [type, status]
    hasTokens,          \* whether a contract of the code has a token yet
    handledCodes,       \* whether a handle event had the tokens enumerated
    codeRequests, lcdFails

codeVars == <<codeDocs, asked, checks, codeUpdates, hasTokens, handledCodes, codeRequests, lcdFails>>

CodeStatuses == {"WAITING", "TBD", "COMPLETED", "REJECTED"}

None == [type |-> CodeType, status |-> "none"]

CodeInit ==
    /\ codeDocs = <<>> /\ asked = {} /\ checks = <<>> /\ codeUpdates = {}
    /\ hasTokens = FALSE /\ handledCodes = FALSE
    /\ codeRequests = 0 /\ lcdFails = 0

\* Request: the first document of the code id is looked up.
FindCode(type) ==
    /\ codeRequests < MaxRequests
    /\ codeRequests' = codeRequests + 1
    /\ asked' = asked \union {[type |-> type, found |-> IF codeDocs = <<>> THEN None ELSE codeDocs[1]]}
    /\ UNCHANGED <<codeDocs, checks, codeUpdates, hasTokens, handledCodes, lcdFails>>

Check(type) == checks' = Append(checks, type)

\* It is registered if there is none, if it was rejected as another type, or not
\* determined; it then has its contracts checked.
RegisterCode(r) ==
    /\ Len(checks) < MaxChecks
    /\ asked' = asked \ {r}
    /\ IF r.found = None
       THEN /\ codeDocs' = Append(codeDocs, [type |-> r.type, status |-> "WAITING"])
            /\ Check(r.type) /\ UNCHANGED codeUpdates
       ELSE IF r.found.status = "REJECTED" /\ r.found.type # r.type
       THEN /\ codeUpdates' = codeUpdates \union {[type |-> r.type, status |-> "WAITING"]}
            /\ Check(r.type) /\ UNCHANGED codeDocs
       ELSE /\ IF r.found.status = "TBD" THEN Check(r.type) ELSE UNCHANGED checks
            /\ UNCHANGED <<codeDocs, codeUpdates>>
    /\ UNCHANGED <<hasTokens, handledCodes, codeRequests, lcdFails>>

\* A transaction of one of the contracts, that may have minted the first token:
\* the status is read, and a code that waits or is not determined checked.
HandleCodeTx ==
    /\ Len(checks) < MaxChecks
    /\ hasTokens' \in {hasTokens, TRUE}
    /\ IF codeDocs # <<>> /\ codeDocs[1].status \in {"WAITING", "TBD"}
       THEN Check(codeDocs[1].type) ELSE UNCHANGED checks
    /\ UNCHANGED <<codeDocs, asked, codeUpdates, handledCodes, codeRequests, lcdFails>>

\* Variant for the mutants: whatever has tokens has the interface.
InterfaceOfAny(type) ==
    IF hasTokens THEN "COMPLETED" ELSE "TBD"

\* The interface of the contracts: there is a token to ask for, or there is none.
Interface(type) ==
    IF type # CodeType THEN "REJECTED" ELSE IF hasTokens THEN "COMPLETED" ELSE "TBD"

\* The indexers of the other types go about it the same way.
InterfaceCW20(type) == Interface(type)

InterfaceCW4973(type) == Interface(type)

\* The status is sent to the code-id-manager.
CodeAnswer(status) ==
    /\ codeUpdates' = codeUpdates \union {[type |-> Head(checks), status |-> status]}
    /\ checks' = Tail(checks)

\* checkIfContractImplementInterface; COMPLETED has the tokens enumerated.
CheckInterface ==
    /\ checks # <<>>
    /\ LET status == Interface(Head(checks))
       IN /\ CodeAnswer(status)
          /\ handledCodes' = (handledCodes \/ status = "COMPLETED")
    /\ UNCHANGED <<codeDocs, asked, hasTokens, codeRequests, lcdFails>>

CheckInterfaceCW20 == CheckInterface

\* Without a list of contracts it is not determined; without an answer of the
\* contract it is rejected.
CheckFails ==
    /\ checks # <<>> /\ lcdFails < MaxLcdFails
    /\ lcdFails' = lcdFails + 1
    /\ \E status \in {"TBD", "REJECTED"} : CodeAnswer(status)
    /\ UNCHANGED <<codeDocs, asked, hasTokens, handledCodes, codeRequests>>

\* act-updateMany, in any order.
UpdateLands(u) ==
    /\ codeUpdates' = codeUpdates \ {u}
    /\ codeDocs' = [i \in DOMAIN codeDocs |-> u]
    /\ UNCHANGED <<asked, checks, hasTokens, handledCodes, codeRequests, lcdFails>>

CodeNext ==
    \/ \E type \in Types : FindCode(type)
    \/ \E r \in asked : RegisterCode(r)
    \/ HandleCodeTx \/ CheckInterface \/ CheckFails
    \/ \E u \in codeUpdates : UpdateLands(u)

CodeSpec == CodeInit /\ [][CodeNext]_codeVars

CodeFairness ==
    /\ SF_codeVars(HandleCodeTx) /\ WF_codeVars(CheckInterface)
    /\ WF_codeVars(\E r \in asked : RegisterCode(r))
    /\ \A u \in [type : Types, status : CodeStatuses] : WF_codeVars(u \in codeUpdates /\ UpdateLands(u))

-----------------------------------------------------------------------------
\* Documents and updates have one of the types and statuses.
CodeTypeOK ==
    /\ codeUpdates \subseteq [type : Types, status : CodeStatuses]
    /\ \A i \in DOMAIN codeDocs : codeDocs[i] \in [type : Types, status : CodeStatuses]
    /\ handledCodes => hasTokens

\* cw721-asset.service.ts:163-174: whatever requests and checks overlapped, a code that
\* is complete has the interface of its type, and its tokens were enumerated.
CompletedIsReal ==
    \A i \in DOMAIN codeDocs :
        codeDocs[i].status = "COMPLETED" => codeDocs[i].type = CodeType /\ handledCodes

\* :136, :175: a code is rejected as what it is only when a call failed: until then
\* one without tokens is asked again.
RejectedInError ==
    \A i \in DOMAIN codeDocs :
        codeDocs[i] = [type |-> CodeType, status |-> "REJECTED"] => lcdFails > 0

\* The registered codes, with requests, checks and transactions at once: complete only with the
\* right interface, rejected only after a failed call (cw721-asset.service.ts:105-190).
CodesAreRight == CodeTypeOK /\ CompletedIsReal /\ RejectedInError

\* asset-tx-handler.service.ts:201-214: a code that is registered and has tokens is
\* complete in the end, if only transactions go on coming and no failed call had it
\* rejected: one found too early, or overwritten by a late update, is checked again.
CodeGetsIndexed ==
    CodeFairness /\ <>[](codeDocs # <<>> /\ hasTokens
                            /\ \A i \in DOMAIN codeDocs : codeDocs[i].status # "REJECTED")
        => <>[](\A i \in DOMAIN codeDocs : codeDocs[i].status = "COMPLETED" /\ handledCodes)
=============================================================================
