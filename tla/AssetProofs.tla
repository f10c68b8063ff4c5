----------------------------- MODULE AssetProofs -----------------------------
(* Theorems about what is kept of codes, contracts, tokens, holders, images,   *)
(* accounts and days, for every number of them and every order of their jobs.  *)
EXTENDS ServicesProofs, Accounts, CodeIds, Contracts, Cw20Assets, DailyHolders, MediaLinks,
        NftAssets

-----------------------------------------------------------------------------
(* The registered codes (CodeIds).                                             *)

CodeTypes == [type : Types, status : CodeStatuses]

\* What a document may say, and what an update of it.
CodeIsReal(d) ==
    /\ d \in CodeTypes
    /\ d.status = "COMPLETED" => d.type = CodeType /\ handledCodes
    /\ d.type = CodeType /\ d.status = "REJECTED" => lcdFails > 0

\* The updates on their way say no more than the documents may, and what is not checked yet has a type.
CodeInv ==
    /\ codeDocs \in Seq(CodeTypes) /\ checks \in Seq(Types) /\ lcdFails \in Nat
    /\ handledCodes \in BOOLEAN /\ hasTokens \in BOOLEAN
    /\ asked \subseteq [type : Types, found : CodeTypes \union {None}]
    /\ \A d \in InFlight(codeDocs) : CodeIsReal(d)
    /\ \A u \in codeUpdates : CodeIsReal(u)
    /\ handledCodes => hasTokens

LEMMA InitCode == CodeInit => CodeInv
<1> SUFFICES ASSUME CodeInit PROVE CodeInv
  OBVIOUS
<1>1. \A D : <<>> \in Seq(D) /\ InFlight(<<>>) = {}
  BY EmptyLemma
<1> QED
  BY <1>1 DEF CodeInit, CodeInv

\* What was right stays right.
LEMMA RealStays ==
    ASSUME CodeInv, lcdFails' \in Nat, lcdFails' >= lcdFails, handledCodes => handledCodes', NEW d, CodeIsReal(d)
    PROVE  CodeIsReal(d)'
BY DEF CodeInv, CodeIsReal

\* A status that waits claims nothing.
LEMMA WaitingIsReal ==
    ASSUME NEW type \in Types
    PROVE  [type |-> type, status |-> "WAITING"] \in CodeTypes /\ CodeIsReal([type |-> type, status |-> "WAITING"])
BY DEF CodeTypes, CodeStatuses, CodeIsReal

\* A code is registered as one that waits, or asked about again.
LEMMA RegisterCodeStep ==
    ASSUME CodeInv, NEW r \in asked, RegisterCode(r)
    PROVE  CodeInv'
<1> DEFINE asWaiting == [type |-> r.type, status |-> "WAITING"]
<1>1. r.type \in Types /\ asked' \subseteq asked
  BY DEF CodeInv, RegisterCode
<1>2. /\ \/ codeDocs' = Append(codeDocs, asWaiting) /\ codeUpdates' = codeUpdates
         \/ codeDocs' = codeDocs /\ codeUpdates' \subseteq codeUpdates \union {asWaiting}
      /\ checks' = checks \/ checks' = Append(checks, r.type)
      /\ hasTokens' = hasTokens /\ handledCodes' = handledCodes /\ lcdFails' = lcdFails
  BY DEF RegisterCode, Check
<1>3. asWaiting \in CodeTypes /\ CodeIsReal(asWaiting)
  BY <1>1, WaitingIsReal
<1> HIDE DEF asWaiting
<1>4. checks' \in Seq(Types)
  BY <1>1, <1>2 DEF CodeInv
<1>5. codeDocs' \in Seq(CodeTypes) /\ InFlight(codeDocs') \subseteq InFlight(codeDocs) \union {asWaiting}
  <2>1. codeDocs \in Seq(CodeTypes)
    BY DEF CodeInv
  <2>2. /\ Append(codeDocs, asWaiting) \in Seq(CodeTypes)
        /\ InFlight(Append(codeDocs, asWaiting)) = InFlight(codeDocs) \union {asWaiting}
    BY <1>3, <2>1, SendOneLemma
  <2> QED
    BY <1>2, <2>1, <2>2
<1>6. \A d : CodeIsReal(d)' = CodeIsReal(d)
  BY <1>2 DEF CodeIsReal
<1> QED
  BY <1>1, <1>2, <1>3, <1>4, <1>5, <1>6 DEF CodeInv

\* A check has its status sent.
LEMMA AnswerStep ==
    ASSUME CodeInv, NEW type \in Types, NEW status \in CodeStatuses,
           checks # <<>>, type = Head(checks), CodeAnswer(status),
           codeDocs' = codeDocs, asked' = asked, hasTokens' = hasTokens,
           lcdFails' \in Nat, lcdFails' >= lcdFails, handledCodes' \in BOOLEAN,
           handledCodes => handledCodes', handledCodes' => hasTokens,
           CodeIsReal([type |-> type, status |-> status])'
    PROVE  CodeInv'
<1> DEFINE u == [type |-> type, status |-> status]
<1>1. checks' \in Seq(Types) /\ codeUpdates' = codeUpdates \union {u}
  BY ArriveLemma DEF CodeInv, CodeAnswer
<1> HIDE DEF u
<1>2. \A d : CodeIsReal(d) => CodeIsReal(d)'
  BY RealStays
<1>3. \A d \in codeUpdates' : CodeIsReal(d)'
  BY <1>1, <1>2 DEF CodeInv, u
<1> QED
  BY <1>1, <1>2, <1>3 DEF CodeInv

LEMMA NextCode == CodeInv /\ [CodeNext]_codeVars => CodeInv'
<1> SUFFICES ASSUME CodeInv, [CodeNext]_codeVars PROVE CodeInv'
  OBVIOUS
<1>1. ASSUME NEW type \in Types, FindCode(type) PROVE CodeInv'
  <2>1. asked' \subseteq [type : Types, found : CodeTypes \union {None}]
    <3> DEFINE found == IF codeDocs = <<>> THEN None ELSE codeDocs[1]
    <3>1. found \in CodeTypes \union {None}
      BY DEF CodeInv
    <3> HIDE DEF found
    <3>2. asked' = asked \union {[type |-> type, found |-> found]}
      BY <1>1 DEF FindCode, found
    <3> QED
      BY <3>1, <3>2 DEF CodeInv
  <2>2. UNCHANGED <<codeDocs, checks, codeUpdates, hasTokens, handledCodes, lcdFails>>
    BY <1>1 DEF FindCode
  <2> QED
    BY <2>1, <2>2 DEF CodeInv, CodeIsReal
<1>2. ASSUME NEW r \in asked, RegisterCode(r) PROVE CodeInv'
  BY <1>2, RegisterCodeStep
<1>3. ASSUME HandleCodeTx PROVE CodeInv'
  <2>1. checks' \in Seq(Types)
    <3>1. codeDocs # <<>> => codeDocs[1].type \in Types
      <4>1. codeDocs # <<>> => codeDocs[1] \in CodeTypes
        BY DEF CodeInv
      <4> QED
        BY <4>1 DEF CodeTypes
    <3>2. \A type \in Types : Append(checks, type) \in Seq(Types)
      BY DEF CodeInv
    <3> QED
      BY <1>3, <3>1, <3>2 DEF CodeInv, HandleCodeTx, Check
  <2>2. /\ UNCHANGED <<codeDocs, asked, codeUpdates, handledCodes, lcdFails>>
        /\ hasTokens' \in {hasTokens, TRUE}
    BY <1>3 DEF HandleCodeTx
  <2> QED
    BY <2>1, <2>2 DEF CodeInv, CodeIsReal
<1>4. ASSUME CheckInterface PROVE CodeInv'
  <2>1. checks # <<>>
    BY <1>4 DEF CheckInterface
  <2>2. Head(checks) \in Types
    BY <2>1, ArriveLemma DEF CodeInv
  <2>3. PICK type \in Types : type = Head(checks)
    BY <2>2
  <2>4. PICK status \in CodeStatuses : status = Interface(type)
    BY DEF Interface, CodeStatuses
  <2>5. /\ CodeAnswer(status) /\ handledCodes' = (handledCodes \/ status = "COMPLETED")
        /\ codeDocs' = codeDocs /\ asked' = asked /\ hasTokens' = hasTokens /\ lcdFails' = lcdFails
    BY <1>4, <2>3, <2>4 DEF CheckInterface
  <2>6. /\ status = "COMPLETED" => hasTokens /\ type = CodeType
        /\ type = CodeType => status # "REJECTED"
    BY <2>4 DEF Interface
  <2>7. CodeIsReal([type |-> type, status |-> status])'
    BY <2>5, <2>6 DEF CodeIsReal, CodeTypes
  <2>8. handledCodes' \in BOOLEAN /\ (handledCodes => handledCodes') /\ (handledCodes' => hasTokens)
    BY <2>5, <2>6 DEF CodeInv
  <2>9. lcdFails' \in Nat /\ lcdFails' >= lcdFails
    BY <2>5 DEF CodeInv
  <2> QED
    BY <2>1, <2>3, <2>5, <2>7, <2>8, <2>9, AnswerStep
<1>5. ASSUME CheckFails PROVE CodeInv'
  <2>1. PICK status \in {"TBD", "REJECTED"} : CodeAnswer(status)
    BY <1>5 DEF CheckFails
  <2>2. /\ checks # <<>> /\ lcdFails' = lcdFails + 1
        /\ codeDocs' = codeDocs /\ asked' = asked /\ hasTokens' = hasTokens /\ handledCodes' = handledCodes
    BY <1>5 DEF CheckFails
  <2>6. Head(checks) \in Types
    BY <2>2, ArriveLemma DEF CodeInv
  <2>7. PICK type \in Types : type = Head(checks)
    BY <2>6
  <2>3. status \in CodeStatuses
    BY DEF CodeStatuses
  <2>4. lcdFails' \in Nat /\ lcdFails' > 0 /\ lcdFails' >= lcdFails
    BY <2>2 DEF CodeInv
  <2>5. CodeIsReal([type |-> type, status |-> status])'
    BY <2>3, <2>4 DEF CodeIsReal, CodeTypes
  <2> QED
    BY <2>1, <2>2, <2>7, <2>3, <2>4, <2>5, AnswerStep DEF CodeInv
<1>6. ASSUME NEW u \in codeUpdates, UpdateLands(u) PROVE CodeInv'
  <2>1. /\ codeUpdates' \subseteq codeUpdates
        /\ codeDocs' = [i \in DOMAIN codeDocs |-> u]
        /\ UNCHANGED <<asked, checks, hasTokens, handledCodes, lcdFails>>
    BY <1>6 DEF UpdateLands
  <2>2. u \in CodeTypes /\ CodeIsReal(u) /\ codeDocs \in Seq(CodeTypes)
    BY DEF CodeInv, CodeIsReal
  <2>3. codeDocs' \in Seq(CodeTypes) /\ InFlight(codeDocs') \subseteq {u}
    BY <2>1, <2>2 DEF InFlight
  <2>4. \A d : CodeIsReal(d)' = CodeIsReal(d)
    BY <2>1 DEF CodeIsReal
  <2> QED
    BY <2>1, <2>2, <2>3, <2>4 DEF CodeInv
<1>7. ASSUME UNCHANGED codeVars PROVE CodeInv'
  BY <1>7 DEF CodeInv, CodeIsReal, codeVars
<1> QED
  BY <1>1, <1>2, <1>3, <1>4, <1>5, <1>6, <1>7 DEF CodeNext

\* Whatever requests, checks and updates overlap: a code is complete only with the interface of its type and
\* after its tokens were enumerated, and rejected as what it is only after a failed call.
THEOREM CodesAreReal == CodeSpec => []CodesAreRight
<1>1. CodeInv => CodesAreRight
  <2> SUFFICES ASSUME CodeInv PROVE CodesAreRight
    OBVIOUS
  <2>1. \A i \in DOMAIN codeDocs : codeDocs[i] \in CodeTypes /\ CodeIsReal(codeDocs[i])
    BY DEF CodeInv, InFlight
  <2>2. codeUpdates \subseteq CodeTypes
    BY DEF CodeInv, CodeIsReal
  <2>3. RejectedInError
    BY <2>1 DEF RejectedInError, CodeIsReal
  <2> QED
    BY <2>1, <2>2, <2>3 DEF CodesAreRight, CodeTypeOK, CompletedIsReal, CodeIsReal, CodeTypes, CodeInv
<1> QED
  BY <1>1, InitCode, NextCode, PTL DEF CodeSpec

-----------------------------------------------------------------------------
(* The images of assets (MediaLinks).                                          *)
MediaInv == MediaTypeOK /\ SourceIsKnown /\ ImagesCome

Updates == [tries : 1 .. UpdateAttempts, pc : {"upload", "assets"}]
Lookups == [asset : Enriched, pc : {"find", "insert", "queue", "image", "end"}]

\* The job that runs is one.
LEMMA UpdatingLemma ==
    ASSUME MediaTypeOK, updating # <<>>
    PROVE  /\ updating[1] \in Updates /\ updating = <<updating[1]>> /\ DOMAIN updating = {1}
BY DEF MediaTypeOK, Updates

\* A late write is a status or a list of assets, and tells which by its fields.
LEMMA LateLemma ==
    ASSUME MediaTypeOK, NEW w \in lateWrites
    PROVE  \/ /\ w \in AssetList /\ "assets" \in DOMAIN w /\ "doc" \notin DOMAIN w
              /\ w.assets \subseteq Enriched /\ w.burned \subseteq Assets
           \/ /\ w = [doc |-> w.doc] /\ w.doc \in {"ERROR", "COMPLETED"}
              /\ "doc" \in DOMAIN w /\ "assets" \notin DOMAIN w
<1>1. w \in [doc : {"ERROR", "COMPLETED"}] \/ w \in AssetList
  BY DEF MediaTypeOK
<1>2. CASE w \in AssetList
  <2>1. DOMAIN w = {"assets", "burned"} /\ w.assets \subseteq Enriched /\ w.burned \subseteq Assets
    BY <1>2 DEF AssetList
  <2> QED
    BY <1>2, <2>1
<1>3. CASE w \in [doc : {"ERROR", "COMPLETED"}]
  <2>1. DOMAIN w = {"doc"} /\ w.doc \in {"ERROR", "COMPLETED"} /\ w = [doc |-> w.doc]
    BY <1>3
  <2> QED
    BY <2>1
<1> QED
  BY <1>1, <1>2, <1>3

\* The first document keeps its place.
LEMMA DocsLemma ==
    ASSUME MediaTypeOK
    PROVE  /\ Append(mediaDocs, "HANDLING") \in Seq(Statuses) /\ Append(mediaDocs, "HANDLING") # <<>>
           /\ Append(mediaDocs, "HANDLING")[1] = IF mediaDocs = <<>> THEN "HANDLING" ELSE mediaDocs[1]
           /\ mediaDocs # <<>> =>
                 /\ mediaDocs[1] \in Statuses
                 /\ \A s \in Statuses : /\ [mediaDocs EXCEPT ![1] = s] \in Seq(Statuses)
                                        /\ [mediaDocs EXCEPT ![1] = s] # <<>>
                                        /\ [mediaDocs EXCEPT ![1] = s][1] = s
<1>1. mediaDocs \in Seq(Statuses) /\ "HANDLING" \in Statuses
  BY DEF MediaTypeOK, Statuses
<1>2. /\ Append(mediaDocs, "HANDLING") \in Seq(Statuses) /\ Append(mediaDocs, "HANDLING") # <<>>
      /\ Append(mediaDocs, "HANDLING")[1] = IF mediaDocs = <<>> THEN "HANDLING" ELSE mediaDocs[1]
  <2>1. /\ Append(mediaDocs, "HANDLING") \in Seq(Statuses)
        /\ Len(Append(mediaDocs, "HANDLING")) = Len(mediaDocs) + 1 /\ Len(mediaDocs) \in Nat
        /\ \A i \in 1 .. Len(mediaDocs) : Append(mediaDocs, "HANDLING")[i] = mediaDocs[i]
        /\ Append(mediaDocs, "HANDLING")[Len(mediaDocs) + 1] = "HANDLING"
        /\ mediaDocs = <<>> <=> Len(mediaDocs) = 0
    BY <1>1
  <2> DEFINE new == Append(mediaDocs, "HANDLING")
  <2>2. new # <<>>
    <3>1. Len(<<>>) = 0
      OBVIOUS
    <3> QED
      BY <2>1, <3>1
  <2>3. CASE mediaDocs = <<>>
    BY <2>1, <2>2, <2>3
  <2>4. CASE mediaDocs # <<>>
    <3>1. 1 \in 1 .. Len(mediaDocs)
      BY <2>1, <2>4
    <3> QED
      BY <2>1, <2>2, <2>4, <3>1
  <2> QED
    BY <2>3, <2>4
<1>3. ASSUME mediaDocs # <<>>
      PROVE  /\ mediaDocs[1] \in Statuses
             /\ \A s \in Statuses : /\ [mediaDocs EXCEPT ![1] = s] \in Seq(Statuses)
                                    /\ [mediaDocs EXCEPT ![1] = s] # <<>>
                                    /\ [mediaDocs EXCEPT ![1] = s][1] = s
  <2>1. 1 \in 1 .. Len(mediaDocs) /\ DOMAIN mediaDocs = 1 .. Len(mediaDocs)
    BY <1>1, <1>3
  <2>2. ASSUME NEW s \in Statuses PROVE [mediaDocs EXCEPT ![1] = s] \in Seq(Statuses)
    BY <1>1, <2>1, ExceptSeq
  <2>3. ASSUME NEW s \in Statuses
        PROVE  [mediaDocs EXCEPT ![1] = s] # <<>> /\ [mediaDocs EXCEPT ![1] = s][1] = s
    <3>1. DOMAIN [mediaDocs EXCEPT ![1] = s] # {}
      BY <2>1
    <3> QED
      BY <2>1, <3>1
  <2> QED
    BY <1>1, <2>1, <2>2, <2>3
<1> QED
  BY <1>2, <1>3

\* A lookup that goes on takes no more room.
LEMMA LookupGoesOn ==
    ASSUME MediaTypeOK, NEW g \in getting, NEW h \in Lookups
    PROVE  /\ (getting \ {g}) \union {h} \subseteq Lookups
           /\ IsFiniteSet((getting \ {g}) \union {h})
           /\ Cardinality((getting \ {g}) \union {h}) <= GetConcurrency
           /\ IsFiniteSet(getting \ {g}) /\ Cardinality(getting \ {g}) <= GetConcurrency
<1>1. IsFiniteSet(getting) /\ Cardinality(getting) <= GetConcurrency /\ GetConcurrency \in Nat
  BY MediaAssumption DEF MediaTypeOK
<1>2. IsFiniteSet(getting \ {g}) /\ Cardinality(getting \ {g}) = Cardinality(getting) - 1
  BY <1>1, FS_RemoveElement
<1>3. Cardinality(getting) \in Nat
  BY <1>1, FS_CardinalityType
<1>4. /\ IsFiniteSet((getting \ {g}) \union {h})
      /\ Cardinality((getting \ {g}) \union {h}) \in {Cardinality(getting \ {g}), Cardinality(getting \ {g}) + 1}
  BY <1>2, FS_AddElement
<1> QED
  BY <1>1, <1>2, <1>3, <1>4 DEF MediaTypeOK, Lookups

LEMMA InitMediaInv == MediaInit => MediaInv
<1> SUFFICES ASSUME MediaInit PROVE MediaInv
  OBVIOUS
<1>1. IsFiniteSet({}) /\ Cardinality({}) = 0
  BY FS_EmptySet
<1>2. Enriched = {} /\ \A a \in Assets : enriched[a] = 0
  BY DEF MediaInit, Enriched
<1>3. MediaTypeOK
  <2>1. /\ enriched \in [Assets -> Nat] /\ burned = {} /\ image = {} /\ events = {} /\ getting = {}
        /\ getJobs = <<>> /\ mediaDocs = <<>> /\ updateJobs = <<>> /\ updating = <<>> /\ cached = <<>>
        /\ lateWrites = {} /\ mediaFlags = {} /\ unsureAssets = {} /\ GetConcurrency \in Nat
    BY MediaAssumption DEF MediaInit
  <2>2. /\ <<>> \in Seq(Enriched) /\ <<>> \in Seq(Statuses) /\ <<>> \in Seq(0 .. UpdateAttempts - 1)
    BY EmptyLemma
  <2> QED
    BY <1>1, <2>1, <2>2 DEF MediaTypeOK
<1>4. SourceIsKnown
  BY DEF MediaInit, SourceIsKnown, Storing
<1>5. ImagesCome
  BY <1>2 DEF ImagesCome
<1> QED
  BY <1>3, <1>4, <1>5 DEF MediaInv

\* What the type says of the queues and of what is late goes on to hold when an
\* asset is enriched.
LEMMA EnrichTokenStep ==
    ASSUME MediaInv, NEW b \in Assets, EnrichToken(b)
    PROVE  MediaInv'
<1> USE DEF MediaInv
<1>1. /\ enriched' = [enriched EXCEPT ![b] = @ + 1] /\ b \notin burned
      /\ UNCHANGED <<burned, image, mediaFlags, getJobs, getting, mediaDocs, updateJobs, updating, lateWrites, cached>>
      /\ \/ unsureAssets' = unsureAssets \union {b} /\ UNCHANGED events
         \/ events' = events \union {[asset |-> b, pc |-> "set"]} /\ UNCHANGED unsureAssets
  BY DEF EnrichToken
<1>2. enriched' \in [Assets -> Nat] /\ Enriched' = Enriched \union {b}
  <2>1. enriched \in [Assets -> Nat]
    BY DEF MediaTypeOK
  <2>2. enriched' \in [Assets -> Nat] /\ enriched'[b] > 0 /\ \A a \in Assets \ {b} : enriched'[a] = enriched[a]
    BY <1>1, <2>1
  <2> QED
    BY <2>1, <2>2 DEF Enriched
<1>3. MediaTypeOK'
  <2>1. Seq(Enriched) \subseteq Seq(Enriched')
    BY <1>2, SeqMonotonic
  <2>2. AssetList \subseteq AssetList'
    BY <1>1, <1>2 DEF AssetList
  <2>3. events' \subseteq [asset : Enriched', pc : {"set", "create", "del"}]
    BY <1>1, <1>2 DEF MediaTypeOK
  <2>4. getting' \subseteq [asset : Enriched', pc : {"find", "insert", "queue", "image", "end"}]
    BY <1>1, <1>2 DEF MediaTypeOK
  <2>5. lateWrites' \subseteq [doc : {"ERROR", "COMPLETED"}] \union AssetList'
    BY <1>1, <2>2 DEF MediaTypeOK
  <2>6. cached' \in {<<>>} \union {<<list>> : list \in AssetList'}
    BY <1>1, <2>2 DEF MediaTypeOK
  <2>7. getJobs' \in Seq(Enriched')
    BY <1>1, <2>1 DEF MediaTypeOK
  <2> QED
    BY <1>1, <1>2, <2>3, <2>4, <2>5, <2>6, <2>7 DEF MediaTypeOK
<1>4. SourceIsKnown'
  BY <1>1 DEF SourceIsKnown, Storing
<1>5. ASSUME NEW a \in Enriched' \ (unsureAssets' \union burned') PROVE ImageComes(a)'
  <2>1. CASE a \in Enriched
    <3>1. ImageComes(a)
      BY <1>1, <1>5, <2>1 DEF ImagesCome
    <3> QED
      BY <1>1, <3>1 DEF ImageComes, Given, LookedUp, Listing, Storing, Uploading, Status
  <2>2. CASE a = b /\ a \notin Enriched
    <3>1. [asset |-> b, pc |-> "set"] \in events'
      BY <1>1, <1>5, <2>2
    <3> QED
      BY <2>2, <3>1 DEF ImageComes, LookedUp
  <2> QED
    BY <1>2, <1>5, <2>1, <2>2
<1> QED
  BY <1>3, <1>4, <1>5 DEF ImagesCome

\* The steps below enrich nothing.
LEMMA SameEnriched == UNCHANGED enriched => Enriched' = Enriched /\ AssetList' = AssetList
BY DEF Enriched, AssetList

LEMMA BurnTokenStep ==
    ASSUME MediaInv, NEW b \in Assets, BurnToken(b)
    PROVE  MediaInv'
<1> USE DEF MediaInv
<1>1. /\ burned' = burned \union {b} /\ image' = image \ {b}
      /\ UNCHANGED <<enriched, events, mediaFlags, getJobs, getting, mediaDocs, updateJobs, updating, lateWrites, cached,
                     unsureAssets>>
  BY DEF BurnToken
<1>2. Enriched' = Enriched /\ AssetList' = AssetList
  BY <1>1, SameEnriched
<1>3. MediaTypeOK'
  BY <1>1, <1>2 DEF MediaTypeOK
<1>4. SourceIsKnown'
  BY <1>1 DEF SourceIsKnown, Storing
<1>5. ASSUME NEW a \in Enriched' \ (unsureAssets' \union burned') PROVE ImageComes(a)'
  <2>1. ImageComes(a) /\ a # b
    BY <1>1, <1>2, <1>5 DEF ImagesCome
  <2> QED
    BY <1>1, <2>1 DEF ImageComes, Given, LookedUp, Listing, Storing, Uploading, Status
<1> QED
  BY <1>3, <1>4, <1>5 DEF ImagesCome

\* The elements of the queue of lookups.
LEMMA ToSetLemma == \A s : ToSet(s) = InFlight(s)
BY DEF ToSet, InFlight

LEMMA HandleGetMediaLinkStep ==
    ASSUME MediaInv, NEW e \in events, HandleGetMediaLink(e)
    PROVE  MediaInv'
<1> USE DEF MediaInv
<1> DEFINE next == [e EXCEPT !.pc = IF e.pc = "set" THEN "create" ELSE "del"]
<1>1. /\ events' = (events \ {e}) \union (IF e.pc = "del" THEN {} ELSE {next})
      /\ mediaFlags' \subseteq mediaFlags \union {e.asset}
      /\ getJobs' = IF e.pc = "create" THEN Append(getJobs, e.asset) ELSE getJobs
      /\ UNCHANGED <<enriched, burned, image, getting, mediaDocs, updateJobs, updating, lateWrites, cached, unsureAssets>>
  BY DEF HandleGetMediaLink
<1>2. e.asset \in Enriched /\ e.pc \in {"set", "create", "del"} /\ Enriched \subseteq Assets
  BY DEF MediaTypeOK, Enriched
<1>3. /\ next \in [asset : Enriched, pc : {"set", "create", "del"}] /\ next.asset = e.asset
      /\ e.pc = "set" => next.pc = "create"
  BY <1>2 DEF MediaTypeOK
<1>4. Enriched' = Enriched /\ AssetList' = AssetList
  BY <1>1, SameEnriched
<1>5. /\ getJobs \in Seq(Enriched)
      /\ Append(getJobs, e.asset) \in Seq(Enriched)
      /\ ToSet(Append(getJobs, e.asset)) = ToSet(getJobs) \union {e.asset}
  <2>1. getJobs \in Seq(Enriched)
    BY DEF MediaTypeOK
  <2> QED
    BY <1>2, <2>1, SendOneLemma, ToSetLemma
<1> HIDE DEF next
<1>6. MediaTypeOK'
  <2>1. events' \subseteq [asset : Enriched, pc : {"set", "create", "del"}]
    BY <1>1, <1>3 DEF MediaTypeOK
  <2>2. getJobs' \in Seq(Enriched)
    BY <1>1, <1>5
  <2> QED
    BY <1>1, <1>2, <1>4, <2>1, <2>2 DEF MediaTypeOK
<1>7. SourceIsKnown'
  BY <1>1 DEF SourceIsKnown, Storing
<1>8. ASSUME NEW a \in Enriched' \ (unsureAssets' \union burned') PROVE ImageComes(a)'
  <2>1. ImageComes(a)
    BY <1>1, <1>4, <1>8 DEF ImagesCome
  <2>2. LookedUp(a) => LookedUp(a)'
    <3>1. ASSUME NEW d \in events, d.asset = a, d.pc \in {"set", "create"} PROVE LookedUp(a)'
      <4>1. CASE d # e
        BY <1>1, <3>1, <4>1 DEF LookedUp
      <4>2. CASE d = e /\ e.pc = "set"
        BY <1>1, <1>3, <3>1, <4>2 DEF LookedUp
      <4>3. CASE d = e /\ e.pc = "create"
        BY <1>1, <1>5, <3>1, <4>3 DEF LookedUp
      <4> QED
        BY <3>1, <4>1, <4>2, <4>3
    <3>2. a \in ToSet(getJobs) => a \in ToSet(getJobs')
      BY <1>1, <1>5
    <3> QED
      BY <1>1, <3>1, <3>2 DEF LookedUp
  <2> QED
    BY <1>1, <2>1, <2>2 DEF ImageComes, Given, Listing, Storing, Uploading, Status
<1> QED
  BY <1>6, <1>7, <1>8 DEF ImagesCome

LEMMA RoomLemma ==
    ASSUME NEW S, NEW x, NEW n \in Nat, IsFiniteSet(S), Cardinality(S) < n
    PROVE  IsFiniteSet(S \union {x}) /\ Cardinality(S \union {x}) <= n
<1>1. Cardinality(S) \in Nat
  BY FS_CardinalityType
<1>2. IsFiniteSet(S \union {x}) /\ Cardinality(S \union {x}) \in {Cardinality(S), Cardinality(S) + 1}
  BY FS_AddElement
<1> QED
  BY <1>1, <1>2

LEMMA StartGetStep ==
    ASSUME MediaInv, StartGet
    PROVE  MediaInv'
<1> USE DEF MediaInv
<1> DEFINE b == Head(getJobs)
<1>1. /\ getJobs # <<>> /\ Cardinality(getting) < GetConcurrency
      /\ \/ unsureAssets' = unsureAssets \union {b} /\ UNCHANGED getting
         \/ getting' = getting \union {[asset |-> b, pc |-> "find"]} /\ UNCHANGED unsureAssets
      /\ getJobs' = Tail(getJobs)
      /\ UNCHANGED <<enriched, burned, image, events, mediaFlags, mediaDocs, updateJobs, updating, lateWrites, cached>>
  BY DEF StartGet
<1>2. b \in Enriched /\ Tail(getJobs) \in Seq(Enriched) /\ ToSet(getJobs) = {b} \union ToSet(Tail(getJobs))
  <2>1. getJobs \in Seq(Enriched)
    BY DEF MediaTypeOK
  <2> QED
    BY <1>1, <2>1, ArriveLemma, ToSetLemma
<1> HIDE DEF b
<1>3. Enriched' = Enriched /\ AssetList' = AssetList /\ Enriched \subseteq Assets
  BY <1>1, SameEnriched DEF Enriched
<1>4. MediaTypeOK'
  <2>1. IsFiniteSet(getting) /\ Cardinality(getting) <= GetConcurrency /\ GetConcurrency \in Nat
    BY MediaAssumption DEF MediaTypeOK
  <2>2. /\ IsFiniteSet(getting \union {[asset |-> b, pc |-> "find"]})
        /\ Cardinality(getting \union {[asset |-> b, pc |-> "find"]}) <= GetConcurrency
    BY <1>1, <2>1, RoomLemma
  <2>3. IsFiniteSet(getting') /\ Cardinality(getting') <= GetConcurrency
    BY <1>1, <2>1, <2>2
  <2>4. getting' \subseteq [asset : Enriched, pc : {"find", "insert", "queue", "image", "end"}]
    BY <1>1, <1>2 DEF MediaTypeOK
  <2> QED
    BY <1>1, <1>2, <1>3, <2>3, <2>4 DEF MediaTypeOK
<1>5. SourceIsKnown'
  BY <1>1 DEF SourceIsKnown, Storing
<1>6. ASSUME NEW a \in Enriched' \ (unsureAssets' \union burned') PROVE ImageComes(a)'
  <2>1. ImageComes(a)
    BY <1>1, <1>3, <1>6 DEF ImagesCome
  <2>2. LookedUp(a) => LookedUp(a)'
    <3>1. a = b => [asset |-> b, pc |-> "find"] \in getting'
      BY <1>1, <1>6
    <3> QED
      BY <1>1, <1>2, <3>1 DEF LookedUp
  <2>3. Uploading(a) => Uploading(a)'
    BY <1>1 DEF Uploading
  <2> QED
    BY <1>1, <2>1, <2>2, <2>3 DEF ImageComes, Given, Listing, Storing, Status
<1> QED
  BY <1>4, <1>5, <1>6 DEF ImagesCome

\* The first step of a lookup, by what it finds.
LEMMA FindMediaStep ==
    ASSUME MediaInv, NEW g \in getting, FindMedia(g)
    PROVE  MediaInv'
<1> USE DEF MediaInv
<1> DEFINE next == [g EXCEPT !.pc = NextStep]
<1>1. /\ g.pc = "find" /\ mediaFlags' = mediaFlags \union {g.asset}
      /\ getting' = (getting \ {g}) \union {next}
      /\ unsureAssets' = IF Kind = "CW4973" /\ NextStep = "end" /\ Storing
                         THEN unsureAssets \union {g.asset} ELSE unsureAssets
      /\ UNCHANGED <<enriched, burned, image, events, getJobs, mediaDocs, updateJobs, updating, lateWrites, cached>>
  BY DEF FindMedia, Storing
<1>2. g \in Lookups /\ Enriched \subseteq Assets
  BY DEF MediaTypeOK, Lookups, Enriched
<1>3. /\ NextStep \in {"insert", "image", "end"}
      /\ NextStep = "insert" => mediaDocs = <<>>
      /\ NextStep = "end" => Status # "COMPLETED"
  <2>1. mediaDocs # <<>> => mediaDocs[1] \in Statuses
    BY DocsLemma
  <2> QED
    BY <2>1 DEF NextStep, Status, Statuses
<1>4. next \in Lookups /\ next.asset = g.asset /\ next.pc = NextStep
  BY <1>2, <1>3 DEF Lookups
<1> HIDE DEF next
<1>5. Enriched' = Enriched /\ AssetList' = AssetList
  BY <1>1, SameEnriched
<1>6. MediaTypeOK'
  <2>1. getting' \subseteq Lookups /\ IsFiniteSet(getting') /\ Cardinality(getting') <= GetConcurrency
    BY <1>1, <1>4, LookupGoesOn
  <2>2. mediaFlags' \union unsureAssets' \subseteq Assets
    BY <1>1, <1>2 DEF MediaTypeOK, Lookups
  <2> QED
    BY <1>1, <1>5, <2>1, <2>2 DEF MediaTypeOK, Lookups
<1>7. SourceIsKnown'
  BY <1>1, <1>3, <1>4 DEF SourceIsKnown, Storing
<1>8. ASSUME NEW a \in Enriched' \ (unsureAssets' \union burned') PROVE ImageComes(a)'
  <2>1. ImageComes(a)
    BY <1>1, <1>5, <1>8 DEF ImagesCome
  <2>2. CASE a = g.asset
    <3>1. CASE NextStep = "image"
      BY <1>1, <1>4, <2>2, <3>1 DEF ImageComes, LookedUp
    <3>2. CASE NextStep = "insert"
      <4>1. ~Storing
        BY <1>3, <3>2 DEF SourceIsKnown, Storing
      <4> QED
        BY <1>1, <1>4, <2>2, <3>2, <4>1 DEF ImageComes, Uploading, Storing
    <3>3. CASE NextStep = "end"
      <4>1. ~Storing
        BY <1>1, <1>8, <2>2, <3>3 DEF SourceIsKnown
      <4> QED
        BY <1>1, <1>3, <3>3, <4>1 DEF ImageComes, Storing, Status
    <3> QED
      BY <1>3, <3>1, <3>2, <3>3
  <2>3. CASE a # g.asset
    <3>1. \A h \in getting : h.asset = a => h \in getting'
      BY <1>1, <2>3
    <3> QED
      BY <1>1, <2>1, <3>1 DEF ImageComes, Given, LookedUp, Listing, Storing, Uploading, Status
  <2> QED
    BY <2>2, <2>3
<1> QED
  BY <1>6, <1>7, <1>8 DEF ImagesCome

LEMMA InsertMediaStep ==
    ASSUME MediaInv, NEW g \in getting, InsertMedia(g)
    PROVE  MediaInv'
<1> USE DEF MediaInv
<1> DEFINE next == [g EXCEPT !.pc = "queue"]
<1>1. /\ g.pc = "insert" /\ getting' = (getting \ {g}) \union {next}
      /\ mediaDocs' = Append(mediaDocs, "HANDLING")
      /\ UNCHANGED <<enriched, burned, image, events, mediaFlags, getJobs, updateJobs, updating, lateWrites, cached, unsureAssets>>
  BY DEF InsertMedia
<1>2. next \in Lookups /\ next.asset = g.asset /\ next.pc = "queue"
  BY DEF MediaTypeOK, Lookups
<1> HIDE DEF next
<1>3. Enriched' = Enriched /\ AssetList' = AssetList
  BY <1>1, SameEnriched
<1>4. /\ mediaDocs' \in Seq(Statuses) /\ mediaDocs' # <<>>
      /\ Status # "COMPLETED" => Status' # "COMPLETED"
  BY <1>1, DocsLemma DEF Status
<1>5. MediaTypeOK'
  <2>1. getting' \subseteq Lookups /\ IsFiniteSet(getting') /\ Cardinality(getting') <= GetConcurrency
    BY <1>1, <1>2, LookupGoesOn
  <2> QED
    BY <1>1, <1>3, <1>4, <2>1 DEF MediaTypeOK, Lookups
<1>6. SourceIsKnown'
  BY <1>1, <1>4 DEF SourceIsKnown, Storing
<1>7. ASSUME NEW a \in Enriched' \ (unsureAssets' \union burned') PROVE ImageComes(a)'
  <2>1. ImageComes(a)
    BY <1>1, <1>3, <1>7 DEF ImagesCome
  <2>2. LookedUp(a) => LookedUp(a)'
    BY <1>1 DEF LookedUp
  <2>3. Uploading(a) => Uploading(a)'
    BY <1>1, <1>2 DEF Uploading
  <2> QED
    BY <1>1, <1>4, <2>1, <2>2, <2>3 DEF ImageComes, Given, Listing, Storing
<1> QED
  BY <1>5, <1>6, <1>7 DEF ImagesCome

LEMMA QueueUpdateStep ==
    ASSUME MediaInv, NEW g \in getting, QueueUpdate(g)
    PROVE  MediaInv'
<1> USE DEF MediaInv
<1> DEFINE next == [g EXCEPT !.pc = "end"]
<1>1. /\ g.pc = "queue" /\ getting' = (getting \ {g}) \union {next}
      /\ updateJobs' = Append(updateJobs, 0)
      /\ UNCHANGED <<enriched, burned, image, events, mediaFlags, getJobs, mediaDocs, updating, lateWrites, cached, unsureAssets>>
  BY DEF QueueUpdate
<1>2. next \in Lookups /\ next.pc = "end"
  BY DEF MediaTypeOK, Lookups
<1> HIDE DEF next
<1>3. Enriched' = Enriched /\ AssetList' = AssetList
  BY <1>1, SameEnriched
<1>4. updateJobs' \in Seq(0 .. UpdateAttempts - 1) /\ updateJobs' # <<>>
  <2>1. updateJobs \in Seq(0 .. UpdateAttempts - 1) /\ 0 \in 0 .. UpdateAttempts - 1
    BY MediaAssumption DEF MediaTypeOK
  <2> QED
    BY <1>1, <2>1
<1>5. MediaTypeOK'
  <2>1. getting' \subseteq Lookups /\ IsFiniteSet(getting') /\ Cardinality(getting') <= GetConcurrency
    BY <1>1, <1>2, LookupGoesOn
  <2> QED
    BY <1>1, <1>3, <1>4, <2>1 DEF MediaTypeOK, Lookups
<1>6. SourceIsKnown'
  BY <1>1 DEF SourceIsKnown, Storing
<1>7. ASSUME NEW a \in Enriched' \ (unsureAssets' \union burned') PROVE ImageComes(a)'
  <2>1. ImageComes(a)
    BY <1>1, <1>3, <1>7 DEF ImagesCome
  <2>2. LookedUp(a) => LookedUp(a)'
    BY <1>1 DEF LookedUp
  <2>3. Uploading(a)'
    BY <1>4 DEF Uploading
  <2> QED
    BY <1>1, <2>1, <2>2, <2>3 DEF ImageComes, Given, Listing, Storing
<1> QED
  BY <1>5, <1>6, <1>7 DEF ImagesCome

LEMMA GiveImageStep ==
    ASSUME MediaInv, NEW g \in getting, GiveImage(g)
    PROVE  MediaInv'
<1> USE DEF MediaInv
<1> DEFINE next == [g EXCEPT !.pc = "end"]
           new == [assets |-> {g.asset}, burned |-> burned]
<1>1. /\ g.pc = "image" /\ getting' = (getting \ {g}) \union {next}
      /\ lateWrites' = lateWrites \union {new}
      /\ UNCHANGED <<enriched, burned, image, events, mediaFlags, getJobs, mediaDocs, updateJobs, updating, cached, unsureAssets>>
  BY DEF GiveImage
<1>2. next \in Lookups /\ next.pc = "end" /\ g \in Lookups
  BY DEF MediaTypeOK, Lookups
<1>3. new \in AssetList /\ new.assets = {g.asset} /\ "assets" \in DOMAIN new /\ "doc" \notin DOMAIN new
  BY <1>2 DEF MediaTypeOK, Lookups, AssetList
<1> HIDE DEF next, new
<1>4. Enriched' = Enriched /\ AssetList' = AssetList
  BY <1>1, SameEnriched
<1>5. MediaTypeOK'
  <2>1. getting' \subseteq Lookups /\ IsFiniteSet(getting') /\ Cardinality(getting') <= GetConcurrency
    BY <1>1, <1>2, LookupGoesOn
  <2>2. lateWrites' \subseteq [doc : {"ERROR", "COMPLETED"}] \union AssetList
    BY <1>1, <1>3 DEF MediaTypeOK
  <2> QED
    BY <1>1, <1>4, <2>1, <2>2 DEF MediaTypeOK, Lookups
<1>6. Storing' => Storing
  BY <1>1, <1>3 DEF Storing
<1>7. SourceIsKnown'
  BY <1>1, <1>2, <1>3, <1>6 DEF SourceIsKnown
<1>8. ASSUME NEW a \in Enriched' \ (unsureAssets' \union burned') PROVE ImageComes(a)'
  <2>1. ImageComes(a)
    BY <1>1, <1>4, <1>8 DEF ImagesCome
  <2>2. CASE a = g.asset
    BY <1>1, <1>3, <2>2 DEF ImageComes, Given
  <2>3. CASE a # g.asset
    <3>1. \A h \in getting : h.asset = a => h \in getting'
      BY <1>1, <2>3
    <3>2. lateWrites \subseteq lateWrites'
      BY <1>1
    <3> QED
      BY <1>1, <1>6, <2>1, <3>1, <3>2 DEF ImageComes, Given, LookedUp, Listing, Uploading, Status
  <2> QED
    BY <2>2, <2>3
<1> QED
  BY <1>5, <1>7, <1>8 DEF ImagesCome

LEMMA EndGetStep ==
    ASSUME MediaInv, NEW g \in getting, EndGet(g)
    PROVE  MediaInv'
<1> USE DEF MediaInv
<1>1. /\ g.pc = "end" /\ getting' = getting \ {g} /\ mediaFlags' = mediaFlags \ {g.asset}
      /\ UNCHANGED <<enriched, burned, image, events, getJobs, mediaDocs, updateJobs, updating, lateWrites, cached, unsureAssets>>
  BY DEF EndGet
<1>2. Enriched' = Enriched /\ AssetList' = AssetList
  BY <1>1, SameEnriched
<1>3. MediaTypeOK'
  <2>1. g \in Lookups
    BY DEF MediaTypeOK, Lookups
  <2>2. IsFiniteSet(getting') /\ Cardinality(getting') <= GetConcurrency
    BY <1>1, <2>1, LookupGoesOn
  <2> QED
    BY <1>1, <1>2, <2>2 DEF MediaTypeOK
<1>4. SourceIsKnown'
  BY <1>1 DEF SourceIsKnown, Storing
<1>5. ASSUME NEW a \in Enriched' \ (unsureAssets' \union burned') PROVE ImageComes(a)'
  <2>1. ImageComes(a)
    BY <1>1, <1>2, <1>5 DEF ImagesCome
  <2> QED
    BY <1>1, <2>1 DEF ImageComes, Given, LookedUp, Listing, Storing, Uploading, Status
<1> QED
  BY <1>3, <1>4, <1>5 DEF ImagesCome

\* A flag or a cached list that expires says nothing of an image.
LEMMA ExpiryStep ==
    ASSUME MediaInv, (\E a \in Assets : MediaFlagExpires(a)) \/ CacheExpires
    PROVE  MediaInv'
<1> USE DEF MediaInv
<1>1. /\ mediaFlags' \subseteq mediaFlags /\ cached' \in {cached, <<>>}
      /\ UNCHANGED <<enriched, burned, image, events, getJobs, getting, mediaDocs, updateJobs, updating, lateWrites, unsureAssets>>
  BY DEF MediaFlagExpires, CacheExpires
<1>2. Enriched' = Enriched /\ AssetList' = AssetList
  BY <1>1, SameEnriched
<1>3. MediaTypeOK'
  BY <1>1, <1>2 DEF MediaTypeOK
<1>4. SourceIsKnown'
  BY <1>1 DEF SourceIsKnown, Storing
<1>5. ASSUME NEW a \in Enriched' \ (unsureAssets' \union burned') PROVE ImageComes(a)'
  <2>1. ImageComes(a)
    BY <1>1, <1>2, <1>5 DEF ImagesCome
  <2> QED
    BY <1>1, <2>1 DEF ImageComes, Given, LookedUp, Listing, Storing, Uploading, Status
<1> QED
  BY <1>3, <1>4, <1>5 DEF ImagesCome

LEMMA StartUpdateStep ==
    ASSUME MediaInv, StartUpdate
    PROVE  MediaInv'
<1> USE DEF MediaInv
<1> DEFINE u == [tries |-> Head(updateJobs) + 1, pc |-> "upload"]
<1>1. /\ updating = <<>> /\ updateJobs # <<>> /\ updating' = <<u>> /\ updateJobs' = Tail(updateJobs)
      /\ UNCHANGED <<enriched, burned, image, events, mediaFlags, getJobs, getting, mediaDocs, lateWrites, cached, unsureAssets>>
  BY DEF StartUpdate
<1>2. u \in Updates /\ Tail(updateJobs) \in Seq(0 .. UpdateAttempts - 1) /\ mediaDocs # <<>>
  <2>1. updateJobs \in Seq(0 .. UpdateAttempts - 1) /\ UpdateAttempts \in Nat
    BY MediaAssumption DEF MediaTypeOK
  <2>2. Head(updateJobs) \in 0 .. UpdateAttempts - 1 /\ Tail(updateJobs) \in Seq(0 .. UpdateAttempts - 1)
    BY <1>1, <2>1, ArriveLemma
  <2>3. Head(updateJobs) + 1 \in 1 .. UpdateAttempts
    BY <2>1, <2>2
  <2> QED
    BY <1>1, <2>2, <2>3 DEF Updates, SourceIsKnown
<1> HIDE DEF u
<1>3. Enriched' = Enriched /\ AssetList' = AssetList
  BY <1>1, SameEnriched
<1>4. MediaTypeOK'
  <2>1. updating' \in {<<>>} \union {<<x>> : x \in Updates}
    BY <1>1, <1>2
  <2> QED
    BY <1>1, <1>2, <1>3, <2>1 DEF MediaTypeOK, Updates
<1>5. SourceIsKnown'
  BY <1>1, <1>2 DEF SourceIsKnown, Storing
<1>6. ASSUME NEW a \in Enriched' \ (unsureAssets' \union burned') PROVE ImageComes(a)'
  <2>1. ImageComes(a)
    BY <1>1, <1>3, <1>6 DEF ImagesCome
  <2>2. Uploading(a)' /\ ~Listing
    BY <1>1 DEF Uploading, Listing
  <2> QED
    BY <1>1, <2>1, <2>2 DEF ImageComes, Given, LookedUp, Storing, Status
<1> QED
  BY <1>4, <1>5, <1>6 DEF ImagesCome

LEMMA UploadFailsStep ==
    ASSUME MediaInv, UploadFails
    PROVE  MediaInv'
<1> USE DEF MediaInv
<1>1. /\ updating # <<>> /\ updating[1].pc = "upload" /\ updating' = <<>>
      /\ lateWrites' = lateWrites \union {[doc |-> "ERROR"]}
      /\ updateJobs' = IF updating[1].tries < UpdateAttempts THEN Append(updateJobs, updating[1].tries) ELSE updateJobs
      /\ UNCHANGED <<enriched, burned, image, events, mediaFlags, getJobs, getting, mediaDocs, cached, unsureAssets>>
  BY DEF UploadFails
<1>2. updateJobs' \in Seq(0 .. UpdateAttempts - 1)
  <2>1. updateJobs \in Seq(0 .. UpdateAttempts - 1) /\ UpdateAttempts \in Nat
    BY MediaAssumption DEF MediaTypeOK
  <2>2. updating[1].tries \in 1 .. UpdateAttempts
    BY <1>1, UpdatingLemma DEF Updates
  <2>3. CASE updating[1].tries < UpdateAttempts
    <3>1. updating[1].tries \in 0 .. UpdateAttempts - 1
      BY <2>1, <2>2, <2>3
    <3> QED
      BY <1>1, <2>1, <2>3, <3>1, SendOneLemma
  <2> QED
    BY <1>1, <2>1, <2>3
<1>3. Enriched' = Enriched /\ AssetList' = AssetList
  BY <1>1, SameEnriched
<1>4. MediaTypeOK'
  <2>1. lateWrites' \subseteq [doc : {"ERROR", "COMPLETED"}] \union AssetList
    BY <1>1 DEF MediaTypeOK
  <2> QED
    BY <1>1, <1>2, <1>3, <2>1 DEF MediaTypeOK
<1>5. Storing' => Storing
  <2>1. [doc |-> "ERROR"].doc # [doc |-> "COMPLETED"].doc
    OBVIOUS
  <2> QED
    BY <1>1, <2>1 DEF Storing
<1>6. mediaDocs # <<>>
  BY <1>1 DEF SourceIsKnown
<1>7. SourceIsKnown'
  BY <1>1, <1>5, <1>6 DEF SourceIsKnown
<1>8. ASSUME NEW a \in Enriched' \ (unsureAssets' \union burned') PROVE ImageComes(a)'
  <2>1. ImageComes(a)
    BY <1>1, <1>3, <1>8 DEF ImagesCome
  <2>2. Uploading(a)' /\ ~Listing
    BY <1>1 DEF Uploading, Listing
  <2>3. Given(a) => Given(a)'
    BY <1>1 DEF Given
  <2> QED
    BY <1>1, <1>5, <2>1, <2>2, <2>3 DEF ImageComes, LookedUp, Status
<1> QED
  BY <1>4, <1>7, <1>8 DEF ImagesCome

LEMMA StoreMediaStep ==
    ASSUME MediaInv, StoreMedia
    PROVE  MediaInv'
<1> USE DEF MediaInv
<1> DEFINE u == [updating[1] EXCEPT !.pc = "assets"]
<1>1. /\ updating # <<>> /\ updating[1].pc = "upload" /\ updating' = <<u>>
      /\ UNCHANGED <<enriched, burned, image, events, mediaFlags, getJobs, getting, updateJobs, cached, unsureAssets>>
  BY DEF StoreMedia
<1>2. \/ Kind = "CW721" /\ mediaDocs' = [mediaDocs EXCEPT ![1] = "COMPLETED"] /\ UNCHANGED lateWrites
      \/ /\ Kind = "CW4973" /\ lateWrites' = lateWrites \union {[doc |-> "COMPLETED"]}
         /\ UNCHANGED mediaDocs
  BY MediaAssumption DEF StoreMedia, SetStatus
<1>3. u \in Updates /\ u.pc = "assets"
  BY <1>1, UpdatingLemma DEF Updates
<1> HIDE DEF u
<1>4. Enriched' = Enriched /\ AssetList' = AssetList
  BY <1>1, SameEnriched
<1>5. mediaDocs # <<>> /\ mediaDocs' \in Seq(Statuses) /\ mediaDocs' # <<>>
  <2>1. mediaDocs # <<>>
    BY <1>1 DEF SourceIsKnown
  <2> QED
    BY <1>2, <2>1, DocsLemma DEF Statuses, MediaTypeOK
<1>6. MediaTypeOK'
  <2>1. updating' \in {<<>>} \union {<<x>> : x \in Updates}
    BY <1>1, <1>3
  <2>2. lateWrites' \subseteq [doc : {"ERROR", "COMPLETED"}] \union AssetList
    BY <1>2 DEF MediaTypeOK
  <2> QED
    BY <1>1, <1>4, <1>5, <2>1, <2>2 DEF MediaTypeOK, Updates
<1>7. SourceIsKnown'
  BY <1>1, <1>2, <1>5 DEF SourceIsKnown, Storing
<1>8. Listing'
  BY <1>1, <1>3 DEF Listing
<1> QED
  BY <1>6, <1>7, <1>8 DEF ImagesCome, ImageComes

\* The assets are listed: each gets the file, or was not in the cached list.
LEMMA FindAssetsStep ==
    ASSUME MediaInv, FindAssets
    PROVE  MediaInv'
<1> USE DEF MediaInv
<1> DEFINE list == IF cached = <<>> THEN [assets |-> Enriched, burned |-> burned] ELSE cached[1]
           held == IF Kind = "CW4973" /\ Storing THEN {g.asset : g \in {x \in getting : x.pc = "end"}} ELSE {}
<1>1. /\ updating # <<>> /\ updating' = <<>>
      /\ lateWrites' = lateWrites \union {list} /\ cached' = <<list>>
      /\ unsureAssets' = unsureAssets \union (Enriched \ list.assets) \union held
      /\ UNCHANGED <<enriched, burned, image, events, mediaFlags, getJobs, getting, mediaDocs, updateJobs>>
  BY DEF FindAssets, Storing
<1>2. list \in AssetList
  <2>1. CASE cached = <<>>
    BY <2>1 DEF AssetList, MediaTypeOK
  <2>2. CASE cached # <<>>
    <3>1. PICK x \in AssetList : cached = <<x>>
      BY <2>2 DEF MediaTypeOK
    <3> QED
      BY <2>2, <3>1
  <2> QED
    BY <2>1, <2>2
<1>3. held \subseteq Assets /\ Enriched \subseteq Assets
  BY DEF MediaTypeOK, Enriched
<1>4. "assets" \in DOMAIN list /\ "doc" \notin DOMAIN list
  <2>1. DOMAIN list = {"assets", "burned"}
    <3> HIDE DEF list
    <3> QED
      BY <1>2 DEF AssetList
  <2> QED
    BY <2>1
<1> HIDE DEF list, held
<1>5. Enriched' = Enriched /\ AssetList' = AssetList
  BY <1>1, SameEnriched
<1>6. MediaTypeOK'
  <2>1. updating' \in {<<>>} \union {<<x>> : x \in Updates}
    BY <1>1
  <2>2. lateWrites' \subseteq [doc : {"ERROR", "COMPLETED"}] \union AssetList
    BY <1>1, <1>2 DEF MediaTypeOK
  <2>3. cached' \in {<<>>} \union {<<x>> : x \in AssetList}
    BY <1>1, <1>2
  <2>4. unsureAssets' \subseteq Assets
    BY <1>1, <1>3 DEF MediaTypeOK
  <2> QED
    BY <1>1, <1>5, <2>1, <2>2, <2>3, <2>4 DEF MediaTypeOK, Updates
<1>7. SourceIsKnown'
  <2>1. Storing' => Storing
    BY <1>1, <1>4 DEF Storing
  <2> QED
    BY <1>1, <1>4, <2>1 DEF SourceIsKnown
<1>8. ASSUME NEW a \in Enriched' \ (unsureAssets' \union burned') PROVE ImageComes(a)'
  <2>1. a \in list.assets
    BY <1>1, <1>5, <1>8
  <2> QED
    BY <1>1, <1>4, <2>1 DEF ImageComes, Given
<1> QED
  BY <1>6, <1>7, <1>8 DEF ImagesCome

LEMMA LateLandsStep ==
    ASSUME MediaInv, NEW w \in lateWrites, LateLands(w)
    PROVE  MediaInv'
<1> USE DEF MediaInv
<1>1. /\ lateWrites' = lateWrites \ {w}
      /\ UNCHANGED <<enriched, events, mediaFlags, getJobs, getting, updateJobs, updating, cached, unsureAssets>>
  BY DEF LateLands
<1>2. Enriched' = Enriched /\ AssetList' = AssetList /\ (Storing' => Storing)
  BY <1>1, SameEnriched DEF Storing
<1>3. CASE "doc" \in DOMAIN w
  <2>1. w = [doc |-> w.doc] /\ w.doc \in {"ERROR", "COMPLETED"} /\ "assets" \notin DOMAIN w
    BY <1>3, LateLemma
  <2>2. mediaDocs' = [mediaDocs EXCEPT ![1] = w.doc] /\ UNCHANGED <<image, burned>>
    BY <1>3 DEF LateLands, SetStatus
  <2>3. mediaDocs # <<>>
    BY <1>3 DEF SourceIsKnown
  <2>4. mediaDocs' \in Seq(Statuses) /\ mediaDocs' # <<>> /\ mediaDocs'[1] = w.doc
    BY <2>1, <2>2, <2>3, DocsLemma DEF Statuses
  <2>5. MediaTypeOK'
    BY <1>1, <1>2, <2>2, <2>4 DEF MediaTypeOK
  <2>6. SourceIsKnown'
    BY <1>1, <1>2, <2>4 DEF SourceIsKnown
  <2>7. ASSUME NEW a \in Enriched' \ (unsureAssets' \union burned') PROVE ImageComes(a)'
    <3>1. ImageComes(a)
      BY <1>1, <1>2, <2>2, <2>7 DEF ImagesCome
    <3>2. Given(a) => Given(a)'
      BY <1>1, <2>1, <2>2 DEF Given
    <3>3. (LookedUp(a) => LookedUp(a)') /\ (Listing => Listing')
      BY <1>1 DEF LookedUp, Listing
    <3>4. CASE ~Storing /\ (Uploading(a) \/ Status # "COMPLETED")
      <4>1. w.doc = "ERROR"
        BY <2>1, <3>4 DEF Storing
      <4>2. Status' # "COMPLETED"
        BY <2>4, <4>1 DEF Status
      <4> QED
        BY <1>2, <3>4, <4>2 DEF ImageComes
    <3> QED
      BY <3>1, <3>2, <3>3, <3>4 DEF ImageComes
  <2> QED
    BY <2>5, <2>6, <2>7 DEF ImagesCome
<1>4. CASE "doc" \notin DOMAIN w
  <2>1. w \in AssetList /\ w.assets \subseteq Enriched /\ w.burned \subseteq Assets
    BY <1>4, LateLemma
  <2>2. /\ image' = image \union w.assets
        /\ burned' = IF Kind = "CW721" THEN burned ELSE {a \in burned : a \in w.assets => a \in w.burned}
        /\ UNCHANGED mediaDocs
    BY <1>4 DEF LateLands, WriteImage
  <2>3. burned' \subseteq burned /\ \A a \in burned \ burned' : a \in w.assets
    BY <2>2
  <2>4. MediaTypeOK'
    BY <1>1, <1>2, <2>1, <2>2, <2>3 DEF MediaTypeOK
  <2>5. SourceIsKnown'
    BY <1>1, <1>2, <2>2 DEF SourceIsKnown
  <2>6. ASSUME NEW a \in Enriched' \ (unsureAssets' \union burned') PROVE ImageComes(a)'
    <3>1. CASE a \in w.assets
      BY <2>2, <3>1 DEF ImageComes, Given
    <3>2. CASE a \notin w.assets
      <4>1. ImageComes(a)
        BY <1>1, <1>2, <2>3, <2>6, <3>2 DEF ImagesCome
      <4>2. Given(a) => Given(a)'
        BY <1>1, <2>2, <3>2 DEF Given
      <4>3. Uploading(a) => Uploading(a)'
        <5>1. w # [doc |-> "ERROR"]
          BY <1>4
        <5> QED
          BY <1>1, <5>1 DEF Uploading
      <4> QED
        BY <1>1, <1>2, <2>2, <4>1, <4>2, <4>3 DEF ImageComes, LookedUp, Listing, Status
    <3> QED
      BY <3>1, <3>2
  <2> QED
    BY <2>4, <2>5, <2>6 DEF ImagesCome
<1> QED
  BY <1>3, <1>4

\* A finite set as a list: all its elements and no others.
LEMMA SetToSeqLemma ==
    ASSUME NEW S, IsFiniteSet(S)
    PROVE  SetToSeq(S) \in Seq(S) /\ ToSet(SetToSeq(S)) = S
<1> DEFINE n == Cardinality(S)
<1>1. n \in Nat /\ ExistsBijection(1 .. n, S)
  BY FS_CardinalityType
<1>2. \E f \in [1 .. n -> S] : IsInjective(f)
  BY <1>1 DEF ExistsBijection, Bijection, Injection, IsInjective
<1>3. SetToSeq(S) \in [1 .. n -> S] /\ IsInjective(SetToSeq(S))
  BY <1>2 DEF SetToSeq
<1>4. SetToSeq(S) \in Injection(1 .. n, S)
  BY <1>3 DEF Injection, IsInjective
<1>5. IsFiniteSet(1 .. n) /\ Cardinality(1 .. n) = n
  BY <1>1, FS_Interval
<1>6. SetToSeq(S) \in Surjection(1 .. n, S)
  BY <1>4, <1>5, FS_Injection
<1>7. SetToSeq(S) \in Seq(S) /\ DOMAIN SetToSeq(S) = 1 .. n
  <2> HIDE DEF n
  <2> QED
    BY <1>1, <1>3
<1> QED
  BY <1>3, <1>6, <1>7 DEF Surjection, ToSet

LEMMA CrashMediaStep ==
    ASSUME MediaInv, CrashMedia
    PROVE  MediaInv'
<1> USE DEF MediaInv
<1> DEFINE again == {g.asset : g \in getting}
           redone == [i \in DOMAIN updating |-> updating[i].tries - 1]
<1>1. /\ getJobs' = SetToSeq(again) \o getJobs
      /\ unsureAssets' = unsureAssets \union {e.asset : e \in events}
             \union (IF lateWrites # {} THEN Assets ELSE {})
      /\ updateJobs' = redone \o updateJobs
      /\ events' = {} /\ getting' = {} /\ updating' = <<>> /\ lateWrites' = {}
      /\ UNCHANGED <<enriched, burned, image, mediaFlags, mediaDocs, cached>>
  BY DEF CrashMedia
<1>2. Enriched' = Enriched /\ AssetList' = AssetList /\ Enriched \subseteq Assets
  BY <1>1, SameEnriched DEF Enriched
<1>3. IsFiniteSet(again) /\ again \subseteq Enriched
  <2>1. [g \in getting |-> g.asset] \in Surjection(getting, again)
    BY DEF Surjection
  <2>2. IsFiniteSet(getting)
    BY DEF MediaTypeOK
  <2> HIDE DEF again
  <2>3. IsFiniteSet(again)
    BY <2>1, <2>2, FS_Surjection
  <2>4. again \subseteq Enriched
    BY DEF again, MediaTypeOK
  <2> QED
    BY <2>3, <2>4
<1> HIDE DEF again
<1>4. getJobs' \in Seq(Enriched) /\ ToSet(getJobs') = again \union ToSet(getJobs)
  <2>1. SetToSeq(again) \in Seq(again) /\ ToSet(SetToSeq(again)) = again
    BY <1>3, SetToSeqLemma
  <2>2. SetToSeq(again) \in Seq(Enriched)
    BY <1>3, <2>1, SeqMonotonic
  <2>3. getJobs \in Seq(Enriched)
    BY DEF MediaTypeOK
  <2> QED
    BY <1>1, <2>1, <2>2, <2>3, SendLemma, ToSetLemma
<1>5. redone \in Seq(0 .. UpdateAttempts - 1) /\ (updating # <<>> => redone # <<>>)
  <2>1. CASE updating = <<>>
    <3>1. redone = <<>>
      BY <2>1
    <3> QED
      BY <2>1, <3>1
  <2>2. CASE updating # <<>>
    <3>1. updating[1] \in Updates /\ DOMAIN updating = 1 .. 1 /\ UpdateAttempts \in Nat
      BY <2>2, UpdatingLemma, MediaAssumption
    <3>2. updating[1].tries - 1 \in 0 .. UpdateAttempts - 1
      BY <3>1 DEF Updates
    <3>3. redone \in [1 .. 1 -> 0 .. UpdateAttempts - 1]
      BY <3>1, <3>2
    <3>4. redone # <<>>
      <4>1. DOMAIN redone # {}
        BY <3>1
      <4> QED
        BY <4>1
    <3> HIDE DEF redone
    <3> QED
      BY <3>3, <3>4, ListLemma
  <2> QED
    BY <2>1, <2>2
<1> HIDE DEF redone
<1>6. /\ updateJobs' \in Seq(0 .. UpdateAttempts - 1)
      /\ updateJobs # <<>> \/ updating # <<>> => updateJobs' # <<>>
      /\ updateJobs' # <<>> => updateJobs # <<>> \/ updating # <<>>
  <2>1. updateJobs \in Seq(0 .. UpdateAttempts - 1)
    BY DEF MediaTypeOK
  <2>2. updateJobs' \in Seq(0 .. UpdateAttempts - 1)
    BY <1>1, <1>5, <2>1, SendLemma
  <2>3. updateJobs' = <<>> <=> redone = <<>> /\ updateJobs = <<>>
    BY <1>1, <1>5, <2>1, ConcatEqualIffEmpty, ConcatEmptySeq, ConcatProperties, EmptySeq
  <2>4. updating = <<>> => redone = <<>>
    BY DEF redone
  <2> QED
    BY <1>5, <2>2, <2>3, <2>4
<1>7. MediaTypeOK'
  <2>1. IsFiniteSet({}) /\ Cardinality({}) = 0 /\ GetConcurrency \in Nat
    BY FS_EmptySet, MediaAssumption
  <2>2. unsureAssets' \subseteq Assets
    BY <1>1, <1>2 DEF MediaTypeOK
  <2> QED
    BY <1>1, <1>2, <1>4, <1>6, <2>1, <2>2 DEF MediaTypeOK
<1>8. SourceIsKnown'
  BY <1>1, <1>6 DEF SourceIsKnown, Storing
<1>9. ASSUME NEW a \in Enriched' \ (unsureAssets' \union burned') PROVE ImageComes(a)'
  <2>1. ImageComes(a) /\ lateWrites = {} /\ \A e \in events : e.asset # a
    BY <1>1, <1>2, <1>9 DEF ImagesCome
  <2>2. CASE Given(a)
    BY <1>1, <2>1, <2>2 DEF ImageComes, Given
  <2>3. CASE LookedUp(a)
    <3>1. a \in again \union ToSet(getJobs)
      BY <2>1, <2>3 DEF LookedUp, again
    <3> QED
      BY <1>4, <3>1 DEF ImageComes, LookedUp
  <2>4. CASE Listing
    BY <1>1, <1>6, <2>4 DEF ImageComes, Listing, Uploading, Storing
  <2>5. CASE Uploading(a)
    <3>1. a \in again \/ updateJobs # <<>> \/ updating # <<>>
      BY <2>1, <2>5 DEF Uploading, again
    <3>2. CASE a \in again
      BY <1>4, <3>2 DEF ImageComes, LookedUp
    <3>3. CASE updateJobs # <<>> \/ updating # <<>>
      BY <1>1, <1>6, <3>3 DEF ImageComes, Uploading, Storing
    <3> QED
      BY <3>1, <3>2, <3>3
  <2>6. CASE Status # "COMPLETED"
    BY <1>1, <2>6 DEF ImageComes, Storing, Status
  <2> QED
    BY <2>1, <2>2, <2>3, <2>4, <2>5, <2>6 DEF ImageComes
<1> QED
  BY <1>7, <1>8, <1>9 DEF ImagesCome

LEMMA NextMediaInv == MediaInv /\ [MediaNext]_mediaVars => MediaInv'
<1> SUFFICES ASSUME MediaInv, [MediaNext]_mediaVars PROVE MediaInv'
  OBVIOUS
<1>1. CASE GetNext
  BY <1>1, HandleGetMediaLinkStep, StartGetStep, FindMediaStep, InsertMediaStep, QueueUpdateStep, GiveImageStep,
     EndGetStep DEF GetNext
<1>2. CASE UpdateNext
  BY <1>2, StartUpdateStep, UploadFailsStep, StoreMediaStep, FindAssetsStep DEF UpdateNext
<1>3. CASE LateNext
  BY <1>3, LateLandsStep DEF LateNext
<1>4. CASE UNCHANGED mediaVars
  <2>1. Enriched' = Enriched /\ AssetList' = AssetList
    BY <1>4, SameEnriched DEF mediaVars
  <2>2. MediaTypeOK'
    BY <1>4, <2>1 DEF MediaInv, MediaTypeOK, mediaVars
  <2>3. SourceIsKnown'
    BY <1>4 DEF MediaInv, SourceIsKnown, Storing, mediaVars
  <2>4. \A a : ImageComes(a)' <=> ImageComes(a)
    BY <1>4 DEF ImageComes, Given, LookedUp, Listing, Storing, Uploading, Status, mediaVars
  <2>5. ImagesCome'
    BY <1>4, <2>1, <2>4 DEF MediaInv, ImagesCome, mediaVars
  <2> QED
    BY <2>2, <2>3, <2>5 DEF MediaInv
<1> QED
  BY <1>1, <1>2, <1>3, <1>4, EnrichTokenStep, BurnTokenStep, ExpiryStep, CrashMediaStep DEF MediaNext

\* An image that comes has come when nothing is under way.
LEMMA ComesAtRest == ImagesCome => EveryAssetGetsImage
<1> SUFFICES ASSUME ImagesCome, MediaAtRest, Status = "COMPLETED",
                    NEW a \in Enriched \ (unsureAssets \union burned)
             PROVE  a \in image
  BY DEF EveryAssetGetsImage
<1>1. ImageComes(a)
  BY DEF ImagesCome
<1>2. ToSet(getJobs) = {}
  BY DEF MediaAtRest, ToSet
<1> QED
  BY <1>1, <1>2 DEF MediaAtRest, ImageComes, Given, LookedUp, Listing, Uploading

\* All assets of a completed source have their image when nothing is under way,
\* however lookups, downloads, late writes, retries and deaths interleave
\* (cw721-asset-media.service.ts:168, cw721-asset-media-manager.service.ts:170-204).
THEOREM AssetsGetTheirImage == MediaSpec => []EveryAssetGetsImage
<1>1. MediaInv => EveryAssetGetsImage
  BY ComesAtRest DEF MediaInv
<1> QED
  BY <1>1, InitMediaInv, NextMediaInv, PTL DEF MediaSpec

\* The lookups that are about to queue a job, a late error, and the file known to be there.
Queueing == {g \in getting : g.pc = "queue"}
ErrorLate == [doc |-> "ERROR"] \in lateWrites
FileKnown == Status = "COMPLETED" \/ Storing

\* The way of a job that is alone: queued, waiting for its first or a later attempt, uploading, and after that.
AtQueue ==
    /\ (\E g \in getting : Queueing = {g}) /\ updateJobs = <<>> /\ updating = <<>>
    /\ ~ErrorLate /\ ~FileKnown
AtJob ==
    /\ Queueing = {} /\ updating = <<>> /\ ~FileKnown
    /\ \E n \in Nat : updateJobs = <<n>> /\ (n = 0 => ~ErrorLate)
AtUpload ==
    /\ Queueing = {} /\ updateJobs = <<>> /\ updating # <<>> /\ updating[1].pc = "upload"
    /\ ~ErrorLate /\ ~FileKnown
AfterUpload ==
    /\ Queueing = {} /\ updateJobs = <<>> /\ (updating # <<>> => updating[1].pc = "assets")
    /\ FileKnown => ~ErrorLate

OneUpdate == mediaDocs = <<>> \/ AtQueue \/ AtJob \/ AtUpload \/ AfterUpload

\* With one document there is one job.
OneDocument == mediaCrashes = 0 /\ Len(mediaDocs) <= 1
OnceInv == mediaCrashes \in Nat /\ (OneDocument => OneUpdate)

LEMMA InitOnce == MediaInit => OnceInv
BY DEF MediaInit, OnceInv, OneUpdate

\* Without a document nothing is under way.
LEMMA NothingKnownLemma ==
    ASSUME MediaInv, mediaDocs = <<>>
    PROVE  /\ Queueing = {} /\ updateJobs = <<>> /\ updating = <<>>
           /\ ~ErrorLate /\ ~FileKnown
<1>1. /\ updateJobs = <<>> /\ updating = <<>>
      /\ ~\E g \in getting : g.pc = "queue"
      /\ ~\E w \in lateWrites : "doc" \in DOMAIN w
  BY DEF MediaInv, SourceIsKnown
<1>2. "doc" \in DOMAIN [doc |-> "ERROR"] /\ "doc" \in DOMAIN [doc |-> "COMPLETED"]
  OBVIOUS
<1> QED
  BY <1>1, <1>2 DEF Queueing, ErrorLate, FileKnown, Storing, Status

\* A step that does not touch the job, its errors or the status is of no concern.
LEMMA NoConcern ==
    ASSUME OneUpdate, Queueing' = Queueing, UNCHANGED <<updateJobs, updating, mediaDocs>>,
           ErrorLate' = ErrorLate, Storing' = Storing
    PROVE  OneUpdate'
<1>1. FileKnown' = FileKnown
  BY DEF FileKnown, Status
<1>2. (\E g \in getting : Queueing = {g}) => (\E g \in getting' : Queueing' = {g})
  BY DEF Queueing
<1> QED
  BY <1>1, <1>2 DEF OneUpdate, AtQueue, AtJob, AtUpload, AfterUpload

\* Nor is one of a lookup that is not about to queue a job.
LEMMA LookupStep ==
    ASSUME MediaInv, OneUpdate, NEW g \in getting, FindMedia(g) \/ GiveImage(g) \/ EndGet(g)
    PROVE  OneUpdate'
<1>1. g \in Lookups
  BY DEF MediaInv, MediaTypeOK, Lookups
<1>2. Queueing' = Queueing
  <2>1. \A pc : [g EXCEPT !.pc = pc].pc = pc
    BY <1>1 DEF Lookups
  <2>2. g.pc # "queue" /\ NextStep # "queue"
    BY DEF FindMedia, GiveImage, EndGet, NextStep
  <2>3. CASE EndGet(g)
    BY <2>2, <2>3 DEF EndGet, Queueing
  <2>4. CASE FindMedia(g)
    <3>1. getting' = (getting \ {g}) \union {[g EXCEPT !.pc = NextStep]}
      BY <2>4 DEF FindMedia
    <3>2. [g EXCEPT !.pc = NextStep].pc # "queue"
      BY <2>1, <2>2
    <3> QED
      BY <2>2, <3>1, <3>2 DEF Queueing
  <2>5. CASE GiveImage(g)
    <3>1. getting' = (getting \ {g}) \union {[g EXCEPT !.pc = "end"]}
      BY <2>5 DEF GiveImage
    <3>2. [g EXCEPT !.pc = "end"].pc # "queue"
      BY <2>1
    <3> QED
      BY <2>2, <3>1, <3>2 DEF Queueing
  <2> QED
    BY <2>3, <2>4, <2>5
<1>3. UNCHANGED <<updateJobs, updating, mediaDocs>>
  BY DEF FindMedia, GiveImage, EndGet
<1>4. ErrorLate' = ErrorLate /\ Storing' = Storing
  <2>1. CASE GiveImage(g)
    <3>1. lateWrites' = lateWrites \union {[assets |-> {g.asset}, burned |-> burned]}
      BY <2>1 DEF GiveImage
    <3>2. \A s : [doc |-> s] # [assets |-> {g.asset}, burned |-> burned]
      <4>1. \A s : "doc" \in DOMAIN [doc |-> s]
        OBVIOUS
      <4>2. "doc" \notin DOMAIN [assets |-> {g.asset}, burned |-> burned]
        OBVIOUS
      <4> QED
        BY <4>1, <4>2
    <3> QED
      BY <3>1, <3>2 DEF ErrorLate, Storing
  <2>2. CASE FindMedia(g) \/ EndGet(g)
    BY <2>2 DEF FindMedia, EndGet, ErrorLate, Storing
  <2> QED
    BY <2>1, <2>2
<1> QED
  BY <1>2, <1>3, <1>4, NoConcern

\* The first document comes with the first job.
LEMMA InsertOnceStep ==
    ASSUME MediaInv, OneDocument', NEW g \in getting, InsertMedia(g)
    PROVE  OneUpdate'
<1> DEFINE next == [g EXCEPT !.pc = "queue"]
<1>1. /\ getting' = (getting \ {g}) \union {next} /\ mediaDocs' = Append(mediaDocs, "HANDLING")
      /\ UNCHANGED <<updateJobs, updating, lateWrites>>
  BY DEF InsertMedia
<1>2. next.pc = "queue"
  BY DEF MediaInv, MediaTypeOK
<1> HIDE DEF next
<1>3. mediaDocs = <<>>
  <2>1. Len(mediaDocs') = Len(mediaDocs) + 1 /\ Len(mediaDocs) \in Nat /\ mediaDocs \in Seq(Statuses)
    BY <1>1 DEF MediaInv, MediaTypeOK
  <2> QED
    BY <2>1 DEF OneDocument
<1>4. Queueing = {} /\ updateJobs = <<>> /\ updating = <<>> /\ ~ErrorLate /\ ~FileKnown
  BY <1>3, NothingKnownLemma
<1>5. Queueing' = {next} /\ next \in getting'
  BY <1>1, <1>2, <1>4 DEF Queueing
<1>6. Status' = "HANDLING"
  <2>1. mediaDocs' # <<>> /\ mediaDocs'[1] = "HANDLING"
    BY <1>1, <1>3, DocsLemma DEF MediaInv
  <2> QED
    BY <2>1 DEF Status
<1>7. ~ErrorLate' /\ ~FileKnown'
  BY <1>1, <1>4, <1>6 DEF ErrorLate, FileKnown, Storing
<1> QED
  BY <1>1, <1>4, <1>5, <1>7 DEF OneUpdate, AtQueue

\* Its job is queued.
LEMMA QueueOnceStep ==
    ASSUME MediaInv, OneUpdate, NEW g \in getting, QueueUpdate(g)
    PROVE  OneUpdate'
<1>1. /\ g.pc = "queue" /\ getting' = (getting \ {g}) \union {[g EXCEPT !.pc = "end"]}
      /\ updateJobs' = Append(updateJobs, 0)
      /\ UNCHANGED <<updating, lateWrites, mediaDocs>>
  BY DEF QueueUpdate
<1>2. g \in Queueing
  BY <1>1 DEF Queueing
<1>3. AtQueue
  BY <1>2, NothingKnownLemma DEF OneUpdate, AtJob, AtUpload, AfterUpload
<1>4. Queueing = {g} /\ [g EXCEPT !.pc = "end"].pc = "end"
  BY <1>2, <1>3 DEF AtQueue, MediaInv, MediaTypeOK
<1>5. Queueing' = {}
  BY <1>1, <1>4 DEF Queueing
<1>6. updateJobs' = <<0>>
  BY <1>1, <1>3 DEF AtQueue
<1>7. ErrorLate' = ErrorLate /\ FileKnown' = FileKnown
  BY <1>1 DEF ErrorLate, FileKnown, Status, Storing
<1> QED
  BY <1>1, <1>3, <1>5, <1>6, <1>7 DEF OneUpdate, AtQueue, AtJob

\* An attempt begins when the error of the one before is stored.
LEMMA StartOnceStep ==
    ASSUME MediaInv, OneUpdate, StartUpdate
    PROVE  OneUpdate'
<1> DEFINE u == [tries |-> Head(updateJobs) + 1, pc |-> "upload"]
<1>1. /\ updating = <<>> /\ updateJobs # <<>> /\ (Head(updateJobs) > 0 => ~ErrorLate)
      /\ updating' = <<u>> /\ updateJobs' = Tail(updateJobs)
      /\ UNCHANGED <<getting, mediaDocs, lateWrites>>
  BY DEF StartUpdate, ErrorLate
<1>2. AtJob
  BY <1>1, NothingKnownLemma DEF OneUpdate, AtQueue, AtUpload, AfterUpload
<1>3. PICK n \in Nat : updateJobs = <<n>> /\ (n = 0 => ~ErrorLate)
  BY <1>2 DEF AtJob
<1>4. Head(updateJobs) = n /\ Tail(updateJobs) = <<>>
  BY <1>3
<1>5. ~ErrorLate
  BY <1>1, <1>3, <1>4
<1>6. updating' # <<>> /\ updating'[1].pc = "upload" /\ updateJobs' = <<>>
  BY <1>1, <1>4
<1>7. ErrorLate' = ErrorLate /\ FileKnown' = FileKnown /\ Queueing' = Queueing
  BY <1>1 DEF ErrorLate, FileKnown, Queueing, Status, Storing
<1> QED
  BY <1>2, <1>5, <1>6, <1>7 DEF OneUpdate, AtJob, AtUpload

\* The status of an upload and its job are those of the only one.
LEMMA UploadLemma ==
    ASSUME MediaInv, OneUpdate, updating # <<>>, updating[1].pc = "upload"
    PROVE  AtUpload /\ mediaDocs # <<>>
BY NothingKnownLemma DEF OneUpdate, AtQueue, AtJob, AfterUpload

\* An attempt that fails is the last, or is queued again with its error on its way.
LEMMA FailOnceStep ==
    ASSUME MediaInv, OneUpdate, UploadFails
    PROVE  OneUpdate'
<1>1. /\ updating # <<>> /\ updating[1].pc = "upload" /\ updating' = <<>>
      /\ lateWrites' = lateWrites \union {[doc |-> "ERROR"]}
      /\ \/ updateJobs' = Append(updateJobs, updating[1].tries)
         \/ updateJobs' = updateJobs
      /\ UNCHANGED <<getting, mediaDocs>>
  BY DEF UploadFails
<1>2. AtUpload
  BY <1>1, UploadLemma
<1>3. Queueing' = {} /\ ~FileKnown'
  <2>1. [doc |-> "ERROR"] # [doc |-> "COMPLETED"]
    <3>1. [doc |-> "ERROR"].doc # [doc |-> "COMPLETED"].doc
      OBVIOUS
    <3> QED
      BY <3>1
  <2>2. Storing' = Storing
    BY <1>1, <2>1 DEF Storing
  <2> QED
    BY <1>1, <1>2, <2>2 DEF AtUpload, Queueing, FileKnown, Status
<1>4. CASE updateJobs' = updateJobs
  BY <1>1, <1>2, <1>3, <1>4 DEF OneUpdate, AtUpload, AfterUpload
<1>5. CASE updateJobs' = Append(updateJobs, updating[1].tries)
  <2>1. updating[1].tries \in Nat /\ updating[1].tries # 0
    BY <1>1, UpdatingLemma, MediaAssumption DEF Updates, MediaInv
  <2>2. updateJobs' = <<updating[1].tries>>
    BY <1>2, <1>5 DEF AtUpload
  <2>3. \E n \in Nat : updateJobs' = <<n>> /\ (n = 0 => ~ErrorLate')
    BY <2>1, <2>2
  <2> QED
    BY <1>1, <1>3, <2>3 DEF OneUpdate, AtJob
<1> QED
  BY <1>1, <1>4, <1>5

\* The one that succeeds has no error on its way.
LEMMA StoreOnceStep ==
    ASSUME MediaInv, OneUpdate, StoreMedia
    PROVE  OneUpdate'
<1> DEFINE u == [updating[1] EXCEPT !.pc = "assets"]
<1>1. /\ updating # <<>> /\ updating[1].pc = "upload" /\ updating' = <<u>>
      /\ lateWrites' \in {lateWrites, lateWrites \union {[doc |-> "COMPLETED"]}}
      /\ UNCHANGED <<getting, updateJobs>>
  BY DEF StoreMedia
<1>2. AtUpload
  BY <1>1, UploadLemma
<1>3. u.pc = "assets"
  BY <1>1, UpdatingLemma DEF Updates, MediaInv
<1> HIDE DEF u
<1>4. updating'[1].pc = "assets"
  BY <1>1, <1>3
<1>5. ~ErrorLate'
  <2>1. [doc |-> "ERROR"] # [doc |-> "COMPLETED"]
    <3>1. [doc |-> "ERROR"].doc # [doc |-> "COMPLETED"].doc
      OBVIOUS
    <3> QED
      BY <3>1
  <2> QED
    BY <1>1, <1>2, <2>1 DEF AtUpload, ErrorLate
<1>6. Queueing' = {}
  BY <1>1, <1>2 DEF AtUpload, Queueing
<1> QED
  BY <1>1, <1>2, <1>4, <1>5, <1>6 DEF OneUpdate, AtUpload, AfterUpload

\* Lists do not read as statuses.
LEMMA ListIsNoStatus ==
    ASSUME NEW list, "doc" \notin DOMAIN list
    PROVE  \A s : list # [doc |-> s]
<1>1. \A s : "doc" \in DOMAIN [doc |-> s]
  OBVIOUS
<1> QED
  BY <1>1

\* The assets are listed after the upload.
LEMMA ListOnceStep ==
    ASSUME MediaInv, OneUpdate, FindAssets
    PROVE  OneUpdate'
<1>1. PICK list : /\ list \in AssetList
                  /\ lateWrites' = lateWrites \union {list}
  <2> DEFINE L == IF cached = <<>> THEN [assets |-> Enriched, burned |-> burned] ELSE cached[1]
  <2>1. lateWrites' = lateWrites \union {L}
    BY DEF FindAssets
  <2>2. L \in AssetList
    BY DEF AssetList, MediaInv, MediaTypeOK
  <2> QED
    BY <2>1, <2>2
<1>2. /\ updating # <<>> /\ updating[1].pc = "assets" /\ updating' = <<>>
      /\ UNCHANGED <<getting, mediaDocs, updateJobs>>
  BY DEF FindAssets
<1>3. AfterUpload
  BY <1>2, NothingKnownLemma DEF OneUpdate, AtQueue, AtJob, AtUpload
<1>4. ErrorLate' = ErrorLate /\ FileKnown' = FileKnown /\ Queueing' = Queueing
  <2>1. "doc" \notin DOMAIN list
    BY <1>1 DEF AssetList
  <2> QED
    BY <1>1, <1>2, <2>1, ListIsNoStatus DEF ErrorLate, FileKnown, Queueing, Status, Storing
<1> QED
  BY <1>2, <1>3, <1>4 DEF OneUpdate, AfterUpload

\* A status that lands is the error of an attempt that is over, or the file is there.
LEMMA LandOnceStep ==
    ASSUME MediaInv, OneUpdate, NEW w \in lateWrites, LateLands(w)
    PROVE  OneUpdate'
<1>1. lateWrites' = lateWrites \ {w} /\ UNCHANGED <<getting, updateJobs, updating>>
  BY DEF LateLands
<1>2. Queueing' = Queueing
  BY <1>1 DEF Queueing
<1>3. CASE "doc" \notin DOMAIN w
  <2>1. UNCHANGED mediaDocs
    BY <1>3 DEF LateLands
  <2>2. ErrorLate' = ErrorLate /\ Storing' = Storing
    BY <1>1, <1>3, ListIsNoStatus DEF ErrorLate, Storing
  <2> QED
    BY <1>1, <1>2, <2>1, <2>2, NoConcern
<1>4. CASE "doc" \in DOMAIN w
  <2>1. w = [doc |-> w.doc] /\ w.doc \in {"ERROR", "COMPLETED"}
    BY <1>4, LateLemma DEF MediaInv
  <2>2. mediaDocs # <<>>
    BY <1>4 DEF MediaInv, SourceIsKnown
  <2>3. mediaDocs' # <<>> /\ Status' = w.doc
    <3>1. mediaDocs' = [mediaDocs EXCEPT ![1] = w.doc] /\ w.doc \in Statuses
      BY <1>4, <2>1 DEF LateLands, SetStatus, Statuses
    <3>2. mediaDocs' # <<>> /\ mediaDocs'[1] = w.doc
      BY <2>2, <3>1, DocsLemma DEF MediaInv
    <3> QED
      BY <3>2 DEF Status
  <2>4. CASE w.doc = "ERROR"
    <3>1. ErrorLate /\ ~ErrorLate'
      BY <1>1, <2>1, <2>4 DEF ErrorLate
    <3>2. ~FileKnown /\ (AtJob \/ AfterUpload)
      BY <2>2, <3>1 DEF OneUpdate, AtQueue, AtJob, AtUpload, AfterUpload
    <3>3. ~FileKnown'
      BY <1>1, <2>3, <2>4, <3>2 DEF FileKnown, Storing
    <3>4. CASE AtJob
      BY <1>1, <1>2, <3>1, <3>3, <3>4 DEF OneUpdate, AtJob
    <3>5. CASE AfterUpload
      BY <1>1, <1>2, <3>1, <3>3, <3>5 DEF OneUpdate, AfterUpload
    <3> QED
      BY <3>2, <3>4, <3>5
  <2>5. CASE w.doc = "COMPLETED"
    <3>1. FileKnown
      BY <2>1, <2>5 DEF FileKnown, Storing
    <3>2. AfterUpload /\ ~ErrorLate
      BY <2>2, <3>1 DEF OneUpdate, AtQueue, AtJob, AtUpload, AfterUpload
    <3>3. ~ErrorLate'
      BY <1>1, <3>2 DEF ErrorLate
    <3> QED
      BY <1>1, <1>2, <3>2, <3>3 DEF OneUpdate, AfterUpload
  <2> QED
    BY <2>1, <2>4, <2>5
<1> QED
  BY <1>3, <1>4

\* The rest is not about the job.
LEMMA OtherOnceStep ==
    ASSUME MediaInv, OneUpdate,
           \/ \E a \in Assets : EnrichToken(a) \/ BurnToken(a) \/ MediaFlagExpires(a)
           \/ \E e \in events : HandleGetMediaLink(e)
           \/ StartGet \/ CacheExpires \/ UNCHANGED mediaVars
    PROVE  OneUpdate'
<1>1. UNCHANGED <<updateJobs, updating, mediaDocs, lateWrites>>
  BY DEF EnrichToken, BurnToken, MediaFlagExpires, HandleGetMediaLink, StartGet, CacheExpires, mediaVars
<1>2. Queueing' = Queueing
  <2>1. CASE StartGet
    <3>1. getting' \in {getting, getting \union {[asset |-> Head(getJobs), pc |-> "find"]}}
      BY <2>1 DEF StartGet
    <3> QED
      BY <3>1 DEF Queueing
  <2>2. CASE getting' = getting
    BY <2>2 DEF Queueing
  <2> QED
    BY <2>1, <2>2 DEF EnrichToken, BurnToken, MediaFlagExpires, HandleGetMediaLink, CacheExpires, mediaVars
<1> QED
  BY <1>1, <1>2, NoConcern DEF ErrorLate, Storing

\* Documents and deaths only grow in number.
LEMMA DocumentsGrow ==
    ASSUME MediaInv, mediaCrashes \in Nat, [MediaNext]_mediaVars
    PROVE  /\ mediaCrashes' \in Nat
           /\ OneDocument' => OneDocument /\ mediaCrashes' = mediaCrashes
<1>1. \/ mediaCrashes' = mediaCrashes
      \/ mediaCrashes' = mediaCrashes + 1
  BY DEF MediaNext, GetNext, UpdateNext, LateNext, mediaVars, EnrichToken, BurnToken, MediaFlagExpires,
     HandleGetMediaLink, StartGet, FindMedia, InsertMedia, QueueUpdate, GiveImage, EndGet, StartUpdate,
     UploadFails, StoreMedia, FindAssets, LateLands, CacheExpires, CrashMedia
<1>2. \/ UNCHANGED mediaDocs
      \/ \E s : mediaDocs' = [mediaDocs EXCEPT ![1] = s]
      \/ mediaDocs' = Append(mediaDocs, "HANDLING")
  BY DEF MediaNext, GetNext, UpdateNext, LateNext, mediaVars, EnrichToken, BurnToken, MediaFlagExpires,
     HandleGetMediaLink, StartGet, FindMedia, InsertMedia, QueueUpdate, GiveImage, EndGet, StartUpdate,
     UploadFails, StoreMedia, FindAssets, LateLands, CacheExpires, CrashMedia, SetStatus
<1>3. mediaDocs \in Seq(Statuses) /\ Len(mediaDocs) \in Nat
  BY DEF MediaInv, MediaTypeOK
<1>4. Len(mediaDocs') = Len(mediaDocs) \/ Len(mediaDocs') = Len(mediaDocs) + 1
  <2>1. CASE \E s : mediaDocs' = [mediaDocs EXCEPT ![1] = s]
    <3>1. PICK s : mediaDocs' = [mediaDocs EXCEPT ![1] = s]
      BY <2>1
    <3>2. Len([mediaDocs EXCEPT ![1] = s]) = Len(mediaDocs)
      BY <1>3
    <3> QED
      BY <3>1, <3>2
  <2>2. CASE mediaDocs' = Append(mediaDocs, "HANDLING")
    BY <1>3, <2>2, DocsLemma DEF Statuses
  <2> QED
    BY <1>2, <2>1, <2>2
<1> QED
  BY <1>1, <1>3, <1>4 DEF OneDocument

LEMMA NextOnce == MediaInv /\ OnceInv /\ [MediaNext]_mediaVars => OnceInv'
<1> SUFFICES ASSUME MediaInv, OnceInv, [MediaNext]_mediaVars PROVE OnceInv'
  OBVIOUS
<1>1. mediaCrashes \in Nat /\ mediaCrashes' \in Nat
  BY DocumentsGrow DEF OnceInv
<1>2. ASSUME OneDocument' PROVE OneUpdate'
  <2>1. OneUpdate /\ mediaCrashes' = mediaCrashes
    BY <1>1, <1>2, DocumentsGrow DEF OnceInv
  <2>2. CASE \E g \in getting : FindMedia(g) \/ GiveImage(g) \/ EndGet(g)
    BY <2>1, <2>2, LookupStep
  <2>3. CASE \E g \in getting : InsertMedia(g)
    BY <1>2, <2>3, InsertOnceStep
  <2>4. CASE \E g \in getting : QueueUpdate(g)
    BY <2>1, <2>4, QueueOnceStep
  <2>5. CASE UpdateNext
    BY <2>1, <2>5, StartOnceStep, FailOnceStep, StoreOnceStep, ListOnceStep DEF UpdateNext
  <2>6. CASE LateNext
    BY <2>1, <2>6, LandOnceStep DEF LateNext
  <2>7. ~CrashMedia
    BY <1>1, <2>1 DEF CrashMedia
  <2> QED
    BY <2>1, <2>2, <2>3, <2>4, <2>5, <2>6, <2>7, OtherOnceStep DEF MediaNext, GetNext
<1> QED
  BY <1>1, <1>2 DEF OnceInv

\* What is completed has no error on its way.
LEMMA CompletedStep ==
    ASSUME MediaInv, OnceInv, [MediaNext]_mediaVars, Status = "COMPLETED"
    PROVE  Status' = "COMPLETED" \/ Len(mediaDocs) > 1 \/ mediaCrashes > 0
<1> SUFFICES ASSUME ~(Len(mediaDocs) > 1), ~(mediaCrashes > 0) PROVE Status' = "COMPLETED"
  OBVIOUS
<1>1. mediaDocs # <<>> /\ mediaDocs[1] = "COMPLETED"
  BY DEF Status
<1>2. OneUpdate
  <2>1. Len(mediaDocs) \in Nat
    BY DEF MediaInv, MediaTypeOK
  <2> QED
    BY <2>1 DEF OnceInv, OneDocument
<1>3. ~ErrorLate
  BY <1>1, <1>2 DEF OneUpdate, AtQueue, AtJob, AtUpload, AfterUpload, FileKnown
<1>4. CASE UNCHANGED mediaDocs
  BY <1>4 DEF Status
<1>5. CASE \E g \in getting : InsertMedia(g)
  <2>1. mediaDocs' # <<>> /\ mediaDocs'[1] = "COMPLETED"
    BY <1>1, <1>5, DocsLemma DEF InsertMedia, MediaInv
  <2> QED
    BY <2>1 DEF Status
<1>6. CASE StoreMedia
  <2>1. UNCHANGED mediaDocs \/ mediaDocs' = [mediaDocs EXCEPT ![1] = "COMPLETED"]
    BY <1>6 DEF StoreMedia, SetStatus
  <2>2. mediaDocs' # <<>> /\ mediaDocs'[1] = "COMPLETED"
    BY <1>1, <2>1, DocsLemma DEF MediaInv, Statuses
  <2> QED
    BY <2>2 DEF Status
<1>7. ASSUME NEW w \in lateWrites, LateLands(w), "doc" \in DOMAIN w PROVE Status' = "COMPLETED"
  <2>1. w = [doc |-> w.doc] /\ w.doc \in {"ERROR", "COMPLETED"}
    BY <1>7, LateLemma DEF MediaInv
  <2>2. w.doc = "COMPLETED"
    BY <1>3, <2>1 DEF ErrorLate
  <2>3. mediaDocs' = [mediaDocs EXCEPT ![1] = "COMPLETED"]
    BY <1>7, <2>2 DEF LateLands, SetStatus
  <2>4. mediaDocs' # <<>> /\ mediaDocs'[1] = "COMPLETED"
    BY <1>1, <2>3, DocsLemma DEF MediaInv, Statuses
  <2> QED
    BY <2>4 DEF Status
<1>8. \/ UNCHANGED mediaDocs \/ StoreMedia
      \/ \E g \in getting : InsertMedia(g)
      \/ \E w \in lateWrites : LateLands(w) /\ "doc" \in DOMAIN w
  BY DEF MediaNext, GetNext, UpdateNext, LateNext, mediaVars, EnrichToken, BurnToken, MediaFlagExpires,
     HandleGetMediaLink, StartGet, FindMedia, QueueUpdate, GiveImage, EndGet, StartUpdate,
     UploadFails, FindAssets, LateLands, CacheExpires, CrashMedia
<1> QED
  BY <1>4, <1>5, <1>6, <1>7, <1>8

\* The manager of CW721 writes the image only.
LEMMA BurnedStep ==
    ASSUME [MediaNext]_mediaVars
    PROVE  Kind = "CW721" => burned \subseteq burned'
BY DEF MediaNext, GetNext, UpdateNext, LateNext, mediaVars, EnrichToken, BurnToken, MediaFlagExpires,
   HandleGetMediaLink, StartGet, FindMedia, InsertMedia, QueueUpdate, GiveImage, EndGet, StartUpdate,
   UploadFails, StoreMedia, FindAssets, LateLands, WriteImage, CacheExpires, CrashMedia

\* A source that is known has one document and one job, or two lookups and deaths are to blame: what was completed is
\* not overwritten by an error, all assets get the file, and those that are burned stay so
\* (cw721-asset-media.service.ts:106-251, cw721-asset-media-manager.service.ts:160-262).
THEOREM MediaStaysLinked == MediaSpec => MediaIsLinked
<1>1. MediaInit => MediaInv /\ OnceInv
  BY InitMediaInv, InitOnce
<1>2. MediaInv /\ OnceInv /\ [MediaNext]_mediaVars => MediaInv' /\ OnceInv'
  BY NextMediaInv, NextOnce
<1>3. MediaInv => MediaTypeOK /\ SourceIsKnown /\ EveryAssetGetsImage
  BY ComesAtRest DEF MediaInv
<1>4. MediaInv /\ OnceInv /\ [MediaNext]_mediaVars =>
        [Status = "COMPLETED" => Status' = "COMPLETED" \/ Len(mediaDocs) > 1 \/ mediaCrashes > 0]_mediaVars
  BY CompletedStep
<1>5. [MediaNext]_mediaVars => [Kind = "CW721" => burned \subseteq burned']_mediaVars
  BY BurnedStep
<1> QED
  BY <1>1, <1>2, <1>3, <1>4, <1>5, PTL DEF MediaSpec, MediaIsLinked, CompletedStays, BurnedStays

-----------------------------------------------------------------------------
(* The assets of tokens (NftAssets).                                          *)

Minted == {t \in Tokens : owner[t] > 0}

NftInv ==
    /\ NftTypeOK /\ IsFiniteSet(Minted) /\ IsFiniteSet(active)
    /\ BurnsAreOnChain /\ JobsAreAlone /\ TokensAreFollowed

Work == [token : Tokens, burn : BOOLEAN, n : Nat]
Handler == [token : Tokens, burn : BOOLEAN, n : Nat, pc : {"set", "create", "del"}]
TokenJob == [token : Tokens, type : {"insert", "upsert"}]
TokenRead == [token : Tokens, type : {"insert", "upsert"}, owner : Nat, at : Nat \union {-1}]
Asset == [token : Tokens, owner : Nat, burned : BOOLEAN]

LEMMA RangeLemma == \A s : Range(s) = InFlight(s)
BY DEF Range, InFlight

\* What the collection holds.
LEMMA AssetLemma ==
    ASSUME NftTypeOK
    PROVE  /\ assets \in Seq(Asset) /\ DOMAIN assets = 1 .. Len(assets) /\ Len(assets) \in Nat
           /\ \A i \in DOMAIN assets : assets[i] \in Asset
<1>1. assets \in Seq(Asset)
  BY DEF NftTypeOK, Asset
<1> HIDE DEF Asset
<1> QED
  BY <1>1

LEMMA InitNftInv == NftInit => NftInv
<1> SUFFICES ASSUME NftInit PROVE NftInv
  OBVIOUS
<1>1. IsFiniteSet({}) /\ Cardinality({}) = 0 /\ EnrichConcurrency \in Nat
  BY FS_EmptySet, NftAssumption
<1>2. DOMAIN assets = {} /\ Range(burns) = {}
  BY EmptyLemma, RangeLemma DEF NftInit
<1>3. Minted = {}
  BY DEF NftInit, Minted
<1>4. NftTypeOK
  BY <1>1, <1>2, EmptyLemma DEF NftInit, NftTypeOK
<1>5. BurnsAreOnChain /\ JobsAreAlone
  BY <1>2 DEF NftInit, BurnsAreOnChain, JobsAreAlone
<1>6. TokensAreFollowed
  BY <1>2 DEF NftInit, TokensAreFollowed, Alive, AssetsOf
<1> QED
  BY <1>1, <1>3, <1>4, <1>5, <1>6 DEF NftInv, NftInit

\* Where assets are as they were, each token has those it had.
LEMMA SameAssets == UNCHANGED assets => \A t : AssetsOf(t)' = AssetsOf(t)
BY DEF AssetsOf

\* The first asset of a token that has one.
LEMMA FirstAssetLemma ==
    ASSUME NftTypeOK, NEW t, AssetsOf(t) # {}
    PROVE  FirstAsset(t) \in AssetsOf(t) /\ FirstAsset(t) \in DOMAIN assets /\ FirstAsset(t) \in Nat \ {0}
<1>1. DOMAIN assets = 1 .. Len(assets) /\ Len(assets) \in Nat
  BY AssetLemma
<1>2. AssetsOf(t) \subseteq DOMAIN assets /\ AssetsOf(t) \subseteq Nat
  BY <1>1 DEF AssetsOf
<1>3. \E i \in AssetsOf(t) : \A k \in AssetsOf(t) : i <= k
  BY <1>2, MinLemma
<1> QED
  BY <1>1, <1>2, <1>3 DEF FirstAsset

\* A step of the handlers: jobs, assets and the chain stay.
LEMMA TakeItemStep ==
    ASSUME NftInv, NEW x \in todo, TakeItem(x)
    PROVE  NftInv'
<1> USE DEF NftInv
<1> DEFINE h == [token |-> x.token, burn |-> x.burn, n |-> x.n, pc |-> "set"]
<1>1. /\ todo' = todo \ {x} /\ unsureTokens \subseteq unsureTokens'
      /\ unsureTokens' \subseteq unsureTokens \union {x.token}
      /\ handlers' \subseteq handlers \union {h} /\ handlers \subseteq handlers'
      /\ h \in handlers' \/ x.token \in unsureTokens'
      /\ UNCHANGED <<owner, burnedOn, flags, enrich, active, burns, assets>>
  BY DEF TakeItem
<1>2. x \in Work /\ h \in Handler /\ h.token = x.token /\ h.burn = x.burn /\ h.pc = "set"
  BY DEF NftTypeOK, Work, Handler
<1> HIDE DEF h
<1>3. NftTypeOK'
  BY <1>1, <1>2 DEF NftTypeOK, Work, Handler
<1>4. \A t : AssetsOf(t)' = AssetsOf(t)
  BY <1>1, SameAssets
<1>5. BurnsAreOnChain'
  BY <1>1, <1>2 DEF BurnsAreOnChain
<1>6. JobsAreAlone'
  BY <1>1, <1>4 DEF JobsAreAlone
<1>7. ASSUME NEW t \in Tokens, t \notin unsureTokens', OwnerComes(t) PROVE OwnerComes(t)'
  BY <1>1, <1>2, <1>4, <1>7 DEF OwnerComes
<1>8. ASSUME NEW t \in Tokens, t \notin unsureTokens', BurnComes(t) PROVE BurnComes(t)'
  BY <1>1, <1>2, <1>4, <1>8 DEF BurnComes
<1>9. TokensAreFollowed'
  BY <1>1, <1>4, <1>7, <1>8 DEF TokensAreFollowed, Alive
<1> QED
  BY <1>1, <1>3, <1>5, <1>6, <1>9 DEF Minted

\* An item that raises the flag is still to have its token enriched.
LEMMA SetFlagStep ==
    ASSUME NftInv, NEW h \in handlers, SetFlag(h)
    PROVE  NftInv'
<1> USE DEF NftInv
<1> DEFINE g == [h EXCEPT !.pc = "create"]
<1>1. /\ handlers' = (handlers \ {h}) \union {g}
      /\ UNCHANGED <<owner, burnedOn, todo, enrich, active, burns, assets, unsureTokens>>
  BY DEF SetFlag
<1>2. h \in Handler /\ g \in Handler /\ g.token = h.token /\ g.burn = h.burn /\ g.pc = "create"
  BY DEF NftTypeOK, Handler
<1> HIDE DEF g
<1>3. NftTypeOK'
  BY <1>1, <1>2 DEF NftTypeOK, Handler
<1>4. \A t : AssetsOf(t)' = AssetsOf(t)
  BY <1>1, SameAssets
<1>5. BurnsAreOnChain'
  BY <1>1, <1>2 DEF BurnsAreOnChain
<1>6. JobsAreAlone'
  BY <1>1, <1>4 DEF JobsAreAlone
<1>7. ASSUME NEW t \in Tokens, OwnerComes(t) PROVE OwnerComes(t)'
  BY <1>1, <1>2, <1>4, <1>7 DEF OwnerComes
<1>8. ASSUME NEW t \in Tokens, BurnComes(t) PROVE BurnComes(t)'
  BY <1>1, <1>2, <1>4, <1>8 DEF BurnComes
<1>9. TokensAreFollowed'
  BY <1>1, <1>4, <1>7, <1>8 DEF TokensAreFollowed, Alive
<1> QED
  BY <1>1, <1>3, <1>5, <1>6, <1>9 DEF Minted

\* The job of an item, and what it burns, take its place.
LEMMA CreateEnrichJobStep ==
    ASSUME NftInv, NEW h \in handlers, CreateEnrichJob(h)
    PROVE  NftInv'
<1> USE DEF NftInv
<1> DEFINE g == [h EXCEPT !.pc = "del"]
           j == [token |-> h.token, type |-> "upsert"]
<1>1. /\ handlers' = (handlers \ {h}) \union {g}
      /\ enrich' = Append(enrich, j)
      /\ burns' = IF h.burn THEN Append(burns, h.token) ELSE burns
      /\ UNCHANGED <<owner, burnedOn, todo, active, assets, unsureTokens>>
  BY DEF CreateEnrichJob, Burns
<1>2. h \in Handler /\ g \in Handler /\ g.token = h.token /\ g.burn = h.burn /\ g.pc = "del"
  BY DEF NftTypeOK, Handler
<1>3. j \in TokenJob /\ j.token = h.token /\ h.token \in Tokens
  BY <1>2 DEF Handler, TokenJob
<1> HIDE DEF g, j
<1>4. enrich' \in Seq(TokenJob) /\ Range(enrich') = Range(enrich) \union {j}
  <2>1. enrich \in Seq(TokenJob)
    BY DEF NftTypeOK, TokenJob
  <2> QED
    BY <1>1, <1>3, <2>1, SendOneLemma, RangeLemma
<1>5. burns' \in Seq(Tokens) /\ Range(burns') = Range(burns) \union (IF h.burn THEN {h.token} ELSE {})
  <2>1. burns \in Seq(Tokens)
    BY DEF NftTypeOK
  <2>2. Append(burns, h.token) \in Seq(Tokens) /\ Range(Append(burns, h.token)) = Range(burns) \union {h.token}
    BY <1>3, <2>1, SendOneLemma, RangeLemma
  <2> QED
    BY <1>1, <2>1, <2>2
<1>6. NftTypeOK'
  BY <1>1, <1>2, <1>4, <1>5 DEF NftTypeOK, Handler, TokenJob
<1>7. \A t : AssetsOf(t)' = AssetsOf(t)
  BY <1>1, SameAssets
<1>8. BurnsAreOnChain'
  BY <1>1, <1>2, <1>5 DEF BurnsAreOnChain
<1>9. JobsAreAlone'
  BY <1>1, <1>7 DEF JobsAreAlone
<1>10. ASSUME NEW t \in Tokens, OwnerComes(t) PROVE OwnerComes(t)'
  BY <1>1, <1>3, <1>4, <1>7, <1>10 DEF OwnerComes
<1>11. ASSUME NEW t \in Tokens, BurnComes(t) PROVE BurnComes(t)'
  BY <1>1, <1>3, <1>5, <1>7, <1>11 DEF BurnComes
<1>12. TokensAreFollowed'
  BY <1>1, <1>7, <1>10, <1>11 DEF TokensAreFollowed, Alive
<1> QED
  BY <1>1, <1>6, <1>8, <1>9, <1>12 DEF Minted

\* Taking flags down changes nothing else: what an item had to do is done.
LEMMA FlagsDownStep ==
    ASSUME NftInv, (\E h \in handlers : DelFlag(h)) \/ (\E t \in Tokens : FlagExpires(t))
    PROVE  NftInv'
<1> USE DEF NftInv
<1>1. /\ handlers' \subseteq handlers
      /\ \A h \in handlers : h.pc # "del" => h \in handlers'
      /\ UNCHANGED <<owner, burnedOn, todo, enrich, active, burns, assets, unsureTokens>>
  BY DEF DelFlag, FlagExpires
<1>2. \A t : AssetsOf(t)' = AssetsOf(t)
  BY <1>1, SameAssets
<1>3. NftTypeOK'
  BY <1>1 DEF NftTypeOK
<1>4. BurnsAreOnChain'
  BY <1>1 DEF BurnsAreOnChain
<1>5. JobsAreAlone'
  BY <1>1, <1>2 DEF JobsAreAlone
<1>6. ASSUME NEW t \in Tokens, OwnerComes(t) PROVE OwnerComes(t)'
  BY <1>1, <1>2, <1>6 DEF OwnerComes
<1>7. ASSUME NEW t \in Tokens, BurnComes(t) PROVE BurnComes(t)'
  BY <1>1, <1>2, <1>7 DEF BurnComes
<1>8. TokensAreFollowed'
  BY <1>1, <1>2, <1>6, <1>7 DEF TokensAreFollowed, Alive
<1> QED
  BY <1>1, <1>3, <1>4, <1>5, <1>8 DEF Minted

\* A transaction that moves a token is to be handled.
LEMMA TokenMovesStep ==
    ASSUME NftInv, NEW u \in Tokens, TokenMoves(u)
    PROVE  NftInv'
<1> USE DEF NftInv
<1> DEFINE x == [token |-> u, burn |-> FALSE, n |-> owner[u] + 1]
<1>1. /\ owner' = [owner EXCEPT ![u] = @ + 1]
      /\ todo' = todo \union {x}
      /\ UNCHANGED <<burnedOn, handlers, enrich, active, burns, assets, unsureTokens>>
  BY DEF TokenMoves
<1>2. /\ owner \in [Tokens -> Nat]
      /\ owner' \in [Tokens -> Nat] /\ owner'[u] = owner[u] + 1
      /\ \A t \in Tokens \ {u} : owner'[t] = owner[t]
      /\ \A t \in Tokens : owner[t] <= owner'[t]
  BY <1>1 DEF NftTypeOK
<1>3. x \in Work /\ x.token = u /\ x.burn = FALSE
  BY <1>2 DEF Work
<1> HIDE DEF x
<1>4. \A t : AssetsOf(t)' = AssetsOf(t)
  BY <1>1, SameAssets
<1>5. NftTypeOK'
  <2>1. \A i \in DOMAIN assets : assets[i].token \in Tokens /\ assets[i].owner \in Nat
    BY AssetLemma DEF Asset
  <2>2. ASSUME NEW i \in DOMAIN assets PROVE assets[i].owner \in 1 .. owner'[assets[i].token]
    <3>1. assets[i].token \in Tokens /\ assets[i].owner \in 1 .. owner[assets[i].token]
      BY <2>1 DEF NftTypeOK
    <3>2. /\ owner[assets[i].token] <= owner'[assets[i].token]
          /\ owner[assets[i].token] \in Nat /\ owner'[assets[i].token] \in Nat
      BY <1>2, <3>1
    <3> QED
      BY <3>1, <3>2
  <2>3. \A a \in active : a.owner \in 1 .. owner'[a.token]
    <3> SUFFICES ASSUME NEW a \in active PROVE a.owner \in 1 .. owner'[a.token]
      OBVIOUS
    <3>1. a.owner \in 1 .. owner[a.token] /\ a.token \in Tokens
      BY DEF NftTypeOK
    <3>2. owner[a.token] <= owner'[a.token] /\ owner[a.token] \in Nat /\ owner'[a.token] \in Nat
      BY <1>2, <3>1
    <3> QED
      BY <3>1, <3>2
  <2> QED
    BY <1>1, <1>2, <1>3, <2>2, <2>3 DEF NftTypeOK, Work
<1>6. IsFiniteSet(Minted')
  <2>1. Minted' \subseteq Minted \union {u}
    BY <1>2 DEF Minted
  <2> QED
    BY <2>1, FS_AddElement, FS_Subset
<1>7. BurnsAreOnChain'
  BY <1>1, <1>3 DEF BurnsAreOnChain
<1>8. JobsAreAlone'
  BY <1>1, <1>4 DEF JobsAreAlone
<1>9. ASSUME NEW t \in Tokens, t = u \/ OwnerComes(t) PROVE OwnerComes(t)'
  <2>1. CASE t = u
    BY <1>1, <1>3, <2>1 DEF OwnerComes
  <2>2. CASE t # u
    BY <1>1, <1>2, <1>4, <1>9, <2>2 DEF OwnerComes
  <2> QED
    BY <2>1, <2>2
<1>10. ASSUME NEW t \in Tokens, BurnComes(t) PROVE BurnComes(t)'
  BY <1>1, <1>4, <1>10 DEF BurnComes
<1>11. TokensAreFollowed'
  BY <1>1, <1>2, <1>4, <1>9, <1>10 DEF TokensAreFollowed, Alive
<1> QED
  BY <1>1, <1>5, <1>6, <1>7, <1>8, <1>11

\* One that burns it, too.
LEMMA TokenBurnsStep ==
    ASSUME NftInv, NEW u \in Tokens, TokenBurns(u)
    PROVE  NftInv'
<1> USE DEF NftInv
<1> DEFINE x == [token |-> u, burn |-> TRUE, n |-> owner[u] + 1]
<1>1. /\ burnedOn' = burnedOn \union {u}
      /\ todo' = todo \union {x}
      /\ unsureTokens \subseteq unsureTokens' /\ unsureTokens' \subseteq unsureTokens \union {u}
      /\ (\E a \in active : a.token = u) => u \in unsureTokens'
      /\ UNCHANGED <<owner, handlers, enrich, active, burns, assets>>
  BY DEF TokenBurns
<1>2. x \in Work /\ x.token = u /\ x.burn = TRUE
  BY DEF Work, NftTypeOK
<1> HIDE DEF x
<1>3. \A t : AssetsOf(t)' = AssetsOf(t)
  BY <1>1, SameAssets
<1>4. NftTypeOK'
  BY <1>1, <1>2 DEF NftTypeOK, Work
<1>5. BurnsAreOnChain'
  BY <1>1, <1>2 DEF BurnsAreOnChain
<1>6. JobsAreAlone'
  BY <1>1, <1>3 DEF JobsAreAlone
<1>7. ASSUME NEW t \in Tokens, OwnerComes(t) PROVE OwnerComes(t)'
  BY <1>1, <1>3, <1>7 DEF OwnerComes
<1>8. ASSUME NEW t \in Tokens, t = u \/ BurnComes(t) PROVE BurnComes(t)'
  BY <1>1, <1>2, <1>3, <1>8 DEF BurnComes
<1>9. TokensAreFollowed'
  BY <1>1, <1>3, <1>7, <1>8 DEF TokensAreFollowed, Alive
<1> QED
  BY <1>1, <1>4, <1>5, <1>6, <1>9 DEF Minted

\* A handle event has the tokens enriched: their jobs come behind the others.
LEMMA HandleCodeStep ==
    ASSUME NftInv, HandleCode
    PROVE  NftInv'
<1> USE DEF NftInv
<1> DEFINE alive == {t \in Tokens : Alive(t)}
           new == [i \in DOMAIN SetToSeq(alive) |-> [token |-> SetToSeq(alive)[i], type |-> "insert"]]
<1>1. /\ enrich' = enrich \o new
      /\ UNCHANGED <<owner, burnedOn, todo, handlers, active, burns, assets, unsureTokens>>
  BY DEF HandleCode, HandleContract, EnrichContract
<1>2. new \in Seq(TokenJob)
  <2>1. IsFiniteSet(alive)
    <3>1. alive \subseteq Minted
      BY DEF Alive, Minted
    <3> QED
      BY <3>1, FS_Subset
  <2>2. alive \subseteq Tokens
    OBVIOUS
  <2> HIDE DEF alive
  <2>3. SetToSeq(alive) \in Seq(alive)
    BY <2>1, SetToSeqLemma
  <2> DEFINE s == SetToSeq(alive)
  <2>4. DOMAIN s = 1 .. Len(s) /\ Len(s) \in Nat /\ \A i \in 1 .. Len(s) : s[i] \in Tokens
    BY <2>2, <2>3
  <2>5. new \in [1 .. Len(s) -> TokenJob]
    BY <2>4 DEF TokenJob
  <2> HIDE DEF s, new
  <2> QED
    BY <2>4, <2>5, ListLemma
<1> HIDE DEF new
<1>3. enrich' \in Seq(TokenJob) /\ Range(enrich) \subseteq Range(enrich')
  <2>1. enrich \in Seq(TokenJob)
    BY DEF NftTypeOK, TokenJob
  <2> QED
    BY <1>1, <1>2, <2>1, SendLemma, RangeLemma
<1>4. \A t : AssetsOf(t)' = AssetsOf(t)
  BY <1>1, SameAssets
<1>5. NftTypeOK'
  BY <1>1, <1>3 DEF NftTypeOK, TokenJob
<1>6. BurnsAreOnChain'
  BY <1>1 DEF BurnsAreOnChain
<1>7. JobsAreAlone'
  BY <1>1, <1>4 DEF JobsAreAlone
<1>8. ASSUME NEW t \in Tokens, OwnerComes(t) PROVE OwnerComes(t)'
  BY <1>1, <1>3, <1>4, <1>8 DEF OwnerComes
<1>9. ASSUME NEW t \in Tokens, BurnComes(t) PROVE BurnComes(t)'
  BY <1>1, <1>4, <1>9 DEF BurnComes
<1>10. TokensAreFollowed'
  BY <1>1, <1>4, <1>8, <1>9 DEF TokensAreFollowed, Alive
<1> QED
  BY <1>1, <1>5, <1>6, <1>7, <1>10 DEF Minted

\* A job that reads a token the chain has holds its owner; one for a token that is
\* burned ends, and one that overlaps another, or would insert a second asset, is noted.
LEMMA ReadTokenStep ==
    ASSUME NftInv, ReadToken
    PROVE  NftInv'
<1> USE DEF NftInv
<1> DEFINE j == Head(enrich)
           n == [token |-> j.token, type |-> j.type, owner |-> owner[j.token], at |-> -1]
<1>1. /\ enrich # <<>> /\ Cardinality(active) < EnrichConcurrency
      /\ enrich' = Tail(enrich)
      /\ active' = IF ~Alive(j.token) THEN active ELSE active \union {n}
      /\ unsureTokens \subseteq unsureTokens' /\ unsureTokens' \subseteq unsureTokens \union {j.token}
      /\ (\E a \in active : a.token = j.token) => j.token \in unsureTokens'
      /\ j.type = "insert" /\ AssetsOf(j.token) # {} => j.token \in unsureTokens'
      /\ UNCHANGED <<owner, burnedOn, todo, handlers, burns, assets>>
  BY DEF ReadToken
<1>2. j \in TokenJob /\ enrich' \in Seq(TokenJob) /\ Range(enrich) = {j} \union Range(enrich')
  <2>1. enrich \in Seq(TokenJob)
    BY DEF NftTypeOK, TokenJob
  <2> QED
    BY <1>1, <2>1, ArriveLemma, RangeLemma
<1>3. /\ j.token \in Tokens /\ j.type \in {"insert", "upsert"}
      /\ n \in TokenRead /\ n.token = j.token /\ n.type = j.type /\ n.owner = owner[j.token] /\ n.at = -1
      /\ owner[j.token] \in Nat
  BY <1>2 DEF TokenJob, TokenRead, NftTypeOK
<1> HIDE DEF n, j
<1>4. \A t : AssetsOf(t)' = AssetsOf(t)
  BY <1>1, SameAssets
<1>5. IsFiniteSet(active') /\ Cardinality(active') <= EnrichConcurrency
  <2>1. EnrichConcurrency \in Nat
    BY NftAssumption
  <2>2. IsFiniteSet(active \union {n}) /\ Cardinality(active \union {n}) <= EnrichConcurrency
    BY <1>1, <2>1, RoomLemma
  <2>3. Cardinality(active) <= EnrichConcurrency
    BY DEF NftTypeOK
  <2> QED
    BY <1>1, <2>2, <2>3
<1>6. NftTypeOK'
  <2>1. \A a \in active' : a \in TokenRead /\ a.at <= Len(assets) /\ a.owner \in 1 .. owner[a.token]
    <3>1. Len(assets) \in Nat
      BY DEF NftTypeOK
    <3>2. Alive(j.token) => n.at <= Len(assets) /\ n.owner \in 1 .. owner[n.token]
      BY <1>3, <3>1 DEF Alive
    <3> QED
      BY <1>1, <1>3, <3>2 DEF NftTypeOK, TokenRead
  <2>2. unsureTokens' \subseteq Tokens
    BY <1>1, <1>3 DEF NftTypeOK
  <2> QED
    BY <1>1, <1>2, <1>5, <2>1, <2>2 DEF NftTypeOK, TokenJob, TokenRead
<1>7. BurnsAreOnChain'
  BY <1>1, <1>3 DEF BurnsAreOnChain, Alive
<1>8. JobsAreAlone'
  <2> SUFFICES ASSUME NEW a \in active'
               PROVE  /\ a.at > 0 => assets[a.at].token = a.token
                      /\ a.token \notin unsureTokens' =>
                            /\ \A b \in active' : b.token = a.token => b = a
                            /\ a.type = "insert" \/ a.at = 0 => AssetsOf(a.token) = {}
    BY <1>1, <1>4 DEF JobsAreAlone
  <2>1. CASE a = n
    BY <1>1, <1>3, <2>1
  <2>2. CASE a \in active /\ a # n
    BY <1>1, <1>3, <2>2 DEF JobsAreAlone
  <2> QED
    BY <1>1, <2>1, <2>2
<1>9. ASSUME NEW t \in Tokens, t \notin unsureTokens', Alive(t), OwnerComes(t) PROVE OwnerComes(t)'
  <2>1. CASE t = j.token
    BY <1>1, <1>3, <1>9, <2>1 DEF OwnerComes
  <2>2. CASE t # j.token
    BY <1>1, <1>2, <1>3, <1>4, <1>9, <2>2 DEF OwnerComes
  <2> QED
    BY <2>1, <2>2
<1>10. ASSUME NEW t \in Tokens, BurnComes(t) PROVE BurnComes(t)'
  BY <1>1, <1>4, <1>10 DEF BurnComes
<1>11. TokensAreFollowed'
  BY <1>1, <1>4, <1>9, <1>10 DEF TokensAreFollowed, Alive
<1> QED
  BY <1>1, <1>5, <1>6, <1>7, <1>8, <1>11 DEF Minted

\* A job that looks the asset of its token up knows where it is, or that there is none.
LEMMA FindAssetStep ==
    ASSUME NftInv, NEW a \in active, FindAsset(a)
    PROVE  NftInv'
<1> USE DEF NftInv
<1> DEFINE at == IF AssetsOf(a.token) = {} THEN 0 ELSE FirstAsset(a.token)
           n == [a EXCEPT !.at = at]
<1>1. /\ a.type = "upsert" /\ active' = (active \ {a}) \union {n}
      /\ UNCHANGED <<owner, burnedOn, todo, handlers, enrich, burns, assets, unsureTokens>>
  BY DEF FindAsset
<1>2. a \in TokenRead
  BY DEF NftTypeOK, TokenRead
<1>3. /\ at \in Nat /\ at <= Len(assets)
      /\ at > 0 => assets[at].token = a.token
      /\ at = 0 => AssetsOf(a.token) = {}
  <2>1. DOMAIN assets = 1 .. Len(assets) /\ Len(assets) \in Nat
    BY DEF NftTypeOK
  <2>2. CASE AssetsOf(a.token) = {}
    BY <2>1, <2>2
  <2>3. CASE AssetsOf(a.token) # {}
    <3>1. FirstAsset(a.token) \in AssetsOf(a.token) /\ FirstAsset(a.token) \in 1 .. Len(assets)
      BY <2>1, <2>3, FirstAssetLemma
    <3>2. assets[FirstAsset(a.token)].token = a.token
      BY <3>1 DEF AssetsOf
    <3>3. at = FirstAsset(a.token)
      BY <2>3
    <3> QED
      BY <2>1, <3>1, <3>2, <3>3
  <2> QED
    BY <2>2, <2>3
<1> HIDE DEF at
<1>4. n \in TokenRead /\ n.token = a.token /\ n.owner = a.owner /\ n.type = "upsert" /\ n.at = at
  BY <1>1, <1>2, <1>3 DEF TokenRead
<1> HIDE DEF n
<1>5. \A t : AssetsOf(t)' = AssetsOf(t)
  BY <1>1, SameAssets
<1>6. IsFiniteSet(active') /\ Cardinality(active') <= EnrichConcurrency
  <2>1. EnrichConcurrency \in Nat /\ Cardinality(active) \in Nat
    BY NftAssumption, FS_CardinalityType
  <2>2. IsFiniteSet(active \ {a}) /\ Cardinality(active \ {a}) = Cardinality(active) - 1
    BY FS_RemoveElement
  <2>3. Cardinality(active) <= EnrichConcurrency
    BY DEF NftTypeOK
  <2>4. Cardinality(active \ {a}) < EnrichConcurrency
    BY <2>1, <2>2, <2>3
  <2> QED
    BY <1>1, <2>1, <2>2, <2>4, RoomLemma
<1>7. NftTypeOK'
  <2>1. \A b \in active' : b \in TokenRead /\ b.at <= Len(assets) /\ b.owner \in 1 .. owner[b.token]
    BY <1>1, <1>3, <1>4 DEF NftTypeOK, TokenRead
  <2> QED
    BY <1>1, <1>6, <2>1 DEF NftTypeOK, TokenRead
<1>8. BurnsAreOnChain'
  BY <1>1, <1>4 DEF BurnsAreOnChain
<1>9. JobsAreAlone'
  <2> SUFFICES ASSUME NEW b \in active'
               PROVE  /\ b.at > 0 => assets[b.at].token = b.token
                      /\ b.token \notin unsureTokens =>
                            /\ \A c \in active' : c.token = b.token => c = b
                            /\ b.type = "insert" \/ b.at = 0 => AssetsOf(b.token) = {}
    BY <1>1, <1>5 DEF JobsAreAlone
  <2>1. CASE b = n
    BY <1>1, <1>3, <1>4, <2>1 DEF JobsAreAlone
  <2>2. CASE b \in active \ {a} /\ b # n
    BY <1>1, <1>4, <2>2 DEF JobsAreAlone
  <2> QED
    BY <1>1, <2>1, <2>2
<1>10. ASSUME NEW t \in Tokens, OwnerComes(t) PROVE OwnerComes(t)'
  BY <1>1, <1>4, <1>5, <1>10 DEF OwnerComes
<1>11. ASSUME NEW t \in Tokens, BurnComes(t) PROVE BurnComes(t)'
  BY <1>1, <1>5, <1>11 DEF BurnComes
<1>12. TokensAreFollowed'
  BY <1>1, <1>5, <1>10, <1>11 DEF TokensAreFollowed, Alive
<1> QED
  BY <1>1, <1>6, <1>7, <1>8, <1>9, <1>12 DEF Minted

\* A job that writes puts the owner it read in the asset it found, or in a new one,
\* and leaves the assets of other tokens alone.
LEMMA WriteAssetStep ==
    ASSUME NftInv, NEW a \in active, WriteAsset(a)
    PROVE  NftInv' /\ \A i \in DOMAIN assets :
               assets[i].burned /\ ~assets'[i].burned => assets[i].token = a.token /\ a.token \in unsureTokens
<1> USE DEF NftInv
<1> DEFINE n == NewAsset(a)
           over == a.type = "upsert" /\ a.at > 0
<1>1. /\ a.type = "insert" \/ a.at # -1
      /\ active' = active \ {a}
      /\ assets' = IF over THEN [assets EXCEPT ![a.at] = n] ELSE Append(assets, n)
      /\ UNCHANGED <<owner, burnedOn, todo, handlers, enrich, burns, unsureTokens>>
  BY DEF WriteAsset
<1>2. a \in TokenRead /\ a.at <= Len(assets) /\ a.owner \in 1 .. owner[a.token]
  BY DEF NftTypeOK, TokenRead
<1>3. n \in Asset /\ n.token = a.token /\ n.owner = a.owner /\ n.burned = FALSE
  BY <1>2 DEF NewAsset, Asset, TokenRead
<1> HIDE DEF n
<1>4. assets \in Seq(Asset) /\ DOMAIN assets = 1 .. Len(assets) /\ Len(assets) \in Nat
      /\ \A i \in DOMAIN assets : assets[i] \in Asset
  BY AssetLemma
<1>5. a.at \in Nat \union {-1} /\ a.token \in Tokens /\ a.type \in {"insert", "upsert"}
  BY <1>2 DEF TokenRead
<1>6. over => a.at \in DOMAIN assets /\ assets[a.at].token = a.token
  BY <1>2, <1>4, <1>5 DEF JobsAreAlone
<1>7. ~over => a.type = "insert" \/ a.at = 0
  BY <1>1, <1>5
<1> DEFINE at == IF over THEN a.at ELSE Len(assets) + 1
<1>8. /\ assets' \in Seq(Asset) /\ DOMAIN assets' = DOMAIN assets \union {at}
      /\ Len(assets) <= Len(assets') /\ Len(assets') \in Nat
      /\ assets'[at] = n
      /\ \A i \in DOMAIN assets \ {at} : assets'[i] = assets[i]
  <2> HIDE DEF over
  <2>1. CASE over
    <3>1. assets' = [assets EXCEPT ![a.at] = n] /\ at = a.at /\ a.at \in 1 .. Len(assets)
      BY <1>1, <1>4, <1>6, <2>1
    <3>2. assets' \in Seq(Asset) /\ Len(assets') = Len(assets) /\ DOMAIN assets' = DOMAIN assets
      BY <1>3, <1>4, <3>1
    <3>3. assets'[at] = n /\ \A i \in DOMAIN assets \ {at} : assets'[i] = assets[i]
      BY <1>4, <3>1
    <3> QED
      BY <1>4, <3>1, <3>2, <3>3
  <2>2. CASE ~over
    <3>1. assets' = Append(assets, n) /\ at = Len(assets) + 1
      BY <1>1, <2>2
    <3>2. assets' \in Seq(Asset) /\ Len(assets') = Len(assets) + 1 /\ DOMAIN assets' = 1 .. (Len(assets) + 1)
      BY <1>3, <1>4, <3>1
    <3>3. assets'[at] = n /\ \A i \in DOMAIN assets : assets'[i] = assets[i]
      BY <1>4, <3>1
    <3> QED
      BY <1>4, <3>1, <3>2, <3>3
  <2> QED
    BY <2>1, <2>2
<1>9. at \in DOMAIN assets => assets[at].token = a.token
  BY <1>4, <1>6
<1>10. at \notin DOMAIN assets => a.type = "insert" \/ a.at = 0
  BY <1>6, <1>7
<1> HIDE DEF at, over
<1>11. \A t : t # a.token => AssetsOf(t)' = AssetsOf(t)
  BY <1>3, <1>8, <1>9 DEF AssetsOf
<1>12. \A i \in AssetsOf(a.token)' : i = at \/ i \in AssetsOf(a.token)
  BY <1>8 DEF AssetsOf
<1>13. at \in AssetsOf(a.token)'
  BY <1>3, <1>8 DEF AssetsOf
<1>14. ASSUME NEW i \in DOMAIN assets', i # at
       PROVE  i \in DOMAIN assets /\ assets'[i] = assets[i]
  BY <1>8, <1>14
<1>15. NftTypeOK'
  <2>1. \A i \in DOMAIN assets' : assets'[i].owner \in 1 .. owner[assets'[i].token]
    BY <1>2, <1>3, <1>8, <1>14 DEF NftTypeOK
  <2>2. \A b \in active' : b.at <= Len(assets')
    <3> SUFFICES ASSUME NEW b \in active' PROVE b.at <= Len(assets')
      OBVIOUS
    <3>1. b.at \in Nat \union {-1} /\ b.at <= Len(assets)
      BY <1>1 DEF NftTypeOK
    <3> QED
      BY <1>4, <1>8, <3>1
  <2>3. IsFiniteSet(active') /\ Cardinality(active') <= EnrichConcurrency
    <3>1. Cardinality(active) \in Nat /\ Cardinality(active) <= EnrichConcurrency /\ EnrichConcurrency \in Nat
      BY FS_CardinalityType, NftAssumption DEF NftTypeOK
    <3>2. IsFiniteSet(active \ {a}) /\ Cardinality(active \ {a}) = Cardinality(active) - 1
      BY FS_RemoveElement
    <3> QED
      BY <1>1, <3>1, <3>2
  <2>4. active' \subseteq TokenRead /\ (\A b \in active' : b.owner \in 1 .. owner[b.token])
    BY <1>1 DEF NftTypeOK, TokenRead
  <2> QED
    BY <1>1, <1>8, <2>1, <2>2, <2>3, <2>4 DEF NftTypeOK, TokenRead, Asset
<1>16. IsFiniteSet(active') /\ Minted' = Minted
  BY <1>1, FS_RemoveElement DEF Minted
<1>17. BurnsAreOnChain'
  BY <1>1, <1>3, <1>8, <1>14 DEF BurnsAreOnChain
<1>18. JobsAreAlone'
  <2> SUFFICES ASSUME NEW b \in active'
               PROVE  /\ b.at > 0 => assets'[b.at].token = b.token
                      /\ b.token \notin unsureTokens =>
                            /\ \A c \in active' : c.token = b.token => c = b
                            /\ b.type = "insert" \/ b.at = 0 => AssetsOf(b.token)' = {}
    BY <1>1 DEF JobsAreAlone
  <2>1. b \in active /\ b # a /\ b.at \in Nat \union {-1} /\ b.at <= Len(assets)
    BY <1>1 DEF NftTypeOK
  <2>2. b.at > 0 => assets'[b.at].token = b.token
    <3> SUFFICES ASSUME b.at > 0 PROVE assets'[b.at].token = b.token
      OBVIOUS
    <3>1. b.at \in DOMAIN assets /\ assets[b.at].token = b.token
      BY <1>4, <2>1 DEF JobsAreAlone
    <3>2. CASE b.at = at
      BY <1>3, <1>8, <1>9, <3>1, <3>2
    <3>3. CASE b.at # at
      BY <1>8, <3>1, <3>3
    <3> QED
      BY <3>2, <3>3
  <2>3. ASSUME b.token \notin unsureTokens
        PROVE  /\ \A c \in active' : c.token = b.token => c = b
               /\ b.type = "insert" \/ b.at = 0 => AssetsOf(b.token)' = {}
    <3>1. b.token # a.token
      BY <2>1, <2>3 DEF JobsAreAlone
    <3> QED
      BY <1>1, <1>11, <2>1, <2>3, <3>1 DEF JobsAreAlone
  <2> QED
    BY <2>2, <2>3
<1>19. ASSUME NEW t \in Tokens, t \notin unsureTokens, Alive(t), OwnerComes(t) PROVE OwnerComes(t)'
  <2>1. CASE t = a.token
    <3>1. \A b \in active : b.token = t => b = a
      BY <1>19, <2>1 DEF JobsAreAlone
    <3>2. ~\E b \in active' : b.token = t
      BY <1>1, <3>1
    <3>3. CASE a.owner = owner[t]
      BY <1>1, <1>3, <1>8, <1>13, <2>1, <3>2, <3>3 DEF OwnerComes
    <3>4. CASE a.owner # owner[t]
      BY <1>1, <1>19, <2>1, <3>1, <3>4 DEF OwnerComes
    <3> QED
      BY <3>3, <3>4
  <2>2. CASE t # a.token
    <3>1. AssetsOf(t)' = AssetsOf(t)
      BY <1>11, <2>2
    <3>2. \A i \in AssetsOf(t) : assets'[i] = assets[i]
      BY <1>8, <1>9, <2>2 DEF AssetsOf
    <3>3. \A b \in active : b.token = t => b \in active'
      BY <1>1, <2>2
    <3> QED
      BY <1>1, <1>19, <3>1, <3>2, <3>3 DEF OwnerComes
  <2> QED
    BY <2>1, <2>2
<1>20. ASSUME NEW t \in Tokens, t \notin unsureTokens, t \in burnedOn, BurnComes(t) PROVE BurnComes(t)'
  <2>1. t # a.token
    BY <1>20 DEF BurnsAreOnChain
  <2>2. AssetsOf(t)' = AssetsOf(t)
    BY <1>11, <2>1
  <2>3. \A i \in AssetsOf(t) : assets'[i] = assets[i]
    BY <1>8, <1>9, <2>1 DEF AssetsOf
  <2> QED
    BY <1>1, <1>20, <2>2, <2>3 DEF BurnComes
<1>21. ASSUME NEW t \in Tokens, t \notin unsureTokens
       PROVE  \A i, j \in AssetsOf(t)' : i = j
  <2>1. \A i, j \in AssetsOf(t) : i = j
    BY <1>21 DEF TokensAreFollowed
  <2>2. CASE t # a.token
    BY <1>11, <2>1, <2>2
  <2>3. CASE t = a.token
    <3>1. AssetsOf(t) \subseteq {at}
      <4>1. CASE at \in DOMAIN assets
        BY <1>9, <2>1, <2>3, <4>1 DEF AssetsOf
      <4>2. CASE at \notin DOMAIN assets
        BY <1>10, <1>21, <2>3, <4>2 DEF JobsAreAlone
      <4> QED
        BY <4>1, <4>2
    <3> QED
      BY <1>12, <2>3, <3>1
  <2> QED
    BY <2>2, <2>3
<1>22. TokensAreFollowed'
  BY <1>1, <1>19, <1>20, <1>21 DEF TokensAreFollowed, Alive
<1>23. ASSUME NEW i \in DOMAIN assets, assets[i].burned, ~assets'[i].burned
       PROVE  assets[i].token = a.token /\ a.token \in unsureTokens
  <2>1. i = at
    BY <1>8, <1>23
  <2>2. assets[i].token = a.token
    BY <1>9, <2>1
  <2> QED
    BY <1>23, <2>2 DEF BurnsAreOnChain
<1> QED
  BY <1>15, <1>16, <1>17, <1>18, <1>22, <1>23

\* The first asset of a token that was burned is marked: it is the only one, unless the token is noted.
LEMMA MarkBurnedStep ==
    ASSUME NftInv, MarkBurned
    PROVE  NftInv' /\ \A i \in DOMAIN assets : assets[i].burned => assets'[i].burned
<1> USE DEF NftInv
<1> DEFINE u == Head(burns)
           f == FirstAsset(u)
<1>1. /\ burns # <<>> /\ burns' = Tail(burns)
      /\ assets' = IF AssetsOf(u) = {} THEN assets ELSE [assets EXCEPT ![f].burned = TRUE]
      /\ unsureTokens \subseteq unsureTokens' /\ unsureTokens' \subseteq unsureTokens \union {u}
      /\ UNCHANGED <<owner, burnedOn, todo, handlers, enrich, active>>
  BY DEF MarkBurned
<1>2. u \in Tokens /\ burns' \in Seq(Tokens) /\ Range(burns) = {u} \union Range(burns')
  <2>1. burns \in Seq(Tokens)
    BY DEF NftTypeOK
  <2> QED
    BY <1>1, <2>1, ArriveLemma, RangeLemma
<1>3. u \in burnedOn
  BY <1>2 DEF BurnsAreOnChain
<1> HIDE DEF u
<1>4. assets \in Seq(Asset) /\ DOMAIN assets = 1 .. Len(assets) /\ Len(assets) \in Nat
      /\ \A i \in DOMAIN assets : assets[i] \in Asset
  BY AssetLemma
<1>5. AssetsOf(u) # {} => f \in AssetsOf(u) /\ f \in DOMAIN assets /\ assets[f].token = u
  BY FirstAssetLemma DEF AssetsOf
<1> HIDE DEF f
<1>6. /\ assets' \in Seq(Asset) /\ DOMAIN assets' = DOMAIN assets /\ Len(assets') = Len(assets)
      /\ \A i \in DOMAIN assets :
            /\ assets'[i].token = assets[i].token /\ assets'[i].owner = assets[i].owner
            /\ assets[i].burned => assets'[i].burned
            /\ assets'[i].burned => assets[i].burned \/ assets[i].token = u
      /\ AssetsOf(u) # {} => assets'[f].burned
  <2>1. CASE AssetsOf(u) = {}
    BY <1>1, <1>4, <2>1
  <2>2. CASE AssetsOf(u) # {}
    <3>1. assets' = [assets EXCEPT ![f].burned = TRUE] /\ f \in 1 .. Len(assets)
      BY <1>1, <1>4, <1>5, <2>2
    <3>2. /\ [assets[f] EXCEPT !.burned = TRUE] \in Asset
          /\ [assets[f] EXCEPT !.burned = TRUE].token = assets[f].token
          /\ [assets[f] EXCEPT !.burned = TRUE].owner = assets[f].owner
          /\ [assets[f] EXCEPT !.burned = TRUE].burned = TRUE
      BY <1>4, <3>1 DEF Asset
    <3>3. assets' = [assets EXCEPT ![f] = [assets[f] EXCEPT !.burned = TRUE]]
      BY <3>1
    <3> DEFINE marked == [assets[f] EXCEPT !.burned = TRUE]
    <3> HIDE DEF marked
    <3>4. marked \in Asset /\ assets' = [assets EXCEPT ![f] = marked] /\ f \in 1 .. Len(assets)
      BY <3>1, <3>2, <3>3 DEF marked
    <3>5. assets' \in Seq(Asset) /\ DOMAIN assets' = DOMAIN assets /\ Len(assets') = Len(assets)
      BY <1>4, <3>4
    <3>6. assets'[f] = marked /\ \A i \in DOMAIN assets \ {f} : assets'[i] = assets[i]
      BY <1>4, <3>4
    <3> QED
      BY <1>5, <2>2, <3>2, <3>5, <3>6 DEF marked
  <2> QED
    BY <2>1, <2>2
<1>7. \A t : AssetsOf(t)' = AssetsOf(t)
  BY <1>6 DEF AssetsOf
<1>8. NftTypeOK'
  <2>1. \A i \in DOMAIN assets' : assets'[i].owner \in 1 .. owner[assets'[i].token]
    BY <1>6 DEF NftTypeOK
  <2>2. unsureTokens' \subseteq Tokens
    BY <1>1, <1>2 DEF NftTypeOK
  <2>3. \A a \in active' : a.at <= Len(assets') /\ a.owner \in 1 .. owner'[a.token]
    BY <1>1, <1>6 DEF NftTypeOK
  <2> QED
    BY <1>1, <1>2, <1>6, <2>1, <2>2, <2>3 DEF NftTypeOK, Asset
<1>9. BurnsAreOnChain'
  BY <1>1, <1>2, <1>3, <1>6 DEF BurnsAreOnChain
<1>10. JobsAreAlone'
  <2>1. ASSUME NEW b \in active, b.at > 0 PROVE b.at \in DOMAIN assets
    <3>1. b.at \in Nat \union {-1} /\ b.at <= Len(assets)
      BY DEF NftTypeOK
    <3> QED
      BY <1>4, <2>1, <3>1
  <2>2. \A b \in active' : b.at > 0 => assets'[b.at].token = b.token
    BY <1>1, <1>6, <2>1 DEF JobsAreAlone
  <2> QED
    BY <1>1, <1>7, <2>2 DEF JobsAreAlone
<1>11. ASSUME NEW t \in Tokens, OwnerComes(t) PROVE OwnerComes(t)'
  <2>1. \A i \in AssetsOf(t) : assets'[i].owner = assets[i].owner
    BY <1>6 DEF AssetsOf
  <2> QED
    BY <1>1, <1>7, <1>11, <2>1 DEF OwnerComes
<1>12. ASSUME NEW t \in Tokens, t \notin unsureTokens', BurnComes(t) PROVE BurnComes(t)'
  <2>1. \A i \in AssetsOf(t) : assets[i].burned => assets'[i].burned
    BY <1>6 DEF AssetsOf
  <2>2. CASE t = u /\ \A i \in AssetsOf(t) : i = f
    BY <1>5, <1>6, <1>7, <2>2 DEF BurnComes, AssetsOf
  <2>3. t = u => \A i \in AssetsOf(t) : i = f
    BY <1>1, <1>5, <1>12 DEF TokensAreFollowed
  <2>4. CASE t # u
    BY <1>1, <1>2, <1>7, <1>12, <2>1, <2>4 DEF BurnComes
  <2> QED
    BY <2>2, <2>3, <2>4
<1>13. TokensAreFollowed'
  BY <1>1, <1>7, <1>11, <1>12 DEF TokensAreFollowed, Alive
<1> QED
  BY <1>1, <1>6, <1>8, <1>9, <1>10, <1>13 DEF Minted

\* A crash notes the tokens of all it loses; the active jobs are run again.
LEMMA CrashAssetsStep ==
    ASSUME NftInv, CrashAssets
    PROVE  NftInv'
<1> USE DEF NftInv
<1> DEFINE again == {[token |-> a.token, type |-> a.type] : a \in active}
<1>1. /\ enrich' = SetToSeq(again) \o enrich
      /\ unsureTokens' = unsureTokens \union {h.token : h \in handlers} \union Range(burns)
                             \union {a.token : a \in active}
      /\ handlers' = {} /\ active' = {} /\ burns' = <<>>
      /\ UNCHANGED <<owner, burnedOn, todo, assets>>
  BY DEF CrashAssets
<1>2. IsFiniteSet(again) /\ again \subseteq TokenJob
  <2>1. [a \in active |-> [token |-> a.token, type |-> a.type]] \in Surjection(active, again)
    BY DEF Surjection
  <2>2. again \subseteq TokenJob
    BY DEF TokenJob, NftTypeOK
  <2> HIDE DEF again
  <2> QED
    BY <2>1, <2>2, FS_Surjection
<1> HIDE DEF again
<1>3. enrich' \in Seq(TokenJob) /\ Range(enrich) \subseteq Range(enrich')
  <2>1. enrich \in Seq(TokenJob)
    BY DEF NftTypeOK, TokenJob
  <2>2. SetToSeq(again) \in Seq(TokenJob)
    BY <1>2, SetToSeqLemma, SeqMonotonic
  <2> QED
    BY <1>1, <2>1, <2>2, SendLemma, RangeLemma
<1>4. burns' \in Seq(Tokens) /\ Range(burns') = {} /\ Range(burns) \subseteq Tokens
  <2>1. Range(burns') = {}
    BY <1>1, EmptyLemma, RangeLemma
  <2>2. Range(burns) \subseteq Tokens
    BY DEF NftTypeOK, Range
  <2> QED
    BY <1>1, <2>1, <2>2, EmptyLemma
<1>5. \A t : AssetsOf(t)' = AssetsOf(t)
  BY <1>1, SameAssets
<1>6. IsFiniteSet(active') /\ Cardinality(active') <= EnrichConcurrency
  BY <1>1, FS_EmptySet, NftAssumption
<1>7. NftTypeOK'
  <2>1. unsureTokens' \subseteq Tokens
    BY <1>1, <1>4 DEF NftTypeOK
  <2> QED
    BY <1>1, <1>3, <1>4, <1>6, <2>1 DEF NftTypeOK, TokenJob
<1>8. BurnsAreOnChain'
  BY <1>1, <1>4 DEF BurnsAreOnChain
<1>9. JobsAreAlone'
  BY <1>1 DEF JobsAreAlone
<1>10. ASSUME NEW t \in Tokens, t \notin unsureTokens', OwnerComes(t) PROVE OwnerComes(t)'
  BY <1>1, <1>3, <1>5, <1>10 DEF OwnerComes
<1>11. ASSUME NEW t \in Tokens, t \notin unsureTokens', BurnComes(t) PROVE BurnComes(t)'
  BY <1>1, <1>5, <1>11 DEF BurnComes
<1>12. TokensAreFollowed'
  BY <1>1, <1>5, <1>10, <1>11 DEF TokensAreFollowed, Alive
<1> QED
  BY <1>1, <1>6, <1>7, <1>8, <1>9, <1>12 DEF Minted

LEMMA NextNftInv == NftInv /\ [NftNext]_nftVars => NftInv'
<1> SUFFICES ASSUME NftInv, [NftNext]_nftVars PROVE NftInv'
  OBVIOUS
<1>1. CASE NftHandlerNext
  BY <1>1, TakeItemStep, SetFlagStep, CreateEnrichJobStep, FlagsDownStep DEF NftHandlerNext
<1>2. CASE EnrichNext
  BY <1>2, ReadTokenStep, FindAssetStep, WriteAssetStep, MarkBurnedStep DEF EnrichNext
<1>3. CASE UNCHANGED nftVars
  <2>1. \A t : AssetsOf(t)' = AssetsOf(t)
    BY <1>3, SameAssets DEF nftVars
  <2>2. \A t : (OwnerComes(t)' <=> OwnerComes(t)) /\ (BurnComes(t)' <=> BurnComes(t))
    BY <1>3, <2>1 DEF OwnerComes, BurnComes, nftVars
  <2>3. TokensAreFollowed'
    BY <1>3, <2>1, <2>2 DEF NftInv, TokensAreFollowed, Alive, nftVars
  <2>4. NftTypeOK' /\ IsFiniteSet(Minted') /\ IsFiniteSet(active')
    BY <1>3 DEF NftInv, NftTypeOK, Minted, nftVars
  <2>5. BurnsAreOnChain' /\ JobsAreAlone'
    BY <1>3, <2>1 DEF NftInv, BurnsAreOnChain, JobsAreAlone, nftVars
  <2> QED
    BY <2>3, <2>4, <2>5 DEF NftInv
<1> QED
  BY <1>1, <1>2, <1>3, TokenMovesStep, TokenBurnsStep, FlagsDownStep, HandleCodeStep, CrashAssetsStep DEF NftNext

\* What is followed is current when nothing is under way.
LEMMA FollowedIsCurrent == NftInv => AssetIsCurrent
<1> SUFFICES ASSUME NftInv, NEW t \in Tokens \ unsureTokens, ~Unsettled(t), owner[t] > 0
             PROVE  /\ Cardinality(AssetsOf(t)) <= 1
                    /\ t \notin burnedOn => \E i \in AssetsOf(t) : assets[i].owner = owner[t]
                    /\ \A i \in AssetsOf(t) : assets[i].burned <=> t \in burnedOn
  BY DEF AssetIsCurrent
<1>1. \A i, j \in AssetsOf(t) : i = j
  BY DEF NftInv, TokensAreFollowed
<1>2. Cardinality(AssetsOf(t)) <= 1
  <2>1. CASE AssetsOf(t) = {}
    BY <2>1, FS_EmptySet
  <2>2. CASE AssetsOf(t) # {}
    <3>1. PICK i \in AssetsOf(t) : TRUE
      BY <2>2
    <3>2. AssetsOf(t) = {i}
      BY <1>1, <3>1
    <3>3. Cardinality({i}) = 1
      BY FS_Singleton
    <3> QED
      BY <3>2, <3>3
  <2> QED
    BY <2>1, <2>2
<1>3. t \notin burnedOn => OwnerComes(t)
  BY DEF NftInv, TokensAreFollowed, Alive
<1>4. t \in burnedOn => BurnComes(t)
  BY DEF NftInv, TokensAreFollowed
<1>5. t \notin burnedOn => \E i \in AssetsOf(t) : assets[i].owner = owner[t]
  BY <1>3 DEF OwnerComes, Unsettled
<1>6. t \in burnedOn => \A i \in AssetsOf(t) : assets[i].burned
  BY <1>4 DEF BurnComes, Unsettled
<1>7. \A i \in AssetsOf(t) : assets[i].burned => t \in burnedOn
  BY DEF NftInv, BurnsAreOnChain, AssetsOf
<1> QED
  BY <1>2, <1>5, <1>6, <1>7

\* Only a job that writes takes the mark of an asset away.
LEMMA BurnedReturnsStep ==
    ASSUME NftInv, [NftNext]_nftVars, NEW i \in DOMAIN assets, assets[i].burned, ~assets'[i].burned
    PROVE  assets[i].token \in unsureTokens /\ \E a \in active : a.token = assets[i].token
<1>1. assets' # assets
  OBVIOUS
<1>2. ~MarkBurned
  BY MarkBurnedStep
<1>3. \E a \in active : WriteAsset(a)
  BY <1>1, <1>2 DEF NftNext, NftHandlerNext, EnrichNext, TokenMoves, TokenBurns, FlagExpires, TakeItem, SetFlag,
     CreateEnrichJob, DelFlag, HandleCode, HandleContract, ReadToken, FindAsset, CrashAssets, nftVars
<1> QED
  BY <1>3, WriteAssetStep

\* Whatever transactions, jobs, marks, flags and deaths do to each other, a token whose jobs
\* did not overlap has one asset, with its owner and marked when it is burned; a marked asset
\* is written over only by a job that read the chain before
\* (asset-tx-handler.service.ts:84-218, cw721-asset-manager.service.ts:105-117).
THEOREM AssetsAreTheTokens == NftSpec => AssetsFollowTokens
<1>1. NftSpec => []NftInv
  BY InitNftInv, NextNftInv, PTL DEF NftSpec
<1>2. NftInv => NftTypeOK /\ AssetIsCurrent
  BY FollowedIsCurrent DEF NftInv
<1>3. NftInv /\ [NftNext]_nftVars
          => [\A i \in DOMAIN assets :
                 assets[i].burned /\ ~assets'[i].burned =>
                     assets[i].token \in unsureTokens /\ \E a \in active : a.token = assets[i].token]_nftVars
  BY BurnedReturnsStep
<1> QED
  BY <1>1, <1>2, <1>3, PTL DEF NftSpec, AssetsFollowTokens, BurnedReturnsByStaleRead

-----------------------------------------------------------------------------
(* The balances of CW20 contracts (Cw20Assets).                               *)

\* What a job does for an account, what a job is, and an asset.
AccountWork == [pc : {"ask", "find", "write", "done"}, balance : Cw20Balances, at : Nat]

EnrichWork == [id : 1 .. EnrichCw20, of : UNION {[S -> AccountWork] : S \in SUBSET Owners}]

Assets20 == [owner : Owners, balance : Cw20Balances]

\* What the variables are; jobs are of accounts of the contract, and know places that are theirs.
Cw20Types ==
    /\ DOMAIN balance \subseteq Owners /\ \A o \in DOMAIN balance : balance[o] \in Cw20Balances
    /\ enrichJobs \in Nat /\ holderJobs \in Nat
    /\ enriching \subseteq EnrichWork /\ IsFiniteSet(enriching) /\ Cardinality(enriching) <= EnrichCw20
    /\ \A j \in enriching : DOMAIN j.of \subseteq DOMAIN balance
    /\ tokens \in Seq(Assets20)
    /\ \A i \in DOMAIN tokens : tokens[i].owner \in DOMAIN balance

\* A job found an asset of the account, or none.
PlacesAreTheirs ==
    \A j \in enriching : \A o \in DOMAIN j.of :
        j.of[o].at = 0 \/ (j.of[o].at \in DOMAIN tokens /\ tokens[j.of[o].at].owner = o)

\* A job that has read the balance of an account, and is to write it.
HasRead(j, o) == o \in DOMAIN j.of /\ j.of[o].pc \in {"find", "write"}

\* One job at most has read the balance of an account, unless that was noted...
HoldersAlone ==
    \A j, k \in enriching : \A o \in DOMAIN balance : HasRead(j, o) /\ HasRead(k, o) => j = k \/ o \in blurredBalances

\* ... and so an account has one asset at most, and none if the job did not find one.
AssetsAlone ==
    /\ \A i, k \in DOMAIN tokens : tokens[i].owner = tokens[k].owner => i = k \/ tokens[i].owner \in blurredBalances
    /\ \A j \in enriching : \A o \in DOMAIN j.of :
          j.of[o].pc = "write" /\ j.of[o].at = 0 =>
              o \in blurredBalances \/ \A i \in DOMAIN tokens : tokens[i].owner # o

\* A job will ask for the balance of the account.
WillAsk(o) == \E j \in enriching : o \in DOMAIN j.of /\ j.of[o].pc = "ask"

\* An asset of the account has its present balance.
HasToken(o) == \E i \in DOMAIN tokens : tokens[i].owner = o /\ tokens[i].balance = balance[o]

\* The balance of an account is going to be asked for; or who read it read the present one; or, with
\* nobody to write, the asset has it.
TokenComes(o) ==
    \/ enrichJobs > 0 \/ WillAsk(o)
    \/ /\ \A j \in enriching : HasRead(j, o) => j.of[o].balance = balance[o]
       /\ \/ \E j \in enriching : HasRead(j, o)
          \/ HasToken(o)

BalanceComes == \A o \in DOMAIN balance : o \in blurredBalances \/ TokenComes(o)

\* The holders were counted since the last write, or will be.
CountComes ==
    enrichJobs > 0 \/ enriching # {} \/ holderJobs > 0 \/ holders = CountByAddress

\* The inductive invariant of the service.
Cw20Inv ==
    /\ Cw20Types
    /\ PlacesAreTheirs
    /\ HoldersAlone
    /\ AssetsAlone
    /\ BalanceComes
    /\ CountComes

\* It holds at the start.
LEMMA InitCw20 == Cw20Init => Cw20Inv
<1> SUFFICES ASSUME Cw20Init PROVE Cw20Inv
  OBVIOUS
<1>1. /\ DOMAIN balance = {} /\ enriching = {} /\ tokens = <<>> /\ enrichJobs = 0 /\ holderJobs = 0
      /\ holders = 0 /\ DOMAIN tokens = {}
  BY DEF Cw20Init
<1>2. Cw20Types
  BY <1>1, FS_EmptySet, Cw20Assumption DEF Cw20Types
<1>3. CountByAddress = 0
  BY <1>1, FS_EmptySet DEF CountByAddress
<1> QED
  BY <1>1, <1>2, <1>3
  DEF Cw20Inv, PlacesAreTheirs, HoldersAlone, AssetsAlone, BalanceComes, CountComes

\* A job, and what it becomes by a step with an account.
LEMMA AccountWorkLemma ==
    ASSUME NEW j \in EnrichWork, NEW o \in DOMAIN j.of, NEW x \in AccountWork
    PROVE  LET new == [j EXCEPT !.of[o] = x] IN
           /\ new \in EnrichWork /\ DOMAIN new.of = DOMAIN j.of
           /\ new.of[o] = x /\ \A p \in DOMAIN j.of : p # o => new.of[p] = j.of[p]
           /\ j.of[o] \in AccountWork /\ o \in Owners
<1> DEFINE new == [j EXCEPT !.of[o] = x]
<1>1. PICK S \in SUBSET Owners : j.of \in [S -> AccountWork]
  BY DEF EnrichWork
<1>2. DOMAIN j.of = S
  BY <1>1
<1>3. [j.of EXCEPT ![o] = x] \in [S -> AccountWork]
  BY <1>1
<1>4. new = [id |-> j.id, of |-> [j.of EXCEPT ![o] = x]]
  BY DEF EnrichWork
<1>5. new \in EnrichWork
  BY <1>3, <1>4 DEF EnrichWork
<1> QED
  BY <1>1, <1>2, <1>4, <1>5

\* A step of a job with an account leaves the other jobs alone.
LEMMA AccountStepLemma ==
    ASSUME Cw20Types, NEW j \in enriching, NEW o \in DOMAIN j.of, NEW x \in AccountWork, Step(j, o, x)
    PROVE  \E new \in enriching' :
              /\ enriching' = (enriching \ {j}) \union {new} /\ enriching' \subseteq EnrichWork
              /\ IsFiniteSet(enriching') /\ Cardinality(enriching') <= EnrichCw20
              /\ DOMAIN new.of = DOMAIN j.of /\ new.of[o] = x /\ o \in DOMAIN new.of
              /\ \A p \in DOMAIN j.of : p # o => new.of[p] = j.of[p]
<1> DEFINE new == [j EXCEPT !.of[o] = x]
<1>1. enriching' = (enriching \ {j}) \union {new}
  BY DEF Step
<1>2. /\ new \in EnrichWork /\ DOMAIN new.of = DOMAIN j.of /\ new.of[o] = x
      /\ \A p \in DOMAIN j.of : p # o => new.of[p] = j.of[p]
  BY AccountWorkLemma DEF Cw20Types
<1> HIDE DEF new
<1>3. /\ IsFiniteSet(enriching \ {j}) /\ Cardinality(enriching \ {j}) = Cardinality(enriching) - 1
      /\ Cardinality(enriching) \in Nat /\ Cardinality(enriching) <= EnrichCw20 /\ EnrichCw20 \in Nat
  BY FS_RemoveElement, FS_CardinalityType, Cw20Assumption DEF Cw20Types
<1>4. IsFiniteSet(enriching') /\ Cardinality(enriching') <= EnrichCw20
  <2> DEFINE rest == enriching \ {j}
  <2>1. IsFiniteSet(rest \union {new})
        /\ (Cardinality(rest \union {new}) = Cardinality(rest) \/ Cardinality(rest \union {new}) = Cardinality(rest) + 1)
    BY <1>3, FS_AddElement
  <2>2. Cardinality(rest) = Cardinality(enriching) - 1
    BY <1>3
  <2> HIDE DEF rest
  <2>3. Cardinality(rest \union {new}) <= EnrichCw20
    BY <1>3, <2>1, <2>2
  <2> QED
    BY <1>1, <2>1, <2>3 DEF rest
<1> QED
  BY <1>1, <1>2, <1>4 DEF Cw20Types

\* What is to come for the other accounts is still to come.
LEMMA OtherTokensCome ==
    ASSUME NEW j \in enriching, NEW new, NEW o, NEW p, p # o, TokenComes(p),
           enriching' = (enriching \ {j}) \union {new},
           DOMAIN new.of = DOMAIN j.of, \A q \in DOMAIN j.of : q # o => new.of[q] = j.of[q],
           balance' = balance, enrichJobs' = enrichJobs,
           HasToken(p) => HasToken(p)'
    PROVE  TokenComes(p)'
<1>1. /\ new \in enriching' /\ \A k \in enriching : k # j => k \in enriching'
      /\ \A k \in enriching' : k = new \/ k \in enriching
  OBVIOUS
<1>2. p \in DOMAIN new.of <=> p \in DOMAIN j.of
  OBVIOUS
<1>3. p \in DOMAIN j.of => new.of[p] = j.of[p]
  OBVIOUS
<1>4. WillAsk(p) => WillAsk(p)'
  BY <1>1, <1>2, <1>3 DEF WillAsk
<1>5. (\E k \in enriching : HasRead(k, p)) => \E k \in enriching' : HasRead(k, p)
  BY <1>1, <1>2, <1>3 DEF HasRead
<1>6. (\A k \in enriching : HasRead(k, p) => k.of[p].balance = balance[p])
      => \A k \in enriching' : HasRead(k, p) => k.of[p].balance = balance[p]
  BY <1>1, <1>2, <1>3 DEF HasRead
<1>7. \A k : HasRead(k, p)' <=> HasRead(k, p)
  BY DEF HasRead
<1> QED
  BY <1>4, <1>5, <1>6, <1>7 DEF TokenComes

\* A transaction brings a job.
LEMMA TransferStep ==
    ASSUME Cw20Inv, NEW o \in Owners, NEW b \in Cw20Balances, Transfer(o, b)
    PROVE  Cw20Inv'
<1>1. /\ DOMAIN balance' = DOMAIN balance \union {o}
      /\ \A p \in DOMAIN balance' : balance'[p] = IF p = o THEN b ELSE balance[p]
      /\ enrichJobs' = enrichJobs + 1
      /\ UNCHANGED <<enriching, tokens, holderJobs, holders, blurredBalances>>
  BY DEF Transfer
<1>2. enrichJobs \in Nat
  BY DEF Cw20Inv, Cw20Types
<1>3. enrichJobs' \in Nat /\ enrichJobs' > 0
  BY <1>1, <1>2
<1>4. Cw20Types'
  BY <1>1, <1>3 DEF Cw20Inv, Cw20Types
<1>5. PlacesAreTheirs' /\ AssetsAlone'
  BY <1>1 DEF Cw20Inv, PlacesAreTheirs, AssetsAlone
<1>6. HoldersAlone'
  <2>1. \A j \in enriching : \A p : HasRead(j, p) => p \in DOMAIN balance
    BY DEF Cw20Inv, Cw20Types, HasRead
  <2>2. \A j, p : HasRead(j, p)' <=> HasRead(j, p)
    BY DEF HasRead
  <2> QED
    BY <1>1, <2>1, <2>2 DEF Cw20Inv, HoldersAlone
<1>7. BalanceComes' /\ CountComes'
  BY <1>3 DEF BalanceComes, TokenComes, CountComes
<1> QED
  BY <1>4, <1>5, <1>6, <1>7 DEF Cw20Inv

\* A job is going to ask for every account there is.
LEMMA GetOwnerListStep ==
    ASSUME Cw20Inv, GetOwnerList
    PROVE  Cw20Inv'
<1> DEFINE id  == CHOOSE i \in 1 .. EnrichCw20 : \A j \in enriching : j.id # i
           of  == [o \in DOMAIN balance |-> [pc |-> "ask", balance |-> 0, at |-> 0]]
           new == [id |-> id, of |-> of]
<1>1. /\ enrichJobs > 0 /\ enrichJobs' = enrichJobs - 1 /\ Cardinality(enriching) < EnrichCw20
      /\ enriching' = enriching \union {new}
      /\ UNCHANGED <<balance, tokens, holderJobs, holders, blurredBalances>>
  BY DEF GetOwnerList
<1>2. id \in 1 .. EnrichCw20
  <2> DEFINE taken == {j.id : j \in enriching}
  <2>1. IsFiniteSet(enriching) /\ Cardinality(enriching) \in Nat
    BY FS_CardinalityType DEF Cw20Inv, Cw20Types
  <2>2. [j \in enriching |-> j.id] \in Surjection(enriching, taken)
    BY DEF Surjection
  <2>3. IsFiniteSet(taken) /\ Cardinality(taken) <= Cardinality(enriching) /\ Cardinality(taken) \in Nat
    BY <2>1, <2>2, FS_Surjection, FS_CardinalityType
  <2>4. EnrichCw20 \in Nat /\ Cardinality(1 .. EnrichCw20) = EnrichCw20
    BY Cw20Assumption, FS_Interval
  <2>5. ~(1 .. EnrichCw20 \subseteq taken)
    <3>1. 1 .. EnrichCw20 \subseteq taken => Cardinality(1 .. EnrichCw20) <= Cardinality(taken)
      BY <2>3, FS_Subset
    <3> QED
      BY <1>1, <2>1, <2>3, <2>4, <3>1
  <2>6. \E i \in 1 .. EnrichCw20 : \A j \in enriching : j.id # i
    BY <2>5
  <2> QED
    BY <2>6
<1> HIDE DEF id
<1>3. /\ new \in EnrichWork /\ DOMAIN new.of = DOMAIN balance
      /\ \A o \in DOMAIN balance : new.of[o].pc = "ask" /\ new.of[o].at = 0
  <2>1. of \in [DOMAIN balance -> AccountWork] /\ DOMAIN balance \in SUBSET Owners
    BY Cw20Assumption DEF Cw20Inv, Cw20Types, AccountWork
  <2>2. of \in UNION {[S -> AccountWork] : S \in SUBSET Owners}
    BY <2>1
  <2> QED
    BY <1>2, <2>2 DEF EnrichWork
<1> HIDE DEF new
<1>4. Cw20Types'
  <2>1. IsFiniteSet(enriching') /\ Cardinality(enriching') <= EnrichCw20
    <3>1. IsFiniteSet(enriching) /\ Cardinality(enriching) \in Nat /\ EnrichCw20 \in Nat
      BY FS_CardinalityType, Cw20Assumption DEF Cw20Inv, Cw20Types
    <3> QED
      BY <1>1, <3>1, FS_AddElement
  <2>2. enrichJobs' \in Nat
    BY <1>1 DEF Cw20Inv, Cw20Types
  <2>3. enriching' \subseteq EnrichWork /\ \A j \in enriching' : DOMAIN j.of \subseteq DOMAIN balance
    BY <1>1, <1>3 DEF Cw20Inv, Cw20Types
  <2> QED
    BY <1>1, <2>1, <2>2, <2>3 DEF Cw20Inv, Cw20Types
<1>5. PlacesAreTheirs'
  BY <1>1, <1>3 DEF Cw20Inv, PlacesAreTheirs
<1>6. \A o : ~HasRead(new, o)
  BY <1>3 DEF HasRead
<1>7. \A k, o : HasRead(k, o)' <=> HasRead(k, o)
  BY DEF HasRead
<1>8. HoldersAlone'
  BY <1>1, <1>6, <1>7 DEF Cw20Inv, HoldersAlone
<1>9. AssetsAlone'
  BY <1>1, <1>3 DEF Cw20Inv, AssetsAlone
<1>10. BalanceComes'
  BY <1>1, <1>3 DEF BalanceComes, TokenComes, WillAsk, HasToken
<1>11. CountComes'
  BY <1>1 DEF CountComes
<1> QED
  BY <1>4, <1>5, <1>8, <1>9, <1>10, <1>11 DEF Cw20Inv

\* The place of an account is one of its assets, if it has any.
LEMMA TokenOfLemma ==
    ASSUME Cw20Types, NEW o
    PROVE  \/ TokenOf(o) = 0 /\ \A i \in DOMAIN tokens : tokens[i].owner # o
           \/ TokenOf(o) \in DOMAIN tokens /\ tokens[TokenOf(o)].owner = o
<1> DEFINE theirs == {i \in DOMAIN tokens : tokens[i].owner = o}
<1>1. DOMAIN tokens = 1 .. Len(tokens) /\ Len(tokens) \in Nat
  BY ElementsLemma DEF Cw20Types
<1>2. CASE theirs = {}
  BY <1>2 DEF TokenOf
<1>3. CASE theirs # {}
  <2>1. theirs \subseteq Nat
    BY <1>1
  <2>2. PICK i \in theirs : \A k \in theirs : i <= k
    BY <1>3, <2>1, MinLemma
  <2>3. \A k \in 1 .. (i - 1) : tokens[k].owner # o
    <3> SUFFICES ASSUME NEW k \in 1 .. (i - 1), tokens[k].owner = o PROVE FALSE
      OBVIOUS
    <3>1. k \in theirs /\ ~(i <= k)
      BY <1>1, <2>2
    <3> QED
      BY <2>2, <3>1
  <2>4. \E m \in DOMAIN tokens : tokens[m].owner = o /\ \A k \in 1 .. (m - 1) : tokens[k].owner # o
    BY <2>2, <2>3
  <2> QED
    BY <2>4 DEF TokenOf
<1> QED
  BY <1>2, <1>3

\* What changes jobs only keeps most.
LEMMA TokensStay ==
    ASSUME Cw20Types, NEW j \in enriching, NEW o \in DOMAIN j.of, NEW new \in enriching',
           enriching' = (enriching \ {j}) \union {new}, enriching' \subseteq EnrichWork,
           IsFiniteSet(enriching'), Cardinality(enriching') <= EnrichCw20,
           DOMAIN new.of = DOMAIN j.of,
           UNCHANGED <<balance, enrichJobs, tokens, holderJobs>>
    PROVE  Cw20Types' /\ CountComes'
<1>1. Cw20Types'
  BY DEF Cw20Types
<1> QED
  BY <1>1 DEF CountComes

\* The balance is the present one, and no other job is at the account, unless it was noted.
LEMMA GetBalanceStep ==
    ASSUME Cw20Inv, NEW j \in enriching, NEW o \in DOMAIN j.of, GetBalance(j, o)
    PROVE  Cw20Inv'
<1> DEFINE x == [pc |-> "find", balance |-> balance[o], at |-> 0]
<1>1. /\ j.of[o].pc = "ask" /\ Step(j, o, x)
      /\ blurredBalances' = IF Shared(j, o) THEN blurredBalances \union {o} ELSE blurredBalances
      /\ UNCHANGED <<balance, enrichJobs, tokens, holderJobs, holders>>
  BY DEF GetBalance
<1>2. x \in AccountWork /\ x.pc = "find" /\ x.at = 0 /\ x.balance = balance[o] /\ Cw20Types /\ o \in DOMAIN balance
  BY DEF Cw20Inv, Cw20Types, AccountWork
<1> HIDE DEF x
<1>3. PICK new \in enriching' :
         /\ enriching' = (enriching \ {j}) \union {new} /\ enriching' \subseteq EnrichWork
         /\ IsFiniteSet(enriching') /\ Cardinality(enriching') <= EnrichCw20
         /\ DOMAIN new.of = DOMAIN j.of /\ new.of[o] = x /\ o \in DOMAIN new.of
         /\ \A p \in DOMAIN j.of : p # o => new.of[p] = j.of[p]
  BY <1>1, <1>2, AccountStepLemma
<1>4. Cw20Types' /\ CountComes'
  BY <1>1, <1>2, <1>3, TokensStay
<1>5. PlacesAreTheirs'
  BY <1>1, <1>2, <1>3 DEF Cw20Inv, PlacesAreTheirs
<1>6. \A k, p : HasRead(k, p)' <=> HasRead(k, p)
  BY DEF HasRead
<1>7. /\ blurredBalances \subseteq blurredBalances'
      /\ o \notin blurredBalances' => \A k \in enriching \ {j} : ~HasRead(k, o)
  BY <1>1 DEF Shared, HasRead
<1>8. \A p : p # o => (HasRead(new, p) <=> HasRead(j, p))
  BY <1>3 DEF HasRead
<1>9. HoldersAlone'
  <2> SUFFICES ASSUME NEW k \in enriching', NEW m \in enriching', NEW p \in DOMAIN balance, HasRead(k, p), HasRead(m, p),
                      p \notin blurredBalances'
               PROVE  k = m
    BY <1>1, <1>6 DEF HoldersAlone
  <2>1. CASE p = o
    BY <1>3, <1>7, <2>1
  <2>2. CASE p # o
    BY <1>3, <1>7, <1>8, <2>2 DEF Cw20Inv, HoldersAlone
  <2> QED
    BY <2>1, <2>2
<1>10. AssetsAlone'
  BY <1>1, <1>2, <1>3, <1>7 DEF Cw20Inv, AssetsAlone
<1>11. BalanceComes'
  <2> SUFFICES ASSUME NEW p \in DOMAIN balance, p \notin blurredBalances'
               PROVE  TokenComes(p)'
    BY <1>1 DEF BalanceComes
  <2>1. CASE p = o
    <3>1. HasRead(new, o) /\ new.of[o].balance = balance[o]
      BY <1>2, <1>3 DEF HasRead
    <3>2. \A k \in enriching' : HasRead(k, o) => k = new
      BY <1>3, <1>7, <2>1
    <3> QED
      BY <1>1, <1>6, <2>1, <3>1, <3>2 DEF TokenComes
  <2>2. CASE p # o
    <3>1. TokenComes(p)
      BY <1>7 DEF Cw20Inv, BalanceComes
    <3> QED
      BY <1>1, <1>3, <2>2, <3>1, OtherTokensCome DEF HasToken
  <2> QED
    BY <2>1, <2>2
<1> QED
  BY <1>4, <1>5, <1>9, <1>10, <1>11 DEF Cw20Inv

\* A balance that is not answered is noted.
LEMMA GetBalanceNullStep ==
    ASSUME Cw20Inv, NEW j \in enriching, NEW o \in DOMAIN j.of, GetBalanceNull(j, o)
    PROVE  Cw20Inv'
<1> DEFINE x == [j.of[o] EXCEPT !.pc = "done"]
<1>1. /\ j.of[o].pc = "ask" /\ Step(j, o, x) /\ blurredBalances' = blurredBalances \union {o}
      /\ UNCHANGED <<balance, enrichJobs, tokens, holderJobs, holders>>
  BY DEF GetBalanceNull
<1>2. x \in AccountWork /\ x.pc = "done" /\ x.at = j.of[o].at /\ Cw20Types
  <2>1. j \in EnrichWork /\ Cw20Types
    BY DEF Cw20Inv, Cw20Types
  <2>2. j.of[o] \in AccountWork
    BY <2>1 DEF EnrichWork
  <2> QED
    BY <2>1, <2>2 DEF AccountWork
<1> HIDE DEF x
<1>3. PICK new \in enriching' :
         /\ enriching' = (enriching \ {j}) \union {new} /\ enriching' \subseteq EnrichWork
         /\ IsFiniteSet(enriching') /\ Cardinality(enriching') <= EnrichCw20
         /\ DOMAIN new.of = DOMAIN j.of /\ new.of[o] = x /\ o \in DOMAIN new.of
         /\ \A p \in DOMAIN j.of : p # o => new.of[p] = j.of[p]
  BY <1>1, <1>2, AccountStepLemma
<1>4. Cw20Types' /\ CountComes'
  BY <1>1, <1>2, <1>3, TokensStay
<1>5. PlacesAreTheirs'
  BY <1>1, <1>2, <1>3 DEF Cw20Inv, PlacesAreTheirs
<1>6. \A k, p : HasRead(k, p)' <=> HasRead(k, p)
  BY DEF HasRead
<1>7. \A p : HasRead(new, p) => HasRead(j, p)
  BY <1>2, <1>3 DEF HasRead
<1>8. HoldersAlone'
  BY <1>1, <1>3, <1>6, <1>7 DEF Cw20Inv, HoldersAlone
<1>9. AssetsAlone'
  BY <1>1, <1>2, <1>3 DEF Cw20Inv, AssetsAlone
<1>10. BalanceComes'
  <2> SUFFICES ASSUME NEW p \in DOMAIN balance, p # o, p \notin blurredBalances
               PROVE  TokenComes(p)'
    BY <1>1 DEF BalanceComes
  <2>1. TokenComes(p)
    BY DEF Cw20Inv, BalanceComes
  <2> QED
    BY <1>1, <1>3, <2>1, OtherTokensCome DEF HasToken
<1> QED
  BY <1>4, <1>5, <1>8, <1>9, <1>10 DEF Cw20Inv

\* The job finds the asset of the account, or that it has none.
LEMMA FindTokenStep ==
    ASSUME Cw20Inv, NEW j \in enriching, NEW o \in DOMAIN j.of, FindToken(j, o)
    PROVE  Cw20Inv'
<1> DEFINE x == [j.of[o] EXCEPT !.pc = "write", !.at = TokenOf(o)]
<1>1. /\ j.of[o].pc = "find" /\ Step(j, o, x)
      /\ UNCHANGED <<balance, enrichJobs, tokens, holderJobs, holders, blurredBalances>>
  BY DEF FindToken
<1>2. \/ TokenOf(o) = 0 /\ \A i \in DOMAIN tokens : tokens[i].owner # o
      \/ TokenOf(o) \in DOMAIN tokens /\ tokens[TokenOf(o)].owner = o
  BY TokenOfLemma DEF Cw20Inv
<1>3. x \in AccountWork /\ x.pc = "write" /\ x.at = TokenOf(o) /\ x.balance = j.of[o].balance /\ Cw20Types
  <2>1. j \in EnrichWork /\ Cw20Types
    BY DEF Cw20Inv, Cw20Types
  <2>2. j.of[o] \in AccountWork
    BY <2>1 DEF EnrichWork
  <2>3. TokenOf(o) \in Nat
    BY <1>2, <2>1, ElementsLemma DEF Cw20Types
  <2> QED
    BY <2>1, <2>2, <2>3 DEF AccountWork
<1> HIDE DEF x
<1>4. PICK new \in enriching' :
         /\ enriching' = (enriching \ {j}) \union {new} /\ enriching' \subseteq EnrichWork
         /\ IsFiniteSet(enriching') /\ Cardinality(enriching') <= EnrichCw20
         /\ DOMAIN new.of = DOMAIN j.of /\ new.of[o] = x /\ o \in DOMAIN new.of
         /\ \A p \in DOMAIN j.of : p # o => new.of[p] = j.of[p]
  BY <1>1, <1>3, AccountStepLemma
<1>5. Cw20Types' /\ CountComes'
  BY <1>1, <1>3, <1>4, TokensStay
<1>6. PlacesAreTheirs'
  BY <1>1, <1>2, <1>3, <1>4 DEF Cw20Inv, PlacesAreTheirs
<1>7. \A k, p : HasRead(k, p)' <=> HasRead(k, p)
  BY DEF HasRead
<1>8. \A p : HasRead(new, p) <=> HasRead(j, p)
  BY <1>1, <1>3, <1>4 DEF HasRead
<1>9. HoldersAlone'
  BY <1>1, <1>4, <1>7, <1>8 DEF Cw20Inv, HoldersAlone
<1>10. AssetsAlone'
  <2>1. \A i, k \in DOMAIN tokens : tokens[i].owner = tokens[k].owner => i = k \/ tokens[i].owner \in blurredBalances
    BY DEF Cw20Inv, AssetsAlone
  <2>2. ASSUME NEW k \in enriching', NEW p \in DOMAIN k.of, k.of[p].pc = "write", k.of[p].at = 0,
               p \notin blurredBalances
        PROVE  \A i \in DOMAIN tokens : tokens[i].owner # p
    <3>1. CASE k # new
      BY <1>4, <2>2, <3>1 DEF Cw20Inv, AssetsAlone
    <3>2. CASE k = new /\ p # o
      BY <1>4, <2>2, <3>2 DEF Cw20Inv, AssetsAlone
    <3>3. CASE k = new /\ p = o
      BY <1>2, <1>3, <1>4, <2>2, <3>3, ElementsLemma DEF Cw20Types
    <3> QED
      BY <3>1, <3>2, <3>3
  <2> QED
    BY <1>1, <2>1, <2>2 DEF AssetsAlone
<1>11. BalanceComes'
  <2> SUFFICES ASSUME NEW p \in DOMAIN balance, p \notin blurredBalances
               PROVE  TokenComes(p)'
    BY <1>1 DEF BalanceComes
  <2>1. TokenComes(p)
    BY DEF Cw20Inv, BalanceComes
  <2>2. CASE p = o
    <3>1. HasRead(j, o)
      BY <1>1 DEF HasRead
    <3>2. WillAsk(o) => WillAsk(o)'
      BY <1>1, <1>4 DEF WillAsk
    <3>3. (\A k \in enriching : HasRead(k, o) => k.of[o].balance = balance[o])
          => \A k \in enriching' : HasRead(k, o) => k.of[o].balance = balance[o]
      BY <1>3, <1>4, <3>1
    <3>4. HasRead(new, o)
      BY <1>8, <3>1
    <3> QED
      BY <1>1, <1>4, <1>7, <2>1, <2>2, <3>2, <3>3, <3>4 DEF TokenComes
  <2>3. CASE p # o
    BY <1>1, <1>4, <2>1, <2>3, OtherTokensCome DEF HasToken
  <2> QED
    BY <2>2, <2>3
<1> QED
  BY <1>5, <1>6, <1>9, <1>10, <1>11 DEF Cw20Inv

\* The collection with an asset written in its place or after all others.
LEMMA TokenPutLemma ==
    ASSUME Cw20Types, NEW t \in Assets20, NEW at, at = 0 \/ at \in DOMAIN tokens,
           tokens' = IF at = 0 THEN Append(tokens, t) ELSE [tokens EXCEPT ![at] = t]
    PROVE  /\ tokens' \in Seq(Assets20)
           /\ \E m \in DOMAIN tokens' :
                 /\ tokens'[m] = t /\ DOMAIN tokens' = DOMAIN tokens \union {m}
                 /\ IF at = 0 THEN m \notin DOMAIN tokens ELSE m = at
                 /\ \A i \in DOMAIN tokens : i # m => tokens'[i] = tokens[i]
<1>1. tokens \in Seq(Assets20)
  BY DEF Cw20Types
<1>2. DOMAIN tokens = 1 .. Len(tokens) /\ Len(tokens) \in Nat
  BY <1>1, ElementsLemma
<1>3. CASE at = 0
  <2> DEFINE m == Len(tokens) + 1
  <2>1. tokens' \in Seq(Assets20) /\ Len(tokens') = m /\ tokens'[m] = t
    BY <1>1, <1>3
  <2>2. \A i \in 1 .. Len(tokens) : tokens'[i] = tokens[i]
    BY <1>1, <1>3
  <2>3. DOMAIN tokens' = 1 .. m
    BY <2>1
  <2>4. m \notin DOMAIN tokens /\ DOMAIN tokens' = DOMAIN tokens \union {m} /\ m \in DOMAIN tokens'
    BY <1>2, <2>3
  <2> HIDE DEF m
  <2> QED
    BY <1>2, <1>3, <2>1, <2>2, <2>4
<1>4. CASE at # 0
  <2>1. tokens' \in Seq(Assets20)
    BY <1>1, <1>4
  <2> QED
    BY <1>2, <1>4, <2>1
<1> QED
  BY <1>3, <1>4

\* The asset of the account has what the only job that was to write it read.
LEMMA UpsertStep ==
    ASSUME Cw20Inv, NEW j \in enriching, NEW o \in DOMAIN j.of, UpsertToken(j, o)
    PROVE  Cw20Inv'
<1> DEFINE x  == [j.of[o] EXCEPT !.pc = "done"]
           t  == [owner |-> o, balance |-> j.of[o].balance]
           at == j.of[o].at
<1>1. /\ j.of[o].pc = "write" /\ Step(j, o, x)
      /\ tokens' = IF at = 0 THEN Append(tokens, t) ELSE [tokens EXCEPT ![at] = t]
      /\ UNCHANGED <<balance, enrichJobs, holderJobs, holders, blurredBalances>>
  BY DEF UpsertToken
<1>2. /\ x \in AccountWork /\ x.pc = "done" /\ x.at = at /\ Cw20Types
      /\ t \in Assets20 /\ t.owner = o /\ t.balance = j.of[o].balance /\ o \in DOMAIN balance
  <2>1. j \in EnrichWork /\ Cw20Types /\ o \in DOMAIN balance /\ o \in Owners
    BY DEF Cw20Inv, Cw20Types
  <2>2. j.of[o] \in AccountWork
    BY <2>1 DEF EnrichWork
  <2> QED
    BY <2>1, <2>2 DEF AccountWork, Assets20
<1> HIDE DEF x, t
<1>3. PICK new \in enriching' :
         /\ enriching' = (enriching \ {j}) \union {new} /\ enriching' \subseteq EnrichWork
         /\ IsFiniteSet(enriching') /\ Cardinality(enriching') <= EnrichCw20
         /\ DOMAIN new.of = DOMAIN j.of /\ new.of[o] = x /\ o \in DOMAIN new.of
         /\ \A p \in DOMAIN j.of : p # o => new.of[p] = j.of[p]
  BY <1>1, <1>2, AccountStepLemma
<1>4. at = 0 \/ (at \in DOMAIN tokens /\ tokens[at].owner = o)
  BY DEF Cw20Inv, PlacesAreTheirs
<1> HIDE DEF at
<1>5. tokens' \in Seq(Assets20)
  BY <1>1, <1>2, <1>4, TokenPutLemma
<1>6. PICK m \in DOMAIN tokens' :
         /\ tokens'[m] = t /\ DOMAIN tokens' = DOMAIN tokens \union {m}
         /\ IF at = 0 THEN m \notin DOMAIN tokens ELSE m = at
         /\ \A i \in DOMAIN tokens : i # m => tokens'[i] = tokens[i]
  BY <1>1, <1>2, <1>4, TokenPutLemma
<1>7. \A i \in DOMAIN tokens : tokens'[i].owner = tokens[i].owner
  BY <1>2, <1>4, <1>6
<1>8. Cw20Types'
  <2>1. \A i \in DOMAIN tokens' : tokens'[i].owner \in DOMAIN balance
    BY <1>2, <1>6, <1>7 DEF Cw20Types
  <2>2. \A k \in enriching' : DOMAIN k.of \subseteq DOMAIN balance
    BY <1>2, <1>3 DEF Cw20Types
  <2> QED
    BY <1>1, <1>2, <1>3, <1>5, <2>1, <2>2 DEF Cw20Types
<1>9. CountComes'
  BY <1>3 DEF CountComes
<1>10. PlacesAreTheirs'
  <2> SUFFICES ASSUME NEW k \in enriching', NEW p \in DOMAIN k.of, k.of[p].at # 0
               PROVE  k.of[p].at \in DOMAIN tokens' /\ tokens'[k.of[p].at].owner = p
    BY DEF PlacesAreTheirs
  <2>1. k.of[p].at \in DOMAIN tokens /\ tokens[k.of[p].at].owner = p
    <3>1. CASE k \in enriching
      BY <3>1 DEF Cw20Inv, PlacesAreTheirs
    <3>2. CASE k = new /\ p # o
      BY <1>3, <3>2 DEF Cw20Inv, PlacesAreTheirs
    <3>3. CASE k = new /\ p = o
      BY <1>2, <1>3, <1>4, <3>3
    <3> QED
      BY <1>3, <3>1, <3>2, <3>3
  <2> QED
    BY <1>6, <1>7, <2>1
<1>11. \A k, p : HasRead(k, p)' <=> HasRead(k, p)
  BY DEF HasRead
<1>12. /\ \A p : HasRead(new, p) => HasRead(j, p) /\ p # o
       /\ HasRead(j, o)
  BY <1>1, <1>2, <1>3 DEF HasRead
<1>13. o \in blurredBalances \/ \A k \in enriching' : ~HasRead(k, o)
  BY <1>2, <1>3, <1>12 DEF Cw20Inv, HoldersAlone
<1>14. HoldersAlone'
  BY <1>1, <1>3, <1>11, <1>12 DEF Cw20Inv, HoldersAlone
<1>15. AssetsAlone'
  <2>1. ASSUME NEW i \in DOMAIN tokens', NEW k \in DOMAIN tokens', tokens'[i].owner = tokens'[k].owner
        PROVE  i = k \/ tokens'[i].owner \in blurredBalances
    <3>1. CASE i \in DOMAIN tokens /\ k \in DOMAIN tokens
      BY <1>7, <2>1, <3>1 DEF Cw20Inv, AssetsAlone
    <3>2. CASE at = 0
      <4>1. o \in blurredBalances \/ \A n \in DOMAIN tokens : tokens[n].owner # o
        BY <1>1, <3>2 DEF Cw20Inv, AssetsAlone, at
      <4> QED
        BY <1>2, <1>6, <1>7, <2>1, <3>1, <4>1
    <3>3. CASE at # 0
      BY <1>4, <1>6, <3>1, <3>3
    <3> QED
      BY <3>2, <3>3
  <2>2. ASSUME NEW k \in enriching', NEW p \in DOMAIN k.of, k.of[p].pc = "write", k.of[p].at = 0,
               p \notin blurredBalances, NEW i \in DOMAIN tokens'
        PROVE  tokens'[i].owner # p
    <3>1. HasRead(k, p)
      BY <2>2 DEF HasRead
    <3>2. p # o
      BY <1>13, <2>2, <3>1
    <3>3. \A n \in DOMAIN tokens : tokens[n].owner # p
      BY <1>3, <2>2, <3>2 DEF Cw20Inv, AssetsAlone
    <3> QED
      BY <1>2, <1>6, <1>7, <3>2, <3>3
  <2> QED
    BY <1>1, <2>1, <2>2 DEF AssetsAlone
<1>16. BalanceComes'
  <2> SUFFICES ASSUME NEW p \in DOMAIN balance, p \notin blurredBalances
               PROVE  TokenComes(p)'
    BY <1>1 DEF BalanceComes
  <2>1. TokenComes(p)
    BY DEF Cw20Inv, BalanceComes
  <2>2. CASE p = o
    <3>1. WillAsk(o) => WillAsk(o)'
      BY <1>1, <1>3 DEF WillAsk
    <3>2. (\A k \in enriching : HasRead(k, o) => k.of[o].balance = balance[o]) => t.balance = balance[o]
      BY <1>2, <1>12
    <3> QED
      BY <1>1, <1>2, <1>6, <1>11, <1>13, <2>1, <2>2, <3>1, <3>2 DEF TokenComes, HasToken
  <2>3. CASE p # o
    <3>1. \A i \in DOMAIN tokens : tokens[i].owner = p => i \in DOMAIN tokens' /\ tokens'[i] = tokens[i]
      BY <1>2, <1>6, <1>7, <2>3
    <3>2. /\ enriching' = (enriching \ {j}) \union {new} /\ DOMAIN new.of = DOMAIN j.of
          /\ \A q \in DOMAIN j.of : q # o => new.of[q] = j.of[q]
          /\ balance' = balance /\ enrichJobs' = enrichJobs
      BY <1>1, <1>3
    <3>3. HasToken(p) => HasToken(p)'
      BY <3>1, <3>2 DEF HasToken
    <3> QED
      BY <2>1, <2>3, <3>2, <3>3, OtherTokensCome
  <2> QED
    BY <2>2, <2>3
<1> QED
  BY <1>8, <1>9, <1>10, <1>14, <1>15, <1>16 DEF Cw20Inv

\* A job that ends has nothing to do, and has the holders counted.
LEMMA EndEnrichStep ==
    ASSUME Cw20Inv, NEW j \in enriching, EndEnrich(j)
    PROVE  Cw20Inv'
<1>1. /\ \A o \in DOMAIN j.of : j.of[o].pc = "done"
      /\ enriching' = enriching \ {j} /\ holderJobs' = holderJobs + 1
      /\ UNCHANGED <<balance, enrichJobs, tokens, holders, blurredBalances>>
  BY DEF EndEnrich
<1>2. \A o : ~HasRead(j, o) /\ \A k : HasRead(k, o)' <=> HasRead(k, o)
  BY <1>1 DEF HasRead
<1>3. holderJobs' \in Nat /\ holderJobs' > 0
  BY <1>1 DEF Cw20Inv, Cw20Types
<1>4. Cw20Types'
  <2>1. IsFiniteSet(enriching') /\ Cardinality(enriching') <= EnrichCw20
    <3>1. /\ IsFiniteSet(enriching) /\ Cardinality(enriching) \in Nat /\ EnrichCw20 \in Nat
          /\ Cardinality(enriching) <= EnrichCw20
      BY FS_CardinalityType, Cw20Assumption DEF Cw20Inv, Cw20Types
    <3>2. IsFiniteSet(enriching \ {j}) /\ Cardinality(enriching \ {j}) = Cardinality(enriching) - 1
      BY <3>1, FS_RemoveElement
    <3> QED
      BY <1>1, <3>1, <3>2
  <2> QED
    BY <1>1, <1>3, <2>1 DEF Cw20Inv, Cw20Types
<1>5. PlacesAreTheirs' /\ AssetsAlone'
  BY <1>1 DEF Cw20Inv, PlacesAreTheirs, AssetsAlone
<1>6. HoldersAlone'
  BY <1>1, <1>2 DEF Cw20Inv, HoldersAlone
<1>7. \A o : WillAsk(o) => WillAsk(o)'
  BY <1>1 DEF WillAsk
<1>8. \A o : TokenComes(o) => TokenComes(o)'
  BY <1>1, <1>2, <1>7 DEF HasToken, TokenComes
<1>9. BalanceComes' /\ CountComes'
  BY <1>1, <1>3, <1>8 DEF Cw20Inv, BalanceComes, CountComes
<1> QED
  BY <1>4, <1>5, <1>6, <1>9 DEF Cw20Inv

\* The holders are counted.
LEMMA CountHoldersStep ==
    ASSUME Cw20Inv, CountHolders
    PROVE  Cw20Inv'
<1>1. /\ holderJobs > 0 /\ holderJobs' = holderJobs - 1 /\ holders' = CountByAddress
      /\ UNCHANGED <<balance, enrichJobs, enriching, tokens, blurredBalances>>
  BY DEF CountHolders
<1>2. \A o, k : HasRead(k, o)' <=> HasRead(k, o)
  BY DEF HasRead
<1>3. Cw20Types'
  BY <1>1 DEF Cw20Inv, Cw20Types
<1>4. PlacesAreTheirs' /\ AssetsAlone' /\ HoldersAlone'
  BY <1>1, <1>2 DEF Cw20Inv, PlacesAreTheirs, AssetsAlone, HoldersAlone
<1>5. BalanceComes'
  BY <1>1, <1>2 DEF Cw20Inv, BalanceComes, TokenComes, WillAsk, HasToken
<1>6. CountComes'
  BY <1>1 DEF CountComes, CountByAddress
<1> QED
  BY <1>3, <1>4, <1>5, <1>6 DEF Cw20Inv

\* EnrichWork that die run again.
LEMMA CrashCw20Step ==
    ASSUME Cw20Inv, CrashCw20
    PROVE  Cw20Inv'
<1>1. /\ enriching # {} /\ enriching' = {} /\ enrichJobs' = enrichJobs + Cardinality(enriching)
      /\ UNCHANGED <<balance, tokens, holderJobs, holders, blurredBalances>>
  BY DEF CrashCw20
<1>2. enrichJobs' \in Nat /\ enrichJobs' > 0
  <2>1. IsFiniteSet(enriching) /\ enrichJobs \in Nat
    BY DEF Cw20Inv, Cw20Types
  <2>2. Cardinality(enriching) \in Nat /\ Cardinality(enriching) # 0
    BY <1>1, <2>1, FS_CardinalityType, FS_EmptySet
  <2> QED
    BY <1>1, <2>1, <2>2
<1>3. Cw20Types'
  BY <1>1, <1>2, FS_EmptySet, Cw20Assumption DEF Cw20Inv, Cw20Types
<1>4. PlacesAreTheirs' /\ AssetsAlone' /\ HoldersAlone'
  BY <1>1 DEF Cw20Inv, PlacesAreTheirs, AssetsAlone, HoldersAlone
<1>5. BalanceComes' /\ CountComes'
  BY <1>2 DEF BalanceComes, TokenComes, CountComes
<1> QED
  BY <1>3, <1>4, <1>5 DEF Cw20Inv

\* Nothing changes.
LEMMA SameCw20 ==
    ASSUME Cw20Inv, UNCHANGED cw20Vars
    PROVE  Cw20Inv'
BY DEF cw20Vars, Cw20Inv, Cw20Types, PlacesAreTheirs, AssetsAlone, HoldersAlone, HasRead, BalanceComes, TokenComes, WillAsk, HasToken,
       CountComes, CountByAddress

\* Every step keeps the invariant.
LEMMA NextCw20 == Cw20Inv /\ [Cw20Next]_cw20Vars => Cw20Inv'
BY TransferStep, GetOwnerListStep, GetBalanceStep, GetBalanceNullStep, FindTokenStep, UpsertStep, EndEnrichStep,
   CountHoldersStep, CrashCw20Step, SameCw20
DEF Cw20Next, Cw20JobNext

\* What it says at rest.
LEMMA Cw20Lemma == Cw20Inv => BalancesFollowChain
<1> SUFFICES ASSUME Cw20Inv PROVE BalancesFollowChain
  OBVIOUS
<1>1. DOMAIN tokens = 1 .. Len(tokens) /\ Len(tokens) \in Nat
  BY ElementsLemma DEF Cw20Inv, Cw20Types
<1>2. Cw20TypeOK
  <2>1. \A j \in enriching : \A o \in DOMAIN j.of : j.of[o].at \in 0 .. Len(tokens)
    BY <1>1 DEF Cw20Inv, PlacesAreTheirs
  <2> QED
    BY <2>1 DEF Cw20Inv, Cw20Types, Cw20TypeOK
<1>3. ASSUME AtRestCw20, NEW o \in DOMAIN balance, o \notin blurredBalances
      PROVE  Cardinality({i \in DOMAIN tokens : tokens[i].owner = o}) = 1 /\ tokens[TokenOf(o)].balance = balance[o]
  <2>1. PICK i \in DOMAIN tokens : tokens[i].owner = o /\ tokens[i].balance = balance[o]
    BY <1>3 DEF AtRestCw20, Cw20Inv, BalanceComes, TokenComes, WillAsk, HasToken
  <2>2. \A k \in DOMAIN tokens : tokens[k].owner = o => k = i
    BY <1>3, <2>1 DEF Cw20Inv, AssetsAlone
  <2>3. {k \in DOMAIN tokens : tokens[k].owner = o} = {i}
    BY <2>1, <2>2
  <2>4. TokenOf(o) = i
    BY <2>1, <2>2, TokenOfLemma DEF Cw20Inv
  <2> QED
    BY <2>1, <2>3, <2>4, FS_Singleton
<1>4. HoldersAreCounted
  BY DEF Cw20Inv, CountComes, HoldersAreCounted, AtRestCw20
<1> QED
  BY <1>2, <1>3, <1>4 DEF BalancesFollowChain, BalanceIsCurrent

\* After any transfers, with jobs side by side and deaths, the assets of a contract at rest have the balances
\* of the chain, but those that were not answered or asked for by two jobs, and the holders are counted.
THEOREM BalancesAreTheChains == Cw20Spec => []BalancesFollowChain
<1> QED
  BY InitCw20, NextCw20, Cw20Lemma, PTL DEF Cw20Spec

-----------------------------------------------------------------------------
(* The holders of a day (DailyHolders).                                        *)

\* What a record, its history, a job that counts and a job of the chain are.
HolderRow == [c : Cw20Contracts, old : 0 .. MaxHolders, new : 0 .. MaxHolders, change : Int]

HolderPast == [old : 0 .. MaxHolders, new : SUBSET (0 .. MaxHolders), moved : 0 .. 2, there : BOOLEAN]

HolderCount == [c : Cw20Contracts, n : 0 .. MaxHolders, at : Nat]

WalkJob == [offset : Nat, page : Seq(HolderRow), left : SUBSET Nat]

\* What the variables are.
HolderTypes ==
    /\ count \in [Cw20Contracts -> 0 .. MaxHolders] /\ toCount \in [Cw20Contracts -> Nat]
    /\ counting \in Seq(HolderCount) /\ Len(counting) <= Counters
    /\ rows \in Seq(HolderRow) /\ past \in Seq(HolderPast) /\ Len(past) = Len(rows)
    /\ holderWalk = <<>> \/ \E w \in WalkJob : holderWalk = <<w>>
    /\ walkFailures \in Nat /\ days \in Nat

\* A contract has one record.
OneRecord == \A i, j \in DOMAIN rows : rows[i].c = rows[j].c => i = j

\* A job knows the record of its contract; if it knows none there is none, or another job ran.
RecordIsKnown ==
    \A i \in DOMAIN counting :
        IF counting[i].at = 0
        THEN counting[i].c \in blurredHolders \/ \A r \in DOMAIN rows : rows[r].c # counting[i].c
        ELSE counting[i].at \in DOMAIN rows /\ rows[counting[i].at].c = counting[i].c

\* One job of a contract runs, unless that was noted...
CountsAlone ==
    \A i, j \in DOMAIN counting : counting[i].c = counting[j].c => i = j \/ counting[i].c \in blurredHolders

\* ... and so the last number of a contract is to be read, was read, or is in the record.
NumberComes ==
    \A c \in Cw20Contracts :
        \/ c \in blurredHolders \/ toCount[c] > 0
        \/ /\ \A i \in DOMAIN counting : counting[i].c = c => counting[i].n = count[c]
           /\ \/ \E i \in DOMAIN counting : counting[i].c = c
              \/ \A r \in DOMAIN rows : rows[r].c = c => rows[r].new = count[c]

\* The numbers of the day include the present one; a record that was not moved has the old number of midnight.
DayIsKept ==
    \A i \in DOMAIN rows :
        /\ rows[i].new \in past[i].new
        /\ past[i].moved = 0 => rows[i].old = past[i].old
        /\ past[i].moved = 1 => rows[i].old \in past[i].new /\ rows[i].change = ChangePercent(past[i].old, rows[i].old)

\* So does the page of the chain, of the records it is to move.
PageIsOfTheDay ==
    holderWalk # <<>> =>
        /\ holderWalk[1].left \subseteq DOMAIN rows
        /\ \A i \in holderWalk[1].left :
              /\ holderWalk[1].page[i] \in HolderRow /\ holderWalk[1].page[i].new \in past[i].new
              /\ past[i].moved = 0 => holderWalk[1].page[i].old = past[i].old

\* Moved once, or not there at midnight and not moved.
Settled(i) == past[i].moved = 1 \/ (past[i].moved = 0 /\ ~past[i].there)

\* The last place before a page.
Before(offset) == offset * HolderPage

\* Before the page all records are settled, and of the page those that are not left; none after it was moved.
WalkIsAt ==
    walkFailures = 0 /\ days > 0 =>
        \A i \in DOMAIN rows :
            IF holderWalk = <<>> \/ i <= Before(holderWalk[1].offset) THEN Settled(i)
            ELSE IF holderWalk[1].left = {} \/ i > Before(holderWalk[1].offset) + HolderPage THEN past[i].moved = 0
            ELSE IF i \in holderWalk[1].left THEN past[i].moved = 0 ELSE Settled(i)

\* What is left is of the page.
LeftIsOfPage ==
    holderWalk # <<>> =>
        \A i \in holderWalk[1].left :
            Before(holderWalk[1].offset) < i /\ i <= Before(holderWalk[1].offset) + HolderPage

\* The inductive invariant of the service.
HoldersInv ==
    /\ HolderTypes
    /\ OneRecord
    /\ RecordIsKnown /\ CountsAlone /\ NumberComes
    /\ DayIsKept /\ PageIsOfTheDay
    /\ WalkIsAt /\ LeftIsOfPage

\* It holds at the start.
LEMMA InitHolders == HoldersInit => HoldersInv
<1> SUFFICES ASSUME HoldersInit PROVE HoldersInv
  OBVIOUS
<1>1. /\ count = [c \in Cw20Contracts |-> 0] /\ toCount = [c \in Cw20Contracts |-> 0]
      /\ counting = <<>> /\ rows = <<>> /\ past = <<>> /\ holderWalk = <<>> /\ walkFailures = 0 /\ days = 0
      /\ DOMAIN rows = {} /\ DOMAIN counting = {}
  BY DEF HoldersInit
<1>2. HolderTypes
  <2>1. 0 \in 0 .. MaxHolders /\ Counters \in Nat /\ 0 <= Counters
    BY HoldersAssumption
  <2> QED
    BY <1>1, <2>1 DEF HolderTypes
<1> QED
  BY <1>1, <1>2
  DEF HoldersInv, OneRecord, RecordIsKnown, CountsAlone, NumberComes, DayIsKept, PageIsOfTheDay, WalkIsAt, LeftIsOfPage

\* A list in which one element is replaced.
LEMMA ReplacedLemma ==
    ASSUME NEW D, NEW s \in Seq(D), NEW i \in DOMAIN s, NEW x \in D
    PROVE  LET t == [s EXCEPT ![i] = x] IN
           /\ t \in Seq(D) /\ DOMAIN t = DOMAIN s /\ Len(t) = Len(s) /\ t[i] = x
           /\ \A j \in DOMAIN s : j # i => t[j] = s[j]
OBVIOUS

\* A list with one more element.
LEMMA AppendedLemma ==
    ASSUME NEW D, NEW s \in Seq(D), NEW x \in D
    PROVE  LET t == Append(s, x) IN
           /\ t \in Seq(D) /\ Len(t) = Len(s) + 1 /\ t[Len(s) + 1] = x
           /\ DOMAIN t = DOMAIN s \union {Len(s) + 1} /\ Len(s) + 1 \notin DOMAIN s
           /\ \A j \in DOMAIN s : t[j] = s[j]
<1>1. Append(s, x) \in Seq(D) /\ Len(Append(s, x)) = Len(s) + 1 /\ Append(s, x)[Len(s) + 1] = x
  OBVIOUS
<1>2. DOMAIN s = 1 .. Len(s) /\ Len(s) \in Nat /\ DOMAIN Append(s, x) = 1 .. Len(s) + 1
  OBVIOUS
<1>3. \A j \in DOMAIN s : Append(s, x)[j] = s[j]
  OBVIOUS
<1>4. 1 .. Len(s) + 1 = (1 .. Len(s)) \union {Len(s) + 1} /\ Len(s) + 1 \notin 1 .. Len(s)
  BY <1>2
<1> QED
  BY <1>1, <1>2, <1>3, <1>4

\* A list without its i-th element has the others, each at a place of its own.
LEMMA RestLemma ==
    ASSUME NEW D, NEW s \in Seq(D), NEW i \in DOMAIN s
    PROVE  LET t == RemoveAt(s, i) IN
           /\ t \in Seq(D) /\ Len(t) <= Len(s)
           /\ \A p \in DOMAIN t : \E q \in DOMAIN s : q # i /\ t[p] = s[q]
           /\ \A q \in DOMAIN s : q # i => \E p \in DOMAIN t : t[p] = s[q]
           /\ \A p, r \in DOMAIN t : p # r => \E q, u \in DOMAIN s : q # u /\ t[p] = s[q] /\ t[r] = s[u]
<1> DEFINE t == RemoveAt(s, i)
           place(p) == IF p < i THEN p ELSE p + 1
<1>1. DOMAIN s = 1 .. Len(s) /\ Len(s) \in Nat /\ i \in 1 .. Len(s)
  OBVIOUS
<1>2. /\ t \in Seq(D) /\ Len(t) = Len(s) - 1
      /\ \A j \in 1 .. Len(s) - 1 : t[j] = IF j < i THEN s[j] ELSE s[j + 1]
  BY WithoutLemma
<1> HIDE DEF t
<1>3. DOMAIN t = 1 .. Len(s) - 1
  BY <1>2
<1>4. \A p \in DOMAIN t : place(p) \in DOMAIN s /\ place(p) # i /\ t[p] = s[place(p)]
  BY <1>1, <1>2, <1>3
<1>5. \A p, r \in DOMAIN t : p # r => place(p) # place(r)
  BY <1>1, <1>3
<1>6. ASSUME NEW q \in DOMAIN s, q # i PROVE \E p \in DOMAIN t : t[p] = s[q]
  <2>1. CASE q < i
    BY <1>1, <1>2, <1>3, <1>6, <2>1
  <2>2. CASE ~(q < i)
    <3>1. q - 1 \in DOMAIN t /\ ~(q - 1 < i) /\ (q - 1) + 1 = q
      BY <1>1, <1>3, <1>6, <2>2
    <3> QED
      BY <1>2, <1>3, <3>1
  <2> QED
    BY <2>1, <2>2
<1> HIDE DEF place
<1>7. \A p \in DOMAIN t : \E q \in DOMAIN s : q # i /\ t[p] = s[q]
  BY <1>4
<1>8. \A p, r \in DOMAIN t : p # r => \E q, u \in DOMAIN s : q # u /\ t[p] = s[q] /\ t[r] = s[u]
  BY <1>4, <1>5
<1>9. Len(t) <= Len(s)
  BY <1>1, <1>2
<1> QED
  BY <1>2, <1>6, <1>7, <1>8, <1>9 DEF t

\* The record of a contract, if it has one.
LEMMA RecordLemma ==
    ASSUME rows \in Seq(HolderRow), NEW c
    PROVE  IF RecordOf(c) = 0 THEN \A r \in DOMAIN rows : rows[r].c # c
           ELSE RecordOf(c) \in DOMAIN rows /\ rows[RecordOf(c)].c = c
<1> DEFINE I == {i \in 1 .. Len(rows) : rows[i].c = c}
<1>1. DOMAIN rows = 1 .. Len(rows) /\ Len(rows) \in Nat
  BY ElementsLemma
<1>2. RecordOf(c) = IF I # {} THEN Min(I) ELSE 0
  BY DEF RecordOf, SelectInSeq
<1>3. CASE I = {}
  BY <1>1, <1>2, <1>3
<1>4. CASE I # {}
  <2>1. I \subseteq Nat
    BY <1>1
  <2>2. I # {}
    BY <1>4
  <2> HIDE DEF I
  <2>3. Min(I) \in I
    BY <2>1, <2>2, MinLemma
  <2>4. RecordOf(c) \in I /\ 0 \notin I
    BY <1>1, <1>2, <2>2, <2>3 DEF I
  <2> QED
    BY <1>1, <2>4 DEF I
<1> QED
  BY <1>3, <1>4

\* The number of rows and the chain are as they were.
LEMMA RowsStay ==
    ASSUME HoldersInv, UNCHANGED <<rows, past, holderWalk, walkFailures, days>>
    PROVE  OneRecord' /\ DayIsKept' /\ PageIsOfTheDay' /\ WalkIsAt' /\ LeftIsOfPage'
BY DEF HoldersInv, OneRecord, DayIsKept, PageIsOfTheDay, WalkIsAt, LeftIsOfPage, Settled

\* The jobs that count are as they were, and the records have the same contracts and numbers.
LEMMA CountsStay ==
    ASSUME HoldersInv, UNCHANGED <<count, toCount, counting, blurredHolders>>,
           DOMAIN rows' = DOMAIN rows, \A r \in DOMAIN rows : rows'[r].c = rows[r].c /\ rows'[r].new = rows[r].new
    PROVE  OneRecord' /\ RecordIsKnown' /\ CountsAlone' /\ NumberComes'
<1>1. OneRecord' /\ CountsAlone'
  BY DEF HoldersInv, OneRecord, CountsAlone
<1>2. RecordIsKnown'
  BY DEF HoldersInv, RecordIsKnown
<1>3. NumberComes'
  BY DEF HoldersInv, NumberComes
<1> QED
  BY <1>1, <1>2, <1>3

\* A count is asked for.
LEMMA UpdateRequestedStep ==
    ASSUME HoldersInv, NEW c \in Cw20Contracts, NEW n \in 0 .. MaxHolders, UpdateRequested(c, n)
    PROVE  HoldersInv'
<1>1. /\ count' = [count EXCEPT ![c] = n] /\ toCount' = [toCount EXCEPT ![c] = @ + 1]
      /\ UNCHANGED <<counting, rows, holderWalk, walkFailures, days, blurredHolders, past>>
  BY DEF UpdateRequested
<1>2. HolderTypes'
  BY <1>1 DEF HoldersInv, HolderTypes
<1>3. NumberComes'
  <2>1. toCount'[c] > 0 /\ \A d \in Cw20Contracts : d # c => toCount'[d] = toCount[d] /\ count'[d] = count[d]
    BY <1>1 DEF HoldersInv, HolderTypes
  <2> QED
    BY <1>1, <2>1 DEF HoldersInv, NumberComes
<1>4. RecordIsKnown' /\ CountsAlone'
  BY <1>1 DEF HoldersInv, RecordIsKnown, CountsAlone
<1> QED
  BY <1>1, <1>2, <1>3, <1>4, RowsStay DEF HoldersInv

\* A job reads the last number and the record; if another job of the contract runs that is noted.
LEMMA CountContractStep ==
    ASSUME HoldersInv, NEW c \in Cw20Contracts, CountContract(c)
    PROVE  HoldersInv'
<1> DEFINE k == [c |-> c, n |-> count[c], at |-> RecordOf(c)]
           m == Len(counting) + 1
<1>1. /\ toCount[c] > 0 /\ Len(counting) < Counters
      /\ toCount' = [toCount EXCEPT ![c] = @ - 1] /\ counting' = Append(counting, k)
      /\ blurredHolders \subseteq blurredHolders'
      /\ c \in blurredHolders' \/ \A i \in DOMAIN counting : counting[i].c # c
      /\ UNCHANGED <<count, rows, holderWalk, walkFailures, days, past>>
  BY DEF CountContract
<1>2. /\ counting \in Seq(HolderCount) /\ rows \in Seq(HolderRow) /\ count \in [Cw20Contracts -> 0 .. MaxHolders]
      /\ toCount \in [Cw20Contracts -> Nat] /\ Len(counting) \in Nat /\ Counters \in Nat
  BY HoldersAssumption, ElementsLemma DEF HoldersInv, HolderTypes
<1>3. IF RecordOf(c) = 0 THEN \A r \in DOMAIN rows : rows[r].c # c
      ELSE RecordOf(c) \in DOMAIN rows /\ rows[RecordOf(c)].c = c
  BY <1>2, RecordLemma
<1>4. k \in HolderCount /\ k.c = c /\ k.n = count[c] /\ k.at = RecordOf(c)
  <2>1. RecordOf(c) \in Nat
    BY <1>2, <1>3, ElementsLemma
  <2> QED
    BY <1>2, <2>1 DEF HolderCount
<1> HIDE DEF k
<1>5. /\ counting' \in Seq(HolderCount) /\ Len(counting') = m /\ counting'[m] = k
      /\ DOMAIN counting' = DOMAIN counting \union {m} /\ m \notin DOMAIN counting
      /\ \A j \in DOMAIN counting : counting'[j] = counting[j]
  BY <1>1, <1>2, <1>4, AppendedLemma
<1>6. m <= Counters
  BY <1>1, <1>2
<1> HIDE DEF m
<1>7. toCount' \in [Cw20Contracts -> Nat] /\ \A d \in Cw20Contracts : d # c => toCount'[d] = toCount[d]
  BY <1>1, <1>2
<1>8. HolderTypes'
  BY <1>1, <1>5, <1>6, <1>7 DEF HoldersInv, HolderTypes
<1>9. RecordIsKnown'
  <2>1. ASSUME NEW i \in DOMAIN counting
        PROVE  IF counting[i].at = 0
               THEN counting[i].c \in blurredHolders' \/ \A r \in DOMAIN rows : rows[r].c # counting[i].c
               ELSE counting[i].at \in DOMAIN rows /\ rows[counting[i].at].c = counting[i].c
    BY <1>1 DEF HoldersInv, RecordIsKnown
  <2> QED
    BY <1>1, <1>3, <1>4, <1>5, <2>1 DEF RecordIsKnown
<1>10. CountsAlone'
  BY <1>1, <1>4, <1>5 DEF HoldersInv, CountsAlone
<1>11. NumberComes'
  <2> SUFFICES ASSUME NEW d \in Cw20Contracts, d \notin blurredHolders', ~(toCount'[d] > 0)
               PROVE  /\ \A i \in DOMAIN counting' : counting'[i].c = d => counting'[i].n = count[d]
                      /\ \/ \E i \in DOMAIN counting' : counting'[i].c = d
                         \/ \A r \in DOMAIN rows : rows[r].c = d => rows[r].new = count[d]
    BY <1>1 DEF NumberComes
  <2>1. CASE d = c
    BY <1>1, <1>4, <1>5, <2>1
  <2>2. CASE d # c
    <3>1. d \notin blurredHolders /\ ~(toCount[d] > 0)
      BY <1>1, <1>7, <2>2
    <3>2. /\ \A i \in DOMAIN counting : counting[i].c = d => counting[i].n = count[d]
          /\ \/ \E i \in DOMAIN counting : counting[i].c = d
             \/ \A r \in DOMAIN rows : rows[r].c = d => rows[r].new = count[d]
      BY <3>1 DEF HoldersInv, NumberComes
    <3> QED
      BY <1>4, <1>5, <2>2, <3>2
  <2> QED
    BY <2>1, <2>2
<1> QED
  BY <1>1, <1>8, <1>9, <1>10, <1>11, RowsStay DEF HoldersInv

\* A job of a contract that may write it gives its number to the record of the contract, or inserts one.
CountedIn(k, m) ==
    /\ m \in DOMAIN rows' /\ DOMAIN rows' = DOMAIN rows \union {m}
    /\ rows'[m].c = k.c /\ rows'[m].new = k.n
    /\ \A r \in DOMAIN rows : r # m => rows'[r] = rows[r] /\ past'[r] = past[r]
    /\ IF m \in DOMAIN rows
       THEN /\ rows[m].c = k.c /\ rows'[m].old = rows[m].old /\ rows'[m].change = rows[m].change
            /\ past'[m].new = past[m].new \union {k.n} /\ past'[m].old = past[m].old
            /\ past'[m].moved = past[m].moved /\ past'[m].there = past[m].there
       ELSE /\ \A r \in DOMAIN rows : rows[r].c # k.c
            /\ past'[m].new = {k.n} /\ past'[m].moved = 0 /\ ~past'[m].there
            /\ rows'[m].old = 0 /\ past'[m].old = 0

\* The record is written, or the job comes too late to insert it, which was noted.
LEMMA WrittenLemma ==
    ASSUME HoldersInv, NEW i \in DOMAIN counting, UpdateContractHolders(i)
    PROVE  /\ rows' \in Seq(HolderRow) /\ past' \in Seq(HolderPast) /\ Len(past') = Len(rows')
           /\ \/ \E m \in DOMAIN rows' : CountedIn(counting[i], m)
              \/ rows' = rows /\ past' = past /\ counting[i].c \in blurredHolders
<1> DEFINE k == counting[i]
<1>1. /\ counting \in Seq(HolderCount) /\ rows \in Seq(HolderRow) /\ past \in Seq(HolderPast) /\ Len(past) = Len(rows)
      /\ Len(rows) \in Nat
  BY ElementsLemma DEF HoldersInv, HolderTypes
<1>2. k \in HolderCount
  BY <1>1, ElementsLemma
<1>3. k.c \in Cw20Contracts /\ k.n \in 0 .. MaxHolders /\ k.at \in Nat
  BY <1>2 DEF HolderCount
<1>4. IF k.at = 0 THEN InsertRecord(k)
      ELSE SetNew(k) /\ past' = [past EXCEPT ![k.at].new = @ \union {k.n}]
  BY DEF UpdateContractHolders
<1>5. IF k.at = 0 THEN k.c \in blurredHolders \/ \A r \in DOMAIN rows : rows[r].c # k.c
      ELSE k.at \in DOMAIN rows /\ rows[k.at].c = k.c
  BY DEF HoldersInv, RecordIsKnown
<1> HIDE DEF k
<1>6. CASE k.at # 0
  <2> DEFINE m == k.at
             x == [rows[m] EXCEPT !.new = k.n]
             y == [past[m] EXCEPT !.new = @ \union {k.n}]
  <2>1. m \in DOMAIN rows /\ rows[m].c = k.c /\ m \in DOMAIN past
    BY <1>1, <1>5, <1>6
  <2>2. rows[m] \in HolderRow /\ past[m] \in HolderPast
    BY <1>1, <2>1, ElementsLemma
  <2>3. /\ x \in HolderRow /\ x.c = k.c /\ x.new = k.n /\ x.old = rows[m].old /\ x.change = rows[m].change
    BY <1>3, <2>1, <2>2 DEF HolderRow
  <2>4. /\ y \in HolderPast /\ y.new = past[m].new \union {k.n} /\ y.old = past[m].old
        /\ y.moved = past[m].moved /\ y.there = past[m].there
    BY <1>3, <2>2 DEF HolderPast
  <2>5. rows' = [rows EXCEPT ![m] = x] /\ past' = [past EXCEPT ![m] = y]
    BY <1>4, <1>6 DEF SetNew
  <2> HIDE DEF x, y, m
  <2>6. /\ rows' \in Seq(HolderRow) /\ DOMAIN rows' = DOMAIN rows /\ Len(rows') = Len(rows) /\ rows'[m] = x
        /\ \A j \in DOMAIN rows : j # m => rows'[j] = rows[j]
    BY <1>1, <2>1, <2>3, <2>5, ReplacedLemma
  <2>7. /\ past' \in Seq(HolderPast) /\ DOMAIN past' = DOMAIN past /\ Len(past') = Len(past) /\ past'[m] = y
        /\ \A j \in DOMAIN past : j # m => past'[j] = past[j]
    BY <1>1, <2>1, <2>4, <2>5, ReplacedLemma
  <2>8. DOMAIN past = DOMAIN rows
    BY <1>1
  <2>9. CountedIn(k, m)
    BY <2>1, <2>3, <2>4, <2>6, <2>7, <2>8 DEF CountedIn
  <2> QED
    BY <1>1, <2>1, <2>6, <2>7, <2>9 DEF k
<1>7. CASE k.at = 0 /\ RecordOf(k.c) # 0
  <2>1. rows' = rows /\ past' = past
    BY <1>4, <1>7 DEF InsertRecord
  <2>2. RecordOf(k.c) \in DOMAIN rows /\ rows[RecordOf(k.c)].c = k.c
    BY <1>1, <1>7, RecordLemma
  <2> QED
    BY <1>1, <1>5, <1>7, <2>1, <2>2 DEF k
<1>8. CASE k.at = 0 /\ RecordOf(k.c) = 0
  <2> DEFINE m == Len(rows) + 1
             x == [c |-> k.c, old |-> 0, new |-> k.n, change |-> 0]
             y == [old |-> 0, new |-> {k.n}, moved |-> 0, there |-> FALSE]
  <2>1. x \in HolderRow /\ x.c = k.c /\ x.new = k.n /\ x.old = 0
    BY <1>3, HoldersAssumption DEF HolderRow
  <2>2. y \in HolderPast /\ y.new = {k.n} /\ y.moved = 0 /\ ~y.there /\ y.old = 0
    BY <1>3, HoldersAssumption DEF HolderPast
  <2>3. rows' = Append(rows, x) /\ past' = Append(past, y)
    BY <1>4, <1>8 DEF InsertRecord
  <2> HIDE DEF x, y
  <2>4. /\ rows' \in Seq(HolderRow) /\ Len(rows') = Len(rows) + 1 /\ rows'[m] = x
        /\ DOMAIN rows' = DOMAIN rows \union {m} /\ m \notin DOMAIN rows
        /\ \A j \in DOMAIN rows : rows'[j] = rows[j]
    BY <1>1, <2>1, <2>3, AppendedLemma
  <2>5. /\ past' \in Seq(HolderPast) /\ Len(past') = Len(past) + 1 /\ past'[m] = y
        /\ \A j \in DOMAIN past : past'[j] = past[j]
    BY <1>1, <2>2, <2>3, AppendedLemma
  <2>6. \A r \in DOMAIN rows : rows[r].c # k.c
    BY <1>1, <1>8, RecordLemma
  <2>7. DOMAIN past = DOMAIN rows
    BY <1>1
  <2> HIDE DEF m
  <2>8. CountedIn(k, m)
    BY <2>1, <2>2, <2>4, <2>5, <2>6, <2>7 DEF CountedIn
  <2> QED
    BY <1>1, <2>4, <2>5, <2>8 DEF k
<1> QED
  BY <1>6, <1>7, <1>8

\* What is known of the other jobs, and what is to come for the contracts, when a job has written.
LEMMA UpdateContractHoldersStep ==
    ASSUME HoldersInv, NEW i \in DOMAIN counting, UpdateContractHolders(i)
    PROVE  HoldersInv'
<1> DEFINE k == counting[i]
<1>1. /\ counting' = RemoveAt(counting, i)
      /\ UNCHANGED <<count, toCount, holderWalk, walkFailures, days, blurredHolders>>
  BY DEF UpdateContractHolders
<1>2. counting \in Seq(HolderCount) /\ Len(counting) \in Nat /\ Len(counting) <= Counters /\ Counters \in Nat
  BY HoldersAssumption, ElementsLemma DEF HoldersInv, HolderTypes
<1>3. /\ counting' \in Seq(HolderCount) /\ Len(counting') <= Len(counting)
      /\ \A p \in DOMAIN counting' : \E q \in DOMAIN counting : q # i /\ counting'[p] = counting[q]
      /\ \A q \in DOMAIN counting : q # i => \E p \in DOMAIN counting' : counting'[p] = counting[q]
      /\ \A p, r \in DOMAIN counting' :
            p # r => \E q, u \in DOMAIN counting : q # u /\ counting'[p] = counting[q] /\ counting'[r] = counting[u]
  BY <1>1, <1>2, RestLemma
<1>4. /\ rows' \in Seq(HolderRow) /\ past' \in Seq(HolderPast) /\ Len(past') = Len(rows')
      /\ (\E m \in DOMAIN rows' : CountedIn(k, m)) \/ (rows' = rows /\ past' = past /\ k.c \in blurredHolders)
  BY WrittenLemma
<1>5. \A q \in DOMAIN counting : q # i /\ counting[q].c = k.c => k.c \in blurredHolders
  BY DEF HoldersInv, CountsAlone
<1>6. HolderTypes'
  <2>1. Len(counting') <= Counters
    <3>1. Len(counting') \in Nat
      BY <1>3, ElementsLemma
    <3> QED
      BY <1>2, <1>3, <3>1
  <2> QED
    BY <1>1, <1>3, <1>4, <2>1 DEF HoldersInv, HolderTypes
<1>7. CountsAlone'
  <2> SUFFICES ASSUME NEW p \in DOMAIN counting', NEW r \in DOMAIN counting', counting'[p].c = counting'[r].c, p # r
               PROVE  counting'[p].c \in blurredHolders
    BY <1>1 DEF CountsAlone
  <2>1. PICK q, u \in DOMAIN counting : q # u /\ counting'[p] = counting[q] /\ counting'[r] = counting[u]
    BY <1>3
  <2> QED
    BY <2>1 DEF HoldersInv, CountsAlone
<1>8. CASE rows' = rows /\ past' = past /\ k.c \in blurredHolders
  <2>1. RecordIsKnown'
    <3> SUFFICES ASSUME NEW p \in DOMAIN counting'
                 PROVE  IF counting'[p].at = 0
                        THEN counting'[p].c \in blurredHolders \/ \A r \in DOMAIN rows : rows[r].c # counting'[p].c
                        ELSE counting'[p].at \in DOMAIN rows /\ rows[counting'[p].at].c = counting'[p].c
      BY <1>1, <1>8 DEF RecordIsKnown
    <3>1. PICK q \in DOMAIN counting : counting'[p] = counting[q]
      BY <1>3
    <3> QED
      BY <3>1 DEF HoldersInv, RecordIsKnown
  <2>2. NumberComes'
    <3> SUFFICES ASSUME NEW d \in Cw20Contracts, d \notin blurredHolders, ~(toCount[d] > 0)
                 PROVE  /\ \A p \in DOMAIN counting' : counting'[p].c = d => counting'[p].n = count[d]
                        /\ \/ \E p \in DOMAIN counting' : counting'[p].c = d
                           \/ \A r \in DOMAIN rows : rows[r].c = d => rows[r].new = count[d]
      BY <1>1, <1>8 DEF NumberComes
    <3>1. /\ \A q \in DOMAIN counting : counting[q].c = d => counting[q].n = count[d]
          /\ \/ \E q \in DOMAIN counting : counting[q].c = d
             \/ \A r \in DOMAIN rows : rows[r].c = d => rows[r].new = count[d]
      BY DEF HoldersInv, NumberComes
    <3>2. d # k.c
      BY <1>8
    <3>3. \A p \in DOMAIN counting' : counting'[p].c = d => counting'[p].n = count[d]
      BY <1>3, <3>1
    <3>4. (\E q \in DOMAIN counting : counting[q].c = d) => \E p \in DOMAIN counting' : counting'[p].c = d
      BY <1>3, <3>2
    <3> QED
      BY <3>1, <3>3, <3>4
  <2> QED
    BY <1>1, <1>6, <1>7, <1>8, <2>1, <2>2, RowsStay DEF HoldersInv
<1>9. ASSUME NEW m \in DOMAIN rows', CountedIn(k, m)
      PROVE  HoldersInv'
  <2>1. /\ DOMAIN rows' = DOMAIN rows \union {m} /\ rows'[m].c = k.c /\ rows'[m].new = k.n
        /\ \A r \in DOMAIN rows : r # m => rows'[r] = rows[r] /\ past'[r] = past[r]
        /\ m \in DOMAIN rows => rows[m].c = k.c
        /\ m \notin DOMAIN rows => \A r \in DOMAIN rows : rows[r].c # k.c
    BY <1>9 DEF CountedIn
  <2>2. /\ \A r \in DOMAIN rows : rows'[r].c = rows[r].c
        /\ \A r \in DOMAIN rows' : r # m => r \in DOMAIN rows /\ rows[r].c # k.c /\ rows'[r] = rows[r]
    BY <2>1 DEF HoldersInv, OneRecord
  <2>3. OneRecord'
    BY <2>1, <2>2 DEF HoldersInv, OneRecord
  <2>4. RecordIsKnown'
    <3> SUFFICES ASSUME NEW p \in DOMAIN counting'
                 PROVE  IF counting'[p].at = 0
                        THEN counting'[p].c \in blurredHolders \/ \A r \in DOMAIN rows' : rows'[r].c # counting'[p].c
                        ELSE counting'[p].at \in DOMAIN rows' /\ rows'[counting'[p].at].c = counting'[p].c
      BY <1>1 DEF RecordIsKnown
    <3>1. PICK q \in DOMAIN counting : q # i /\ counting'[p] = counting[q]
      BY <1>3
    <3>2. IF counting[q].at = 0
          THEN counting[q].c \in blurredHolders \/ \A r \in DOMAIN rows : rows[r].c # counting[q].c
          ELSE counting[q].at \in DOMAIN rows /\ rows[counting[q].at].c = counting[q].c
      BY DEF HoldersInv, RecordIsKnown
    <3>3. counting[q].c = k.c => k.c \in blurredHolders
      BY <1>5, <3>1
    <3> QED
      BY <2>1, <2>2, <3>1, <3>2, <3>3
  <2>5. NumberComes'
    <3> SUFFICES ASSUME NEW d \in Cw20Contracts, d \notin blurredHolders, ~(toCount[d] > 0)
                 PROVE  /\ \A p \in DOMAIN counting' : counting'[p].c = d => counting'[p].n = count[d]
                        /\ \/ \E p \in DOMAIN counting' : counting'[p].c = d
                           \/ \A r \in DOMAIN rows' : rows'[r].c = d => rows'[r].new = count[d]
      BY <1>1 DEF NumberComes
    <3>1. /\ \A q \in DOMAIN counting : counting[q].c = d => counting[q].n = count[d]
          /\ \/ \E q \in DOMAIN counting : counting[q].c = d
             \/ \A r \in DOMAIN rows : rows[r].c = d => rows[r].new = count[d]
      BY DEF HoldersInv, NumberComes
    <3>2. \A p \in DOMAIN counting' : counting'[p].c = d => counting'[p].n = count[d]
      BY <1>3, <3>1
    <3>3. CASE d = k.c
      BY <2>1, <2>2, <3>1, <3>2, <3>3
    <3>4. CASE d # k.c
      <4>1. (\E q \in DOMAIN counting : counting[q].c = d) => \E p \in DOMAIN counting' : counting'[p].c = d
        BY <1>3, <3>4
      <4> QED
        BY <2>1, <2>2, <3>1, <3>2, <3>4, <4>1
    <3> QED
      BY <3>3, <3>4
  <2>6. \A r \in DOMAIN rows :
           /\ past'[r].moved = past[r].moved /\ past'[r].there = past[r].there /\ past'[r].old = past[r].old
           /\ past[r].new \subseteq past'[r].new
           /\ rows'[r].old = rows[r].old /\ rows'[r].change = rows[r].change
    BY <1>9 DEF CountedIn
  <2>7. rows'[m].new \in past'[m].new
    BY <1>9 DEF CountedIn
  <2>8. m \notin DOMAIN rows => past'[m].moved = 0 /\ ~past'[m].there /\ rows'[m].old = past'[m].old
    BY <1>9 DEF CountedIn
  <2>9. DayIsKept'
    <3> SUFFICES ASSUME NEW r \in DOMAIN rows'
                 PROVE  /\ rows'[r].new \in past'[r].new
                        /\ past'[r].moved = 0 => rows'[r].old = past'[r].old
                        /\ past'[r].moved = 1 => /\ rows'[r].old \in past'[r].new
                                                 /\ rows'[r].change = ChangePercent(past'[r].old, rows'[r].old)
      BY DEF DayIsKept
    <3>1. CASE r \in DOMAIN rows
      <4>1. /\ rows[r].new \in past[r].new
            /\ past[r].moved = 0 => rows[r].old = past[r].old
            /\ past[r].moved = 1 => /\ rows[r].old \in past[r].new
                                    /\ rows[r].change = ChangePercent(past[r].old, rows[r].old)
        BY <3>1 DEF HoldersInv, DayIsKept
      <4>2. rows'[r].new \in past'[r].new
        BY <2>2, <2>6, <2>7, <3>1, <4>1
      <4> QED
        BY <2>6, <3>1, <4>1, <4>2
    <3>2. CASE r \notin DOMAIN rows
      BY <2>1, <2>7, <2>8, <3>2
    <3> QED
      BY <3>1, <3>2
  <2>10. PageIsOfTheDay'
    BY <1>1, <2>1, <2>6 DEF HoldersInv, PageIsOfTheDay
  <2>11. WalkIsAt'
    <3>1. \A r \in DOMAIN rows : Settled(r)' <=> Settled(r)
      BY <2>6 DEF Settled
    <3>2. m \notin DOMAIN rows => Settled(m)' /\ (holderWalk # <<>> => m \notin holderWalk[1].left)
      BY <2>8 DEF HoldersInv, PageIsOfTheDay, Settled
    <3> QED
      BY <1>1, <2>1, <2>6, <2>8, <3>1, <3>2 DEF HoldersInv, WalkIsAt
  <2>12. LeftIsOfPage'
    BY <1>1 DEF HoldersInv, LeftIsOfPage
  <2> QED
    BY <1>6, <1>7, <2>3, <2>4, <2>5, <2>9, <2>10, <2>11, <2>12 DEF HoldersInv
<1> QED
  BY <1>4, <1>8, <1>9

\* The places before a page.
LEMMA BeforeLemma ==
    ASSUME NEW offset \in Nat
    PROVE  Before(offset) \in Nat /\ Before(offset + 1) = Before(offset) + HolderPage /\ Before(0) = 0 /\ HolderPage \in Nat \ {0}
<1>1. HolderPage \in Nat \ {0}
  BY HoldersAssumption
<1>2. offset * HolderPage \in Nat /\ (offset + 1) * HolderPage = offset * HolderPage + HolderPage /\ 0 * HolderPage = 0
  BY <1>1
<1> QED
  BY <1>1, <1>2 DEF Before

\* Midnight: the old numbers are those of the records, and no record was moved.
LEMMA HoldersMidnightStep ==
    ASSUME HoldersInv, HoldersMidnight
    PROVE  HoldersInv'
<1> DEFINE w == [offset |-> 0, page |-> <<>>, left |-> {}]
           y(i) == [old |-> rows[i].old, new |-> {rows[i].new}, moved |-> 0, there |-> TRUE]
<1>1. /\ holderWalk' = <<w>> /\ days' = days + 1 /\ past' = [i \in DOMAIN rows |-> y(i)]
      /\ UNCHANGED <<count, toCount, counting, rows, walkFailures, blurredHolders>>
  BY DEF HoldersMidnight
<1>2. /\ rows \in Seq(HolderRow) /\ DOMAIN rows = 1 .. Len(rows) /\ Len(rows) \in Nat
      /\ \A i \in DOMAIN rows : rows[i] \in HolderRow
  BY ElementsLemma DEF HoldersInv, HolderTypes
<1>3. \A i \in DOMAIN rows : y(i) \in HolderPast
  BY <1>2 DEF HolderRow, HolderPast
<1>4. past' \in Seq(HolderPast) /\ Len(past') = Len(rows)
  <2> HIDE DEF y
  <2>1. past' \in [1 .. Len(rows) -> HolderPast]
    BY <1>1, <1>2, <1>3
  <2> QED
    BY <1>2, <2>1, SeqDef
<1>5. w \in WalkJob /\ holderWalk'[1] = w /\ w.left = {} /\ w.offset = 0 /\ holderWalk' # <<>>
  BY <1>1 DEF WalkJob
<1>6. HolderTypes'
  BY <1>1, <1>4, <1>5 DEF HoldersInv, HolderTypes
<1>7. DayIsKept'
  BY <1>1 DEF DayIsKept
<1>8. PageIsOfTheDay' /\ LeftIsOfPage'
  BY <1>5 DEF PageIsOfTheDay, LeftIsOfPage
<1>9. WalkIsAt'
  <2>1. \A i \in DOMAIN rows : past'[i].moved = 0 /\ ~(i <= Before(0))
    BY <1>1, <1>2, BeforeLemma
  <2> HIDE DEF w
  <2> QED
    BY <1>1, <1>5, <2>1 DEF WalkIsAt
<1>10. OneRecord' /\ RecordIsKnown' /\ CountsAlone' /\ NumberComes'
  BY <1>1, CountsStay
<1> QED
  BY <1>6, <1>7, <1>8, <1>9, <1>10 DEF HoldersInv

\* The page is read; with an empty one all records were settled.
LEMMA ReadRowsStep ==
    ASSUME HoldersInv, ReadRows
    PROVE  HoldersInv'
<1>1. PICK w \in WalkJob : holderWalk = <<w>>
  BY DEF ReadRows, HoldersInv, HolderTypes
<1>2. holderWalk[1] = w /\ holderWalk # <<>> /\ w.offset \in Nat
  BY <1>1 DEF WalkJob
<1> DEFINE left == Places(w.offset)
           v == [w EXCEPT !.page = rows, !.left = left]
<1>3. /\ w.left = {} /\ holderWalk' = IF left = {} THEN <<>> ELSE <<v>>
      /\ UNCHANGED <<count, toCount, counting, rows, walkFailures, days, blurredHolders, past>>
  BY <1>2 DEF ReadRows
<1>4. /\ rows \in Seq(HolderRow) /\ DOMAIN rows = 1 .. Len(rows) /\ Len(rows) \in Nat /\ DOMAIN rows \subseteq Nat
      /\ \A i \in DOMAIN rows : rows[i] \in HolderRow
  BY ElementsLemma DEF HoldersInv, HolderTypes
<1>5. /\ Before(w.offset) \in Nat /\ HolderPage \in Nat \ {0}
      /\ left = {i \in DOMAIN rows : Before(w.offset) < i /\ i <= Before(w.offset) + HolderPage}
  <2>1. /\ Before(w.offset) \in Nat /\ HolderPage \in Nat \ {0} /\ Before(w.offset + 1) = Before(w.offset) + HolderPage
    BY <1>2, BeforeLemma
  <2>2. left = {i \in DOMAIN rows : Before(w.offset) < i /\ i <= Before(w.offset + 1)}
    BY DEF Places, Before
  <2> QED
    BY <2>1, <2>2
<1>6. v \in WalkJob /\ v.offset = w.offset /\ v.page = rows /\ v.left = left
  <2>1. left \subseteq Nat
    BY <1>4, <1>5
  <2> QED
    BY <1>4, <2>1 DEF WalkJob
<1> HIDE DEF left, v
<1>7. HolderTypes'
  BY <1>3, <1>6 DEF HoldersInv, HolderTypes
<1>8. DayIsKept'
  BY <1>3 DEF HoldersInv, DayIsKept
<1>9. OneRecord' /\ RecordIsKnown' /\ CountsAlone' /\ NumberComes'
  BY <1>3, CountsStay
<1>10. CASE left = {}
  <2>1. holderWalk' = <<>>
    BY <1>3, <1>10
  <2>2. \A i \in DOMAIN rows : i <= Before(w.offset)
    <3> SUFFICES ASSUME NEW i \in DOMAIN rows, ~(i <= Before(w.offset)) PROVE FALSE
      OBVIOUS
    <3>1. Before(w.offset) + 1 \in DOMAIN rows
      BY <1>4, <1>5
    <3> QED
      BY <1>5, <1>10, <3>1
  <2>3. WalkIsAt'
    BY <1>2, <1>3, <2>1, <2>2 DEF HoldersInv, WalkIsAt, Settled
  <2> QED
    BY <1>7, <1>8, <1>9, <2>1, <2>3 DEF HoldersInv, PageIsOfTheDay, LeftIsOfPage
<1>11. CASE left # {}
  <2>1. holderWalk' = <<v>> /\ holderWalk'[1] = v /\ holderWalk' # <<>>
    BY <1>3, <1>11
  <2>2. PageIsOfTheDay'
    BY <1>3, <1>4, <1>5, <1>6, <2>1 DEF HoldersInv, DayIsKept, PageIsOfTheDay
  <2>3. LeftIsOfPage'
    BY <1>5, <1>6, <2>1 DEF LeftIsOfPage
  <2>4. WalkIsAt'
    <3> SUFFICES ASSUME walkFailures = 0, days > 0, NEW i \in DOMAIN rows
                 PROVE  IF i <= Before(w.offset) THEN Settled(i)
                        ELSE IF i > Before(w.offset) + HolderPage THEN past[i].moved = 0
                        ELSE IF i \in left THEN past[i].moved = 0 ELSE Settled(i)
      BY <1>3, <1>6, <1>11, <2>1 DEF WalkIsAt, Settled
    <3>1. IF i <= Before(w.offset) THEN Settled(i) ELSE past[i].moved = 0
      BY <1>2, <1>3 DEF HoldersInv, WalkIsAt
    <3>2. i <= Before(w.offset) \/ i > Before(w.offset) + HolderPage \/ i \in left
      BY <1>4, <1>5
    <3> QED
      BY <1>4, <1>5, <3>1, <3>2
  <2> QED
    BY <1>7, <1>8, <1>9, <2>2, <2>3, <2>4 DEF HoldersInv
<1> QED
  BY <1>10, <1>11

\* A record of the page is moved, for the first time if no job of the chain failed.
LEMMA MoveRowStep ==
    ASSUME HoldersInv, holderWalk # <<>>, NEW i \in holderWalk[1].left, MoveRow(i)
    PROVE  HoldersInv'
<1>1. PICK w \in WalkJob : holderWalk = <<w>>
  BY DEF HoldersInv, HolderTypes
<1>2. holderWalk[1] = w /\ w.offset \in Nat /\ i \in w.left
  BY <1>1 DEF WalkJob
<1> DEFINE r == w.page[i]
           left == w.left \ {i}
           x == [rows[i] EXCEPT !.old = r.new, !.change = ChangePercent(r.old, r.new)]
           y == [past[i] EXCEPT !.moved = IF @ < 2 THEN @ + 1 ELSE 2]
           v == [w EXCEPT !.left = left, !.offset = IF left = {} THEN @ + 1 ELSE @]
<1>3. /\ rows' = [rows EXCEPT ![i] = x] /\ past' = [past EXCEPT ![i] = y] /\ holderWalk' = <<v>>
      /\ UNCHANGED <<count, toCount, counting, walkFailures, days, blurredHolders>>
  BY <1>2 DEF MoveRow, NextOffset
<1>4. /\ rows \in Seq(HolderRow) /\ past \in Seq(HolderPast) /\ DOMAIN past = DOMAIN rows /\ Len(past) = Len(rows)
      /\ \A q \in DOMAIN rows : rows[q] \in HolderRow /\ past[q] \in HolderPast
      /\ DOMAIN rows \subseteq Nat
  <2>1. rows \in Seq(HolderRow) /\ past \in Seq(HolderPast) /\ Len(past) = Len(rows)
    BY DEF HoldersInv, HolderTypes
  <2> QED
    BY <2>1, ElementsLemma
<1>5. /\ i \in DOMAIN rows /\ r \in HolderRow /\ r.new \in past[i].new /\ (past[i].moved = 0 => r.old = past[i].old)
      /\ w.left \subseteq DOMAIN rows
  BY <1>1, <1>2 DEF HoldersInv, PageIsOfTheDay
<1>6. ChangePercent(r.old, r.new) \in Int
  <2>1. r.old \in Nat /\ r.new \in Nat
    BY <1>5, HoldersAssumption DEF HolderRow
  <2>2. (r.new - r.old) * 100 \in Int
    BY <2>1
  <2>3. \A a \in Int, b \in Nat : b # 0 => a \div b \in Int
    OBVIOUS
  <2> QED
    BY <2>1, <2>2, <2>3 DEF ChangePercent
<1>7. /\ x \in HolderRow /\ x.c = rows[i].c /\ x.new = rows[i].new /\ x.old = r.new
      /\ x.change = ChangePercent(r.old, r.new)
  BY <1>4, <1>5, <1>6 DEF HolderRow
<1>8. /\ y \in HolderPast /\ y.old = past[i].old /\ y.new = past[i].new /\ y.there = past[i].there
      /\ y.moved # 0 /\ (y.moved = 1 <=> past[i].moved = 0)
  <2>1. past[i] \in HolderPast /\ past[i].moved \in 0 .. 2
    BY <1>4, <1>5 DEF HolderPast
  <2> QED
    BY <2>1 DEF HolderPast
<1>9. v \in WalkJob /\ v.page = w.page /\ v.left = left /\ v.offset = IF left = {} THEN w.offset + 1 ELSE w.offset
  <2> DEFINE next == IF left = {} THEN w.offset + 1 ELSE w.offset
  <2>1. next \in Nat /\ left \in SUBSET Nat
    BY <1>2 DEF WalkJob
  <2>2. v = [w EXCEPT !.left = left, !.offset = next]
    OBVIOUS
  <2> HIDE DEF next, left, v
  <2>3. v \in WalkJob /\ v.page = w.page /\ v.left = left /\ v.offset = next
    BY <2>1, <2>2 DEF WalkJob
  <2> QED
    BY <2>3 DEF next
<1> HIDE DEF r, x, y, v
<1>10. /\ rows' \in Seq(HolderRow) /\ DOMAIN rows' = DOMAIN rows /\ Len(rows') = Len(rows) /\ rows'[i] = x
       /\ \A j \in DOMAIN rows : j # i => rows'[j] = rows[j]
  BY <1>3, <1>4, <1>5, <1>7, ReplacedLemma
<1>11. /\ past' \in Seq(HolderPast) /\ Len(past') = Len(past) /\ past'[i] = y
       /\ \A j \in DOMAIN rows : j # i => past'[j] = past[j]
  BY <1>3, <1>4, <1>5, <1>8, ReplacedLemma
<1>12. holderWalk'[1] = v /\ holderWalk' # <<>>
  BY <1>3
<1>13. HolderTypes'
  BY <1>3, <1>4, <1>9, <1>10, <1>11 DEF HoldersInv, HolderTypes
<1>14. OneRecord' /\ RecordIsKnown' /\ CountsAlone' /\ NumberComes'
  <2>1. \A q \in DOMAIN rows : rows'[q].c = rows[q].c /\ rows'[q].new = rows[q].new
    BY <1>7, <1>10
  <2> QED
    BY <1>3, <1>10, <2>1, CountsStay
<1>15. DayIsKept'
  <2> SUFFICES ASSUME NEW q \in DOMAIN rows
               PROVE  /\ rows'[q].new \in past'[q].new
                      /\ past'[q].moved = 0 => rows'[q].old = past'[q].old
                      /\ past'[q].moved = 1 => /\ rows'[q].old \in past'[q].new
                                               /\ rows'[q].change = ChangePercent(past'[q].old, rows'[q].old)
    BY <1>10 DEF DayIsKept
  <2>1. /\ rows[q].new \in past[q].new
        /\ past[q].moved = 0 => rows[q].old = past[q].old
        /\ past[q].moved = 1 => /\ rows[q].old \in past[q].new
                                /\ rows[q].change = ChangePercent(past[q].old, rows[q].old)
    BY DEF HoldersInv, DayIsKept
  <2>2. CASE q = i
    BY <1>5, <1>7, <1>8, <1>10, <1>11, <2>1, <2>2
  <2>3. CASE q # i
    BY <1>10, <1>11, <2>1, <2>3
  <2> QED
    BY <2>2, <2>3
<1>16. PageIsOfTheDay'
  <2>1. \A q \in w.left : /\ w.page[q] \in HolderRow /\ w.page[q].new \in past[q].new
                          /\ past[q].moved = 0 => w.page[q].old = past[q].old
    BY <1>1, <1>2 DEF HoldersInv, PageIsOfTheDay
  <2>2. \A q \in left : q \in w.left /\ past'[q] = past[q]
    BY <1>5, <1>11
  <2> QED
    BY <1>5, <1>9, <1>10, <1>12, <2>1, <2>2 DEF PageIsOfTheDay
<1>17. Before(w.offset) \in Nat /\ Before(w.offset + 1) = Before(w.offset) + HolderPage /\ HolderPage \in Nat \ {0}
  BY <1>2, BeforeLemma
<1>18. \A q \in w.left : Before(w.offset) < q /\ q <= Before(w.offset) + HolderPage
  BY <1>1, <1>2 DEF HoldersInv, LeftIsOfPage
<1>19. LeftIsOfPage'
  BY <1>9, <1>12, <1>18 DEF LeftIsOfPage
<1>20. WalkIsAt'
  <2> SUFFICES ASSUME walkFailures = 0, days > 0, NEW q \in DOMAIN rows
               PROVE  IF q <= Before(v.offset) THEN Settled(q)'
                      ELSE IF v.left = {} \/ q > Before(v.offset) + HolderPage THEN past'[q].moved = 0
                      ELSE IF q \in v.left THEN past'[q].moved = 0 ELSE Settled(q)'
    BY <1>3, <1>10, <1>12 DEF WalkIsAt
  <2>1. IF q <= Before(w.offset) THEN Settled(q)
        ELSE IF q > Before(w.offset) + HolderPage THEN past[q].moved = 0
        ELSE IF q \in w.left THEN past[q].moved = 0 ELSE Settled(q)
    BY <1>1, <1>2 DEF HoldersInv, WalkIsAt
  <2>2. CASE q = i
    <3>1. past[i].moved = 0 /\ Before(w.offset) < i /\ i <= Before(w.offset) + HolderPage
      BY <1>2, <1>4, <1>5, <1>17, <1>18, <2>1, <2>2
    <3>2. Settled(i)'
      BY <1>8, <1>11, <3>1 DEF Settled
    <3>3. i \notin v.left
      BY <1>9
    <3> QED
      BY <1>4, <1>5, <1>9, <1>17, <2>2, <3>1, <3>2, <3>3
  <2>3. CASE q # i
    <3>1. past'[q] = past[q] /\ (Settled(q)' <=> Settled(q)) /\ (q \in left <=> q \in w.left) /\ q \in Nat
      BY <1>4, <1>11, <2>3 DEF Settled
    <3>2. CASE left = {}
      BY <1>9, <1>17, <2>1, <3>1, <3>2
    <3>3. CASE left # {}
      BY <1>9, <1>17, <2>1, <3>1, <3>3
    <3> QED
      BY <3>2, <3>3
  <2> QED
    BY <2>2, <2>3
<1> QED
  BY <1>13, <1>14, <1>15, <1>16, <1>19, <1>20 DEF HoldersInv

\* A chain that fails is over.
LEMMA FailRowStep ==
    ASSUME HoldersInv, FailRow
    PROVE  HoldersInv'
<1>1. /\ holderWalk' = <<>> /\ walkFailures' = walkFailures + 1 /\ walkFailures \in Nat
      /\ UNCHANGED <<count, toCount, counting, rows, days, blurredHolders, past>>
  BY DEF FailRow, HoldersInv, HolderTypes
<1>2. walkFailures' \in Nat /\ walkFailures' # 0
  BY <1>1
<1>3. HolderTypes'
  BY <1>1, <1>2 DEF HoldersInv, HolderTypes
<1>4. DayIsKept'
  BY <1>1 DEF HoldersInv, DayIsKept
<1>5. OneRecord' /\ RecordIsKnown' /\ CountsAlone' /\ NumberComes'
  BY <1>1, CountsStay
<1>6. PageIsOfTheDay' /\ LeftIsOfPage' /\ WalkIsAt'
  BY <1>1, <1>2 DEF PageIsOfTheDay, LeftIsOfPage, WalkIsAt
<1> QED
  BY <1>3, <1>4, <1>5, <1>6 DEF HoldersInv

\* A job of the chain that dies reads its page again.
LEMMA CrashWalkStep ==
    ASSUME HoldersInv, CrashWalk
    PROVE  HoldersInv'
<1>1. PICK w \in WalkJob : holderWalk = <<w>>
  BY DEF CrashWalk, HoldersInv, HolderTypes
<1> DEFINE v == [w EXCEPT !.left = {}]
<1>2. /\ holderWalk' = <<v>> /\ walkFailures' = walkFailures + 1 /\ walkFailures \in Nat
      /\ UNCHANGED <<count, toCount, counting, rows, days, blurredHolders, past>>
  BY <1>1 DEF CrashWalk, HoldersInv, HolderTypes
<1>3. v \in WalkJob /\ v.left = {}
  BY DEF WalkJob
<1> HIDE DEF v
<1>4. walkFailures' \in Nat /\ walkFailures' # 0 /\ holderWalk'[1] = v
  BY <1>2
<1>5. HolderTypes'
  BY <1>2, <1>3, <1>4 DEF HoldersInv, HolderTypes
<1>6. DayIsKept'
  BY <1>2 DEF HoldersInv, DayIsKept
<1>7. OneRecord' /\ RecordIsKnown' /\ CountsAlone' /\ NumberComes'
  BY <1>2, CountsStay
<1>8. PageIsOfTheDay' /\ LeftIsOfPage' /\ WalkIsAt'
  BY <1>3, <1>4 DEF PageIsOfTheDay, LeftIsOfPage, WalkIsAt
<1> QED
  BY <1>5, <1>6, <1>7, <1>8 DEF HoldersInv

\* Nothing changes.
LEMMA SameHolders ==
    ASSUME HoldersInv, UNCHANGED holderVars
    PROVE  HoldersInv'
<1>1. UNCHANGED <<count, toCount, counting, rows, holderWalk, walkFailures, days, blurredHolders, past>>
  BY DEF holderVars
<1>2. HolderTypes'
  BY <1>1 DEF HoldersInv, HolderTypes
<1> QED
  BY <1>1, <1>2, CountsStay, RowsStay DEF HoldersInv

\* Every step keeps the invariant.
LEMMA NextHolders == HoldersInv /\ [HoldersNext]_holderVars => HoldersInv'
BY UpdateRequestedStep, CountContractStep, UpdateContractHoldersStep, ReadRowsStep, MoveRowStep, HoldersMidnightStep,
   FailRowStep, CrashWalkStep, SameHolders
DEF HoldersNext, HoldersJobNext

\* What it says of the records.
LEMMA HoldersLemma == HoldersInv => HoldersByDay
<1> SUFFICES ASSUME HoldersInv PROVE HoldersByDay
  OBVIOUS
<1>1. HoldersTypeOK
  <2>1. \A i \in DOMAIN rows : rows[i] \in HolderRow
    BY ElementsLemma DEF HoldersInv, HolderTypes
  <2> QED
    BY <2>1 DEF HoldersInv, HolderTypes, OneRecord, HoldersTypeOK, HolderRow
<1>2. HoldersAreCurrent
  <2> SUFFICES ASSUME counting = <<>>, \A c \in Cw20Contracts : toCount[c] = 0, NEW i \in DOMAIN rows,
                      rows[i].c \notin blurredHolders
               PROVE  rows[i].new = count[rows[i].c]
    BY DEF HoldersAreCurrent
  <2>1. rows[i].c \in Cw20Contracts
    <3>1. rows[i] \in HolderRow
      BY ElementsLemma DEF HoldersInv, HolderTypes
    <3> QED
      BY <3>1 DEF HolderRow
  <2>2. DOMAIN counting = {}
    OBVIOUS
  <2> QED
    BY <2>1, <2>2 DEF HoldersInv, NumberComes
<1>3. OldIsOfTheDay
  BY DEF HoldersInv, DayIsKept, OldIsOfTheDay
<1>4. EachRowMovedOnce
  BY DEF HoldersInv, WalkIsAt, EachRowMovedOnce, Settled
<1> QED
  BY <1>1, <1>2, <1>3, <1>4 DEF HoldersByDay

\* Whatever is counted and inserted while the chain walks, however jobs fail or die: a contract has one
\* record, with its last number unless two jobs of it ran at once; a record moved once has a number of the day
\* as its old one, and the change to it; and a walk no job of which failed moves each record of midnight once.
THEOREM HoldersOfTheDay == HoldersSpec => []HoldersByDay
<1> QED
  BY InitHolders, NextHolders, HoldersLemma, PTL DEF HoldersSpec

-----------------------------------------------------------------------------
(* The contracts (Contracts).                                                  *)

\* The contracts that a list instantiates, and those it executes.
Inst(list) == {c \in ContractAddresses : <<"instantiate", c>> \in Range(list)}
Exec(list) == {c \in ContractAddresses : <<"execute", c>> \in Range(list)}

ContractTxs == {"instantiate", "execute"} \X ContractAddresses
ListJob == [id : Nat, list : Seq(ContractTxs), tries : 0 .. TxAttempts - 1]
Builts == UNION {[D -> Nat] : D \in SUBSET ContractAddresses}
Run == [job : ListJob, rest : Seq(ContractTxs), built : Builts]
Call == [c : ContractAddresses, info : Nat, same : BOOLEAN]

ContractTypes ==
    /\ version \in [ContractAddresses -> Nat] /\ block \in Seq(ContractTxs) /\ delivered \in Nat
    /\ contractJobs \in Seq(ListJob)
    /\ runningLists \subseteq Run /\ IsFiniteSet(runningLists) /\ Cardinality(runningLists) <= TxConcurrency
    /\ \A r \in runningLists : \A c \in DOMAIN r.built : r.built[c] \in 1 .. version[c]
    /\ updates \subseteq Call /\ \A u \in updates : u.info <= version[u.c]
    /\ storedContracts \in [ContractAddresses -> Nat]
    /\ \A c \in ContractAddresses : storedContracts[c] <= version[c]
    /\ lostLists \subseteq ContractAddresses /\ unsureContracts \subseteq ContractAddresses

\* The lists that are delivered and not yet handled.
Lists == {j.list : j \in Range(contractJobs)} \union {r.job.list : r \in runningLists}

\* What the services do not know of.
Unheard(c) ==
    /\ storedContracts[c] = 0
    /\ \A list \in Lists : c \notin Inst(list) \union Exec(list)
    /\ \A u \in updates : u.c # c

\* A contract is instantiated once, in one block, and stored with those of its list.
OneList ==
    /\ \A c \in ContractAddresses :
          /\ version[c] = 0 => Unheard(c) /\ c \notin Inst(block) \union Exec(block)
          /\ c \in Inst(block) => Unheard(c)
    /\ \A list \in Lists : \A c \in Inst(list) :
          /\ \A other \in Lists : c \in Inst(other) => Inst(other) = Inst(list)
          /\ storedContracts[c] > 0 => \A d \in Inst(list) : storedContracts[d] > 0

\* What the chain has is stored, or a list that instantiates it is to come, or was lost.
StoredOrComes ==
    \A c \in ContractAddresses : version[c] > 0 =>
        \/ c \in Inst(block) \/ \E list \in Lists : c \in Inst(list)
        \/ storedContracts[c] > 0 \/ c \in lostLists

\* A list that runs has built what it instantiates so far.
BuiltSoFar ==
    \A r \in runningLists : /\ Range(r.rest) \subseteq Range(r.job.list)
                            /\ Inst(r.job.list) = DOMAIN r.built \union Inst(r.rest)

\* The execution of a contract by a list that does not instantiate it is to come, or its call has not asked yet or
\* knows the contract as it is.
ExecComes(c) ==
    \/ c \in Exec(block) \ Inst(block)
    \/ \E j \in Range(contractJobs) : c \in Exec(j.list) \ Inst(j.list)
    \/ \E r \in runningLists : c \in Exec(r.rest) \ Inst(r.job.list)
    \/ \E u \in updates : u.c = c /\ ~u.same /\ u.info \in {0, version[c]}

UpToDate(c, info) == info = version[c] \/ ExecComes(c)

\* What is stored, built or about to be written is up to date.
CurrentOrComes ==
    \A c \in ContractAddresses \ (unsureContracts \union lostLists) :
        /\ storedContracts[c] > 0 => UpToDate(c, storedContracts[c])
        /\ storedContracts[c] = 0 =>
              \A r \in runningLists : c \in DOMAIN r.built => UpToDate(c, r.built[c])
        /\ \A u \in updates : u.c = c /\ u.info > 0 => UpToDate(c, u.info)

\* Of the calls for a contract, one has asked.
OneAsked ==
    \A u, w \in updates : u.c = w.c /\ u.info > 0 /\ w.info > 0 => u = w \/ u.c \in unsureContracts

ContractInv ==
    ContractTypes /\ OneList /\ StoredOrComes /\ BuiltSoFar /\ CurrentOrComes /\ OneAsked

-----------------------------------------------------------------------------
\* What is in a list is in its head or its tail.
LEMMA HeadOrRestLemma ==
    ASSUME NEW S, NEW s \in Seq(S), s # <<>>
    PROVE  /\ Head(s) \in S /\ Tail(s) \in Seq(S)
           /\ Range(s) = {Head(s)} \union Range(Tail(s))
<1> DEFINE t == Tail(s)
           n == Len(s)
<1>1. /\ t \in Seq(S) /\ DOMAIN t = 1 .. n - 1 /\ DOMAIN s = 1 .. n /\ n \in Nat \ {0}
      /\ Head(s) = s[1] /\ Head(s) \in S /\ \A i \in 1 .. n - 1 : t[i] = s[i + 1]
  BY HeadTailProperties
<1> HIDE DEF t, n
<1>2. ASSUME NEW x PROVE x \in Range(s) <=> x = Head(s) \/ x \in Range(t)
  <2>1. ASSUME x \in Range(s), x # Head(s) PROVE x \in Range(t)
    <3>1. PICK i \in 1 .. n : x = s[i]
      BY <1>1, <2>1 DEF Range
    <3>2. i - 1 \in 1 .. n - 1 /\ t[i - 1] = x
      BY <1>1, <2>1, <3>1
    <3> QED
      BY <1>1, <3>2 DEF Range
  <2>2. ASSUME x \in Range(t) PROVE x \in Range(s)
    <3>1. PICK i \in 1 .. n - 1 : x = s[i + 1]
      BY <1>1, <2>2 DEF Range
    <3>2. i + 1 \in 1 .. n
      BY <1>1
    <3> QED
      BY <1>1, <3>1, <3>2 DEF Range
  <2>3. Head(s) \in Range(s)
    BY <1>1 DEF Range
  <2> QED
    BY <2>1, <2>2, <2>3
<1>3. Range(s) = {Head(s)} \union Range(t)
  BY <1>2
<1>4. Head(s) \in S /\ t \in Seq(S) /\ t = Tail(s)
  BY <1>1 DEF t
<1> QED
  BY <1>3, <1>4

LEMMA LongerLemma ==
    ASSUME NEW S, NEW s \in Seq(S), NEW x \in S
    PROVE  Append(s, x) \in Seq(S) /\ Range(Append(s, x)) = Range(s) \union {x}
<1>1. /\ Append(s, x) \in Seq(S) /\ DOMAIN Append(s, x) = DOMAIN s \union {Len(s) + 1}
      /\ Append(s, x)[Len(s) + 1] = x /\ \A j \in DOMAIN s : Append(s, x)[j] = s[j]
  BY AppendedLemma
<1>2. Range(Append(s, x)) = Range(s) \union {x}
  <2> DEFINE t1 == Append(s, x)
             n == Len(s) + 1
  <2>1. /\ DOMAIN t1 = DOMAIN s \union {n} /\ t1[n] = x /\ \A j \in DOMAIN s : t1[j] = s[j]
    BY <1>1
  <2> HIDE DEF t1, n
  <2>2. ASSUME NEW y PROVE y \in Range(t1) <=> y \in Range(s) \union {x}
    <3>1. y \in Range(t1) => y \in Range(s) \union {x}
      BY <2>1 DEF Range
    <3>2. y \in Range(s) => y \in Range(t1)
      BY <2>1 DEF Range
    <3>3. x \in Range(t1)
      BY <2>1 DEF Range
    <3> QED
      BY <3>1, <3>2, <3>3
  <2> QED
    BY <2>2 DEF t1
<1> QED
  BY <1>1, <1>2

\* A list has nothing but its transactions.
LEMMA ContractsOfLemma ==
    ASSUME NEW list \in Seq(ContractTxs)
    PROVE  ContractsOf(list) = Inst(list) \union Exec(list)
<1>1. Range(list) \subseteq ContractTxs /\ Range(list) = {list[i] : i \in DOMAIN list}
  BY ElementsOf DEF Range
<1>2. ContractsOf(list) = {one[2] : one \in Range(list)}
  BY <1>1 DEF ContractsOf
<1>3. \A one \in ContractTxs : /\ one[2] \in ContractAddresses
                               /\ one = <<"instantiate", one[2]>> \/ one = <<"execute", one[2]>>
  BY DEF ContractTxs
<1>4. \A k, c : <<k, c>>[2] = c
  OBVIOUS
<1>5. ASSUME NEW c, c \in ContractsOf(list) PROVE c \in Inst(list) \union Exec(list)
  <2>1. PICK one \in Range(list) : c = one[2]
    BY <1>2, <1>5
  <2>2. c \in ContractAddresses /\ (<<"instantiate", c>> \in Range(list) \/ <<"execute", c>> \in Range(list))
    BY <1>1, <1>3, <2>1
  <2> QED
    BY <2>2 DEF Inst, Exec
<1>6. ASSUME NEW c, c \in Inst(list) \union Exec(list) PROVE c \in ContractsOf(list)
  BY <1>2, <1>4, <1>6 DEF Inst, Exec
<1> QED
  BY <1>5, <1>6

\* Nothing is left to do but what the invariant says.
LEMMA ContractLemma == ContractInv => ContractsAreStored
<1> SUFFICES ASSUME ContractInv PROVE ContractsAreStored
  OBVIOUS
<1> USE DEF ContractInv
<1>1. ContractsTypeOK
  <2>1. \A r \in runningLists : r.job.tries < TxAttempts
    <3>1. \A r \in runningLists : r.job.tries \in 0 .. TxAttempts - 1
      BY DEF ContractTypes, Run, ListJob
    <3> QED
      BY <3>1, ContractsAssumption
  <2> QED
    BY <2>1 DEF ContractTypes, ContractsTypeOK
<1>2. ASSUME NEW c \in ContractAddresses, Handled(c)
      PROVE  /\ c \notin Inst(block) \union Exec(block) /\ \A list \in Lists : c \notin Inst(list) \union Exec(list)
             /\ \A u \in updates : u.c # c
  <2>1. block \in Seq(ContractTxs) /\ \A list \in Lists : list \in Seq(ContractTxs)
    <3>1. \A j \in ListJob : j.list \in Seq(ContractTxs)
      BY DEF ListJob
    <3>2. Range(contractJobs) \subseteq ListJob /\ \A r \in runningLists : r.job \in ListJob
      BY DEF ContractTypes, Run, Range
    <3> QED
      BY <3>1, <3>2 DEF ContractTypes, Lists
  <2>2. c \notin ContractsOf(block) /\ (\A list \in Lists : c \notin ContractsOf(list)) /\ \A u \in updates : u.c # c
    BY <1>2 DEF Handled, Lists
  <2> QED
    BY <2>1, <2>2, ContractsOfLemma
<1>3. EveryContractStored
  BY <1>2 DEF EveryContractStored, StoredOrComes
<1>4. ContractIsCurrent
  <2>1. ASSUME NEW c \in ContractAddresses, Handled(c), ExecComes(c) PROVE FALSE
    <3>1. \A j \in Range(contractJobs) : j.list \in Lists
      BY DEF Lists
    <3>2. \A r \in runningLists : r.job.list \in Lists /\ Exec(r.rest) \subseteq Exec(r.job.list)
      BY DEF Lists, BuiltSoFar, Exec
    <3> QED
      BY <1>2, <2>1, <3>1, <3>2 DEF ExecComes
  <2> QED
    BY <2>1 DEF ContractIsCurrent, CurrentOrComes, UpToDate
<1> QED
  BY <1>1, <1>3, <1>4 DEF ContractsAreStored

LEMMA InitContractInv == ContractsInit => ContractInv
<1> SUFFICES ASSUME ContractsInit PROVE ContractInv
  OBVIOUS
<1>1. /\ version \in [ContractAddresses -> Nat] /\ \A c \in ContractAddresses : version[c] = 0
      /\ storedContracts \in [ContractAddresses -> Nat] /\ \A c \in ContractAddresses : storedContracts[c] = 0
      /\ block = <<>> /\ contractJobs = <<>> /\ runningLists = {} /\ updates = {}
      /\ lostLists = {} /\ unsureContracts = {} /\ delivered = 0
  BY DEF ContractsInit
<1>2. IsFiniteSet({}) /\ Cardinality({}) = 0
  BY FS_EmptySet
<1>3. Range(<<>>) = {}
  BY DEF Range
<1>4. <<>> \in Seq(ContractTxs) /\ <<>> \in Seq(ListJob) /\ TxConcurrency \in Nat
  BY ContractsAssumption
<1>5. ContractTypes
  BY <1>1, <1>2, <1>4 DEF ContractTypes
<1>6. Lists = {}
  BY <1>1, <1>3 DEF Lists
<1>7. OneList /\ StoredOrComes
  BY <1>1, <1>3, <1>6 DEF OneList, StoredOrComes, Unheard, Inst, Exec
<1> QED
  BY <1>1, <1>5, <1>7 DEF ContractInv, BuiltSoFar, CurrentOrComes, OneAsked

-----------------------------------------------------------------------------
\* What is known of a list.
LEMMA KnownLists ==
    ASSUME ContractTypes
    PROVE  /\ \A list \in Lists : list \in Seq(ContractTxs)
           /\ \A j \in Range(contractJobs) : j \in ListJob /\ j.list \in Lists
           /\ \A r \in runningLists : r \in Run /\ r.job \in ListJob /\ r.job.list \in Lists
<1>1. \A j \in ListJob : j.list \in Seq(ContractTxs)
  BY DEF ListJob
<1>2. Range(contractJobs) \subseteq ListJob /\ \A r \in runningLists : r \in Run /\ r.job \in ListJob
  BY DEF ContractTypes, Run, Range
<1> QED
  BY <1>1, <1>2 DEF Lists

\* As long as no list disappears but those that are lost, every contract stays accounted.
LEMMA ListsKeep ==
    ASSUME ContractInv, UNCHANGED <<version, block>>,
           \A c \in ContractAddresses : (storedContracts'[c] > 0 <=> storedContracts[c] > 0)
                                       /\ (storedContracts'[c] = 0 <=> storedContracts[c] = 0),
           lostLists \subseteq lostLists', Lists' \subseteq Lists,
           \A list \in Lists : list \in Lists' \/ Inst(list) \subseteq lostLists',
           \A u \in updates' : (\E w \in updates : w.c = u.c) \/ \E list \in Lists : u.c \in Exec(list)
    PROVE  OneList' /\ StoredOrComes'
<1> USE DEF ContractInv
<1>1. ASSUME NEW c \in ContractAddresses, Unheard(c) PROVE Unheard(c)'
  BY <1>1 DEF Unheard
<1>2. ASSUME NEW list \in Lists', NEW c \in Inst(list)
      PROVE  /\ \A other \in Lists' : c \in Inst(other) => Inst(other) = Inst(list)
             /\ storedContracts'[c] > 0 => \A d \in Inst(list) : storedContracts'[d] > 0
  <2>1. list \in Lists /\ Inst(list) \subseteq ContractAddresses
    BY DEF Inst
  <2> QED
    BY <2>1 DEF OneList
<1>5. \A c \in ContractAddresses :
          /\ version'[c] = 0 => Unheard(c)' /\ c \notin Inst(block') \union Exec(block')
          /\ c \in Inst(block') => Unheard(c)'
  <2>1. \A c \in ContractAddresses :
          /\ version[c] = 0 => Unheard(c) /\ c \notin Inst(block) \union Exec(block)
          /\ c \in Inst(block) => Unheard(c)
    BY DEF OneList
  <2>2. \A c \in ContractAddresses : Unheard(c) => Unheard(c)'
    BY <1>1
  <2>3. version' = version /\ block' = block
    OBVIOUS
  <2> QED
    BY <2>1, <2>2, <2>3
<1>6. OneList'
  BY <1>2, <1>5 DEF OneList
<1>3. ASSUME NEW c \in ContractAddresses, version'[c] > 0
      PROVE  \/ c \in Inst(block') \/ \E list \in Lists' : c \in Inst(list)
             \/ storedContracts'[c] > 0 \/ c \in lostLists'
  <2>1. version[c] > 0
    BY <1>3
  <2>2. \/ c \in Inst(block) \/ \E list \in Lists : c \in Inst(list)
        \/ storedContracts[c] > 0 \/ c \in lostLists
    BY <2>1 DEF StoredOrComes
  <2> QED
    BY <2>2
<1>4. StoredOrComes'
  BY <1>3 DEF StoredOrComes
<1> QED
  BY <1>4, <1>6

\* As long as what is to come comes, what is built or asked for now is up to date.
LEMMA CurrentKeep ==
    ASSUME ContractInv, ContractTypes', UNCHANGED <<version, storedContracts>>,
           lostLists \subseteq lostLists', unsureContracts \subseteq unsureContracts',
           \A c \in ContractAddresses \ (unsureContracts' \union lostLists') : ExecComes(c) => ExecComes(c)',
           \A q \in runningLists' : \A c \in DOMAIN q.built :
               q.built[c] = version[c] \/ \E r \in runningLists : c \in DOMAIN r.built /\ r.built[c] = q.built[c],
           \A u \in updates' : u.info > 0 => u \in updates \/ u.info = version[u.c]
    PROVE  CurrentOrComes'
<1> USE DEF ContractInv
<1> SUFFICES ASSUME NEW c \in ContractAddresses \ (unsureContracts' \union lostLists')
             PROVE  /\ storedContracts'[c] > 0 => UpToDate(c, storedContracts[c])'
                    /\ storedContracts'[c] = 0 =>
                          \A r \in runningLists' : c \in DOMAIN r.built => r.built[c] = version'[c] \/ ExecComes(c)'
                    /\ \A u \in updates' : u.c = c /\ u.info > 0 => u.info = version'[c] \/ ExecComes(c)'
  BY DEF CurrentOrComes, UpToDate
<1>1. /\ c \notin unsureContracts \union lostLists
      /\ ExecComes(c) => ExecComes(c)'
  OBVIOUS
<1>2. storedContracts'[c] > 0 => UpToDate(c, storedContracts[c])'
  BY <1>1 DEF CurrentOrComes, UpToDate
<1>3. ASSUME storedContracts'[c] = 0, NEW q \in runningLists', c \in DOMAIN q.built
      PROVE  q.built[c] = version'[c] \/ ExecComes(c)'
  BY <1>1, <1>3 DEF CurrentOrComes, UpToDate
<1>4. ASSUME NEW u \in updates', u.c = c, u.info > 0
      PROVE  u.info = version'[c] \/ ExecComes(c)'
  BY <1>1, <1>4 DEF CurrentOrComes, UpToDate
<1> QED
  BY <1>2, <1>3, <1>4

\* What is built.
LEMMA BuiltsLemma ==
    /\ \A f \in Builts : DOMAIN f \subseteq ContractAddresses /\ f \in [DOMAIN f -> Nat]
    /\ \A D \in SUBSET ContractAddresses : \A f \in [D -> Nat] : f \in Builts
<1>1. ASSUME NEW f \in Builts PROVE DOMAIN f \subseteq ContractAddresses /\ f \in [DOMAIN f -> Nat]
  <2>1. PICK D \in SUBSET ContractAddresses : f \in [D -> Nat]
    BY DEF Builts
  <2> QED
    BY <2>1
<1>2. ASSUME NEW D \in SUBSET ContractAddresses, NEW f \in [D -> Nat] PROVE f \in Builts
  BY DEF Builts
<1> QED
  BY <1>1, <1>2

\* A list that goes on takes no more room.
LEMMA RunsKeep ==
    ASSUME ContractTypes, NEW r \in runningLists, NEW q \in Run
    PROVE  /\ (runningLists \ {r}) \union {q} \subseteq Run
           /\ IsFiniteSet((runningLists \ {r}) \union {q})
           /\ Cardinality((runningLists \ {r}) \union {q}) <= TxConcurrency
           /\ IsFiniteSet(runningLists \ {r}) /\ Cardinality(runningLists \ {r}) <= TxConcurrency
<1>1. IsFiniteSet(runningLists) /\ Cardinality(runningLists) <= TxConcurrency /\ TxConcurrency \in Nat
  BY ContractsAssumption DEF ContractTypes
<1>2. IsFiniteSet(runningLists \ {r}) /\ Cardinality(runningLists \ {r}) = Cardinality(runningLists) - 1
  BY <1>1, FS_RemoveElement
<1>3. Cardinality(runningLists) \in Nat
  BY <1>1, FS_CardinalityType
<1>4. /\ IsFiniteSet((runningLists \ {r}) \union {q})
      /\ Cardinality((runningLists \ {r}) \union {q})
             \in {Cardinality(runningLists \ {r}), Cardinality(runningLists \ {r}) + 1}
  BY <1>2, FS_AddElement
<1>5. (runningLists \ {r}) \union {q} \subseteq Run
  BY DEF ContractTypes
<1> QED
  BY <1>1, <1>2, <1>3, <1>4, <1>5

\* A job is taken: its list has nothing built yet.
LEMMA StartListStep ==
    ASSUME ContractInv, StartList
    PROVE  ContractInv'
<1> USE DEF ContractInv
<1> DEFINE j == Head(contractJobs)
           none == [c \in {} |-> 0]
           q == [job |-> j, rest |-> j.list, built |-> none]
<1>1. /\ contractJobs # <<>> /\ Cardinality(runningLists) < TxConcurrency
      /\ runningLists' = runningLists \union {q} /\ contractJobs' = Tail(contractJobs)
      /\ UNCHANGED <<version, block, updates, storedContracts, lostLists, unsureContracts, delivered>>
  BY DEF StartList
<1>2. j \in ListJob /\ Tail(contractJobs) \in Seq(ListJob) /\ Range(contractJobs) = {j} \union Range(contractJobs')
  BY <1>1, HeadOrRestLemma DEF ContractTypes
<1>3. j.list \in Seq(ContractTxs)
  BY <1>2 DEF ListJob
<1>4. none \in Builts /\ DOMAIN none = {}
  <2>1. none \in [{} -> Nat]
    OBVIOUS
  <2> QED
    BY <2>1, BuiltsLemma
<1> HIDE DEF none, j
<1>5. q \in Run /\ q.job = j /\ q.rest = j.list /\ q.built = none
  BY <1>2, <1>3, <1>4 DEF Run
<1> HIDE DEF q
<1>6. Lists' = Lists
  BY <1>1, <1>2, <1>5 DEF Lists
<1>7. ContractTypes'
  <2>1. IsFiniteSet(runningLists') /\ Cardinality(runningLists') <= TxConcurrency
    BY <1>1, RoomLemma, ContractsAssumption DEF ContractTypes
  <2>2. runningLists' \subseteq Run /\ contractJobs' \in Seq(ListJob)
    BY <1>1, <1>2, <1>5 DEF ContractTypes
  <2>3. \A r \in runningLists' : \A c \in DOMAIN r.built : r.built[c] \in 1 .. version'[c]
    BY <1>1, <1>4, <1>5 DEF ContractTypes
  <2> QED
    BY <1>1, <2>1, <2>2, <2>3 DEF ContractTypes
<1>8. OneList' /\ StoredOrComes'
  BY <1>1, <1>6, ListsKeep
<1>9. BuiltSoFar'
  <2>1. Inst(j.list) = {} \union Inst(j.list)
    OBVIOUS
  <2> QED
    BY <1>1, <1>4, <1>5, <2>1 DEF BuiltSoFar
<1>10. ASSUME NEW c \in ContractAddresses, ExecComes(c) PROVE ExecComes(c)'
  <2>1. CASE \E k \in Range(contractJobs) : c \in Exec(k.list) \ Inst(k.list)
    BY <1>1, <1>2, <1>5, <2>1 DEF ExecComes
  <2> QED
    BY <1>1, <1>10, <2>1 DEF ExecComes
<1>11. CurrentOrComes'
  BY <1>1, <1>4, <1>5, <1>7, <1>10, CurrentKeep
<1>12. OneAsked'
  BY <1>1 DEF OneAsked
<1> QED
  BY <1>7, <1>8, <1>9, <1>11, <1>12

\* The first transaction of a list that runs.
LEMMA FirstTx ==
    ASSUME ContractInv, NEW r \in runningLists, r.rest # <<>>
    PROVE  LET k == Head(r.rest)[1]
               c == Head(r.rest)[2]
           IN /\ Head(r.rest) = <<k, c>> /\ k \in {"instantiate", "execute"} /\ c \in ContractAddresses
              /\ Tail(r.rest) \in Seq(ContractTxs)
              /\ Range(r.rest) = {<<k, c>>} \union Range(Tail(r.rest))
              /\ Inst(r.rest) = Inst(Tail(r.rest)) \union (IF k = "instantiate" THEN {c} ELSE {})
              /\ Exec(r.rest) = Exec(Tail(r.rest)) \union (IF k = "execute" THEN {c} ELSE {})
<1>1. r.rest \in Seq(ContractTxs)
  BY DEF ContractInv, ContractTypes, Run
<1>2. /\ Head(r.rest) \in ContractTxs /\ Tail(r.rest) \in Seq(ContractTxs)
      /\ Range(r.rest) = {Head(r.rest)} \union Range(Tail(r.rest))
  BY <1>1, HeadOrRestLemma
<1>3. \A one \in ContractTxs : one = <<one[1], one[2]>> /\ one[1] \in {"instantiate", "execute"} /\ one[2] \in ContractAddresses
  BY DEF ContractTxs
<1> DEFINE k == Head(r.rest)[1]
           c == Head(r.rest)[2]
           rest == Tail(r.rest)
<1>4. Head(r.rest) = <<k, c>> /\ k \in {"instantiate", "execute"} /\ c \in ContractAddresses
  BY <1>2, <1>3
<1>5. Range(r.rest) = {<<k, c>>} \union Range(rest)
  BY <1>2, <1>4
<1> HIDE DEF k, c, rest
<1>6. Inst(r.rest) = Inst(rest) \union (IF k = "instantiate" THEN {c} ELSE {})
  BY <1>4, <1>5 DEF Inst
<1>7. Exec(r.rest) = Exec(rest) \union (IF k = "execute" THEN {c} ELSE {})
  BY <1>4, <1>5 DEF Exec
<1> QED
  BY <1>2, <1>4, <1>5, <1>6, <1>7 DEF k, c, rest

\* What a list that goes on is.
LEMMA RunGoesOn ==
    ASSUME NEW r \in Run, NEW rest, NEW built
    PROVE  /\ [r EXCEPT !.rest = rest] = [job |-> r.job, rest |-> rest, built |-> r.built]
           /\ [r EXCEPT !.rest = rest, !.built = built] = [job |-> r.job, rest |-> rest, built |-> built]
<1> DEFINE p == [r EXCEPT !.rest = rest]
<1>1. p = [job |-> r.job, rest |-> rest, built |-> r.built]
  BY DEF Run
<1> HIDE DEF p
<1>2. [p EXCEPT !.built = built] = [job |-> r.job, rest |-> rest, built |-> built]
  BY <1>1
<1> QED
  BY <1>1, <1>2 DEF p

LEMMA BuildContractStep ==
    ASSUME ContractInv, NEW r \in runningLists, BuildContract(r)
    PROVE  ContractInv'
<1> USE DEF ContractInv
<1> DEFINE k == Head(r.rest)[1]
           c == Head(r.rest)[2]
           rest == Tail(r.rest)
           D == DOMAIN r.built \union {c}
           built == [d \in D |-> IF d = c THEN version[c] ELSE r.built[d]]
           q == [job |-> r.job, rest |-> rest, built |-> built]
<1>1. /\ r.rest # <<>> /\ k = "instantiate"
      /\ runningLists' = (runningLists \ {r}) \union {[r EXCEPT !.rest = Tail(@), !.built = built]}
      /\ UNCHANGED <<version, block, contractJobs, updates, storedContracts, lostLists, unsureContracts, delivered>>
  BY DEF BuildContract
<1>2. r \in Run /\ r.job \in ListJob /\ r.built \in Builts /\ r.job.list \in Lists /\ r.job.list \in Seq(ContractTxs)
  BY KnownLists DEF Run
<1>3. /\ k \in {"instantiate", "execute"} /\ c \in ContractAddresses /\ rest \in Seq(ContractTxs)
      /\ Range(r.rest) = {<<k, c>>} \union Range(rest)
      /\ Inst(r.rest) = Inst(rest) \union {c} /\ Exec(r.rest) = Exec(rest)
  BY <1>1, FirstTx, Zenon
<1>4. version \in [ContractAddresses -> Nat] /\ version[c] > 0
  <2>1. version[c] \in Nat /\ version \in [ContractAddresses -> Nat]
    BY <1>3 DEF ContractTypes
  <2>2. c \in Inst(r.job.list)
    BY <1>2, <1>3 DEF BuiltSoFar
  <2>3. version[c] # 0
    BY <1>2, <1>3, <2>2 DEF OneList, Unheard
  <2> QED
    BY <2>1, <2>3
<1>5. DOMAIN r.built \subseteq ContractAddresses /\ r.built \in [DOMAIN r.built -> Nat]
  BY <1>2, BuiltsLemma
<1>6. /\ D \subseteq ContractAddresses /\ built \in [D -> Nat]
      /\ \A d \in D : built[d] = version[d] \/ (d \in DOMAIN r.built /\ built[d] = r.built[d])
  <2>1. \A d \in D : d # c => d \in DOMAIN r.built
    OBVIOUS
  <2> QED
    BY <1>3, <1>4, <1>5, <2>1
<1>7. built \in Builts
  BY <1>6, BuiltsLemma
<1>8. DOMAIN built = D
  OBVIOUS
<1> HIDE DEF k, c, built
<1>9. [r EXCEPT !.rest = Tail(@), !.built = built] = q
  BY <1>2, RunGoesOn
<1> HIDE DEF rest
<1>10. q \in Run /\ q.job = r.job /\ q.rest = rest /\ q.built = built
  BY <1>2, <1>3, <1>7 DEF Run
<1>11. runningLists' = (runningLists \ {r}) \union {q}
  BY <1>1, <1>9
<1> HIDE DEF q
<1>12. Lists' = Lists
  BY <1>1, <1>10, <1>11 DEF Lists
<1>13. ContractTypes'
  <2>1. runningLists' \subseteq Run /\ IsFiniteSet(runningLists') /\ Cardinality(runningLists') <= TxConcurrency
    BY <1>10, <1>11, RunsKeep
  <2>2. ASSUME NEW d \in D PROVE built[d] \in 1 .. version[d]
    <3>1. d \in DOMAIN r.built => r.built[d] \in 1 .. version[d]
      BY DEF ContractTypes
    <3>2. version[d] \in Nat /\ (d = c => version[d] > 0)
      BY <1>4, <1>6
    <3> QED
      BY <1>6, <3>1, <3>2
  <2>3. \A p \in runningLists' : \A d \in DOMAIN p.built : p.built[d] \in 1 .. version'[d]
    BY <1>1, <1>8, <1>10, <1>11, <2>2 DEF ContractTypes
  <2> QED
    BY <1>1, <2>1, <2>3 DEF ContractTypes
<1>14. OneList' /\ StoredOrComes'
  BY <1>1, <1>12, ListsKeep
<1>15. BuiltSoFar'
  <2>1. Range(rest) \subseteq Range(r.job.list) /\ Inst(r.job.list) = D \union Inst(rest)
    BY <1>3 DEF BuiltSoFar
  <2> QED
    BY <1>8, <1>10, <1>11, <2>1 DEF BuiltSoFar
<1>16. ASSUME NEW d \in ContractAddresses, ExecComes(d) PROVE ExecComes(d)'
  BY <1>1, <1>3, <1>10, <1>11, <1>16 DEF ExecComes
<1>17. CurrentOrComes'
  <2>1. ASSUME NEW p \in runningLists', NEW d \in DOMAIN p.built
        PROVE  p.built[d] = version[d] \/ \E o \in runningLists : d \in DOMAIN o.built /\ o.built[d] = p.built[d]
    BY <1>6, <1>8, <1>10, <1>11
  <2> QED
    BY <1>1, <1>13, <1>16, <2>1, CurrentKeep
<1>18. OneAsked'
  BY <1>1 DEF OneAsked
<1> QED
  BY <1>13, <1>14, <1>15, <1>17, <1>18

\* A list that fails comes again, or is lost.
LEMMA BuildFailsStep ==
    ASSUME ContractInv, NEW r \in runningLists, BuildFails(r)
    PROVE  ContractInv'
<1> USE DEF ContractInv
<1> DEFINE j == [r.job EXCEPT !.tries = @ + 1]
           list == r.job.list
<1>1. /\ runningLists' = runningLists \ {r}
      /\ \/ r.job.tries + 1 < TxAttempts /\ contractJobs' = Append(contractJobs, j) /\ UNCHANGED lostLists
         \/ lostLists' = lostLists \union ContractsOf(list) /\ UNCHANGED contractJobs
      /\ UNCHANGED <<version, block, updates, storedContracts, unsureContracts, delivered>>
  BY DEF BuildFails
<1>2. r \in Run /\ r.job \in ListJob /\ list \in Lists /\ list \in Seq(ContractTxs)
  BY KnownLists
<1>3. r.job.tries + 1 < TxAttempts => j \in ListJob
  BY <1>2, ContractsAssumption DEF ListJob
<1>4. j.list = list
  BY <1>2 DEF ListJob
<1>5. ContractsOf(list) = Inst(list) \union Exec(list) /\ Inst(list) \subseteq ContractAddresses /\ Exec(list) \subseteq ContractAddresses
  BY <1>2, ContractsOfLemma DEF Inst, Exec
<1> HIDE DEF j, list
<1>6. /\ contractJobs' \in Seq(ListJob)
      /\ \/ Range(contractJobs') = Range(contractJobs) \union {j} /\ UNCHANGED lostLists
         \/ lostLists' = lostLists \union Inst(list) \union Exec(list) /\ UNCHANGED contractJobs
  <2>1. CASE r.job.tries + 1 < TxAttempts /\ contractJobs' = Append(contractJobs, j) /\ UNCHANGED lostLists
    <3>1. contractJobs \in Seq(ListJob) /\ j \in ListJob
      BY <1>3, <2>1 DEF ContractTypes
    <3> QED
      BY <2>1, <3>1, LongerLemma
  <2>2. CASE lostLists' = lostLists \union ContractsOf(list) /\ UNCHANGED contractJobs
    BY <1>5, <2>2 DEF ContractTypes
  <2> QED
    BY <1>1, <2>1, <2>2
<1>7. /\ Range(contractJobs) \subseteq Range(contractJobs') /\ lostLists \subseteq lostLists'
      /\ lostLists' \subseteq ContractAddresses
      /\ j \in Range(contractJobs') \/ Inst(list) \union Exec(list) \subseteq lostLists'
  BY <1>5, <1>6 DEF ContractTypes
<1>8. Lists' \subseteq Lists /\ \A other \in Lists : other \in Lists' \/ Inst(other) \subseteq lostLists'
  <2>1. Lists' \subseteq Lists
    BY <1>1, <1>2, <1>4, <1>6 DEF Lists
  <2>2. ASSUME NEW other \in Lists PROVE other \in Lists' \/ other = list
    BY <1>1, <1>7 DEF Lists, list
  <2>3. list \in Lists' \/ Inst(list) \subseteq lostLists'
    BY <1>4, <1>7 DEF Lists
  <2> QED
    BY <2>1, <2>2, <2>3
<1>9. ContractTypes'
  <2>1. IsFiniteSet(runningLists') /\ Cardinality(runningLists') <= TxConcurrency
    BY <1>1, <1>2, RunsKeep
  <2>2. runningLists' \subseteq Run /\ \A p \in runningLists' : \A d \in DOMAIN p.built : p.built[d] \in 1 .. version'[d]
    BY <1>1 DEF ContractTypes
  <2> QED
    BY <1>1, <1>6, <1>7, <2>1, <2>2 DEF ContractTypes
<1>10. OneList' /\ StoredOrComes'
  BY <1>1, <1>7, <1>8, ListsKeep
<1>11. BuiltSoFar'
  BY <1>1 DEF BuiltSoFar
<1>12. ASSUME NEW d \in ContractAddresses \ lostLists', ExecComes(d) PROVE ExecComes(d)'
  <2>1. CASE d \in Exec(r.rest) \ Inst(list)
    <3>1. d \in Exec(list) \ Inst(list)
      BY <2>1 DEF BuiltSoFar, Exec, list
    <3>2. j \in Range(contractJobs')
      BY <1>7, <1>12, <3>1
    <3> QED
      BY <1>4, <3>1, <3>2 DEF ExecComes
  <2>2. CASE d \notin Exec(r.rest) \ Inst(list)
    BY <1>1, <1>7, <1>12, <2>2 DEF ExecComes, list
  <2> QED
    BY <2>1, <2>2
<1>13. CurrentOrComes'
  BY <1>1, <1>7, <1>9, <1>12, CurrentKeep
<1>14. OneAsked'
  BY <1>1 DEF OneAsked
<1> QED
  BY <1>9, <1>10, <1>11, <1>13, <1>14

\* What a call is.
LEMMA CallsLemma ==
    /\ \A c \in ContractAddresses : \A b \in BOOLEAN :
          LET u == [c |-> c, info |-> 0, same |-> b] IN u \in Call /\ u.c = c /\ u.info = 0 /\ u.same = b
    /\ \A u \in Call : /\ u.c \in ContractAddresses /\ u.info \in Nat /\ u.same \in BOOLEAN
                       /\ \A n \in Nat : LET w == [u EXCEPT !.info = n]
                                         IN w \in Call /\ w.c = u.c /\ w.info = n /\ w.same = u.same
<1>1. ASSUME NEW c \in ContractAddresses, NEW b \in BOOLEAN
      PROVE  LET u == [c |-> c, info |-> 0, same |-> b] IN u \in Call /\ u.c = c /\ u.info = 0 /\ u.same = b
  <2>1. 0 \in Nat
    OBVIOUS
  <2> QED
    BY <2>1, Zenon DEF Call
<1>2. ASSUME NEW u \in Call PROVE u.c \in ContractAddresses /\ u.info \in Nat /\ u.same \in BOOLEAN
  BY Zenon DEF Call
<1>3. ASSUME NEW u \in Call, NEW n \in Nat
      PROVE  LET w == [u EXCEPT !.info = n]
             IN w \in Call /\ w.c = u.c /\ w.info = n /\ w.same = u.same
  BY Zenon DEF Call
<1> QED
  BY <1>1, <1>2, <1>3

\* A contract is executed: a call for it is under way.
LEMMA ExecuteContractStep ==
    ASSUME ContractInv, NEW r \in runningLists, ExecuteContract(r)
    PROVE  ContractInv'
<1> USE DEF ContractInv
<1> DEFINE k == Head(r.rest)[1]
           c == Head(r.rest)[2]
           rest == Tail(r.rest)
           u == [c |-> c, info |-> 0, same |-> c \in DOMAIN r.built]
           q == [job |-> r.job, rest |-> rest, built |-> r.built]
<1>1. /\ r.rest # <<>> /\ k = "execute"
      /\ runningLists' = (runningLists \ {r}) \union {[r EXCEPT !.rest = Tail(@)]}
      /\ updates' = updates \union {u} /\ unsureContracts' \in {unsureContracts, unsureContracts \union {c}}
      /\ UNCHANGED <<version, block, contractJobs, storedContracts, lostLists, delivered>>
  BY DEF ExecuteContract
<1>2. r \in Run /\ r.job \in ListJob /\ r.built \in Builts /\ r.job.list \in Lists
  BY KnownLists DEF Run
<1>3. /\ k \in {"instantiate", "execute"} /\ c \in ContractAddresses /\ rest \in Seq(ContractTxs)
      /\ Range(r.rest) = {<<k, c>>} \union Range(rest)
      /\ Inst(r.rest) = Inst(rest) /\ Exec(r.rest) = Exec(rest) \union {c}
  <2>1. Inst(rest) \union {} = Inst(rest)
    OBVIOUS
  <2> QED
    BY <1>1, <2>1, FirstTx, Zenon
<1>4. c \in Exec(r.job.list)
  BY <1>3 DEF BuiltSoFar, Exec
<1>5. u \in Call /\ u.c = c /\ u.info = 0 /\ u.same = (c \in DOMAIN r.built)
  <2> DEFINE b == c \in DOMAIN r.built
  <2>1. b \in BOOLEAN
    OBVIOUS
  <2> HIDE DEF b, c
  <2>2. LET w == [c |-> c, info |-> 0, same |-> b] IN w \in Call /\ w.c = c /\ w.info = 0 /\ w.same = b
    BY <1>3, <2>1, CallsLemma, Zenon
  <2> QED
    BY <2>2, Zenon DEF b
<1>6. [r EXCEPT !.rest = Tail(@)] = q
  BY <1>2, RunGoesOn
<1> HIDE DEF k, c, rest, u
<1>7. q \in Run /\ q.job = r.job /\ q.rest = rest /\ q.built = r.built
  BY <1>2, <1>3 DEF Run
<1>8. runningLists' = (runningLists \ {r}) \union {q}
  BY <1>1, <1>6
<1> HIDE DEF q
<1>9. Lists' = Lists
  BY <1>1, <1>7, <1>8 DEF Lists
<1>10. ContractTypes'
  <2>1. runningLists' \subseteq Run /\ IsFiniteSet(runningLists') /\ Cardinality(runningLists') <= TxConcurrency
    BY <1>7, <1>8, RunsKeep
  <2>2. \A p \in runningLists' : \A d \in DOMAIN p.built : p.built[d] \in 1 .. version'[d]
    BY <1>1, <1>7, <1>8 DEF ContractTypes
  <2>3. updates' \subseteq Call /\ \A w \in updates' : w.info <= version'[w.c]
    <3>1. u.info <= version[u.c]
      BY <1>3, <1>5 DEF ContractTypes
    <3> QED
      BY <1>1, <1>5, <3>1 DEF ContractTypes
  <2>4. unsureContracts' \subseteq ContractAddresses
    BY <1>1, <1>3 DEF ContractTypes
  <2> QED
    BY <1>1, <2>1, <2>2, <2>3, <2>4 DEF ContractTypes
<1>11. OneList' /\ StoredOrComes'
  <2>1. \A w \in updates' : (\E o \in updates : o.c = w.c) \/ \E list \in Lists : w.c \in Exec(list)
    BY <1>1, <1>2, <1>4, <1>5
  <2> QED
    BY <1>1, <1>9, <2>1, ListsKeep
<1>12. BuiltSoFar'
  <2>1. Range(rest) \subseteq Range(r.job.list) /\ Inst(r.job.list) = DOMAIN r.built \union Inst(rest)
    BY <1>3 DEF BuiltSoFar
  <2> QED
    BY <1>1, <1>7, <1>8, <2>1 DEF BuiltSoFar
<1>13. ASSUME NEW d \in ContractAddresses, ExecComes(d) PROVE ExecComes(d)'
  <2>1. CASE d = c /\ c \notin Inst(r.job.list)
    <3>1. u \in updates' /\ u.c = d /\ ~u.same /\ u.info = 0
      BY <1>1, <1>5, <2>1 DEF BuiltSoFar
    <3> QED
      BY <3>1 DEF ExecComes
  <2>2. CASE d # c \/ c \in Inst(r.job.list)
    BY <1>1, <1>3, <1>7, <1>8, <1>13, <2>2 DEF ExecComes
  <2> QED
    BY <2>1, <2>2
<1>14. CurrentOrComes'
  <2>1. ASSUME NEW p \in runningLists', NEW d \in DOMAIN p.built
        PROVE  p.built[d] = version[d] \/ \E o \in runningLists : d \in DOMAIN o.built /\ o.built[d] = p.built[d]
    BY <1>7, <1>8
  <2>2. \A w \in updates' : w.info > 0 => w \in updates \/ w.info = version[w.c]
    BY <1>1, <1>5
  <2> QED
    BY <1>1, <1>10, <1>13, <2>1, <2>2, CurrentKeep
<1>15. OneAsked'
  BY <1>1, <1>5 DEF OneAsked
<1> QED
  BY <1>10, <1>11, <1>12, <1>14, <1>15

\* The list is done: what it has built is stored, all of it or nothing.
LEMMA InsertContractsStep ==
    ASSUME ContractInv, NEW r \in runningLists, InsertContracts(r)
    PROVE  ContractInv'
<1> USE DEF ContractInv
<1> DEFINE built == r.built
           list == r.job.list
           new == [c \in ContractAddresses |-> IF c \in DOMAIN built THEN built[c] ELSE storedContracts[c]]
<1>1. /\ r.rest = <<>> /\ runningLists' = runningLists \ {r}
      /\ UNCHANGED <<version, block, contractJobs, updates, lostLists, unsureContracts, delivered>>
      /\ storedContracts' = IF \E c \in DOMAIN built : storedContracts[c] # 0 THEN storedContracts ELSE new
  BY DEF InsertContracts, InsertMany
<1>2. /\ r \in Run /\ list \in Lists /\ built \in Builts
      /\ DOMAIN built \subseteq ContractAddresses /\ built \in [DOMAIN built -> Nat]
      /\ \A c \in DOMAIN built : built[c] \in 1 .. version[c]
  BY KnownLists, BuiltsLemma DEF Run, ContractTypes
<1>3. Inst(list) = DOMAIN built
  <2>1. Inst(<<>>) = {}
    BY DEF Inst, Range
  <2> QED
    BY <1>1, <2>1 DEF BuiltSoFar
<1>4. /\ new \in [ContractAddresses -> Nat]
      /\ \A c \in DOMAIN built : new[c] = built[c]
      /\ \A c \in ContractAddresses \ DOMAIN built : new[c] = storedContracts[c]
  BY <1>2 DEF ContractTypes
<1> HIDE DEF new, built, list
<1>5. /\ storedContracts' \in [ContractAddresses -> Nat]
      /\ \A c \in ContractAddresses : version[c] \in Nat /\ storedContracts[c] \in Nat /\ storedContracts'[c] \in Nat
      /\ \A c \in ContractAddresses : storedContracts[c] > 0 => storedContracts'[c] = storedContracts[c]
      /\ \A c \in ContractAddresses : storedContracts[c] = 0 /\ storedContracts'[c] > 0 =>
             c \in DOMAIN built /\ storedContracts'[c] = built[c]
      /\ \A c \in DOMAIN built : storedContracts'[c] > 0
  <2>1. CASE \E c \in DOMAIN built : storedContracts[c] # 0
    <3>1. storedContracts' = storedContracts
      BY <1>1, <2>1
    <3>2. \A c \in DOMAIN built : storedContracts[c] > 0
      <4>1. PICK c \in DOMAIN built : storedContracts[c] # 0
        BY <2>1
      <4>2. storedContracts[c] > 0
        BY <1>2, <4>1 DEF ContractTypes
      <4> QED
        BY <1>2, <1>3, <4>2 DEF OneList
    <3> QED
      BY <3>1, <3>2 DEF ContractTypes
  <2>2. CASE \A c \in DOMAIN built : storedContracts[c] = 0
    <3>1. storedContracts' = new
      BY <1>1, <2>2
    <3>2. \A c \in DOMAIN built : built[c] > 0
      BY <1>2 DEF ContractTypes
    <3> QED
      BY <1>2, <1>4, <2>2, <3>1, <3>2 DEF ContractTypes
  <2> QED
    BY <2>1, <2>2
<1>6. Lists' \subseteq Lists /\ \A other \in Lists : other \in Lists' \/ other = list
  BY <1>1 DEF Lists, list
<1>7. ContractTypes'
  <2>1. IsFiniteSet(runningLists') /\ Cardinality(runningLists') <= TxConcurrency
    BY <1>1, <1>2, RunsKeep
  <2>2. \A c \in ContractAddresses : storedContracts'[c] <= version[c]
    <3>1. \A c \in ContractAddresses : storedContracts[c] <= version[c] /\ (c \in DOMAIN built => built[c] <= version[c])
      BY <1>2, <1>5 DEF ContractTypes
    <3> QED
      BY <1>5, <3>1
  <2> QED
    BY <1>1, <1>5, <2>1, <2>2 DEF ContractTypes
<1>8. ASSUME NEW c \in ContractAddresses, Unheard(c)
      PROVE  Unheard(c)'
  <2>1. c \notin DOMAIN built /\ storedContracts[c] = 0
    BY <1>2, <1>3, <1>8 DEF Unheard
  <2>2. storedContracts'[c] = 0
    BY <1>5, <2>1
  <2> QED
    BY <1>1, <1>6, <1>8, <2>2 DEF Unheard
<1>9. OneList'
  <2>1. ASSUME NEW other \in Lists', NEW c \in Inst(other)
        PROVE  /\ \A o \in Lists' : c \in Inst(o) => Inst(o) = Inst(other)
               /\ storedContracts'[c] > 0 => \A d \in Inst(other) : storedContracts'[d] > 0
    <3>1. other \in Lists /\ c \in ContractAddresses /\ Inst(other) \subseteq ContractAddresses
      BY <1>6 DEF Inst
    <3>2. \A o \in Lists' : c \in Inst(o) => Inst(o) = Inst(other)
      BY <1>6, <3>1 DEF OneList
    <3>3. CASE storedContracts[c] > 0
      BY <1>5, <3>1, <3>2, <3>3 DEF OneList
    <3>4. CASE storedContracts[c] = 0 /\ storedContracts'[c] > 0
      <4>1. c \in Inst(list)
        BY <1>3, <1>5, <3>1, <3>4
      <4>2. Inst(other) = DOMAIN built
        BY <1>2, <1>3, <3>1, <4>1 DEF OneList
      <4> QED
        BY <1>5, <3>2, <4>2
    <3> QED
      BY <1>5, <3>1, <3>2, <3>3, <3>4
  <2>2. \A c \in ContractAddresses :
          /\ version[c] = 0 => Unheard(c) /\ c \notin Inst(block) \union Exec(block)
          /\ c \in Inst(block) => Unheard(c)
    BY DEF OneList
  <2>3. \A c \in ContractAddresses :
          /\ version'[c] = 0 => Unheard(c)' /\ c \notin Inst(block') \union Exec(block')
          /\ c \in Inst(block') => Unheard(c)'
    <3>1. \A c \in ContractAddresses : Unheard(c) => Unheard(c)'
      BY <1>8
    <3>2. version' = version /\ block' = block
      BY <1>1
    <3> QED
      BY <2>2, <3>1, <3>2
  <2> QED
    BY <2>1, <2>3 DEF OneList
<1>10. StoredOrComes'
  <2>1. ASSUME NEW c \in ContractAddresses, version[c] > 0
        PROVE  \/ c \in Inst(block) \/ \E o \in Lists' : c \in Inst(o)
               \/ storedContracts'[c] > 0 \/ c \in lostLists
    <3>1. \/ c \in Inst(block) \/ \E o \in Lists : c \in Inst(o)
          \/ storedContracts[c] > 0 \/ c \in lostLists
      BY <2>1 DEF StoredOrComes
    <3>2. c \in Inst(list) => storedContracts'[c] > 0
      BY <1>3, <1>5
    <3>3. storedContracts[c] > 0 => storedContracts'[c] > 0
      BY <1>5
    <3> QED
      BY <1>6, <3>1, <3>2, <3>3
  <2> QED
    BY <1>1, <2>1 DEF StoredOrComes
<1>11. BuiltSoFar'
  BY <1>1 DEF BuiltSoFar
<1>12. ASSUME NEW c \in ContractAddresses, ExecComes(c) PROVE ExecComes(c)'
  <2>1. c \notin Exec(r.rest)
    BY <1>1 DEF Exec, Range
  <2> QED
    BY <1>1, <1>12, <2>1 DEF ExecComes
<1>13. CurrentOrComes'
  <2>1. ASSUME NEW c \in ContractAddresses \ (unsureContracts \union lostLists)
        PROVE  /\ storedContracts'[c] > 0 => storedContracts'[c] = version[c] \/ ExecComes(c)'
               /\ storedContracts'[c] = 0 =>
                     \A p \in runningLists' : c \in DOMAIN p.built => p.built[c] = version[c] \/ ExecComes(c)'
               /\ \A u \in updates' : u.c = c /\ u.info > 0 => u.info = version[c] \/ ExecComes(c)'
    <3>1. /\ storedContracts[c] > 0 => storedContracts[c] = version[c] \/ ExecComes(c)
          /\ storedContracts[c] = 0 =>
                \A p \in runningLists : c \in DOMAIN p.built => p.built[c] = version[c] \/ ExecComes(c)
          /\ \A u \in updates : u.c = c /\ u.info > 0 => u.info = version[c] \/ ExecComes(c)
      BY DEF CurrentOrComes, UpToDate
    <3>2. ExecComes(c) => ExecComes(c)'
      BY <1>12
    <3>3. ASSUME storedContracts'[c] > 0 PROVE storedContracts'[c] = version[c] \/ ExecComes(c)'
      <4>1. storedContracts[c] = 0 => c \in DOMAIN built /\ storedContracts'[c] = r.built[c]
        BY <1>5, <3>3 DEF built
      <4> QED
        BY <1>5, <3>1, <3>2, <4>1 DEF built
    <3>4. storedContracts'[c] = 0 => storedContracts[c] = 0
      BY <1>5
    <3> QED
      BY <1>1, <3>1, <3>2, <3>3, <3>4
  <2> QED
    BY <1>1, <2>1 DEF CurrentOrComes, UpToDate
<1>14. OneAsked'
  BY <1>1 DEF OneAsked
<1> QED
  BY <1>7, <1>9, <1>10, <1>11, <1>13, <1>14

\* A call asks: it knows the contract as it is.
LEMMA AskContractStep ==
    ASSUME ContractInv, NEW u \in updates, AskContract(u)
    PROVE  ContractInv'
<1> USE DEF ContractInv
<1> DEFINE w == [u EXCEPT !.info = version[u.c]]
<1>1. /\ u.info = 0 /\ updates' = (updates \ {u}) \union {w}
      /\ unsureContracts' = IF \E o \in updates \ {u} : o.c = u.c THEN unsureContracts \union {u.c} ELSE unsureContracts
      /\ UNCHANGED <<version, block, contractJobs, runningLists, storedContracts, lostLists, delivered>>
  BY DEF AskContract
<1>2. u \in Call /\ updates \subseteq Call /\ u.c \in ContractAddresses /\ version[u.c] \in Nat
  <2>1. u \in Call /\ updates \subseteq Call
    BY DEF ContractTypes
  <2>2. u.c \in ContractAddresses
    BY <2>1, CallsLemma
  <2> QED
    BY <2>1, <2>2 DEF ContractTypes
<1>3. w \in Call /\ w.c = u.c /\ w.info = version[u.c] /\ w.same = u.same
  BY <1>2, CallsLemma, Zenon
<1> HIDE DEF w
<1>4. Lists' = Lists /\ unsureContracts \subseteq unsureContracts' /\ unsureContracts' \subseteq ContractAddresses
  BY <1>1, <1>2 DEF Lists, ContractTypes
<1>5. ContractTypes'
  <2>1. updates' \subseteq Call
    BY <1>1, <1>2, <1>3
  <2>2. \A o \in updates' : o.info <= version'[o.c]
    <3>1. \A o \in updates : o.info <= version[o.c]
      BY DEF ContractTypes
    <3>2. w.info <= version[w.c]
      BY <1>2, <1>3
    <3> QED
      BY <1>1, <3>1, <3>2
  <2> QED
    BY <1>1, <1>4, <2>1, <2>2 DEF ContractTypes
<1>6. OneList' /\ StoredOrComes'
  <2>1. \A o \in updates' : \E p \in updates : p.c = o.c
    BY <1>1, <1>3
  <2> QED
    BY <1>1, <1>4, <2>1, ListsKeep
<1>7. BuiltSoFar'
  BY <1>1 DEF BuiltSoFar
<1>8. ASSUME NEW d \in ContractAddresses, ExecComes(d) PROVE ExecComes(d)'
  <2>1. CASE \E o \in updates : o.c = d /\ ~o.same /\ o.info \in {0, version[d]}
    <3>1. PICK o \in updates : o.c = d /\ ~o.same /\ o.info \in {0, version[d]}
      BY <2>1
    <3>2. \E p \in updates' : p.c = d /\ ~p.same /\ p.info \in {0, version'[d]}
      <4>1. CASE o = u
        <5>1. w \in updates' /\ w.c = d /\ ~w.same /\ w.info = version'[d]
          BY <1>1, <1>3, <3>1, <4>1
        <5> QED
          BY <5>1
      <4>2. CASE o # u
        <5>1. o \in updates' /\ o.info \in {0, version'[d]}
          BY <1>1, <3>1, <4>2
        <5> QED
          BY <3>1, <5>1
      <4> QED
        BY <4>1, <4>2
    <3> QED
      BY <3>2, Zenon DEF ExecComes
  <2>2. CASE ~ \E o \in updates : o.c = d /\ ~o.same /\ o.info \in {0, version[d]}
    BY <1>1, <1>8, <2>2 DEF ExecComes
  <2> QED
    BY <2>1, <2>2
<1>9. CurrentOrComes'
  <2>1. \A o \in updates' : o.info > 0 => o \in updates \/ o.info = version[o.c]
    BY <1>1, <1>3
  <2> QED
    BY <1>1, <1>4, <1>5, <1>8, <2>1, CurrentKeep
<1>10. OneAsked'
  <2> SUFFICES ASSUME NEW a \in updates', NEW b \in updates', a.c = b.c, a.info > 0, b.info > 0, a # b
               PROVE  a.c \in unsureContracts'
    BY DEF OneAsked
  <2>1. CASE a \in updates \ {u} /\ b \in updates \ {u}
    BY <1>4, <2>1 DEF OneAsked
  <2>2. CASE (a = w /\ b \in updates \ {u}) \/ (b = w /\ a \in updates \ {u})
    <3>1. (\E o \in updates \ {u} : o.c = u.c) /\ a.c = u.c
      BY <1>3, <2>2
    <3> QED
      BY <1>1, <3>1
  <2> QED
    BY <1>1, <2>1, <2>2
<1> QED
  BY <1>5, <1>6, <1>7, <1>9, <1>10

\* A call writes what it knows, which is the newest, unless another one is to come.
LEMMA UpdateContractStep ==
    ASSUME ContractInv, NEW u \in updates, UpdateContract(u)
    PROVE  ContractInv'
<1> USE DEF ContractInv
<1> DEFINE new == [storedContracts EXCEPT ![u.c] = u.info]
<1>1. /\ u.info > 0 /\ updates' = updates \ {u}
      /\ storedContracts' = IF storedContracts[u.c] = 0 THEN storedContracts ELSE new
      /\ unsureContracts' = IF storedContracts[u.c] = 0 /\ ~u.same THEN unsureContracts \union {u.c} ELSE unsureContracts
      /\ UNCHANGED <<version, block, contractJobs, runningLists, lostLists, delivered>>
  BY DEF UpdateContract
<1>2. u.c \in ContractAddresses /\ u.info \in Nat /\ u.info <= version[u.c]
  <2>1. u \in Call
    BY DEF ContractTypes
  <2> QED
    BY <2>1, CallsLemma DEF ContractTypes
<1>3. /\ new \in [ContractAddresses -> Nat] /\ new[u.c] = u.info
      /\ \A c \in ContractAddresses \ {u.c} : new[c] = storedContracts[c]
  BY <1>2 DEF ContractTypes
<1> HIDE DEF new
<1>4. /\ storedContracts' \in [ContractAddresses -> Nat]
      /\ \A c \in ContractAddresses : storedContracts[c] \in Nat /\ storedContracts'[c] \in Nat
      /\ \A c \in ContractAddresses : c # u.c \/ storedContracts[c] = 0 => storedContracts'[c] = storedContracts[c]
      /\ storedContracts[u.c] > 0 => storedContracts'[u.c] = u.info
  BY <1>1, <1>2, <1>3 DEF ContractTypes
<1>5. \A c \in ContractAddresses : /\ (storedContracts'[c] > 0 <=> storedContracts[c] > 0)
                                   /\ (storedContracts'[c] = 0 <=> storedContracts[c] = 0)
  BY <1>1, <1>2, <1>4
<1>6. Lists' = Lists /\ unsureContracts \subseteq unsureContracts' /\ unsureContracts' \subseteq ContractAddresses
  BY <1>1, <1>2 DEF Lists, ContractTypes
<1>7. ContractTypes'
  <2>1. \A c \in ContractAddresses : storedContracts'[c] <= version'[c]
    <3>1. \A c \in ContractAddresses : storedContracts[c] <= version[c] /\ version[c] \in Nat
      BY DEF ContractTypes
    <3> QED
      BY <1>1, <1>2, <1>4, <3>1
  <2>2. updates' \subseteq Call /\ \A o \in updates' : o.info <= version'[o.c]
    BY <1>1 DEF ContractTypes
  <2> QED
    BY <1>1, <1>4, <1>6, <2>1, <2>2 DEF ContractTypes
<1>8. OneList' /\ StoredOrComes'
  BY <1>1, <1>5, <1>6, ListsKeep
<1>9. BuiltSoFar'
  BY <1>1 DEF BuiltSoFar
\* Another call or list is to come if this one does not know the contract as it is.
<1>10. ASSUME NEW c \in ContractAddresses \ (unsureContracts' \union lostLists'), ExecComes(c),
              c = u.c => u.info # version[c] \/ storedContracts[c] = 0
       PROVE  ExecComes(c)'
  <2>1. CASE \E o \in updates : o.c = c /\ ~o.same /\ o.info \in {0, version[c]}
    <3>1. PICK o \in updates : o.c = c /\ ~o.same /\ o.info \in {0, version[c]}
      BY <2>1
    <3>2. o # u
      <4>1. CASE storedContracts[c] = 0
        BY <1>1, <3>1, <4>1
      <4>2. CASE storedContracts[c] # 0
        BY <1>1, <1>10, <3>1, <4>2
      <4> QED
        BY <4>1, <4>2
    <3>3. o \in updates' /\ o.info \in {0, version'[c]}
      BY <1>1, <3>1, <3>2
    <3>4. \E p \in updates' : p.c = c /\ ~p.same /\ p.info \in {0, version'[c]}
      BY <3>1, <3>3
    <3> QED
      BY <3>4, Zenon DEF ExecComes
  <2>2. CASE ~ \E o \in updates : o.c = c /\ ~o.same /\ o.info \in {0, version[c]}
    BY <1>1, <1>10, <2>2 DEF ExecComes
  <2> QED
    BY <2>1, <2>2
<1>11. CurrentOrComes'
  <2>1. ASSUME NEW c \in ContractAddresses \ (unsureContracts' \union lostLists')
        PROVE  /\ storedContracts'[c] > 0 => storedContracts'[c] = version[c] \/ ExecComes(c)'
               /\ storedContracts'[c] = 0 =>
                     \A p \in runningLists' : c \in DOMAIN p.built => p.built[c] = version[c] \/ ExecComes(c)'
               /\ \A o \in updates' : o.c = c /\ o.info > 0 => o.info = version[c] \/ ExecComes(c)'
    <3>1. /\ storedContracts[c] > 0 => storedContracts[c] = version[c] \/ ExecComes(c)
          /\ storedContracts[c] = 0 =>
                \A p \in runningLists : c \in DOMAIN p.built => p.built[c] = version[c] \/ ExecComes(c)
          /\ \A o \in updates : o.c = c /\ o.info > 0 => o.info = version[c] \/ ExecComes(c)
      BY <1>1, <1>6 DEF CurrentOrComes, UpToDate
    <3>2. CASE c # u.c \/ storedContracts[c] = 0
      <4>1. (c = u.c => u.info # version[c] \/ storedContracts[c] = 0) /\ storedContracts'[c] = storedContracts[c]
        BY <1>4, <3>2
      <4>2. ExecComes(c) => ExecComes(c)'
        BY <1>10, <4>1
      <4> QED
        BY <1>1, <3>1, <4>1, <4>2
    <3>3. CASE c = u.c /\ storedContracts[c] # 0
      <4>1. storedContracts[c] > 0 /\ storedContracts'[c] = u.info /\ storedContracts'[c] > 0
        BY <1>1, <1>4, <3>3
      <4>2. u.info = version[c] \/ ExecComes(c)'
        BY <1>1, <1>10, <3>1, <3>3
      <4>3. \A o \in updates' : ~(o.c = c /\ o.info > 0)
        BY <1>1, <1>6, <3>3 DEF OneAsked
      <4> QED
        BY <4>1, <4>2, <4>3
    <3> QED
      BY <3>2, <3>3
  <2> QED
    BY <1>1, <2>1 DEF CurrentOrComes, UpToDate
<1>12. OneAsked'
  BY <1>1, <1>6 DEF OneAsked
<1> QED
  BY <1>7, <1>8, <1>9, <1>11, <1>12

LEMMA UpdateBlankStep ==
    ASSUME ContractInv, NEW u \in updates, UpdateBlank(u)
    PROVE  ContractInv'
<1> USE DEF ContractInv
<1>1. /\ updates' = updates \ {u} /\ unsureContracts' = unsureContracts \union {u.c}
      /\ UNCHANGED <<version, block, contractJobs, runningLists, storedContracts, lostLists, delivered>>
  BY DEF UpdateBlank
<1>2. u.c \in ContractAddresses
  BY CallsLemma DEF ContractTypes
<1>3. Lists' = Lists
  BY <1>1 DEF Lists
<1>4. ContractTypes'
  BY <1>1, <1>2 DEF ContractTypes
<1>5. OneList' /\ StoredOrComes'
  BY <1>1, <1>3, ListsKeep
<1>6. BuiltSoFar'
  BY <1>1 DEF BuiltSoFar
<1>7. ASSUME NEW d \in ContractAddresses \ unsureContracts', ExecComes(d) PROVE ExecComes(d)'
  <2>1. d # u.c
    BY <1>1
  <2> QED
    BY <1>1, <1>7, <2>1 DEF ExecComes
<1>8. CurrentOrComes'
  BY <1>1, <1>4, <1>7, CurrentKeep
<1>9. OneAsked'
  BY <1>1 DEF OneAsked
<1> QED
  BY <1>4, <1>5, <1>6, <1>8, <1>9

\* The process dies: its lists come again, its calls do not.
LEMMA CrashContractsStep ==
    ASSUME ContractInv, CrashContracts
    PROVE  ContractInv'
<1> USE DEF ContractInv
<1> DEFINE back == {r.job : r \in runningLists}
           backs == SetToSeq(back)
<1>1. /\ contractJobs' = backs \o contractJobs /\ runningLists' = {} /\ updates' = {}
      /\ unsureContracts' = unsureContracts \union {u.c : u \in updates}
      /\ UNCHANGED <<version, block, storedContracts, lostLists, delivered>>
  BY DEF CrashContracts
<1>2. IsFiniteSet(back)
  <2>1. [r \in runningLists |-> r.job] \in Surjection(runningLists, back)
    BY DEF Surjection
  <2>2. IsFiniteSet(runningLists)
    BY DEF ContractTypes
  <2> HIDE DEF back
  <2> QED
    BY <2>1, <2>2, FS_Surjection
<1>3. back \subseteq ListJob
  BY KnownLists
<1>4. contractJobs' \in Seq(ListJob) /\ Range(contractJobs') = back \union Range(contractJobs)
  <2>1. backs \in Seq(back) /\ Range(backs) = back
    <3> HIDE DEF back
    <3> QED
      BY <1>2, SetToSeqLemma, ElementsOf DEF ToSet
  <2> HIDE DEF back, backs
  <2>2. backs \in Seq(ListJob) /\ contractJobs \in Seq(ListJob)
    BY <1>3, <2>1 DEF ContractTypes
  <2>3. backs \o contractJobs \in Seq(ListJob) /\ Range(backs \o contractJobs) = Range(backs) \union Range(contractJobs)
    BY <2>2, SendLemma, RangeLemma
  <2> QED
    BY <1>1, <2>1, <2>3
<1> HIDE DEF backs
<1>5. Lists' = Lists
  BY <1>1, <1>4 DEF Lists
<1>6. ContractTypes'
  <2>1. IsFiniteSet(runningLists') /\ Cardinality(runningLists') <= TxConcurrency
    BY <1>1, FS_EmptySet, ContractsAssumption
  <2>2. unsureContracts' \subseteq ContractAddresses
    BY <1>1, CallsLemma DEF ContractTypes
  <2> QED
    BY <1>1, <1>4, <2>1, <2>2 DEF ContractTypes
<1>7. OneList' /\ StoredOrComes'
  BY <1>1, <1>5, ListsKeep
<1>8. BuiltSoFar'
  BY <1>1 DEF BuiltSoFar
<1>9. ASSUME NEW d \in ContractAddresses \ unsureContracts', ExecComes(d) PROVE ExecComes(d)'
  <2>1. CASE \E r \in runningLists : d \in Exec(r.rest) \ Inst(r.job.list)
    <3>1. PICK r \in runningLists : d \in Exec(r.rest) \ Inst(r.job.list)
      BY <2>1
    <3>2. d \in Exec(r.job.list) \ Inst(r.job.list)
      BY <3>1 DEF BuiltSoFar, Exec
    <3> QED
      BY <1>4, <3>1, <3>2 DEF ExecComes
  <2>2. CASE \E j \in Range(contractJobs) : d \in Exec(j.list) \ Inst(j.list)
    BY <1>4, <2>2 DEF ExecComes
  <2> QED
    BY <1>1, <1>9, <2>1, <2>2 DEF ExecComes
<1>10. CurrentOrComes'
  BY <1>1, <1>6, <1>9, CurrentKeep
<1>11. OneAsked'
  BY <1>1 DEF OneAsked
<1> QED
  BY <1>6, <1>7, <1>8, <1>10, <1>11

\* A block's transactions are delivered, once or twice.
LEMMA DeliverListStep ==
    ASSUME ContractInv, DeliverList
    PROVE  ContractInv'
<1> USE DEF ContractInv
<1>1. /\ block' = <<>>
      /\ UNCHANGED <<version, runningLists, updates, storedContracts, lostLists, unsureContracts>>
  BY DEF DeliverList
<1>2. PICK n \in 1 .. (IF doubled < MaxAgain THEN 2 ELSE 1) :
          /\ contractJobs' = contractJobs \o [i \in 1 .. n |-> [id |-> delivered + i, list |-> block, tries |-> 0]]
          /\ delivered' = delivered + n
  BY DEF DeliverList
<1> DEFINE new == [i \in 1 .. n |-> [id |-> delivered + i, list |-> block, tries |-> 0]]
<1>3. n \in Nat \ {0} /\ delivered \in Nat /\ delivered' \in Nat /\ block \in Seq(ContractTxs)
  <2>1. n \in Nat \ {0} /\ delivered \in Nat /\ block \in Seq(ContractTxs)
    BY DEF ContractTypes
  <2> QED
    BY <1>2, <2>1
<1>4. ASSUME NEW i \in 1 .. n PROVE new[i] \in ListJob /\ new[i].list = block
  <2>1. delivered + i \in Nat /\ 0 \in 0 .. TxAttempts - 1
    BY <1>3, ContractsAssumption
  <2>2. new[i] = [id |-> delivered + i, list |-> block, tries |-> 0]
    OBVIOUS
  <2> QED
    BY <1>3, <2>1, <2>2 DEF ListJob
<1>5. new \in Seq(ListJob) /\ DOMAIN new = 1 .. n
  <2>1. new \in [1 .. n -> ListJob]
    <3>1. new = [i \in 1 .. n |-> new[i]]
      OBVIOUS
    <3> HIDE DEF new
    <3> QED
      BY <1>4, <3>1
  <2> QED
    BY <1>3, <2>1, IsASeq
<1> HIDE DEF new
<1>6. /\ contractJobs' \in Seq(ListJob) /\ Range(contractJobs') = Range(contractJobs) \union Range(new)
      /\ \A j \in Range(new) : j.list = block
      /\ Range(new) # {}
  <2>1. contractJobs \in Seq(ListJob)
    BY DEF ContractTypes
  <2>2. contractJobs \o new \in Seq(ListJob) /\ Range(contractJobs \o new) = Range(contractJobs) \union Range(new)
    BY <1>5, <2>1, SendLemma, RangeLemma
  <2>3. 1 \in 1 .. n /\ contractJobs' = contractJobs \o new
    BY <1>2, <1>3 DEF new
  <2>4. \A j \in Range(new) : j.list = block
    BY <1>4, <1>5 DEF Range
  <2>5. new[1] \in Range(new)
    BY <1>5, <2>3 DEF Range
  <2> QED
    BY <2>2, <2>3, <2>4, <2>5
<1>7. Lists' = Lists \union {block}
  BY <1>1, <1>6 DEF Lists
<1>8. Inst(<<>>) = {} /\ Exec(<<>>) = {}
  BY DEF Inst, Exec, Range
<1>9. ContractTypes'
  <2>1. block' \in Seq(ContractTxs)
    BY <1>1
  <2> QED
    BY <1>1, <1>3, <1>6, <2>1 DEF ContractTypes
<1>10. OneList'
  <2>1. \A c \in ContractAddresses :
          /\ version'[c] = 0 => Unheard(c)' /\ c \notin Inst(block') \union Exec(block')
          /\ c \in Inst(block') => Unheard(c)'
    <3>1. ASSUME NEW c \in ContractAddresses, version[c] = 0 PROVE Unheard(c)'
      <4>1. Unheard(c) /\ c \notin Inst(block) \union Exec(block)
        BY <3>1 DEF OneList
      <4> QED
        BY <1>1, <1>7, <4>1 DEF Unheard
    <3> QED
      BY <1>1, <1>8, <3>1
  <2>2. ASSUME NEW list \in Lists', NEW c \in Inst(list)
        PROVE  /\ \A other \in Lists' : c \in Inst(other) => Inst(other) = Inst(list)
               /\ storedContracts'[c] > 0 => \A d \in Inst(list) : storedContracts'[d] > 0
    <3>1. c \in ContractAddresses
      BY DEF Inst
    <3>2. CASE c \in Inst(block)
      <4>1. storedContracts[c] = 0 /\ \A other \in Lists : c \notin Inst(other)
        BY <3>1, <3>2 DEF OneList, Unheard
      <4> QED
        BY <1>1, <1>7, <2>2, <4>1
    <3>3. CASE c \notin Inst(block)
      <4>1. list \in Lists /\ \A other \in Lists' : c \in Inst(other) => other \in Lists
        BY <1>7, <2>2, <3>3
      <4> QED
        BY <1>1, <4>1 DEF OneList
    <3> QED
      BY <3>2, <3>3
  <2> QED
    BY <2>1, <2>2 DEF OneList
<1>11. StoredOrComes'
  <2>1. ASSUME NEW c \in ContractAddresses, version[c] > 0
        PROVE  (\E list \in Lists' : c \in Inst(list)) \/ storedContracts[c] > 0 \/ c \in lostLists
    BY <1>7, <2>1 DEF StoredOrComes
  <2> QED
    BY <1>1, <2>1 DEF StoredOrComes
<1>12. BuiltSoFar'
  BY <1>1 DEF BuiltSoFar
<1>13. ASSUME NEW c \in ContractAddresses, ExecComes(c) PROVE ExecComes(c)'
  <2>1. CASE c \in Exec(block) \ Inst(block)
    <3>1. PICK j \in Range(new) : j.list = block
      BY <1>6
    <3> QED
      BY <1>6, <2>1, <3>1 DEF ExecComes
  <2> QED
    BY <1>1, <1>6, <1>13, <2>1 DEF ExecComes
<1>14. CurrentOrComes'
  BY <1>1, <1>9, <1>13, CurrentKeep
<1>15. OneAsked'
  BY <1>1 DEF OneAsked
<1> QED
  BY <1>9, <1>10, <1>11, <1>12, <1>14, <1>15

\* A transaction of the chain: what the collection and the lists know of the contract is no longer up to date, but
\* the transaction is to come.
LEMMA ContractTxStep ==
    ASSUME ContractInv, NEW c \in ContractAddresses, ContractTx(c)
    PROVE  ContractInv'
<1> USE DEF ContractInv
<1> DEFINE k == IF version[c] = 0 THEN "instantiate" ELSE "execute"
           new == [version EXCEPT ![c] = @ + 1]
<1>1. /\ version' = new /\ block' = Append(block, <<k, c>>)
      /\ UNCHANGED <<contractJobs, runningLists, updates, storedContracts, lostLists, unsureContracts, delivered>>
  BY DEF ContractTx
<1>2. /\ version' \in [ContractAddresses -> Nat]
      /\ \A d \in ContractAddresses : version[d] \in Nat /\ (d # c => version'[d] = version[d])
      /\ version'[c] = version[c] + 1
  BY <1>1 DEF ContractTypes
<1>3. block' \in Seq(ContractTxs) /\ Range(block') = Range(block) \union {<<k, c>>}
  <2>1. block \in Seq(ContractTxs) /\ <<k, c>> \in ContractTxs
    BY DEF ContractTypes, ContractTxs
  <2> HIDE DEF k
  <2> QED
    BY <1>1, <2>1, LongerLemma
<1>4. /\ Inst(block') = Inst(block) \union (IF version[c] = 0 THEN {c} ELSE {})
      /\ Exec(block') = Exec(block) \union (IF version[c] = 0 THEN {} ELSE {c})
  <2>1. CASE version[c] = 0
    BY <1>3, <2>1 DEF Inst, Exec
  <2>2. CASE version[c] # 0
    BY <1>3, <2>2 DEF Inst, Exec
  <2> QED
    BY <2>1, <2>2
<1> HIDE DEF k, new
<1>5. Lists' = Lists /\ \A d \in ContractAddresses : Unheard(d)' <=> Unheard(d)
  BY <1>1 DEF Lists, Unheard
<1>6. ContractTypes'
  <2>1. \A r \in runningLists' : \A d \in DOMAIN r.built : r.built[d] \in 1 .. version'[d]
    <3>1. \A r \in runningLists : \A d \in DOMAIN r.built : d \in ContractAddresses /\ r.built[d] \in 1 .. version[d]
      <4>1. \A r \in runningLists : r.built \in Builts
        BY DEF ContractTypes, Run
      <4> QED
        BY <4>1, BuiltsLemma DEF ContractTypes
    <3> QED
      BY <1>1, <1>2, <3>1
  <2>2. \A u \in updates' : u.info <= version'[u.c]
    <3>1. \A u \in updates : u.c \in ContractAddresses /\ u.info \in Nat /\ u.info <= version[u.c]
      BY CallsLemma DEF ContractTypes
    <3> QED
      BY <1>1, <1>2, <3>1
  <2>3. \A d \in ContractAddresses : storedContracts'[d] <= version'[d]
    <3>1. \A d \in ContractAddresses : storedContracts[d] \in Nat /\ storedContracts[d] <= version[d]
      BY DEF ContractTypes
    <3> QED
      BY <1>1, <1>2, <3>1
  <2> QED
    BY <1>1, <1>2, <1>3, <2>1, <2>2, <2>3 DEF ContractTypes
<1>7. OneList'
  <2>1. ASSUME NEW d \in ContractAddresses
        PROVE  /\ version'[d] = 0 => Unheard(d)' /\ d \notin Inst(block') \union Exec(block')
               /\ d \in Inst(block') => Unheard(d)'
    <3>1. /\ version[d] = 0 => Unheard(d) /\ d \notin Inst(block) \union Exec(block)
          /\ d \in Inst(block) => Unheard(d)
      BY DEF OneList
    <3>2. CASE d = c
      <4>1. version'[d] # 0 /\ (d \in Inst(block') => d \in Inst(block) \/ version[d] = 0)
        BY <1>2, <1>4, <3>2
      <4> QED
        BY <1>5, <3>1, <4>1
    <3>3. CASE d # c
      <4>1. /\ version'[d] = version[d] /\ (d \in Inst(block') <=> d \in Inst(block))
            /\ (d \in Exec(block') <=> d \in Exec(block))
        BY <1>2, <1>4, <3>3
      <4> QED
        BY <1>5, <3>1, <4>1
    <3> QED
      BY <3>2, <3>3
  <2> QED
    BY <1>1, <1>5, <2>1 DEF OneList
<1>8. StoredOrComes'
  <2>1. ASSUME NEW d \in ContractAddresses, version'[d] > 0
        PROVE  \/ d \in Inst(block') \/ \E list \in Lists : d \in Inst(list)
               \/ storedContracts[d] > 0 \/ d \in lostLists
    <3>1. version[d] > 0 \/ (d = c /\ version[c] = 0)
      BY <1>2, <2>1
    <3> QED
      BY <1>4, <3>1 DEF StoredOrComes
  <2> QED
    BY <1>1, <1>5, <2>1 DEF StoredOrComes
<1>9. BuiltSoFar'
  BY <1>1 DEF BuiltSoFar
<1>10. ASSUME Unheard(c)
       PROVE  /\ storedContracts[c] = 0 /\ \A r \in runningLists : c \notin DOMAIN r.built
              /\ \A u \in updates : u.c # c
  <2>1. \A r \in runningLists : c \notin Inst(r.job.list)
    BY <1>10, KnownLists DEF Unheard
  <2> QED
    BY <1>10, <2>1 DEF Unheard, BuiltSoFar
<1>11. ~Unheard(c) => ExecComes(c)'
  <2> SUFFICES ASSUME ~Unheard(c) PROVE ExecComes(c)'
    OBVIOUS
  <2>1. version[c] # 0 /\ c \notin Inst(block)
    BY DEF OneList
  <2>2. c \in Exec(block') \ Inst(block')
    BY <1>4, <2>1
  <2> QED
    BY <2>2 DEF ExecComes
<1>12. ASSUME NEW d \in ContractAddresses, d # c, ExecComes(d) PROVE ExecComes(d)'
  <2>1. version'[d] = version[d] /\ (d \in Exec(block') \ Inst(block') <=> d \in Exec(block) \ Inst(block))
    BY <1>2, <1>4, <1>12
  <2> QED
    BY <1>1, <1>12, <2>1 DEF ExecComes
<1>13. CurrentOrComes'
  <2>1. ASSUME NEW d \in ContractAddresses \ (unsureContracts \union lostLists)
        PROVE  /\ storedContracts[d] > 0 => storedContracts[d] = version'[d] \/ ExecComes(d)'
               /\ storedContracts[d] = 0 =>
                     \A p \in runningLists : d \in DOMAIN p.built => p.built[d] = version'[d] \/ ExecComes(d)'
               /\ \A u \in updates : u.c = d /\ u.info > 0 => u.info = version'[d] \/ ExecComes(d)'
    <3>1. CASE d = c /\ Unheard(c)
      BY <1>10, <3>1
    <3>2. CASE d = c /\ ~Unheard(c)
      BY <1>11, <3>2
    <3>3. CASE d # c
      <4>1. version'[d] = version[d] /\ (ExecComes(d) => ExecComes(d)')
        BY <1>2, <1>12, <3>3
      <4> QED
        BY <4>1 DEF CurrentOrComes, UpToDate
    <3> QED
      BY <3>1, <3>2, <3>3
  <2> QED
    BY <1>1, <2>1 DEF CurrentOrComes, UpToDate
<1>14. OneAsked'
  BY <1>1 DEF OneAsked
<1> QED
  BY <1>6, <1>7, <1>8, <1>9, <1>13, <1>14

LEMMA NextContractInv == ContractInv /\ [ContractsNext]_contractVars => ContractInv'
<1> SUFFICES ASSUME ContractInv, [ContractsNext]_contractVars PROVE ContractInv'
  OBVIOUS
<1>1. ASSUME NEW c \in ContractAddresses, ContractTx(c) PROVE ContractInv'
  BY <1>1, ContractTxStep
<1>2. CASE ListNext
  BY <1>2, DeliverListStep, StartListStep, BuildContractStep, BuildFailsStep, ExecuteContractStep,
     InsertContractsStep DEF ListNext
<1>3. CASE UpdatesNext
  BY <1>3, AskContractStep, UpdateContractStep, UpdateBlankStep DEF UpdatesNext
<1>4. CASE CrashContracts
  BY <1>4, CrashContractsStep
<1>5. CASE UNCHANGED contractVars
  <2>1. /\ version' = version /\ block' = block /\ contractJobs' = contractJobs /\ runningLists' = runningLists
        /\ updates' = updates /\ storedContracts' = storedContracts /\ lostLists' = lostLists
        /\ unsureContracts' = unsureContracts /\ delivered' = delivered
    BY <1>5 DEF contractVars
  <2> QED
    BY <2>1 DEF ContractInv, ContractTypes, OneList, Unheard, Lists, StoredOrComes, BuiltSoFar, CurrentOrComes, UpToDate,
       ExecComes, OneAsked
<1> QED
  BY <1>1, <1>2, <1>3, <1>4, <1>5 DEF ContractsNext

\* Contract manager (Contracts): whatever jobs come twice, fail or die, each contract the chain has is stored when nothing
\* of it is left to do, unless the list that instantiates it failed all of its attempts; and what is stored then is what
\* the chain has, unless its updates overlapped, failed or came before it was there.
THEOREM ContractsStayCurrent == ContractsSpec => []ContractsAreStored
<1>1. ContractsSpec => []ContractInv
  BY InitContractInv, NextContractInv, PTL DEF ContractsSpec
<1> QED
  BY <1>1, ContractLemma, PTL
-----------------------------------------------------------------------------
(* The accounts (Accounts).                                                    *)

\* Lists of addresses, each once.
UniqueLists == {s \in Seq(Addresses) : \A i, j \in DOMAIN s : s[i] = s[j] => i = j}
TouchingTxs == [list : UniqueLists, crawlers : SUBSET Crawlers]
FieldJobs == [list : UniqueLists, left : 1 .. CrawlAttempts]
FieldWork == [job : [list : UniqueLists, left : 0 .. CrawlAttempts], got : Seq(Nat)]

AccountTypes ==
    /\ chainFields \in [Crawlers -> [Addresses -> Nat]] /\ storedFields \in [Crawlers -> [Addresses -> Nat]]
    /\ \A c \in Crawlers, a \in Addresses : storedFields[c][a] <= chainFields[c][a]
    /\ happened \subseteq AddressTxs /\ accounts \subseteq Addresses /\ refused \subseteq Addresses
    /\ addressRequests \in Seq(TouchingTxs)
    /\ handler \in [AddressHandlers -> [tx : TouchingTxs, found : SUBSET Addresses]]
    /\ \A h \in AddressHandlers : handler[h].found \subseteq accounts
    /\ crawlJobs \in [Crawlers -> Seq(FieldJobs)]
    /\ crawlWorker \in [Crawlers -> [CrawlWorkers -> FieldWork]]

\* A worker has asked for the first of its addresses, and has answers the network has given.
AnswersAreOfPast ==
    \A c \in Crawlers, k \in CrawlWorkers :
        LET w == crawlWorker[c][k]
        IN Len(w.got) <= Len(w.job.list) /\ \A i \in 1 .. Len(w.got) : w.got[i] <= chainFields[c][w.job.list[i]]

\* The field of an account is to be asked for, or what the network has of it is to be written.
FieldComes(c, a) ==
    \/ \E req \in Range(addressRequests) : a \in Elements(req.list) /\ c \in req.crawlers
    \/ \E h \in QueueHandlers : a \in Elements(handler[h].tx.list) /\ c \in handler[h].tx.crawlers
    \/ \E job \in Range(crawlJobs[c]) : a \in Elements(job.list)
    \/ \E k \in CrawlWorkers : \E i \in DOMAIN crawlWorker[c][k].job.list :
          /\ crawlWorker[c][k].job.list[i] = a
          /\ i \in 1 .. Len(crawlWorker[c][k].got) => crawlWorker[c][k].got[i] = chainFields[c][a]

FreshOrComes ==
    \A c \in Crawlers, a \in Addresses :
        Changed(c, a) /\ <<c, a>> \notin overtaken \union givenUp
            => storedFields[c][a] = chainFields[c][a] \/ FieldComes(c, a)

\* What the only worker of a crawler has is no older than what is stored.
AloneIsNewer ==
    \A c \in Crawlers, k \in CrawlWorkers : CrawlWorkers = {k} =>
        \A i \in 1 .. Len(crawlWorker[c][k].got) :
            crawlWorker[c][k].got[i] >= storedFields[c][crawlWorker[c][k].job.list[i]]

AccountInv == AccountTypes /\ CrawledIsInserted /\ AnswersAreOfPast /\ FreshOrComes /\ AloneIsNewer

-----------------------------------------------------------------------------
LEMMA ElementsAreRange == \A s : Elements(s) = Range(s)
BY DEF Elements, Range

LEMMA UniqueLemma == \A s \in UniqueLists : s \in Seq(Addresses) /\ Elements(s) \subseteq Addresses
BY DEF UniqueLists, Elements

LEMMA AccountTxLemma ==
    /\ AddressTxs \subseteq TouchingTxs
    /\ NoRequest \in [tx : TouchingTxs, found : SUBSET Addresses]
    /\ NoRequest.tx.list = <<>> /\ NoRequest.found = {}
    /\ Resting \in FieldWork /\ Resting.job.list = <<>> /\ Resting.got = <<>>
<1>1. <<>> \in UniqueLists /\ <<>> \in Seq(Nat)
  BY DEF UniqueLists
<1>2. AddressTxs \subseteq TouchingTxs
  <2> SUFFICES ASSUME NEW one \in AddressTxs PROVE one \in TouchingTxs
    OBVIOUS
  <2>1. one \in [list : Seq(Addresses), crawlers : SUBSET Crawlers] /\ IsInjective(one.list)
    BY HandleAddressAssumption
  <2>2. one.list \in UniqueLists
    BY <2>1 DEF IsInjective, UniqueLists
  <2> QED
    BY <2>1, <2>2 DEF TouchingTxs
<1>3. NoRequest \in [tx : TouchingTxs, found : SUBSET Addresses] /\ NoRequest.tx.list = <<>> /\ NoRequest.found = {}
  BY <1>1 DEF NoRequest, TouchingTxs
<1>4. Resting \in FieldWork /\ Resting.job.list = <<>> /\ Resting.got = <<>>
  BY <1>1, HandleAddressAssumption DEF Resting, FieldWork
<1> QED
  BY <1>2, <1>3, <1>4

\* A function of functions, with one of their values changed.
LEMMA OneOfTwoLemma ==
    ASSUME NEW C, NEW K, NEW V, NEW f \in [C -> [K -> V]], NEW c \in C, NEW k \in K, NEW v \in V
    PROVE  LET g == [f EXCEPT ![c][k] = v]
           IN /\ g \in [C -> [K -> V]] /\ g[c][k] = v
              /\ \A d \in C, l \in K : d # c \/ l # k => g[d][l] = f[d][l]
OBVIOUS

\* Nothing is forgotten by a step that neither changes nor writes a field.
LEMMA FreshKeep ==
    ASSUME AccountInv, UNCHANGED <<chainFields, happened, storedFields, overtaken, givenUp>>,
           \A c \in Crawlers, a \in Addresses : FieldComes(c, a) => FieldComes(c, a)'
    PROVE  FreshOrComes'
BY DEF AccountInv, FreshOrComes, Changed

LEMMA InitAccountInv == AccountCrawlInit => AccountInv
<1> SUFFICES ASSUME AccountCrawlInit PROVE AccountInv
  OBVIOUS
<1> USE DEF AccountCrawlInit, HandleAddressInit
<1>1. AccountTypes
  <2>1. handler \in [AddressHandlers -> [tx : TouchingTxs, found : SUBSET Addresses]]
        /\ \A h \in AddressHandlers : handler[h].found = {}
    BY AccountTxLemma
  <2>2. crawlWorker \in [Crawlers -> [CrawlWorkers -> FieldWork]]
    BY AccountTxLemma
  <2>3. chainFields \in [Crawlers -> [Addresses -> Nat]] /\ storedFields \in [Crawlers -> [Addresses -> Nat]]
        /\ \A c \in Crawlers, a \in Addresses : storedFields[c][a] <= chainFields[c][a]
    OBVIOUS
  <2>4. addressRequests \in Seq(TouchingTxs) /\ crawlJobs \in [Crawlers -> Seq(FieldJobs)]
    OBVIOUS
  <2> QED
    BY <2>1, <2>2, <2>3, <2>4 DEF AccountTypes
<1>2. \A c \in Crawlers, k \in CrawlWorkers : crawlWorker[c][k].job.list = <<>> /\ crawlWorker[c][k].got = <<>>
  BY AccountTxLemma
<1>3. CrawledIsInserted
  BY <1>2 DEF CrawledIsInserted, Elements
<1>4. AnswersAreOfPast /\ AloneIsNewer
  BY <1>2 DEF AnswersAreOfPast, AloneIsNewer
<1>5. FreshOrComes
  BY DEF FreshOrComes, Changed
<1> QED
  BY <1>1, <1>3, <1>4, <1>5 DEF AccountInv

\* The invariant says what the services promise.
LEMMA AccountLemma == AccountInv => AccountTypeOK /\ CrawledIsInserted /\ FreshAtRest
<1> SUFFICES ASSUME AccountInv PROVE AccountTypeOK /\ FreshAtRest
  BY DEF AccountInv
<1> USE DEF AccountInv
<1>1. AccountTypeOK
  <2>1. \A c \in Crawlers, k \in CrawlWorkers : crawlWorker[c][k].job.left \in 0 .. CrawlAttempts
    BY DEF AccountTypes, FieldWork
  <2>2. \A c \in Crawlers, a \in Addresses : storedFields[c][a] \in 0 .. chainFields[c][a]
    BY DEF AccountTypes
  <2> QED
    BY <2>1, <2>2 DEF AccountTypeOK, AccountTypes
<1>2. ASSUME NEW c \in Crawlers, NEW a \in Addresses, AtRest(c, a) PROVE ~FieldComes(c, a)
  <2>1. \A req \in Range(addressRequests) : ~(a \in Elements(req.list) /\ c \in req.crawlers)
    BY <1>2 DEF AtRest, Range
  <2>2. \A h \in QueueHandlers : ~(a \in Elements(handler[h].tx.list) /\ c \in handler[h].tx.crawlers)
    BY <1>2 DEF AtRest, AddressHandlers
  <2>3. \A job \in Range(crawlJobs[c]) : a \notin Elements(job.list)
    BY <1>2 DEF AtRest, Range
  <2>4. \A k \in CrawlWorkers : \A i \in DOMAIN crawlWorker[c][k].job.list : crawlWorker[c][k].job.list[i] # a
    BY <1>2 DEF AtRest, Elements
  <2> QED
    BY <2>1, <2>2, <2>3, <2>4 DEF FieldComes
<1>3. FreshAtRest
  BY <1>2 DEF FreshAtRest, FreshOrComes
<1> QED
  BY <1>1, <1>3

\* A transaction of the chain: its fields are to be asked for.
LEMMA TxHappensStep ==
    ASSUME AccountInv, NEW t \in AddressTxs, TxHappens(t), UNCHANGED crawlVars
    PROVE  AccountInv'
<1> USE DEF AccountInv
<1> DEFINE hit(c, a) == c \in t.crawlers /\ a \in Elements(t.list)
<1>1. /\ happened' = happened \union {t}
      /\ chainFields' = [c \in Crawlers |-> [a \in Addresses |->
                    IF c \in t.crawlers /\ a \in Elements(t.list) THEN chainFields[c][a] + 1 ELSE chainFields[c][a]]]
      /\ addressRequests' = Append(addressRequests, t)
      /\ UNCHANGED <<accounts, handler, crawlJobs, refused, storedFields, crawlWorker, overtaken, givenUp>>
  BY DEF TxHappens, crawlVars
<1>2. /\ chainFields' \in [Crawlers -> [Addresses -> Nat]]
      /\ \A c \in Crawlers, a \in Addresses :
            /\ chainFields[c][a] \in Nat /\ chainFields'[c][a] \in Nat /\ chainFields[c][a] <= chainFields'[c][a]
            /\ ~hit(c, a) => chainFields'[c][a] = chainFields[c][a]
  BY <1>1 DEF AccountTypes
<1>3. /\ t \in TouchingTxs /\ addressRequests' \in Seq(TouchingTxs)
      /\ Range(addressRequests') = Range(addressRequests) \union {t}
  BY <1>1, AccountTxLemma, LongerLemma DEF AccountTypes
<1>4. AccountTypes'
  <2>1. \A c \in Crawlers, a \in Addresses : storedFields'[c][a] <= chainFields'[c][a]
    <3>1. \A c \in Crawlers, a \in Addresses : storedFields[c][a] \in Nat /\ storedFields[c][a] <= chainFields[c][a]
      BY DEF AccountTypes
    <3> QED
      BY <1>1, <1>2, <3>1
  <2> QED
    BY <1>1, <1>2, <1>3, <2>1 DEF AccountTypes
<1>5. CrawledIsInserted'
  BY <1>1 DEF CrawledIsInserted
<1>6. AnswersAreOfPast'
  <2>1. ASSUME NEW c \in Crawlers, NEW k \in CrawlWorkers, NEW i \in 1 .. Len(crawlWorker[c][k].got)
        PROVE  crawlWorker[c][k].got[i] <= chainFields'[c][crawlWorker[c][k].job.list[i]]
    <3> DEFINE w == crawlWorker[c][k]
    <3>1. w \in FieldWork
      BY DEF AccountTypes
    <3>2. w.job.list \in Seq(Addresses) /\ w.got \in Seq(Nat)
      BY <3>1, UniqueLemma DEF FieldWork
    <3>3. Len(w.got) <= Len(w.job.list) /\ w.got[i] <= chainFields[c][w.job.list[i]]
      BY DEF AnswersAreOfPast
    <3> HIDE DEF w
    <3>4. i \in 1 .. Len(w.got)
      BY DEF w
    <3>5. w.job.list[i] \in Addresses /\ w.got[i] \in Nat
      BY <3>2, <3>3, <3>4
    <3>6. w.got[i] <= chainFields'[c][w.job.list[i]]
      BY <1>2, <3>3, <3>5
    <3> QED
      BY <3>6 DEF w
  <2> QED
    BY <1>1, <2>1 DEF AnswersAreOfPast
<1>7. FreshOrComes'
  <2> SUFFICES ASSUME NEW c \in Crawlers, NEW a \in Addresses,
                      Changed(c, a)', <<c, a>> \notin overtaken' \union givenUp'
               PROVE  storedFields'[c][a] = chainFields'[c][a] \/ FieldComes(c, a)'
    BY DEF FreshOrComes
  <2>1. CASE hit(c, a)
    BY <1>3, <2>1 DEF FieldComes
  <2>2. CASE ~hit(c, a)
    <3>1. Changed(c, a)
      BY <1>1, <2>2 DEF Changed
    <3>2. storedFields[c][a] = chainFields[c][a] \/ FieldComes(c, a)
      BY <1>1, <3>1 DEF FreshOrComes
    <3>3. chainFields'[c][a] = chainFields[c][a]
      BY <1>2, <2>2
    <3>4. FieldComes(c, a) => FieldComes(c, a)'
      BY <1>1, <1>3, <3>3 DEF FieldComes
    <3> QED
      BY <1>1, <3>2, <3>3, <3>4
  <2> QED
    BY <2>1, <2>2
<1>8. AloneIsNewer'
  BY <1>1 DEF AloneIsNewer
<1> QED
  BY <1>4, <1>5, <1>6, <1>7, <1>8

\* What a handler takes in hand.
LEMMA FoundRequestLemma ==
    ASSUME AccountTypes, NEW t \in TouchingTxs
    PROVE  /\ Found(t) \in [tx : TouchingTxs, found : SUBSET Addresses]
           /\ Found(t).tx = t /\ Found(t).found \subseteq accounts
BY DEF Found, AccountTypes

LEMMA FindExistingStep ==
    ASSUME AccountInv, NEW h \in QueueHandlers, FindExisting(h), UNCHANGED crawlVars
    PROVE  AccountInv'
<1> USE DEF AccountInv
<1> DEFINE t == Head(addressRequests)
<1>1. /\ handler[h] = NoRequest /\ addressRequests # <<>> /\ handler' = [handler EXCEPT ![h] = Found(t)]
      /\ addressRequests' = Tail(addressRequests)
      /\ UNCHANGED <<chainFields, happened, accounts, crawlJobs, refused, storedFields, crawlWorker, overtaken, givenUp>>
  BY DEF FindExisting, crawlVars
<1>2. /\ t \in TouchingTxs /\ addressRequests' \in Seq(TouchingTxs)
      /\ Range(addressRequests) = {t} \union Range(addressRequests')
  BY <1>1, HeadOrRestLemma DEF AccountTypes
<1>3. Found(t) \in [tx : TouchingTxs, found : SUBSET Addresses] /\ Found(t).tx = t /\ Found(t).found \subseteq accounts
  BY <1>2, FoundRequestLemma
<1> HIDE DEF t
<1>4. /\ handler' \in [AddressHandlers -> [tx : TouchingTxs, found : SUBSET Addresses]]
      /\ h \in AddressHandlers /\ handler'[h] = Found(t)
      /\ \A g \in AddressHandlers : g # h => handler'[g] = handler[g]
  BY <1>1, <1>3 DEF AccountTypes, AddressHandlers
<1>5. AccountTypes'
  BY <1>1, <1>2, <1>3, <1>4 DEF AccountTypes
<1>6. CrawledIsInserted' /\ AnswersAreOfPast' /\ AloneIsNewer'
  BY <1>1 DEF CrawledIsInserted, AnswersAreOfPast, AloneIsNewer
<1>7. ASSUME NEW c \in Crawlers, NEW a \in Addresses, FieldComes(c, a) PROVE FieldComes(c, a)'
  <2>1. CASE a \in Elements(t.list) /\ c \in t.crawlers
    BY <1>3, <1>4, <2>1 DEF FieldComes
  <2>2. CASE \E g \in QueueHandlers : a \in Elements(handler[g].tx.list) /\ c \in handler[g].tx.crawlers
    <3>1. PICK g \in QueueHandlers : a \in Elements(handler[g].tx.list) /\ c \in handler[g].tx.crawlers
      BY <2>2
    <3>2. g # h
      BY <1>1, <3>1, AccountTxLemma DEF Elements
    <3>3. handler'[g] = handler[g]
      BY <1>4, <3>2 DEF AddressHandlers
    <3> QED
      BY <3>1, <3>3 DEF FieldComes
  <2> QED
    BY <1>1, <1>2, <1>7, <2>1, <2>2 DEF FieldComes
<1>8. FreshOrComes'
  BY <1>1, <1>7, FreshKeep
<1> QED
  BY <1>5, <1>6, <1>8

LEMMA UpsertAccountStep ==
    ASSUME AccountInv, NEW h \in ApiHandlers, NEW a \in Addresses, Upsert(h, a), UNCHANGED crawlVars
    PROVE  AccountInv'
<1> USE DEF AccountInv
<1> DEFINE t == [list |-> <<a>>, crawlers |-> Crawlers]
<1>1. /\ handler[h] = NoRequest /\ handler' = [handler EXCEPT ![h] = Found(t)]
      /\ UNCHANGED <<chainFields, happened, accounts, addressRequests, crawlJobs, refused, storedFields, crawlWorker,
                     overtaken, givenUp>>
  BY DEF Upsert, crawlVars
<1>2. t \in TouchingTxs
  <2>1. <<a>> \in Seq(Addresses) /\ DOMAIN <<a>> = {1}
    OBVIOUS
  <2>2. <<a>> \in UniqueLists
    BY <2>1 DEF UniqueLists
  <2> QED
    BY <2>2 DEF TouchingTxs
<1>3. Found(t) \in [tx : TouchingTxs, found : SUBSET Addresses] /\ Found(t).tx = t /\ Found(t).found \subseteq accounts
  BY <1>2, FoundRequestLemma
<1> HIDE DEF t
<1>4. /\ handler' \in [AddressHandlers -> [tx : TouchingTxs, found : SUBSET Addresses]]
      /\ h \in AddressHandlers /\ handler'[h] = Found(t)
      /\ \A g \in AddressHandlers : g # h => handler'[g] = handler[g]
  BY <1>1, <1>3 DEF AccountTypes, AddressHandlers
<1>5. AccountTypes'
  BY <1>1, <1>3, <1>4 DEF AccountTypes
<1>6. CrawledIsInserted' /\ AnswersAreOfPast' /\ AloneIsNewer'
  BY <1>1 DEF CrawledIsInserted, AnswersAreOfPast, AloneIsNewer
<1>7. ASSUME NEW c \in Crawlers, NEW b \in Addresses, FieldComes(c, b) PROVE FieldComes(c, b)'
  <2>1. CASE \E g \in QueueHandlers : b \in Elements(handler[g].tx.list) /\ c \in handler[g].tx.crawlers
    <3>1. PICK g \in QueueHandlers : b \in Elements(handler[g].tx.list) /\ c \in handler[g].tx.crawlers
      BY <2>1
    <3>2. g # h
      BY <1>1, <3>1, AccountTxLemma DEF Elements
    <3>3. handler'[g] = handler[g]
      BY <1>4, <3>2 DEF AddressHandlers
    <3> QED
      BY <3>1, <3>3 DEF FieldComes
  <2> QED
    BY <1>1, <1>7, <2>1 DEF FieldComes
<1>8. FreshOrComes'
  BY <1>1, <1>7, FreshKeep
<1> QED
  BY <1>5, <1>6, <1>8

\* The jobs of a crawler and of its workers, by what they list.
LEMMA CrawledLemma ==
    CrawledIsInserted <=>
        \A c \in Crawlers :
            /\ \A job \in Range(crawlJobs[c]) : Elements(job.list) \subseteq accounts \union refused
            /\ \A k \in CrawlWorkers : Elements(crawlWorker[c][k].job.list) \subseteq accounts \union refused
BY DEF CrawledIsInserted, Range

\* What the bulkWrite leaves: every address of the list is an account, or was refused.
LEMMA InsertedLemma ==
    ASSUME AccountTypes, NEW h \in AddressHandlers, InsertMissing(h)
    PROVE  /\ accounts \subseteq accounts' /\ accounts' \subseteq Addresses
           /\ refused \subseteq refused' /\ refused' \subseteq Addresses
           /\ Elements(handler[h].tx.list) \subseteq accounts' \union refused'
<1> DEFINE t == handler[h].tx
           new == {i \in DOMAIN t.list : t.list[i] \notin handler[h].found}
           done(i) == \A j \in new : t.list[j] \in accounts => i < j
<1>1. /\ accounts' = accounts \union {t.list[i] : i \in {j \in new : done(j)}}
      /\ refused' = refused \union {t.list[i] : i \in {j \in new : ~done(j)}}
  BY DEF InsertMissing
<1>2. t.list \in Seq(Addresses) /\ handler[h].found \subseteq accounts
  BY UniqueLemma DEF AccountTypes, TouchingTxs
<1>3. \A i \in DOMAIN t.list : t.list[i] \in Addresses
  BY <1>2
<1>4. accounts \subseteq Addresses /\ refused \subseteq Addresses
  BY DEF AccountTypes
<1>5. ASSUME NEW i \in DOMAIN t.list PROVE t.list[i] \in accounts' \union refused'
  <2>1. CASE t.list[i] \in handler[h].found
    BY <1>1, <1>2, <2>1
  <2>2. CASE i \in new /\ done(i)
    BY <1>1, <2>2
  <2>3. CASE i \in new /\ ~done(i)
    BY <1>1, <2>3
  <2> QED
    BY <2>1, <2>2, <2>3
<1>6. accounts' \subseteq Addresses /\ refused' \subseteq Addresses
  BY <1>1, <1>3, <1>4
<1>7. accounts \subseteq accounts' /\ refused \subseteq refused'
  BY <1>1
<1>8. Elements(t.list) \subseteq accounts' \union refused'
  BY <1>5 DEF Elements
<1> QED
  BY <1>6, <1>7, <1>8

LEMMA InsertMissingStep ==
    ASSUME AccountInv, NEW h \in AddressHandlers, InsertMissing(h), UNCHANGED crawlVars
    PROVE  AccountInv'
<1> USE DEF AccountInv
<1> DEFINE t == handler[h].tx
           job == [list |-> t.list, left |-> CrawlAttempts]
<1>1. /\ crawlJobs' = [c \in Crawlers |-> IF c \in t.crawlers THEN Append(crawlJobs[c], job) ELSE crawlJobs[c]]
      /\ handler' = [handler EXCEPT ![h] = NoRequest]
      /\ UNCHANGED <<chainFields, happened, addressRequests, storedFields, crawlWorker, overtaken, givenUp>>
  BY DEF InsertMissing, crawlVars
<1>2. /\ accounts \subseteq accounts' /\ accounts' \subseteq Addresses
      /\ refused \subseteq refused' /\ refused' \subseteq Addresses
      /\ Elements(t.list) \subseteq accounts' \union refused'
  BY InsertedLemma
<1>3. t \in TouchingTxs
  BY DEF AccountTypes
<1>4. job \in FieldJobs
  BY <1>3, HandleAddressAssumption DEF FieldJobs, TouchingTxs
<1>5. job.list = t.list
  OBVIOUS
<1> HIDE DEF job
<1>6. ASSUME NEW c \in Crawlers
      PROVE  /\ crawlJobs'[c] \in Seq(FieldJobs)
             /\ Range(crawlJobs'[c]) = Range(crawlJobs[c]) \union (IF c \in t.crawlers THEN {job} ELSE {})
  <2>1. crawlJobs[c] \in Seq(FieldJobs)
    BY DEF AccountTypes
  <2>2. CASE c \in t.crawlers
    <3>1. crawlJobs'[c] = Append(crawlJobs[c], job)
      BY <1>1, <2>2
    <3> QED
      BY <1>4, <2>1, <2>2, <3>1, LongerLemma
  <2>3. CASE c \notin t.crawlers
    <3>1. crawlJobs'[c] = crawlJobs[c]
      BY <1>1, <2>3
    <3> QED
      BY <2>1, <2>3, <3>1
  <2> QED
    BY <2>2, <2>3
<1>7. /\ handler' \in [AddressHandlers -> [tx : TouchingTxs, found : SUBSET Addresses]]
      /\ handler'[h] = NoRequest /\ \A g \in AddressHandlers : g # h => handler'[g] = handler[g]
  BY <1>1, AccountTxLemma DEF AccountTypes
<1>8. AccountTypes'
  <2>1. crawlJobs' \in [Crawlers -> Seq(FieldJobs)]
    BY <1>1, <1>6
  <2>2. \A g \in AddressHandlers : handler'[g].found \subseteq accounts'
    BY <1>2, <1>7, AccountTxLemma DEF AccountTypes
  <2> QED
    BY <1>1, <1>2, <1>7, <2>1, <2>2 DEF AccountTypes
<1>9. CrawledIsInserted'
  <2> SUFFICES ASSUME NEW c \in Crawlers
               PROVE  /\ \A one \in Range(crawlJobs'[c]) : Elements(one.list) \subseteq accounts' \union refused'
                      /\ \A k \in CrawlWorkers : Elements(crawlWorker'[c][k].job.list) \subseteq accounts' \union refused'
    BY DEF CrawledIsInserted, Range
  <2>1. /\ \A one \in Range(crawlJobs[c]) : Elements(one.list) \subseteq accounts \union refused
        /\ \A k \in CrawlWorkers : Elements(crawlWorker[c][k].job.list) \subseteq accounts \union refused
    BY CrawledLemma
  <2>2. ASSUME NEW one \in Range(crawlJobs'[c]) PROVE Elements(one.list) \subseteq accounts' \union refused'
    <3>1. one \in Range(crawlJobs[c]) \/ one = job
      BY <1>6
    <3> QED
      BY <1>2, <1>5, <2>1, <3>1
  <2>3. \A k \in CrawlWorkers : Elements(crawlWorker'[c][k].job.list) \subseteq accounts' \union refused'
    BY <1>1, <1>2, <2>1
  <2> QED
    BY <2>2, <2>3
<1>10. AnswersAreOfPast' /\ AloneIsNewer'
  BY <1>1 DEF AnswersAreOfPast, AloneIsNewer
<1>11. ASSUME NEW c \in Crawlers, NEW a \in Addresses, FieldComes(c, a) PROVE FieldComes(c, a)'
  <2>1. CASE \E g \in QueueHandlers : a \in Elements(handler[g].tx.list) /\ c \in handler[g].tx.crawlers
    <3>1. PICK g \in QueueHandlers : a \in Elements(handler[g].tx.list) /\ c \in handler[g].tx.crawlers
      BY <2>1
    <3>2. CASE g = h
      <4>1. job \in Range(crawlJobs'[c]) /\ a \in Elements(job.list)
        BY <1>5, <1>6, <3>1, <3>2
      <4> QED
        BY <4>1 DEF FieldComes
    <3>3. CASE g # h
      BY <1>7, <3>1, <3>3 DEF FieldComes, AddressHandlers
    <3> QED
      BY <3>2, <3>3
  <2>2. Range(crawlJobs[c]) \subseteq Range(crawlJobs'[c])
    BY <1>6
  <2> QED
    BY <1>1, <1>11, <2>1, <2>2 DEF FieldComes
<1>12. FreshOrComes'
  BY <1>1, <1>11, FreshKeep
<1> QED
  BY <1>8, <1>9, <1>10, <1>12

\* The jobs the process dies with are run again.
LEMMA HandlerDiesStep ==
    ASSUME AccountInv, HandlerDies, UNCHANGED crawlVars
    PROVE  AccountInv'
<1> USE DEF AccountInv
<1> DEFINE dying == {handler[h].tx : h \in QueueHandlers} \ {NoRequest.tx}
<1>1. /\ addressRequests' = SetToSeq(dying) \o addressRequests
      /\ handler' = [h \in AddressHandlers |-> NoRequest]
      /\ UNCHANGED <<chainFields, happened, accounts, crawlJobs, refused, storedFields, crawlWorker, overtaken, givenUp>>
  BY DEF HandlerDies, crawlVars
<1>2. dying \subseteq TouchingTxs
  BY DEF AccountTypes, AddressHandlers
<1>3. IsFiniteSet(dying)
  <2> DEFINE all == {handler[h].tx : h \in QueueHandlers}
             f == [h \in QueueHandlers |-> handler[h].tx]
  <2>1. f \in Surjection(QueueHandlers, all)
    BY DEF Surjection
  <2>2. IsFiniteSet(all)
    BY <2>1, HandleAddressAssumption, FS_Surjection
  <2> QED
    BY <2>2, FS_Subset
<1> HIDE DEF dying
<1>4. SetToSeq(dying) \in Seq(dying) /\ ToSet(SetToSeq(dying)) = dying
  BY <1>3, SetToSeqLemma
<1>5. SetToSeq(dying) \in Seq(TouchingTxs) /\ addressRequests \in Seq(TouchingTxs)
  BY <1>2, <1>4 DEF AccountTypes
<1>6. /\ addressRequests' \in Seq(TouchingTxs)
      /\ InFlight(addressRequests') = InFlight(SetToSeq(dying)) \union InFlight(addressRequests)
  BY <1>1, <1>5, SendLemma
<1>7. Range(addressRequests') = dying \union Range(addressRequests)
  BY <1>4, <1>6 DEF InFlight, ToSet, Range
<1>8. AccountTypes'
  BY <1>1, <1>6, AccountTxLemma DEF AccountTypes
<1>9. CrawledIsInserted' /\ AnswersAreOfPast' /\ AloneIsNewer'
  BY <1>1 DEF CrawledIsInserted, AnswersAreOfPast, AloneIsNewer
<1>10. ASSUME NEW c \in Crawlers, NEW a \in Addresses, FieldComes(c, a) PROVE FieldComes(c, a)'
  <2>1. CASE \E g \in QueueHandlers : a \in Elements(handler[g].tx.list) /\ c \in handler[g].tx.crawlers
    <3>1. PICK g \in QueueHandlers : a \in Elements(handler[g].tx.list) /\ c \in handler[g].tx.crawlers
      BY <2>1
    <3>2. handler[g].tx # NoRequest.tx
      BY <3>1, AccountTxLemma DEF Elements
    <3>3. handler[g].tx \in dying
      BY <3>2 DEF dying
    <3> QED
      BY <1>7, <3>1, <3>3 DEF FieldComes
  <2> QED
    BY <1>1, <1>7, <1>10, <2>1 DEF FieldComes
<1>11. FreshOrComes'
  BY <1>1, <1>10, FreshKeep
<1> QED
  BY <1>8, <1>9, <1>11

\* The work of one worker changes, and all else that is under way stays.
LEMMA WorkerLemma ==
    ASSUME AccountTypes, NEW c \in Crawlers, NEW k \in CrawlWorkers, NEW v \in FieldWork,
           crawlWorker' = [crawlWorker EXCEPT ![c][k] = v]
    PROVE  /\ crawlWorker' \in [Crawlers -> [CrawlWorkers -> FieldWork]] /\ crawlWorker'[c][k] = v
           /\ \A d \in Crawlers, l \in CrawlWorkers : d # c \/ l # k => crawlWorker'[d][l] = crawlWorker[d][l]
<1>1. crawlWorker \in [Crawlers -> [CrawlWorkers -> FieldWork]]
  BY DEF AccountTypes
<1> QED
  BY <1>1, OneOfTwoLemma

LEMMA StartFieldCrawlStep ==
    ASSUME AccountInv, NEW c \in Crawlers, NEW k \in CrawlWorkers, StartFieldCrawl(c, k)
    PROVE  AccountInv'
<1> USE DEF AccountInv
<1> DEFINE q == crawlJobs[c]
           v == [job |-> Head(q), got |-> <<>>]
<1>1. /\ crawlWorker[c][k] = Resting /\ q # <<>>
      /\ crawlWorker' = [crawlWorker EXCEPT ![c][k] = v] /\ crawlJobs' = [crawlJobs EXCEPT ![c] = Tail(q)]
      /\ UNCHANGED <<chainFields, happened, accounts, addressRequests, handler, refused, storedFields, overtaken, givenUp>>
  BY DEF StartFieldCrawl
<1>2. q \in Seq(FieldJobs)
  BY DEF AccountTypes
<1>3. Head(q) \in FieldJobs /\ Tail(q) \in Seq(FieldJobs) /\ Range(q) = {Head(q)} \union Range(Tail(q))
  BY <1>1, <1>2, HeadOrRestLemma
<1>4. v \in FieldWork /\ v.job = Head(q) /\ v.got = <<>>
  <2>1. Head(q) \in [list : UniqueLists, left : 0 .. CrawlAttempts]
    BY <1>3, HandleAddressAssumption DEF FieldJobs
  <2>2. <<>> \in Seq(Nat)
    OBVIOUS
  <2> QED
    BY <2>1, <2>2 DEF FieldWork
<1> HIDE DEF v
<1>5. /\ crawlWorker' \in [Crawlers -> [CrawlWorkers -> FieldWork]] /\ crawlWorker'[c][k] = v
      /\ \A d \in Crawlers, l \in CrawlWorkers : d # c \/ l # k => crawlWorker'[d][l] = crawlWorker[d][l]
  BY <1>1, <1>4, WorkerLemma
<1>6. /\ crawlJobs' \in [Crawlers -> Seq(FieldJobs)] /\ crawlJobs'[c] = Tail(q)
      /\ \A d \in Crawlers : d # c => crawlJobs'[d] = crawlJobs[d]
  BY <1>1, <1>3 DEF AccountTypes
<1> HIDE DEF q
<1>7. AccountTypes'
  BY <1>1, <1>5, <1>6 DEF AccountTypes
<1>8. CrawledIsInserted'
  <2> SUFFICES ASSUME NEW d \in Crawlers
               PROVE  /\ \A one \in Range(crawlJobs'[d]) : Elements(one.list) \subseteq accounts \union refused
                      /\ \A l \in CrawlWorkers : Elements(crawlWorker'[d][l].job.list) \subseteq accounts \union refused
    BY <1>1 DEF CrawledIsInserted, Range
  <2>1. /\ \A one \in Range(crawlJobs[d]) : Elements(one.list) \subseteq accounts \union refused
        /\ \A l \in CrawlWorkers : Elements(crawlWorker[d][l].job.list) \subseteq accounts \union refused
    BY CrawledLemma
  <2>2. Range(crawlJobs'[d]) \subseteq Range(crawlJobs[d])
    BY <1>3, <1>6 DEF q
  <2>3. d = c => Elements(Head(q).list) \subseteq accounts \union refused
    BY <1>3, <2>1 DEF q
  <2>4. ASSUME NEW l \in CrawlWorkers PROVE Elements(crawlWorker'[d][l].job.list) \subseteq accounts \union refused
    <3>1. CASE d = c /\ l = k
      BY <1>4, <1>5, <2>3, <3>1
    <3>2. CASE d # c \/ l # k
      <4>1. crawlWorker'[d][l] = crawlWorker[d][l]
        BY <1>5, <3>2
      <4> QED
        BY <2>1, <4>1
    <3> QED
      BY <3>1, <3>2
  <2> QED
    BY <2>1, <2>2, <2>4
<1>9. ASSUME NEW d \in Crawlers, NEW l \in CrawlWorkers, d # c \/ l # k PROVE crawlWorker'[d][l] = crawlWorker[d][l]
  BY <1>5, <1>9
<1>10. AnswersAreOfPast'
  <2>1. Len(v.got) = 0 /\ v.job.list \in Seq(Addresses) /\ 0 <= Len(v.job.list)
    BY <1>4, UniqueLemma DEF FieldWork
  <2> QED
    BY <1>1, <1>5, <1>9, <2>1 DEF AnswersAreOfPast
<1>11. AloneIsNewer'
  <2>1. Len(v.got) = 0
    BY <1>4
  <2> QED
    BY <1>1, <1>5, <1>9, <2>1 DEF AloneIsNewer
<1>12. ASSUME NEW d \in Crawlers, NEW a \in Addresses, FieldComes(d, a) PROVE FieldComes(d, a)'
  <2>1. CASE \E job \in Range(crawlJobs[d]) : a \in Elements(job.list)
    <3>1. PICK job \in Range(crawlJobs[d]) : a \in Elements(job.list)
      BY <2>1
    <3>2. CASE d = c /\ job = Head(q)
      <4>1. PICK i \in DOMAIN v.job.list : v.job.list[i] = a
        BY <1>4, <3>1, <3>2 DEF Elements
      <4>2. i \notin 1 .. Len(v.got)
        BY <1>4
      <4> QED
        BY <1>5, <3>2, <4>1, <4>2 DEF FieldComes
    <3>3. CASE ~(d = c /\ job = Head(q))
      <4>1. job \in Range(crawlJobs'[d])
        BY <1>3, <1>6, <3>1, <3>3 DEF q
      <4> QED
        BY <3>1, <4>1 DEF FieldComes
    <3> QED
      BY <3>2, <3>3
  <2>2. CASE \E l \in CrawlWorkers : \E i \in DOMAIN crawlWorker[d][l].job.list :
                /\ crawlWorker[d][l].job.list[i] = a
                /\ i \in 1 .. Len(crawlWorker[d][l].got) => crawlWorker[d][l].got[i] = chainFields[d][a]
    <3>1. PICK l \in CrawlWorkers : \E i \in DOMAIN crawlWorker[d][l].job.list :
                /\ crawlWorker[d][l].job.list[i] = a
                /\ i \in 1 .. Len(crawlWorker[d][l].got) => crawlWorker[d][l].got[i] = chainFields[d][a]
      BY <2>2
    <3>2. d # c \/ l # k
      BY <1>1, <3>1, AccountTxLemma
    <3> QED
      BY <1>1, <1>9, <3>1, <3>2 DEF FieldComes
  <2> QED
    BY <1>1, <1>12, <2>1, <2>2 DEF FieldComes
<1>13. FreshOrComes'
  BY <1>1, <1>12, FreshKeep
<1> QED
  BY <1>7, <1>8, <1>10, <1>11, <1>13

\* The next answer is what the network has now.
LEMMA CrawlAddressStep ==
    ASSUME AccountInv, NEW c \in Crawlers, NEW k \in CrawlWorkers, CrawlAddress(c, k)
    PROVE  AccountInv'
<1> USE DEF AccountInv
<1> DEFINE w == crawlWorker[c][k]
           n == Len(w.got) + 1
           x == chainFields[c][w.job.list[n]]
           v == [w EXCEPT !.got = Append(@, x)]
<1>1. w \in FieldWork /\ w.job.list \in Seq(Addresses) /\ w.got \in Seq(Nat)
  BY UniqueLemma DEF AccountTypes, FieldWork
<1>2. /\ Len(w.got) < Len(w.job.list) /\ crawlWorker' = [crawlWorker EXCEPT ![c][k] = v]
      /\ UNCHANGED <<chainFields, happened, accounts, addressRequests, handler, crawlJobs, refused, storedFields, overtaken,
                     givenUp>>
  BY DEF CrawlAddress, AtAddress, Current, addressVars
<1>3. Len(w.got) \in Nat /\ DOMAIN w.got = 1 .. Len(w.got)
  BY <1>1
<1>4. n \in DOMAIN w.job.list /\ w.job.list[n] \in Addresses /\ x \in Nat
  <2> HIDE DEF w
  <2>1. Len(w.job.list) \in Nat /\ DOMAIN w.job.list = 1 .. Len(w.job.list)
    BY <1>1
  <2>2. n \in DOMAIN w.job.list
    BY <1>2, <1>3, <2>1
  <2>3. w.job.list[n] \in Addresses
    BY <1>1, <2>2
  <2> QED
    BY <2>2, <2>3 DEF AccountTypes
<1> HIDE DEF x
<1>5. /\ Append(w.got, x) \in Seq(Nat) /\ Len(Append(w.got, x)) = n /\ Append(w.got, x)[n] = x
      /\ \A j \in DOMAIN w.got : Append(w.got, x)[j] = w.got[j]
  <2> DEFINE s == w.got
  <2>1. s \in Seq(Nat)
    BY <1>1
  <2> HIDE DEF s, w
  <2> SUFFICES /\ Append(s, x) \in Seq(Nat) /\ Len(Append(s, x)) = Len(s) + 1 /\ Append(s, x)[Len(s) + 1] = x
               /\ \A j \in DOMAIN s : Append(s, x)[j] = s[j]
    BY DEF s
  <2> QED
    BY <1>4, <2>1, AppendedLemma
<1>6. v \in FieldWork /\ v.job = w.job /\ v.got = Append(w.got, x)
  BY <1>1, <1>5 DEF FieldWork
<1> HIDE DEF v, w
<1>7. /\ crawlWorker' \in [Crawlers -> [CrawlWorkers -> FieldWork]] /\ crawlWorker'[c][k] = v
      /\ \A d \in Crawlers, l \in CrawlWorkers : d # c \/ l # k => crawlWorker'[d][l] = crawlWorker[d][l]
  <2>1. AccountTypes /\ crawlWorker' = [crawlWorker EXCEPT ![c][k] = v] /\ v \in FieldWork
    BY <1>2, <1>6
  <2> QED
    BY <2>1, WorkerLemma
<1>8. \A d \in Crawlers, l \in CrawlWorkers : crawlWorker'[d][l].job = crawlWorker[d][l].job
  BY <1>6, <1>7 DEF w
<1>9. AccountTypes'
  BY <1>2, <1>7 DEF AccountTypes
<1>10. CrawledIsInserted'
  BY <1>2, <1>8 DEF CrawledIsInserted
<1>11. \A j \in 1 .. n : IF j = n THEN v.got[j] = x ELSE j \in 1 .. Len(w.got) /\ v.got[j] = w.got[j]
  BY <1>3, <1>5, <1>6
<1>12. Len(v.got) = n /\ Len(v.got) <= Len(v.job.list)
  BY <1>1, <1>2, <1>5, <1>6
<1>13. \A d \in Crawlers, l \in CrawlWorkers : d # c \/ l # k => crawlWorker'[d][l] = crawlWorker[d][l]
  BY <1>7
<1>14. AnswersAreOfPast'
  <2> SUFFICES ASSUME NEW d \in Crawlers, NEW l \in CrawlWorkers
               PROVE  /\ Len(crawlWorker'[d][l].got) <= Len(crawlWorker'[d][l].job.list)
                      /\ \A i \in 1 .. Len(crawlWorker'[d][l].got) :
                            crawlWorker'[d][l].got[i] <= chainFields[d][crawlWorker'[d][l].job.list[i]]
    BY <1>2 DEF AnswersAreOfPast
  <2>1. CASE d = c /\ l = k
    <3>1. \A i \in 1 .. Len(w.got) : w.got[i] <= chainFields[c][w.job.list[i]]
      BY DEF AnswersAreOfPast, w
    <3>2. \A i \in 1 .. n : v.got[i] <= chainFields[c][v.job.list[i]]
      BY <1>4, <1>6, <1>11, <3>1 DEF x
    <3> QED
      BY <1>7, <1>12, <2>1, <3>2
  <2>2. CASE d # c \/ l # k
    BY <1>13, <2>2 DEF AnswersAreOfPast
  <2> QED
    BY <2>1, <2>2
<1>15. AloneIsNewer'
  <2> SUFFICES ASSUME NEW d \in Crawlers, NEW l \in CrawlWorkers, CrawlWorkers = {l}
               PROVE  \A i \in 1 .. Len(crawlWorker'[d][l].got) :
                         crawlWorker'[d][l].got[i] >= storedFields[d][crawlWorker'[d][l].job.list[i]]
    BY <1>2 DEF AloneIsNewer
  <2>1. CASE d = c /\ l = k
    <3>1. \A i \in 1 .. Len(w.got) : w.got[i] >= storedFields[c][w.job.list[i]]
      BY <2>1 DEF AloneIsNewer, w
    <3>2. x >= storedFields[c][w.job.list[n]]
      BY <1>4 DEF AccountTypes, x
    <3>3. \A i \in 1 .. n : v.got[i] >= storedFields[c][v.job.list[i]]
      BY <1>6, <1>11, <3>1, <3>2
    <3> QED
      BY <1>7, <1>12, <2>1, <3>3
  <2>2. CASE d # c \/ l # k
    BY <1>13, <2>2 DEF AloneIsNewer
  <2> QED
    BY <2>1, <2>2
<1>16. ASSUME NEW d \in Crawlers, NEW a \in Addresses, FieldComes(d, a) PROVE FieldComes(d, a)'
  <2>1. CASE \E l \in CrawlWorkers : \E i \in DOMAIN crawlWorker[d][l].job.list :
                /\ crawlWorker[d][l].job.list[i] = a
                /\ i \in 1 .. Len(crawlWorker[d][l].got) => crawlWorker[d][l].got[i] = chainFields[d][a]
    <3>1. PICK l \in CrawlWorkers : \E i \in DOMAIN crawlWorker[d][l].job.list :
                /\ crawlWorker[d][l].job.list[i] = a
                /\ i \in 1 .. Len(crawlWorker[d][l].got) => crawlWorker[d][l].got[i] = chainFields[d][a]
      BY <2>1
    <3>2. CASE d # c \/ l # k
      BY <1>2, <1>13, <3>1, <3>2 DEF FieldComes
    <3>3. CASE d = c /\ l = k
      <4>1. PICK i \in DOMAIN w.job.list :
                w.job.list[i] = a /\ (i \in 1 .. Len(w.got) => w.got[i] = chainFields[c][a])
        BY <3>1, <3>3 DEF w
      <4>2. i \in 1 .. n => v.got[i] = chainFields[c][a]
        BY <1>11, <4>1 DEF x
      <4>3. /\ i \in DOMAIN crawlWorker'[d][k].job.list /\ crawlWorker'[d][k].job.list[i] = a
            /\ i \in 1 .. Len(crawlWorker'[d][k].got) => crawlWorker'[d][k].got[i] = chainFields'[d][a]
        BY <1>2, <1>6, <1>7, <1>12, <3>3, <4>1, <4>2
      <4> QED
        BY <4>3 DEF FieldComes
    <3> QED
      BY <3>2, <3>3
  <2> QED
    BY <1>2, <1>16, <2>1 DEF FieldComes
<1>17. FreshOrComes'
  BY <1>2, <1>16, FreshKeep
<1> QED
  BY <1>9, <1>10, <1>14, <1>15, <1>17

\* A failed job waits for its next attempt, or is given up.
LEMMA GiveBackStep ==
    ASSUME AccountInv, NEW c \in Crawlers, NEW k \in CrawlWorkers, GiveBack(c, k)
    PROVE  AccountInv'
<1> USE DEF AccountInv
<1> DEFINE w == crawlWorker[c][k]
           q == crawlJobs[c]
           again == [list |-> w.job.list, left |-> w.job.left - 1]
<1>1. /\ crawlWorker' = [crawlWorker EXCEPT ![c][k] = Resting]
      /\ UNCHANGED <<chainFields, happened, accounts, addressRequests, handler, refused, storedFields, overtaken>>
  BY DEF GiveBack
<1>2. \/ w.job.left > 1 /\ crawlJobs' = [crawlJobs EXCEPT ![c] = Append(q, again)] /\ UNCHANGED givenUp
      \/ ~(w.job.left > 1) /\ givenUp' = givenUp \union {<<c, a>> : a \in Elements(w.job.list)} /\ UNCHANGED crawlJobs
  BY DEF GiveBack
<1>3. w \in FieldWork /\ q \in Seq(FieldJobs) /\ crawlJobs \in [Crawlers -> Seq(FieldJobs)]
  BY DEF AccountTypes
<1>4. again.list = w.job.list
  OBVIOUS
<1>5. w.job.left > 1 => again \in FieldJobs
  BY <1>3, HandleAddressAssumption DEF FieldWork, FieldJobs
<1>6. /\ crawlWorker' \in [Crawlers -> [CrawlWorkers -> FieldWork]] /\ crawlWorker'[c][k] = Resting
      /\ \A d \in Crawlers, l \in CrawlWorkers : d # c \/ l # k => crawlWorker'[d][l] = crawlWorker[d][l]
  <2>1. AccountTypes /\ crawlWorker' = [crawlWorker EXCEPT ![c][k] = Resting] /\ Resting \in FieldWork
    BY <1>1, AccountTxLemma
  <2> QED
    BY <2>1, WorkerLemma
<1> HIDE DEF again, q
<1>7. /\ crawlJobs' \in [Crawlers -> Seq(FieldJobs)] /\ givenUp \subseteq givenUp'
      /\ \A d \in Crawlers : /\ Range(crawlJobs[d]) \subseteq Range(crawlJobs'[d])
                             /\ \A job \in Range(crawlJobs'[d]) : job \in Range(crawlJobs[d]) \/ (d = c /\ job = again)
      /\ again \in Range(crawlJobs'[c]) \/ \A a \in Elements(w.job.list) : <<c, a>> \in givenUp'
  <2>1. CASE w.job.left > 1
    <3>1. crawlJobs' = [crawlJobs EXCEPT ![c] = Append(q, again)] /\ givenUp' = givenUp
      BY <1>2, <2>1
    <3>2. Append(q, again) \in Seq(FieldJobs) /\ Range(Append(q, again)) = Range(q) \union {again}
      BY <1>3, <1>5, <2>1, LongerLemma
    <3>3. /\ crawlJobs' \in [Crawlers -> Seq(FieldJobs)] /\ crawlJobs'[c] = Append(q, again)
          /\ \A d \in Crawlers : d # c => crawlJobs'[d] = crawlJobs[d]
      BY <1>3, <3>1, <3>2
    <3> QED
      BY <3>1, <3>2, <3>3 DEF q
  <2>2. CASE ~(w.job.left > 1)
    BY <1>2, <1>3, <2>2
  <2> QED
    BY <2>1, <2>2
<1> HIDE DEF w
<1>8. Resting.job.list = <<>> /\ Resting.got = <<>> /\ Len(Resting.got) = 0 /\ Len(Resting.job.list) = 0
  BY AccountTxLemma
<1>9. AccountTypes'
  BY <1>1, <1>6, <1>7 DEF AccountTypes
<1>10. CrawledIsInserted'
  <2> SUFFICES ASSUME NEW d \in Crawlers
               PROVE  /\ \A one \in Range(crawlJobs'[d]) : Elements(one.list) \subseteq accounts \union refused
                      /\ \A l \in CrawlWorkers : Elements(crawlWorker'[d][l].job.list) \subseteq accounts \union refused
    BY <1>1 DEF CrawledIsInserted, Range
  <2>1. /\ \A one \in Range(crawlJobs[d]) : Elements(one.list) \subseteq accounts \union refused
        /\ \A l \in CrawlWorkers : Elements(crawlWorker[d][l].job.list) \subseteq accounts \union refused
    BY CrawledLemma
  <2>2. Elements(again.list) \subseteq accounts \union refused
    BY <1>4, CrawledLemma DEF w
  <2>3. \A one \in Range(crawlJobs'[d]) : Elements(one.list) \subseteq accounts \union refused
    BY <1>7, <2>1, <2>2
  <2>4. ASSUME NEW l \in CrawlWorkers PROVE Elements(crawlWorker'[d][l].job.list) \subseteq accounts \union refused
    <3>1. CASE d = c /\ l = k
      BY <1>6, <1>8, <3>1 DEF Elements
    <3>2. CASE d # c \/ l # k
      <4>1. crawlWorker'[d][l] = crawlWorker[d][l]
        BY <1>6, <3>2
      <4> QED
        BY <2>1, <4>1
    <3> QED
      BY <3>1, <3>2
  <2> QED
    BY <2>3, <2>4
<1>11. AnswersAreOfPast'
  BY <1>1, <1>6, <1>8 DEF AnswersAreOfPast
<1>12. AloneIsNewer'
  BY <1>1, <1>6, <1>8 DEF AloneIsNewer
<1>13. ASSUME NEW d \in Crawlers, NEW a \in Addresses, FieldComes(d, a), <<d, a>> \notin givenUp' PROVE FieldComes(d, a)'
  <2>1. CASE \E l \in CrawlWorkers : \E i \in DOMAIN crawlWorker[d][l].job.list :
                /\ crawlWorker[d][l].job.list[i] = a
                /\ i \in 1 .. Len(crawlWorker[d][l].got) => crawlWorker[d][l].got[i] = chainFields[d][a]
    <3>1. PICK l \in CrawlWorkers : \E i \in DOMAIN crawlWorker[d][l].job.list :
                /\ crawlWorker[d][l].job.list[i] = a
                /\ i \in 1 .. Len(crawlWorker[d][l].got) => crawlWorker[d][l].got[i] = chainFields[d][a]
      BY <2>1
    <3>2. CASE d # c \/ l # k
      BY <1>1, <1>6, <3>1, <3>2 DEF FieldComes
    <3>3. CASE d = c /\ l = k
      <4>1. a \in Elements(w.job.list)
        BY <3>1, <3>3 DEF Elements, w
      <4>2. again \in Range(crawlJobs'[d]) /\ a \in Elements(again.list)
        BY <1>4, <1>7, <1>13, <3>3, <4>1
      <4> QED
        BY <4>2 DEF FieldComes
    <3> QED
      BY <3>2, <3>3
  <2>2. Range(crawlJobs[d]) \subseteq Range(crawlJobs'[d])
    BY <1>7
  <2> QED
    BY <1>1, <1>13, <2>1, <2>2 DEF FieldComes
<1>14. FreshOrComes'
  <2> SUFFICES ASSUME NEW d \in Crawlers, NEW a \in Addresses,
                      Changed(d, a)', <<d, a>> \notin overtaken' \union givenUp'
               PROVE  storedFields'[d][a] = chainFields'[d][a] \/ FieldComes(d, a)'
    BY DEF FreshOrComes
  <2>1. Changed(d, a) /\ <<d, a>> \notin overtaken \union givenUp
    BY <1>1, <1>7 DEF Changed
  <2>2. storedFields[d][a] = chainFields[d][a] \/ FieldComes(d, a)
    BY <2>1 DEF FreshOrComes
  <2> QED
    BY <1>1, <1>13, <2>2
<1> QED
  BY <1>9, <1>10, <1>11, <1>12, <1>14

\* What the worker writes: of each of its addresses, the answer it has for it.
LEMMA FieldsWrittenLemma ==
    ASSUME AccountInv, NEW c \in Crawlers, NEW k \in CrawlWorkers, WriteAnswers(c, k)
    PROVE  LET w == crawlWorker[c][k] IN
           /\ storedFields' \in [Crawlers -> [Addresses -> Nat]]
           /\ \A i \in DOMAIN w.job.list : /\ i \in 1 .. Len(w.got) /\ w.job.list[i] \in Addresses
                                           /\ storedFields'[c][w.job.list[i]] = w.got[i]
                                           /\ w.got[i] <= chainFields[c][w.job.list[i]]
           /\ \A d \in Crawlers, a \in Addresses : d # c \/ a \notin Elements(w.job.list) =>
                 storedFields'[d][a] = storedFields[d][a] /\ (<<d, a>> \in overtaken' <=> <<d, a>> \in overtaken)
           /\ \A a \in Elements(w.job.list) : <<c, a>> \notin overtaken' =>
                 /\ storedFields'[c][a] >= storedFields[c][a]
                 /\ storedFields'[c][a] = chainFields[c][a] \/ <<c, a>> \notin overtaken
<1> USE DEF AccountInv
<1> DEFINE w == crawlWorker[c][k]
           list == w.job.list
           got == w.got
           at(a) == CHOOSE i \in DOMAIN list : list[i] = a
           nu == [a \in Elements(list) |-> got[at(a)]]
<1>1. /\ storedFields' = [storedFields EXCEPT ![c] =
                            [a \in Addresses |-> IF a \in DOMAIN nu THEN nu[a] ELSE storedFields[c][a]]]
      /\ overtaken' = (overtaken \ {<<c, a>> : a \in {b \in DOMAIN nu : nu[b] = chainFields[c][b]}})
                       \union {<<c, a>> : a \in {b \in DOMAIN nu : nu[b] < storedFields[c][b]}}
      /\ ~(Len(got) < Len(list))
  BY DEF WriteAnswers, AtAddress
<1>2. list \in UniqueLists /\ got \in Seq(Nat)
  BY DEF AccountTypes, FieldWork
<1>3. Len(got) <= Len(list) /\ \A i \in 1 .. Len(got) : got[i] <= chainFields[c][list[i]]
  BY DEF AnswersAreOfPast
<1>4. storedFields \in [Crawlers -> [Addresses -> Nat]] /\ chainFields \in [Crawlers -> [Addresses -> Nat]]
  BY DEF AccountTypes
<1> HIDE DEF w
<1> HIDE DEF list, got
<1>5. list \in Seq(Addresses) /\ Elements(list) \subseteq Addresses /\ \A i, j \in DOMAIN list : list[i] = list[j] => i = j
  BY <1>2, UniqueLemma DEF UniqueLists
<1>6. DOMAIN list = 1 .. Len(got) /\ \A i \in DOMAIN list : list[i] \in Addresses /\ got[i] \in Nat
  BY <1>1, <1>2, <1>3, <1>5
<1>7. ASSUME NEW i \in DOMAIN list PROVE list[i] \in Elements(list) /\ at(list[i]) = i
  BY <1>5 DEF Elements
<1>8. DOMAIN nu = Elements(list) /\ \A i \in DOMAIN list : nu[list[i]] = got[i]
  BY <1>7
<1>9. \A a \in Elements(list) : nu[a] \in Nat
  BY <1>6, <1>8 DEF Elements
<1> HIDE DEF nu
<1>10. \A a \in Addresses : storedFields[c][a] \in Nat
  BY <1>4
<1>11. [a \in Addresses |-> IF a \in DOMAIN nu THEN nu[a] ELSE storedFields[c][a]] \in [Addresses -> Nat]
  BY <1>8, <1>9, <1>10
<1>12. /\ storedFields' \in [Crawlers -> [Addresses -> Nat]]
       /\ \A a \in Addresses : storedFields'[c][a] = IF a \in Elements(list) THEN nu[a] ELSE storedFields[c][a]
       /\ \A d \in Crawlers : d # c => storedFields'[d] = storedFields[d]
  BY <1>1, <1>4, <1>8, <1>11
<1>13. \A a \in Elements(list) : storedFields'[c][a] = nu[a]
  BY <1>5, <1>12
<1>14. \A i \in DOMAIN list : /\ i \in 1 .. Len(got) /\ list[i] \in Addresses
                              /\ storedFields'[c][list[i]] = got[i] /\ got[i] <= chainFields[c][list[i]]
  BY <1>3, <1>6, <1>7, <1>8, <1>13
<1>15. ASSUME NEW d \in Crawlers, NEW a \in Addresses, d # c \/ a \notin Elements(list)
       PROVE  storedFields'[d][a] = storedFields[d][a] /\ (<<d, a>> \in overtaken' <=> <<d, a>> \in overtaken)
  <2>1. storedFields'[d][a] = storedFields[d][a]
    BY <1>12, <1>15
  <2>2. \A b \in DOMAIN nu : <<d, a>> # <<c, b>>
    BY <1>8, <1>15
  <2>3. <<d, a>> \in overtaken' <=> <<d, a>> \in overtaken
    BY <1>1, <2>2
  <2> QED
    BY <2>1, <2>3
<1>16. ASSUME NEW a \in Elements(list), <<c, a>> \notin overtaken'
       PROVE  /\ storedFields'[c][a] >= storedFields[c][a]
              /\ storedFields'[c][a] = chainFields[c][a] \/ <<c, a>> \notin overtaken
  <2>1. a \in DOMAIN nu /\ a \in Addresses /\ nu[a] \in Nat /\ storedFields[c][a] \in Nat
    BY <1>4, <1>5, <1>8, <1>9
  <2>2. ~(nu[a] < storedFields[c][a])
    BY <1>1, <1>16, <2>1
  <2>3. nu[a] = chainFields[c][a] \/ <<c, a>> \notin overtaken
    <3> SUFFICES ASSUME nu[a] # chainFields[c][a], <<c, a>> \in overtaken PROVE FALSE
      OBVIOUS
    <3>1. <<c, a>> \notin {<<c, b>> : b \in {e \in DOMAIN nu : nu[e] = chainFields[c][e]}}
      OBVIOUS
    <3> QED
      BY <1>1, <1>16, <3>1
  <2> QED
    BY <1>13, <2>1, <2>2, <2>3
<1> QED
  BY <1>12, <1>14, <1>15, <1>16 DEF list, got, w

LEMMA WriteAnswersStep ==
    ASSUME AccountInv, NEW c \in Crawlers, NEW k \in CrawlWorkers, WriteAnswers(c, k)
    PROVE  AccountInv'
<1> USE DEF AccountInv
<1> DEFINE w == crawlWorker[c][k]
<1>1. /\ crawlWorker' = [crawlWorker EXCEPT ![c][k] = Resting]
      /\ UNCHANGED <<chainFields, happened, accounts, addressRequests, handler, crawlJobs, refused, givenUp>>
  BY DEF WriteAnswers, addressVars
<1>2. /\ storedFields' \in [Crawlers -> [Addresses -> Nat]]
      /\ \A i \in DOMAIN w.job.list : /\ i \in 1 .. Len(w.got) /\ w.job.list[i] \in Addresses
                                      /\ storedFields'[c][w.job.list[i]] = w.got[i]
                                      /\ w.got[i] <= chainFields[c][w.job.list[i]]
      /\ \A d \in Crawlers, a \in Addresses : d # c \/ a \notin Elements(w.job.list) =>
            storedFields'[d][a] = storedFields[d][a] /\ (<<d, a>> \in overtaken' <=> <<d, a>> \in overtaken)
      /\ \A a \in Elements(w.job.list) : <<c, a>> \notin overtaken' =>
            /\ storedFields'[c][a] >= storedFields[c][a]
            /\ storedFields'[c][a] = chainFields[c][a] \/ <<c, a>> \notin overtaken
  BY FieldsWrittenLemma
<1>3. /\ crawlWorker' \in [Crawlers -> [CrawlWorkers -> FieldWork]] /\ crawlWorker'[c][k] = Resting
      /\ \A d \in Crawlers, l \in CrawlWorkers : d # c \/ l # k => crawlWorker'[d][l] = crawlWorker[d][l]
  <2>1. AccountTypes /\ crawlWorker' = [crawlWorker EXCEPT ![c][k] = Resting] /\ Resting \in FieldWork
    BY <1>1, AccountTxLemma
  <2> QED
    BY <2>1, WorkerLemma
<1>4. Resting.job.list = <<>> /\ Resting.got = <<>> /\ Len(Resting.got) = 0 /\ Len(Resting.job.list) = 0
  BY AccountTxLemma
<1> HIDE DEF w
<1>5. ASSUME NEW a \in Elements(w.job.list) PROVE storedFields'[c][a] <= chainFields[c][a]
  BY <1>2, <1>5 DEF Elements
<1>6. AccountTypes'
  <2>1. ASSUME NEW d \in Crawlers, NEW a \in Addresses PROVE storedFields'[d][a] <= chainFields[d][a]
    <3>1. CASE d = c /\ a \in Elements(w.job.list)
      BY <1>5, <3>1
    <3>2. CASE d # c \/ a \notin Elements(w.job.list)
      <4>1. storedFields'[d][a] = storedFields[d][a]
        BY <1>2, <3>2
      <4> QED
        BY <4>1 DEF AccountTypes
    <3> QED
      BY <3>1, <3>2
  <2> QED
    BY <1>1, <1>2, <1>3, <2>1 DEF AccountTypes
<1>7. CrawledIsInserted'
  <2> SUFFICES ASSUME NEW d \in Crawlers
               PROVE  /\ \A one \in Range(crawlJobs[d]) : Elements(one.list) \subseteq accounts \union refused
                      /\ \A l \in CrawlWorkers : Elements(crawlWorker'[d][l].job.list) \subseteq accounts \union refused
    BY <1>1 DEF CrawledIsInserted, Range
  <2>1. /\ \A one \in Range(crawlJobs[d]) : Elements(one.list) \subseteq accounts \union refused
        /\ \A l \in CrawlWorkers : Elements(crawlWorker[d][l].job.list) \subseteq accounts \union refused
    BY CrawledLemma
  <2>2. ASSUME NEW l \in CrawlWorkers PROVE Elements(crawlWorker'[d][l].job.list) \subseteq accounts \union refused
    <3>1. CASE d = c /\ l = k
      BY <1>3, <1>4, <3>1 DEF Elements
    <3>2. CASE d # c \/ l # k
      <4>1. crawlWorker'[d][l] = crawlWorker[d][l]
        BY <1>3, <3>2
      <4> QED
        BY <2>1, <4>1
    <3> QED
      BY <3>1, <3>2
  <2> QED
    BY <2>1, <2>2
<1>8. AnswersAreOfPast'
  BY <1>1, <1>3, <1>4 DEF AnswersAreOfPast
<1>9. AloneIsNewer'
  <2> SUFFICES ASSUME NEW d \in Crawlers, NEW l \in CrawlWorkers, CrawlWorkers = {l}, NEW i \in 1 .. Len(crawlWorker'[d][l].got)
               PROVE  crawlWorker'[d][l].got[i] >= storedFields'[d][crawlWorker'[d][l].job.list[i]]
    BY DEF AloneIsNewer
  <2>1. CASE d = c
    BY <1>3, <1>4, <2>1
  <2>2. CASE d # c
    <3>1. crawlWorker'[d][l] = crawlWorker[d][l]
      BY <1>3, <2>2
    <3>2. crawlWorker[d][l].job.list \in Seq(Addresses)
      BY UniqueLemma DEF AccountTypes, FieldWork
    <3>3. crawlWorker[d][l].got \in Seq(Nat)
      BY DEF AccountTypes, FieldWork
    <3>4. Len(crawlWorker[d][l].got) <= Len(crawlWorker[d][l].job.list)
      BY DEF AnswersAreOfPast
    <3>5. crawlWorker[d][l].job.list[i] \in Addresses
      <4> DEFINE s == crawlWorker[d][l].job.list
                 g == crawlWorker[d][l].got
      <4>1. s \in Seq(Addresses) /\ g \in Seq(Nat) /\ Len(g) <= Len(s) /\ i \in 1 .. Len(g)
        BY <3>1, <3>2, <3>3, <3>4
      <4> HIDE DEF s, g
      <4>2. s[i] \in Addresses
        BY <4>1
      <4> QED
        BY <4>2 DEF s
    <3>6. crawlWorker[d][l].got[i] >= storedFields[d][crawlWorker[d][l].job.list[i]]
      BY <3>1 DEF AloneIsNewer
    <3> QED
      <4> DEFINE x == crawlWorker[d][l].job.list[i]
      <4>1. storedFields'[d][x] = storedFields[d][x]
        BY <1>2, <2>2, <3>5
      <4> QED
        BY <3>1, <3>6, <4>1
  <2> QED
    BY <2>1, <2>2
<1>10. ASSUME NEW d \in Crawlers, NEW a \in Addresses, FieldComes(d, a), d # c \/ a \notin Elements(w.job.list)
       PROVE  FieldComes(d, a)'
  <2>1. CASE \E l \in CrawlWorkers : \E i \in DOMAIN crawlWorker[d][l].job.list :
                /\ crawlWorker[d][l].job.list[i] = a
                /\ i \in 1 .. Len(crawlWorker[d][l].got) => crawlWorker[d][l].got[i] = chainFields[d][a]
    <3>1. PICK l \in CrawlWorkers : \E i \in DOMAIN crawlWorker[d][l].job.list :
                /\ crawlWorker[d][l].job.list[i] = a
                /\ i \in 1 .. Len(crawlWorker[d][l].got) => crawlWorker[d][l].got[i] = chainFields[d][a]
      BY <2>1
    <3>2. d # c \/ l # k
      BY <1>10, <3>1 DEF w, Elements
    <3> QED
      BY <1>1, <1>3, <3>1, <3>2 DEF FieldComes
  <2> QED
    BY <1>1, <1>10, <2>1 DEF FieldComes
<1>11. FreshOrComes'
  <2> SUFFICES ASSUME NEW d \in Crawlers, NEW a \in Addresses,
                      Changed(d, a)', <<d, a>> \notin overtaken' \union givenUp'
               PROVE  storedFields'[d][a] = chainFields[d][a] \/ FieldComes(d, a)'
    BY <1>1 DEF FreshOrComes
  <2>1. Changed(d, a) /\ <<d, a>> \notin givenUp
    BY <1>1 DEF Changed
  <2>2. CASE d # c \/ a \notin Elements(w.job.list)
    <3>1. storedFields'[d][a] = storedFields[d][a] /\ <<d, a>> \notin overtaken
      BY <1>2, <2>2
    <3>2. storedFields[d][a] = chainFields[d][a] \/ FieldComes(d, a)
      BY <2>1, <3>1 DEF FreshOrComes
    <3> QED
      BY <1>10, <2>2, <3>1, <3>2
  <2>3. CASE d = c /\ a \in Elements(w.job.list) /\ storedFields'[c][a] # chainFields[c][a]
    <3>1. storedFields'[c][a] >= storedFields[c][a] /\ <<c, a>> \notin overtaken
      BY <1>2, <2>3
    <3>2. storedFields[c][a] = chainFields[c][a] \/ FieldComes(c, a)
      BY <2>1, <2>3, <3>1 DEF FreshOrComes
    <3>3. storedFields[c][a] # chainFields[c][a]
      <4>1. storedFields'[c][a] \in Nat /\ storedFields[c][a] \in Nat /\ chainFields[c][a] \in Nat
        BY <1>2 DEF AccountTypes
      <4> QED
        BY <1>5, <2>3, <3>1, <4>1
    <3>4. CASE \E l \in CrawlWorkers : \E i \in DOMAIN crawlWorker[c][l].job.list :
                  /\ crawlWorker[c][l].job.list[i] = a
                  /\ i \in 1 .. Len(crawlWorker[c][l].got) => crawlWorker[c][l].got[i] = chainFields[c][a]
      <4>1. PICK l \in CrawlWorkers : \E i \in DOMAIN crawlWorker[c][l].job.list :
                  /\ crawlWorker[c][l].job.list[i] = a
                  /\ i \in 1 .. Len(crawlWorker[c][l].got) => crawlWorker[c][l].got[i] = chainFields[c][a]
        BY <3>4
      <4>2. l # k
        BY <1>2, <2>3, <4>1 DEF w
      <4> QED
        BY <1>1, <1>3, <2>3, <4>1, <4>2 DEF FieldComes
    <3> QED
      BY <1>1, <2>3, <3>2, <3>3, <3>4 DEF FieldComes
  <2> QED
    BY <2>2, <2>3
<1> QED
  BY <1>6, <1>7, <1>8, <1>9, <1>11

LEMMA CrawlFieldStep ==
    ASSUME AccountInv, NEW c \in Crawlers, NEW k \in CrawlWorkers, CrawlField(c, k)
    PROVE  AccountInv'
<1>1. CASE StartFieldCrawl(c, k)
  BY <1>1, StartFieldCrawlStep
<1>2. CASE CrawlAddress(c, k)
  BY <1>2, CrawlAddressStep
<1>3. CASE CrawlMissing(c, k)
  BY <1>3, GiveBackStep DEF CrawlMissing
<1>4. CASE FieldCrawlFails(c, k)
  BY <1>4, GiveBackStep DEF FieldCrawlFails
<1>5. CASE WriteAnswers(c, k)
  BY <1>5, WriteAnswersStep
<1> QED
  BY <1>1, <1>2, <1>3, <1>4, <1>5 DEF CrawlField

\* The steps of the crawlers are those of the workers of one of them.
LEMMA CrawlersLemma ==
    CrawlBalances \/ CrawlSpendableBalances \/ CrawlDelegates
        => \E c \in Crawlers, k \in CrawlWorkers : CrawlField(c, k)
BY DEF CrawlBalances, CrawlSpendableBalances, CrawlDelegates

LEMMA NextAccountInv == AccountInv /\ [AccountNext]_accountVars => AccountInv'
<1> SUFFICES ASSUME AccountInv, [AccountNext]_accountVars PROVE AccountInv'
  OBVIOUS
<1>1. CASE HandleAddressNext /\ UNCHANGED crawlVars
  <2>1. ASSUME NEW t \in AddressTxs, TxHappens(t) PROVE AccountInv'
    BY <1>1, <2>1, TxHappensStep
  <2>2. ASSUME NEW h \in QueueHandlers, FindExisting(h) PROVE AccountInv'
    BY <1>1, <2>2, FindExistingStep
  <2>3. ASSUME NEW h \in ApiHandlers, NEW a \in Addresses, Upsert(h, a) PROVE AccountInv'
    BY <1>1, <2>3, UpsertAccountStep
  <2>4. ASSUME NEW h \in AddressHandlers, InsertMissing(h) PROVE AccountInv'
    BY <1>1, <2>4, InsertMissingStep
  <2>5. CASE HandlerDies
    BY <1>1, <2>5, HandlerDiesStep
  <2> QED
    BY <1>1, <2>1, <2>2, <2>3, <2>4, <2>5 DEF HandleAddressNext
<1>2. CASE \E c \in Crawlers, k \in CrawlWorkers : CrawlField(c, k)
  BY <1>2, CrawlFieldStep
<1>3. CASE UNCHANGED accountVars
  <2>1. UNCHANGED <<chainFields, happened, accounts, addressRequests, handler, crawlJobs, refused, storedFields,
                    crawlWorker, overtaken, givenUp>>
    BY <1>3 DEF accountVars, addressVars, crawlVars
  <2>2. AccountTypes'
    BY <2>1 DEF AccountInv, AccountTypes
  <2>3. CrawledIsInserted' /\ AnswersAreOfPast' /\ AloneIsNewer'
    BY <2>1 DEF AccountInv, CrawledIsInserted, AnswersAreOfPast, AloneIsNewer
  <2>4. \A c \in Crawlers, a \in Addresses : FieldComes(c, a) => FieldComes(c, a)'
    BY <2>1 DEF FieldComes
  <2> QED
    BY <2>1, <2>2, <2>3, <2>4, FreshKeep DEF AccountInv
<1> QED
  BY <1>1, <1>2, <1>3, CrawlersLemma DEF AccountNext

\* A worker that is alone writes nothing that is older than what is there.
LEMMA AloneLemma ==
    ASSUME AccountInv, [AccountNext]_accountVars, Cardinality(CrawlWorkers) = 1,
           NEW c \in Crawlers, NEW a \in Addresses
    PROVE  storedFields'[c][a] >= storedFields[c][a]
<1>1. storedFields[c][a] \in Nat /\ AloneIsNewer
  BY DEF AccountInv, AccountTypes
<1>2. CASE UNCHANGED storedFields
  BY <1>1, <1>2
<1>3. ASSUME NEW d \in Crawlers, NEW k \in CrawlWorkers, WriteAnswers(d, k)
      PROVE  storedFields'[c][a] >= storedFields[c][a]
  <2>1. CrawlWorkers = {k}
    BY AccountCrawlAssumption, FS_Singleton
  <2> DEFINE w == crawlWorker[d][k]
  <2>2. /\ storedFields' \in [Crawlers -> [Addresses -> Nat]]
        /\ \A i \in DOMAIN w.job.list : /\ i \in 1 .. Len(w.got) /\ w.job.list[i] \in Addresses
                                        /\ storedFields'[d][w.job.list[i]] = w.got[i]
                                        /\ w.got[i] <= chainFields[d][w.job.list[i]]
        /\ \A e \in Crawlers, b \in Addresses : e # d \/ b \notin Elements(w.job.list) =>
              storedFields'[e][b] = storedFields[e][b] /\ (<<e, b>> \in overtaken' <=> <<e, b>> \in overtaken)
        /\ \A b \in Elements(w.job.list) : <<d, b>> \notin overtaken' =>
              /\ storedFields'[d][b] >= storedFields[d][b]
              /\ storedFields'[d][b] = chainFields[d][b] \/ <<d, b>> \notin overtaken
    BY <1>3, FieldsWrittenLemma
  <2>3. CASE d = c /\ a \in Elements(crawlWorker[d][k].job.list)
    <3>1. PICK i \in DOMAIN crawlWorker[d][k].job.list : crawlWorker[d][k].job.list[i] = a
      BY <2>3 DEF Elements
    <3>2. crawlWorker[d][k].got[i] >= storedFields[d][crawlWorker[d][k].job.list[i]]
      BY <1>1, <2>1, <2>2 DEF AloneIsNewer
    <3> QED
      BY <2>2, <2>3, <3>1, <3>2
  <2>4. CASE d # c \/ a \notin Elements(w.job.list)
    <3>1. storedFields'[c][a] = storedFields[c][a]
      BY <2>2, <2>4
    <3> QED
      BY <1>1, <3>1
  <2> QED
    BY <2>3, <2>4
<1>4. ASSUME NEW d \in Crawlers, NEW k \in CrawlWorkers, CrawlField(d, k)
      PROVE  UNCHANGED storedFields \/ WriteAnswers(d, k)
  BY <1>4 DEF CrawlField, StartFieldCrawl, CrawlAddress, CrawlMissing, FieldCrawlFails, GiveBack
<1> QED
  BY <1>2, <1>3, <1>4, CrawlersLemma DEF AccountNext, crawlVars, accountVars

\* Whatever handlers, crawlers and workers run side by side and however many of their jobs fail,
\* whoever is crawled has been inserted or was refused by the database, an account shows at rest
\* what the chain last made of its fields unless a job was given up or a slow worker wrote an
\* older answer last, and a crawler of one worker never takes a field back
\* (handle-address.service.ts:48-240, crawl-account-balances.service.ts:39-161).
THEOREM AccountsStayFresh == AccountSpec => AccountsFollowChain
<1> DEFINE newer == Cardinality(CrawlWorkers) = 1 =>
                        \A c \in Crawlers, a \in Addresses : storedFields'[c][a] >= storedFields[c][a]
<1>1. AccountInv /\ [AccountNext]_accountVars => newer
  BY AloneLemma
<1>2. AccountInv => AccountTypeOK /\ CrawledIsInserted /\ FreshAtRest
  BY AccountLemma
<1> HIDE DEF newer
<1>3. AccountInv /\ [AccountNext]_accountVars => [newer]_accountVars
  BY <1>1
<1>4. AccountSpec => [](AccountTypeOK /\ CrawledIsInserted /\ FreshAtRest) /\ [][newer]_accountVars
  BY <1>2, <1>3, InitAccountInv, NextAccountInv, PTL DEF AccountSpec
<1> QED
  BY <1>4 DEF newer, AccountsFollowChain, AloneNeverGoesBack
=============================================================================
