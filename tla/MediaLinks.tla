------------------------------ MODULE MediaLinks ------------------------------
(* The images of the tokens of CW721 and CW4973 contracts.  An enriched asset  *)
(* has its image looked up by services/asset-indexer/cw721-asset-media (and    *)
(* cw4973-asset-media): a source nobody has met gets a document and a job that *)
(* downloads it, and services/asset-manager/cw721-asset-media-manager gives    *)
(* the stored file to every asset with that source.  The module is about one   *)
(* source: documents, flags and lists of different sources are apart.          *)
EXTENDS Naturals, FiniteSets, Sequences, SequencesExt

CONSTANTS
    Assets,             \* those whose image is the source
    Kind,               \* "CW721" or "CW4973"
    MaxEnriched,        \* bound: times an asset is enriched
    GetConcurrency,     \* jobs of get-media-link that run at a time, of all workers
    UpdateAttempts,     \* bound: attempts of a job of update-media-link, 5 in the code
    MaxMediaCrashes     \* bound: deaths of the process

ASSUME MediaAssumption ==
    /\ Kind \in {"CW721", "CW4973"}
    /\ {MaxEnriched, MaxMediaCrashes} \subseteq Nat
    /\ {GetConcurrency, UpdateAttempts} \subseteq Nat \ {0}

VARIABLES
    enriched,           \* times an asset was written
    burned,             \* burned assets
    image,              \* assets that have the image
    events,             \* handlers of the event get-media-link: [asset, pc]
    mediaFlags,         \* assets with a flag in the cache
    getJobs,            \* jobs of get-media-link that wait: their assets
    getting,            \* those that run: [asset, pc]
    mediaDocs,          \* the media documents of the source: their statuses
    updateJobs,         \* waiting jobs of update-media-link: their attempts so far
    updating,           \* the one that runs: <<[tries, pc]>>, or <<>>
    lateWrites,         \* writes nobody waits for: statuses, and lists of assets
    cached,             \* the list of assets act-find has in the cache: <<list>>, or <<>>
    unsureAssets,       \* history: assets whose lookup was dropped, or met a source between
                        \* its two writes, or that a cached list did not have
    stuck,              \* history: a lookup died between its document and its job
    mediaCrashes

mediaVars == <<enriched, burned, image, events, mediaFlags, getJobs, getting, mediaDocs, updateJobs,
               updating, lateWrites, cached, unsureAssets, stuck, mediaCrashes>>

MediaInit ==
    /\ enriched = [a \in Assets |-> 0] /\ burned = {} /\ image = {}
    /\ events = {} /\ mediaFlags = {} /\ getJobs = <<>> /\ getting = {}
    /\ mediaDocs = <<>> /\ updateJobs = <<>> /\ updating = <<>>
    /\ lateWrites = {} /\ cached = <<>> /\ unsureAssets = {} /\ stuck = FALSE /\ mediaCrashes = 0

\* The job that enriches a token writes the asset and emits the event.
EnrichToken(a) ==
    /\ enriched[a] < MaxEnriched /\ a \notin burned
    /\ enriched' = [enriched EXCEPT ![a] = @ + 1]
    /\ IF a \in mediaFlags
       THEN unsureAssets' = unsureAssets \union {a} /\ UNCHANGED events
       ELSE events' = events \union {[asset |-> a, pc |-> "set"]} /\ UNCHANGED unsureAssets
    /\ UNCHANGED <<burned, image, mediaFlags, getJobs, getting, mediaDocs, updateJobs, updating, lateWrites, cached,
                   stuck, mediaCrashes>>

\* A burned asset loses its image.
BurnToken(a) ==
    /\ enriched[a] > 0 /\ a \notin burned
    /\ burned' = burned \union {a} /\ image' = image \ {a}
    /\ UNCHANGED <<enriched, events, mediaFlags, getJobs, getting, mediaDocs, updateJobs, updating, lateWrites, cached,
                   unsureAssets, stuck, mediaCrashes>>

-----------------------------------------------------------------------------
\* The handler of the event read no flag: it raises it, creates the job and takes
\* the flag down, whether the job has begun or not.
HandleGetMediaLink(e) ==
    /\ events' = (events \ {e}) \union
           (IF e.pc = "del" THEN {} ELSE {[e EXCEPT !.pc = IF e.pc = "set" THEN "create" ELSE "del"]})
    /\ mediaFlags' = CASE e.pc = "set" -> mediaFlags \union {e.asset}
                       [] e.pc = "del" -> mediaFlags \ {e.asset}
                       [] OTHER -> mediaFlags
    /\ getJobs' = IF e.pc = "create" THEN Append(getJobs, e.asset) ELSE getJobs
    /\ UNCHANGED <<enriched, burned, image, getting, mediaDocs, updateJobs, updating, lateWrites, cached, unsureAssets,
                   stuck, mediaCrashes>>

\* The job reads the same flag, and has nothing to do where it is up.
StartGet ==
    /\ getJobs # <<>> /\ Cardinality(getting) < GetConcurrency
    /\ LET a == Head(getJobs)
       IN IF a \in mediaFlags
          THEN unsureAssets' = unsureAssets \union {a} /\ UNCHANGED getting
          ELSE getting' = getting \union {[asset |-> a, pc |-> "find"]} /\ UNCHANGED unsureAssets
    /\ getJobs' = Tail(getJobs)
    /\ UNCHANGED <<enriched, burned, image, events, mediaFlags, mediaDocs, updateJobs, updating, lateWrites, cached,
                   stuck, mediaCrashes>>

\* getMediaLink: the first document of the source says what there is to do.
Status == IF mediaDocs = <<>> THEN "none" ELSE mediaDocs[1]

\* Variant for the mutants: a source that is completed is left to others.
NextStepTwo == IF Status = "none" THEN "insert" ELSE "end"

NextStep == CASE Status = "none" -> "insert" [] Status = "COMPLETED" -> "image" [] OTHER -> "end"

FindMedia(g) ==
    /\ g.pc = "find"
    /\ mediaFlags' = mediaFlags \union {g.asset}
    /\ getting' = (getting \ {g}) \union {[g EXCEPT !.pc = NextStep]}
    /\ unsureAssets' = IF Kind = "CW4973" /\ NextStep = "end" /\ [doc |-> "COMPLETED"] \in lateWrites
                 THEN unsureAssets \union {g.asset} ELSE unsureAssets
    /\ UNCHANGED <<enriched, burned, image, events, getJobs, mediaDocs, updateJobs, updating, lateWrites, cached,
                   stuck, mediaCrashes>>

InsertMedia(g) ==
    /\ g.pc = "insert"
    /\ getting' = (getting \ {g}) \union {[g EXCEPT !.pc = "queue"]}
    /\ mediaDocs' = Append(mediaDocs, "HANDLING")
    /\ UNCHANGED <<enriched, burned, image, events, mediaFlags, getJobs, updateJobs, updating, lateWrites, cached,
                   unsureAssets, stuck, mediaCrashes>>

\* The action update-media-link of the manager.
QueueUpdate(g) ==
    /\ g.pc = "queue"
    /\ getting' = (getting \ {g}) \union {[g EXCEPT !.pc = "end"]}
    /\ updateJobs' = Append(updateJobs, 0)
    /\ UNCHANGED <<enriched, burned, image, events, mediaFlags, getJobs, mediaDocs, updating, lateWrites, cached,
                   unsureAssets, stuck, mediaCrashes>>

\* The asset, read past the cache, is given the file; nobody waits for the write.
GiveImage(g) ==
    /\ g.pc = "image"
    /\ getting' = (getting \ {g}) \union {[g EXCEPT !.pc = "end"]}
    /\ lateWrites' = lateWrites \union {[assets |-> {g.asset}, burned |-> burned]}
    /\ UNCHANGED <<enriched, burned, image, events, mediaFlags, getJobs, mediaDocs, updateJobs, updating, cached,
                   unsureAssets, stuck, mediaCrashes>>

EndGet(g) ==
    /\ g.pc = "end"
    /\ getting' = getting \ {g} /\ mediaFlags' = mediaFlags \ {g.asset}
    /\ UNCHANGED <<enriched, burned, image, events, getJobs, mediaDocs, updateJobs, updating, lateWrites, cached,
                   unsureAssets, stuck, mediaCrashes>>

MediaFlagExpires(a) ==
    /\ a \in mediaFlags /\ ~\E x \in events \union getting : x.asset = a
    /\ mediaFlags' = mediaFlags \ {a}
    /\ UNCHANGED <<enriched, burned, image, events, getJobs, getting, mediaDocs, updateJobs, updating, lateWrites,
                   cached, unsureAssets, stuck, mediaCrashes>>

-----------------------------------------------------------------------------
\* Variant for the mutants: nobody waits for the error of the attempt before.
StartUpdateAtOnce ==
    /\ updating = <<>> /\ updateJobs # <<>>
    /\ updating' = <<[tries |-> Head(updateJobs) + 1, pc |-> "upload"]>>
    /\ updateJobs' = Tail(updateJobs)
    /\ UNCHANGED <<enriched, burned, image, events, mediaFlags, getJobs, getting, mediaDocs, lateWrites, cached, unsureAssets,
                   stuck, mediaCrashes>>

\* updateMediaLink.  A failed attempt comes back after 5 s, its error stored by then.
StartUpdate ==
    /\ updating = <<>> /\ updateJobs # <<>>
    /\ Head(updateJobs) > 0 => [doc |-> "ERROR"] \notin lateWrites
    /\ updating' = <<[tries |-> Head(updateJobs) + 1, pc |-> "upload"]>>
    /\ updateJobs' = Tail(updateJobs)
    /\ UNCHANGED <<enriched, burned, image, events, mediaFlags, getJobs, getting, mediaDocs, lateWrites, cached, unsureAssets,
                   stuck, mediaCrashes>>

\* act-upsert: the first document with the key.
SetStatus(s) == mediaDocs' = [mediaDocs EXCEPT ![1] = s]

\* The download fails: ERROR is written without waiting, and the job is tried again.
UploadFails ==
    /\ updating # <<>> /\ updating[1].pc = "upload"
    /\ lateWrites' = lateWrites \union {[doc |-> "ERROR"]}
    /\ updateJobs' = IF updating[1].tries < UpdateAttempts THEN Append(updateJobs, updating[1].tries)
                     ELSE updateJobs
    /\ updating' = <<>>
    /\ UNCHANGED <<enriched, burned, image, events, mediaFlags, getJobs, getting, mediaDocs, cached, unsureAssets,
                   stuck, mediaCrashes>>

\* The file is stored and so is its status; the manager of CW4973 does not wait for that.
StoreMedia ==
    /\ updating # <<>> /\ updating[1].pc = "upload"
    /\ updating' = <<[updating[1] EXCEPT !.pc = "assets"]>>
    /\ IF Kind = "CW721" THEN SetStatus("COMPLETED") /\ UNCHANGED lateWrites
       ELSE lateWrites' = lateWrites \union {[doc |-> "COMPLETED"]} /\ UNCHANGED mediaDocs
    /\ UNCHANGED <<enriched, burned, image, events, mediaFlags, getJobs, getting, updateJobs, cached, unsureAssets,
                   stuck, mediaCrashes>>

\* The managers of both kinds have the same code but for what Kind says.
StoreMediaCW4973 == StoreMedia

FindMediaCW4973(g) == FindMedia(g)

HandleGetMediaLinkCW4973(e) == HandleGetMediaLink(e)

StartGetCW4973 == StartGet

QueueUpdateCW4973(g) == QueueUpdate(g)

Enriched == {a \in Assets : enriched[a] > 0}

\* The assets of the source, from the cache where a list is there.
FindAssets ==
    /\ updating # <<>> /\ updating[1].pc = "assets"
    /\ LET list == IF cached = <<>> THEN [assets |-> Enriched, burned |-> burned] ELSE cached[1]
       IN /\ lateWrites' = lateWrites \union {list}
          /\ cached' = <<list>>
          /\ unsureAssets' = unsureAssets \union (Enriched \ list.assets)
                         \union (IF Kind = "CW4973" /\ [doc |-> "COMPLETED"] \in lateWrites
                             THEN {g.asset : g \in {x \in getting : x.pc = "end"}} ELSE {})
    /\ updating' = <<>>
    /\ UNCHANGED <<enriched, burned, image, events, mediaFlags, getJobs, getting, mediaDocs, updateJobs, stuck,
                   mediaCrashes>>

CacheExpires ==
    /\ cached # <<>> /\ cached' = <<>>
    /\ UNCHANGED <<enriched, burned, image, events, mediaFlags, getJobs, getting, mediaDocs, updateJobs, updating,
                   lateWrites, unsureAssets, stuck, mediaCrashes>>

\* The assets of the list get the file.  The manager of CW4973 upserts them as well,
\* as they were read.
WriteImage(w) ==
    /\ image' = image \union w.assets
    /\ burned' = IF Kind = "CW721" THEN burned
                 ELSE {a \in burned : a \in w.assets => a \in w.burned}

WriteImageCW4973(w) == WriteImage(w)

\* A write that was not waited for lands.
LateLands(w) ==
    /\ lateWrites' = lateWrites \ {w}
    /\ IF "doc" \in DOMAIN w THEN SetStatus(w.doc) /\ UNCHANGED <<image, burned>>
       ELSE WriteImage(w) /\ UNCHANGED mediaDocs
    /\ UNCHANGED <<enriched, events, mediaFlags, getJobs, getting, updateJobs, updating, cached, unsureAssets,
                   stuck, mediaCrashes>>

\* The process dies: bull has the jobs that ran run again.
CrashMedia ==
    /\ mediaCrashes < MaxMediaCrashes
    /\ events # {} \/ getting # {} \/ updating # <<>> \/ lateWrites # {}
    /\ mediaCrashes' = mediaCrashes + 1
    /\ LET again == {g.asset : g \in getting}
       IN /\ getJobs' = SetToSeq(again) \o getJobs
          /\ unsureAssets' = unsureAssets \union {e.asset : e \in events}
                 \union (IF lateWrites # {} THEN Assets ELSE {})
    /\ stuck' = (stuck \/ \E g \in getting : g.pc = "queue")
    /\ updateJobs' = [i \in DOMAIN updating |-> updating[i].tries - 1] \o updateJobs
    /\ events' = {} /\ getting' = {} /\ updating' = <<>> /\ lateWrites' = {}
    /\ UNCHANGED <<enriched, burned, image, mediaFlags, mediaDocs, cached>>

GetNext ==
    \/ \E e \in events : HandleGetMediaLink(e)
    \/ StartGet
    \/ \E g \in getting : FindMedia(g) \/ InsertMedia(g) \/ QueueUpdate(g) \/ GiveImage(g) \/ EndGet(g)

UpdateNext == StartUpdate \/ UploadFails \/ StoreMedia \/ FindAssets

LateNext == \E w \in lateWrites : LateLands(w)

MediaNext ==
    \/ \E a \in Assets : EnrichToken(a) \/ BurnToken(a) \/ MediaFlagExpires(a)
    \/ GetNext \/ UpdateNext \/ LateNext \/ CacheExpires \/ CrashMedia

MediaSpec == MediaInit /\ [][MediaNext]_mediaVars

MediaFairness ==
    WF_mediaVars(GetNext) /\ WF_mediaVars(UpdateNext) /\ WF_mediaVars(LateNext)

-----------------------------------------------------------------------------
Statuses == {"HANDLING", "COMPLETED", "ERROR"}
AssetList == [assets : SUBSET Enriched, burned : SUBSET Assets]
Storing == [doc |-> "COMPLETED"] \in lateWrites

\* Only enriched assets are looked up and get the image, and jobs are within their
\* limits.
MediaTypeOK ==
    /\ enriched \in [Assets -> Nat] /\ burned \subseteq Assets /\ image \subseteq Enriched
    /\ events \subseteq [asset : Enriched, pc : {"set", "create", "del"}]
    /\ getJobs \in Seq(Enriched)
    /\ getting \subseteq [asset : Enriched, pc : {"find", "insert", "queue", "image", "end"}]
    /\ IsFiniteSet(getting) /\ Cardinality(getting) <= GetConcurrency
    /\ mediaDocs \in Seq(Statuses)
    /\ updateJobs \in Seq(0 .. UpdateAttempts - 1)
    /\ updating \in {<<>>} \union {<<u>> : u \in [tries : 1 .. UpdateAttempts, pc : {"upload", "assets"}]}
    /\ lateWrites \subseteq [doc : {"ERROR", "COMPLETED"}] \union AssetList
    /\ cached \in {<<>>} \union {<<list>> : list \in AssetList}
    /\ mediaFlags \union unsureAssets \subseteq Assets

\* A source that has a job has a document, and its status is written late by the
\* manager of CW4973 only.
SourceIsKnown ==
    /\ \/ updateJobs # <<>> \/ updating # <<>>
       \/ \E g \in getting : g.pc = "queue"
       \/ \E w \in lateWrites : "doc" \in DOMAIN w
       => mediaDocs # <<>>
    /\ Storing => Kind = "CW4973"

MediaAtRest == events = {} /\ getJobs = <<>> /\ getting = {} /\ updateJobs = <<>> /\ updating = <<>> /\ lateWrites = {}

\* cw721-asset-media.service.ts:168, manager:170-204: a lookup that finds the source
\* in hand does nothing, for the assets are read after the file is known to be
\* there: all assets of a completed source have the image in the end.
EveryAssetGetsImage ==
    MediaAtRest /\ Status = "COMPLETED" => Enriched \ (unsureAssets \union burned) \subseteq image

\* manager:251: the error of one attempt does not overwrite the success of another,
\* unless two lookups queued a job each, or a crash had one run twice.
CompletedStays ==
    [][Status = "COMPLETED" => Status' = "COMPLETED" \/ Len(mediaDocs) > 1 \/ mediaCrashes > 0]_mediaVars

\* An image that arrives late does not bring a burned asset back (that of the
\* manager of CW4973 does: it upserts what it read).
BurnedStays == [][Kind = "CW721" => burned \subseteq burned']_mediaVars

\* The file behind the images of assets, with lookups and jobs that overlap, retries
\* and deaths: it is completed once, and all assets get it, but for those burned
\* meanwhile (cw721-asset-media.service.ts:106-251,
\* cw721-asset-media-manager.service.ts:160-262).
MediaIsLinked ==
    /\ [](MediaTypeOK /\ SourceIsKnown /\ EveryAssetGetsImage)
    /\ CompletedStays
    /\ BurnedStays

\* A source in hand is completed or in error in the end, unless the lookup died
\* between its document and its job: nothing takes that up again.
HandlingEnds == MediaFairness => [](Status = "HANDLING" => <>(stuck \/ Status # "HANDLING"))

-----------------------------------------------------------------------------
\* Why every asset gets its image: it has it or is in a list that is being written;
\* or its lookup is to come, or has met the completed source; or the assets are
\* about to be listed; or else the file is not known to be there, neither by the
\* document nor by a write on its way to it, and what may change that will list the
\* assets afterwards.
Given(a) == a \in image \/ \E w \in lateWrites : "assets" \in DOMAIN w /\ a \in w.assets

LookedUp(a) ==
    \/ \E e \in events : e.asset = a /\ e.pc \in {"set", "create"}
    \/ a \in ToSet(getJobs)
    \/ \E g \in getting : g.asset = a /\ g.pc \in {"find", "image"}

Listing == updating # <<>> /\ updating[1].pc = "assets"

Uploading(a) ==
    \/ \E g \in getting : g.asset = a /\ g.pc \in {"insert", "queue"}
    \/ updateJobs # <<>> \/ updating # <<>>
    \/ [doc |-> "ERROR"] \in lateWrites

ImageComes(a) ==
    Given(a) \/ LookedUp(a) \/ Listing \/ (~Storing /\ (Uploading(a) \/ Status # "COMPLETED"))

ImagesCome == \A a \in Enriched \ (unsureAssets \union burned) : ImageComes(a)
=============================================================================
