------------------------------ MODULE Services ------------------------------
(***************************************************************************)
(* The way of a downlink block to the Golioth services: the consumer of     *)
(* entry.c takes a block apart and calls the dispatcher (dispatch.c), which *)
(* calls the service that the path belongs to; the reports go the other way *)
(* (golioth_sync_to_cloud).  Ota and Settings are the services.             *)
(*                                                                         *)
(* Blocks and events are handled by one thread, the pouch work queue: the   *)
(* calls that a block causes are steps of their own (calls), and no other   *)
(* work of that thread comes between them.                                 *)
(*                                                                         *)
(* The cloud is not part of the repository.  It sends entries and streams,  *)
(* the blocks of several streams in any order; a pouch may break off        *)
(* between any two blocks.  ReuseIds, ManifestFirst and SettingsFirst say   *)
(* what it is trusted with.                                                *)
(***************************************************************************)
EXTENDS Ota, Settings

CONSTANTS Ids,             \* stream ids (0 is no stream)
          CloudSettings,   \* for each version the pairs of its settings
          ReuseIds,        \* the cloud takes ids that the device may still remember
          ManifestFirst,   \* no manifest between the blocks of a component
          SettingsFirst,   \* a document that can be cut has its settings before the version
          MaxVersion,      \* bound on the versions of Main
          MaxFaults        \* bound on lost pouches, power cycles, flash errors, reports that
                           \* are not written, releases taken back, documents that are cut
                           \* or broken and streams that nobody asked for

\* A component that the application has not registered.
Aux == "aux"

ASSUME ServicesAssumption == /\ Ids \subseteq Nat \ {0}
                             /\ {ReuseIds, ManifestFirst, SettingsFirst} \subseteq BOOLEAN
                             /\ MaxVersion \in Nat /\ MaxFaults \in Nat
                             /\ ImageLen > 1 /\ Main \notin {"", Aux}

\* Every version has settings, and the value of a setting names the version.
ASSUME CloudAssumption ==
    /\ CloudSettings \in Seq(Seq([key : STRING, value : [type : STRING, val : Nat]]))
    /\ \A k \in DOMAIN CloudSettings :
          /\ CloudSettings[k] # <<>>
          /\ \A i \in DOMAIN CloudSettings[k] : CloudSettings[k][i].value.val = k

VARIABLES last_seen, downlink_id,          \* dispatch.c
          calls,                           \* calls that the block at hand still causes
          want, cloud,                     \* the version of Main and of the settings in the cloud
          streams,                         \* the streams that the cloud has begun
          offered,                         \* versions offered since the boot, but the running one
          report,                          \* what the device reported last: the state of Main, the settings
          faults

dispatchVars == <<last_seen, downlink_id>>
cloudVars == <<want, cloud, streams, offered, report>>
vars == <<otaVars, settingsVars, dispatchVars, calls, cloudVars, faults>>

\* The services in the order of their section, which the linker sorts by name,
\* and the directory that each one's path pattern stands for.
ServiceOrder == <<"ota_component", "ota_manifest", "settings">>
Dir == [ota_component |-> "component", ota_manifest |-> "desired", settings |-> "settings"]
NULL == "none"

NoIds == [s \in Range(ServiceOrder) |-> DOWNLINK_ID_INVALID]
NoStreams == [i \in {} |-> {}]

Init == /\ OtaInit /\ SettingsInit
        /\ last_seen = NULL /\ downlink_id = NoIds
        /\ calls = <<>>
        /\ want = 0 /\ cloud = 0 /\ streams = NoStreams /\ offered = {}
        /\ report = [ota |-> IDLE, settings |-> settings_uplink]
        /\ faults = 0

-----------------------------------------------------------------------------
(* The consumer: a block becomes calls of the dispatcher. *)

downlink_start(id, path) == [op |-> "start", id |-> id, path |-> path]
downlink_data(id, data, is_last) ==
    [op |-> "data", id |-> id, data |-> data, is_last |-> is_last]

\* A piece of what is sent to a path.
Piece(path, pos, doc) == [path |-> path, pos |-> pos, doc |-> doc]

\* Every entry is begun and ended at once, with id 0: two calls for each.
pouch_downlink_entries_push(entries) ==
    [k \in 1 .. 2 * Len(entries) |->
        LET entry == entries[(k + 1) \div 2]
        IN  IF k % 2 = 1 THEN downlink_start(0, entry.path)
            ELSE downlink_data(0, Piece(entry.path, 0, entry.doc), TRUE)]

pouch_downlink_stream_push(block, id, is_first, is_last) ==
    (IF is_first THEN <<downlink_start(id, block.data.path)>> ELSE <<>>)
    \o <<downlink_data(id, block.data, is_last)>>

\* The header tells streams from entries by the id alone.
block_decode_hdr(block) == [id |-> block.id, is_stream |-> block.id # 0]

pouch_downlink_block_push(block) ==
    LET hdr == block_decode_hdr(block)
    IN  IF hdr.is_stream
        THEN pouch_downlink_stream_push(block, hdr.id, block.first, block.last)
        ELSE pouch_downlink_entries_push(block.entries)

-----------------------------------------------------------------------------
(* The dispatcher. *)

\* The first of the services in the set, or NULL.
FirstService(services) ==
    LET i == SelectInSeq(ServiceOrder, LAMBDA s : s \in services)
    IN  IF i = 0 THEN NULL ELSE ServiceOrder[i]

\* The directory of a path is the path of the service that it begins with: as many
\* characters are compared as the service's path has, and what follows them makes
\* no difference unless the pattern ends in "*".  Path("desired") thus stands for
\* the path of the manifests and for every longer one.
WithPath(path) == {s \in Range(ServiceOrder) : Dir[s] = path.dir}
WithId(id)     == {s \in Range(ServiceOrder) : downlink_id[s] = id}

\* Mutant: a service that has not seen the end of a stream takes no other one.
pouch_downlink_start_busy(id, path) ==
    LET service == FirstService(WithPath(path))
        busy == service # NULL /\ downlink_id[service] # DOWNLINK_ID_INVALID
    IN  /\ IF service = NULL \/ busy THEN UNCHANGED dispatchVars
           ELSE last_seen' = service /\ downlink_id' = [downlink_id EXCEPT ![service] = id]
        /\ IF service = "ota_component" /\ ~busy THEN ota_receive_component_start(id, path)
           ELSE UNCHANGED component_download

\* A path without a service leaves last_seen as it is.
pouch_downlink_start(id, path) ==
    LET service == FirstService(WithPath(path))
    IN  /\ IF service = NULL THEN UNCHANGED dispatchVars
           ELSE last_seen' = service /\ downlink_id' = [downlink_id EXCEPT ![service] = id]
        /\ IF service = "ota_component" THEN ota_receive_component_start(id, path)
           ELSE UNCHANGED component_download

\* The service of the last start if its id is the one of the data, or the first
\* that has this id.
ActiveService(id) ==
    IF last_seen # NULL /\ downlink_id[last_seen] = id THEN last_seen
    ELSE FirstService(WithId(id))

data_cb(service, data, is_last, fail) ==
    \/ /\ service = "ota_component"
       /\ ota_receive_component_data(data, is_last, fail)
       /\ UNCHANGED <<registered, running, settingsVars>>
    \/ /\ service = "ota_manifest" /\ fail = "none"
       /\ ota_receive_manifest(data.doc)
       /\ UNCHANGED <<component_download, running, flash, upgrade, settingsVars>>
    \/ /\ service = "settings" /\ fail = "none"
       /\ settings_downlink(data.doc)
       /\ UNCHANGED otaVars
    \/ /\ service = NULL /\ fail = "none"
       /\ UNCHANGED <<otaVars, settingsVars>>

\* The last data of a stream makes its service forget the id.
pouch_downlink_data(id, data, is_last, fail) ==
    LET service == ActiveService(id)
    IN  /\ data_cb(service, data, is_last, fail)
        /\ IF service # NULL /\ is_last
           THEN /\ last_seen' = NULL
                /\ downlink_id' = [downlink_id EXCEPT ![service] = DOWNLINK_ID_INVALID]
           ELSE UNCHANGED dispatchVars

\* A call of the block at hand.  After the request of an upgrade the thread
\* sleeps until the reboot.
CallStart ==
    /\ calls # <<>> /\ ~upgrade /\ Head(calls).op = "start"
    /\ pouch_downlink_start(Head(calls).id, Head(calls).path)
    /\ calls' = Tail(calls)
    /\ UNCHANGED <<registered, running, flash, upgrade, settingsVars, cloudVars, faults>>

CallData ==
    /\ calls # <<>> /\ ~upgrade /\ Head(calls).op = "data"
    /\ \E fail \in {"none", "init", "write", "request"} :
          /\ faults' = faults + (IF fail = "none" THEN 0 ELSE 1)
          /\ faults' <= MaxFaults
          /\ pouch_downlink_data(Head(calls).id, Head(calls).data, Head(calls).is_last, fail)
    /\ calls' = Tail(calls)
    /\ UNCHANGED cloudVars

-----------------------------------------------------------------------------
(* The device. *)

\* The pouch work queue is free for a block or an event.
Free == calls = <<>> /\ ~upgrade

\* At the start of a session all services report and the pouch is closed.  An
\* entry that cannot be written is left out, and its service does not try again.
golioth_sync_to_cloud ==
    /\ Free
    /\ \E lostOta, lostSettings \in {0, 1} :
          /\ faults' = faults + lostOta + lostSettings /\ faults' <= MaxFaults
          /\ report' = [ota |-> IF lostOta = 1 THEN report.ota ELSE ota_uplink(report.ota),
                        settings |-> IF lostSettings = 1 THEN report.settings
                                     ELSE settings_uplink]
    /\ UNCHANGED <<otaVars, settingsVars, dispatchVars, calls, want, cloud, streams, offered>>

\* All but the image is volatile; the connection and its pouch are gone.
Boot == /\ OtaReset
        /\ settings_version' = -1
        /\ value' = [n \in DOMAIN SettingType |-> Unset]
        /\ last_seen' = NULL /\ downlink_id' = NoIds
        /\ calls' = <<>> /\ streams' = NoStreams /\ offered' = {}
        /\ UNCHANGED <<want, cloud, report>>

sys_reboot == upgrade /\ Boot /\ UNCHANGED faults

\* One more of the bounded number of things that go wrong.
Fault == faults < MaxFaults /\ faults' = faults + 1

\* Between two calls it would lose no more than after them.
PowerCycle == Free /\ Fault /\ Boot
-----------------------------------------------------------------------------
(* The cloud. *)

Path(dir)                 == [dir |-> dir, at |-> FALSE, name |-> "", ver |-> 0]
ComponentPath(at, name, v) == [dir |-> "component", at |-> at, name |-> name, ver |-> v]
CborInt(v) == [type |-> "int", val |-> v]

\* A component of a manifest.
Component(name, fits, v, hash) ==
    CborMap(<<Pair("package", Tstr(name, fits)), Pair("version", Tstr(v, TRUE)),
              Pair("hash", Tstr(hash, TRUE)), Pair("size", CborInt(ImageLen))>>)

Manifest(components) ==
    CborMap(<<Pair("sequence", CborInt(1)), Pair("components", CborList(components, TRUE))>>)

MainComponent == Component(Main, TRUE, want, "hex")
GoodManifests == {Manifest(<<MainComponent>>),
                  Manifest(<<Component(Aux, TRUE, 1, "hex"), MainComponent>>)}
\* Manifests that the device does not read to the end, and one with nothing in it.
BadManifests == {Manifest(<<MainComponent, Component(Aux, FALSE, 1, "hex")>>),
                 Manifest(<<Component(Aux, TRUE, 1, "other"), MainComponent>>),
                 CborMap(<<Pair("sequence", CborInt(1))>>)}
\* A manifest that is cut in the list of components.
CutManifest == CutMap(<<Pair("sequence", CborInt(1)),
                        Pair("components", CborList(<<MainComponent>>, FALSE))>>)

SettingsDoc(item) == CborMap(<<Pair("settings", item), Pair("version", CborInt(cloud))>>)
SettingsItem == CborMap(CloudSettings[cloud])
SettingsDocs == {SettingsDoc(SettingsItem),
                 CborMap(<<Pair("version", CborInt(cloud)), Pair("hint", CborInt(0)),
                           Pair("settings", SettingsItem)>>)}
\* A document without settings, and one that is cut in its settings.
NilSettings == SettingsDoc([type |-> "nil"])
CutSettings == CutMap((IF SettingsFirst THEN <<>> ELSE <<Pair("version", CborInt(cloud))>>)
                      \o <<Pair("settings", CutMap(<<Head(CloudSettings[cloud])>>))>>)

\* No manifest while a component is under way, if the cloud is trusted with that.
ManifestMaySend ==
    ManifestFirst => \A i \in DOMAIN streams : streams[i].path.dir # "component"

SendEntries(entries) == /\ Free
                        /\ calls' = pouch_downlink_block_push([id |-> 0, entries |-> entries])
                        /\ UNCHANGED <<otaVars, settingsVars, dispatchVars, want, cloud, streams,
                                       report>>

Entry(path, doc) == [path |-> path, doc |-> doc]

\* A manifest of the version that the cloud wants now.
Offer == ManifestMaySend /\ offered' = offered \cup ({want} \ {running})

SendManifest == /\ Offer
                /\ \E d \in GoodManifests : SendEntries(<<Entry(Path("desired"), d)>>)
                /\ UNCHANGED faults

SendBadManifest == /\ Offer /\ Fault
                   /\ \E d \in BadManifests : SendEntries(<<Entry(Path("desired"), d)>>)

\* Settings, which the device does not have yet, behind an entry for a path that
\* has no service.
SettingsMaySend == report.settings # cloud /\ cloud > 0

SendSettings == /\ SettingsMaySend
                /\ \E d \in SettingsDocs :
                      SendEntries(<<Entry(Path("other"), CborRest), Entry(Path("settings"), d)>>)
                /\ UNCHANGED <<offered, faults>>

SendNilSettings == /\ SettingsMaySend /\ Fault
                   /\ SendEntries(<<Entry(Path("settings"), NilSettings)>>)
                   /\ UNCHANGED offered

\* The next block of a stream, whose blocks are the documents docs.
StreamBlock(id, stream, k) ==
    [id |-> id, first |-> k = 1, last |-> k = Len(stream.docs),
     data |-> Piece(stream.path, k - 1, stream.docs[k])]

Remembered == {downlink_id[s] : s \in DOMAIN downlink_id}
FreshIds == Ids \ (DOMAIN streams \cup (IF ReuseIds THEN {} ELSE Remembered))

\* A stream is begun; it has at least two blocks.
Open(path, docs) ==
    /\ Free /\ FreshIds # {}
    /\ LET id == Min(FreshIds)
           stream == [path |-> path, docs |-> docs, sent |-> 1]
       IN  /\ calls' = pouch_downlink_block_push(StreamBlock(id, stream, 1))
           /\ streams' = [i \in DOMAIN streams \cup {id} |->
                              IF i = id THEN stream ELSE streams[i]]
    /\ UNCHANGED <<otaVars, settingsVars, dispatchVars, want, cloud, report>>

OpenMain == /\ report.ota = DOWNLOADING
            /\ \A i \in DOMAIN streams : streams[i].path.name # Main
            /\ Open(ComponentPath(TRUE, Main, want), [k \in 1 .. ImageLen |-> CborRest])
            /\ UNCHANGED <<offered, faults>>

OpenManifest == /\ Offer /\ Fault
                /\ Open(Path("desired"), <<CutManifest, CborRest>>)

OpenSettings == /\ SettingsMaySend /\ Fault
                /\ Open(Path("settings"), <<CutSettings, CborRest>>)
                /\ UNCHANGED offered

\* A component that is not registered, one without a version, or another path.
OpenOther == /\ Fault
             /\ \E p \in {ComponentPath(TRUE, Aux, 1), ComponentPath(FALSE, "", 0), Path("other")} :
                    Open(p, <<CborRest, CborRest>>)
             /\ UNCHANGED offered

NextBlock(id) ==
    /\ Free /\ id \in DOMAIN streams
    /\ LET stream == [streams[id] EXCEPT !.sent = @ + 1]
       IN  /\ calls' = pouch_downlink_block_push(StreamBlock(id, stream, stream.sent))
           /\ streams' = IF stream.sent = Len(stream.docs)
                         THEN [i \in DOMAIN streams \ {id} |-> streams[i]]
                         ELSE [streams EXCEPT ![id] = stream]
    /\ UNCHANGED <<otaVars, settingsVars, dispatchVars, want, cloud, offered, report, faults>>

\* The pouch breaks off: the gateway went away.
BreakOff == /\ Free /\ DOMAIN streams # {} /\ Fault
            /\ streams' = NoStreams
            /\ UNCHANGED <<otaVars, settingsVars, dispatchVars, calls, want, cloud, offered,
                           report>>

\* A new version of Main.
Release == /\ Free /\ want < MaxVersion /\ want' = want + 1
           /\ UNCHANGED <<otaVars, settingsVars, dispatchVars, calls, cloud, streams, offered,
                          report, faults>>

\* The cloud goes back to an older version of Main, which may be the one that runs.
Rollback == /\ Free /\ Fault /\ want' \in 0 .. want - 1
            /\ UNCHANGED <<otaVars, settingsVars, dispatchVars, calls, cloud, streams, offered,
                           report>>

\* A new version of the settings.
ChangeSettings == /\ Free /\ cloud < Len(CloudSettings) /\ cloud' = cloud + 1
                  /\ UNCHANGED <<otaVars, settingsVars, dispatchVars, calls, want, streams, offered,
                                 report, faults>>

Next == \/ CallStart \/ CallData \/ golioth_sync_to_cloud \/ sys_reboot \/ PowerCycle
        \/ SendManifest \/ SendBadManifest \/ SendSettings \/ SendNilSettings
        \/ OpenMain \/ OpenManifest \/ OpenSettings \/ OpenOther
        \/ (\E id \in Ids : NextBlock(id))
        \/ BreakOff \/ Release \/ Rollback \/ ChangeSettings

Spec == Init /\ [][Next]_vars

\* A call of the block at hand returns, whatever it does.
CallReturns == calls # <<>> /\ ~upgrade /\ calls' = Tail(calls)

\* The pouch work queue does its work and the device reboots.  Sessions take place
\* again and again, and the cloud sends manifests, the component that was asked
\* for, and the rest of what it has begun; other work of the thread, or of the
\* cloud, may come first any number of times.
FairSpec == /\ Spec
            /\ WF_calls(CallReturns) /\ WF_vars(sys_reboot)
            /\ SF_vars(golioth_sync_to_cloud)
            /\ SF_vars(SendManifest) /\ SF_vars(OpenMain)
            /\ SF_vars(\E id \in Ids : NextBlock(id))

-----------------------------------------------------------------------------
(* Properties *)

Paths == [dir : Range(Dir) \cup {"component", "other"}, at : BOOLEAN,
          name : {"", Main, Aux}, ver : Nat]

\* Every variable has its type; the calls of a block belong to it alone.
TypeOK ==
    /\ component_download \in [id : Ids \cup {0, DOWNLINK_ID_INVALID}, offset : 0 .. ImageLen,
                               name : {"", Main, Aux}]
    /\ registered \in [target : Int, state : {IDLE, DOWNLOADING}]
    /\ running \in 0 .. MaxVersion /\ want \in 0 .. MaxVersion
    /\ flash.error \in BOOLEAN /\ upgrade \in BOOLEAN
    /\ settings_version \in -1 .. cloud /\ cloud \in 0 .. Len(CloudSettings)
    /\ \A n \in DOMAIN value : value[n] = Unset \/ value[n].type = SettingType[n]
    /\ last_seen \in Range(ServiceOrder) \cup {NULL}
    /\ downlink_id \in [Range(ServiceOrder) -> Ids \cup {0, DOWNLINK_ID_INVALID}]
    /\ \A i \in DOMAIN calls : calls[i].id \in Ids \cup {0}
    /\ \A i \in DOMAIN streams : /\ i \in Ids /\ streams[i].path \in Paths
                                 /\ streams[i].sent \in 1 .. Len(streams[i].docs) - 1
    /\ offered \subseteq 0 .. MaxVersion
    /\ faults \in 0 .. MaxFaults

\* What the callback of a component gets is data of that component, and the offset
\* is its place in it (include/golioth/ota.h), however streams, entries, lost
\* pouches and unregistered paths follow each other in the dispatcher, as long as
\* the cloud takes no id that a service may still remember (ReuseIds = FALSE).
BlocksOfComponent ==
    \A i \in DOMAIN flash.content :
        /\ flash.content[i].data.path.name = Main
        /\ flash.content[i].data.pos = flash.content[i].offset

\* The upgrade is requested only when the whole of one image was written, unless
\* the flash reported an error on the way.
ImageIsWhole == upgrade /\ ~flash.error => \E v \in 0 .. MaxVersion : IsImage(flash.content, v)

\* A device asks for a download only if, since it booted, a manifest has offered
\* it another version than the one that it runs.  (The cloud may have gone back to
\* that one meanwhile: nothing returns the component to idle but the reboot.)
NoNeedlessDownload == registered.state = DOWNLOADING => offered # {}

\* The settings of version k that the application can take.
Takes(k) == IF k < 1 THEN {}
            ELSE {p.key : p \in {q \in Range(CloudSettings[k]) :
                      q.key \in DOMAIN SettingType /\ SettingType[q.key] = q.value.type}}

\* A version of the settings is reported only after all of its settings were
\* given to the application; a later, broken document may have replaced some.
ReportedSettingsApplied ==
    \A n \in Takes(settings_version) :
        value[n] # Unset /\ value[n].val >= settings_version

\* A new version of the component is installed in the end, whatever was lost, cut
\* or mixed on the way.
UpdateInstalled == (running # want) ~> (running = want)
=============================================================================
