-------------------------------- MODULE Ota ---------------------------------
(***************************************************************************)
(* Over-the-air updates: the lower half that decodes manifests and counts   *)
(* the bytes of a download (ota.c), the upper half with the state of the    *)
(* registered components (ota_upper.c), and the component of the example,   *)
(* which writes its image to flash (fw_update.c).  The example registers    *)
(* one component, Main.                                                    *)
(*                                                                         *)
(* A piece of data is a record of the path it was sent to, its position in  *)
(* what was sent there, and the CBOR item that it decodes to.  A position   *)
(* stands for a piece of an image, so that lengths are 1.                  *)
(***************************************************************************)
EXTENDS Cbor

CONSTANTS Main,           \* the package that the application registers
          ImageLen,       \* pieces of an image
          LongVersions    \* versions as long as GOLIOTH_OTA_MAX_VERSION_LEN allows

ASSUME OtaAssumption == ImageLen \in Nat \ {0} /\ LongVersions \subseteq Nat

VARIABLES component_download,  \* the download: its id, the offset and the name from the path
          registered,          \* target and state of Main
          running,             \* the version that runs
          flash,               \* what was written since flash_img_init
          upgrade              \* the upgrade was requested and the device is about to reboot

otaVars == <<component_download, registered, running, flash, upgrade>>

DOWNLINK_ID_INVALID == -1

IDLE == "idle"
DOWNLOADING == "downloading"

NoDownload == [id |-> DOWNLINK_ID_INVALID, offset |-> 0, name |-> ""]
Idle(v) == [target |-> v, state |-> IDLE]
\* No flash context yet; "error" is an error that the flash has reported since.
NoFlash == [error |-> FALSE, content |-> <<>>]

OtaInit == /\ component_download = NoDownload
           /\ registered = Idle(0) /\ running = 0
           /\ flash = NoFlash /\ upgrade = FALSE

-----------------------------------------------------------------------------
(* Upper half. *)

golioth_ota_set_status(reg, state) == [reg EXCEPT !.state = state]
golioth_ota_mark_for_download(reg) == golioth_ota_set_status(reg, DOWNLOADING)

\* The target is shorter than a version may be: its last character is cut, and
\* the result (written as a negative number) is no version at all.
Stored(v) == IF v \in LongVersions THEN -v ELSE v

golioth_ota_manifest_receive_one(reg, c) ==
    IF c.package = Main THEN [reg EXCEPT !.target = Stored(c.version)] ELSE reg

\* Mutant: every component of the manifest is marked.
ota_manifest_receive_all(reg) == golioth_ota_mark_for_download(reg)

\* The application's handler marks what is not up to date.
ota_manifest_receive(reg) ==
    IF running # reg.target THEN golioth_ota_mark_for_download(reg) ELSE reg

golioth_ota_manifest_complete(reg) == ota_manifest_receive(reg)

golioth_ota_get_status ==
    [version |-> running, target |-> registered.target, state |-> registered.state]

\* The buffer of the report has no room for two long versions.
ReportFits(st) == st.state # IDLE => ~(st.version \in LongVersions /\ -st.target \in LongVersions)

\* What the device reports; of the version, the state and, unless it is idle, the
\* target, the cloud acts on the state.  A report that does not fit is not sent, so
\* that the cloud keeps the last one.
ota_uplink(last) ==
    LET st == golioth_ota_get_status
    IN  IF ReportFits(st) THEN st.state ELSE last

-----------------------------------------------------------------------------
(* Manifests. *)

\* A text string: "fits" when the buffer it is copied to has room.
Tstr(v, fits) == [type |-> "tstr", val |-> v, fits |-> fits]
CborList(items, whole) == [type |-> "list", items |-> items, whole |-> whole]

ENOMEM == 12

\* The component c becomes "filled", with the text in its place.
component_entry_decode_value(item, c, filled) ==
    IF item.type # "tstr" THEN Result(EBADMSG, c)
    ELSE IF item.fits THEN Result(OK, filled)
    ELSE Result(ENOMEM, c)

DecodeComponentKey(key, item, c) ==
    CASE key = "package" -> component_entry_decode_value(item, c, [c EXCEPT !.package = item.val])
      [] key = "version" -> component_entry_decode_value(item, c, [c EXCEPT !.version = item.val])
      [] key = "hash"    -> component_entry_decode_value(item, c, [c EXCEPT !.hash = item.val])
      [] key = "size"    -> Result(IF item.type = "int" THEN OK ELSE EBADMSG, c)

ComponentKeys == <<"package", "version", "size", "hash">>
ComponentMap == INSTANCE ZcborMap WITH Keys <- ComponentKeys, Decode <- DecodeComponentKey
NoComponent == [package |-> "", version |-> 0, hash |-> ""]

\* One component of the list; the first that is not well-formed ends the walk.
ReceiveComponent(acc, item) ==
    LET r == ComponentMap!zcbor_map_decode(item, NoComponent)
    IN  IF acc.err # OK THEN acc
        ELSE IF r.err = OK /\ r.st.hash = "hex"
        THEN [acc EXCEPT !.reg = golioth_ota_manifest_receive_one(@, r.st)]
        ELSE [acc EXCEPT !.err = EBADMSG]

\* The pairs before the components are skipped, the ones behind never read.  The
\* handler is called when the list was walked to its end.
ota_receive_manifest(doc) ==
    LET at   == SelectInSeq(doc.pairs, LAMBDA p : p.key = "components")
        list == doc.pairs[at].value
        end  == FoldLeft(ReceiveComponent, [err |-> OK, reg |-> registered], list.items)
    IN  registered' =
            IF doc.type = "map" /\ at > 0 /\ list.type = "list"
            THEN IF end.err = OK /\ list.whole
                 THEN golioth_ota_manifest_complete(end.reg) ELSE end.reg
            ELSE registered

-----------------------------------------------------------------------------
(* Downloads. *)

\* Mutant: the offset of the last download goes on.
ota_receive_component_resume(id, path) ==
    component_download' =
        IF path.at THEN [component_download EXCEPT !.id = id, !.name = path.name]
        ELSE [component_download EXCEPT !.id = DOWNLINK_ID_INVALID]

\* The rest of the path is name@version; without "@" what follows is ignored.
ota_receive_component_start(id, path) ==
    component_download' =
        IF path.at THEN [id |-> id, offset |-> 0, name |-> path.name]
        ELSE [component_download EXCEPT !.id = DOWNLINK_ID_INVALID]

\* Mutant: the flash context of a download that broke off is used again.
ota_main_receive_append(data, offset, is_last, fail) ==
    LET written == [flash EXCEPT !.content = Append(@, [data |-> data, offset |-> offset])]
    IN  fail = "none" /\ flash' = written /\ upgrade' = is_last

\* The callback of the example.  Offset 0 begins a new image; the last piece
\* requests the upgrade; each step may fail, and then the rest is left out.
ota_main_receive(data, offset, is_last, fail) ==
    LET opened  == IF offset = 0 THEN NoFlash ELSE flash
        written == [opened EXCEPT !.content = Append(@, [data |-> data, offset |-> offset])]
    IN  \/ /\ fail = "none"
           /\ flash' = written /\ upgrade' = is_last
        \/ /\ fail = "init" /\ offset = 0
           /\ flash' = [flash EXCEPT !.error = TRUE] /\ UNCHANGED upgrade
        \/ /\ fail = "write"
           /\ flash' = [opened EXCEPT !.error = TRUE] /\ UNCHANGED upgrade
        \/ /\ fail = "request" /\ is_last
           /\ flash' = written /\ UNCHANGED upgrade

\* Only a component that was marked gets its data; the version is not compared.
Accepts(name) == name = Main /\ registered.state = DOWNLOADING

golioth_ota_receive_component(data, is_last, fail) ==
    IF Accepts(component_download.name)
    THEN ota_main_receive(data, component_download.offset, is_last, fail)
    ELSE fail = "none" /\ UNCHANGED <<flash, upgrade>>

\* The offset goes on whether or not somebody took the data.
ota_receive_component_data(data, is_last, fail) ==
    IF component_download.id # DOWNLINK_ID_INVALID
    THEN /\ golioth_ota_receive_component(data, is_last, fail)
         /\ component_download' = [component_download EXCEPT !.offset = @ + 1]
    ELSE fail = "none" /\ UNCHANGED <<component_download, flash, upgrade>>

-----------------------------------------------------------------------------
(* The boot loader starts an image that was requested if it is valid. *)

IsImage(content, v) ==
    /\ Len(content) = ImageLen
    /\ \A k \in 1 .. ImageLen : /\ content[k].data.path.name = Main
                                /\ content[k].data.path.ver = v
                                /\ content[k].data.pos = k - 1

Bootable == {v \in {flash.content[i].data.path.ver : i \in DOMAIN flash.content} :
                upgrade /\ ~flash.error /\ IsImage(flash.content, v)}

BootVersion == IF Bootable # {} THEN CHOOSE v \in Bootable : TRUE ELSE running

OtaReset == /\ running' = BootVersion
            /\ registered' = Idle(BootVersion)
            /\ component_download' = NoDownload
            /\ flash' = NoFlash /\ upgrade' = FALSE
=============================================================================
