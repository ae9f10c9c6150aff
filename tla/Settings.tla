------------------------------ MODULE Settings ------------------------------
(***************************************************************************)
(* The settings service (settings.c, settings_callbacks.c): a document of   *)
(* the cloud gives values to the application's settings and a version that  *)
(* the device reports.                                                     *)
(***************************************************************************)
EXTENDS Cbor

CONSTANT SettingType      \* the registered settings and the types of their callbacks

ASSUME SettingAssumption == \A n \in DOMAIN SettingType :
                                SettingType[n] \in {"int", "bool", "float", "tstr"}

VARIABLES settings_version,   \* -1 until a document was decoded
          value               \* what the callback of each setting was given last

settingsVars == <<settings_version, value>>

Unset == [type |-> "unset"]

SettingsInit == /\ settings_version = -1
                /\ value = [n \in DOMAIN SettingType |-> Unset]

\* Mutant: the value is given to the callback without a look at its type.
golioth_settings_receive_any(vals, name, v) ==
    IF name \in DOMAIN vals THEN [vals EXCEPT ![name] = v] ELSE vals

\* The callback of a setting gets values of its own type only.
golioth_settings_receive_one(vals, name, v) ==
    IF name \in DOMAIN vals /\ SettingType[name] = v.type
    THEN [vals EXCEPT ![name] = v] ELSE vals

\* Types that no setting can have are skipped.
Supported == {"int", "bool", "float", "tstr"}

\* One turn of the loop over the settings.
ReceiveSetting(vals, pair) ==
    IF pair.value.type \in Supported
    THEN golioth_settings_receive_one(vals, pair.key, pair.value) ELSE vals

\* The "settings" of a document: nil when there are none, which is an error.
settings_decode(item, vals) ==
    CASE item.type = "nil" -> Result(ENOENT, vals)
      [] item.type = "map" -> Result(IF item.whole THEN OK ELSE EBADMSG,
                                     FoldLeft(ReceiveSetting, vals, item.pairs))
      [] OTHER             -> Result(EBADMSG, vals)

\* Mutant: the error of settings_decode is dropped.
DecodeSettingDropped(key, item, st) ==
    IF key = "settings"
    THEN Result(OK, [st EXCEPT !.value = settings_decode(item, st.value).st])
    ELSE IF item.type = "int" THEN Result(OK, [st EXCEPT !.version = item.val])
    ELSE Result(EBADMSG, st)

\* The callbacks of the table: "settings" and "version".
DecodeSetting(key, item, st) ==
    IF key = "settings"
    THEN LET r == settings_decode(item, st.value)
         IN  Result(r.err, [st EXCEPT !.value = r.st])
    ELSE IF item.type = "int" THEN Result(OK, [st EXCEPT !.version = item.val])
    ELSE Result(EBADMSG, st)

SettingsMap == INSTANCE ZcborMap WITH Keys <- <<"settings", "version">>, Decode <- DecodeSetting

\* Each piece of data is decoded by itself and the result is not looked at.
settings_downlink(data) ==
    LET r == SettingsMap!zcbor_map_decode(data, [version |-> settings_version, value |-> value])
    IN  /\ settings_version' = r.st.version
        /\ value' = r.st.value

\* What the device reports: its version, or nil (-1).
settings_uplink == IF settings_version >= 0 THEN settings_version ELSE -1
=============================================================================
