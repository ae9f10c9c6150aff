----------------------------- MODULE MCServices -----------------------------
(* Instances of Services for TLC. *)
EXTENDS Services

\* The application has a boolean and an integer.
MCSettingType == [LED |-> "bool", MODE |-> "int"]

\* Values are the versions that they come from.  In the second version there is
\* a setting that nobody has, one of a type that is skipped and one of the wrong type.
MCCloudSettings ==
    << <<Pair("LED", [type |-> "bool", val |-> 1]), Pair("MODE", [type |-> "int", val |-> 1])>>,
       <<Pair("MODE", [type |-> "bool", val |-> 2]), Pair("FAN", [type |-> "int", val |-> 2]),
         Pair("FAN", [type |-> "list", val |-> 2]), Pair("LED", [type |-> "bool", val |-> 2])>> >>
=============================================================================
