----------------------------- MODULE Configuration -----------------------------
(***************************************************************************)
(* configuration.Load(), which main() calls before anything else, and what *)
(* canary.New() makes of the guarantee.                                    *)
(*                                                                         *)
(* A field is told apart only by its kind and by what is read later: Config *)
(* has fields of the kinds string, bool and interface, so the other        *)
(* branches of handleEnvironmentVars() are never taken.                    *)
(***************************************************************************)

VARIABLES
    at,             \* "decode", "env", "new", "started", or "fatal" (log.Fatal in main())
    file,           \* file[f]: what the file says of a field: "none", "valid" or "invalid"
    env,            \* env[f]: the same of the field's environment variable
    value,          \* value[f]: where the value of the field is from; "zero" if from nowhere
    left,           \* the fields the loop has not come to
    reported,       \* the fields whose variable was printed as used
    guarantee       \* guaranteeChangeAfter: "zero" or "configured"

inputs == <<file, env>>
vars == <<at, inputs, value, left, reported, guarantee>>

(* One field of each sort; ServerPort stands for all other strings that are   *)
(* not secret, AuthPassword for those that are.                               *)
Fields == {"ServerPort", "AuthPassword", "GuaranteeChangeAfter", "TopicsWithOwner",
           "CanaryCmdCharacteristicId2DefaultValue"}
Secret == {"AuthPassword"}

Kind(f) ==
    IF f = "TopicsWithOwner" THEN "bool"
    ELSE IF f = "CanaryCmdCharacteristicId2DefaultValue" THEN "interface"
    ELSE "string"

(* What can be got wrong by who writes it: durations and truth values. *)
Inputs == [Fields -> {"none", "valid", "invalid"}]
Parsed == {"GuaranteeChangeAfter", "TopicsWithOwner"}

Init ==
    /\ at = "decode"
    /\ file \in {i \in Inputs : \A f \in Fields : i[f] = "invalid" => f \in Parsed}
    /\ env \in {i \in Inputs : \A f \in Fields : i[f] = "invalid" => f \in Parsed}
    /\ value = [f \in Fields |-> "zero"]
    /\ left = {} /\ reported = {} /\ guarantee = "zero"

(* json.Decode(); a truth value that is none is an error, as is a missing file. *)
Decode ==
    /\ at = "decode"
    /\ \/ /\ file["TopicsWithOwner"] # "invalid"
          /\ at' = "env"
          /\ value' = [f \in Fields |-> IF file[f] = "none" THEN "zero" ELSE "file"]
          /\ left' = Fields
       \/ at' = "fatal" /\ UNCHANGED <<value, left>>
    /\ UNCHANGED <<inputs, reported, guarantee>>

(* One round of handleEnvironmentVars(): no branch is for the kind interface, *)
(* and the error of ParseBool() is dropped.                                   *)
HandleEnvironmentVar(f) ==
    /\ at = "env" /\ f \in left
    /\ left' = left \ {f}
    /\ reported' = IF env[f] = "none" \/ f \in Secret THEN reported ELSE reported \cup {f}
    /\ value' = [value EXCEPT ![f] =
                    IF env[f] = "none" \/ Kind(f) = "interface" THEN @
                    ELSE IF Kind(f) = "bool" /\ env[f] = "invalid" THEN "zero"
                    ELSE "env"]
    /\ UNCHANGED <<at, inputs, guarantee>>

Loaded ==
    /\ at = "env" /\ left = {}
    /\ at' = "new"
    /\ UNCHANGED <<inputs, value, left, reported, guarantee>>

(* canary.New(): the error of ParseDuration() is never looked at. *)
New ==
    /\ at = "new"
    /\ at' = "started"
    /\ LET source == value["GuaranteeChangeAfter"] IN
        guarantee' = IF \/ source = "env" /\ env["GuaranteeChangeAfter"] = "valid"
                        \/ source = "file" /\ file["GuaranteeChangeAfter"] = "valid"
                     THEN "configured" ELSE "zero"
    /\ UNCHANGED <<inputs, value, left, reported>>

Next == Decode \/ (\E f \in Fields : HandleEnvironmentVar(f)) \/ Loaded \/ New

Spec == Init /\ [][Next]_vars

-------------------------------------------------------------------------------
(* config.go:79: Load() "loads config from json in location and used          *)
(* environment variables": a variable with a proper value that is reported as *)
(* used is the value of its field.                                            *)
UsedVariablesTakeEffect ==
    at = "started" => \A f \in reported : env[f] = "valid" => value[f] = "env"
=============================================================================
