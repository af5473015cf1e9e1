------------------------------- MODULE Policy -------------------------------
(***************************************************************************)
(* ExecutionPolicy.check: whether a workflow may run as things stand, asked *)
(* when a run is submitted and again by its worker before the start.  The   *)
(* first condition that does not hold names the refusal.                    *)
(***************************************************************************)
EXTENDS RedactedLog

CONSTANTS Environments, Facts

(* What the manifest and the request say: the bundle's ref is one ref.       *)
\* inputs: [text, schema: they satisfy the schema, small: 16 KiB at most]
Request == [environment : Environments, manifest : SUBSET Environments, default : BOOLEAN,
            inputs : [text : Seq(Characters), schema : BOOLEAN, small : BOOLEAN],
            validation : BOOLEAN]

(* What the profile and the host say.  facts are what holds there of what   *)
(* the workflow needs: the workspace, the bundle as it was reviewed, the    *)
(* platform, the repository, the paths, the environment and the commands.   *)
Standing == [granted : BOOLEAN, environments : SUBSET Environments, facts : SUBSET Facts]

\* the requirements of the host in the order of the checks, and their refusals
HostChecks == << <<"workspace", "MISSING_WORKSPACE">>, <<"bundle", "CONTENT_CHANGED">>,
                 <<"platform", "INCOMPATIBLE_PLATFORM">>, <<"repository", "WRONG_REPOSITORY">>,
                 <<"paths", "MISSING_PATH">>, <<"unreserved", "INVALID_PROFILE">>,
                 <<"credentials", "MISSING_CREDENTIAL">>, <<"names", "INVALID_CREDENTIAL">>,
                 <<"commands", "MISSING_COMMAND">> >>

ASSUME PolicyAssumption ==
    /\ "production" \in Environments
    /\ Facts = {HostChecks[i][1] : i \in DOMAIN HostChecks}

(* The conditions in the order of the code, each with its refusal.  An      *)
(* environment whose name is reserved, a credential without a value and     *)
(* names that collide are refused while the environment is put together.    *)
Conditions(request, standing) ==
    << <<request.validation \/ standing.granted, "UNTRUSTED">>,
       <<request.inputs.small, "INPUT_TOO_LARGE">>,
       <<request.inputs.schema, "INVALID_INPUT">>,
       <<request.environment \in request.manifest \cap standing.environments,
         "ENVIRONMENT_DENIED">>,
       <<~(request.environment = "production" /\ request.default),
         "PRODUCTION_PROFILE_REQUIRED">> >>
    \o [i \in DOMAIN HostChecks |-> <<HostChecks[i][1] \in standing.facts, HostChecks[i][2]>>]
    \o << <<\A i \in DOMAIN secrets : ~Holds(request.inputs.text, secrets[i]), "SECRET_INPUT">> >>

Refusal(request, standing) ==
    LET conditions == Conditions(request, standing)
        first == SelectInSeq(conditions, LAMBDA c : ~c[1])
    IN  IF first = 0 THEN "allowed" ELSE conditions[first][2]

Allowed(request, standing) == Refusal(request, standing) = "allowed"
=============================================================================
