------------------------------- MODULE Kanctl -------------------------------
(***************************************************************************)
(* The commands of kanctl, the tool that makes and validates Kanister's    *)
(* resources (pkg/kanctl), with the checks of a profile in pkg/validate.   *)
(* kanctl runs under a context that is never cancelled.                    *)
(***************************************************************************)
EXTENDS Locations

resolveNamespace == Unless("namespace", Call("namespace of the configuration"))
initializeClients == Call("configuration and clients")

---------------------------------------------------------------------------
(* actionset.go *)

\* parseProfile, parseRepositoryServer, parseConfigMaps, parseSecrets: a list
\* of references, each must have its form.
parseReferences == When("badReference", Fail("err"))

parseObjectsFromCmd == When("badName", Fail("err"))

\* "all" lists four kinds one after the other.
parseObjectsFromSelector ==
  When("badSelector", Fail("err"))
  \o When("all", ForEach(LAMBDA k : Call(k), <<"deployments", "deploymentconfigs", "statefulsets", "pvcs">>))
  \o When("oneKind", Call("list of the kind")) \o When("unknownKind", Fail("err"))

parseObjects == parseObjectsFromCmd \o parseObjectsFromSelector

parseOptions == When("badOption", Fail("err"))
parseLabels == When("badLabel", Fail("err"))

extractPerformParams ==
  When("badArgs", Fail("err")) \o resolveNamespace \o parseReferences \o parseObjects
  \o parseOptions \o parseLabels \o Call("annotations and labels of the pods")

waitForKopiaRepositoryServerReady == Await("repositoryServer")

verifyRepositoryServerParams ==
  Get("repositoryServer") \o When("wait", waitForKopiaRepositoryServerReady)
  \o Unless("wait", Check("repositoryServer"))

\* The first object that is not there ends the verification of the objects.
verifyObjectParams == Get("object1") \o Get("object2")

\* Six verifications at once, none of which stops another; any message fails.
verifyParams ==
  ForEach(LAMBDA v : Attempt(v.name, AnyError, v.steps),
    << [name |-> "noBlueprint", steps |-> When("hasBlueprint", Get("blueprint"))],
       [name |-> "noProfile", steps |-> Unless("server", Get("profile"))],
       [name |-> "noServer", steps |-> When("server", verifyRepositoryServerParams)],
       [name |-> "noObject", steps |-> verifyObjectParams],
       [name |-> "noConfigMap", steps |-> Get("configMap")],
       [name |-> "noSecret", steps |-> Get("secret")] >>)
  \o ForEach(LAMBDA f : When(f, Fail("err")),
       <<"noBlueprint", "noProfile", "noServer", "noObject", "noConfigMap", "noSecret">>)

\* The parent must have completed; without an action its name is kept.
ChildActionSet == Check("parent")

\* An action set of its own needs an action and a blueprint.
newActionSet == Unless("action", Fail("err")) \o Unless("hasBlueprint", Fail("err"))

\* A generated name ends in five random characters.
createActionSet == When("named", Make("actionset")) \o Unless("named", Spawn("actionset"))

printActionSet == Call("print the action set")

perform ==
  When("parent", Get("parent") \o ChildActionSet)
  \o Unless("parent", When("noObjects", Fail("err")) \o newActionSet)
  \o When("dryRun", printActionSet \o Return) \o createActionSet

initializeAndPerform ==
  Background(initializeClients \o extractPerformParams
             \o Unless("skipValidation", Scope(verifyParams)) \o perform)

New == {"namespace", "action", "hasBlueprint", "all"}

CreateActionSet ==
  Operation({New, New \ {"namespace"}, New \cup {"server"}, New \cup {"server", "wait"}, New \cup {"named"}, New \cup {"dryRun"},
             New \cup {"noObjects"}, New \ {"action"}, New \ {"hasBlueprint"},
             (New \ {"all"}) \cup {"oneKind", "skipValidation"}}
            \cup {New \cup {bad} : bad \in {"badArgs", "badReference", "badName", "badSelector",
                                            "unknownKind", "badOption", "badLabel"}}
            \cup {{"namespace", "parent", "skipValidation"} \cup n : n \in SUBSET {"named"}},
            {"blueprint", "profile", "object1", "configMap", "secret"},
            {"repositoryServer", "object2", "parent"}, initializeAndPerform)

---------------------------------------------------------------------------
(* pkg/validate *)

ProfileSchema == When("badProfile", Fail("err"))

osSecretFromProfile == Get("secret") \o When("incompleteSecret", Fail("err"))

ProfileBucket == osSecretFromProfile \o GetBucket
ReadAccess == osSecretFromProfile \o GetBucket \o Call("list of the directories")

\* A sample object is written and deleted.
WriteAccess == osSecretFromProfile \o GetBucket \o Do("sample") \o Drop("sample")

---------------------------------------------------------------------------
(* profile.go *)

validateProfile ==
  ProfileSchema
  \o Unless("schemaOnly", When("hasBucket", ProfileBucket \o ReadAccess \o WriteAccess))

getLocationParams == resolveNamespace \o When("fileStore", Fail("err"))

\* The key of a Google service account is read from a file.
constructSecret == When("gcs", Call("read the service key"))

\* The name ends in six random characters.
createSecret == Spawn("secret")
deleteSecret == Drop("secret")
createProfile == Spawn("profile")

createNewProfile ==
  Background(
    When("badArgs", Fail("err")) \o initializeClients \o getLocationParams \o constructSecret
    \o When("dryRun", ProfileSchema \o Call("print the secret and the profile") \o Return)
    \o createSecret
    \o Attempt("invalid", AnyError, validateProfile)
    \o When("invalid", deleteSecret \o Fail("err"))
    \o createProfile)

CreateProfile ==
  Operation({{"s3", "hasBucket"}, {"gcs", "hasBucket", "namespace"}, {"azure"}, {"fileStore"},
             {"azure", "badProfile"}, {"s3", "dryRun"}, {"badArgs"},
             {"s3", "hasBucket", "schemaOnly"}, {"s3", "hasBucket", "incompleteSecret"}},
            {}, {"bucket"}, createNewProfile)

getProfileFromCmd == When("byName", Get("profile")) \o Unless("byName", Call("decode the file"))

performProfileValidation == initializeClients \o getProfileFromCmd \o validateProfile

---------------------------------------------------------------------------
(* blueprint.go, secrets.go, validate.go *)

performBlueprintValidation ==
  When("byName", Fail("err")) \o Call("read the blueprint") \o When("badBlueprint", Fail("err"))

getSecretFromCmd == When("byName", Get("secret")) \o Unless("byName", Call("decode the file"))

performRepoServerSecretsValidation ==
  Call("clients") \o getSecretFromCmd \o When("incompleteSecret", Fail("err"))

extractValidateParams == When("badArgs", Fail("err"))

performValidation ==
  extractValidateParams
  \o When("ofProfile", performProfileValidation \o Return)
  \o When("ofBlueprint", performBlueprintValidation \o Return)
  \o When("ofSecrets", performRepoServerSecretsValidation \o Return)
  \o Fail("err")

Validate ==
  Operation({{"badArgs"}, {}, {"ofProfile", "s3", "hasBucket", "byName"}, {"ofProfile", "azure"},
             {"ofBlueprint"}, {"ofBlueprint", "byName"}, {"ofBlueprint", "badBlueprint"},
             {"ofSecrets"}, {"ofSecrets", "byName"}, {"ofSecrets", "incompleteSecret"}},
            {"secret"}, {"profile", "bucket"}, Background(performValidation))

---------------------------------------------------------------------------
(* repositoryserver.go *)

Secrets == <<"tls", "userAccess", "adminUserAccess", "password", "location", "locationCreds">>

generateRepositoryServerParams == When("badSecretName", Fail("err")) \o resolveNamespace

validateSecretsAndConstructRepositoryServer ==
  initializeClients \o ForEach(LAMBDA s : Get(s), Secrets)

\* When the wait is in vain the message of the first event is shown; without
\* an event there is none.
waitForRepositoryServerReady ==
  Attempt("notReady", AnyError, Await("repositoryServer"))
  \o When("notReady", Get("repositoryServer") \o Call("list of the events")
                      \o When("noEvents", Panic) \o Fail("err"))

createNewRepositoryServer ==
  Background(
    When("badArgs", Fail("err")) \o generateRepositoryServerParams
    \o validateSecretsAndConstructRepositoryServer \o initializeClients
    \o Spawn("repositoryServer") \o When("wait", waitForRepositoryServerReady))

CreateRepositoryServer ==
  Operation({{}, {"namespace", "wait"}, {"wait", "noEvents"}, {"badArgs"}, {"badSecretName"}},
            {"tls", "userAccess", "adminUserAccess", "password", "location"},
            {"locationCreds"}, createNewRepositoryServer)

=============================================================================
