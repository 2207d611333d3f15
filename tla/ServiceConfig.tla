--------------------------- MODULE ServiceConfig ----------------------------
(***************************************************************************)
(* How a submitted service request becomes a stored service:              *)
(* build_services of crates/containr-api/src/domain/services/mod.rs and   *)
(* the helpers it calls.                                                   *)
(*                                                                         *)
(* Every resolver returns the SET of values the request resolves to: a    *)
(* singleton when the field is accepted, the empty set when the code      *)
(* answers with an error.  A rejected field thus empties BuildService.    *)
(*                                                                         *)
(* Data is abstracted to what the rules tell apart.  A service has at     *)
(* most one environment variable, one volume (named alike in every        *)
(* service of a project) and one configuration file; Invalid stands for   *)
(* every value a field's own syntax check refuses (an empty or duplicate  *)
(* key, a relative path, an unknown scope, a text that is too long).      *)
(***************************************************************************)
EXTENDS Naturals, FiniteSets

CONSTANTS
    Absent,     \* the field is not in the JSON document
    Null,       \* the field is null, or an empty string or list
    Invalid,    \* a value the field's own syntax check refuses
    Mask,       \* SECRET_MASK, shown in place of a stored secret
    Texts       \* strings: names, values, domains, paths, schedules, hashes

ServiceTypes == {"web", "private", "worker", "cron"}

(* EnvVarRequest, ServiceRegistryAuthRequest, ServiceMountRequest and      *)
(* BasicAuthRequest, one entry of each list.                               *)
EnvVarRequest == [val : Texts, secret : BOOLEAN \cup {Absent}]

RegistryAuthRequest ==
    [username : Texts \cup {Null}, password : Texts \cup {Absent}]

ServiceMount ==
    [host : Texts \cup {Null}, shared : BOOLEAN, overFile : BOOLEAN]

BasicAuthRequest == [password : Texts \cup {Absent}]

OptionalText == Texts \cup {Absent, Null, Invalid}

EnvVarField == EnvVarRequest \cup {Absent, Null, Invalid}

(* ServiceRequest: the documents that deserialise.  image tells an image   *)
(* from a build of the repository, health and files whether there is a     *)
(* health check or a configuration file.                                   *)
ServiceRequest ==
    [name : Texts, image : BOOLEAN,
     type : ServiceTypes \cup {Absent, Invalid}, port : Nat,
     expose : BOOLEAN \cup {Absent}, domains : (SUBSET Texts) \cup {Absent},
     domain : Texts \cup {Absent}, httpOnly : (SUBSET Texts) \cup {Absent},
     extra : (SUBSET Nat) \cup {Absent, Invalid},
     replicas : Nat \cup {Absent}, deps : (SUBSET Texts) \cup {Absent},
     health : BOOLEAN, registry : RegistryAuthRequest \cup {Absent, Null},
     env : EnvVarField, schedule : OptionalText,
     mounts : ServiceMount \cup {Absent, Null, Invalid},
     notes : OptionalText,
     basic : BasicAuthRequest \cup {Absent, Null, Invalid},
     gate : OptionalText, maps : (SUBSET Nat) \cup {Absent, Invalid},
     files : BOOLEAN \cup {Absent, Invalid}, args : EnvVarField,
     workdir : OptionalText, context : OptionalText,
     command : Texts \cup {Absent, Null}]

(* The four marks are no values of a field, and the mask is a text.        *)
ASSUME ConfigAssumption ==
    /\ Mask \in Texts
    /\ Absent # Null /\ Absent # Invalid /\ Null # Invalid
    /\ \A mark \in {Absent, Null, Invalid} :
          /\ mark \notin Texts /\ mark \notin ServiceTypes
          /\ mark \notin BOOLEAN /\ mark \notin Nat
          /\ mark # {}
          /\ mark # [password |-> Absent]
          /\ \A text \in Texts :
                /\ mark # [username |-> text, password |-> Mask]
                /\ \A secret \in BOOLEAN :
                      mark # [val |-> text, secret |-> secret]

IsPublicHttp(s) == s.type = "web"

ExpectsInboundPort(type) == type \in {"web", "private"}

HttpOnlyDomains(s) == s.httpOnly \cap s.domains

-----------------------------------------------------------------------------
(* Resolvers of single fields                                              *)

(* An absent field keeps the stored value, an empty one clears it, one     *)
(* that fails its syntax check is refused.                                 *)
KeepOrSet(req, old) ==
    IF req = Absent THEN {old} ELSE {req} \ {Invalid}

(* At most 4000 characters. *)
ResolveServiceNotes(req, old) == KeepOrSet(req, old)

(* An absolute path in the container. *)
NormalizeWorkingDir(req, old) == KeepOrSet(req, old)

(* The build context and the Dockerfile: inside the repository. *)
NormalizeRepoRelativePath(req, old) == KeepOrSet(req, old)

(* The command and the entrypoint: nothing to refuse. *)
NormalizeOptionalArgs(req, old) == {IF req = Absent THEN old ELSE req}

(* A known scope. *)
ResolveLoginGate(req, old) == KeepOrSet(req, old)

ResolveServiceType(req, old) ==
    IF req.type # Absent THEN {req.type} \ {Invalid}
    ELSE IF req.expose = TRUE THEN {"web"}
    ELSE IF req.port = 0 THEN {"worker"}
    ELSE IF req.expose = FALSE THEN {"private"}
    ELSE {old}

(* A schedule the cron parser accepts. *)
NormalizeCronSchedule(req, old) == KeepOrSet(req, old)

RequestedDomains(req) ==
    IF req.domain = Absent /\ req.domains = Absent THEN Absent
    ELSE (IF req.domains = Absent THEN {} ELSE req.domains)
         \cup (IF req.domain = Absent THEN {} ELSE {req.domain})

(* Only a web service keeps domains; absent ones are the stored ones. *)
ResolveDomains(req, type, old) ==
    IF type # "web" THEN {}
    ELSE IF RequestedDomains(req) = Absent THEN old.domains
    ELSE RequestedDomains(req)

ResolveHttpOnly(req, type, old, domains) ==
    IF type # "web" THEN {}
    ELSE domains \cap
         (IF req.httpOnly = Absent THEN old.httpOnly \cap domains
          ELSE req.httpOnly)

NormalizeAdditionalPorts(req, old, primary) ==
    {ports \in KeepOrSet(req, old) : 0 \notin ports /\ primary \notin ports}

(* Mutant: a mask without a stored value is taken literally. *)
ResolveMaskedValueUnchecked(req, old) ==
    IF req.val = Mask /\ old # Null /\ (old.secret \/ req.secret = TRUE)
    THEN {[val |-> old.val, secret |-> TRUE]}
    ELSE {[val |-> req.val,
           secret |-> IF req.secret = Absent THEN FALSE ELSE req.secret]}

(* A mask sent for a stored secret keeps the secret, whatever flag comes   *)
(* with it; a mask marked secret restores the stored value, or fails when  *)
(* nothing is stored; anything else is taken as given.                     *)
ResolveMaskedValue(req, old) ==
    LET wasSecret == old # Null /\ old.secret
        secret == IF req.secret # Absent THEN req.secret ELSE wasSecret
    IN  IF req.val # Mask \/ ~(wasSecret \/ secret)
        THEN {[val |-> req.val, secret |-> secret]}
        ELSE IF old = Null THEN {}
        ELSE {[val |-> old.val, secret |-> TRUE]}

(* Keys are trimmed, not empty and distinct, or the request is Invalid. *)
BuildServiceEnvVars(req, old) ==
    IF req \in {Absent, Null, Invalid} THEN KeepOrSet(req, old)
    ELSE ResolveMaskedValue(req, old)

(* The same for build arguments and for the project's own variables. *)
BuildServiceBuildArgs(req, old) == BuildServiceEnvVars(req, old)

BuildAppEnvVars(req, old) == BuildServiceEnvVars(req, old)

(* password is the ciphertext; encryption with the server's key always     *)
(* succeeds here.                                                          *)
BuildServiceRegistryAuth(req, old) ==
    IF req \in {Absent, Null} THEN KeepOrSet(req, old)
    ELSE IF req.username = Null THEN {}
    ELSE IF req.password \notin {Mask, Absent}
    THEN {[username |-> req.username, password |-> req.password]}
    ELSE IF old = Null THEN {}
    ELSE {[username |-> req.username, password |-> old.password]}

(* Mutant: anybody may name a host path. *)
BuildServiceMountsAnyHost(req, old, isAdmin) ==
    IF req \in {Absent, Null} THEN {Null}
    ELSE IF req = Invalid \/ (req.shared /\ req.host # Null) THEN {}
    ELSE {req}

(* Absent mounts are no mounts.  A host path needs an administrator unless *)
(* the same mount already has the same host path.                          *)
BuildServiceMounts(req, old, isAdmin) ==
    IF req \in {Absent, Null} THEN {Null}
    ELSE IF req = Invalid THEN {}
    ELSE IF /\ req.host # Null
            /\ \/ req.shared
               \/ ~isAdmin /\ ~(old # Null /\ old.host = req.host)
    THEN {}
    ELSE {req}

ResolveServiceBasicAuth(req, old) ==
    IF req \in {Absent, Null, Invalid} THEN KeepOrSet(req, old)
    ELSE IF req.password # Absent THEN {req.password}
    ELSE {old} \ {Null}

(* Absent mappings are kept before the rule for cron jobs is reached. *)
ResolvePortMappings(req, old, type) ==
    IF req = Absent THEN {old}
    ELSE IF req = Invalid \/ (type = "cron" /\ req # {}) THEN {}
    ELSE {req}

(* A file inside the volume's path would be hidden by the volume. *)
BuildConfigFiles(files, mounts) ==
    IF files = Invalid \/ (files = TRUE /\ mounts # Null /\ mounts.overFile)
    THEN {}
    ELSE {files}

-----------------------------------------------------------------------------
(* ContainerService::new: the record a request without a stored service of *)
(* its name starts from.                                                   *)
NewService(id, req) ==
    [id |-> id, name |-> req.name, image |-> req.image,
     type |-> "private",
     port |-> req.port, domains |-> {}, httpOnly |-> {}, extra |-> {},
     replicas |-> 1, deps |-> {}, health |-> FALSE, registry |-> Null,
     env |-> Null, schedule |-> Null, mounts |-> Null, notes |-> Null,
     basic |-> Null, gate |-> Null, maps |-> {}, files |-> FALSE,
     args |-> Null, workdir |-> Null, context |-> Null, command |-> Null]

(* The rules that tie a request's fields to the service's type. *)
ShapeRules(req, type, schedule) ==
    LET domains == RequestedDomains(req)
        named   == domains # Absent /\ domains # {}
    IN  /\ type \in {"worker", "cron"} => req.expose # TRUE
        /\ type # "web" => ~named
        /\ ExpectsInboundPort(type) => req.port # 0
        /\ type \in {"worker", "cron"} /\ req.port = 0 => ~req.health
        /\ type = "cron" =>
              /\ req.port = 0
              /\ req.replicas \in {Absent, 1}
              /\ req.extra \in {Absent, {}}
              /\ schedule # Null
        /\ type # "cron" => schedule = Null

(* One turn of the loop of build_services: the stored record `old' of the  *)
(* request's name, or a new one, overwritten field by field.               *)
ApplyRequest(req, old, type, isAdmin) ==
    [id       : {old.id},
     name     : {req.name},
     image    : {req.image},
     type     : {type},
     port     : {req.port},
     domains  : {ResolveDomains(req, type, old)},
     httpOnly : {ResolveHttpOnly(req, type, old,
                                 ResolveDomains(req, type, old))},
     extra    : NormalizeAdditionalPorts(req.extra, old.extra, req.port),
     replicas : {IF req.replicas = Absent THEN 1 ELSE req.replicas},
     deps     : {IF req.deps = Absent THEN {} ELSE req.deps},
     health   : {req.health},
     registry : BuildServiceRegistryAuth(req.registry, old.registry),
     env      : BuildServiceEnvVars(req.env, old.env),
     schedule : NormalizeCronSchedule(req.schedule, old.schedule),
     mounts   : BuildServiceMounts(req.mounts, old.mounts, isAdmin),
     notes    : ResolveServiceNotes(req.notes, old.notes),
     basic    : ResolveServiceBasicAuth(req.basic, old.basic),
     gate     : ResolveLoginGate(req.gate, old.gate),
     maps     : ResolvePortMappings(req.maps, old.maps, type),
     files    : BOOLEAN,    \* checked against the volume below
     args     : BuildServiceBuildArgs(req.args, old.args),
     workdir  : NormalizeWorkingDir(req.workdir, old.workdir),
     context  : NormalizeRepoRelativePath(req.context, old.context),
     command  : NormalizeOptionalArgs(req.command, old.command)]

BuildService(req, old, isAdmin) ==
    {s \in UNION {ApplyRequest(req, old, type, isAdmin) :
                    type \in ResolveServiceType(req, old.type)} :
        /\ ShapeRules(req, s.type, s.schedule)
        /\ s.files \in BuildConfigFiles(
                          IF req.files = Absent THEN old.files ELSE req.files,
                          s.mounts)
        /\ ~(s.basic # Null /\ s.gate # Null)}

-----------------------------------------------------------------------------
(* Reading a service back                                                  *)

MaskSecretValue(secret, val) == IF secret THEN Mask ELSE val

MaskedEnvVar(env) ==
    IF env = Null THEN Null
    ELSE [val |-> MaskSecretValue(env.secret, env.val), secret |-> env.secret]

MaskedRegistry(registry) ==
    IF registry = Null THEN Null
    ELSE [username |-> registry.username, password |-> Mask]

MaskedBasic(basic) == IF basic = Null THEN Null ELSE [password |-> Absent]

(* The settings a client loads and edits: every field, secrets masked. *)
ServiceSettings(s) ==
    [name |-> s.name, image |-> s.image, type |-> s.type, port |-> s.port,
     expose |-> IsPublicHttp(s), domains |-> s.domains, domain |-> Absent,
     httpOnly |-> HttpOnlyDomains(s), extra |-> s.extra,
     replicas |-> s.replicas, deps |-> s.deps, health |-> s.health,
     registry |-> MaskedRegistry(s.registry),
     env |-> MaskedEnvVar(s.env), schedule |-> s.schedule,
     mounts |-> s.mounts, notes |-> s.notes,
     basic |-> MaskedBasic(s.basic),
     gate |-> s.gate, maps |-> s.maps, files |-> s.files,
     args |-> MaskedEnvVar(s.args), workdir |-> s.workdir,
     context |-> s.context, command |-> s.command]

EmptyAsAbsent(v) == IF v = {} THEN Absent ELSE v

NullAsAbsent(v) == IF v = Null THEN Absent ELSE v

(* The request update_service makes up for each service of the project it  *)
(* was not asked to change: it goes through build_services like the rest.  *)
ServiceRequestFromModel(s) ==
    [name     |-> s.name,
     image    |-> s.image,
     type     |-> s.type,
     port     |-> s.port,
     expose   |-> IsPublicHttp(s),
     domains  |-> EmptyAsAbsent(s.domains),
     domain   |-> Absent,
     httpOnly |-> EmptyAsAbsent(HttpOnlyDomains(s)),
     extra    |-> EmptyAsAbsent(s.extra),
     replicas |-> s.replicas,
     deps     |-> EmptyAsAbsent(s.deps),
     health   |-> s.health,
     registry |-> NullAsAbsent(MaskedRegistry(s.registry)),
     env      |-> NullAsAbsent(MaskedEnvVar(s.env)),
     schedule |-> NullAsAbsent(s.schedule),
     mounts   |-> NullAsAbsent(s.mounts),
     notes    |-> s.notes,
     basic    |-> MaskedBasic(s.basic),
     gate     |-> s.gate,
     maps     |-> s.maps,
     files    |-> s.files,
     args     |-> NullAsAbsent(MaskedEnvVar(s.args)),
     workdir  |-> NullAsAbsent(s.workdir),
     context  |-> NullAsAbsent(s.context),
     command  |-> NullAsAbsent(s.command)]

-----------------------------------------------------------------------------
(* Stored services                                                         *)

EnvVar == [val : Texts, secret : BOOLEAN]

RegistryAuth == [username : Texts, password : Texts]

StoredText == Texts \cup {Null}

ContainerService(ids) ==
    [id : ids, name : Texts, image : BOOLEAN, type : ServiceTypes,
     port : Nat, domains : SUBSET Texts, httpOnly : SUBSET Texts,
     extra : SUBSET Nat, replicas : Nat, deps : SUBSET Texts,
     health : BOOLEAN, registry : RegistryAuth \cup {Null},
     env : EnvVar \cup {Null}, schedule : StoredText,
     mounts : ServiceMount \cup {Null}, notes : StoredText,
     basic : StoredText, gate : StoredText, maps : SUBSET Nat,
     files : BOOLEAN, args : EnvVar \cup {Null}, workdir : StoredText,
     context : StoredText, command : StoredText]

(* What the rules of build_services leave in a stored service. *)
Sound(s, isAdmin) ==
    /\ s.httpOnly \subseteq s.domains
    /\ s.domains # {} => s.type = "web"
    /\ ExpectsInboundPort(s.type) => s.port # 0
    /\ s.port = 0 => ~s.health
    /\ 0 \notin s.extra /\ s.port \notin s.extra
    /\ s.type = "cron" <=> s.schedule # Null
    /\ s.type = "cron" => s.port = 0 /\ s.replicas = 1
    /\ s.registry # Null => s.registry.password # Mask
    /\ s.mounts # Null =>
          /\ ~(s.files /\ s.mounts.overFile)
          /\ s.mounts.host # Null => isAdmin /\ ~s.mounts.shared
    /\ ~(s.basic # Null /\ s.gate # Null)
    /\ Invalid \notin {s.maps, s.extra}
    /\ s.deps # Absent /\ s.mounts \notin {Absent, Invalid}
=============================================================================
