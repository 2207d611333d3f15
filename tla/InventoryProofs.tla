--------------------------- MODULE InventoryProofs ---------------------------
(***************************************************************************)
(* The services of all projects, for any projects, clients, edits and      *)
(* requests.  First what build_services makes of one request, and that a   *)
(* stored service goes through it unchanged; then the handlers, one lemma  *)
(* per step, with the rows they carry and the volumes they migrate.        *)
(***************************************************************************)
EXTENDS Inventory, TLAPS

USE ConfigAssumption

-----------------------------------------------------------------------------
(* One request and one service *)

(* What build_services needs of the record it starts from. *)
Stands(old, admin) ==
    /\ old.registry # Null => old.registry.password # Mask
    /\ old.mounts # Null => (old.mounts.host # Null => admin)
    /\ Invalid \notin {old.maps, old.extra}

\* ContainerService::new: a new record has nothing a rule could object to.
LEMMA NewServiceStands ==
  ASSUME NEW ids, NEW id \in ids, NEW req \in ServiceRequest, NEW admin
  PROVE  /\ NewService(id, req) \in ContainerService(ids)
         /\ Stands(NewService(id, req), admin)
         /\ NewService(id, req).id = id
         /\ NewService(id, req).env = Null
<1>1. /\ req.name \in Texts /\ req.image \in BOOLEAN /\ req.port \in Nat
  BY DEF ServiceRequest
<1>2. QED
  BY <1>1 DEF NewService, ContainerService, Stands, ServiceTypes, StoredText

\* resolve_masked_value: what is stored is a variable, and a secret mask was
\* the stored text before.
LEMMA EnvVarResolved ==
  ASSUME NEW req \in EnvVarField, NEW old \in EnvVar \cup {Null},
         NEW env \in BuildServiceEnvVars(req, old)
  PROVE  /\ env \in EnvVar \cup {Null}
         /\ env # Null /\ env.secret /\ env.val = Mask
              => old # Null /\ old.val = Mask
<1>1. CASE req \in {Absent, Null, Invalid}
  BY <1>1 DEF BuildServiceEnvVars, KeepOrSet
<1>2. CASE req \notin {Absent, Null, Invalid}
  <2>1. /\ req.val \in Texts
        /\ req.secret \in BOOLEAN \cup {Absent}
        /\ env \in ResolveMaskedValue(req, old)
    BY <1>2 DEF EnvVarField, EnvVarRequest, BuildServiceEnvVars
  <2>2. old # Null => old.val \in Texts /\ old.secret \in BOOLEAN
    BY DEF EnvVar
  <2> DEFINE was == old # Null /\ old.secret
             secret == IF req.secret # Absent THEN req.secret ELSE was
  <2>3. secret \in BOOLEAN
    BY <2>1, <2>2
  <2>4. CASE req.val # Mask \/ ~(was \/ secret)
    <3>1. env = [val |-> req.val, secret |-> secret]
      BY <2>1, <2>4 DEF ResolveMaskedValue
    <3>2. QED
      BY <2>1, <2>3, <2>4, <3>1 DEF EnvVar
  <2>5. CASE ~(req.val # Mask \/ ~(was \/ secret))
    <3>1. old # Null /\ env = [val |-> old.val, secret |-> TRUE]
      BY <2>1, <2>5 DEF ResolveMaskedValue
    <3>2. QED
      BY <2>2, <3>1 DEF EnvVar
  <2>6. QED
    BY <2>4, <2>5
<1>3. QED
  BY <1>1, <1>2

\* normalize_optional_string and its kind keep a text or clear it.
LEMMA TextResolved ==
  ASSUME NEW req \in OptionalText, NEW old \in StoredText,
         NEW text \in KeepOrSet(req, old)
  PROVE  text \in StoredText
  BY DEF OptionalText, StoredText, KeepOrSet

\* build_service_registry_auth never stores the mask.
LEMMA RegistryResolved ==
  ASSUME NEW req \in RegistryAuthRequest \cup {Absent, Null},
         NEW old \in RegistryAuth \cup {Null},
         old # Null => old.password # Mask,
         NEW auth \in BuildServiceRegistryAuth(req, old)
  PROVE  /\ auth \in RegistryAuth \cup {Null}
         /\ auth # Null => auth.password # Mask
  BY DEF RegistryAuthRequest, RegistryAuth, BuildServiceRegistryAuth, KeepOrSet

\* build_service_mounts: a host path is never shared and needs an
\* administrator.
LEMMA MountResolved ==
  ASSUME NEW req \in ServiceMount \cup {Absent, Null, Invalid},
         NEW old \in ServiceMount \cup {Null}, NEW admin,
         old # Null => (old.host # Null => admin),
         NEW mounts \in BuildServiceMounts(req, old, admin)
  PROVE  /\ mounts \in ServiceMount \cup {Null}
         /\ mounts \notin {Absent, Invalid}
         /\ mounts # Null =>
               (mounts.host # Null => admin /\ ~mounts.shared)
  BY DEF ServiceMount, BuildServiceMounts

\* resolve_service_basic_auth and normalize_optional_args keep their types.
LEMMA SmallFieldsResolved ==
  ASSUME NEW req \in ServiceRequest, NEW ids, NEW old \in ContainerService(ids),
         Invalid \notin {old.maps, old.extra}, NEW type \in ServiceTypes
  PROVE  /\ \A b \in ResolveServiceBasicAuth(req.basic, old.basic) :
               b \in StoredText
         /\ \A t \in NormalizeOptionalArgs(req.command, old.command) :
               t \in StoredText
         /\ \A m \in ResolvePortMappings(req.maps, old.maps, type) :
               m \in SUBSET Nat /\ m # Invalid
         /\ \A e \in NormalizeAdditionalPorts(req.extra, old.extra, req.port) :
               /\ e \in SUBSET Nat /\ e # Invalid
               /\ 0 \notin e /\ req.port \notin e
<1>1. /\ req.basic \in BasicAuthRequest \cup {Absent, Null, Invalid}
      /\ req.command \in Texts \cup {Absent, Null}
      /\ req.maps \in (SUBSET Nat) \cup {Absent, Invalid}
      /\ req.extra \in (SUBSET Nat) \cup {Absent, Invalid}
  BY DEF ServiceRequest
<1>2. /\ old.basic \in StoredText /\ old.command \in StoredText
      /\ old.maps \in SUBSET Nat /\ old.extra \in SUBSET Nat
      /\ old.maps # Invalid /\ old.extra # Invalid
  BY DEF ContainerService
<1>3. \A b \in ResolveServiceBasicAuth(req.basic, old.basic) : b \in StoredText
  BY <1>1, <1>2
     DEF ResolveServiceBasicAuth, KeepOrSet, StoredText, BasicAuthRequest
<1>4. \A t \in NormalizeOptionalArgs(req.command, old.command) : t \in StoredText
  BY <1>1, <1>2 DEF NormalizeOptionalArgs, StoredText
<1>5. \A m \in ResolvePortMappings(req.maps, old.maps, type) :
         m \in SUBSET Nat /\ m # Invalid
  <2>1. \A m \in ResolvePortMappings(req.maps, old.maps, type) :
           m = old.maps \/ (m = req.maps /\ m \notin {Absent, Invalid})
    BY DEF ResolvePortMappings
  <2>2. QED
    BY <1>1, <1>2, <2>1, Zenon
<1>6. \A e \in NormalizeAdditionalPorts(req.extra, old.extra, req.port) :
         /\ e \in SUBSET Nat /\ e # Invalid
         /\ 0 \notin e /\ req.port \notin e
  <2>1. \A e \in NormalizeAdditionalPorts(req.extra, old.extra, req.port) :
           /\ e = old.extra \/ (e = req.extra /\ e \notin {Absent, Invalid})
           /\ 0 \notin e /\ req.port \notin e
    BY Zenon DEF NormalizeAdditionalPorts, KeepOrSet
  <2>2. QED
    BY <1>1, <1>2, <2>1, Zenon
<1>7. QED
  BY <1>3, <1>4, <1>5, <1>6

\* resolve_service_type, requested_service_domains and
\* normalize_http_only_domains keep their types.
LEMMA TypeResolved ==
  ASSUME NEW req \in ServiceRequest, NEW ids, NEW old \in ContainerService(ids),
         NEW type \in ResolveServiceType(req, old.type)
  PROVE  /\ type \in ServiceTypes
         /\ ResolveDomains(req, type, old) \in SUBSET Texts
         /\ ResolveHttpOnly(req, type, old, ResolveDomains(req, type, old))
               \in SUBSET ResolveDomains(req, type, old)
<1>1. /\ req.type \in ServiceTypes \cup {Absent, Invalid}
      /\ req.domains \in (SUBSET Texts) \cup {Absent}
      /\ req.domain \in Texts \cup {Absent}
      /\ old.type \in ServiceTypes /\ old.domains \in SUBSET Texts
  BY DEF ServiceRequest, ContainerService
<1>2. type \in ServiceTypes
  BY <1>1 DEF ResolveServiceType, ServiceTypes
<1>3. ResolveDomains(req, type, old) \in SUBSET Texts
  <2>1. \/ ResolveDomains(req, type, old) = {}
        \/ ResolveDomains(req, type, old) = old.domains
        \/ ResolveDomains(req, type, old) = RequestedDomains(req)
           /\ RequestedDomains(req) # Absent
    BY DEF ResolveDomains
  <2>2. req.domains = Absent \/ req.domains \in SUBSET Texts
    BY <1>1, Zenon
  <2>3. RequestedDomains(req) # Absent => RequestedDomains(req) \in SUBSET Texts
    BY <1>1, <2>2 DEF RequestedDomains
  <2>4. QED
    BY <1>1, <2>1, <2>3
<1>4. ResolveHttpOnly(req, type, old, ResolveDomains(req, type, old))
         \in SUBSET ResolveDomains(req, type, old)
  BY DEF ResolveHttpOnly
<1>5. QED
  BY <1>2, <1>3, <1>4

\* build_services: what it accepts is a service that obeys every rule, with
\* the id and the name it was given.  A secret with the mask as its value had
\* the mask's text as its value before.
LEMMA BuildServiceSound ==
  ASSUME NEW req \in ServiceRequest, NEW ids, NEW old \in ContainerService(ids),
         NEW admin \in BOOLEAN, Stands(old, admin),
         NEW s \in BuildService(req, old, admin)
  PROVE  /\ s \in ContainerService(ids)
         /\ Sound(s, admin)
         /\ s.id = old.id
         /\ s.env # Null /\ s.env.secret /\ s.env.val = Mask
              => old.env # Null /\ old.env.val = Mask
<1>1. PICK type \in ResolveServiceType(req, old.type) :
         s \in ApplyRequest(req, old, type, admin)
  BY DEF BuildService
<1>2. /\ ShapeRules(req, s.type, s.schedule)
      /\ s.files \in BuildConfigFiles(
                        IF req.files = Absent THEN old.files ELSE req.files,
                        s.mounts)
      /\ ~(s.basic # Null /\ s.gate # Null)
  BY DEF BuildService
<1>3. /\ type \in ServiceTypes
      /\ ResolveDomains(req, type, old) \in SUBSET Texts
      /\ ResolveHttpOnly(req, type, old, ResolveDomains(req, type, old))
            \in SUBSET ResolveDomains(req, type, old)
  BY TypeResolved
<1>4. /\ s.id = old.id /\ s.name = req.name /\ s.image = req.image
      /\ s.type = type /\ s.port = req.port
      /\ s.domains = ResolveDomains(req, type, old)
      /\ s.httpOnly = ResolveHttpOnly(req, type, old,
                                      ResolveDomains(req, type, old))
      /\ s.replicas = (IF req.replicas = Absent THEN 1 ELSE req.replicas)
      /\ s.deps = (IF req.deps = Absent THEN {} ELSE req.deps)
      /\ s.health = req.health
      /\ s.files \in BOOLEAN
  BY <1>1 DEF ApplyRequest
<1>5. /\ s.extra \in NormalizeAdditionalPorts(req.extra, old.extra, req.port)
      /\ s.registry \in BuildServiceRegistryAuth(req.registry, old.registry)
      /\ s.env \in BuildServiceEnvVars(req.env, old.env)
      /\ s.schedule \in KeepOrSet(req.schedule, old.schedule)
      /\ s.mounts \in BuildServiceMounts(req.mounts, old.mounts, admin)
      /\ s.notes \in KeepOrSet(req.notes, old.notes)
      /\ s.basic \in ResolveServiceBasicAuth(req.basic, old.basic)
      /\ s.gate \in KeepOrSet(req.gate, old.gate)
      /\ s.maps \in ResolvePortMappings(req.maps, old.maps, type)
      /\ s.args \in BuildServiceEnvVars(req.args, old.args)
      /\ s.workdir \in KeepOrSet(req.workdir, old.workdir)
      /\ s.context \in KeepOrSet(req.context, old.context)
      /\ s.command \in NormalizeOptionalArgs(req.command, old.command)
  BY <1>1 DEF ApplyRequest, NormalizeCronSchedule, ResolveServiceNotes,
              ResolveLoginGate, BuildServiceBuildArgs, NormalizeWorkingDir,
              NormalizeRepoRelativePath
<1>6. /\ req.name \in Texts /\ req.image \in BOOLEAN /\ req.port \in Nat
      /\ req.health \in BOOLEAN /\ req.replicas \in Nat \cup {Absent}
      /\ req.deps = Absent \/ req.deps \in SUBSET Texts
      /\ old.id \in ids
  BY DEF ServiceRequest, ContainerService
<1>7. /\ s.env \in EnvVar \cup {Null}
      /\ s.args \in EnvVar \cup {Null}
      /\ s.env # Null /\ s.env.secret /\ s.env.val = Mask
           => old.env # Null /\ old.env.val = Mask
  <2>1. /\ req.env \in EnvVarField /\ req.args \in EnvVarField
        /\ old.env \in EnvVar \cup {Null} /\ old.args \in EnvVar \cup {Null}
    BY DEF ServiceRequest, ContainerService
  <2>2. QED
    BY <1>5, <2>1, EnvVarResolved
<1>8. {s.schedule, s.notes, s.gate, s.workdir, s.context} \subseteq StoredText
  <2>1. /\ {req.schedule, req.notes, req.gate, req.workdir, req.context}
              \subseteq OptionalText
        /\ {old.schedule, old.notes, old.gate, old.workdir, old.context}
              \subseteq StoredText
    BY DEF ServiceRequest, ContainerService
  <2>2. QED
    BY <1>5, <2>1, TextResolved
<1>9. /\ s.registry \in RegistryAuth \cup {Null}
      /\ s.registry # Null => s.registry.password # Mask
  <2>1. /\ req.registry \in RegistryAuthRequest \cup {Absent, Null}
        /\ old.registry \in RegistryAuth \cup {Null}
        /\ old.registry # Null => old.registry.password # Mask
    BY DEF ServiceRequest, ContainerService, Stands
  <2>2. QED
    BY <1>5, <2>1, RegistryResolved
<1>10. /\ s.mounts \in ServiceMount \cup {Null}
       /\ s.mounts \notin {Absent, Invalid}
       /\ s.mounts # Null =>
             (s.mounts.host # Null => admin /\ ~s.mounts.shared)
  <2>1. /\ req.mounts \in ServiceMount \cup {Absent, Null, Invalid}
        /\ old.mounts \in ServiceMount \cup {Null}
        /\ old.mounts # Null => (old.mounts.host # Null => admin)
    BY DEF ServiceRequest, ContainerService, Stands
  <2>2. QED
    BY <1>5, <2>1, MountResolved
<1>11. /\ s.basic \in StoredText /\ s.command \in StoredText
       /\ s.maps \in SUBSET Nat /\ s.maps # Invalid
       /\ s.extra \in SUBSET Nat /\ s.extra # Invalid
       /\ 0 \notin s.extra /\ s.port \notin s.extra
  <2>1. Invalid \notin {old.maps, old.extra}
    BY DEF Stands
  <2>2. QED
    BY <1>3, <1>4, <1>5, <2>1, SmallFieldsResolved
<1>12. /\ s.httpOnly \in SUBSET Texts /\ s.httpOnly \subseteq s.domains
       /\ s.domains \in SUBSET Texts
       /\ s.replicas \in Nat /\ s.deps \in SUBSET Texts
       /\ s.domains # {} => s.type = "web"
       /\ s.deps # Absent
  BY <1>3, <1>4, <1>6 DEF ResolveDomains
<1>13. s \in ContainerService(ids)
  <2>1. s = [id |-> s.id, name |-> s.name, image |-> s.image, type |-> s.type,
             port |-> s.port, domains |-> s.domains, httpOnly |-> s.httpOnly,
             extra |-> s.extra, replicas |-> s.replicas, deps |-> s.deps,
             health |-> s.health, registry |-> s.registry, env |-> s.env,
             schedule |-> s.schedule, mounts |-> s.mounts, notes |-> s.notes,
             basic |-> s.basic, gate |-> s.gate, maps |-> s.maps,
             files |-> s.files, args |-> s.args, workdir |-> s.workdir,
             context |-> s.context, command |-> s.command]
    BY <1>1 DEF ApplyRequest
  <2>2. QED
    BY <1>3, <1>4, <1>6, <1>7, <1>8, <1>9, <1>10, <1>11, <1>12, <2>1
       DEF ContainerService
<1>14. Sound(s, admin)
  <2>1. s.mounts # Null => ~(s.files /\ s.mounts.overFile)
    BY <1>2, <1>4 DEF BuildConfigFiles
  <2>2. /\ ExpectsInboundPort(s.type) => s.port # 0
        /\ s.port = 0 => ~s.health
        /\ s.type = "cron" <=> s.schedule # Null
        /\ s.type = "cron" => s.port = 0 /\ s.replicas = 1
    BY <1>2, <1>3, <1>4 DEF ShapeRules, ExpectsInboundPort, ServiceTypes
  <2>3. QED
    BY <1>2, <1>9, <1>10, <1>11, <1>12, <2>1, <2>2 DEF Sound
<1>15. QED
  BY <1>4, <1>7, <1>13, <1>14

\* A service that obeys the rules is something to start from.
LEMMA SoundStands ==
  ASSUME NEW s, NEW admin, Sound(s, admin)
  PROVE  Stands(s, admin)
  BY DEF Sound, Stands

\* mask_secret_value and resolve_masked_value: a variable that is read back
\* and sent again is the stored one.
LEMMA EnvVarReturns ==
  ASSUME NEW env \in EnvVar \cup {Null}
  PROVE  BuildServiceEnvVars(NullAsAbsent(MaskedEnvVar(env)), env) = {env}
<1>1. CASE env = Null
  BY <1>1 DEF BuildServiceEnvVars, NullAsAbsent, MaskedEnvVar, KeepOrSet
<1>2. CASE env # Null
  <2>1. /\ env \in EnvVar /\ env.val \in Texts /\ env.secret \in BOOLEAN
        /\ env = [val |-> env.val, secret |-> env.secret]
    BY <1>2 DEF EnvVar
  <2> DEFINE shown == IF env.secret THEN Mask ELSE env.val
             req == [val |-> shown, secret |-> env.secret]
  <2>2. shown \in Texts
    BY <2>1
  <2>3. req \notin {Absent, Null, Invalid}
    BY <2>1, <2>2
  <2>4. NullAsAbsent(MaskedEnvVar(env)) = req
    BY <1>2, <2>3 DEF NullAsAbsent, MaskedEnvVar, MaskSecretValue
  <2>5. BuildServiceEnvVars(req, env) = ResolveMaskedValue(req, env)
    BY <2>3 DEF BuildServiceEnvVars
  <2>6. req.val = shown /\ req.secret = env.secret /\ req.secret # Absent
    BY <2>1
  <2>7. ResolveMaskedValue(req, env) = {env}
    <3> HIDE DEF req
    <3>1. CASE env.secret = TRUE
      BY <1>2, <2>1, <2>6, <3>1 DEF ResolveMaskedValue
    <3>2. CASE env.secret = FALSE
      BY <1>2, <2>1, <2>6, <3>2 DEF ResolveMaskedValue
    <3>3. QED
      BY <2>1, <3>1, <3>2
  <2>8. QED
    BY <2>4, <2>5, <2>7
<1>3. QED
  BY <1>1, <1>2

\* The registry's mask brings the stored password back.
LEMMA RegistryReturns ==
  ASSUME NEW auth \in RegistryAuth \cup {Null}
  PROVE  BuildServiceRegistryAuth(NullAsAbsent(MaskedRegistry(auth)), auth)
            = {auth}
<1>1. CASE auth = Null
  BY <1>1 DEF BuildServiceRegistryAuth, NullAsAbsent, MaskedRegistry, KeepOrSet
<1>2. CASE auth # Null
  <2>1. /\ auth.username \in Texts /\ auth.password \in Texts
        /\ auth = [username |-> auth.username, password |-> auth.password]
    BY <1>2 DEF RegistryAuth
  <2> DEFINE req == [username |-> auth.username, password |-> Mask]
  <2>2. req \notin {Absent, Null}
    BY <2>1
  <2>3. NullAsAbsent(MaskedRegistry(auth)) = req
    BY <1>2, <2>2 DEF NullAsAbsent, MaskedRegistry
  <2>4. req.username = auth.username /\ req.password = Mask
    OBVIOUS
  <2>5. auth.username # Null
    BY <2>1
  <2>6. BuildServiceRegistryAuth(req, auth) = {auth}
    <3> HIDE DEF req
    <3>1. QED
      BY <1>2, <2>1, <2>2, <2>4, <2>5 DEF BuildServiceRegistryAuth
  <2>7. QED
    BY <2>3, <2>6
<1>3. QED
  BY <1>1, <1>2

\* The other fields of service_request_from_model, one by one.
LEMMA FieldsReturn ==
  ASSUME NEW ids, NEW s \in ContainerService(ids), NEW admin \in BOOLEAN,
         Sound(s, admin)
  PROVE  /\ NormalizeAdditionalPorts(EmptyAsAbsent(s.extra), s.extra, s.port)
               = {s.extra}
         /\ KeepOrSet(NullAsAbsent(s.schedule), s.schedule) = {s.schedule}
         /\ BuildServiceMounts(NullAsAbsent(s.mounts), s.mounts, admin)
               = {s.mounts}
         /\ KeepOrSet(s.notes, s.notes) = {s.notes}
         /\ ResolveServiceBasicAuth(MaskedBasic(s.basic), s.basic) = {s.basic}
         /\ KeepOrSet(s.gate, s.gate) = {s.gate}
         /\ KeepOrSet(NullAsAbsent(s.workdir), s.workdir) = {s.workdir}
         /\ KeepOrSet(NullAsAbsent(s.context), s.context) = {s.context}
         /\ NormalizeOptionalArgs(NullAsAbsent(s.command), s.command)
               = {s.command}
         /\ ResolvePortMappings(s.maps, s.maps, s.type) \subseteq {s.maps}
         /\ s.type # "cron" =>
               ResolvePortMappings(s.maps, s.maps, s.type) = {s.maps}
<1>1. /\ {s.schedule, s.notes, s.basic, s.gate, s.workdir, s.context,
          s.command} \subseteq StoredText
      /\ s.mounts \in ServiceMount \cup {Null}
  BY DEF ContainerService
<1>2. /\ s.extra # Invalid /\ s.maps # Invalid
      /\ s.mounts \notin {Absent, Invalid}
      /\ 0 \notin s.extra /\ s.port \notin s.extra
      /\ s.mounts # Null => (s.mounts.host # Null => admin /\ ~s.mounts.shared)
  BY DEF Sound
<1>3. NormalizeAdditionalPorts(EmptyAsAbsent(s.extra), s.extra, s.port)
        = {s.extra}
  BY <1>2 DEF NormalizeAdditionalPorts, EmptyAsAbsent, KeepOrSet
<1>4. \A text \in StoredText : /\ KeepOrSet(text, text) = {text}
                               /\ KeepOrSet(NullAsAbsent(text), text) = {text}
  BY DEF StoredText, KeepOrSet, NullAsAbsent
<1>5. BuildServiceMounts(NullAsAbsent(s.mounts), s.mounts, admin) = {s.mounts}
  <2>1. CASE s.mounts = Null
    BY <2>1 DEF BuildServiceMounts, NullAsAbsent
  <2>2. CASE s.mounts # Null
    BY <1>1, <1>2, <2>2 DEF BuildServiceMounts, NullAsAbsent
  <2>3. QED
    BY <2>1, <2>2
<1>6. ResolveServiceBasicAuth(MaskedBasic(s.basic), s.basic) = {s.basic}
  <2>1. CASE s.basic = Null
    BY <2>1 DEF ResolveServiceBasicAuth, MaskedBasic, KeepOrSet
  <2>2. CASE s.basic # Null
    BY <2>2 DEF ResolveServiceBasicAuth, MaskedBasic
  <2>3. QED
    BY <2>1, <2>2
<1>7. NormalizeOptionalArgs(NullAsAbsent(s.command), s.command) = {s.command}
  BY DEF NormalizeOptionalArgs, NullAsAbsent
<1>8. /\ ResolvePortMappings(s.maps, s.maps, s.type) \subseteq {s.maps}
      /\ s.type # "cron" =>
            ResolvePortMappings(s.maps, s.maps, s.type) = {s.maps}
  BY <1>2 DEF ResolvePortMappings
<1>9. QED
  BY <1>1, <1>3, <1>4, <1>5, <1>6, <1>7, <1>8

\* service_request_from_model and build_services: a stored service that is
\* read back and built again is itself, if it is accepted at all; one that is
\* no cron job is accepted.
LEMMA RoundTrip ==
  ASSUME NEW ids, NEW s \in ContainerService(ids), NEW admin \in BOOLEAN,
         Sound(s, admin)
  PROVE  /\ BuildService(ServiceRequestFromModel(s), s, admin) \subseteq {s}
         /\ s.type # "cron" =>
               BuildService(ServiceRequestFromModel(s), s, admin) = {s}
<1> DEFINE req == ServiceRequestFromModel(s)
<1>1. /\ req.name = s.name /\ req.image = s.image /\ req.type = s.type
      /\ req.port = s.port /\ req.expose = IsPublicHttp(s)
      /\ req.domains = EmptyAsAbsent(s.domains) /\ req.domain = Absent
      /\ req.httpOnly = EmptyAsAbsent(HttpOnlyDomains(s))
      /\ req.replicas = s.replicas /\ req.deps = EmptyAsAbsent(s.deps)
      /\ req.health = s.health /\ req.files = s.files
  BY DEF ServiceRequestFromModel
<1>2. /\ req.extra = EmptyAsAbsent(s.extra)
      /\ req.registry = NullAsAbsent(MaskedRegistry(s.registry))
      /\ req.env = NullAsAbsent(MaskedEnvVar(s.env))
      /\ req.schedule = NullAsAbsent(s.schedule)
      /\ req.mounts = NullAsAbsent(s.mounts)
      /\ req.notes = s.notes /\ req.basic = MaskedBasic(s.basic)
      /\ req.gate = s.gate /\ req.maps = s.maps
      /\ req.args = NullAsAbsent(MaskedEnvVar(s.args))
      /\ req.workdir = NullAsAbsent(s.workdir)
      /\ req.context = NullAsAbsent(s.context)
      /\ req.command = NullAsAbsent(s.command)
  BY DEF ServiceRequestFromModel
<1> HIDE DEF req
<1>3. /\ s.type \in ServiceTypes /\ s.replicas \in Nat /\ s.files \in BOOLEAN
      /\ s.port \in Nat
      /\ s.env \in EnvVar \cup {Null} /\ s.args \in EnvVar \cup {Null}
      /\ s.registry \in RegistryAuth \cup {Null}
  BY DEF ContainerService
<1>4. ResolveServiceType(req, s.type) = {s.type}
  BY <1>1, <1>3 DEF ResolveServiceType
<1>5. /\ s.httpOnly \subseteq s.domains
      /\ s.domains # {} => s.type = "web"
  BY DEF Sound
<1>6. RequestedDomains(req) = EmptyAsAbsent(s.domains)
  <2>1. CASE s.domains = {} \/ s.domains = Absent
    BY <1>1, <2>1 DEF RequestedDomains, EmptyAsAbsent
  <2>2. CASE s.domains # {} /\ s.domains # Absent
    BY <1>1, <2>2 DEF RequestedDomains, EmptyAsAbsent
  <2>3. QED
    BY <2>1, <2>2
<1>7. ResolveDomains(req, s.type, s) = s.domains
  BY <1>5, <1>6 DEF ResolveDomains, EmptyAsAbsent
<1>8. ResolveHttpOnly(req, s.type, s, s.domains) = s.httpOnly
  <2>1. HttpOnlyDomains(s) = s.httpOnly
    BY <1>5 DEF HttpOnlyDomains
  <2>2. CASE s.type # "web"
    BY <1>5, <2>2 DEF ResolveHttpOnly
  <2>3. CASE s.type = "web"
    <3>1. req.httpOnly = Absent \/ req.httpOnly = s.httpOnly
      BY <1>1, <2>1 DEF EmptyAsAbsent
    <3>2. QED
      BY <1>5, <2>3, <3>1 DEF ResolveHttpOnly
  <2>4. QED
    BY <2>2, <2>3
<1>9. /\ (IF req.replicas = Absent THEN 1 ELSE req.replicas) = s.replicas
      /\ (IF req.deps = Absent THEN {} ELSE req.deps) = s.deps
      /\ (IF req.files = Absent THEN s.files ELSE req.files) = s.files
  <2>1. s.deps # Absent /\ s.replicas # Absent
    BY <1>3 DEF Sound
  <2>2. QED
    BY <1>1, <2>1 DEF EmptyAsAbsent
<1>10. /\ BuildServiceEnvVars(req.env, s.env) = {s.env}
       /\ BuildServiceBuildArgs(req.args, s.args) = {s.args}
       /\ BuildServiceRegistryAuth(req.registry, s.registry) = {s.registry}
  BY <1>2, <1>3, EnvVarReturns, RegistryReturns DEF BuildServiceBuildArgs
<1>11. /\ NormalizeAdditionalPorts(req.extra, s.extra, req.port) = {s.extra}
       /\ NormalizeCronSchedule(req.schedule, s.schedule) = {s.schedule}
       /\ BuildServiceMounts(req.mounts, s.mounts, admin) = {s.mounts}
       /\ ResolveServiceNotes(req.notes, s.notes) = {s.notes}
       /\ ResolveServiceBasicAuth(req.basic, s.basic) = {s.basic}
       /\ ResolveLoginGate(req.gate, s.gate) = {s.gate}
       /\ NormalizeWorkingDir(req.workdir, s.workdir) = {s.workdir}
       /\ NormalizeRepoRelativePath(req.context, s.context) = {s.context}
       /\ NormalizeOptionalArgs(req.command, s.command) = {s.command}
       /\ ResolvePortMappings(req.maps, s.maps, s.type) \subseteq {s.maps}
       /\ s.type # "cron" =>
             ResolvePortMappings(req.maps, s.maps, s.type) = {s.maps}
  <2>1. /\ NormalizeAdditionalPorts(EmptyAsAbsent(s.extra), s.extra, s.port)
              = {s.extra}
        /\ KeepOrSet(NullAsAbsent(s.schedule), s.schedule) = {s.schedule}
        /\ BuildServiceMounts(NullAsAbsent(s.mounts), s.mounts, admin)
              = {s.mounts}
        /\ KeepOrSet(s.notes, s.notes) = {s.notes}
        /\ ResolveServiceBasicAuth(MaskedBasic(s.basic), s.basic) = {s.basic}
        /\ KeepOrSet(s.gate, s.gate) = {s.gate}
        /\ KeepOrSet(NullAsAbsent(s.workdir), s.workdir) = {s.workdir}
        /\ KeepOrSet(NullAsAbsent(s.context), s.context) = {s.context}
        /\ NormalizeOptionalArgs(NullAsAbsent(s.command), s.command)
              = {s.command}
        /\ ResolvePortMappings(s.maps, s.maps, s.type) \subseteq {s.maps}
        /\ s.type # "cron" =>
              ResolvePortMappings(s.maps, s.maps, s.type) = {s.maps}
    BY FieldsReturn, Zenon
  <2>2. QED
    BY <1>1, <1>2, <2>1
       DEF NormalizeCronSchedule, ResolveServiceNotes, ResolveLoginGate,
           NormalizeWorkingDir, NormalizeRepoRelativePath
<1>12. ASSUME NEW t \in BuildService(req, s, admin)
       PROVE  t = s
  <2>1. t \in ApplyRequest(req, s, s.type, admin)
    BY <1>4 DEF BuildService
  <2>2. /\ t.id = s.id /\ t.name = s.name /\ t.image = s.image
        /\ t.type = s.type /\ t.port = s.port /\ t.domains = s.domains
        /\ t.httpOnly = s.httpOnly /\ t.replicas = s.replicas
        /\ t.deps = s.deps /\ t.health = s.health
    BY <1>1, <1>7, <1>8, <1>9, <2>1 DEF ApplyRequest
  <2>3. /\ t.extra = s.extra /\ t.registry = s.registry /\ t.env = s.env
        /\ t.schedule = s.schedule /\ t.mounts = s.mounts
        /\ t.notes = s.notes /\ t.basic = s.basic /\ t.gate = s.gate
        /\ t.maps = s.maps /\ t.args = s.args /\ t.workdir = s.workdir
        /\ t.context = s.context /\ t.command = s.command
    BY <1>10, <1>11, <2>1 DEF ApplyRequest
  <2>4. t.files = s.files
    BY <1>9, <2>3 DEF BuildService, BuildConfigFiles
  <2>5. QED
    BY <2>1, <2>2, <2>3, <2>4 DEF ApplyRequest, ContainerService
<1>13. ASSUME s.type # "cron"
       PROVE  s \in BuildService(req, s, admin)
  <2>1. s \in ApplyRequest(req, s, s.type, admin)
    BY <1>1, <1>7, <1>8, <1>9, <1>10, <1>11, <1>13
       DEF ApplyRequest, ContainerService
  <2>2. ShapeRules(req, s.type, s.schedule)
    <3>1. s.schedule = Null
      BY <1>13 DEF Sound
    <3>2. ExpectsInboundPort(s.type) => req.port # 0
      BY <1>1 DEF Sound
    <3>3. s.type \in {"worker", "cron"} /\ req.port = 0 => ~req.health
      BY <1>1 DEF Sound
    <3>4. s.type = "worker" => req.expose # TRUE
      BY <1>1 DEF IsPublicHttp
    <3>5. s.type # "web" => ~(RequestedDomains(req) # Absent
                               /\ RequestedDomains(req) # {})
      BY <1>5, <1>6 DEF EmptyAsAbsent
    <3>6. QED
      BY <1>13, <3>1, <3>2, <3>3, <3>4, <3>5 DEF ShapeRules
  <2>3. s.files \in BuildConfigFiles(s.files, s.mounts)
    BY <1>3 DEF BuildConfigFiles, Sound
  <2>4. ~(s.basic # Null /\ s.gate # Null)
    BY DEF Sound
  <2>5. QED
    BY <1>4, <1>9, <2>1, <2>2, <2>3, <2>4 DEF BuildService
<1>14. QED
  BY <1>12, <1>13 DEF req

-----------------------------------------------------------------------------
(* The handlers *)

USE InventoryAssumption

(* A handler that has moved on with the rows it had. *)
Continues(r, q) ==
    /\ r.op = q.op /\ r.app = q.app /\ r.id = q.id /\ r.prev = q.prev
    /\ r.next = q.next /\ r.deploy = q.deploy /\ r.fresh = q.fresh

\* An idle handler is no handler at work.
LEMMA IdleIsIdle ==
  /\ Idle.pc = "idle"
  /\ \A r \in Handlers : r.pc # "idle" /\ r # Idle
  BY DEF Idle, Handler, Handlers

\* Every part of the invariant but the last, for a step of one handler that
\* leaves the database alone: it stops, or goes on with the rows it had.
LEMMA HandlerStep ==
  ASSUME IInv, NEW c \in Busy, NEW r,
         UNCHANGED <<db, isAdmin, started, writes, drawn, ghosts>>,
         h' = [h EXCEPT ![c] = r],
         priv' \in [Ids -> 0 .. Partial], shrd' \in [Apps -> 0 .. Partial],
         \/ r = Idle
         \/ /\ r \in Handlers /\ Continues(r, h[c]) /\ HandlerPlan(r)
            /\ r.pc \in {"apply", "save"}
            /\ h[c].fresh => DomainsFree(h[c].app, h[c].next)
            /\ h[c].pc # "queue"
  PROVE  /\ TypeOK' /\ RowsInv' /\ HandlersInv' /\ NamesDisjoint'
         /\ FreshInv' /\ SecretsStayReal'
<1>0. /\ c \in Clients /\ TypeOK /\ h \in [Clients -> Handlers \cup {Idle}]
  BY DEF IInv, TypeOK, Busy
<1>1. TypeOK'
  BY <1>0 DEF TypeOK, ghosts
<1>2. /\ \A k \in Clients \ {c} : h'[k] = h[k]
      /\ h'[c] = r
      /\ Busy' \ {c} = Busy \ {c}
      /\ Present' = Present /\ db' = db /\ isAdmin' = isAdmin
      /\ drawn' = drawn /\ raced' = raced
  BY <1>0 DEF Busy, ghosts, Present, ProjectsIn
<1>3. c \in Busy' => /\ r \in Handlers /\ Continues(r, h[c]) /\ HandlerPlan(r)
                     /\ r.pc \in {"apply", "save"}
                     /\ h[c].fresh => DomainsFree(h[c].app, h[c].next)
                     /\ h[c].pc # "queue"
  BY <1>2, IdleIsIdle DEF Busy
<1>4. RowsInv'
  BY <1>2 DEF IInv, RowsInv, RowOK
<1>5. NamesDisjoint'
  BY <1>2 DEF IInv, NamesDisjoint
<1>6. HandlersInv'
  <2> SUFFICES ASSUME NEW k \in Busy'
               PROVE  HandlerRows(h[k])' /\ HandlerPlan(h[k])'
    BY DEF HandlersInv
  <2>1. CASE k # c
    BY <1>2, <2>1 DEF IInv, HandlersInv, HandlerRows, RowOK, HandlerPlan, Busy
  <2>2. CASE k = c
    <3>1. HandlerRows(h[c])
      BY DEF IInv, HandlersInv
    <3>2. HandlerRows(h[k])'
      BY <1>2, <1>3, <2>2, <3>1 DEF HandlerRows, RowOK, Continues
    <3>3. HandlerPlan(h[k])'
      BY <1>2, <1>3, <2>2 DEF HandlerPlan
    <3>4. QED
      BY <3>2, <3>3
  <2>3. QED
    BY <2>1, <2>2
<1>7. FreshInv'
  <2> SUFFICES ASSUME NEW k \in Busy', h'[k].fresh
               PROVE  /\ h'[k].pc # "queue" => PortsFree(h[k].app, h[k].next)'
                      /\ h'[k].pc \in {"apply", "save"}
                           => DomainsFree(h[k].app, h[k].next)'
                      /\ ~raced' /\ h'[k].op # "create" =>
                           \A b \in Present' \ {h'[k].app} :
                               Apart(h'[k].prev, db'[b])
    BY DEF FreshInv
  <2>1. CASE k # c
    BY <1>2, <2>1 DEF IInv, FreshInv, PortsFree, DomainsFree, Busy
  <2>2. CASE k = c
    <3>1. /\ h'[k].app = h[c].app /\ h'[k].next = h[c].next
          /\ h'[k].prev = h[c].prev /\ h'[k].op = h[c].op
          /\ h[c].fresh /\ h[c].pc # "queue"
          /\ DomainsFree(h[c].app, h[c].next)
      BY <1>2, <1>3, <2>2 DEF Continues
    <3>2. /\ PortsFree(h[c].app, h[c].next)
          /\ ~raced /\ h[c].op # "create" =>
               \A b \in Present \ {h[c].app} : Apart(h[c].prev, db[b])
      BY <3>1 DEF IInv, FreshInv
    <3>3. QED
      BY <1>2, <3>1, <3>2 DEF PortsFree, DomainsFree
  <2>3. QED
    BY <2>1, <2>2
<1>8. SecretsStayReal'
  <2>1. Stored' = Stored
    BY <1>2 DEF Stored
  <2>2. SecretsStayReal
    BY DEF IInv
  <2>3. QED
    BY <1>2, <1>3, <2>1, <2>2 DEF SecretsStayReal, Continues
<1>9. QED
  BY <1>1, <1>4, <1>5, <1>6, <1>7, <1>8

\* A handler that goes on has the same volume to switch.
LEMMA SwitchContinues ==
  ASSUME NEW r, NEW q, Continues(r, q)
  PROVE  MountSwitch(r) = MountSwitch(q)
  BY DEF Continues, MountSwitch

\* A step of a handler without an unsaved move that touches no volume: it
\* stops, or has nothing to migrate.
LEMMA QuietVolumes ==
  ASSUME IInv, NEW c \in Busy, NEW r, ~h[c].moved,
         UNCHANGED <<db, priv, shrd, ghosts>>,
         h' = [h EXCEPT ![c] = r],
         r = Idle \/ (Continues(r, h[c]) /\ r.pc = "save" /\ ~r.moved)
  PROVE  VolumesInv'
<1> SUFFICES ASSUME ~lapped'
             PROVE  /\ \A k \in Busy' : h'[k].op = "update"
                                          => h'[k].prev = db'[h'[k].app]
                    /\ MovesInv' /\ PlannedMoves' /\ PlannedCopies'
  BY DEF VolumesInv
<1>1. /\ \A k \in Busy : h[k].op = "update" => h[k].prev = db[h[k].app]
      /\ MovesInv /\ PlannedMoves /\ PlannedCopies
  BY DEF IInv, VolumesInv, ghosts
<1>2. /\ \A k \in Clients \ {c} : h'[k] = h[k]
      /\ h'[c] = r
      /\ Busy' \ {c} = Busy \ {c}
      /\ db' = db /\ priv' = priv /\ shrd' = shrd
  BY DEF Busy, IInv, TypeOK
<1>3. c \in Busy' => Continues(r, h[c]) /\ r.pc = "save" /\ ~r.moved
  BY <1>2, IdleIsIdle DEF Busy
<1>4. Moved' = Moved /\ c \notin Moved
  BY <1>2, <1>3 DEF Moved, Busy
<1>5. \A k \in Busy' : h'[k].op = "update" => h'[k].prev = db'[h'[k].app]
  BY <1>1, <1>2, <1>3 DEF Continues
<1>6. MovesInv'
  BY <1>1, <1>2, <1>4 DEF MovesInv, Moved, Busy
<1>7. PlannedMoves'
  BY <1>1, <1>2, <1>3, <1>4 DEF PlannedMoves, Moved, Busy
<1>8. PlannedCopies'
  BY <1>1, <1>2, <1>3 DEF PlannedCopies, Busy
<1>9. QED
  BY <1>5, <1>6, <1>7, <1>8

\* validate_app_service_domains and shared_mounts::plan: a handler that gets
\* on has found its domains free and planned for what it saw.
LEMMA CheckDomainsStep ==
  ASSUME IInv, NEW c \in Clients, CheckDomains(c)
  PROVE  IInv'
<1>0. /\ c \in Busy /\ h[c] \in Handlers /\ h[c].pc = "dns"
      /\ priv \in [Ids -> 0 .. Partial] /\ shrd \in [Apps -> 0 .. Partial]
      /\ h \in [Clients -> Handlers \cup {Idle}]
  BY IdleIsIdle DEF CheckDomains, Busy, IInv, TypeOK
<1>1. UNCHANGED <<db, isAdmin, priv, shrd, started, writes, drawn, ghosts>>
  BY DEF CheckDomains
<1>2. HandlerPlan(h[c]) /\ HandlerRows(h[c])
  BY <1>0 DEF IInv, HandlersInv
<1>3. ~h[c].moved
  BY <1>0, <1>2 DEF HandlerPlan, Handlers
<1>4. CASE Stop(c)
  BY <1>0, <1>1, <1>3, <1>4, HandlerStep, QuietVolumes DEF Stop, IInv
<1>5. ASSUME DomainsFree(h[c].app, h[c].next), NEW p \in PlanMounts(h[c]),
             h' = [h EXCEPT ![c] = [h[c] EXCEPT !.pc = "apply", !.plan = p,
                                       !.seen = Visible(h[c].prev, h[c])]]
      PROVE  IInv'
  <2> DEFINE r == [h[c] EXCEPT !.pc = "apply", !.plan = p,
                               !.seen = Visible(h[c].prev, h[c])]
  <2>1. Visible(h[c].prev, h[c]) \in 0 .. Partial /\ p \in {"none", "move", "copy"}
    <3>1. h[c].id \in Ids /\ h[c].app \in Apps /\ Partial \in Nat
      BY <1>0 DEF Handlers, Partial
    <3>2. QED
      BY <1>0, <1>5, <3>1 DEF Visible, PlanMounts
  <2>2. /\ r \in Handlers /\ Continues(r, h[c])
        /\ r.pc = "apply" /\ r.plan = p /\ r.moved = FALSE
        /\ r.seen = Visible(h[c].prev, h[c])
    BY <1>0, <1>3, <2>1 DEF Handlers, Continues
  <2> HIDE DEF r
  <2>3. MountSwitch(r) = MountSwitch(h[c])
    BY <2>2, SwitchContinues
  <2>4. /\ p = "move" => /\ MountSwitch(h[c]) = "share"
                         /\ priv[h[c].id] # 0
        /\ p = "copy" => MountSwitch(h[c]) = "unshare" /\ priv[h[c].id] = 0
        /\ MountSwitch(h[c]) = "share" /\ priv[h[c].id] # 0 => p = "move"
    BY <1>5 DEF PlanMounts
  <2>5. MountSwitch(h[c]) = "share" => Visible(h[c].prev, h[c]) = priv[h[c].id]
    BY DEF MountSwitch, Visible
  <2>6. HandlerPlan(r)
    BY <2>2, <2>3, <2>4, <2>5 DEF HandlerPlan
  <2>7. /\ TypeOK' /\ RowsInv' /\ HandlersInv' /\ NamesDisjoint'
        /\ FreshInv' /\ SecretsStayReal'
    <3>1. h' = [h EXCEPT ![c] = r]
      BY <1>5 DEF r
    <3>2. priv' \in [Ids -> 0 .. Partial] /\ shrd' \in [Apps -> 0 .. Partial]
      BY <1>0, <1>1
    <3>3. h[c].pc # "queue" /\ r.pc \in {"apply", "save"}
      BY <1>0, <2>2
    <3>4. UNCHANGED <<db, isAdmin, started, writes, drawn, ghosts>>
      BY <1>1
    <3>5. QED
      BY <1>0, <1>5, <2>2, <2>6, <3>1, <3>2, <3>3, <3>4, HandlerStep
  <2>8. VolumesInv'
    <3> SUFFICES ASSUME ~lapped'
                 PROVE  /\ \A k \in Busy' : h'[k].op = "update"
                                              => h'[k].prev = db'[h'[k].app]
                        /\ MovesInv' /\ PlannedMoves' /\ PlannedCopies'
      BY DEF VolumesInv
    <3>1. /\ \A k \in Busy : h[k].op = "update" => h[k].prev = db[h[k].app]
          /\ MovesInv /\ PlannedMoves /\ PlannedCopies
      BY <1>1 DEF IInv, VolumesInv, ghosts
    <3>2. /\ \A k \in Clients \ {c} : h'[k] = h[k]
          /\ h'[c] = r
          /\ Busy' = Busy
          /\ db' = db /\ priv' = priv /\ shrd' = shrd
      BY <1>0, <1>1, <1>5, <2>2 DEF Busy, r
    <3>3. Moved' = Moved
      BY <1>3, <2>2, <3>2 DEF Moved, Busy
    <3>4. \A k \in Busy' : h'[k].op = "update" => h'[k].prev = db'[h'[k].app]
      BY <2>2, <3>1, <3>2 DEF Continues, Busy
    <3>5. MovesInv'
      BY <1>3, <3>1, <3>2, <3>3 DEF MovesInv, Moved, Busy
    <3>6. PlannedMoves'
      <4>1. r.pc = "apply" /\ r.plan = "move"
              => r.seen # 0 /\ priv[r.id] = r.seen
        BY <2>2, <2>4, <2>5 DEF Continues
      <4>2. \A d \in Moved : h'[d] = h[d]
        BY <1>3, <3>2 DEF Moved, Busy
      <4>3. QED
        BY <3>1, <3>2, <3>3, <4>1, <4>2 DEF PlannedMoves, Busy
    <3>7. PlannedCopies'
      <4>1. r.plan = "copy" => priv[r.id] = 0
        BY <2>2, <2>4 DEF Continues
      <4>2. QED
        BY <3>1, <3>2, <4>1 DEF PlannedCopies, Busy
    <3>8. QED
      BY <3>4, <3>5, <3>6, <3>7
  <2>9. QED
    BY <2>7, <2>8 DEF IInv
<1>6. QED
  BY <1>4, <1>5 DEF CheckDomains

\* What the plans of handlers that are not lapped say of the services: a
\* service that is to be shared keeps its data to itself, one that is not to
\* be shared any more does not, and its project knows it.
LEMMA PlansAgree ==
  ASSUME IInv, ~lapped
  PROVE  /\ \A c \in Busy : h[c].id \in Ids /\ h[c].app \in Apps
         /\ \A c \in Busy : h[c].plan = "move" => KeepsOwn(h[c].prev, h[c].id)
         /\ \A c \in Busy : h[c].plan = "copy" => ~KeepsOwn(h[c].prev, h[c].id)
         /\ \A c, d \in Busy : h[c].id = h[d].id => h[c].app = h[d].app
         /\ \A c, d \in Busy : /\ h[c].plan # "none" /\ h[d].plan # "none"
                               /\ h[c].app = h[d].app
                               => h[c].prev = h[d].prev
         /\ \A c, d \in Busy : \A i \in Ids :
               /\ h[c].plan # "none" /\ KeepsOwn(h[c].prev, i)
               /\ h[d].id = i
               => h[c].app = h[d].app
         /\ \A c \in Busy : h[c].plan # "none" => h[c].op = "update"
<1>1. \A c \in Busy : /\ h[c] \in Handlers
                      /\ HandlerRows(h[c]) /\ HandlerPlan(h[c])
                      /\ h[c].op = "update" => h[c].prev = db[h[c].app]
  BY IdleIsIdle DEF IInv, TypeOK, HandlersInv, Busy, VolumesInv
<1>2. \A c \in Busy : /\ h[c].id \in Ids /\ h[c].app \in Apps
                      /\ drawn[h[c].id] = h[c].app
                      /\ h[c].plan \in {"none", "move", "copy"}
  BY <1>1 DEF Handlers, HandlerRows
<1>3. \A c \in Busy : /\ h[c].plan = "move" => MountSwitch(h[c]) = "share"
                      /\ h[c].plan = "copy" => MountSwitch(h[c]) = "unshare"
  BY <1>1 DEF HandlerPlan
<1>4. \A c \in Busy : h[c].plan # "none" =>
         /\ h[c].op = "update" /\ HasService(h[c].prev, h[c].id)
         /\ RowOK(h[c].prev, h[c].app)
  BY <1>1, <1>2, <1>3 DEF MountSwitch, HandlerRows
<1>5. \A c \in Busy : h[c].plan = "move" => KeepsOwn(h[c].prev, h[c].id)
  BY <1>3, <1>4 DEF MountSwitch, KeepsOwn
<1>6. \A c \in Busy : h[c].plan = "copy" => ~KeepsOwn(h[c].prev, h[c].id)
  BY <1>3, <1>4 DEF MountSwitch, KeepsOwn
<1>7. \A c \in Busy : \A i \in Ids :
         h[c].plan # "none" /\ KeepsOwn(h[c].prev, i) => drawn[i] = h[c].app
  BY <1>4 DEF KeepsOwn, HasService, RowOK
<1>8. QED
  BY <1>1, <1>2, <1>4, <1>5, <1>6, <1>7

\* copy_dir: a copy, done or broken off, overwrites only what was empty,
\* partial or elsewhere, and touches no volume that is being moved.
LEMMA CopyVolumes ==
  ASSUME IInv, NEW c \in Busy, NEW r, ~h[c].moved,
         h[c].pc = "apply", h[c].plan = "copy",
         NEW v \in {priv[h[c].id], shrd[h[c].app], Partial},
         priv' = [priv EXCEPT ![h[c].id] = v],
         UNCHANGED <<db, shrd, ghosts>>,
         h' = [h EXCEPT ![c] = r],
         r = Idle \/ (Continues(r, h[c]) /\ r.pc = "save" /\ ~r.moved)
  PROVE  VolumesInv'
<1> SUFFICES ASSUME ~lapped'
             PROVE  /\ \A k \in Busy' : h'[k].op = "update"
                                          => h'[k].prev = db'[h'[k].app]
                    /\ MovesInv' /\ PlannedMoves' /\ PlannedCopies'
  BY DEF VolumesInv
<1>0. ~lapped
  BY DEF ghosts
<1>1. /\ \A k \in Busy : h[k].op = "update" => h[k].prev = db[h[k].app]
      /\ MovesInv /\ PlannedMoves /\ PlannedCopies
  BY <1>0 DEF IInv, VolumesInv
<1>2. /\ \A k \in Clients \ {c} : h'[k] = h[k]
      /\ h'[c] = r
      /\ Busy' \ {c} = Busy \ {c}
      /\ db' = db /\ shrd' = shrd
      /\ priv \in [Ids -> 0 .. Partial]
  BY DEF Busy, IInv, TypeOK
<1>3. c \in Busy' => Continues(r, h[c]) /\ r.pc = "save" /\ ~r.moved
  BY <1>2, IdleIsIdle DEF Busy
<1>4. Moved' = Moved /\ c \notin Moved
  BY <1>2, <1>3 DEF Moved, Busy
<1>5. /\ \A k \in Busy : h[k].id \in Ids /\ h[k].app \in Apps
      /\ \A k \in Busy : h[k].plan = "move" => KeepsOwn(h[k].prev, h[k].id)
      /\ ~KeepsOwn(h[c].prev, h[c].id)
      /\ \A k \in Busy : h[k].id = h[c].id => h[k].app = h[c].app
      /\ \A k \in Busy : /\ h[k].plan # "none" /\ h[k].app = h[c].app
                         => h[k].prev = h[c].prev
      /\ \A k \in Busy :
            /\ h[k].plan # "none" /\ KeepsOwn(h[k].prev, h[c].id)
            => h[k].app = h[c].app
  BY <1>0, PlansAgree
<1>6. \A k \in Busy : h[k].plan = "move" => h[k].id # h[c].id
  BY <1>5
<1>7. \A k \in Busy : h[k].plan = "copy" => ~KeepsOwn(h[k].prev, h[c].id)
  BY <1>5
<1>8. \A k \in Moved : h[k].plan = "move"
  BY DEF Moved, IInv, HandlersInv, HandlerPlan
<1>9. /\ priv'[h[c].id] = v
      /\ \A i \in Ids : i # h[c].id => priv'[i] = priv[i]
  BY <1>2, <1>5
<1>10. \A k \in Busy' : h'[k].op = "update" => h'[k].prev = db'[h'[k].app]
  BY <1>1, <1>2, <1>3 DEF Continues
<1>11. MovesInv'
  BY <1>1, <1>2, <1>4, <1>5, <1>6, <1>8, <1>9 DEF MovesInv, Moved, Busy
<1>12. PlannedMoves'
  BY <1>1, <1>2, <1>3, <1>4, <1>5, <1>6, <1>9 DEF PlannedMoves, Moved, Busy
<1>13. PlannedCopies'
  <2> SUFFICES ASSUME NEW k \in Busy', h'[k].pc = "apply", h'[k].plan = "copy"
               PROVE  \/ priv'[h'[k].id] \in {0, Partial'}
                      \/ priv'[h'[k].id] = shrd'[h'[k].app]
                      \/ \E i \in Ids \ {h'[k].id} :
                            /\ KeepsOwn(h'[k].prev, i)
                            /\ priv'[i] = priv'[h'[k].id]
    BY DEF PlannedCopies
  <2>1. /\ k # c /\ k \in Busy /\ h'[k] = h[k]
        /\ h[k].pc = "apply" /\ h[k].plan = "copy"
    BY <1>2, <1>3 DEF Busy
  <2>2. \/ priv[h[k].id] \in {0, Partial}
        \/ priv[h[k].id] = shrd[h[k].app]
        \/ \E i \in Ids \ {h[k].id} :
              KeepsOwn(h[k].prev, i) /\ priv[i] = priv[h[k].id]
    BY <1>1, <2>1 DEF PlannedCopies
  <2>3. Partial' = Partial
    BY DEF Partial
  <2>4. \A i \in Ids : KeepsOwn(h[k].prev, i) => priv'[i] = priv[i]
    BY <1>7, <1>9, <2>1
  <2>5. CASE h[k].id # h[c].id \/ v = priv[h[c].id]
    BY <1>2, <1>5, <1>9, <2>1, <2>2, <2>3, <2>4, <2>5
  <2>6. CASE h[k].id = h[c].id /\ v # priv[h[c].id]
    BY <1>2, <1>5, <1>9, <2>1, <2>3, <2>6
  <2>7. QED
    BY <2>5, <2>6
<1>14. QED
  BY <1>10, <1>11, <1>12, <1>13

\* move_dir: the data a handler planned to move is what it finds, and it is
\* then in the shared volume only.
LEMMA MoveVolumes ==
  ASSUME IInv, NEW c \in Busy, NEW r,
         h[c].pc = "apply", h[c].plan = "move", shrd[h[c].app] = 0,
         shrd' = [shrd EXCEPT ![h[c].app] = priv[h[c].id]],
         priv' = [priv EXCEPT ![h[c].id] = 0],
         UNCHANGED <<db, ghosts>>,
         h' = [h EXCEPT ![c] = r],
         Continues(r, h[c]), r.pc = "save", r.moved, r.plan = "move",
         r.seen = h[c].seen
  PROVE  VolumesInv'
<1> SUFFICES ASSUME ~lapped'
             PROVE  /\ \A k \in Busy' : h'[k].op = "update"
                                          => h'[k].prev = db'[h'[k].app]
                    /\ MovesInv' /\ PlannedMoves' /\ PlannedCopies'
  BY DEF VolumesInv
<1>0. ~lapped
  BY DEF ghosts
<1>1. /\ \A k \in Busy : h[k].op = "update" => h[k].prev = db[h[k].app]
      /\ MovesInv /\ PlannedMoves /\ PlannedCopies
  BY <1>0 DEF IInv, VolumesInv
<1>2. /\ \A k \in Clients \ {c} : h'[k] = h[k]
      /\ h'[c] = r
      /\ Busy' = Busy
      /\ db' = db
      /\ priv \in [Ids -> 0 .. Partial] /\ shrd \in [Apps -> 0 .. Partial]
  BY DEF Busy, IInv, TypeOK
<1>3. /\ \A k \in Busy : h[k].id \in Ids /\ h[k].app \in Apps
      /\ KeepsOwn(h[c].prev, h[c].id)
      /\ \A k \in Busy : h[k].plan = "copy" => ~KeepsOwn(h[k].prev, h[k].id)
      /\ \A k, d \in Busy : h[k].id = h[d].id => h[k].app = h[d].app
      /\ \A k \in Busy : /\ h[k].plan # "none" /\ h[k].app = h[c].app
                         => h[k].prev = h[c].prev
      /\ \A k \in Busy :
            /\ h[k].plan # "none" /\ KeepsOwn(h[k].prev, h[c].id)
            => h[k].app = h[c].app
  BY <1>0, PlansAgree
<1>4. \A k \in Moved : h[k].app # h[c].app /\ h[k].id # h[c].id
  BY <1>1, <1>3 DEF MovesInv, Moved
<1>5. h[c].seen # 0 /\ priv[h[c].id] = h[c].seen
  BY <1>1, <1>4 DEF PlannedMoves
<1>6. ~h[c].moved
  BY DEF IInv, HandlersInv, HandlerPlan
<1>7. Moved' = Moved \cup {c} /\ c \notin Moved
  BY <1>2, <1>6 DEF Moved, Busy
<1>8. /\ priv'[h[c].id] = 0 /\ shrd'[h[c].app] = h[c].seen
      /\ \A i \in Ids : i # h[c].id => priv'[i] = priv[i]
      /\ \A a \in Apps : a # h[c].app => shrd'[a] = shrd[a]
  BY <1>2, <1>3, <1>5
<1>9. \A k \in Busy' : h'[k].op = "update" => h'[k].prev = db'[h'[k].app]
  BY <1>1, <1>2 DEF Continues, Busy
<1>10. MovesInv'
  <2>1. \A k \in Moved' : /\ h'[k].seen # 0
                          /\ shrd'[h'[k].app] = h'[k].seen
                          /\ priv'[h'[k].id] = 0
    BY <1>1, <1>2, <1>3, <1>4, <1>5, <1>7, <1>8
       DEF MovesInv, Moved, Continues, Busy
  <2>2. \A k, d \in Moved' : h'[k].app = h'[d].app => k = d
    BY <1>1, <1>2, <1>4, <1>7 DEF MovesInv, Moved, Continues, Busy
  <2>3. QED
    BY <2>1, <2>2 DEF MovesInv
<1>11. PlannedMoves'
  <2> SUFFICES ASSUME NEW k \in Busy', h'[k].pc = "apply", h'[k].plan = "move"
               PROVE  /\ h'[k].seen # 0
                      /\ \/ priv'[h'[k].id] = h'[k].seen
                         \/ \E d \in Moved' : /\ h'[d].id = h'[k].id
                                              /\ h'[d].seen = h'[k].seen
    BY DEF PlannedMoves
  <2>1. /\ k # c /\ k \in Busy /\ h'[k] = h[k]
        /\ h[k].pc = "apply" /\ h[k].plan = "move"
    BY <1>2 DEF Busy
  <2>2. /\ h[k].seen # 0
        /\ \/ priv[h[k].id] = h[k].seen
           \/ \E d \in Moved : h[d].id = h[k].id /\ h[d].seen = h[k].seen
    BY <1>1, <2>1 DEF PlannedMoves
  <2>3. CASE h[k].id = h[c].id
    <3>1. h[k].seen = h[c].seen
      BY <1>4, <1>5, <2>2, <2>3
    <3>2. c \in Moved' /\ h'[c].id = h'[k].id /\ h'[c].seen = h'[k].seen
      BY <1>2, <1>7, <2>1, <2>3, <3>1 DEF Continues
    <3>3. QED
      BY <2>1, <2>2, <3>2
  <2>4. CASE h[k].id # h[c].id
    <3>1. \A d \in Moved : d \in Moved' /\ h'[d] = h[d]
      BY <1>2, <1>7 DEF Moved, Busy
    <3>2. QED
      BY <1>3, <1>8, <2>1, <2>2, <2>4, <3>1
  <2>5. QED
    BY <2>3, <2>4
<1>12. PlannedCopies'
  <2> SUFFICES ASSUME NEW k \in Busy', h'[k].pc = "apply", h'[k].plan = "copy"
               PROVE  \/ priv'[h'[k].id] \in {0, Partial'}
                      \/ priv'[h'[k].id] = shrd'[h'[k].app]
                      \/ \E i \in Ids \ {h'[k].id} :
                            /\ KeepsOwn(h'[k].prev, i)
                            /\ priv'[i] = priv'[h'[k].id]
    BY DEF PlannedCopies
  <2>1. /\ k # c /\ k \in Busy /\ h'[k] = h[k]
        /\ h[k].pc = "apply" /\ h[k].plan = "copy"
    BY <1>2 DEF Busy
  <2>2. \/ priv[h[k].id] \in {0, Partial}
        \/ priv[h[k].id] = shrd[h[k].app]
        \/ \E i \in Ids \ {h[k].id} :
              KeepsOwn(h[k].prev, i) /\ priv[i] = priv[h[k].id]
    BY <1>1, <2>1 DEF PlannedCopies
  <2>3. Partial' = Partial
    BY DEF Partial
  <2>4. h[k].id # h[c].id
    BY <1>3, <2>1
  <2>5. priv'[h[k].id] = priv[h[k].id]
    BY <1>3, <1>8, <2>1, <2>4
  <2>6. CASE priv[h[k].id] \in {0, Partial}
    BY <2>1, <2>3, <2>5, <2>6
  <2>7. CASE priv[h[k].id] = shrd[h[k].app]
    BY <1>3, <1>8, <2>1, <2>5, <2>7
  <2>8. ASSUME NEW i \in Ids \ {h[k].id},
               KeepsOwn(h[k].prev, i), priv[i] = priv[h[k].id]
        PROVE  \/ priv'[h[k].id] = shrd'[h[k].app]
               \/ priv'[i] = priv'[h[k].id]
    <3>1. CASE i # h[c].id
      BY <1>8, <2>5, <2>8, <3>1
    <3>2. CASE i = h[c].id
      BY <1>3, <1>5, <1>8, <2>1, <2>5, <2>8, <3>2
    <3>3. QED
      BY <3>1, <3>2
  <2>9. QED
    BY <2>1, <2>2, <2>6, <2>7, <2>8
<1>13. QED
  BY <1>9, <1>10, <1>11, <1>12

\* shared_mounts::undo: the data goes back to the service it came from.
LEMMA UndoVolumes ==
  ASSUME IInv, NEW c \in Busy, h[c].pc = "save", h[c].moved,
         priv' = [priv EXCEPT ![h[c].id] = shrd[h[c].app]],
         shrd' = [shrd EXCEPT ![h[c].app] = 0],
         UNCHANGED <<db, ghosts>>,
         h' = [h EXCEPT ![c] = Idle]
  PROVE  VolumesInv'
<1> SUFFICES ASSUME ~lapped'
             PROVE  /\ \A k \in Busy' : h'[k].op = "update"
                                          => h'[k].prev = db'[h'[k].app]
                    /\ MovesInv' /\ PlannedMoves' /\ PlannedCopies'
  BY DEF VolumesInv
<1>0. ~lapped
  BY DEF ghosts
<1>1. /\ \A k \in Busy : h[k].op = "update" => h[k].prev = db[h[k].app]
      /\ MovesInv /\ PlannedMoves /\ PlannedCopies
  BY <1>0 DEF IInv, VolumesInv
<1>2. /\ \A k \in Clients \ {c} : h'[k] = h[k]
      /\ h'[c] = Idle
      /\ Busy' = Busy \ {c}
      /\ db' = db
      /\ priv \in [Ids -> 0 .. Partial] /\ shrd \in [Apps -> 0 .. Partial]
  BY IdleIsIdle DEF Busy, IInv, TypeOK
<1>3. h[c].plan = "move"
  BY DEF IInv, HandlersInv, HandlerPlan
<1>4. /\ \A k \in Busy : h[k].id \in Ids /\ h[k].app \in Apps
      /\ KeepsOwn(h[c].prev, h[c].id)
      /\ \A k \in Busy : h[k].plan = "copy" => ~KeepsOwn(h[k].prev, h[k].id)
      /\ \A k, d \in Busy : h[k].id = h[d].id => h[k].app = h[d].app
      /\ \A k \in Busy : /\ h[k].plan # "none" /\ h[k].app = h[c].app
                         => h[k].prev = h[c].prev
  BY <1>0, <1>3, PlansAgree
<1>5. /\ h[c].seen # 0 /\ shrd[h[c].app] = h[c].seen /\ priv[h[c].id] = 0
      /\ \A d \in Moved : h[d].app = h[c].app => d = c
  BY <1>1 DEF MovesInv, Moved
<1>6. Moved' = Moved \ {c}
  BY <1>2 DEF Moved, Busy
<1>7. /\ priv'[h[c].id] = h[c].seen /\ shrd'[h[c].app] = 0
      /\ \A i \in Ids : i # h[c].id => priv'[i] = priv[i]
      /\ \A a \in Apps : a # h[c].app => shrd'[a] = shrd[a]
  BY <1>2, <1>4, <1>5
<1>8. \A k \in Busy' : h'[k].op = "update" => h'[k].prev = db'[h'[k].app]
  BY <1>1, <1>2 DEF Busy
<1>9. MovesInv'
  <2>1. \A k \in Moved' : /\ h'[k] = h[k] /\ k \in Moved
                          /\ h[k].app # h[c].app /\ h[k].id # h[c].id
    BY <1>2, <1>4, <1>5, <1>6 DEF Moved, Busy
  <2>2. QED
    BY <1>1, <1>4, <1>7, <2>1 DEF MovesInv, Moved
<1>10. PlannedMoves'
  <2> SUFFICES ASSUME NEW k \in Busy', h'[k].pc = "apply", h'[k].plan = "move"
               PROVE  /\ h'[k].seen # 0
                      /\ \/ priv'[h'[k].id] = h'[k].seen
                         \/ \E d \in Moved' : /\ h'[d].id = h'[k].id
                                              /\ h'[d].seen = h'[k].seen
    BY DEF PlannedMoves
  <2>1. /\ k # c /\ k \in Busy /\ h'[k] = h[k]
        /\ h[k].pc = "apply" /\ h[k].plan = "move"
    BY <1>2 DEF Busy
  <2>2. /\ h[k].seen # 0
        /\ \/ priv[h[k].id] = h[k].seen
           \/ \E d \in Moved : h[d].id = h[k].id /\ h[d].seen = h[k].seen
    BY <1>1, <2>1 DEF PlannedMoves
  <2>3. CASE h[k].id = h[c].id
    <3>1. h[k].seen = h[c].seen
      BY <1>4, <1>5, <2>1, <2>2, <2>3 DEF Moved
    <3>2. QED
      BY <1>7, <2>1, <2>2, <2>3, <3>1
  <2>4. CASE h[k].id # h[c].id
    <3>1. \A d \in Moved : d # c => d \in Moved' /\ h'[d] = h[d]
      BY <1>2, <1>6 DEF Moved, Busy
    <3>2. QED
      BY <1>4, <1>7, <2>1, <2>2, <2>4, <3>1
  <2>5. QED
    BY <2>3, <2>4
<1>11. PlannedCopies'
  <2> SUFFICES ASSUME NEW k \in Busy', h'[k].pc = "apply", h'[k].plan = "copy"
               PROVE  \/ priv'[h'[k].id] \in {0, Partial'}
                      \/ priv'[h'[k].id] = shrd'[h'[k].app]
                      \/ \E i \in Ids \ {h'[k].id} :
                            /\ KeepsOwn(h'[k].prev, i)
                            /\ priv'[i] = priv'[h'[k].id]
    BY DEF PlannedCopies
  <2>1. /\ k # c /\ k \in Busy /\ h'[k] = h[k]
        /\ h[k].pc = "apply" /\ h[k].plan = "copy"
    BY <1>2 DEF Busy
  <2>2. \/ priv[h[k].id] \in {0, Partial}
        \/ priv[h[k].id] = shrd[h[k].app]
        \/ \E i \in Ids \ {h[k].id} :
              KeepsOwn(h[k].prev, i) /\ priv[i] = priv[h[k].id]
    BY <1>1, <2>1 DEF PlannedCopies
  <2>3. Partial' = Partial
    BY DEF Partial
  <2>4. h[k].id # h[c].id /\ h[k].id \in Ids /\ h[k].app \in Apps
    BY <1>4, <2>1
  <2>5. priv'[h[k].id] = priv[h[k].id]
    BY <1>7, <2>4
  <2>6. CASE priv[h[k].id] \in {0, Partial}
    BY <2>1, <2>3, <2>5, <2>6
  <2>7. CASE priv[h[k].id] = shrd[h[k].app] /\ h[k].app # h[c].app
    BY <1>7, <2>1, <2>4, <2>5, <2>7
  <2>8. CASE priv[h[k].id] = shrd[h[k].app] /\ h[k].app = h[c].app
    <3>1. /\ h[c].id \in Ids \ {h[k].id} /\ KeepsOwn(h[k].prev, h[c].id)
          /\ priv'[h[c].id] = priv'[h[k].id]
      BY <1>4, <1>5, <1>7, <2>1, <2>4, <2>5, <2>8
    <3>2. QED
      BY <2>1, <3>1
  <2>9. ASSUME NEW i \in Ids \ {h[k].id},
               KeepsOwn(h[k].prev, i), priv[i] = priv[h[k].id]
        PROVE  priv'[h[k].id] = 0 \/ priv'[i] = priv'[h[k].id]
    BY <1>5, <1>7, <2>5, <2>9
  <2>10. QED
    BY <2>1, <2>2, <2>6, <2>7, <2>8, <2>9
<1>12. QED
  BY <1>8, <1>9, <1>10, <1>11

\* shared_mounts::apply: done, not needed or failed.
LEMMA ApplyMountsStep ==
  ASSUME IInv, NEW c \in Clients, ApplyMounts(c)
  PROVE  IInv'
<1>0. /\ c \in Busy /\ h[c] \in Handlers /\ h[c].pc = "apply"
      /\ priv \in [Ids -> 0 .. Partial] /\ shrd \in [Apps -> 0 .. Partial]
      /\ h[c].id \in Ids /\ h[c].app \in Apps /\ Partial \in 0 .. Partial
      /\ h \in [Clients -> Handlers \cup {Idle}]
  <2>1. /\ c \in Busy /\ h[c].pc = "apply"
        /\ h \in [Clients -> Handlers \cup {Idle}]
        /\ priv \in [Ids -> 0 .. Partial] /\ shrd \in [Apps -> 0 .. Partial]
    BY DEF ApplyMounts, Busy, IInv, TypeOK
  <2>2. h[c] \in Handlers
    BY <2>1, IdleIsIdle
  <2>3. Partial \in 0 .. Partial
    BY DEF Partial
  <2>4. QED
    BY <2>1, <2>2, <2>3 DEF Handlers
<1>1. UNCHANGED <<db, isAdmin, started, writes, drawn, ghosts>>
  BY DEF ApplyMounts
<1>2. HandlerPlan(h[c])
  BY <1>0 DEF IInv, HandlersInv
<1>3. ~h[c].moved
  BY <1>0, <1>2 DEF HandlerPlan
<1>4. h[c].fresh => DomainsFree(h[c].app, h[c].next)
  BY <1>0 DEF IInv, FreshInv
<1>5. priv' \in [Ids -> 0 .. Partial] /\ shrd' \in [Apps -> 0 .. Partial]
  <2>1. /\ 0 \in 0 .. Partial
        /\ priv[h[c].id] \in 0 .. Partial
        /\ Copied(priv[h[c].id], shrd[h[c].app]) \in 0 .. Partial
        /\ CopiedPart(priv[h[c].id], shrd[h[c].app]) \subseteq 0 .. Partial
    BY <1>0 DEF Copied, CopiedPart
  <2>2. CASE UNCHANGED <<priv, shrd>>
    BY <1>0, <2>2
  <2>3. ASSUME NEW v \in 0 .. Partial, priv' = [priv EXCEPT ![h[c].id] = v],
               UNCHANGED shrd \/ shrd' = [shrd EXCEPT ![h[c].app] = priv[h[c].id]]
        PROVE  priv' \in [Ids -> 0 .. Partial] /\ shrd' \in [Apps -> 0 .. Partial]
    BY <1>0, <2>1, <2>3
  <2>4. QED
    BY <2>1, <2>2, <2>3 DEF ApplyMounts
<1>6. ASSUME Stop(c)
      PROVE  /\ TypeOK' /\ RowsInv' /\ HandlersInv' /\ NamesDisjoint'
             /\ FreshInv' /\ SecretsStayReal'
  BY <1>0, <1>1, <1>5, <1>6, HandlerStep DEF Stop
<1>7. ASSUME NEW b \in BOOLEAN, b = (h[c].plan = "move"), ToSave(c, b)
      PROVE  /\ TypeOK' /\ RowsInv' /\ HandlersInv' /\ NamesDisjoint'
             /\ FreshInv' /\ SecretsStayReal'
  <2> DEFINE r == [h[c] EXCEPT !.pc = "save", !.moved = b]
  <2>1. /\ r \in Handlers /\ Continues(r, h[c])
        /\ r.pc = "save" /\ r.moved = b /\ r.plan = h[c].plan
        /\ r.seen = h[c].seen
    BY <1>0, <1>7 DEF Handlers, Continues
  <2>2. h' = [h EXCEPT ![c] = r]
    BY <1>7 DEF ToSave
  <2> HIDE DEF r
  <2>3. MountSwitch(r) = MountSwitch(h[c])
    BY <2>1, SwitchContinues
  <2>4. HandlerPlan(r)
    BY <1>0, <1>2, <1>7, <2>1, <2>3 DEF HandlerPlan
  <2>5. r.pc \in {"apply", "save"} /\ h[c].pc # "queue"
    BY <1>0, <2>1
  <2>6. QED
    BY <1>0, <1>1, <1>4, <1>5, <2>1, <2>2, <2>4, <2>5, HandlerStep
<1>8. ASSUME NEW b \in BOOLEAN, ToSave(c, b)
      PROVE  \E r : /\ h' = [h EXCEPT ![c] = r] /\ Continues(r, h[c])
                    /\ r.pc = "save" /\ r.moved = b /\ r.plan = h[c].plan
                    /\ r.seen = h[c].seen
  <2> DEFINE r == [h[c] EXCEPT !.pc = "save", !.moved = b]
  <2>1. /\ Continues(r, h[c])
        /\ r.pc = "save" /\ r.moved = b /\ r.plan = h[c].plan
        /\ r.seen = h[c].seen
    BY <1>0, <1>8 DEF Handlers, Continues
  <2>2. h' = [h EXCEPT ![c] = r]
    BY <1>8 DEF ToSave
  <2> HIDE DEF r
  <2>3. QED
    BY <2>1, <2>2
<1>9. CASE h[c].plan = "none" /\ ToSave(c, FALSE) /\ UNCHANGED <<priv, shrd>>
  <2>1. VolumesInv'
    BY <1>0, <1>1, <1>3, <1>8, <1>9, QuietVolumes
  <2>2. QED
    BY <1>7, <1>9, <2>1 DEF IInv
<1>10. CASE /\ h[c].plan = "move" /\ shrd[h[c].app] = 0
            /\ shrd' = [shrd EXCEPT ![h[c].app] = priv[h[c].id]]
            /\ priv' = [priv EXCEPT ![h[c].id] = 0]
            /\ ToSave(c, TRUE)
  <2>1. VolumesInv'
    BY <1>0, <1>1, <1>8, <1>10, MoveVolumes
  <2>2. QED
    BY <1>7, <1>10, <2>1 DEF IInv
<1>11. CASE /\ h[c].plan = "copy"
            /\ priv' = [priv EXCEPT ![h[c].id] =
                                       Copied(priv[h[c].id], shrd[h[c].app])]
            /\ ToSave(c, FALSE) /\ UNCHANGED shrd
  <2>1. Copied(priv[h[c].id], shrd[h[c].app])
          \in {priv[h[c].id], shrd[h[c].app], Partial}
    BY DEF Copied
  <2>2. VolumesInv'
    BY <1>0, <1>1, <1>3, <1>8, <1>11, <2>1, CopyVolumes
  <2>3. QED
    BY <1>7, <1>11, <2>2 DEF IInv
<1>12. CASE h[c].plan = "move" /\ Stop(c) /\ UNCHANGED <<priv, shrd>>
  <2>1. VolumesInv'
    BY <1>0, <1>1, <1>3, <1>12, QuietVolumes DEF Stop
  <2>2. QED
    BY <1>6, <1>12, <2>1 DEF IInv
<1>13. ASSUME h[c].plan = "copy", Stop(c), UNCHANGED shrd,
              NEW left \in CopiedPart(priv[h[c].id], shrd[h[c].app]),
              priv' = [priv EXCEPT ![h[c].id] = left]
       PROVE  IInv'
  <2>1. left \in {priv[h[c].id], shrd[h[c].app], Partial}
    BY <1>13 DEF CopiedPart
  <2>2. VolumesInv'
    BY <1>0, <1>1, <1>3, <1>13, <2>1, CopyVolumes DEF Stop
  <2>3. QED
    BY <1>6, <1>13, <2>2 DEF IInv
<1>14. QED
  BY <1>9, <1>10, <1>11, <1>12, <1>13 DEF ApplyMounts

\* update_service, the save that fails: a move is undone.
LEMMA SaveAppFailsStep ==
  ASSUME IInv, NEW c \in Clients, SaveAppFails(c)
  PROVE  IInv'
<1>0. /\ c \in Busy /\ h[c].pc = "save" /\ h[c] \in Handlers
      /\ priv \in [Ids -> 0 .. Partial] /\ shrd \in [Apps -> 0 .. Partial]
      /\ h[c].id \in Ids /\ h[c].app \in Apps
      /\ h \in [Clients -> Handlers \cup {Idle}]
      /\ h' = [h EXCEPT ![c] = Idle]
      /\ UNCHANGED <<db, isAdmin, started, writes, drawn, ghosts>>
  <2>1. /\ c \in Busy /\ h[c].pc = "save"
        /\ h \in [Clients -> Handlers \cup {Idle}]
        /\ priv \in [Ids -> 0 .. Partial] /\ shrd \in [Apps -> 0 .. Partial]
        /\ h' = [h EXCEPT ![c] = Idle]
        /\ UNCHANGED <<db, isAdmin, started, writes, drawn, ghosts>>
    BY DEF SaveAppFails, Busy, IInv, TypeOK, Stop
  <2>2. h[c] \in Handlers
    BY <2>1, IdleIsIdle
  <2>3. QED
    BY <2>1, <2>2 DEF Handlers
<1>1. priv' \in [Ids -> 0 .. Partial] /\ shrd' \in [Apps -> 0 .. Partial]
  BY <1>0 DEF SaveAppFails, Partial
<1>2. /\ TypeOK' /\ RowsInv' /\ HandlersInv' /\ NamesDisjoint'
      /\ FreshInv' /\ SecretsStayReal'
  BY <1>0, <1>1, HandlerStep
<1>3. VolumesInv'
  <2>1. CASE h[c].moved /\ priv[h[c].id] = 0
    BY <1>0, <2>1, UndoVolumes DEF SaveAppFails
  <2>2. CASE ~h[c].moved
    BY <1>0, <2>2, QuietVolumes DEF SaveAppFails
  <2>3. CASE h[c].moved /\ priv[h[c].id] # 0
    BY <1>0, <2>3 DEF IInv, VolumesInv, MovesInv, Moved, ghosts
  <2>4. QED
    BY <2>1, <2>2, <2>3
<1>4. QED
  BY <1>2, <1>3 DEF IInv

\* save_app and the removal after a failed deployment: c writes the row of
\* its project.  What it writes obeys the rules, and names nothing another
\* project has, if c is fresh.
LEMMA WriteRowStep ==
  ASSUME IInv, NEW c \in Busy, NEW row, NEW then,
         WriteRow(c, h[c].app, row, then),
         UNCHANGED <<isAdmin, priv, shrd, started, writes, drawn>>,
         row = Null \/ RowOK(row, h[c].app),
         row # Null /\ h[c].fresh /\ ~raced =>
            \A b \in Present \ {h[c].app} : Apart(row, db[b]),
         \/ then = Idle
         \/ /\ then \in Handlers /\ Continues(then, h[c]) /\ HandlerPlan(then)
            /\ then.pc = "queue" /\ then.deploy
  PROVE  IInv'
<1> DEFINE a == h[c].app
<1>0. /\ c \in Clients /\ h[c] \in Handlers /\ a \in Apps
      /\ h \in [Clients -> Handlers \cup {Idle}]
      /\ db \in [Apps -> Project \cup {Null}]
      /\ \A k \in Busy : h[k] \in Handlers
  <2>1. /\ c \in Clients /\ h \in [Clients -> Handlers \cup {Idle}]
        /\ db \in [Apps -> Project \cup {Null}]
    BY DEF Busy, IInv, TypeOK, Rows
  <2>2. \A k \in Busy : h[k] \in Handlers
    BY <2>1, IdleIsIdle DEF Busy
  <2>3. QED
    BY <2>1, <2>2 DEF Handlers
<1>1. /\ db' = [db EXCEPT ![a] = row] /\ drawn' = drawn /\ isAdmin' = isAdmin
      /\ priv' = priv /\ shrd' = shrd
      /\ \A k \in Clients : k # c /\ k \notin Busy => h'[k] = h[k]
      /\ h'[c] = then
  BY <1>0 DEF WriteRow
<1>2. \A k \in Busy \ {c} :
         /\ h'[k] \in Handlers /\ h'[k].fresh = FALSE
         /\ h'[k].pc = h[k].pc /\ h'[k].op = h[k].op /\ h'[k].app = h[k].app
         /\ h'[k].id = h[k].id /\ h'[k].prev = h[k].prev
         /\ h'[k].next = h[k].next /\ h'[k].deploy = h[k].deploy
         /\ h'[k].plan = h[k].plan /\ h'[k].moved = h[k].moved
         /\ h'[k].seen = h[k].seen
  <2> SUFFICES ASSUME NEW k \in Busy \ {c}
               PROVE  /\ h'[k] \in Handlers /\ h'[k].fresh = FALSE
                      /\ h'[k].pc = h[k].pc /\ h'[k].op = h[k].op
                      /\ h'[k].app = h[k].app /\ h'[k].id = h[k].id
                      /\ h'[k].prev = h[k].prev /\ h'[k].next = h[k].next
                      /\ h'[k].deploy = h[k].deploy
                      /\ h'[k].plan = h[k].plan
                      /\ h'[k].moved = h[k].moved /\ h'[k].seen = h[k].seen
    OBVIOUS
  <2>1. h'[k] = [h[k] EXCEPT !.fresh = FALSE] /\ h[k] \in Handlers
    BY <1>0 DEF WriteRow, Busy
  <2>2. QED
    BY <2>1 DEF Handlers
<1>3. /\ Busy' \ {c} = Busy \ {c}
      /\ c \in Busy' => /\ then \in Handlers /\ Continues(then, h[c])
                        /\ HandlerPlan(then)
                        /\ then.pc = "queue" /\ then.deploy
  BY <1>0, <1>1, <1>2, IdleIsIdle DEF Busy
<1>4. /\ Present' \ {a} = Present \ {a}
      /\ \A b \in Apps \ {a} : db'[b] = db[b]
      /\ db'[a] = row
      /\ a \in Present' => row # Null /\ RowOK(row, a)
  BY <1>0, <1>1 DEF Present, ProjectsIn
<1>5. TypeOK'
  <2>1. row \in Project \cup {Null}
    BY DEF RowOK
  <2>2. db' \in Rows
    BY <1>0, <1>1, <2>1 DEF Rows
  <2>3. h' \in [Clients -> Handlers \cup {Idle}]
    BY <1>0, <1>2 DEF WriteRow
  <2>4. raced' \in BOOLEAN /\ lapped' \in BOOLEAN
    BY DEF WriteRow
  <2>5. QED
    BY <1>1, <2>2, <2>3, <2>4 DEF IInv, TypeOK
<1>6. RowsInv'
  <2> SUFFICES ASSUME NEW b \in Present' PROVE RowOK(db[b], b)'
    BY DEF RowsInv
  <2>1. RowOK(db'[b], b)
    BY <1>4 DEF IInv, RowsInv, Present, ProjectsIn
  <2>2. QED
    BY <1>1, <2>1 DEF RowOK
<1>7. HandlersInv'
  <2> SUFFICES ASSUME NEW k \in Busy'
               PROVE  HandlerRows(h[k])' /\ HandlerPlan(h[k])'
    BY DEF HandlersInv
  <2>1. CASE k # c
    <3>1. k \in Busy \ {c} /\ HandlerRows(h[k]) /\ HandlerPlan(h[k])
      BY <1>3, <2>1 DEF IInv, HandlersInv
    <3>2. HandlerRows(h[k])'
      BY <1>1, <1>2, <3>1 DEF HandlerRows, RowOK
    <3>3. MountSwitch(h'[k]) = MountSwitch(h[k])
      BY <1>2, <3>1 DEF MountSwitch
    <3>4. HandlerPlan(h[k])'
      BY <1>2, <3>1, <3>3 DEF HandlerPlan
    <3>5. QED
      BY <3>2, <3>4
  <2>2. CASE k = c
    <3>1. HandlerRows(h[c])
      BY DEF IInv, HandlersInv
    <3>2. HandlerRows(h[k])'
      BY <1>1, <1>3, <2>2, <3>1 DEF HandlerRows, RowOK, Continues
    <3>3. HandlerPlan(h[k])'
      BY <1>1, <1>3, <2>2 DEF HandlerPlan
    <3>4. QED
      BY <3>2, <3>3
  <2>3. QED
    BY <2>1, <2>2
<1>8. NamesDisjoint'
  <2> SUFFICES ASSUME NEW p \in Present', NEW q \in Present',
                      NEW s \in db'[p].services, NEW t \in db'[q].services,
                      s # t, Clash(s, t)
               PROVE  p # q /\ raced'
    BY DEF NamesDisjoint
  <2>1. p # q
    BY <1>4, <1>6 DEF RowsInv, RowOK, Consistent
  <2>2. ASSUME ~raced' PROVE FALSE
    <3>1. ~raced /\ h[c].fresh
      BY <2>2 DEF WriteRow
    <3>2. CASE p # a /\ q # a
      BY <1>4, <2>1, <3>1, <3>2 DEF IInv, NamesDisjoint, Present, ProjectsIn
    <3>3. CASE p = a
      BY <1>4, <2>1, <3>1, <3>3 DEF Apart, Present, ProjectsIn
    <3>4. CASE q = a
      <4>1. Clash(t, s)
        BY DEF Clash
      <4>2. QED
        BY <1>4, <2>1, <3>1, <3>4, <4>1 DEF Apart, Present, ProjectsIn
    <3>5. QED
      BY <3>2, <3>3, <3>4
  <2>3. raced' \in BOOLEAN
    BY <1>5 DEF TypeOK
  <2>4. QED
    BY <2>1, <2>2, <2>3
<1>9. FreshInv'
  <2> SUFFICES ASSUME NEW k \in Busy', h'[k].fresh
               PROVE  /\ h'[k].pc # "queue" => PortsFree(h[k].app, h[k].next)'
                      /\ h'[k].pc \in {"apply", "save"}
                           => DomainsFree(h[k].app, h[k].next)'
                      /\ ~raced' /\ h'[k].op # "create" =>
                           \A b \in Present' \ {h'[k].app} :
                               Apart(h'[k].prev, db'[b])
    BY DEF FreshInv
  <2>1. k = c
    BY <1>2, <1>3
  <2>2. /\ h'[k].pc = "queue" /\ h'[k].op = h[c].op /\ h'[k].app = a
        /\ h'[k].prev = h[c].prev /\ h[c].fresh
    BY <1>1, <1>3, <2>1 DEF Continues
  <2>3. ~raced' => ~raced
    BY DEF WriteRow
  <2>4. ~raced /\ h[c].op # "create" =>
           \A b \in Present \ {a} : Apart(h[c].prev, db[b])
    BY <2>2 DEF IInv, FreshInv
  <2>5. QED
    BY <1>4, <2>2, <2>3, <2>4 DEF Present, ProjectsIn
<1>10. SecretsStayReal'
  <2>1. \A s \in Stored' : s.registry # Null => s.registry.password # Mask
    BY <1>6 DEF Stored, RowsInv, RowOK, Sound
  <2>2. ASSUME NEW k \in Busy'
        PROVE  /\ h'[k].next = h[k].next /\ h'[k].prev = h[k].prev
               /\ k \in Busy
    BY <1>1, <1>2, <1>3 DEF Continues
  <2>3. SecretsStayReal
    BY DEF IInv
  <2>4. QED
    BY <2>1, <2>2, <2>3 DEF SecretsStayReal
<1>11. VolumesInv'
  <2> SUFFICES ASSUME ~lapped'
               PROVE  /\ \A k \in Busy' : h'[k].op = "update"
                                            => h'[k].prev = db'[h'[k].app]
                      /\ MovesInv' /\ PlannedMoves' /\ PlannedCopies'
    BY DEF VolumesInv
  <2>1. ~lapped /\ \A k \in Busy \ {c} : h[k].app # a
    BY DEF WriteRow
  <2>2. /\ \A k \in Busy : h[k].op = "update" => h[k].prev = db[h[k].app]
        /\ MovesInv /\ PlannedMoves /\ PlannedCopies
    BY <2>1 DEF IInv, VolumesInv
  <2>3. c \in Busy' => then.op # "update" /\ ~then.moved
    <3>1. HandlerRows(h[c])
      BY DEF IInv, HandlersInv
    <3>2. QED
      BY <1>3, <3>1 DEF HandlerRows, Continues, HandlerPlan
  <2>4. Moved' = Moved \ {c}
    BY <1>1, <1>2, <1>3, <2>3 DEF Moved
  <2>5. \A k \in Busy' : h'[k].op = "update" => h'[k].prev = db'[h'[k].app]
    <3> SUFFICES ASSUME NEW k \in Busy', h'[k].op = "update"
                 PROVE  h'[k].prev = db'[h'[k].app]
      OBVIOUS
    <3>1. k \in Busy \ {c}
      BY <1>1, <1>3, <2>3
    <3>2. h[k].app \in Apps \ {a}
      BY <1>0, <2>1, <3>1 DEF Handlers
    <3>3. QED
      BY <1>2, <1>4, <2>2, <3>1, <3>2
  <2>6. MovesInv'
    BY <1>1, <1>2, <2>2, <2>4 DEF MovesInv, Moved
  <2>7. PlannedMoves'
    <3> SUFFICES ASSUME NEW k \in Busy', h'[k].pc = "apply",
                        h'[k].plan = "move"
                 PROVE  /\ h'[k].seen # 0
                        /\ \/ priv'[h'[k].id] = h'[k].seen
                           \/ \E d \in Moved' : /\ h'[d].id = h'[k].id
                                                /\ h'[d].seen = h'[k].seen
      BY DEF PlannedMoves
    <3>1. k \in Busy \ {c} /\ h[k].pc = "apply" /\ h[k].plan = "move"
      BY <1>1, <1>2, <1>3
    <3>2. \A d \in Moved : h[d].id = h[k].id => d # c
      <4>1. h[k].id # h[c].id
        BY <2>1, <3>1, PlansAgree
      <4>2. QED
        BY <4>1
    <3>3. QED
      BY <1>1, <1>2, <2>2, <2>4, <3>1, <3>2 DEF PlannedMoves, Moved
  <2>8. PlannedCopies'
    <3> SUFFICES ASSUME NEW k \in Busy', h'[k].pc = "apply",
                        h'[k].plan = "copy"
                 PROVE  \/ priv'[h'[k].id] \in {0, Partial'}
                        \/ priv'[h'[k].id] = shrd'[h'[k].app]
                        \/ \E i \in Ids \ {h'[k].id} :
                              /\ KeepsOwn(h'[k].prev, i)
                              /\ priv'[i] = priv'[h'[k].id]
      BY DEF PlannedCopies
    <3>1. k \in Busy \ {c} /\ h[k].pc = "apply" /\ h[k].plan = "copy"
      BY <1>1, <1>2, <1>3
    <3>2. Partial' = Partial
      BY DEF Partial
    <3>3. QED
      BY <1>1, <1>2, <2>2, <3>1, <3>2 DEF PlannedCopies
  <2>9. QED
    BY <2>5, <2>6, <2>7, <2>8
<1>12. QED
  BY <1>5, <1>6, <1>7, <1>8, <1>9, <1>10, <1>11 DEF IInv

\* What the checks say of a project and another one: no port, no domain.
LEMMA ApartFromChecks ==
  ASSUME NEW app, NEW other,
         AllPorts(app) \cap AllPorts(other) = {},
         AllDomains(app) \cap AllDomains(other) = {}
  PROVE  Apart(app, other)
  BY DEF Apart, Clash, AllPorts, AllDomains

\* save_app of a handler that is past its checks.
LEMMA SaveAppStep ==
  ASSUME IInv, NEW c \in Clients, SaveApp(c)
  PROVE  IInv'
<1> DEFINE then == IF h[c].deploy THEN [h[c] EXCEPT !.pc = "queue"] ELSE Idle
<1>1. c \in Busy /\ h[c].pc = "save" /\ h[c] \in Handlers
  <2>1. c \in Busy /\ h[c].pc = "save"
    BY DEF SaveApp, Busy
  <2>2. QED
    BY <2>1, IdleIsIdle DEF IInv, TypeOK
<1>2. /\ WriteRow(c, h[c].app, h[c].next, then)
      /\ UNCHANGED <<isAdmin, priv, shrd, started, writes, drawn>>
  BY DEF SaveApp
<1>3. /\ RowOK(h[c].next, h[c].app) /\ HandlerRows(h[c]) /\ HandlerPlan(h[c])
  BY <1>1 DEF IInv, HandlersInv, HandlerRows
<1>4. h[c].fresh =>
         \A b \in Present \ {h[c].app} : Apart(h[c].next, db[b])
  <2>1. h[c].fresh => /\ PortsFree(h[c].app, h[c].next)
                      /\ DomainsFree(h[c].app, h[c].next)
    BY <1>1 DEF IInv, FreshInv
  <2>2. QED
    BY <2>1, ApartFromChecks DEF PortsFree, DomainsFree
<1>5. \/ then = Idle
      \/ /\ then \in Handlers /\ Continues(then, h[c]) /\ HandlerPlan(then)
         /\ then.pc = "queue" /\ then.deploy
  <2>1. CASE ~h[c].deploy
    BY <2>1
  <2>2. CASE h[c].deploy
    <3> DEFINE q == [h[c] EXCEPT !.pc = "queue"]
    <3>1. /\ q \in Handlers /\ Continues(q, h[c]) /\ q.pc = "queue"
          /\ q.deploy /\ q.plan = h[c].plan /\ q.moved = h[c].moved
          /\ q.seen = h[c].seen
      BY <1>1, <2>2 DEF Handlers, Continues
    <3>2. then = q
      BY <2>2
    <3> HIDE DEF q, then
    <3>3. MountSwitch(q) = MountSwitch(h[c])
      BY <3>1, SwitchContinues
    <3>4. h[c].op # "update"
      BY <1>3, <2>2 DEF HandlerRows
    <3>5. MountSwitch(h[c]) = "none"
      BY <3>4 DEF MountSwitch
    <3>6. HandlerPlan(q)
      BY <1>3, <3>1, <3>3, <3>5 DEF HandlerPlan
    <3>7. QED
      BY <3>1, <3>2, <3>6
  <2>3. QED
    BY <2>1, <2>2
<1> HIDE DEF then
<1>6. QED
  BY <1>1, <1>2, <1>3, <1>4, <1>5, WriteRowStep

\* create_and_queue_deployment: queued, or the rows are taken back.
LEMMA QueueDeploymentStep ==
  ASSUME IInv, NEW c \in Clients, QueueDeployment(c)
  PROVE  IInv'
<1>1. c \in Busy /\ h[c].pc = "queue"
  BY DEF QueueDeployment, Busy
<1>2. /\ HandlerRows(h[c]) /\ HandlerPlan(h[c])
      /\ priv \in [Ids -> 0 .. Partial] /\ shrd \in [Apps -> 0 .. Partial]
  BY <1>1 DEF IInv, HandlersInv, TypeOK
<1>3. UNCHANGED <<isAdmin, priv, shrd, started, writes, drawn>>
  BY DEF QueueDeployment
<1>4. CASE Stop(c) /\ UNCHANGED <<db, ghosts>>
  <2>1. ~h[c].moved
    BY <1>1, <1>2 DEF HandlerPlan
  <2>2. VolumesInv'
    BY <1>1, <1>3, <1>4, <2>1, QuietVolumes DEF Stop
  <2>3. /\ TypeOK' /\ RowsInv' /\ HandlersInv' /\ NamesDisjoint'
        /\ FreshInv' /\ SecretsStayReal'
    BY <1>1, <1>2, <1>3, <1>4, HandlerStep DEF Stop
  <2>4. QED
    BY <2>2, <2>3 DEF IInv
<1>5. CASE WriteRow(c, h[c].app, h[c].prev, Idle)
  <2>1. h[c].prev = Null \/ RowOK(h[c].prev, h[c].app)
    BY <1>2 DEF HandlerRows
  <2>2. h[c].prev # Null => h[c].op # "create"
    BY <1>2 DEF HandlerRows
  <2>3. h[c].prev # Null /\ h[c].fresh /\ ~raced =>
           \A b \in Present \ {h[c].app} : Apart(h[c].prev, db[b])
    BY <1>1, <2>2 DEF IInv, FreshInv
  <2>4. QED
    BY <1>1, <1>3, <1>5, <2>1, <2>3, WriteRowStep
<1>6. QED
  BY <1>4, <1>5 DEF QueueDeployment

\* A container writes to a volume nobody is about to migrate.
LEMMA WriteVolumeStep ==
  ASSUME IInv, NEW a \in Apps, NEW id \in Ids, WriteVolume(a, id)
  PROVE  IInv'
<1>0. /\ UNCHANGED <<db, isAdmin, h, started, drawn, ghosts>>
      /\ writes' = writes + 1 /\ writes < MaxWrites
      /\ a \in Present /\ HasService(db[a], id)
      /\ \A c \in Busy : h[c].pc # "dns" => h[c].app # a
      /\ \/ shrd' = [shrd EXCEPT ![a] = writes + 1] /\ priv' = priv
         \/ priv' = [priv EXCEPT ![id] = writes + 1] /\ shrd' = shrd
  BY DEF WriteVolume
<1>1. /\ priv \in [Ids -> 0 .. Partial] /\ shrd \in [Apps -> 0 .. Partial]
      /\ writes \in 0 .. MaxWrites
  BY DEF IInv, TypeOK
<1>2. writes + 1 \in 0 .. MaxWrites /\ writes + 1 \in 0 .. Partial
  BY <1>0, <1>1 DEF Partial
<1>3. TypeOK'
  BY <1>0, <1>1, <1>2 DEF IInv, TypeOK, ghosts
<1>4. RowsInv' /\ HandlersInv' /\ NamesDisjoint' /\ FreshInv' /\ SecretsStayReal'
  <2>1. Present' = Present /\ Busy' = Busy /\ Stored' = Stored
    BY <1>0 DEF Present, ProjectsIn, Busy, Stored
  <2>2. RowsInv' /\ HandlersInv'
    BY <1>0, <2>1 DEF IInv, RowsInv, HandlersInv, RowOK, HandlerRows, HandlerPlan
  <2>3. /\ db' = db /\ h' = h /\ raced' = raced
    BY <1>0 DEF ghosts
  <2>4. NamesDisjoint'
    BY <2>1, <2>3 DEF IInv, NamesDisjoint
  <2>5. FreshInv'
    BY <2>1, <2>3 DEF IInv, FreshInv, PortsFree, DomainsFree
  <2>6. SecretsStayReal'
    BY <1>0, <2>1 DEF IInv, SecretsStayReal
  <2>7. QED
    BY <2>2, <2>4, <2>5, <2>6
<1>5. VolumesInv'
  <2> SUFFICES ASSUME ~lapped'
               PROVE  /\ \A k \in Busy' : h'[k].op = "update"
                                            => h'[k].prev = db'[h'[k].app]
                      /\ MovesInv' /\ PlannedMoves' /\ PlannedCopies'
    BY DEF VolumesInv
  <2>0. ~lapped
    BY <1>0 DEF ghosts
  <2>1. /\ \A k \in Busy : h[k].op = "update" => h[k].prev = db[h[k].app]
        /\ MovesInv /\ PlannedMoves /\ PlannedCopies
    BY <2>0 DEF IInv, VolumesInv
  <2>2. Busy' = Busy /\ Moved' = Moved /\ h' = h /\ Partial' = Partial
    BY <1>0 DEF Busy, Moved, Partial
  <2>3. drawn[id] = a
    BY <1>0 DEF IInv, RowsInv, RowOK, HasService
  <2>4. \A k \in Busy : h[k].plan # "none" =>
           /\ h[k].app \in Apps /\ h[k].app # a
           /\ h[k].id \in Ids /\ h[k].id # id
           /\ ~KeepsOwn(h[k].prev, id)
    <3> SUFFICES ASSUME NEW k \in Busy, h[k].plan # "none"
                 PROVE  /\ h[k].app \in Apps /\ h[k].app # a
                        /\ h[k].id \in Ids /\ h[k].id # id
                        /\ ~KeepsOwn(h[k].prev, id)
      OBVIOUS
    <3>1. h[k] \in Handlers /\ HandlerRows(h[k]) /\ HandlerPlan(h[k])
      BY IdleIsIdle DEF IInv, TypeOK, HandlersInv, Busy
    <3>2. /\ h[k].app \in Apps /\ h[k].id \in Ids /\ drawn[h[k].id] = h[k].app
          /\ h[k].pc # "dns" /\ h[k].op = "update" /\ RowOK(h[k].prev, h[k].app)
      BY <3>1, <2>0, PlansAgree DEF Handlers, HandlerRows, HandlerPlan
    <3>3. h[k].app # a
      BY <1>0, <3>2
    <3>4. ~KeepsOwn(h[k].prev, id)
      BY <2>3, <3>2, <3>3 DEF KeepsOwn, HasService, RowOK
    <3>5. QED
      BY <2>3, <3>2, <3>3, <3>4
  <2>5. /\ \A k \in Busy : h[k].plan # "none" =>
              /\ priv'[h[k].id] = priv[h[k].id]
              /\ shrd'[h[k].app] = shrd[h[k].app]
        /\ \A i \in Ids : i # id => priv'[i] = priv[i]
    BY <1>0, <1>1, <2>4
  <2>6. \A k \in Moved : k \in Busy /\ h[k].plan # "none"
    BY DEF Moved, IInv, HandlersInv, HandlerPlan
  <2>7. \A k \in Busy' : h'[k].op = "update" => h'[k].prev = db'[h'[k].app]
    BY <1>0, <2>1, <2>2
  <2>8. MovesInv'
    BY <2>1, <2>2, <2>5, <2>6 DEF MovesInv
  <2>9. PlannedMoves'
    BY <2>1, <2>2, <2>5 DEF PlannedMoves
  <2>10. PlannedCopies'
    BY <2>1, <2>2, <2>4, <2>5 DEF PlannedCopies
  <2>11. QED
    BY <2>7, <2>8, <2>9, <2>10
<1>6. QED
  BY <1>3, <1>4, <1>5 DEF IInv

\* The invariant does not look at what clients are shown.
LEMMA OnlyViews ==
  ASSUME IInv,
         /\ db' = db /\ isAdmin' = isAdmin /\ h' = h /\ priv' = priv
         /\ shrd' = shrd /\ started' = started /\ writes' = writes
         /\ drawn' = drawn /\ raced' = raced /\ lapped' = lapped
  PROVE  IInv'
<1>1. /\ db' = db /\ isAdmin' = isAdmin /\ h' = h /\ priv' = priv
      /\ shrd' = shrd /\ started' = started /\ writes' = writes
      /\ drawn' = drawn /\ raced' = raced /\ lapped' = lapped
  OBVIOUS
<1>2. /\ Present' = Present /\ Busy' = Busy /\ Stored' = Stored /\ Moved' = Moved
  BY <1>1 DEF Present, ProjectsIn, Busy, Stored, Moved
<1>3. TypeOK'
  BY <1>1 DEF IInv, TypeOK
<1>4. RowsInv' /\ HandlersInv'
  BY <1>1, <1>2 DEF IInv, RowsInv, HandlersInv, RowOK, HandlerRows, HandlerPlan
<1>5. NamesDisjoint'
  BY <1>1, <1>2 DEF IInv, NamesDisjoint
<1>6. FreshInv'
  BY <1>1, <1>2 DEF IInv, FreshInv, PortsFree, DomainsFree
<1>7. SecretsStayReal'
  BY <1>1, <1>2 DEF IInv, SecretsStayReal
<1>8. VolumesInv'
  BY <1>1, <1>2
     DEF IInv, VolumesInv, MovesInv, PlannedMoves, PlannedCopies
<1>9. QED
  BY <1>3, <1>4, <1>5, <1>6, <1>7, <1>8 DEF IInv

\* get_service_settings changes nothing but what its client is shown.
LEMMA LoadSettingsStep ==
  ASSUME IInv, NEW c \in Clients, NEW a \in Apps, NEW id \in Ids,
         LoadSettings(c, a, id)
  PROVE  IInv'
  BY OnlyViews DEF LoadSettings, ghosts

\* validate_port_mappings and the first half of validate_app_service_domains:
\* no two services of a row that passed name the same thing.
LEMMA CheckedIsConsistent ==
  ASSUME NEW a, NEW app, PortMappingsValid(a, app), DomainsDistinct(app)
  PROVE  Consistent(app) /\ PortsFree(a, app)
  BY DEF PortMappingsValid, DomainsDistinct, Consistent, Clash

\* A handler that got past its first checks, with rows of its own project.
LEMMA BeginStep ==
  ASSUME IInv, NEW c \in Clients, h[c].pc = "idle",
         NEW op \in {"create", "add", "update"}, NEW a \in Apps, NEW id \in Ids,
         NEW prev \in Project \cup {Null}, NEW next \in Project,
         NEW deploy \in BOOLEAN,
         Begin(c, op, a, id, prev, next, deploy),
         drawn[id] \in {Null, a},
         \A s \in next.services :
            Sound(s, isAdmin) /\ (drawn[s.id] = a \/ s.id = id),
         op = "create" => prev = Null,
         op # "create" => a \in Present /\ prev = db[a],
         op = "update" => /\ HasService(prev, id) /\ HasService(next, id)
                          /\ Siblings(next, id) = Siblings(prev, id)
                          /\ ~deploy,
         \A s \in next.services :
            s.env # Null /\ s.env.secret /\ s.env.val = Mask
            => /\ prev # Null
               /\ \E t \in prev.services :
                     t.id = s.id /\ t.env # Null /\ t.env.val = Mask
  PROVE  IInv'
<1> DEFINE r == Handler("dns", op, a, id, prev, next, deploy)
<1>0. /\ h' = [h EXCEPT ![c] = r] /\ drawn' = [drawn EXCEPT ![id] = a]
      /\ db' = db /\ isAdmin' = isAdmin /\ priv' = priv /\ shrd' = shrd
      /\ writes' = writes /\ raced' = raced /\ lapped' = lapped
      /\ started' = started + 1 /\ started < MaxHandlers
      /\ Consistent(next) /\ PortsFree(a, next)
  <2>1. PortMappingsValid(a, next) /\ DomainsDistinct(next)
    BY DEF Begin
  <2>2. QED
    BY <2>1, CheckedIsConsistent DEF Begin, ghosts
<1>1. /\ h \in [Clients -> Handlers \cup {Idle}] /\ db \in Rows
      /\ drawn \in [Ids -> Apps \cup {Null}]
      /\ started \in 0 .. MaxHandlers /\ MaxHandlers \in Nat /\ Null \notin Apps
  BY InventoryAssumption DEF IInv, TypeOK
<1>2. /\ r \in Handlers /\ r.pc = "dns" /\ r.op = op /\ r.app = a
      /\ r.id = id /\ r.prev = prev /\ r.next = next /\ r.deploy = deploy
      /\ r.plan = "none" /\ r.moved = FALSE /\ r.fresh = TRUE /\ r.seen = 0
  <2>1. 0 \in 0 .. Partial
    BY InventoryAssumption DEF Partial
  <2>2. QED
    BY <2>1 DEF Handler, Handlers
<1> HIDE DEF r
<1>3. /\ \A k \in Clients \ {c} : h'[k] = h[k]
      /\ h'[c] = r /\ c \notin Busy
      /\ Busy' = Busy \cup {c}
      /\ Present' = Present /\ Stored' = Stored /\ Moved' = Moved
  <2>1. /\ \A k \in Clients \ {c} : h'[k] = h[k]
        /\ h'[c] = r /\ c \notin Busy
        /\ Present' = Present /\ Stored' = Stored
    BY <1>0, <1>1 DEF Busy, Present, ProjectsIn, Stored
  <2>2. Busy' = Busy \cup {c}
    BY <1>2, <2>1 DEF Busy
  <2>3. Moved' = Moved
    BY <1>2, <2>1, <2>2 DEF Moved, Busy
  <2>4. QED
    BY <2>1, <2>2, <2>3
<1>4. TypeOK'
  <2>1. h' \in [Clients -> Handlers \cup {Idle}]
    BY <1>0, <1>1, <1>2
  <2>2. drawn' \in [Ids -> Apps \cup {Null}] /\ started' \in 0 .. MaxHandlers
    BY <1>0, <1>1
  <2>3. QED
    BY <1>0, <2>1, <2>2 DEF IInv, TypeOK
\* An id that is drawn stays drawn for its project.
<1>5. \A i \in Ids : /\ drawn[i] \in Apps => drawn'[i] = drawn[i]
                     /\ i = id => drawn'[i] = a
  BY <1>0, <1>1
<1>6. \A b \in Apps : \A app :
         RowOK(app, b) =>
            /\ app \in Project /\ Consistent(app)
            /\ \A s \in app.services : Sound(s, isAdmin') /\ drawn'[s.id] = b
  <2> SUFFICES ASSUME NEW b \in Apps, NEW app, RowOK(app, b)
               PROVE  /\ app \in Project /\ Consistent(app)
                      /\ \A s \in app.services :
                            Sound(s, isAdmin') /\ drawn'[s.id] = b
    OBVIOUS
  <2>1. \A s \in app.services : s.id \in Ids
    BY DEF RowOK, Project, ContainerService
  <2>2. QED
    BY <1>0, <1>5, <2>1 DEF RowOK
<1>7. /\ next \in Project /\ Consistent(next)
      /\ \A s \in next.services : Sound(s, isAdmin') /\ drawn'[s.id] = a
  <2>1. \A s \in next.services : s.id \in Ids
    BY DEF Project, ContainerService
  <2>2. QED
    BY <1>0, <1>5, <2>1
<1>8. RowsInv'
  <2> SUFFICES ASSUME NEW b \in Present
               PROVE  RowOK(db[b], b)'
    BY <1>3 DEF RowsInv
  <2>1. b \in Apps /\ RowOK(db[b], b)
    BY DEF IInv, RowsInv, Present, ProjectsIn
  <2>2. QED
    BY <1>0, <1>6, <2>1 DEF RowOK
<1>9. HandlersInv'
  <2> SUFFICES ASSUME NEW k \in Busy'
               PROVE  HandlerRows(h[k])' /\ HandlerPlan(h[k])'
    BY DEF HandlersInv
  <2>1. CASE k # c
    <3>1. k \in Busy /\ h'[k] = h[k] /\ HandlerRows(h[k]) /\ HandlerPlan(h[k])
      BY <1>3, <2>1 DEF IInv, HandlersInv, Busy
    <3>2. h[k] \in Handlers
      BY <1>1, <3>1, IdleIsIdle DEF Busy
    <3>3. /\ h[k].app \in Apps /\ h[k].id \in Ids
          /\ drawn'[h[k].id] = h[k].app
      BY <1>5, <3>1, <3>2 DEF Handlers, HandlerRows
    <3>4. HandlerRows(h[k])'
      <4>1. RowOK(h[k].next, h[k].app)'
        BY <1>6, <3>1, <3>3 DEF HandlerRows, RowOK
      <4>2. h[k].op # "create" => RowOK(h[k].prev, h[k].app)'
        BY <1>6, <3>1, <3>3 DEF HandlerRows, RowOK
      <4>3. QED
        BY <3>1, <3>3, <4>1, <4>2 DEF HandlerRows
    <3>5. HandlerPlan(h[k])'
      BY <3>1 DEF HandlerPlan
    <3>6. QED
      BY <3>4, <3>5
  <2>2. CASE k = c
    <3>1. h'[k] = r
      BY <1>3, <2>2
    <3>2. op # "create" => RowOK(db[a], a)
      BY DEF IInv, RowsInv
    <3>3. RowOK(h[k].next, h[k].app)'
      BY <1>2, <1>7, <3>1 DEF RowOK
    <3>4. op # "create" => RowOK(h[k].prev, h[k].app)'
      BY <1>2, <1>6, <3>1, <3>2 DEF RowOK
    <3>5. HandlerRows(h[k])'
      BY <1>2, <1>5, <3>1, <3>3, <3>4 DEF HandlerRows
    <3>6. HandlerPlan(h[k])'
      BY <1>2, <3>1 DEF HandlerPlan
    <3>7. QED
      BY <3>5, <3>6
  <2>3. QED
    BY <2>1, <2>2
<1>10. NamesDisjoint'
  BY <1>0, <1>3 DEF IInv, NamesDisjoint
<1>11. FreshInv'
  <2> SUFFICES ASSUME NEW k \in Busy', h'[k].fresh
               PROVE  /\ h'[k].pc # "queue" => PortsFree(h[k].app, h[k].next)'
                      /\ h'[k].pc \in {"apply", "save"}
                           => DomainsFree(h[k].app, h[k].next)'
                      /\ ~raced' /\ h'[k].op # "create" =>
                           \A b \in Present' \ {h'[k].app} :
                               Apart(h'[k].prev, db'[b])
    BY DEF FreshInv
  <2>1. CASE k # c
    <3>1. k \in Busy /\ h'[k] = h[k]
      BY <1>3, <2>1 DEF Busy
    <3>2. QED
      BY <1>0, <1>3, <3>1 DEF IInv, FreshInv, PortsFree, DomainsFree
  <2>2. CASE k = c
    <3>1. h'[k] = r
      BY <1>3, <2>2
    <3>2. PortsFree(h[k].app, h[k].next)'
      BY <1>0, <1>2, <1>3, <3>1 DEF PortsFree
    <3>3. ~raced /\ op # "create" =>
             \A b \in Present \ {a} : Apart(db[a], db[b])
      <4> SUFFICES ASSUME ~raced, op # "create", NEW b \in Present \ {a},
                          NEW s \in db[a].services, NEW t \in db[b].services
                   PROVE  ~Clash(s, t)
        BY DEF Apart
      <4>1. a \in Present /\ b \in Present /\ RowOK(db[a], a) /\ RowOK(db[b], b)
        BY DEF IInv, RowsInv
      <4>2. s # t
        BY <4>1 DEF RowOK
      <4>3. QED
        BY <4>1, <4>2 DEF IInv, NamesDisjoint
    <3>4. QED
      BY <1>0, <1>2, <1>3, <3>1, <3>2, <3>3
  <2>3. QED
    BY <2>1, <2>2
<1>12. SecretsStayReal'
  <2>1. \A s \in Stored' : s.registry # Null => s.registry.password # Mask
    BY <1>3 DEF IInv, SecretsStayReal
  <2> SUFFICES ASSUME NEW k \in Busy', NEW s \in h'[k].next.services,
                      s.env # Null /\ s.env.secret /\ s.env.val = Mask
               PROVE  /\ h'[k].prev # Null
                      /\ \E t \in h'[k].prev.services :
                            t.id = s.id /\ t.env # Null /\ t.env.val = Mask
    BY <2>1 DEF SecretsStayReal
  <2>2. CASE k # c
    <3>1. k \in Busy /\ h'[k] = h[k]
      BY <1>3, <2>2 DEF Busy
    <3>2. QED
      BY <3>1 DEF IInv, SecretsStayReal
  <2>3. CASE k = c
    BY <1>2, <1>3, <2>3
  <2>4. QED
    BY <2>2, <2>3
<1>13. VolumesInv'
  <2> SUFFICES ASSUME ~lapped'
               PROVE  /\ \A k \in Busy' : h'[k].op = "update"
                                            => h'[k].prev = db'[h'[k].app]
                      /\ MovesInv' /\ PlannedMoves' /\ PlannedCopies'
    BY DEF VolumesInv
  <2>1. /\ \A k \in Busy : h[k].op = "update" => h[k].prev = db[h[k].app]
        /\ MovesInv /\ PlannedMoves /\ PlannedCopies
    BY <1>0 DEF IInv, VolumesInv
  <2>2. \A k \in Busy' : h'[k].op = "update" => h'[k].prev = db'[h'[k].app]
    BY <1>0, <1>2, <1>3, <2>1 DEF Busy
  <2>3. \A k \in Busy : h'[k] = h[k] /\ k \in Clients
    BY <1>3 DEF Busy
  <2>4. \A k \in Moved : h'[k] = h[k]
    BY <2>3 DEF Moved
  <2>5. MovesInv'
    BY <1>0, <1>3, <2>1, <2>4 DEF MovesInv
  <2>6. PlannedMoves'
    BY <1>0, <1>2, <1>3, <2>1, <2>3, <2>4 DEF PlannedMoves
  <2>7. PlannedCopies'
    BY <1>0, <1>2, <1>3, <2>1, <2>3 DEF PlannedCopies
  <2>8. QED
    BY <2>2, <2>5, <2>6, <2>7
<1>14. QED
  BY <1>4, <1>8, <1>9, <1>10, <1>11, <1>12, <1>13 DEF IInv

\* build_services over a whole project: the updated service obeys the rules
\* under its old id, every sibling comes back as it was.
LEMMA RebuiltProject ==
  ASSUME NEW app \in Project, NEW id, NEW req \in ServiceRequest,
         isAdmin \in BOOLEAN, HasService(app, id),
         \A s \in app.services : Sound(s, isAdmin),
         NEW services \in RebuiltServices(app, id, req)
  PROVE  /\ services \subseteq ContainerService(Ids)
         /\ \E s \in services : s.id = id
         /\ {s \in services : s.id # id} = Siblings(app, id)
         /\ \A s \in services :
               /\ Sound(s, isAdmin)
               /\ \E t \in app.services :
                     /\ t.id = s.id
                     /\ s.env # Null /\ s.env.secret /\ s.env.val = Mask
                          => t.env # Null /\ t.env.val = Mask
<1>1. /\ \A t \in app.services : Rebuilt(t, id, req) # {}
      /\ services = UNION {Rebuilt(t, id, req) : t \in app.services}
  BY DEF RebuiltServices
<1>2. app.services \subseteq ContainerService(Ids)
  BY DEF Project
<1>3. \A t \in app.services : t.id = id => Rebuilt(t, id, req) \subseteq
         {s \in ContainerService(Ids) :
            /\ Sound(s, isAdmin) /\ s.id = id
            /\ s.env # Null /\ s.env.secret /\ s.env.val = Mask
                 => t.env # Null /\ t.env.val = Mask}
  <2> SUFFICES ASSUME NEW t \in app.services, t.id = id,
                      NEW s \in Rebuilt(t, id, req)
               PROVE  /\ s \in ContainerService(Ids)
                      /\ Sound(s, isAdmin) /\ s.id = id
                      /\ s.env # Null /\ s.env.secret /\ s.env.val = Mask
                           => t.env # Null /\ t.env.val = Mask
    OBVIOUS
  <2>1. s \in BuildService(req, t, isAdmin)
    BY DEF Rebuilt
  <2>2. t \in ContainerService(Ids) /\ Stands(t, isAdmin)
    BY <1>2, SoundStands
  <2>3. QED
    BY <2>1, <2>2, BuildServiceSound
<1>4. \A t \in app.services : t.id # id => Rebuilt(t, id, req) = {t}
  <2> SUFFICES ASSUME NEW t \in app.services, t.id # id
               PROVE  Rebuilt(t, id, req) = {t}
    OBVIOUS
  <2>1. BuildService(ServiceRequestFromModel(t), t, isAdmin) \subseteq {t}
    BY <1>2, RoundTrip
  <2>2. Rebuilt(t, id, req)
          = BuildService(ServiceRequestFromModel(t), t, isAdmin)
    BY DEF Rebuilt
  <2>3. QED
    BY <1>1, <2>1, <2>2
<1>5. \A s \in services : \E t \in app.services : s \in Rebuilt(t, id, req)
  BY <1>1
<1>6. \A s \in services :
         /\ s \in ContainerService(Ids) /\ Sound(s, isAdmin)
         /\ s.id # id => s \in app.services
         /\ \E t \in app.services :
               /\ t.id = s.id
               /\ s.env # Null /\ s.env.secret /\ s.env.val = Mask
                    => t.env # Null /\ t.env.val = Mask
  <2> SUFFICES ASSUME NEW s \in services
               PROVE  /\ s \in ContainerService(Ids) /\ Sound(s, isAdmin)
                      /\ s.id # id => s \in app.services
                      /\ \E t \in app.services :
                            /\ t.id = s.id
                            /\ s.env # Null /\ s.env.secret /\ s.env.val = Mask
                                 => t.env # Null /\ t.env.val = Mask
    OBVIOUS
  <2>1. PICK t \in app.services : s \in Rebuilt(t, id, req)
    BY <1>5
  <2>2. CASE t.id = id
    BY <1>3, <2>1, <2>2
  <2>3. CASE t.id # id
    <3>1. s = t
      BY <1>4, <2>1, <2>3
    <3>2. QED
      BY <1>2, <3>1
  <2>4. QED
    BY <2>2, <2>3
<1>7. \A t \in app.services : t.id # id => t \in services
  BY <1>1, <1>4
<1>8. \E s \in services : s.id = id
  <2>1. PICK t \in app.services : t.id = id
    BY DEF HasService
  <2>2. PICK s \in Rebuilt(t, id, req) : TRUE
    BY <1>1
  <2>3. QED
    BY <1>1, <1>3, <2>1, <2>2
<1>9. {s \in services : s.id # id} = Siblings(app, id)
  BY <1>6, <1>7 DEF Siblings
<1>10. QED
  BY <1>6, <1>8, <1>9

\* update_service: the row it has read with one service changed.
LEMMA UpdateServiceStep ==
  ASSUME IInv, NEW c \in Clients, NEW e \in Edits,
         UpdateService(c, e.service, e.repo, e.env)
  PROVE  IInv'
<1> DEFINE a == view[c].app
           id == view[c].id
           req == Edited(view[c].req, e.service)
<1>1. /\ h[c].pc = "idle" /\ a \in Present /\ HasService(db[a], id)
      /\ req \in ServiceRequest
  BY DEF UpdateService
<1>2. PICK services \in RebuiltServices(db[a], id, req),
           env \in BuildAppEnvVars(e.env, db[a].env) :
         Begin(c, "update", a, id, db[a],
               [repo |-> IF e.repo = Absent THEN db[a].repo ELSE e.repo,
                env |-> env, services |-> services], FALSE)
  BY DEF UpdateService
<1> DEFINE next == [repo |-> IF e.repo = Absent THEN db[a].repo ELSE e.repo,
                    env |-> env, services |-> services]
<1>3. /\ RowOK(db[a], a) /\ a \in Apps /\ db[a] \in Project
      /\ isAdmin \in BOOLEAN
      /\ e.repo \in BOOLEAN \cup {Absent} /\ e.env \in EnvVarField
  BY <1>1, InventoryAssumption
     DEF IInv, RowsInv, RowOK, Present, ProjectsIn, TypeOK
<1> HIDE DEF req, id, a
<1>4. \A s \in db[a].services : Sound(s, isAdmin) /\ drawn[s.id] = a
  BY <1>3 DEF RowOK
<1>5. /\ services \subseteq ContainerService(Ids)
      /\ \E s \in services : s.id = id
      /\ {s \in services : s.id # id} = Siblings(db[a], id)
      /\ \A s \in services :
            /\ Sound(s, isAdmin)
            /\ \E t \in db[a].services :
                  /\ t.id = s.id
                  /\ s.env # Null /\ s.env.secret /\ s.env.val = Mask
                       => t.env # Null /\ t.env.val = Mask
  BY <1>1, <1>2, <1>3, <1>4, RebuiltProject
<1>6. env \in EnvVar \cup {Null} /\ db[a].repo \in BOOLEAN
  <2>1. db[a].env \in EnvVar \cup {Null} /\ db[a].repo \in BOOLEAN
    BY <1>3 DEF Project
  <2>2. env \in BuildServiceEnvVars(e.env, db[a].env)
    BY <1>2 DEF BuildAppEnvVars
  <2>3. QED
    BY <1>3, <2>1, <2>2, EnvVarResolved
<1>7. /\ next \in Project /\ next.services = services
  BY <1>3, <1>5, <1>6 DEF Project
<1>8. Begin(c, "update", a, id, db[a], next, FALSE)
  BY <1>2
<1> HIDE DEF next
<1>9. id \in Ids /\ drawn[id] = a
  <2>1. PICK s \in db[a].services : s.id = id
    BY <1>1 DEF HasService
  <2>2. QED
    BY <1>3, <1>4, <2>1 DEF Project, ContainerService
<1>10. /\ \A s \in next.services :
             /\ Sound(s, isAdmin) /\ drawn[s.id] = a
             /\ s.env # Null /\ s.env.secret /\ s.env.val = Mask
                => \E t \in db[a].services :
                      t.id = s.id /\ t.env # Null /\ t.env.val = Mask
       /\ HasService(next, id) /\ Siblings(next, id) = Siblings(db[a], id)
       /\ db[a] # Null
  BY <1>1, <1>4, <1>5, <1>7 DEF HasService, Siblings, Present, ProjectsIn
<1>11. PICK deploy \in BOOLEAN, op \in {"create", "add", "update"} :
          deploy = FALSE /\ op = "update"
  OBVIOUS
<1>12. /\ Begin(c, op, a, id, db[a], next, deploy)
       /\ op # "create" /\ (op = "update" => ~deploy)
       /\ db[a] \in Project \cup {Null} /\ drawn[id] \in {Null, a}
       /\ \A s \in next.services :
             Sound(s, isAdmin) /\ (drawn[s.id] = a \/ s.id = id)
       /\ \A s \in next.services :
             s.env # Null /\ s.env.secret /\ s.env.val = Mask
             => /\ db[a] # Null
                /\ \E t \in db[a].services :
                      t.id = s.id /\ t.env # Null /\ t.env.val = Mask
  BY <1>3, <1>8, <1>9, <1>10, <1>11
<1>13. QED
  BY <1>1, <1>3, <1>7, <1>9, <1>10, <1>12, BeginStep

\* ContainerService::new and build_services: a new service has an id nobody
\* has, obeys the rules and holds no mask.
LEMMA NewServiceBuilt ==
  ASSUME IInv, NEW req \in ServiceRequest, \E i \in Ids : drawn[i] = Null,
         NEW s \in BuildService(req, NewService(NewId, req), isAdmin)
  PROVE  /\ s \in ContainerService(Ids) /\ Sound(s, isAdmin)
         /\ s.id \in Ids /\ drawn[s.id] = Null
         /\ ~(s.env # Null /\ s.env.secret /\ s.env.val = Mask)
<1>1. NewId \in Ids /\ drawn[NewId] = Null
  BY DEF NewId
<1>2. isAdmin \in BOOLEAN
  BY DEF IInv, TypeOK
<1> DEFINE old == NewService(NewId, req)
<1>3. /\ old \in ContainerService(Ids) /\ Stands(old, isAdmin)
      /\ old.id = NewId /\ old.env = Null
  BY <1>1, NewServiceStands
<1>4. s \in BuildService(req, old, isAdmin)
  OBVIOUS
<1> HIDE DEF old
<1>5. /\ s \in ContainerService(Ids) /\ Sound(s, isAdmin) /\ s.id = old.id
      /\ s.env # Null /\ s.env.secret /\ s.env.val = Mask
           => old.env # Null /\ old.env.val = Mask
  BY <1>2, <1>3, <1>4, BuildServiceSound
<1>6. QED
  BY <1>1, <1>3, <1>5

\* create_repository_service and create_stack_service: a row of one service.
LEMMA NewProjectStep ==
  ASSUME IInv, NEW c \in Clients, h[c].pc = "idle", NEW a \in Apps,
         NEW s \in ContainerService(Ids), Sound(s, isAdmin),
         s.id \in Ids, drawn[s.id] = Null,
         ~(s.env # Null /\ s.env.secret /\ s.env.val = Mask),
         NEW repo \in BOOLEAN, NEW env \in EnvVar \cup {Null},
         NEW deploy \in BOOLEAN,
         Begin(c, "create", a, s.id, Null,
               [repo |-> repo, env |-> env, services |-> {s}], deploy)
  PROVE  IInv'
<1> DEFINE next == [repo |-> repo, env |-> env, services |-> {s}]
<1>1. next \in Project /\ next.services = {s}
  BY DEF Project
<1>2. Begin(c, "create", a, s.id, Null, next, deploy)
  OBVIOUS
<1> HIDE DEF next
<1>3. PICK op \in {"create", "add", "update"}, prev \in Project \cup {Null} :
         op = "create" /\ prev = Null
  OBVIOUS
<1>4. /\ Begin(c, op, a, s.id, prev, next, deploy)
      /\ op # "update"
      /\ drawn[s.id] \in {Null, a}
      /\ \A t \in next.services :
            Sound(t, isAdmin) /\ (drawn[t.id] = a \/ t.id = s.id)
      /\ \A t \in next.services :
            t.env # Null /\ t.env.secret /\ t.env.val = Mask
            => /\ prev # Null
               /\ \E u \in prev.services :
                     u.id = t.id /\ u.env # Null /\ u.env.val = Mask
  BY <1>1, <1>2, <1>3
<1>5. QED
  BY <1>1, <1>3, <1>4, BeginStep

\* add_services_to_project: the row it has read and one service more.
LEMMA AddServicesStep ==
  ASSUME IInv, NEW c \in Clients, h[c].pc = "idle", NEW a \in Apps,
         NEW n \in NewRequests, \E i \in Ids : drawn[i] = Null,
         a \in Present, AddServicesToProject(c, a, n)
  PROVE  IInv'
<1>1. PICK s \in BuildService(n.service, NewService(NewId, n.service), isAdmin),
           env \in BuildAppEnvVars(n.env, Null) :
         Begin(c, "add", a, s.id, db[a],
               [repo |-> db[a].repo \/ (n.repo /\ ~n.stack),
                env |-> IF db[a].env = Null THEN env ELSE db[a].env,
                services |-> db[a].services \cup {s}], n.stack \/ n.deploy)
  BY DEF AddServicesToProject
<1> DEFINE next == [repo |-> db[a].repo \/ (n.repo /\ ~n.stack),
                    env |-> IF db[a].env = Null THEN env ELSE db[a].env,
                    services |-> db[a].services \cup {s}]
<1>2. /\ n.service \in ServiceRequest /\ n.env \in EnvVarField
      /\ n.repo \in BOOLEAN /\ n.stack \in BOOLEAN /\ n.deploy \in BOOLEAN
  BY InventoryAssumption
<1>3. /\ s \in ContainerService(Ids) /\ Sound(s, isAdmin)
      /\ s.id \in Ids /\ drawn[s.id] = Null
      /\ ~(s.env # Null /\ s.env.secret /\ s.env.val = Mask)
  BY <1>2, NewServiceBuilt
<1>4. /\ db[a] \in Project /\ db[a] # Null
      /\ \A t \in db[a].services : Sound(t, isAdmin) /\ drawn[t.id] = a
  BY DEF IInv, RowsInv, RowOK, Present, ProjectsIn
<1>5. env \in EnvVar \cup {Null}
  BY <1>2, EnvVarResolved DEF BuildAppEnvVars
<1>6. next \in Project /\ next.services = db[a].services \cup {s}
  <2>1. /\ db[a].env \in EnvVar \cup {Null} /\ db[a].repo \in BOOLEAN
        /\ db[a].services \subseteq ContainerService(Ids)
    BY <1>4 DEF Project
  <2>2. (db[a].repo \/ (n.repo /\ ~n.stack)) \in BOOLEAN
    BY <1>2, <2>1
  <2>3. QED
    BY <1>3, <1>5, <2>1, <2>2 DEF Project
<1>7. PICK op \in {"create", "add", "update"}, deploy \in BOOLEAN :
         op = "add" /\ deploy = (n.stack \/ n.deploy)
  BY <1>2
<1>8. Begin(c, op, a, s.id, db[a], next, deploy)
  BY <1>1, <1>7
<1> HIDE DEF next
<1>9. /\ op \notin {"create", "update"}
      /\ drawn[s.id] \in {Null, a} /\ db[a] \in Project \cup {Null}
      /\ \A t \in next.services :
            Sound(t, isAdmin) /\ (drawn[t.id] = a \/ t.id = s.id)
      /\ \A t \in next.services :
            t.env # Null /\ t.env.secret /\ t.env.val = Mask
            => /\ db[a] # Null
               /\ \E u \in db[a].services :
                     u.id = t.id /\ u.env # Null /\ u.env.val = Mask
  BY <1>3, <1>4, <1>6, <1>7
<1>10. QED
  BY <1>3, <1>6, <1>8, <1>9, BeginStep

\* create_service, whichever way it goes.
LEMMA CreateServiceStep ==
  ASSUME IInv, NEW c \in Clients, NEW a \in Apps, NEW n \in NewRequests,
         CreateService(c, a, n)
  PROVE  IInv'
<1>1. /\ h[c].pc = "idle" /\ \E i \in Ids : drawn[i] = Null
  BY DEF CreateService
<1>2. /\ n.service \in ServiceRequest /\ n.env \in EnvVarField \ {Invalid}
      /\ n.repo \in BOOLEAN /\ n.stack \in BOOLEAN /\ n.deploy \in BOOLEAN
  BY InventoryAssumption
<1>3. CASE a \in Present /\ AddServicesToProject(c, a, n)
  BY <1>1, <1>3, AddServicesStep
<1>4. CASE CreateStackService(c, a, n)
  <2>1. PICK s \in BuildService(n.service, NewService(NewId, n.service),
                                isAdmin),
             env \in BuildAppEnvVars(n.env, Null) :
           Begin(c, "create", a, s.id, Null,
                 [repo |-> FALSE, env |-> env, services |-> {s}], TRUE)
    BY <1>4 DEF CreateStackService
  <2>2. /\ s \in ContainerService(Ids) /\ Sound(s, isAdmin)
        /\ s.id \in Ids /\ drawn[s.id] = Null
        /\ ~(s.env # Null /\ s.env.secret /\ s.env.val = Mask)
    BY <1>1, <1>2, NewServiceBuilt
  <2>3. env \in EnvVar \cup {Null}
    BY <1>2, EnvVarResolved DEF BuildAppEnvVars
  <2>4. PICK repo \in BOOLEAN, deploy \in BOOLEAN : repo = FALSE /\ deploy = TRUE
    OBVIOUS
  <2>5. Begin(c, "create", a, s.id, Null,
              [repo |-> repo, env |-> env, services |-> {s}], deploy)
    BY <2>1, <2>4
  <2>6. QED
    BY <1>1, <2>2, <2>3, <2>5, NewProjectStep
<1>5. CASE CreateRepositoryService(c, a, n)
  <2> DEFINE sent == IF n.env \in {Absent, Null} THEN Null
                     ELSE [val |-> n.env.val, secret |-> n.env.secret = TRUE]
  <2>1. PICK s \in BuildService(n.service, NewService(NewId, n.service),
                                isAdmin) :
           Begin(c, "create", a, s.id, Null,
                 [repo |-> n.repo, env |-> sent, services |-> {s}], n.deploy)
    BY <1>5 DEF CreateRepositoryService
  <2>2. /\ s \in ContainerService(Ids) /\ Sound(s, isAdmin)
        /\ s.id \in Ids /\ drawn[s.id] = Null
        /\ ~(s.env # Null /\ s.env.secret /\ s.env.val = Mask)
    BY <1>1, <1>2, NewServiceBuilt
  <2>3. sent \in EnvVar \cup {Null}
    <3>1. CASE n.env \in {Absent, Null}
      BY <3>1
    <3>2. CASE n.env \notin {Absent, Null}
      <4>1. n.env.val \in Texts
        BY <1>2, <3>2 DEF EnvVarField, EnvVarRequest
      <4>2. (n.env.secret = TRUE) \in BOOLEAN
        OBVIOUS
      <4>3. QED
        BY <3>2, <4>1, <4>2 DEF EnvVar
    <3>3. QED
      BY <3>1, <3>2
  <2> HIDE DEF sent
  <2>4. PICK repo \in BOOLEAN, deploy \in BOOLEAN :
           repo = n.repo /\ deploy = n.deploy
    BY <1>2
  <2>5. Begin(c, "create", a, s.id, Null,
              [repo |-> repo, env |-> sent, services |-> {s}], deploy)
    BY <2>1, <2>4
  <2>6. QED
    BY <1>1, <2>2, <2>3, <2>5, NewProjectStep
<1>6. QED
  BY <1>3, <1>4, <1>5 DEF CreateService

-----------------------------------------------------------------------------
(* Theorems *)

\* The database the server starts with was written by these handlers.
LEMMA InitIInv == Init => IInv
<1> SUFFICES ASSUME Init
             PROVE  IInv
  OBVIOUS
<1>1. /\ db \in InitialApps /\ db \in Rows /\ isAdmin \in BOOLEAN
      /\ h = [c \in Clients |-> Idle] /\ priv = [i \in Ids |-> 0]
      /\ shrd = [a \in Apps |-> 0] /\ started = 0 /\ writes = 0
      /\ drawn \in [Ids -> Apps \cup {Null}] /\ raced = FALSE /\ lapped = FALSE
  BY InventoryAssumption DEF Init
<1>2. /\ \A a \in Present : Consistent(db[a])
      /\ \A a, b \in Present : a # b => Apart(db[a], db[b])
  BY <1>1, InventoryAssumption DEF Present
<1>3. Busy = {}
  BY <1>1, IdleIsIdle DEF Busy
<1>4. TypeOK
  <2>1. /\ 0 \in 0 .. Partial /\ 0 \in 0 .. MaxHandlers /\ 0 \in 0 .. MaxWrites
    BY InventoryAssumption DEF Partial
  <2>2. QED
    BY <1>1, <2>1 DEF TypeOK
<1>5. \A a \in Present : /\ a \in Apps /\ db[a] \in Project
                         /\ \A s \in db[a].services : s \in ContainerService(Ids)
  BY <1>1 DEF Present, ProjectsIn, Rows, Project
<1>6. \A a \in Present : \A s \in db[a].services :
         s \in Stored /\ s.id \in Ids /\ drawn[s.id] = a
  BY <1>5 DEF Init, ServiceIds, Stored, ContainerService
<1>7. \A s \in Stored : Sound(s, isAdmin)
  BY DEF Init
<1>8. RowsInv
  BY <1>2, <1>5, <1>6, <1>7 DEF RowsInv, RowOK
<1>9. NamesDisjoint
  BY <1>1, <1>2 DEF NamesDisjoint, Consistent, Apart
<1>10. SecretsStayReal
  BY <1>3, <1>7 DEF SecretsStayReal, Sound
<1>11. HandlersInv /\ FreshInv
  BY <1>3 DEF HandlersInv, FreshInv
<1>12. VolumesInv
  <2>1. Moved = {}
    BY <1>3 DEF Moved
  <2>2. MovesInv
    BY <2>1 DEF MovesInv
  <2>3. PlannedMoves /\ PlannedCopies
    BY <1>3 DEF PlannedMoves, PlannedCopies
  <2>4. QED
    BY <1>3, <2>2, <2>3 DEF VolumesInv
<1>13. QED
  BY <1>4, <1>8, <1>9, <1>10, <1>11, <1>12 DEF IInv

\* No step of any handler disturbs the invariant.
LEMMA NextIInv == IInv /\ [Next]_vars => IInv'
<1> SUFFICES ASSUME IInv, [Next]_vars
             PROVE  IInv'
  OBVIOUS
<1>1. ASSUME NEW c \in Clients, ClientStep(c)
      PROVE  IInv'
  <2>1. ASSUME NEW a \in Apps, NEW id \in Ids, LoadSettings(c, a, id)
        PROVE  IInv'
    BY <2>1, LoadSettingsStep
  <2>2. ASSUME NEW e \in Edits, UpdateService(c, e.service, e.repo, e.env)
        PROVE  IInv'
    BY <2>2, UpdateServiceStep
  <2>3. ASSUME NEW a \in Apps, NEW n \in NewRequests, CreateService(c, a, n)
        PROVE  IInv'
    BY <2>3, CreateServiceStep
  <2>4. CASE CheckDomains(c)
    BY <2>4, CheckDomainsStep
  <2>5. CASE ApplyMounts(c)
    BY <2>5, ApplyMountsStep
  <2>6. CASE SaveApp(c)
    BY <2>6, SaveAppStep
  <2>7. CASE SaveAppFails(c)
    BY <2>7, SaveAppFailsStep
  <2>8. CASE QueueDeployment(c)
    BY <2>8, QueueDeploymentStep
  <2>9. QED
    BY <1>1, <2>1, <2>2, <2>3, <2>4, <2>5, <2>6, <2>7, <2>8 DEF ClientStep
<1>2. ASSUME NEW a \in Apps, NEW id \in Ids, WriteVolume(a, id)
      PROVE  IInv'
  BY <1>2, WriteVolumeStep
<1>3. CASE UNCHANGED vars
  <2>1. /\ db' = db /\ isAdmin' = isAdmin /\ h' = h /\ priv' = priv
        /\ shrd' = shrd /\ started' = started /\ writes' = writes
        /\ drawn' = drawn /\ raced' = raced /\ lapped' = lapped
    BY <1>3 DEF vars, ghosts
  <2>2. QED
    BY <2>1, OnlyViews
<1>4. QED
  BY <1>1, <1>2, <1>3 DEF Next

\* What the invariant of the handlers rests on holds in every reachable
\* state, for any projects, clients, edits and requests.
THEOREM Invariance == Spec => []IInv
  BY InitIInv, NextIInv, PTL DEF Spec

\* validate_port_mappings and validate_app_service_domains: while no handler
\* saves over a change it has not read, no two services of the server share a
\* host port or a domain; within a project they never do.
THEOREM NamesDisjointAlways == Spec => []NamesDisjoint
<1>1. IInv => NamesDisjoint
  BY DEF IInv
<1>2. QED
  BY <1>1, Invariance, PTL

\* build_service_registry_auth and resolve_masked_value: the mask a client is
\* shown never takes the place of a secret.
THEOREM SecretsStayRealAlways == Spec => []SecretsStayReal
<1>1. IInv => SecretsStayReal
  BY DEF IInv
<1>2. QED
  BY <1>1, Invariance, PTL

\* build_services: a stored service obeys the rules that tie its fields
\* together, and goes through service_request_from_model and build_services
\* unchanged unless it is a cron job.
THEOREM StoredServicesSoundAlways == Spec => []StoredServicesSound
<1>1. ASSUME IInv
      PROVE  StoredServicesSound
  <2>1. TypeOK /\ isAdmin \in BOOLEAN
    BY <1>1 DEF IInv, TypeOK
  <2>2. ASSUME NEW s \in Stored
        PROVE  /\ Sound(s, isAdmin)
               /\ s.type # "cron" => RoundTrips(s)
    <3>1. PICK a \in Present : s \in db[a].services
      BY DEF Stored
    <3>2. RowOK(db[a], a)
      BY <1>1 DEF IInv, RowsInv
    <3>3. s \in ContainerService(Ids) /\ Sound(s, isAdmin)
      BY <3>1, <3>2 DEF RowOK, Project
    <3>4. QED
      BY <2>1, <3>3, RoundTrip DEF RoundTrips
  <2>3. QED
    BY <2>1, <2>2 DEF StoredServicesSound
<1>2. QED
  BY <1>1, Invariance, PTL

\* Only the two transactions write rows, only the steps of shared_mounts move
\* data without a write, and a lap is never forgotten.
LEMMA WhatStepsChange ==
  ASSUME IInv, [Next]_vars
  PROVE  /\ db' = db \/ \E k \in Clients : SaveApp(k) \/ QueueDeployment(k)
         /\ \/ writes' # writes
            \/ priv' = priv /\ shrd' = shrd
            \/ \E k \in Clients : ApplyMounts(k) \/ SaveAppFails(k)
         /\ lapped => lapped'
<1> DEFINE Quiet == /\ db' = db /\ priv' = priv /\ shrd' = shrd
                    /\ lapped' = lapped
<1>1. ASSUME NEW c \in Clients, ClientStep(c)
      PROVE  \/ Quiet
             \/ ApplyMounts(c) \/ SaveAppFails(c)
             \/ SaveApp(c) \/ QueueDeployment(c)
  <2>1. ASSUME NEW a \in Apps, NEW id \in Ids, LoadSettings(c, a, id)
        PROVE  Quiet
    BY <2>1 DEF LoadSettings, ghosts
  <2>2. ASSUME NEW e \in Edits, UpdateService(c, e.service, e.repo, e.env)
        PROVE  Quiet
    BY <2>2 DEF UpdateService, Begin, ghosts
  <2>3. ASSUME NEW a \in Apps, NEW n \in NewRequests, CreateService(c, a, n)
        PROVE  Quiet
    BY <2>3 DEF CreateService, AddServicesToProject, CreateStackService,
                CreateRepositoryService, Begin, ghosts
  <2>4. CheckDomains(c) => Quiet
    BY DEF CheckDomains, ghosts
  <2> HIDE DEF Quiet
  <2>5. QED
    BY <1>1, <2>1, <2>2, <2>3, <2>4 DEF ClientStep
<1>2. ASSUME NEW a \in Apps, NEW id \in Ids, WriteVolume(a, id)
      PROVE  db' = db /\ writes' # writes /\ lapped' = lapped
  BY <1>2 DEF WriteVolume, ghosts, IInv, TypeOK
<1>3. UNCHANGED vars => Quiet
  BY DEF vars, ghosts
<1>4. ASSUME NEW k \in Clients, ApplyMounts(k) \/ SaveAppFails(k)
      PROVE  db' = db /\ lapped' = lapped
  BY <1>4 DEF ApplyMounts, SaveAppFails, ghosts
<1>5. ASSUME NEW k \in Clients, SaveApp(k) \/ QueueDeployment(k)
      PROVE  priv' = priv /\ shrd' = shrd /\ (lapped => lapped')
  <2>1. priv' = priv /\ shrd' = shrd
    BY <1>5 DEF SaveApp, QueueDeployment
  <2>2. \/ lapped' = lapped
        \/ \E a, row, then : WriteRow(k, a, row, then)
    BY <1>5 DEF SaveApp, QueueDeployment, ghosts
  <2>3. ASSUME NEW a, NEW row, NEW then, WriteRow(k, a, row, then)
        PROVE  lapped => lapped'
    BY <2>3, Zenon DEF WriteRow
  <2>4. QED
    BY <2>1, <2>2, <2>3
<1>6. QED
  BY <1>1, <1>2, <1>3, <1>4, <1>5 DEF Next

\* update_service, every sibling through a request made from its row: the
\* save of one service writes the others back as they were read.
THEOREM SiblingsKeptAlways == Spec => SiblingsKept
<1>1. ASSUME IInv, [Next]_vars, NEW c \in Clients,
             h[c].pc = "save", h'[c].pc = "idle", db' # db, h[c].op = "update"
      PROVE  Siblings(db'[h[c].app], h[c].id) = Siblings(h[c].prev, h[c].id)
  <2>1. PICK k \in Clients : SaveApp(k) \/ QueueDeployment(k)
    BY <1>1, WhatStepsChange
  <2>2. /\ c \in Busy /\ h[c] \in Handlers /\ db \in Rows
        /\ h \in [Clients -> Handlers \cup {Idle}]
        /\ HandlerRows(h[c])
    BY <1>1, IdleIsIdle DEF IInv, TypeOK, HandlersInv, Busy
  <2>3. k = c
    <3> SUFFICES ASSUME k # c
                 PROVE  FALSE
      OBVIOUS
    <3>1. CASE \E a, row, then : WriteRow(k, a, row, then)
      <4>1. h'[c] = [h[c] EXCEPT !.fresh = FALSE]
        BY <2>2, <3>1 DEF WriteRow
      <4>2. h'[c].pc = h[c].pc
        BY <2>2, <4>1 DEF Handlers
      <4>3. QED
        BY <1>1, <4>2
    <3>2. CASE Stop(k)
      <4>1. h'[c] = h[c]
        BY <2>2, <3>2 DEF Stop
      <4>2. QED
        BY <1>1, <4>1
    <3>3. QED
      BY <2>1, <3>1, <3>2 DEF SaveApp, QueueDeployment
  <2>4. SaveApp(c)
    BY <1>1, <2>1, <2>3 DEF QueueDeployment
  <2>5. db'[h[c].app] = h[c].next
    BY <2>2, <2>4 DEF SaveApp, WriteRow, Handlers, Rows
  <2>6. QED
    BY <1>1, <2>2, <2>5 DEF HandlerRows
<1>2. IInv /\ [Next]_vars =>
         [\A c \in Clients :
            /\ h[c].pc = "save" /\ h'[c].pc = "idle" /\ db' # db
            /\ h[c].op = "update"
            => Siblings(db'[h[c].app], h[c].id)
                 = Siblings(h[c].prev, h[c].id)]_vars
  BY <1>1
<1>3. QED
  BY <1>2, Invariance, PTL DEF Spec, SiblingsKept

\* copy_dir and rename: whatever a migration, its failure or its undo
\* overwrites is elsewhere or empty.
LEMMA MigrationKeepsVersions ==
  ASSUME IInv, ~lapped, NEW c \in Clients, ApplyMounts(c) \/ SaveAppFails(c)
  PROVE  Versions \subseteq Versions'
<1> DEFINE i == h[c].id
           a == h[c].app
<1>1. /\ c \in Busy /\ h[c] \in Handlers /\ i \in Ids /\ a \in Apps
      /\ priv \in [Ids -> 0 .. Partial] /\ shrd \in [Apps -> 0 .. Partial]
  <2>1. c \in Busy
    BY DEF ApplyMounts, SaveAppFails, Busy
  <2>2. h[c] \in Handlers
    BY <2>1, IdleIsIdle DEF IInv, TypeOK, Busy
  <2>3. QED
    BY <2>1, <2>2 DEF IInv, TypeOK, Handlers
<1> HIDE DEF i, a
<1>2. CASE priv' = priv /\ shrd' = shrd
  BY <1>2 DEF Versions
<1>3. CASE /\ shrd[a] = 0
           /\ shrd' = [shrd EXCEPT ![a] = priv[i]]
           /\ priv' = [priv EXCEPT ![i] = 0]
  <2> SUFFICES ASSUME NEW v \in Versions
               PROVE  v \in Versions'
    OBVIOUS
  <2>1. v \notin {0, Partial} /\ Partial' = Partial
    BY DEF Versions, Partial
  <2>2. \/ \E j \in Ids : v = priv'[j]
        \/ \E b \in Apps : v = shrd'[b]
    <3>1. CASE \E j \in Ids : v = priv[j]
      BY <1>1, <1>3, <2>1, <3>1
    <3>2. CASE \E b \in Apps : v = shrd[b]
      BY <1>1, <1>3, <2>1, <3>2
    <3>3. QED
      BY <3>1, <3>2 DEF Versions
  <2>3. QED
    BY <2>1, <2>2 DEF Versions
<1>4. CASE /\ priv[i] = 0
           /\ priv' = [priv EXCEPT ![i] = shrd[a]]
           /\ shrd' = [shrd EXCEPT ![a] = 0]
  <2> SUFFICES ASSUME NEW v \in Versions
               PROVE  v \in Versions'
    OBVIOUS
  <2>1. v \notin {0, Partial} /\ Partial' = Partial
    BY DEF Versions, Partial
  <2>2. \/ \E j \in Ids : v = priv'[j]
        \/ \E b \in Apps : v = shrd'[b]
    <3>1. CASE \E j \in Ids : v = priv[j]
      BY <1>1, <1>4, <2>1, <3>1
    <3>2. CASE \E b \in Apps : v = shrd[b]
      BY <1>1, <1>4, <2>1, <3>2
    <3>3. QED
      BY <3>1, <3>2 DEF Versions
  <2>3. QED
    BY <2>1, <2>2 DEF Versions
<1>5. CASE /\ h[c].pc = "apply" /\ h[c].plan = "copy" /\ shrd' = shrd
           /\ \E left : priv' = [priv EXCEPT ![i] = left]
  <2> SUFFICES ASSUME NEW v \in Versions
               PROVE  v \in Versions'
    OBVIOUS
  <2>1. v \notin {0, Partial} /\ Partial' = Partial
    BY DEF Versions, Partial
  <2>2. \/ priv[i] \in {0, Partial}
        \/ priv[i] = shrd[a]
        \/ \E j \in Ids \ {i} : priv[j] = priv[i]
    BY <1>1, <1>5 DEF IInv, VolumesInv, PlannedCopies, i, a
  <2>3. \/ \E j \in Ids : v = priv'[j]
        \/ \E b \in Apps : v = shrd'[b]
    <3>1. CASE \E j \in Ids : v = priv[j]
      BY <1>1, <1>5, <2>1, <2>2, <3>1
    <3>2. CASE \E b \in Apps : v = shrd[b]
      BY <1>5, <3>2
    <3>3. QED
      BY <3>1, <3>2 DEF Versions
  <2>4. QED
    BY <2>1, <2>3 DEF Versions
<1>6. QED
  <2>1. CASE ApplyMounts(c)
    BY <2>1, <1>2, <1>3, <1>5 DEF ApplyMounts, i, a
  <2>2. CASE SaveAppFails(c)
    BY <2>2, <1>2, <1>4 DEF SaveAppFails, i, a
  <2>3. QED
    BY <2>1, <2>2

\* shared_mounts: as long as no project changes while a handler has it in
\* hand, no migration loses the last copy of a volume's data, and a service
\* whose volume becomes shared sees what it saw before.
THEOREM VolumeDataKeptAlways == Spec => VolumeDataKept
<1>1. ASSUME IInv, [Next]_vars, writes' = writes, ~lapped'
      PROVE  Versions \subseteq Versions'
  <2>1. ~lapped
    BY <1>1, WhatStepsChange
  <2>2. CASE priv' = priv /\ shrd' = shrd
    BY <2>2 DEF Versions, Partial
  <2>3. CASE \E k \in Clients : ApplyMounts(k) \/ SaveAppFails(k)
    BY <1>1, <2>1, <2>3, MigrationKeepsVersions
  <2>4. QED
    BY <1>1, <2>2, <2>3, WhatStepsChange
<1>2. ASSUME IInv, [Next]_vars, NEW c \in Clients, h[c].pc = "save", ~lapped',
             MountSwitch(h[c]) = "share", h[c].seen # 0
      PROVE  Visible(h[c].next, h[c]) = h[c].seen
  <2>1. ~lapped
    BY <1>2, WhatStepsChange
  <2>2. c \in Busy /\ HandlerPlan(h[c])
    BY <1>2 DEF IInv, HandlersInv, Busy
  <2>3. c \in Moved
    BY <1>2, <2>2 DEF HandlerPlan, Moved
  <2>4. shrd[h[c].app] = h[c].seen
    BY <1>2, <2>1, <2>3 DEF IInv, VolumesInv, MovesInv
  <2>5. /\ h[c].op = "update" /\ Managed(VolumeOf(h[c].next, h[c].id))
        /\ VolumeOf(h[c].next, h[c].id).shared
    BY <1>2 DEF MountSwitch
  <2>6. QED
    BY <2>4, <2>5 DEF Visible
<1>3. IInv /\ [Next]_vars =>
         [writes' = writes /\ ~lapped' => Versions \subseteq Versions']_vars
  BY <1>1
<1>4. IInv /\ [Next]_vars =>
         [\A c \in Clients :
            /\ h[c].pc = "save" /\ h'[c].pc = "idle" /\ db' # db
            /\ ~lapped'
            /\ MountSwitch(h[c]) = "share"
            /\ h[c].seen # 0
            => Visible(h[c].next, h[c]) = h[c].seen]_vars
  BY <1>2
<1>5. QED
  BY <1>3, <1>4, Invariance, PTL DEF Spec, VolumeDataKept
=============================================================================
