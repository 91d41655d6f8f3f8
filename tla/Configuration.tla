---------------------------- MODULE Configuration ----------------------------
(***************************************************************************)
(* The configuration a process starts with: the defaults, then the file,   *)
(* the environment and the command line, each over the ones before it.     *)
(*                                                                         *)
(* A layer gives some settings a value, named by the layer it comes from   *)
(* and by what validation and the start make of it.  Seed users and the    *)
(* decision log of the policy engine are merged by rules of their own.     *)
(***************************************************************************)
EXTENDS Naturals

CONSTANTS
    Seeds,    \* users to create at start
    Fields    \* paths the decision log redacts

(* The command line sets seven of the settings that the file and the       *)
(* environment both set; each of these two has settings of its own.        *)
FlagSettings ==
    {"http_addr", "protocol_addr", "log_level", "sqlite_path", "provider",
     "persistence_enabled", "cleanup_interval"}

SharedSettings ==
    FlagSettings \cup
    {"flow_ttl", "session_ttl", "issuer_url", "key_rotation_interval",
     "key_rotation_overlap", "rp_id", "origin", "tenancy", "scim_client_mode",
     "scim_target_url"}

(* Some stand for several that are treated alike: tokens, opa_limits.      *)
FileSettings ==
    SharedSettings \cup
    {"access_token_ttl", "id_token_ttl", "refresh_token_ttl", "tenants",
     "tokens", "header_mappings", "opa_limits", "tenant_budgets"}

EnvSettings ==
    SharedSettings \cup
    {"api_key", "scim_key", "session_hash_key", "auth_event_log", "rate_limit",
     "cors_origins", "trusted_proxy_cidrs", "saml_entity_id", "saml_cert_dir",
     "header_propagation"}

Settings == FileSettings \cup EnvSettings

(* Those whose text has to parse where it is read, whatever overrides it.  *)
(* So has the text of the seed users and of the decision log, which is     *)
(* taken to.                                                               *)
Parsed ==
    {"persistence_enabled", "cleanup_interval", "flow_ttl", "session_ttl",
     "access_token_ttl", "id_token_ttl", "refresh_token_ttl",
     "key_rotation_interval", "key_rotation_overlap", "session_hash_key",
     "rate_limit", "header_propagation"}

(* A layer can only turn these on.                                         *)
OnlyOn == {"scim_client_mode", "tokens"}

(* A switch is on or off; a value refused is one that parses and that      *)
(* validate rejects.                                                       *)
Value == [from : {"default", "file", "env", "flag"},
          is : {"unset", "good", "refused", "malformed", "on", "off", "multi"}]

(* include: of the input and of the policy, which have a switch each.      *)
DecisionLog == [enabled : BOOLEAN, include : BOOLEAN, destination : {"", "stdout", "path"},
                redact : SUBSET Fields, scrub : BOOLEAN, retention : Nat]

EmptyLog == [enabled |-> FALSE, include |-> FALSE, destination |-> "", redact |-> {},
             scrub |-> FALSE, retention |-> 0]

Defaults ==
    [values |-> [s \in Settings |->
        [from |-> "default",
         is |-> CASE s = "persistence_enabled" -> "on"
                  [] s \in OnlyOn \cup {"header_propagation"} -> "off"
                  [] s \in {"http_addr", "protocol_addr", "log_level", "sqlite_path",
                            "cleanup_interval", "flow_ttl", "session_ttl", "issuer_url",
                            "access_token_ttl", "id_token_ttl", "refresh_token_ttl",
                            "key_rotation_overlap", "saml_entity_id", "opa_limits"} -> "good"
                  [] OTHER -> "unset"]],
     seeds |-> {},
     log |-> [EmptyLog EXCEPT !.enabled = TRUE, !.destination = "stdout"]]

Over(layer, values) ==
    [s \in Settings |->
        IF s \in DOMAIN layer /\ (s \in OnlyOn => layer[s].is = "on")
        THEN layer[s] ELSE values[s]]

Parses(layer) == \A s \in DOMAIN layer \cap Parsed : layer[s].is # "malformed"

(* Slip: paths to redact alone do not make a log.                          *)
MergeLogForgetful(log, from) ==
    IF from.destination # "" \/ from.retention > 0 \/ from.scrub THEN from ELSE log

(* The log of the file takes the place of the default one as a whole, its  *)
(* switches included, once one of four of its settings is there; without   *)
(* them the switches are not looked at.                                    *)
MergeLog(log, from) ==
    IF \/ from.destination # ""
       \/ from.retention > 0
       \/ from.redact # {}
       \/ from.scrub
    THEN from ELSE log

mergeYAML(cfg, file) ==
    [values |-> Over(file.values, cfg.values),
     seeds |-> cfg.seeds \cup file.seeds,
     log |-> MergeLog(cfg.log, file.log)]

(* The environment adds paths to redact, and has its say about scrubbing   *)
(* and retention: sets that are empty or hold the one value given.         *)
applyEnv(cfg, env) ==
    [values |-> Over(env.values, cfg.values),
     seeds |-> cfg.seeds \cup env.seeds,
     log |-> [cfg.log EXCEPT
                !.redact = @ \cup env.redact,
                !.scrub = IF env.scrub = {} THEN @ ELSE TRUE \in env.scrub,
                !.retention = IF env.retention = {} THEN @
                              ELSE CHOOSE n \in env.retention : TRUE]]

applyRuntime(cfg, flags) == [cfg EXCEPT !.values = Over(flags, @)]

validate(cfg) ==
    LET is(s) == cfg.values[s].is
    IN  /\ \A s \in {"http_addr", "protocol_addr", "log_level", "cleanup_interval",
                     "flow_ttl", "session_ttl", "tenancy"} : is(s) # "refused"
        /\ is("persistence_enabled") = "on" => is("sqlite_path") # "refused"
        /\ is("scim_client_mode") = "on" => is("scim_target_url") = "good"
        /\ is("tenancy") = "multi" => is("tenants") = "good"

(* main parses its flags before it loads.                                  *)
Readable(given) ==
    Parses(given.flags) /\ Parses(given.file.values) /\ Parses(given.env.values)

Merged(given) ==
    applyRuntime(applyEnv(mergeYAML(Defaults, given.file), given.env), given.flags)

Loads(given) == Readable(given) /\ validate(Merged(given))
=============================================================================
