------------------------------ MODULE MCServer ------------------------------
(***************************************************************************)
(* An instance of Server for TLC, with the layers its starts can find.     *)
(***************************************************************************)
EXTENDS Server, TLC

is(layer, value) == [from |-> layer, is |-> value]

NoSetting == [s \in {} |-> is("file", "good")]

NoFile == [values |-> NoSetting, seeds |-> {}, log |-> EmptyLog]

MCFiles ==
    {NoFile,
     (* Two tenants, a log to keep for a while, and a level that is none.  *)
     [values |-> ("tenancy" :> is("file", "multi")) @@ ("tenants" :> is("file", "good"))
                 @@ ("log_level" :> is("file", "refused")),
      seeds |-> {"alice"},
      log |-> [EmptyLog EXCEPT !.redact = {"email"}, !.retention = 30]],
     (* A switch that cannot be turned off, and a log of paths alone.      *)
     [NoFile EXCEPT !.values = "scim_client_mode" :> is("file", "off"),
                    !.log = [EmptyLog EXCEPT !.redact = {"email"}]],
     (* A client with its target, and a log of switches alone.             *)
     [NoFile EXCEPT !.values = ("scim_client_mode" :> is("file", "on"))
                               @@ ("scim_target_url" :> is("file", "good")),
                    !.log = [EmptyLog EXCEPT !.enabled = TRUE, !.include = TRUE]]}

NoEnv == [values |-> NoSetting, seeds |-> {}, redact |-> {}, scrub |-> {}, retention |-> {}]

MCEnvs ==
    {NoEnv,
     [NoEnv EXCEPT !.values = "session_hash_key" :> is("env", "good"), !.seeds = {"bob"},
                   !.redact = {"ssn"}, !.scrub = {TRUE}, !.retention = {7}],
     [NoEnv EXCEPT !.values = ("log_level" :> is("env", "good"))
                              @@ ("persistence_enabled" :> is("env", "off")),
                   !.scrub = {FALSE}],
     [NoEnv EXCEPT !.values = "cleanup_interval" :> is("env", "malformed")]}

MCFlags ==
    {NoSetting,
     ("log_level" :> is("flag", "good")) @@ ("cleanup_interval" :> is("flag", "good"))
     @@ ("persistence_enabled" :> is("flag", "on"))}
=============================================================================
