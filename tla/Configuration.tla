---------------------------- MODULE Configuration ----------------------------
(***************************************************************************)
(* config.Load: what becomes of a config file and an environment.  Viper   *)
(* answers a key with the value that Set gave it, else with the variable   *)
(* ORCHESTRON_<KEY>, else with the file, else with the default.  Only the  *)
(* keys on which the control of main depends are kept.                     *)
(*                                                                         *)
(* A file is a partial function from keys to values.  An environment is    *)
(* one from variables to values: a key stands for its ORCHESTRON_ variable,*)
(* the three plain variables have their own names.  An empty variable      *)
(* counts as unset.  A time is a record: a Go duration, a bare number or   *)
(* any other text; other values are strings, numbers or sets.              *)
(***************************************************************************)
EXTENDS Integers

Duration(seconds) == [form |-> "duration", n |-> seconds]
Number(n) == [form |-> "number", n |-> n]
Text == [form |-> "text", n |-> 0]

Defaults ==
  [k \in {"api.rate_limit_burst", "broker.type", "api.max_payload_size",
          "outbox.process_interval", "broker.kafka.max_retries"} |->
     CASE k = "api.rate_limit_burst"    -> 10
       [] k = "broker.type"             -> "kafka"
       [] k = "api.max_payload_size"    -> Number(1048576)
       [] k = "outbox.process_interval" -> Duration(5)
       [] k = "broker.kafka.max_retries" -> 3]

(* overrideWithEnv: the variables without the prefix.                      *)
OverrideWithEnv(env) ==
  [k \in {key \in {"database.password", "api.api_keys"} :
            /\ key = "database.password" => "DB_PASSWORD" \in DOMAIN env
            /\ key = "api.api_keys" => "API_KEY" \in DOMAIN env} |->
     IF k = "api.api_keys" THEN {env["API_KEY"]} ELSE env["DB_PASSWORD"]]

(* AutomaticEnv is asked only for keys that Unmarshal knows already, from  *)
(* the file or a default: a variable alone does not make a setting.        *)
PrefixedEnv(file, env) ==
  [k \in DOMAIN env \cap (DOMAIN file \cup DOMAIN Defaults) |-> env[k]]

(* The settings of f come before those of g.                               *)
Before(f, g) == [k \in DOMAIN f \cup DOMAIN g |-> IF k \in DOMAIN f THEN f[k] ELSE g[k]]

Settings(file, env) ==
  Before(OverrideWithEnv(env), Before(PrefixedEnv(file, env), Before(file, Defaults)))

Get(settings, key, zero) == IF key \in DOMAIN settings THEN settings[key] ELSE zero

(* Unmarshal cannot make a duration or a size of just any text, and not of *)
(* a number that comes as the text of a variable.                          *)
Decodes(file, env) ==
  LET settings == Settings(file, env)
  IN  /\ \A k \in {"outbox.process_interval", "outbox.retry_backoff"} :
           k \in DOMAIN settings =>
             /\ settings[k].form # "text"
             /\ k \in DOMAIN env => settings[k].form = "duration"
      /\ settings["api.max_payload_size"].form = "number"

(* Mutant: the error of ParseDuration is ignored.                          *)
ProcessInterval_IgnoresError(value) ==
  IF value.form = "duration" \/ value.n = 0 THEN value.n ELSE 0

(* postProcessConfig: what ParseDuration refuses becomes five seconds.  It *)
(* accepts a bare 0.                                                       *)
ProcessInterval(value) ==
  IF value.form = "duration" \/ value.n = 0 THEN value.n ELSE 5

Load(file, env) ==
  LET settings == Settings(file, env)
  IN  [valid    |-> Decodes(file, env),
       keys     |-> Get(settings, "api.api_keys", {}),
       burst    |-> settings["api.rate_limit_burst"],
       password |-> Get(settings, "database.password", ""),
       broker   |-> settings["broker.type"],
       retries  |-> settings["broker.kafka.max_retries"],
       interval |-> ProcessInterval(settings["outbox.process_interval"]),
       backoff  |-> Get(settings, "outbox.retry_backoff", Duration(0)).n]

-----------------------------------------------------------------------------
(* What Load has to make of a file and an environment, whatever else is in *)
(* them: the plain variables win over everything; a variable alone cannot  *)
(* set retry_backoff, which stays 0 unless the file has it; an interval    *)
(* nobody sets is five seconds, and one that is not positive was written   *)
(* so, as a duration or as a bare 0.                                       *)
SettingsRespected(file, env) ==
  LET loaded == Load(file, env)
  IN  /\ "API_KEY" \in DOMAIN env => loaded.keys = {env["API_KEY"]}
      /\ "DB_PASSWORD" \in DOMAIN env => loaded.password = env["DB_PASSWORD"]
      /\ "outbox.retry_backoff" \notin DOMAIN file => loaded.backoff = 0
      /\ "outbox.process_interval" \notin DOMAIN file \cup DOMAIN env =>
           loaded.interval = 5
      /\ loaded.interval <= 0 =>
           \E source \in {file, env} :
             /\ "outbox.process_interval" \in DOMAIN source
             /\ LET value == source["outbox.process_interval"]
                IN  value.form = "duration" \/ value.n = 0

=============================================================================
