--------------------------- MODULE Configuration ---------------------------
(***************************************************************************)
(* PSIPConfig (config.py): its validators, from_env, and                   *)
(* psip_config_from_django_settings (django/settings.py).                  *)
(*                                                                         *)
(* A mapping of fields is a function of the names given.  A value is the   *)
(* record of where it comes from and of what the validators look at: of a  *)
(* key whether it is acceptable, of a url its scheme and final slash, of a *)
(* timeout its sign and whether it is a number at all, of a word whether   *)
(* it stands for yes.  Values have no blanks around them.                  *)
(***************************************************************************)
EXTENDS Integers

ConfigFields == {"api_key", "base_url", "timeout", "default_sandbox",
                 "user_agent"}

Value(from, is) == [from |-> from, is |-> is]

(* What the fields may be: a key is "good", one without the prefix or too  *)
(* short "bad", one that is not even a string "none".                      *)
KeyIs == {"good", "bad", "none"}
UrlIs == {"slash", "no slash", "no scheme"}
TimeoutIs == {"positive", "zero", "malformed"}
SandboxIs == {"yes", "no"}
AgentIs == {"text", "blank"}
FieldIs == KeyIs \cup UrlIs \cup TimeoutIs \cup SandboxIs \cup AgentIs

ConfigDefaults ==
    [base_url |-> Value("default", "slash"),
     timeout |-> Value("default", "positive"),
     default_sandbox |-> Value("default", "yes"),
     user_agent |-> Value("default", "text")]

ConfigErrors == {"ValidationError", "ValueError", "AttributeError",
                 "ImproperlyConfigured"}
Failure(error) == [error |-> error]

(* {**first, **second}                                                     *)
Merge(first, second) ==
    [f \in DOMAIN first \cup DOMAIN second |->
        IF f \in DOMAIN second THEN second[f] ELSE first[f]]

(* _normalize_base_url                                                     *)
NormalizeBaseUrl(url) ==
    IF url.is = "no slash" THEN [url EXCEPT !.is = "slash"] ELSE url

ConfigValid(fields) ==
    /\ fields.api_key.is = "good"
    /\ fields.base_url.is # "no scheme"
    /\ fields.timeout.is = "positive"
    /\ fields.user_agent.is # "blank"

(* PSIPConfig of keywords.  A SecretStr is taken as it is: the prefix      *)
(* check of one that holds no string ends in an AttributeError.            *)
PSIPConfig(kwargs) ==
    LET fields == Merge(ConfigDefaults, kwargs)
    IN  IF "api_key" \notin DOMAIN fields THEN Failure("ValidationError")
        ELSE IF fields.api_key.is = "none" THEN Failure("AttributeError")
        ELSE IF ~ConfigValid(fields) THEN Failure("ValidationError")
        ELSE [fields EXCEPT !.base_url = NormalizeBaseUrl(@)]

(* Mutated form: the environment has the last word.                        *)
MergeEnvLast(env, overrides) == Merge(overrides, env)

MergeOverrides(env, overrides) == Merge(env, overrides)

(* from_env: PSIP_TIMEOUT is converted before anything overrides it.       *)
FromEnv(env, overrides) ==
    IF "timeout" \in DOMAIN env /\ env.timeout.is = "malformed"
    THEN Failure("ValueError")
    ELSE PSIPConfig(MergeOverrides(env, overrides))

AsImproperlyConfigured(outcome) ==
    IF outcome = Failure("ValidationError")
    THEN Failure("ImproperlyConfigured") ELSE outcome

(* psip_config_from_django_settings; falsy stands for a setting that is    *)
(* missing, None or empty.                                                 *)
FromSettings(settings) ==
    IF settings.kind \in {"falsy", "no mapping"}
    THEN Failure("ImproperlyConfigured")
    ELSE AsImproperlyConfigured(PSIPConfig(settings.fields))
=============================================================================
