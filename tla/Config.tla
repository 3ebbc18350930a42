-------------------------------- MODULE Config --------------------------------
(***************************************************************************)
(* Which environments Settings.from_env accepts (config.py).  A variable   *)
(* is kept as far as the checks tell its values apart.                     *)
(***************************************************************************)

\* "empty": no text or, for the list of roots, no URL in it.
Reading == {"absent", "empty", "unreadable", "negative", "zero", "positive"}

Required == {"MYSQL_DSN", "RABBITMQ_URL"}

\* Settings that must be positive; the first is read under its old name
\* when the new one is absent.
Capacities == {"EXPERIENCE_API_MAX_PAGES", "WORKER_PREFETCH",
               "FETCH_MAX_ATTEMPTS", "DISCOVERY_QUEUE_MAXSIZE",
               "DISCOVERY_DB_BATCH_SIZE"}

\* Delays, timeouts and the limits of the sitemap.
Amounts == {"FETCH_CONNECT_TIMEOUT_SECONDS", "FETCH_TIMEOUT_SECONDS",
            "FETCH_BASE_DELAY_SECONDS", "FETCH_JITTER_SECONDS",
            "FETCH_RETRY_AFTER_DEFAULT_SECONDS",
            "FETCH_RETRY_AFTER_MAX_SECONDS",
            "EXPERIENCE_API_INTERVAL_SECONDS",
            "EXPERIENCE_API_JITTER_SECONDS",
            "SITEMAP_MAX_DOCUMENTS", "SITEMAP_MAX_URLS"}

Names == Required \cup Capacities \cup Amounts
             \cup {"CENTER_MAX_PAGES", "SITEMAP_ROOT_URLS"}

Environment == [Names -> Reading]

\* _int_with_legacy
IntWithLegacy(env, name, legacy) ==
    IF env[name] # "absent" THEN env[name] ELSE env[legacy]

\* The number read; every default is positive.
Number(env, name) ==
    LET read == IF name = "EXPERIENCE_API_MAX_PAGES"
                THEN IntWithLegacy(env, name, "CENTER_MAX_PAGES")
                ELSE env[name]
    IN  IF read = "absent" THEN "positive" ELSE read

\* Mutant: the old name is read and not checked.
AcceptedMutant(env) ==
    /\ \A name \in Required : env[name] \notin {"absent", "empty"}
    /\ \A name \in Capacities \ {"EXPERIENCE_API_MAX_PAGES"} :
          Number(env, name) = "positive"
    /\ env["EXPERIENCE_API_MAX_PAGES"] \in {"absent", "positive"}
    /\ \A name \in Amounts : Number(env, name) \in {"zero", "positive"}
    /\ env["SITEMAP_ROOT_URLS"] # "empty"

\* from_env returns; otherwise it raises ValueError.
Accepted(env) ==
    /\ \A name \in Required : env[name] \notin {"absent", "empty"}
    /\ \A name \in Capacities : Number(env, name) = "positive"
    /\ \A name \in Amounts : Number(env, name) \in {"zero", "positive"}
    /\ env["SITEMAP_ROOT_URLS"] # "empty"
=============================================================================
