------------------------------ MODULE Lifespan ------------------------------
(***************************************************************************)
(* Start and stop of the server: entrypoint.sh migrates the database and   *)
(* starts uvicorn, whose lifespan opens Redis, the rate limiter, the       *)
(* database, MinIO and its buckets, the HTTP client and the mail pool, in  *)
(* this order, before the first request is served.  A start that raises    *)
(* ends the process; docker starts it again ("restart: unless-stopped").   *)
(*                                                                         *)
(* The services are other containers, or other hosts, and come and go at   *)
(* any time.  A call succeeds exactly if its service is up.                *)
(***************************************************************************)
EXTENDS Naturals

CONSTANTS Bucket,     \* MINIO_BUCKETS, each with a policy
          MaxFaults,  \* bound: outages, kills and stops
          None

ASSUME LifespanAssumption ==
    /\ MaxFaults \in Nat
    /\ None \notin Bucket

Services  == {"redis", "postgres", "minio", "smtp"}
Providers == {"redis", "engine", "minio", "http", "smtp"}

VARIABLES pc,      \* the next step of the process, "off" when there is none
          open,    \* the providers that hold a client
          ready,   \* history: the checks of this start that were answered
          todo,    \* buckets the loop of MinioProvider.init has left
          cur,     \* bucket_config of that loop
          schema,  \* whether the tables are those of this version
          policy,  \* the buckets in MinIO and their policy
          up,      \* the services that answer
          faults   \* faults so far

vars == <<pc, open, ready, todo, cur, schema, policy, up, faults>>

process == <<pc, open, ready, todo, cur>>
world   == <<schema, policy, up, faults>>

Steps == {"off", "ping", "redis", "limiter", "engine", "minio", "exists", "make", "policy",
          "http", "smtp", "serving", "close_redis", "close_engine", "close_http", "close_smtp"}

TypeOK ==
    /\ pc \in Steps
    /\ open \in SUBSET Providers
    /\ ready \in SUBSET {"redis", "limiter", "engine", "minio", "smtp"}
    /\ todo \in SUBSET Bucket
    /\ cur \in Bucket \cup {None}
    /\ (cur # None) <=> pc \in {"exists", "make", "policy"}
    /\ schema \in {"old", "head"}
    /\ policy \in [Bucket -> {"absent", "default", "set"}]
    /\ up \in SUBSET Services
    /\ faults \in 0..MaxFaults

Off == /\ pc' = "off"
       /\ open' = {}
       /\ ready' = {}
       /\ todo' = {}
       /\ cur' = None

Init ==
    /\ pc = "off"
    /\ open = {}
    /\ ready = {}
    /\ todo = {}
    /\ cur = None
    /\ schema = "old"
    /\ policy = [b \in Bucket |-> "absent"]
    /\ up = Services
    /\ faults = 0

-----------------------------------------------------------------------------
(* The step of a provider: its client is kept in the class before the      *)
(* check is sent; a check that is not answered raises.                     *)
Check(provider, check, service, next) ==
    IF service \in up
    THEN /\ pc' = next
         /\ open' = open \cup provider
         /\ ready' = ready \cup check
         /\ UNCHANGED <<todo, cur>>
    ELSE Off

(* entrypoint.sh has no "set -e": uvicorn starts after a failed upgrade.   *)
Migrate ==
    /\ pc = "off"
    /\ pc' = "ping"
    /\ schema' = IF "postgres" \in up THEN "head" ELSE schema
    /\ UNCHANGED <<open, ready, todo, cur, policy, up, faults>>

CachePing ==
    /\ pc = "ping"
    /\ Check({}, {}, "redis", "redis")
    /\ UNCHANGED world

(* A ping that raises is logged, and the start goes on.                    *)
InitRedis ==
    /\ pc = "redis"
    /\ pc' = "limiter"
    /\ open' = open \cup {"redis"}
    /\ ready' = IF "redis" \in up THEN ready \cup {"redis"} ELSE ready
    /\ UNCHANGED <<todo, cur, schema, policy, up, faults>>

(* FastAPILimiter.init loads its script through the client of              *)
(* RedisProvider, and raises if it cannot.                                 *)
InitLimiter ==
    /\ pc = "limiter"
    /\ Check({}, {"limiter"}, "redis", "engine")
    /\ UNCHANGED world

(* Definitions whose names end in _Bug are mutations of the definition that *)
(* follows, for the checks of the properties.                              *)

(* The error is logged and not raised again, as in init_redis.             *)
InitEngine_Bug ==
    /\ pc = "engine"
    /\ pc' = "minio"
    /\ open' = open \cup {"engine"}
    /\ ready' = IF "postgres" \in up THEN ready \cup {"engine"} ELSE ready
    /\ UNCHANGED <<todo, cur, schema, policy, up, faults>>

InitEngine ==
    /\ pc = "engine"
    /\ Check({"engine"}, {"engine"}, "postgres", "minio")
    /\ UNCHANGED world

(* bucket_exists("test"), then the loop over the buckets.                  *)
InitMinio ==
    /\ pc = "minio"
    /\ IF "minio" \in up
       THEN \E b \in Bucket :
               /\ pc' = "exists"
               /\ open' = open \cup {"minio"}
               /\ ready' = ready \cup {"minio"}
               /\ todo' = Bucket \ {b}
               /\ cur' = b
       ELSE Off
    /\ UNCHANGED world

(* The name of the last bucket is kept.                                    *)
NextBucket_Bug ==
    /\ UNCHANGED <<open, ready>>
    /\ IF todo = {}
       THEN /\ pc' = "http"
            /\ UNCHANGED <<cur, todo>>
       ELSE \E b \in todo :
               /\ pc' = "exists"
               /\ cur' = b
               /\ todo' = todo \ {b}

NextBucket ==
    /\ UNCHANGED <<open, ready>>
    /\ IF todo = {}
       THEN /\ pc' = "http"
            /\ cur' = None
            /\ UNCHANGED todo
       ELSE \E b \in todo :
               /\ pc' = "exists"
               /\ cur' = b
               /\ todo' = todo \ {b}

(* The bucket is not looked for first: S3 refuses to make it twice.        *)
BucketExists_Bug ==
    /\ pc = "exists"
    /\ IF "minio" \notin up \/ policy[cur] # "absent"
       THEN Off
       ELSE pc' = "make" /\ UNCHANGED <<open, ready, todo, cur>>
    /\ UNCHANGED world

(* A start whose bucket is there already skips the policy with it.         *)
BucketExists ==
    /\ pc = "exists"
    /\ IF "minio" \notin up
       THEN Off
       ELSE IF policy[cur] = "absent"
            THEN pc' = "make" /\ UNCHANGED <<open, ready, todo, cur>>
            ELSE NextBucket
    /\ UNCHANGED world

MakeBucket ==
    /\ pc = "make"
    /\ IF "minio" \in up
       THEN /\ policy' = [policy EXCEPT ![cur] = "default"]
            /\ pc' = "policy"
            /\ UNCHANGED <<open, ready, todo, cur>>
       ELSE /\ Off
            /\ UNCHANGED policy
    /\ UNCHANGED <<schema, up, faults>>

SetPolicy ==
    /\ pc = "policy"
    /\ IF "minio" \in up
       THEN /\ policy' = [policy EXCEPT ![cur] = "set"]
            /\ NextBucket
       ELSE /\ Off
            /\ UNCHANGED policy
    /\ UNCHANGED <<schema, up, faults>>

(* HTTPClient.init builds its client and sends nothing.                    *)
InitHttp ==
    /\ pc = "http"
    /\ pc' = "smtp"
    /\ open' = open \cup {"http"}
    /\ UNCHANGED <<ready, todo, cur, schema, policy, up, faults>>

(* Its clients one by one, and the keep-alive task: see SmtpPool.          *)
InitSmtp ==
    /\ pc = "smtp"
    /\ Check({"smtp"}, {"smtp"}, "smtp", "serving")
    /\ UNCHANGED world

-----------------------------------------------------------------------------
Fault == faults < MaxFaults /\ faults' = faults + 1

(* SIGTERM: uvicorn waits for the requests, then leaves the lifespan.      *)
Stop ==
    /\ pc = "serving"
    /\ Fault
    /\ pc' = "close_redis"
    /\ UNCHANGED <<open, ready, todo, cur, schema, policy, up>>

(* A close that raises skips those after it.                               *)
Close(l, provider, next) ==
    /\ pc = l
    /\ \/ pc' = next /\ open' = open \ {provider} /\ UNCHANGED <<ready, todo, cur>>
       \/ Off
    /\ UNCHANGED world

CloseRedis    == Close("close_redis", "redis", "close_engine")
DisposeEngine == Close("close_engine", "engine", "close_http")
CloseHttp     == Close("close_http", "http", "close_smtp")

CloseSmtp ==
    /\ pc = "close_smtp"
    /\ Off
    /\ UNCHANGED world

Kill ==
    /\ pc # "off"
    /\ Fault
    /\ Off
    /\ UNCHANGED <<schema, policy, up>>

Outage(s) ==
    /\ s \in up
    /\ Fault
    /\ up' = up \ {s}
    /\ UNCHANGED <<pc, open, ready, todo, cur, schema, policy>>

Recover(s) ==
    /\ s \notin up
    /\ up' = up \cup {s}
    /\ UNCHANGED <<pc, open, ready, todo, cur, schema, policy, faults>>

Run ==
    \/ Migrate
    \/ CachePing
    \/ InitRedis
    \/ InitLimiter
    \/ InitEngine
    \/ InitMinio
    \/ BucketExists
    \/ MakeBucket
    \/ SetPolicy
    \/ InitHttp
    \/ InitSmtp
    \/ CloseRedis
    \/ DisposeEngine
    \/ CloseHttp
    \/ CloseSmtp

Next ==
    \/ Run
    \/ Stop
    \/ Kill
    \/ \E s \in Services : Outage(s) \/ Recover(s)

Spec == Init /\ [][Next]_vars

(* docker restarts the process and the process runs; nothing is promised   *)
(* of the services.                                                        *)
FairSpec == Spec /\ WF_vars(Run)

-----------------------------------------------------------------------------
(* Requests are served by a process that has every client, loaded the      *)
(* limiter's script, was answered by the database, MinIO and the mail      *)
(* server, and knows its buckets to exist, whatever failed in this start   *)
(* or an earlier one: no failed check of the lifespan but that of          *)
(* init_redis is passed over.                                              *)
ReadyBeforeServing ==
    pc = "serving" =>
        /\ open = Providers
        /\ {"limiter", "engine", "minio", "smtp"} \subseteq ready
        /\ \A b \in Bucket : policy[b] # "absent"

(* Every start leaves a state from which a later one succeeds: the server  *)
(* serves once its services stay up, however often it was killed, stopped  *)
(* or left half started.                                                   *)
EventuallyServes == <>[](up = Services) => <>[](pc = "serving")

-----------------------------------------------------------------------------
(* What the comments say and the code does not do.  TLC refutes it; no run *)
(* lists it.                                                               *)

(* "Initialize configured buckets and set their policies": a server that   *)
(* serves has set the policy of every bucket, in this start or before.     *)
BucketsHavePolicies == pc = "serving" => \A b \in Bucket : policy[b] = "set"

(* init_redis: "If the connection fails, it logs [...] and raises a        *)
(* RuntimeError": no server serves whose ping failed.                      *)
PingedBeforeServing == pc = "serving" => "redis" \in ready

(* entrypoint.sh, "migrations + start of uvicorn": requests meet the       *)
(* tables of this version.                                                 *)
MigratedBeforeServing == pc = "serving" => schema = "head"
=============================================================================
