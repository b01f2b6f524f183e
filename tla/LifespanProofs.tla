-------------------------- MODULE LifespanProofs --------------------------
(***************************************************************************)
(* Proofs about Lifespan, for any set of buckets and any number of faults. *)
(***************************************************************************)
EXTENDS Lifespan, TLAPS

(* The labels that a start reaches after a provider's step.                *)
AfterSmtp    == {"serving"}
AfterHttp    == {"smtp"} \cup AfterSmtp
AfterBuckets == {"http"} \cup AfterHttp
AfterMinio   == {"exists", "make", "policy"} \cup AfterBuckets
AfterEngine  == {"minio"} \cup AfterMinio
AfterLimiter == {"engine"} \cup AfterEngine
AfterRedis   == {"limiter"} \cup AfterLimiter

(* What the start has opened and asked so far, in the order of lifespan.   *)
Progress ==
    /\ pc \in AfterRedis => "redis" \in open
    /\ pc \in AfterLimiter => "limiter" \in ready
    /\ pc \in AfterEngine => "engine" \in open /\ "engine" \in ready
    /\ pc \in AfterMinio => "minio" \in open /\ "minio" \in ready
    /\ pc \in AfterHttp => "http" \in open
    /\ pc \in AfterSmtp => "smtp" \in open /\ "smtp" \in ready

(* The loop has made, or found, the buckets it has left behind; nobody     *)
(* removes one.                                                            *)
BucketsSoFar ==
    /\ pc \in {"exists", "make"} => \A b \in Bucket : policy[b] = "absent" => b \in todo \cup {cur}
    /\ pc = "policy" => \A b \in Bucket : policy[b] = "absent" => b \in todo
    /\ pc \in AfterBuckets => \A b \in Bucket : policy[b] # "absent"

IInv == TypeOK /\ Progress /\ BucketsSoFar

(* A process that ends keeps nothing.                                      *)
LEMMA OffLemma ==
    ASSUME IInv, Off, schema' \in {"old", "head"},
           policy' \in [Bucket -> {"absent", "default", "set"}],
           up' \in SUBSET Services, faults' \in 0..MaxFaults
    PROVE  IInv'
  <1>1. TypeOK'
    BY DEF Off, TypeOK, Steps
  <1>2. Progress' /\ BucketsSoFar'
    BY DEF Off, Progress, BucketsSoFar, AfterRedis, AfterLimiter, AfterEngine, AfterMinio,
           AfterBuckets, AfterHttp, AfterSmtp
  <1> QED
    BY <1>1, <1>2 DEF IInv

(* A check that is answered takes the start one label on.                  *)
LEMMA CheckStep ==
    ASSUME IInv, UNCHANGED world, CachePing \/ InitLimiter \/ InitEngine \/ InitSmtp
    PROVE  IInv'
  <1> USE DEF IInv, AfterRedis, AfterLimiter, AfterEngine, AfterMinio, AfterBuckets, AfterHttp, AfterSmtp
  <1>1. CASE Off
    BY <1>1, OffLemma DEF TypeOK, world
  <1>2. CASE ~Off
    <2>1. CASE CachePing
      BY <1>2, <2>1 DEF CachePing, Check, TypeOK, Progress, BucketsSoFar, Steps, world
    <2>2. CASE InitLimiter
      BY <1>2, <2>2 DEF InitLimiter, Check, TypeOK, Progress, BucketsSoFar, Steps, world
    <2>3. CASE InitEngine
      BY <1>2, <2>3 DEF InitEngine, Check, TypeOK, Progress, BucketsSoFar, Steps, Providers, world
    <2>4. CASE InitSmtp
      BY <1>2, <2>4 DEF InitSmtp, Check, TypeOK, Progress, BucketsSoFar, Steps, Providers, world
    <2> QED
      BY <2>1, <2>2, <2>3, <2>4
  <1> QED
    BY <1>1, <1>2

(* Steps that ask nobody: nothing can stop them.                           *)
LEMMA PlainStep ==
    ASSUME IInv, Migrate \/ InitRedis \/ InitHttp
    PROVE  IInv'
  <1> USE DEF IInv, TypeOK, Progress, BucketsSoFar, Steps, Providers,
              AfterRedis, AfterLimiter, AfterEngine, AfterMinio, AfterBuckets, AfterHttp, AfterSmtp
  <1>1. CASE Migrate
    BY <1>1 DEF Migrate
  <1>2. CASE InitRedis
    BY <1>2 DEF InitRedis
  <1>3. CASE InitHttp
    BY <1>3 DEF InitHttp
  <1> QED
    BY <1>1, <1>2, <1>3

(* The loop goes on to its next bucket, or ends: what it leaves behind is  *)
(* there.                                                                  *)
LEMMA LoopStep ==
    ASSUME IInv, NextBucket, pc \in {"exists", "policy"}, UNCHANGED <<schema, up, faults>>,
           policy' \in [Bucket -> {"absent", "default", "set"}],
           \A b \in Bucket : policy'[b] = "absent" => b \in todo
    PROVE  IInv'
  <1> USE DEF IInv, AfterRedis, AfterLimiter, AfterEngine, AfterMinio, AfterBuckets, AfterHttp, AfterSmtp
  <1>1. TypeOK'
    BY LifespanAssumption DEF NextBucket, TypeOK, Steps
  <1>2. Progress'
    BY DEF NextBucket, Progress
  <1>3. BucketsSoFar'
    BY DEF NextBucket, BucketsSoFar
  <1> QED
    BY <1>1, <1>2, <1>3

(* The calls to MinIO.                                                     *)
LEMMA MinioStep ==
    ASSUME IInv, InitMinio \/ BucketExists \/ MakeBucket \/ SetPolicy
    PROVE  IInv'
  <1> USE DEF IInv, AfterRedis, AfterLimiter, AfterEngine, AfterMinio, AfterBuckets, AfterHttp, AfterSmtp
  <1>1. CASE Off
    <2>1. UNCHANGED world \/ UNCHANGED <<schema, up, faults, policy>>
      BY <1>1 DEF InitMinio, BucketExists, MakeBucket, SetPolicy, Off, world, TypeOK, NextBucket
    <2> QED
      BY <1>1, <2>1, OffLemma DEF TypeOK, world
  <1>2. CASE InitMinio /\ ~Off
    <2> PICK b \in Bucket : /\ pc' = "exists"
                            /\ open' = open \cup {"minio"}
                            /\ ready' = ready \cup {"minio"}
                            /\ todo' = Bucket \ {b}
                            /\ cur' = b
      BY <1>2 DEF InitMinio
    <2>1. pc = "minio" /\ UNCHANGED world
      BY <1>2 DEF InitMinio
    <2>2. TypeOK'
      BY <2>1, LifespanAssumption DEF TypeOK, Steps, Providers, world
    <2> QED
      BY <2>1, <2>2 DEF Progress, BucketsSoFar, world
  <1>3. CASE BucketExists /\ ~Off
    <2>1. pc = "exists" /\ UNCHANGED world
      BY <1>3 DEF BucketExists
    <2>2. CASE policy[cur] = "absent"
      BY <1>3, <2>1, <2>2 DEF BucketExists, TypeOK, Steps, Progress, BucketsSoFar, world
    <2>3. CASE policy[cur] # "absent"
      BY <1>3, <2>1, <2>3, LoopStep DEF BucketExists, TypeOK, BucketsSoFar, world
    <2> QED
      BY <2>2, <2>3
  <1>4. CASE MakeBucket /\ ~Off
    <2>1. /\ pc = "make" /\ pc' = "policy" /\ cur \in Bucket
          /\ policy' = [policy EXCEPT ![cur] = "default"]
          /\ UNCHANGED <<open, ready, todo, cur, schema, up, faults>>
      BY <1>4 DEF MakeBucket, TypeOK
    <2>2. TypeOK'
      BY <2>1 DEF TypeOK, Steps
    <2> QED
      BY <2>1, <2>2 DEF Progress, BucketsSoFar, TypeOK
  <1>5. CASE SetPolicy /\ ~Off
    <2>1. /\ pc = "policy" /\ NextBucket
          /\ policy' = [policy EXCEPT ![cur] = "set"]
          /\ UNCHANGED <<schema, up, faults>>
      BY <1>5 DEF SetPolicy
    <2>2. policy' \in [Bucket -> {"absent", "default", "set"}]
      BY <2>1 DEF TypeOK
    <2>3. \A b \in Bucket : policy'[b] = "absent" => b \in todo
      BY <2>1 DEF TypeOK, BucketsSoFar
    <2> QED
      BY <2>1, <2>2, <2>3, LoopStep
  <1> QED
    BY <1>1, <1>2, <1>3, <1>4, <1>5

(* The end of a process, orderly or not.                                   *)
LEMMA EndStep ==
    ASSUME IInv, CloseRedis \/ DisposeEngine \/ CloseHttp \/ CloseSmtp \/ Stop \/ Kill
    PROVE  IInv'
  <1>0. Fault => faults' \in 0..MaxFaults
    BY LifespanAssumption DEF Fault, IInv, TypeOK
  <1>1. CASE Off
    <2>1. UNCHANGED <<schema, policy, up>> /\ faults' \in 0..MaxFaults
      BY <1>0, <1>1 DEF CloseRedis, DisposeEngine, CloseHttp, CloseSmtp, Close, Stop, Kill, world,
                  IInv, TypeOK
    <2> QED
      BY <1>1, <2>1, OffLemma DEF IInv, TypeOK
  <1>2. CASE ~Off
    <2>1. /\ pc' \in {"close_redis", "close_engine", "close_http", "close_smtp"}
          /\ pc \in {"serving", "close_redis", "close_engine", "close_http"}
          /\ open' \in SUBSET Providers
          /\ UNCHANGED <<ready, todo, cur, schema, policy, up>>
          /\ faults' \in 0..MaxFaults
      BY <1>0, <1>2 DEF CloseRedis, DisposeEngine, CloseHttp, CloseSmtp, Close, Stop, Kill, world,
                  IInv, TypeOK
    <2>2. TypeOK'
      BY <2>1 DEF IInv, TypeOK, Steps
    <2>3. Progress' /\ BucketsSoFar'
      BY <2>1 DEF Progress, BucketsSoFar, AfterRedis, AfterLimiter, AfterEngine, AfterMinio,
                  AfterBuckets, AfterHttp, AfterSmtp
    <2> QED
      BY <2>2, <2>3 DEF IInv
  <1> QED
    BY <1>1, <1>2

(* A service comes or goes: the process does not notice yet.               *)
LEMMA ServiceStep ==
    ASSUME IInv, NEW s \in Services, Outage(s) \/ Recover(s)
    PROVE  IInv'
  <1>1. faults' \in 0..MaxFaults /\ up' \in SUBSET Services
    BY LifespanAssumption DEF Outage, Recover, Fault, IInv, TypeOK
  <1>2. UNCHANGED <<pc, open, ready, todo, cur, schema, policy>>
    BY DEF Outage, Recover
  <1> QED
    BY <1>1, <1>2 DEF IInv, TypeOK, Progress, BucketsSoFar

LEMMA Inductive == IInv /\ [Next]_vars => IInv'
  <1> SUFFICES ASSUME IInv, [Next]_vars PROVE IInv'
    OBVIOUS
  <1>1. CASE UNCHANGED vars
    BY <1>1 DEF vars, IInv, TypeOK, Progress, BucketsSoFar
  <1>2. CASE CachePing \/ InitLimiter \/ InitEngine \/ InitSmtp
    BY <1>2, CheckStep DEF CachePing, InitLimiter, InitEngine, InitSmtp
  <1> QED
    BY <1>1, <1>2, PlainStep, MinioStep, EndStep, ServiceStep DEF Next, Run

LEMMA Initial == Init => IInv
  BY LifespanAssumption DEF Init, IInv, TypeOK, Steps, Services, Progress, BucketsSoFar, AfterRedis,
     AfterLimiter, AfterEngine, AfterMinio, AfterBuckets, AfterHttp, AfterSmtp

LEMMA Invariance == Spec => []IInv
  BY Initial, Inductive, PTL DEF Spec

(* The variables keep their types: the loop has a bucket exactly while it  *)
(* runs, whatever ends it.                                                 *)
THEOREM TypeCorrect == Spec => []TypeOK
  <1>1. IInv => TypeOK
    BY DEF IInv
  <1> QED
    BY <1>1, Invariance, PTL

(* Requests are served by a process that has opened every client and was   *)
(* answered by every service but Redis' ping, and all buckets exist.       *)
THEOREM Ready == Spec => []ReadyBeforeServing
  <1>1. IInv => ReadyBeforeServing
    BY DEF IInv, TypeOK, Progress, BucketsSoFar, ReadyBeforeServing, Providers,
       AfterRedis, AfterLimiter, AfterEngine, AfterMinio, AfterBuckets, AfterHttp, AfterSmtp
  <1> QED
    BY <1>1, Invariance, PTL
=============================================================================
