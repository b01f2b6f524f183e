--------------------------- MODULE SmtpPoolProofs ---------------------------
(***************************************************************************)
(* Proofs about SmtpPool, for any number of clients, calls and retries.    *)
(***************************************************************************)
EXTENDS SmtpPool, FiniteSetTheorems, SequenceTheorems, TLAPS

Elems(q) == {q[i] : i \in DOMAIN q}

Once(q) == \A i, j \in DOMAIN q : q[i] = q[j] => i = j

(* Each client is in one place: the queue E, a call (J), the keep-alive    *)
(* task (k), close (x), or it has quit (D).                                *)
Placed(E, J, k, x, D) ==
    /\ \A s \in Sender : J[s] # NoClient =>
          /\ J[s] \notin E
          /\ J[s] # k
          /\ J[s] # x
          /\ J[s] \notin D
          /\ \A t \in Sender : J[t] = J[s] => t = s
    /\ k # NoClient => k \notin E /\ k # x /\ k \notin D
    /\ x # NoClient => x \notin E /\ x \notin D
    /\ E \cap D = {}
    /\ \A c \in Client : c \in E \/ (\E s \in Sender : J[s] = c) \/ k = c \/ x = c \/ c \in D

Using == [s \in Sender |-> job[s].client]

Call == [pc : {"new", "get", "send", "quit", "connect", "sleep", "sent", "failed"},
         attempt : 0 .. MaxRetries - 1,
         client : Held]

(* A call holds a client where it uses one; the server has taken at most   *)
(* as many copies of its message as it made attempts.                      *)
CallOK(j, n) ==
    /\ j.client # NoClient <=> j.pc \in {"send", "quit", "connect"}
    /\ n <= j.attempt + 1
    /\ j.pc \in {"new", "get", "send"} => n <= j.attempt
    /\ j.pc = "sent" => 1 <= n
    /\ j.pc = "sleep" => j.attempt < MaxRetries - 1

Calls == \A s \in Sender : CallOK(job[s], accepted[s])

(* Nothing else runs once close has begun, and what has quit stays down    *)
(* unless its quit raised.                                                 *)
Closing ==
    /\ ka.client # NoClient <=> ka.pc \in {"noop", "quit", "connect"}
    /\ closer.client # NoClient <=> closer.pc = "quit"
    /\ closer.pc # "open" =>
          /\ ka.pc = "cancelled"
          /\ \A s \in Sender : job[s].pc \in {"new", "sent", "failed"}
    /\ up \cap closer.done \subseteq closer.failed
    /\ closer.pc = "closed" => queue = <<>>

IInv ==
    /\ TypeOK
    /\ Len(queue) <= PoolSize
    /\ Once(queue)
    /\ Placed(Elems(queue), Using, ka.client, closer.client, closer.done)
    /\ Calls
    /\ Closing

-----------------------------------------------------------------------------
(* The queue.                                                              *)

LEMMA PoolSizeType == PoolSize \in Nat
    BY PoolAssumption, FS_CardinalityType DEF PoolSize

LEMMA TakeHead ==
    ASSUME NEW q \in Seq(Client), Once(q), q # <<>>
    PROVE  /\ Head(q) \in Client /\ Head(q) \in Elems(q)
           /\ Tail(q) \in Seq(Client) /\ Len(Tail(q)) = Len(q) - 1 /\ Len(q) \in Nat \ {0}
           /\ Once(Tail(q))
           /\ Elems(Tail(q)) = Elems(q) \ {Head(q)}
  <1>1. /\ Head(q) \in Client /\ Tail(q) \in Seq(Client) /\ Len(Tail(q)) = Len(q) - 1
        /\ Len(q) \in Nat \ {0} /\ Head(q) = q[1]
        /\ \A i \in 1 .. Len(Tail(q)) : Tail(q)[i] = q[i + 1]
    BY HeadTailProperties, EmptySeq
  <1>2. DOMAIN q = 1 .. Len(q) /\ DOMAIN Tail(q) = 1 .. (Len(q) - 1)
    BY <1>1, LenProperties
  <1>3. \A i \in DOMAIN Tail(q) : i + 1 \in DOMAIN q /\ Tail(q)[i] = q[i + 1] /\ i \in Nat
    BY <1>1, <1>2
  <1>4. Once(Tail(q))
    <2> SUFFICES ASSUME NEW i \in DOMAIN Tail(q), NEW j \in DOMAIN Tail(q),
                        Tail(q)[i] = Tail(q)[j]
                 PROVE  i = j
      BY DEF Once
    <2>1. i + 1 = j + 1
      BY <1>3 DEF Once
    <2> QED
      BY <1>3, <2>1
  <1>5. Head(q) \in Elems(q)
    <2>1. 1 \in DOMAIN q
      BY <1>1, <1>2
    <2> QED
      BY <1>1, <2>1 DEF Elems
  <1>6. \A c \in Elems(Tail(q)) : c \in Elems(q) /\ c # Head(q)
    <2> SUFFICES ASSUME NEW i \in DOMAIN Tail(q) PROVE q[i + 1] \in Elems(q) /\ q[i + 1] # q[1]
      BY <1>1, <1>3 DEF Elems
    <2>1. 1 \in DOMAIN q /\ i + 1 \in DOMAIN q /\ i + 1 # 1
      BY <1>1, <1>2, <1>3
    <2> QED
      BY <2>1 DEF Elems, Once
  <1>7. \A c \in Elems(q) : c # Head(q) => c \in Elems(Tail(q))
    <2> SUFFICES ASSUME NEW i \in DOMAIN q, q[i] # q[1] PROVE q[i] \in Elems(Tail(q))
      BY <1>1 DEF Elems
    <2>1. i # 1
      OBVIOUS
    <2>2. i - 1 \in DOMAIN Tail(q) /\ (i - 1) + 1 = i
      BY <1>1, <1>2, <2>1
    <2>3. Tail(q)[i - 1] = q[i]
      BY <1>3, <2>2
    <2> QED
      BY <2>2, <2>3 DEF Elems
  <1> QED
    BY <1>1, <1>4, <1>5, <1>6, <1>7

LEMMA PutLast ==
    ASSUME NEW q \in Seq(Client), Once(q), NEW c \in Client, c \notin Elems(q)
    PROVE  /\ Append(q, c) \in Seq(Client) /\ Len(Append(q, c)) = Len(q) + 1
           /\ Len(q) \in Nat
           /\ Append(q, c) # <<>>
           /\ Once(Append(q, c))
           /\ Elems(Append(q, c)) = Elems(q) \cup {c}
  <1> DEFINE a == Append(q, c)
  <1>1. /\ a \in Seq(Client) /\ Len(a) = Len(q) + 1 /\ Len(q) \in Nat /\ a # <<>>
        /\ \A i \in 1 .. Len(q) : a[i] = q[i]
        /\ a[Len(q) + 1] = c
    BY AppendProperties, LenProperties
  <1>2. DOMAIN q = 1 .. Len(q) /\ DOMAIN a = 1 .. (Len(q) + 1)
    BY <1>1, LenProperties
  <1> HIDE DEF a
  <1>3. \A i \in DOMAIN a : (i \in DOMAIN q /\ a[i] = q[i]) \/ (i = Len(q) + 1 /\ a[i] = c)
    BY <1>1, <1>2
  <1>4. \A i \in DOMAIN q : i \in DOMAIN a /\ a[i] = q[i] /\ q[i] # c
    BY <1>1, <1>2 DEF Elems
  <1>5. Len(q) + 1 \in DOMAIN a /\ a[Len(q) + 1] = c
    BY <1>1, <1>2
  <1>6. Once(a)
    BY <1>3, <1>4 DEF Once
  <1>7. Elems(a) = Elems(q) \cup {c}
    BY <1>3, <1>4, <1>5 DEF Elems
  <1> QED
    BY <1>1, <1>6, <1>7 DEF a

-----------------------------------------------------------------------------
(* Clients change places.                                                  *)

LEMMA CallTakes ==
    ASSUME NEW E, NEW J, J \in [Sender -> Held], NEW k, NEW x, NEW D, Placed(E, J, k, x, D),
           NEW s \in Sender, J[s] = NoClient, NEW h \in Client, h \in E
    PROVE  Placed(E \ {h}, [J EXCEPT ![s] = h], k, x, D)
    BY PoolAssumption DEF Placed, Held

LEMMA CallPuts ==
    ASSUME NEW E, NEW J, J \in [Sender -> Held], NEW k, NEW x, NEW D, Placed(E, J, k, x, D),
           NEW s \in Sender, J[s] # NoClient
    PROVE  Placed(E \cup {J[s]}, [J EXCEPT ![s] = NoClient], k, x, D) /\ J[s] \notin E
  <1> DEFINE L == [J EXCEPT ![s] = NoClient]
  <1>1. L[s] = NoClient /\ \A t \in Sender \ {s} : L[t] = J[t]
    OBVIOUS
  <1>2. J[s] \in Client
    BY DEF Held
  <1> HIDE DEF L
  <1> QED
    BY <1>1, <1>2, PoolAssumption DEF Placed, L

LEMMA TaskTakes ==
    ASSUME NEW E, NEW J, NEW x, NEW D, Placed(E, J, NoClient, x, D), NEW h \in Client, h \in E
    PROVE  Placed(E \ {h}, J, h, x, D)
    BY PoolAssumption DEF Placed

LEMMA TaskPuts ==
    ASSUME NEW E, NEW J, NEW k \in Client, NEW x, NEW D, Placed(E, J, k, x, D)
    PROVE  Placed(E \cup {k}, J, NoClient, x, D) /\ k \notin E
    BY PoolAssumption DEF Placed

LEMMA CloseTakes ==
    ASSUME NEW E, NEW J, NEW k, NEW D, Placed(E, J, k, NoClient, D), NEW h \in Client, h \in E
    PROVE  Placed(E \ {h}, J, k, h, D)
    BY PoolAssumption DEF Placed

LEMMA CloseEnds ==
    ASSUME NEW E, NEW J, NEW k, NEW x \in Client, NEW D, Placed(E, J, k, x, D)
    PROVE  Placed(E, J, k, NoClient, D \cup {x})
    BY PoolAssumption DEF Placed

-----------------------------------------------------------------------------
(* A step of the call s, which runs before close begins.                   *)
LEMMA CallLemma ==
    ASSUME IInv, closer.pc = "open", NEW s \in Sender, NEW j \in Call, NEW n \in 0 .. MaxRetries,
           job' = [job EXCEPT ![s] = j], accepted' = [accepted EXCEPT ![s] = n],
           CallOK(j, n), UNCHANGED <<ka, closer>>,
           up' \in SUBSET Client, up' \cap closer.done \subseteq closer.failed,
           queue' \in Seq(Client), Len(queue') <= PoolSize, Once(queue'),
           Placed(Elems(queue'), [Using EXCEPT ![s] = j.client], ka.client, closer.client,
                  closer.done)
    PROVE  IInv'
  <1>1. job \in [Sender -> Call] /\ accepted \in [Sender -> 0 .. MaxRetries]
    BY DEF IInv, TypeOK, Call
  <1>2. job' \in [Sender -> Call] /\ accepted' \in [Sender -> 0 .. MaxRetries]
    BY <1>1
  <1>3. Using' = [Using EXCEPT ![s] = j.client]
    BY <1>1 DEF Using
  <1>4. Calls'
    BY <1>1 DEF IInv, Calls
  <1>5. TypeOK'
    BY <1>2 DEF IInv, TypeOK, Call
  <1>6. Closing'
    BY DEF IInv, Closing
  <1>7. PoolSize' = PoolSize
    BY DEF PoolSize
  <1> QED
    BY <1>3, <1>4, <1>5, <1>6, <1>7 DEF IInv

(* What is known of a call that has begun.                                 *)
LEMMA CallType ==
    ASSUME IInv, NEW s \in Sender
    PROVE  /\ job \in [Sender -> Call] /\ job[s] \in Call
           /\ accepted \in [Sender -> 0 .. MaxRetries] /\ accepted[s] \in 0 .. MaxRetries
           /\ accepted[s] \in Nat /\ job[s].attempt \in Nat /\ job[s].attempt < MaxRetries
           /\ MaxRetries \in Nat \ {0}
           /\ CallOK(job[s], accepted[s])
           /\ job[s].pc \notin {"new", "sent", "failed"} => closer.pc = "open"
           /\ Using \in [Sender -> Held] /\ Using[s] = job[s].client
           /\ queue \in Seq(Client) /\ Len(queue) <= PoolSize /\ Once(queue)
           /\ Placed(Elems(queue), Using, ka.client, closer.client, closer.done)
           /\ up \in SUBSET Client /\ up \cap closer.done \subseteq closer.failed
  <1>1. job \in [Sender -> Call] /\ accepted \in [Sender -> 0 .. MaxRetries]
    BY DEF IInv, TypeOK, Call
  <1>2. MaxRetries \in Nat \ {0}
    BY PoolAssumption
  <1>3. job[s].attempt \in 0 .. MaxRetries - 1 /\ accepted[s] \in 0 .. MaxRetries
    BY <1>1 DEF Call
  <1>4. Using \in [Sender -> Held] /\ Using[s] = job[s].client
    BY <1>1 DEF Using, Call
  <1> QED
    BY <1>1, <1>2, <1>3, <1>4 DEF IInv, TypeOK, Calls, Closing

(* A call that keeps its client, or has none.                              *)
LEMMA CallKeeps ==
    ASSUME IInv, closer.pc = "open", NEW s \in Sender, NEW j \in Call, NEW n \in 0 .. MaxRetries,
           j.client = job[s].client,
           job' = [job EXCEPT ![s] = j], accepted' = [accepted EXCEPT ![s] = n],
           CallOK(j, n), UNCHANGED <<queue, ka, closer>>, up' \in SUBSET up
    PROVE  IInv'
  <1>1. [Using EXCEPT ![s] = j.client] = Using
    BY CallType
  <1>2. up' \in SUBSET Client /\ up' \cap closer.done \subseteq closer.failed
    BY CallType
  <1> QED
    BY <1>1, <1>2, CallType, CallLemma

LEMMA SendStep ==
    ASSUME IInv, NEW s \in Sender, SendNext(s)
    PROVE  IInv'
  <1> DEFINE n == accepted[s]
  <1>0. /\ job \in [Sender -> Call] /\ job[s] \in Call
        /\ accepted \in [Sender -> 0 .. MaxRetries] /\ n \in 0 .. MaxRetries
        /\ accepted = [accepted EXCEPT ![s] = n]
        /\ n \in Nat /\ job[s].attempt \in Nat /\ job[s].attempt < MaxRetries
        /\ MaxRetries \in Nat \ {0} /\ up \in SUBSET up
        /\ CallOK(job[s], n)
        /\ job[s].pc \notin {"new", "sent", "failed"} => closer.pc = "open"
    BY CallType
  <1>1. CASE SendStart(s)
    <2> DEFINE j == [job[s] EXCEPT !.pc = "get"]
    <2>1. /\ closer.pc = "open" /\ job' = [job EXCEPT ![s] = j] /\ job[s].pc = "new"
          /\ UNCHANGED <<queue, up, ka, closer, accepted>>
      BY <1>0, <1>1 DEF SendStart
    <2>2. j \in Call /\ j.client = job[s].client /\ CallOK(j, n)
      BY <1>0, <2>1 DEF Call, CallOK
    <2> HIDE DEF j, n
    <2> QED
      BY <1>0, <2>1, <2>2, CallKeeps
  <1>2. CASE SendGet(s)
    <2> DEFINE h == Head(queue)
               j == [job[s] EXCEPT !.pc = "send", !.client = h]
    <2>1. /\ closer.pc = "open" /\ job' = [job EXCEPT ![s] = j] /\ job[s].pc = "get"
          /\ queue # <<>> /\ queue' = Tail(queue)
          /\ UNCHANGED <<up, ka, closer, accepted>>
      BY <1>0, <1>2 DEF SendGet
    <2>2. /\ h \in Client /\ h \in Elems(queue) /\ queue' \in Seq(Client)
          /\ Len(queue') = Len(queue) - 1 /\ Len(queue) \in Nat
          /\ Once(queue') /\ Elems(queue') = Elems(queue) \ {h}
      BY <2>1, CallType, TakeHead
    <2>3. Len(queue') <= PoolSize
      BY <2>2, CallType, PoolSizeType
    <2>4. job[s].client = NoClient /\ h # NoClient
      BY <1>0, <2>1, <2>2, PoolAssumption DEF CallOK
    <2>5. j \in Call /\ j.client = h /\ CallOK(j, n)
      BY <1>0, <2>1, <2>2, <2>4 DEF Call, CallOK, Held
    <2>6. Placed(Elems(queue'), [Using EXCEPT ![s] = h], ka.client, closer.client, closer.done)
      <3>1. /\ Using \in [Sender -> Held] /\ Using[s] = NoClient
            /\ Placed(Elems(queue), Using, ka.client, closer.client, closer.done)
        BY <2>4, CallType
      <3> HIDE DEF h, j, n
      <3>2. Placed(Elems(queue) \ {h}, [Using EXCEPT ![s] = h], ka.client, closer.client,
                   closer.done)
        BY <2>2, <3>1, CallTakes
      <3> QED
        BY <2>2, <3>2
    <2>7. up' \in SUBSET Client /\ up' \cap closer.done \subseteq closer.failed
      BY <2>1, CallType
    <2> HIDE DEF h, j, n
    <2> QED
      BY <1>0, <2>1, <2>2, <2>3, <2>5, <2>6, <2>7, CallLemma
  <1>3. ASSUME job[s].client # NoClient, CanPut, closer.pc = "open",
               NEW j \in Call, j.client = NoClient, NEW m \in 0 .. MaxRetries, CallOK(j, m),
               job' = [job EXCEPT ![s] = j], accepted' = [accepted EXCEPT ![s] = m],
               queue' = Append(queue, job[s].client), UNCHANGED <<ka, closer>>,
               up' \in {up, up \cup {job[s].client}}
        PROVE  IInv'
    <2> DEFINE c == job[s].client
    <2>1. c \in Client /\ Using[s] = c
      BY <1>0, <1>3, CallType DEF Call, Held
    <2>2. c \notin Elems(queue)
          /\ Placed(Elems(queue) \cup {c}, [Using EXCEPT ![s] = NoClient], ka.client,
                    closer.client, closer.done)
      <3>1. /\ Using \in [Sender -> Held] /\ Using[s] = c /\ Using[s] # NoClient
            /\ Placed(Elems(queue), Using, ka.client, closer.client, closer.done)
        BY <1>3, <2>1, CallType
      <3> HIDE DEF c
      <3> QED
        BY <3>1, CallPuts
    <2>3. /\ queue' \in Seq(Client) /\ Len(queue') = Len(queue) + 1 /\ Len(queue) \in Nat
          /\ Once(queue') /\ Elems(queue') = Elems(queue) \cup {c}
      BY <1>3, <2>1, <2>2, CallType, PutLast
    <2>4. Len(queue') <= PoolSize
      BY <1>3, <2>3, PoolSizeType DEF CanPut
    <2>5. c \notin closer.done
      BY <1>3, <2>1, CallType DEF Placed
    <2>6. up' \in SUBSET Client /\ up' \cap closer.done \subseteq closer.failed
      BY <1>3, <2>1, <2>5, CallType
    <2> QED
      BY <1>3, <2>2, <2>3, <2>4, <2>6, CallLemma
  <1>4. CASE SendOk(s)
    <2> DEFINE j == [job[s] EXCEPT !.pc = "sent", !.client = NoClient]
    <2>1. /\ job' = [job EXCEPT ![s] = j] /\ job[s].pc = "send" /\ CanPut
          /\ accepted' = [accepted EXCEPT ![s] = n + 1]
          /\ queue' = Append(queue, job[s].client) /\ UNCHANGED <<up, ka, closer>>
      BY <1>0, <1>4 DEF SendOk
    <2>2. job[s].client # NoClient /\ n <= job[s].attempt
      BY <1>0, <2>1 DEF CallOK
    <2>3. n + 1 \in 0 .. MaxRetries
      BY <1>0, <2>2
    <2>4. j \in Call /\ j.client = NoClient /\ j.pc = "sent" /\ j.attempt = job[s].attempt
      BY <1>0 DEF Call, Held
    <2>5. CallOK(j, n + 1)
      BY <1>0, <2>2, <2>4 DEF CallOK
    <2> HIDE DEF j, n
    <2> QED
      BY <1>0, <1>3, <2>1, <2>2, <2>3, <2>4, <2>5
  <1>5. CASE SendRaises(s)
    <2> DEFINE j == [job[s] EXCEPT !.pc = "quit"]
    <2>1. /\ job' = [job EXCEPT ![s] = j] /\ job[s].pc = "send"
          /\ UNCHANGED <<queue, up, ka, closer>>
          /\ \/ accepted' = [accepted EXCEPT ![s] = n]
             \/ accepted' = [accepted EXCEPT ![s] = n + 1]
      BY <1>0, <1>5 DEF SendRaises
    <2>2. job[s].client # NoClient /\ n <= job[s].attempt
      BY <1>0, <2>1 DEF CallOK
    <2>3. n + 1 \in 0 .. MaxRetries
      BY <1>0, <2>2
    <2>4. /\ j \in Call /\ j.client = job[s].client /\ j.pc = "quit"
          /\ j.attempt = job[s].attempt
      BY <1>0 DEF Call
    <2>5. CallOK(j, n) /\ CallOK(j, n + 1)
      BY <1>0, <2>2, <2>4 DEF CallOK
    <2> HIDE DEF j, n
    <2> QED
      BY <1>0, <2>1, <2>3, <2>4, <2>5, CallKeeps
  <1>6. CASE SendQuit(s)
    <2> DEFINE j == [job[s] EXCEPT !.pc = "connect"]
    <2>1. /\ job' = [job EXCEPT ![s] = j] /\ job[s].pc = "quit" /\ up' \in SUBSET up
          /\ UNCHANGED <<queue, ka, closer, accepted>>
      BY <1>0, <1>6 DEF SendQuit
    <2>2. j \in Call /\ j.client = job[s].client /\ CallOK(j, n)
      BY <1>0, <2>1 DEF Call, CallOK
    <2> HIDE DEF j, n
    <2> QED
      BY <1>0, <2>1, <2>2, CallKeeps
  <1>7. CASE SendReconnect(s)
    <2> DEFINE pc == IF job[s].attempt = MaxRetries - 1 THEN "failed" ELSE "sleep"
               j == [job[s] EXCEPT !.pc = pc, !.client = NoClient]
    <2>1. /\ job' = [job EXCEPT ![s] = j] /\ job[s].pc = "connect" /\ CanPut
          /\ up' \in {up, up \cup {job[s].client}}
          /\ queue' = Append(queue, job[s].client) /\ UNCHANGED <<ka, closer, accepted>>
      BY <1>0, <1>7 DEF SendReconnect
    <2>2. job[s].client # NoClient
      BY <1>0, <2>1 DEF CallOK
    <2>3. pc \in {"failed", "sleep"} /\ (pc = "sleep" => job[s].attempt < MaxRetries - 1)
      BY <1>0
    <2> HIDE DEF pc
    <2>4. j \in Call /\ j.client = NoClient /\ j.pc = pc /\ j.attempt = job[s].attempt
      BY <1>0, <2>3 DEF Call, Held
    <2>5. CallOK(j, n)
      BY <1>0, <2>3, <2>4 DEF CallOK
    <2> HIDE DEF j, n
    <2> QED
      BY <1>0, <1>3, <2>1, <2>2, <2>4, <2>5
  <1>8. CASE SendRetry(s)
    <2> DEFINE j == [job[s] EXCEPT !.pc = "get", !.attempt = job[s].attempt + 1]
    <2>1. /\ job' = [job EXCEPT ![s] = j] /\ job[s].pc = "sleep"
          /\ UNCHANGED <<queue, up, ka, closer, accepted>>
      BY <1>0, <1>8 DEF SendRetry
    <2>2. job[s].attempt + 1 \in 0 .. MaxRetries - 1
      BY <1>0, <2>1 DEF CallOK
    <2>3. /\ j \in Call /\ j.client = job[s].client /\ j.pc = "get"
          /\ j.attempt = job[s].attempt + 1
      BY <1>0, <2>2 DEF Call
    <2>4. CallOK(j, n)
      BY <1>0, <2>1, <2>3 DEF CallOK
    <2> HIDE DEF j, n
    <2> QED
      BY <1>0, <2>1, <2>3, <2>4, CallKeeps
  <1> QED
    BY <1>1, <1>2, <1>4, <1>5, <1>6, <1>7, <1>8 DEF SendNext

-----------------------------------------------------------------------------
Task == [pc : {"awake", "noop", "quit", "connect", "asleep", "cancelled"},
         left : 0 .. PoolSize, attempt : 0 .. MaxRetries, client : Held]

(* What is known of the keep-alive task.                                   *)
LEMMA TaskType ==
    ASSUME IInv
    PROVE  /\ ka \in Task
           /\ ka.client # NoClient <=> ka.pc \in {"noop", "quit", "connect"}
           /\ ka.pc # "cancelled" => closer.pc = "open"
           /\ queue \in Seq(Client) /\ Len(queue) <= PoolSize /\ Once(queue)
           /\ Len(queue) \in Nat /\ PoolSize \in Nat /\ MaxRetries \in Nat \ {0}
           /\ Placed(Elems(queue), Using, ka.client, closer.client, closer.done)
           /\ up \in SUBSET Client /\ up \cap closer.done \subseteq closer.failed
    BY PoolSizeType, LenProperties, PoolAssumption DEF IInv, TypeOK, Closing, Task

(* A step of the keep-alive task, which runs before close begins.          *)
LEMMA TaskLemma ==
    ASSUME IInv, closer.pc = "open", UNCHANGED <<job, closer, accepted>>,
           ka' \in Task, ka'.client # NoClient <=> ka'.pc \in {"noop", "quit", "connect"},
           up' \in SUBSET Client, up' \cap closer.done \subseteq closer.failed,
           queue' \in Seq(Client), Len(queue') <= PoolSize, Once(queue'),
           Placed(Elems(queue'), Using, ka'.client, closer.client, closer.done)
    PROVE  IInv'
  <1>1. TypeOK'
    BY DEF IInv, TypeOK, Task, PoolSize
  <1>2. Calls' /\ Closing' /\ Using' = Using /\ PoolSize' = PoolSize
    BY DEF IInv, Calls, Closing, Using, PoolSize
  <1> QED
    BY <1>1, <1>2 DEF IInv

(* The rest of a round, once the task holds nothing.                       *)
LEMMA RoundLemma ==
    ASSUME IInv, closer.pc = "open", UNCHANGED <<job, closer, accepted>>,
           NEW q \in Seq(Client), Len(q) <= PoolSize, Once(q),
           Placed(Elems(q), Using, NoClient, closer.client, closer.done),
           NEW n \in 0 .. PoolSize, KaTakeNext(q, n),
           up' \in SUBSET Client, up' \cap closer.done \subseteq closer.failed
    PROVE  IInv'
  <1>0. PoolSize \in Nat /\ MaxRetries \in Nat
    BY PoolSizeType, PoolAssumption
  <1>1. CASE n = 0 \/ q = <<>>
    <2>1. queue' = q /\ ka' = [pc |-> "asleep", left |-> 0, attempt |-> 0, client |-> NoClient]
      BY <1>1 DEF KaTakeNext
    <2>2. ka' \in Task /\ ka'.client = NoClient /\ ka'.pc = "asleep"
      BY <1>0, <2>1 DEF Task, Held
    <2> QED
      BY <2>1, <2>2, TaskLemma
  <1>2. CASE ~(n = 0 \/ q = <<>>)
    <2> DEFINE h == Head(q)
    <2>1. queue' = Tail(q) /\ ka' = [pc |-> "noop", left |-> n - 1, attempt |-> 0, client |-> h]
      BY <1>2 DEF KaTakeNext
    <2>2. /\ h \in Client /\ h \in Elems(q) /\ queue' \in Seq(Client)
          /\ Len(queue') = Len(q) - 1 /\ Len(q) \in Nat
          /\ Once(queue') /\ Elems(queue') = Elems(q) \ {h}
      BY <1>2, <2>1, TakeHead
    <2>3. Len(queue') <= PoolSize /\ n - 1 \in 0 .. PoolSize
      BY <1>0, <1>2, <2>2
    <2> HIDE DEF h
    <2>4. ka' \in Task /\ ka'.client = h /\ ka'.pc = "noop" /\ h # NoClient
      BY <1>0, <2>1, <2>2, <2>3, PoolAssumption DEF Task, Held
    <2>5. Placed(Elems(queue'), Using, h, closer.client, closer.done)
      BY <2>2, TaskTakes
    <2> QED
      BY <2>2, <2>3, <2>4, <2>5, TaskLemma
  <1> QED
    BY <1>1, <1>2

LEMMA KeepAliveStep ==
    ASSUME IInv, KaNext
    PROVE  IInv'
  <1>1. ka.pc # "cancelled"
    BY DEF KaNext, KaRound, KaNoopOk, KaNoopFails, KaQuit, KaConnectOk, KaConnectFails,
           KaGiveUp, KaWake
  <1>2. closer.pc = "open" /\ UNCHANGED <<job, closer, accepted>>
    BY <1>1, TaskType DEF KaNext, KaRound, KaNoopOk, KaNoopFails, KaQuit, KaConnectOk,
           KaConnectFails, KaGiveUp, KaWake, KaPutBack
  <1>3. CASE KaRound
    <2>1. ka.client = NoClient /\ up' = up /\ KaTakeNext(queue, Len(queue))
      BY <1>3, TaskType DEF KaRound
    <2>2. Len(queue) \in 0 .. PoolSize /\ up' \in SUBSET Client /\ up' \cap closer.done \subseteq closer.failed
      BY <2>1, TaskType
    <2>3. Placed(Elems(queue), Using, NoClient, closer.client, closer.done)
      BY <2>1, TaskType
    <2> QED
      BY <1>2, <2>1, <2>2, <2>3, TaskType, RoundLemma
  <1>4. ASSUME KaPutBack, ka.pc \in {"noop", "connect"}, up' \in {up, up \cup {ka.client}}
        PROVE  IInv'
    <2> DEFINE c == ka.client
    <2>1. c \in Client /\ ka.left \in 0 .. PoolSize
      BY <1>4, TaskType DEF Task, Held
    <2>2. c \notin Elems(queue) /\ c \notin closer.done
          /\ Placed(Elems(queue) \cup {c}, Using, NoClient, closer.client, closer.done)
      BY <1>4, <2>1, TaskType, TaskPuts DEF Placed
    <2>3. CanPut /\ KaTakeNext(Append(queue, c), ka.left)
      BY <1>4 DEF KaPutBack
    <2> DEFINE q == Append(queue, c)
    <2>4. /\ q \in Seq(Client) /\ Len(q) = Len(queue) + 1 /\ Len(queue) \in Nat
          /\ Once(q) /\ Elems(q) = Elems(queue) \cup {c}
      BY <2>1, <2>2, TaskType, PutLast
    <2>5. Len(q) <= PoolSize
      BY <2>3, <2>4, PoolSizeType DEF CanPut
    <2>6. up' \in SUBSET Client /\ up' \cap closer.done \subseteq closer.failed
      BY <1>4, <2>1, <2>2, TaskType
    <2> HIDE DEF c, q
    <2> QED
      BY <1>2, <2>1, <2>2, <2>3, <2>4, <2>5, <2>6, RoundLemma DEF q
  <1>5. CASE KaNoopOk
    BY <1>4, <1>5 DEF KaNoopOk
  <1>6. CASE KaConnectOk
    BY <1>4, <1>6 DEF KaConnectOk
  <1>7. CASE KaGiveUp
    BY <1>4, <1>7 DEF KaGiveUp
  <1>8. ASSUME NEW k \in Task, k.client = ka.client,
               k.client # NoClient <=> k.pc \in {"noop", "quit", "connect"},
               ka' = k, queue' = queue, up' \in SUBSET up
        PROVE  IInv'
    <2>1. up' \in SUBSET Client /\ up' \cap closer.done \subseteq closer.failed
      BY <1>8, TaskType
    <2> QED
      BY <1>2, <1>8, <2>1, TaskType, TaskLemma
  <1>9. CASE KaNoopFails
    <2> DEFINE k == [ka EXCEPT !.pc = "quit"]
    <2>1. ka' = k /\ queue' = queue /\ up' \in SUBSET up /\ ka.pc = "noop"
      BY <1>9 DEF KaNoopFails
    <2>2. k \in Task /\ k.client = ka.client /\ k.pc = "quit"
      BY TaskType DEF Task
    <2> HIDE DEF k
    <2> QED
      BY <1>8, <2>1, <2>2, TaskType
  <1>10. CASE KaQuit
    <2> DEFINE k == [ka EXCEPT !.pc = "connect"]
    <2>1. ka' = k /\ queue' = queue /\ up' \in SUBSET up /\ ka.pc = "quit"
      BY <1>10 DEF KaQuit
    <2>2. k \in Task /\ k.client = ka.client /\ k.pc = "connect"
      BY TaskType DEF Task
    <2> HIDE DEF k
    <2> QED
      BY <1>8, <2>1, <2>2, TaskType
  <1>11. CASE KaConnectFails
    <2> DEFINE k == [ka EXCEPT !.attempt = ka.attempt + 1]
    <2>1. ka' = k /\ queue' = queue /\ up' \in SUBSET up /\ ka.attempt < MaxRetries
      BY <1>11 DEF KaConnectFails
    <2>2. ka.attempt + 1 \in 0 .. MaxRetries
      BY <2>1, TaskType DEF Task
    <2>3. k \in Task /\ k.client = ka.client /\ k.pc = ka.pc
      BY <2>2, TaskType DEF Task
    <2> HIDE DEF k
    <2> QED
      BY <1>8, <2>1, <2>3, TaskType
  <1>12. CASE KaWake
    <2> DEFINE k == [ka EXCEPT !.pc = "awake"]
    <2>1. ka' = k /\ queue' = queue /\ up' \in SUBSET up /\ ka.pc = "asleep"
      BY <1>12 DEF KaWake
    <2>2. k \in Task /\ k.client = ka.client /\ k.pc = "awake"
      BY TaskType DEF Task
    <2> HIDE DEF k
    <2> QED
      BY <1>8, <2>1, <2>2, TaskType
  <1> QED
    BY <1>3, <1>5, <1>6, <1>7, <1>9, <1>10, <1>11, <1>12 DEF KaNext

-----------------------------------------------------------------------------
(* A step of close: the calls are over, and the task is cancelled.         *)
LEMMA CloseLemma ==
    ASSUME IInv, UNCHANGED <<job, accepted>>, NEW x \in Held, NEW D \in SUBSET Client, NEW G \in SUBSET Client,
           \A s \in Sender : job[s].pc \in {"new", "sent", "failed"},
           ka' \in Task, ka'.client = NoClient, ka'.pc = "cancelled",
           NEW pc \in {"draining", "quit", "closed"},
           closer' = [pc |-> pc, client |-> x, done |-> D, failed |-> G],
           x # NoClient <=> pc = "quit", pc = "closed" => queue' = <<>>,
           up' \in SUBSET Client, up' \cap D \subseteq G,
           queue' \in Seq(Client), Len(queue') <= PoolSize, Once(queue'),
           Placed(Elems(queue'), Using, NoClient, x, D)
    PROVE  IInv'
  <1>1. /\ closer'.pc = pc /\ closer'.client = x /\ closer'.done = D /\ closer'.failed = G
        /\ closer' \in [pc : {"open", "draining", "quit", "closed"}, client : Held,
                        done : SUBSET Client, failed : SUBSET Client]
    OBVIOUS
  <1>2. TypeOK'
    BY <1>1 DEF IInv, TypeOK, Task, PoolSize
  <1>3. Closing'
    BY <1>1 DEF Closing
  <1>4. Calls' /\ Using' = Using /\ PoolSize' = PoolSize
    BY DEF IInv, Calls, Using, PoolSize
  <1> QED
    BY <1>1, <1>2, <1>3, <1>4 DEF IInv

LEMMA CloseType ==
    ASSUME IInv
    PROVE  /\ closer \in [pc : {"open", "draining", "quit", "closed"}, client : Held,
                          done : SUBSET Client, failed : SUBSET Client]
           /\ closer.client # NoClient <=> closer.pc = "quit"
           /\ closer.pc # "open" =>
                 /\ ka.pc = "cancelled" /\ ka.client = NoClient
                 /\ \A s \in Sender : job[s].pc \in {"new", "sent", "failed"}
    BY DEF IInv, TypeOK, Closing

LEMMA CloseStep ==
    ASSUME IInv, CloseNext
    PROVE  IInv'
  <1> DEFINE D == closer.done
             G == closer.failed
  <1>0. UNCHANGED <<job, accepted>>
    BY DEF CloseNext, CloseStart, CloseGet, CloseQuit, CloseEnd
  <1>1. D \in SUBSET Client /\ G \in SUBSET Client /\ NoClient \in Held
    BY CloseType DEF Held
  <1>2. CASE CloseStart
    <2> DEFINE k == [ka EXCEPT !.pc = "cancelled", !.client = NoClient, !.left = 0,
                               !.attempt = 0]
    <2>1. /\ closer.pc = "open" /\ ka' = k /\ up' = up
          /\ \A s \in Sender : job[s].pc \in {"new", "sent", "failed"}
          /\ closer' = [closer EXCEPT !.pc = "draining"]
      BY <1>2 DEF CloseStart
    <2>2. k \in Task /\ k.client = NoClient /\ k.pc = "cancelled"
      <3>1. 0 \in 0 .. PoolSize /\ 0 \in 0 .. MaxRetries
        BY TaskType
      <3> QED
        BY <1>1, <3>1, TaskType DEF Task
    <2>3. closer.client = NoClient
      BY <2>1, CloseType
    <2>4. closer' = [pc |-> "draining", client |-> NoClient, done |-> D, failed |-> G]
      BY <2>1, <2>3, CloseType
    <2>5. /\ queue' \in Seq(Client) /\ Len(queue') <= PoolSize /\ Once(queue')
          /\ Placed(Elems(queue'), Using, NoClient, NoClient, D)
      <3>1. CASE ka.client = NoClient
        <4>1. queue' = queue
          BY <1>2, <3>1 DEF CloseStart
        <4> QED
          BY <2>3, <3>1, <4>1, TaskType
      <3>2. CASE ka.client # NoClient
        <4> DEFINE c == ka.client
        <4>1. c \in Client /\ CanPut /\ queue' = Append(queue, c)
          BY <1>2, <3>2, TaskType DEF CloseStart, Task, Held
        <4>2. /\ c \notin Elems(queue)
              /\ Placed(Elems(queue) \cup {c}, Using, NoClient, NoClient, D)
          BY <2>3, <4>1, TaskType, TaskPuts
        <4>3. /\ queue' \in Seq(Client) /\ Len(queue') = Len(queue) + 1
              /\ Len(queue) \in Nat /\ Once(queue')
              /\ Elems(queue') = Elems(queue) \cup {c}
          BY <4>1, <4>2, TaskType, PutLast
        <4>4. Len(queue') <= PoolSize
          BY <4>1, <4>3, PoolSizeType DEF CanPut
        <4> QED
          BY <4>2, <4>3, <4>4
      <3> QED
        BY <3>1, <3>2
    <2>6. up' \in SUBSET Client /\ up' \cap D \subseteq G
      BY <2>1, TaskType
    <2> HIDE DEF k, D, G
    <2> QED
      BY <1>0, <1>1, <2>1, <2>2, <2>4, <2>5, <2>6, CloseLemma
  <1>3. ASSUME closer.pc # "open", UNCHANGED ka
        PROVE  /\ ka' \in Task /\ ka'.client = NoClient /\ ka'.pc = "cancelled"
               /\ \A s \in Sender : job[s].pc \in {"new", "sent", "failed"}
               /\ Placed(Elems(queue), Using, NoClient, closer.client, D)
    BY <1>3, TaskType, CloseType
  <1>4. CASE CloseGet
    <2> DEFINE h == Head(queue)
    <2>1. /\ closer.pc = "draining" /\ queue # <<>> /\ queue' = Tail(queue)
          /\ UNCHANGED <<up, ka>>
          /\ closer' = [closer EXCEPT !.pc = "quit", !.client = h]
      BY <1>4 DEF CloseGet
    <2>2. /\ h \in Client /\ h \in Elems(queue) /\ queue' \in Seq(Client)
          /\ Len(queue') = Len(queue) - 1 /\ Len(queue) \in Nat
          /\ Once(queue') /\ Elems(queue') = Elems(queue) \ {h}
      BY <2>1, TaskType, TakeHead
    <2>3. Len(queue') <= PoolSize
      BY <2>2, TaskType, PoolSizeType
    <2>4. closer.client = NoClient /\ h # NoClient /\ h \in Held
      BY <2>1, <2>2, CloseType, PoolAssumption DEF Held
    <2>5. closer' = [pc |-> "quit", client |-> h, done |-> D, failed |-> G]
      BY <2>1, CloseType
    <2>6. up' \in SUBSET Client /\ up' \cap D \subseteq G
      BY <2>1, TaskType
    <2> HIDE DEF h, D, G
    <2>7. Placed(Elems(queue'), Using, NoClient, h, D)
      BY <1>3, <2>1, <2>2, <2>4, CloseTakes
    <2> QED
      BY <1>0, <1>1, <1>3, <2>1, <2>2, <2>3, <2>4, <2>5, <2>6, <2>7, CloseLemma
  <1>5. CASE CloseQuit
    <2> DEFINE c == closer.client
               F == D \cup {c}
    <2>1. closer.pc = "quit" /\ UNCHANGED <<queue, ka>> /\ c \in Client
      BY <1>5, CloseType DEF CloseQuit, Held
    <2>2. PICK H \in SUBSET Client :
             /\ closer' = [pc |-> "draining", client |-> NoClient, done |-> F, failed |-> H]
             /\ up' \in SUBSET up /\ G \subseteq H
             /\ c \in up' => c \in H
      BY <1>1, <1>5, <2>1 DEF CloseQuit, CloseNote
    <2>3. F \in SUBSET Client /\ up' \in SUBSET Client /\ up' \cap F \subseteq H
      BY <1>1, <2>1, <2>2, TaskType
    <2>4. Placed(Elems(queue'), Using, NoClient, NoClient, F)
      BY <1>3, <2>1, CloseEnds
    <2>5. queue' \in Seq(Client) /\ Len(queue') <= PoolSize /\ Once(queue')
      BY <2>1, TaskType
    <2> HIDE DEF F, D, G, c
    <2> QED
      BY <1>0, <1>1, <1>3, <2>1, <2>2, <2>3, <2>4, <2>5, CloseLemma
  <1>6. CASE CloseEnd
    <2>1. /\ closer.pc = "draining" /\ queue = <<>> /\ UNCHANGED <<queue, up, ka>>
          /\ closer' = [closer EXCEPT !.pc = "closed"]
      BY <1>6 DEF CloseEnd
    <2>2. closer.client = NoClient
      BY <2>1, CloseType
    <2>3. closer' = [pc |-> "closed", client |-> NoClient, done |-> D, failed |-> G]
      BY <2>1, <2>2, CloseType
    <2>4. up' \in SUBSET Client /\ up' \cap D \subseteq G
      BY <2>1, TaskType
    <2>5. queue' \in Seq(Client) /\ Len(queue') <= PoolSize /\ Once(queue')
      BY <2>1, TaskType
    <2> HIDE DEF D, G
    <2> QED
      BY <1>0, <1>1, <1>3, <2>1, <2>2, <2>3, <2>4, <2>5, CloseLemma
  <1> QED
    BY <1>2, <1>4, <1>5, <1>6 DEF CloseNext

LEMMA Inductive ==
    ASSUME IInv, [Next]_vars
    PROVE  IInv'
  <1>1. ASSUME UNCHANGED <<queue, job, ka, closer, accepted>>, up' \in SUBSET up
        PROVE  IInv'
    BY <1>1 DEF IInv, TypeOK, Using, Calls, Closing, PoolSize
  <1>2. ASSUME NEW c \in Client, Disconnect(c) PROVE IInv'
    BY <1>1, <1>2 DEF Disconnect
  <1>3. CASE UNCHANGED vars
    BY <1>1, <1>3 DEF vars
  <1> QED
    BY <1>2, <1>3, SendStep, KeepAliveStep, CloseStep DEF Next

(* A queue of all clients that is as long as they are many has each once.  *)
LEMMA Initial ==
    ASSUME Init
    PROVE  IInv
  <1> DEFINE I == 1 .. PoolSize
  <1>0. PoolSize \in Nat /\ IsFiniteSet(Client) /\ MaxRetries \in Nat \ {0}
    BY PoolSizeType, PoolAssumption
  <1>1. queue \in [I -> Client] /\ \A c \in Client : \E i \in I : queue[i] = c
    BY DEF Init
  <1>2. IsFiniteSet(I) /\ Cardinality(I) = PoolSize
    BY <1>0, FS_Interval
  <1>3. queue \in Surjection(I, Client)
    BY <1>1 DEF Surjection
  <1>4. queue \in Injection(I, Client)
    BY <1>2, <1>3, FS_SurjSameCardinalityImpliesInj DEF PoolSize
  <1>5. Once(queue)
    BY <1>4 DEF Injection, IsInjective, Once
  <1>6. queue \in Seq(Client) /\ Len(queue) = PoolSize
    BY <1>0, <1>1
  <1>7. Elems(queue) = Client
    BY <1>1 DEF Elems
  <1>8. Using = [s \in Sender |-> NoClient]
    BY DEF Init, Using
  <1>9. Placed(Elems(queue), Using, ka.client, closer.client, closer.done)
    BY <1>7, <1>8 DEF Init, Placed
  <1>10. TypeOK
    BY <1>0, <1>6 DEF Init, TypeOK, Held
  <1>11. Calls /\ Closing
    BY <1>0 DEF Init, Calls, Closing, CallOK
  <1> QED
    BY <1>0, <1>5, <1>6, <1>9, <1>10, <1>11 DEF IInv

LEMMA Invariant == Spec => []IInv
  <1>1. Init => IInv
    BY Initial
  <1>2. IInv /\ [Next]_vars => IInv'
    BY Inductive
  <1> QED
    BY <1>1, <1>2, PTL DEF Spec

-----------------------------------------------------------------------------
(* Every variable has its type, and the queue is one of clients, whatever  *)
(* calls, the keep-alive task and close do to each other.                  *)
THEOREM TypeCorrect == Spec => []TypeOK
  <1>1. IInv => TypeOK
    BY DEF IInv
  <1> QED
    BY <1>1, Invariant, PTL

(* Whatever fails, a client of the pool is in exactly one place.           *)
THEOREM Conserved == Spec => []PoolConserved
  <1>1. ASSUME IInv PROVE PoolConserved
    <2>1. InQueue = Elems(queue) /\ Once(queue)
      BY <1>1 DEF IInv, InQueue, Elems
    <2>2. /\ Placed(InQueue, Using, ka.client, closer.client, closer.done)
          /\ \A s \in Sender : Using[s] = job[s].client
      BY <1>1, <2>1 DEF IInv, Using
    <2>3. ASSUME NEW c \in Client PROVE \E x \in Sender \cup Tasks : Places(c) = {x}
      <3>0. c # NoClient
        BY PoolAssumption
      <3>1. CASE c \in InQueue
        <4>1. Places(c) = {"queue"}
          BY <2>2, <3>0, <3>1 DEF Places, Placed
        <4> QED
          BY <4>1 DEF Tasks
      <3>2. ASSUME NEW s \in Sender, job[s].client = c
            PROVE  \E x \in Sender \cup Tasks : Places(c) = {x}
        <4>1. /\ c \notin InQueue /\ ka.client # c /\ closer.client # c
              /\ c \notin closer.done
              /\ \A t \in Sender : job[t].client = c => t = s
          BY <2>2, <3>0, <3>2 DEF Placed
        <4>2. Places(c) = {s}
          BY <3>2, <4>1 DEF Places
        <4> QED
          BY <4>2
      <3>3. CASE ka.client = c
        <4>1. Places(c) = {"keep-alive"}
          BY <2>2, <3>0, <3>3 DEF Places, Placed
        <4> QED
          BY <4>1 DEF Tasks
      <3>4. CASE closer.client = c
        <4>1. Places(c) = {"close"}
          BY <2>2, <3>0, <3>4 DEF Places, Placed
        <4> QED
          BY <4>1 DEF Tasks
      <3>5. CASE c \in closer.done
        <4>1. Places(c) = {"closed"}
          BY <2>2, <3>0, <3>5 DEF Places, Placed
        <4> QED
          BY <4>1 DEF Tasks
      <3> QED
        BY <2>2, <3>1, <3>2, <3>3, <3>4, <3>5 DEF Placed
    <2> QED
      BY <2>1, <2>3 DEF PoolConserved, Once
  <1> QED
    BY <1>1, Invariant, PTL

(* A call that returned has had its message taken, at least once and at    *)
(* most as often as it tried.                                              *)
THEOREM SentAccepted == Spec => []SentWasAccepted
  <1>1. ASSUME IInv PROVE SentWasAccepted
    <2> SUFFICES ASSUME NEW s \in Sender, job[s].pc = "sent"
                 PROVE  accepted[s] \in 1 .. MaxRetries
      BY DEF SentWasAccepted
    <2>1. accepted[s] \in 0 .. MaxRetries /\ 1 <= accepted[s] /\ MaxRetries \in Nat
      BY <1>1, PoolAssumption DEF IInv, TypeOK, Calls, CallOK
    <2> QED
      BY <2>1
  <1> QED
    BY <1>1, Invariant, PTL

(* When close has ended, every client was asked to quit, and one that is   *)
(* connected still is one whose quit raised.                               *)
THEOREM ClosedQuit == Spec => []ClosedMeansQuit
  <1>1. ASSUME IInv PROVE ClosedMeansQuit
    <2> SUFFICES ASSUME closer.pc = "closed" 
                 PROVE  closer.done = Client /\ up \subseteq closer.failed
      BY DEF ClosedMeansQuit
    <2>1. /\ Elems(queue) = {} /\ ka.client = NoClient /\ closer.client = NoClient
          /\ \A s \in Sender : Using[s] = NoClient
      BY <1>1, EmptySeq DEF IInv, Closing, Elems, Calls, CallOK, Using
    <2>2. \A c \in Client : c \in closer.done
      BY <1>1, <2>1, PoolAssumption DEF IInv, Placed
    <2> QED
      BY <1>1, <2>2 DEF IInv, TypeOK, Closing
  <1> QED
    BY <1>1, Invariant, PTL
=============================================================================
