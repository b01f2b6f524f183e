------------------------------ MODULE SmtpPool ------------------------------
(***************************************************************************)
(* SmtpProvider: a queue of connected SMTP clients that the requests which *)
(* send mail share with the keep-alive task, from init to close.           *)
(*                                                                         *)
(* A step runs from one await to the next one.  The mail server may refuse *)
(* or drop a connection at any time, and may accept a message whose answer *)
(* the client never reads.  A quit that raises is logged and the code goes *)
(* on, with a connection that may be open still: that connect returns or   *)
(* raises on such a client too is assumed of the library.                 *)
(*                                                                         *)
(* asyncio.Queue wakes a waiting get but keeps no item for it: whoever     *)
(* runs first takes the head of the queue.                                 *)
(***************************************************************************)
EXTENDS Naturals, Sequences, FiniteSets

CONSTANTS Client,       \* the SMTP clients of the pool: pool_size is their number
          Sender,       \* calls of send_email, each with its own message
          MaxRetries,   \* smtp_settings.max_retries
          NoClient      \* no client in a local variable

ASSUME PoolAssumption ==
    /\ IsFiniteSet(Client) /\ Client # {}
    /\ MaxRetries \in Nat \ {0}
    /\ NoClient \notin Client

VARIABLES queue,      \* _QUEUE
          up,         \* the clients whose connection is open
          job,        \* the calls of send_email
          ka,         \* the keep-alive task
          closer,     \* SmtpProvider.close
          accepted    \* history: copies of each message that the mail server took

vars == <<queue, up, job, ka, closer, accepted>>

PoolSize == Cardinality(Client)

Held == Client \cup {NoClient}

TypeOK ==
    /\ queue \in Seq(Client)
    /\ up \in SUBSET Client
    /\ job \in [Sender -> [pc : {"new", "get", "send", "quit", "connect", "sleep",
                                 "sent", "failed"},
                           attempt : 0 .. MaxRetries - 1,
                           client : Held]]
    /\ ka \in [pc : {"awake", "noop", "quit", "connect", "asleep", "cancelled"},
               left : 0 .. PoolSize, attempt : 0 .. MaxRetries, client : Held]
    /\ closer \in [pc : {"open", "draining", "quit", "closed"}, client : Held,
                   done : SUBSET Client,     \* history: those asked to quit,
                   failed : SUBSET Client]   \* and those whose quit has raised
    /\ accepted \in [Sender -> 0 .. MaxRetries]

(* init: every client is connected and queued, the keep-alive task starts. *)
Init ==
    /\ queue \in {q \in [1 .. PoolSize -> Client] : \A c \in Client : \E i \in 1 .. PoolSize : q[i] = c}
    /\ up = Client
    /\ job = [s \in Sender |-> [pc |-> "new", attempt |-> 0, client |-> NoClient]]
    /\ ka = [pc |-> "awake", left |-> 0, attempt |-> 0, client |-> NoClient]
    /\ closer = [pc |-> "open", client |-> NoClient, done |-> {}, failed |-> {}]
    /\ accepted = [s \in Sender |-> 0]

(* A put waits while the queue is full.                                    *)
CanPut == Len(queue) < PoolSize

-----------------------------------------------------------------------------
(* send_email                                                              *)

(* Definitions whose names end in _Bug are mutations of the definition that *)
(* follows, for the checks of the properties.                              *)

SendStart(s) ==
    /\ job[s].pc = "new"
    /\ closer.pc = "open"
    /\ job' = [job EXCEPT ![s].pc = "get"]
    /\ UNCHANGED <<queue, up, ka, closer, accepted>>

SendGet(s) ==
    /\ job[s].pc = "get"
    /\ queue # <<>>
    /\ job' = [job EXCEPT ![s].pc = "send", ![s].client = Head(queue)]
    /\ queue' = Tail(queue)
    /\ UNCHANGED <<up, ka, closer, accepted>>

(* The server takes the message and the client reads its answer.           *)
SendOk(s) ==
    /\ job[s].pc = "send"
    /\ job[s].client \in up
    /\ CanPut
    /\ queue' = Append(queue, job[s].client)
    /\ job' = [job EXCEPT ![s].pc = "sent", ![s].client = NoClient]
    /\ accepted' = [accepted EXCEPT ![s] = @ + 1]
    /\ UNCHANGED <<up, ka, closer>>

(* send_message raises.  An open connection may have carried the message   *)
(* to the server before it failed.                                         *)
SendRaises(s) ==
    /\ job[s].pc = "send"
    /\ job' = [job EXCEPT ![s].pc = "quit"]
    /\ \/ UNCHANGED accepted
       \/ job[s].client \in up /\ accepted' = [accepted EXCEPT ![s] = @ + 1]
    /\ UNCHANGED <<queue, up, ka, closer>>

(* A quit that raises may leave the client connected.                      *)
SendQuit(s) ==
    /\ job[s].pc = "quit"
    /\ up' \in {up, up \ {job[s].client}}
    /\ job' = [job EXCEPT ![s].pc = "connect"]
    /\ UNCHANGED <<queue, ka, closer, accepted>>

(* The attempts are counted from one.                                      *)
SendReconnect_Bug(s) ==
    /\ job[s].pc = "connect"
    /\ CanPut
    /\ up' \in {up, up \cup {job[s].client}}
    /\ queue' = Append(queue, job[s].client)
    /\ job' = [job EXCEPT ![s].client = NoClient,
                          ![s].pc = IF job[s].attempt = MaxRetries THEN "failed" ELSE "sleep"]
    /\ UNCHANGED <<ka, closer, accepted>>

(* The client goes back when the reconnection succeeds only.               *)
SendReconnect_BugLost(s) ==
    /\ job[s].pc = "connect"
    /\ CanPut
    /\ \/ up' = up /\ UNCHANGED queue
       \/ up' = up \cup {job[s].client} /\ queue' = Append(queue, job[s].client)
    /\ job' = [job EXCEPT ![s].client = NoClient,
                          ![s].pc = IF job[s].attempt = MaxRetries - 1
                                    THEN "failed" ELSE "sleep"]
    /\ UNCHANGED <<ka, closer, accepted>>

(* The loop ends without raising.                                          *)
SendReconnect_BugSilent(s) ==
    /\ job[s].pc = "connect"
    /\ CanPut
    /\ up' \in {up, up \cup {job[s].client}}
    /\ queue' = Append(queue, job[s].client)
    /\ job' = [job EXCEPT ![s].client = NoClient,
                          ![s].pc = IF job[s].attempt = MaxRetries - 1
                                    THEN "sent" ELSE "sleep"]
    /\ UNCHANGED <<ka, closer, accepted>>

(* The single reconnection succeeds or not, the client goes back, and the  *)
(* last attempt raises EmailSendingException.                              *)
SendReconnect(s) ==
    /\ job[s].pc = "connect"
    /\ CanPut
    /\ up' \in {up, up \cup {job[s].client}}
    /\ queue' = Append(queue, job[s].client)
    /\ job' = [job EXCEPT ![s].client = NoClient,
                          ![s].pc = IF job[s].attempt = MaxRetries - 1
                                    THEN "failed" ELSE "sleep"]
    /\ UNCHANGED <<ka, closer, accepted>>

SendRetry(s) ==
    /\ job[s].pc = "sleep"
    /\ job' = [job EXCEPT ![s].pc = "get", ![s].attempt = @ + 1]
    /\ UNCHANGED <<queue, up, ka, closer, accepted>>

-----------------------------------------------------------------------------
(* _keep_alive_manager                                                     *)

(* From the queue q, with n clients of the round left: take the next one,  *)
(* or go to sleep.                                                         *)
KaTakeNext(q, n) ==
    IF n = 0 \/ q = <<>>
    THEN /\ queue' = q
         /\ ka' = [pc |-> "asleep", left |-> 0, attempt |-> 0, client |-> NoClient]
    ELSE /\ queue' = Tail(q)
         /\ ka' = [pc |-> "noop", left |-> n - 1, attempt |-> 0, client |-> Head(q)]

(* A round visits as many clients as are idle when it begins.              *)
KaRound ==
    /\ ka.pc = "awake"
    /\ KaTakeNext(queue, Len(queue))
    /\ UNCHANGED <<up, job, closer, accepted>>

(* The finally clause; the for loop goes on without an await.              *)
KaPutBack ==
    /\ CanPut
    /\ KaTakeNext(Append(queue, ka.client), ka.left)
    /\ UNCHANGED <<job, closer, accepted>>

KaNoopOk ==
    /\ ka.pc = "noop"
    /\ ka.client \in up
    /\ KaPutBack
    /\ UNCHANGED up

KaNoopFails ==
    /\ ka.pc = "noop"
    /\ ka' = [ka EXCEPT !.pc = "quit"]
    /\ UNCHANGED <<queue, up, job, closer, accepted>>

KaQuit ==
    /\ ka.pc = "quit"
    /\ up' \in {up, up \ {ka.client}}
    /\ ka' = [ka EXCEPT !.pc = "connect"]
    /\ UNCHANGED <<queue, job, closer, accepted>>

KaConnectOk ==
    /\ ka.pc = "connect"
    /\ ka.attempt < MaxRetries
    /\ up' = up \cup {ka.client}
    /\ KaPutBack

KaConnectFails ==
    /\ ka.pc = "connect"
    /\ ka.attempt < MaxRetries
    /\ ka' = [ka EXCEPT !.attempt = @ + 1]
    /\ UNCHANGED <<queue, up, job, closer, accepted>>

(* A client that cannot be reconnected is dropped from the pool.           *)
KaGiveUp_Bug ==
    /\ ka.pc = "connect"
    /\ ka.attempt = MaxRetries
    /\ KaTakeNext(queue, ka.left)
    /\ UNCHANGED <<up, job, closer, accepted>>

(* The client goes back without a connection.                              *)
KaGiveUp ==
    /\ ka.pc = "connect"
    /\ ka.attempt = MaxRetries
    /\ KaPutBack
    /\ UNCHANGED up

KaWake ==
    /\ ka.pc = "asleep"
    /\ ka' = [ka EXCEPT !.pc = "awake"]
    /\ UNCHANGED <<queue, up, job, closer, accepted>>

-----------------------------------------------------------------------------
(* The cancelled task does not put its client back.                        *)
CloseStart_Bug ==
    /\ closer.pc = "open"
    /\ \A s \in Sender : job[s].pc \in {"new", "sent", "failed"}
    /\ ka' = [ka EXCEPT !.pc = "cancelled", !.client = NoClient, !.left = 0, !.attempt = 0]
    /\ closer' = [closer EXCEPT !.pc = "draining"]
    /\ UNCHANGED <<queue, up, job, accepted>>

(* close: the server has finished its requests and stops.  The cancelled   *)
(* keep-alive task puts its client back in its finally clause.             *)
CloseStart ==
    /\ closer.pc = "open"
    /\ \A s \in Sender : job[s].pc \in {"new", "sent", "failed"}
    /\ IF ka.client = NoClient THEN UNCHANGED queue
       ELSE CanPut /\ queue' = Append(queue, ka.client)
    /\ ka' = [ka EXCEPT !.pc = "cancelled", !.client = NoClient, !.left = 0, !.attempt = 0]
    /\ closer' = [closer EXCEPT !.pc = "draining"]
    /\ UNCHANGED <<up, job, accepted>>

CloseGet ==
    /\ closer.pc = "draining"
    /\ queue # <<>>
    /\ closer' = [closer EXCEPT !.pc = "quit", !.client = Head(queue)]
    /\ queue' = Tail(queue)
    /\ UNCHANGED <<up, job, ka, accepted>>

(* The loop goes on, with the failure noted.                               *)
CloseNote(failing) ==
    closer' = [pc |-> "draining", client |-> NoClient,
               done |-> closer.done \cup {closer.client},
               failed |-> closer.failed \cup failing]

(* quit takes the client down, or raises: nobody asks it again.            *)
CloseQuit ==
    /\ closer.pc = "quit"
    /\ \/ up' = up \ {closer.client} /\ CloseNote({})
       \/ UNCHANGED up /\ CloseNote({closer.client})
    /\ UNCHANGED <<queue, job, ka, accepted>>

CloseEnd ==
    /\ closer.pc = "draining"
    /\ queue = <<>>
    /\ closer' = [closer EXCEPT !.pc = "closed"]
    /\ UNCHANGED <<queue, up, job, ka, accepted>>

(* The server or the network drops a connection.                           *)
Disconnect(c) ==
    /\ c \in up
    /\ up' = up \ {c}
    /\ UNCHANGED <<queue, job, ka, closer, accepted>>

SendNext(s) ==
    \/ SendStart(s)
    \/ SendGet(s)
    \/ SendOk(s)
    \/ SendRaises(s)
    \/ SendQuit(s)
    \/ SendReconnect(s)
    \/ SendRetry(s)

KaNext ==
    \/ KaRound
    \/ KaNoopOk
    \/ KaNoopFails
    \/ KaQuit
    \/ KaConnectOk
    \/ KaConnectFails
    \/ KaGiveUp
    \/ KaWake

CloseNext == CloseStart \/ CloseGet \/ CloseQuit \/ CloseEnd

Next ==
    \/ \E s \in Sender : SendNext(s)
    \/ KaNext
    \/ CloseNext
    \/ \E c \in Client : Disconnect(c)

Spec == Init /\ [][Next]_vars

(* Every SMTP command has a timeout, so a call that has begun goes on.  A  *)
(* call that waits for a client is woken by each put, and the keep-alive   *)
(* task sleeps for two minutes between its rounds: a call that could take  *)
(* a client again and again does take one.                                 *)
Fairness ==
    /\ \A s \in Sender :
          /\ WF_vars(SendOk(s) \/ SendRaises(s) \/ SendQuit(s) \/ SendReconnect(s) \/ SendRetry(s))
          /\ SF_vars(SendGet(s))
    /\ WF_vars(KaNext)

FairSpec == Spec /\ Fairness

-----------------------------------------------------------------------------
InQueue == {queue[i] : i \in DOMAIN queue}

Tasks == {"queue", "keep-alive", "close", "closed"}

(* Where a client is: queued, with the tasks that hold it, or closed.      *)
Places(c) ==
    {s \in Sender : job[s].client = c}
        \cup {x \in {"queue"} : c \in InQueue}
        \cup {x \in {"keep-alive"} : ka.client = c}
        \cup {x \in {"close"} : closer.client = c}
        \cup {x \in {"closed"} : c \in closer.done}

(* Two tasks never speak on one connection, a client that a task uses is   *)
(* not in the queue, none is queued twice, and none is ever lost: whatever *)
(* fails, it is in exactly one place.                                      *)
PoolConserved ==
    /\ \A i, j \in DOMAIN queue : queue[i] = queue[j] => i = j
    /\ \A c \in Client : \E x \in Sender \cup Tasks : Places(c) = {x}

(* The answer of send_email is about its message: success means the server *)
(* took it, and a message is submitted at most MaxRetries times whatever   *)
(* the failures.                                                           *)
SentWasAccepted ==
    \A s \in Sender : job[s].pc = "sent" => accepted[s] \in 1 .. MaxRetries

(* close asks every client to quit, one that the keep-alive task held      *)
(* included, and a connection that is open afterwards is one whose quit    *)
(* raised: no task connects a client that close is done with.              *)
ClosedMeansQuit ==
    closer.pc = "closed" => closer.done = Client /\ up \subseteq closer.failed

(* No mail waits forever: every call of send_email returns or raises, also *)
(* when there are fewer clients than calls and connections keep failing.   *)
EverySendEnds ==
    \A s \in Sender : job[s].pc = "get" ~> job[s].pc \in {"sent", "failed"}
=============================================================================
