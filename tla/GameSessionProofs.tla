------------------------- MODULE GameSessionProofs -------------------------
(***************************************************************************)
(* Proofs about GameSession, for any number of sessions, pairs and         *)
(* requests in flight.                                                     *)
(***************************************************************************)
EXTENDS GameSession, TLAPS

ByToken == {"validate", "refresh", "join", "invalidateRefresh", "invalidateAccess"}

Writing == {"refresh", "join", "invalidateRefresh", "invalidateAccess", "signout"}

(* The sessions that a request is to end: Aim of its record.               *)
Goals(r) ==
    CASE r.op = "signout" -> r.floor
      [] r.op = "invalidateRefresh" -> {r.sess}
      [] OTHER -> {}

(* Which local variables are set where.                                    *)
Local(r) ==
    /\ r.op \in ByToken => r.key \in Key
    /\ r.pc \in {"get", "select", "set"} => r.op \in ByToken \ {"invalidateAccess"}
    /\ r.pc \in {"read", "update", "lock", "drop", "answer", "commit"}
          /\ r.op \in {"refresh", "join", "invalidateRefresh"} => r.sess \in Session
    /\ r.pc \in {"read", "update", "lock"} => r.op \in Writing
    /\ r.pc \in {"update", "lock"} /\ r.op = "refresh" => r.new \in Pair
    /\ r.pc \in {"idle", "get", "select", "set", "read", "update", "lock"} => r.mine = Nothing
    /\ r.new # None => r.op \in {"authenticate", "refresh"}
    /\ r.new # None => \A s, t \in Session : r.mine[s] # None /\ r.mine[t] # None => s = t

(* A revoked row stays as it is; a written row has the new pair or its own *)
Writes(r, w) ==
    \A s \in Session : r.mine[s] # None =>
        /\ \/ r.mine[s].pair = r.new
           \/ w[s] # None /\ r.mine[s].pair = w[s].pair
        /\ w[s] # None /\ w[s].revoked => r.mine[s] = w[s]

(* The sessions that it is to end are matched, written or revoked.         *)
Ends(r, w) ==
    /\ \A s \in r.floor : w[s] # None
    /\ \A s \in Goals(r) :
          /\ r.pc = "lock" => s \in r.hit \/ w[s].revoked
          /\ r.pc \in {"drop", "answer", "commit"}
             => w[s].revoked \/ (r.mine[s] # None /\ r.mine[s].revoked)

(* What a request knows of the rows w and the answers h they have given.   *)
Knows(r, w, h) ==
    /\ r.key \in Key /\ r.sess # None => r.sess \in h[r.key]
    /\ r.new # None => \A s \in Session : w[s] # None => w[s].pair # r.new
    /\ Writes(r, w)
    /\ Ends(r, w)

(* A pair is of one row, and made before it.                               *)
Unique ==
    /\ \A s \in Session : rows[s] # None => rows[s].pair \in minted
    /\ \A s, t \in Session :
          rows[s] # None /\ rows[t] # None /\ rows[s].pair = rows[t].pair => s = t

(* Cached answers were given by the rows, for rows that exist.             *)
Sourced ==
    \A k \in Key :
        /\ cache[k] # Miss => cache[k] \in past[k]
        /\ None \in past[k]
        /\ Found(rows, k) \in past[k]
        /\ \A s \in Session : s \in past[k] => rows[s] # None

(* No two requests have written one row, or made one pair.                 *)
Apart ==
    /\ \A p \in Proc : req[p].new # None => req[p].new \in minted
    /\ \A p, q \in Proc : p # q =>
          /\ \A s \in Session : req[p].mine[s] = None \/ req[q].mine[s] = None
          /\ req[p].new # None => req[p].new # req[q].new

IInv ==
    /\ TypeOK
    /\ \A p \in Proc : Local(req[p]) /\ Knows(req[p], rows, past)
    /\ Unique
    /\ Sourced
    /\ Apart
    /\ EndedAreRevoked

LEMMA IdleSound ==
    /\ Idle \in Request
    /\ Idle.new = None
    /\ \A s \in Session : Idle.mine[s] = None
    /\ Local(Idle)
    /\ \A w, h : Knows(Idle, w, h)
  <1>1. Nothing \in [Session -> Row \cup {None}] /\ \A s \in Session : Nothing[s] = None
    BY DEF Nothing
  <1>2. Idle \in Request
    BY <1>1 DEF Idle, Request
  <1>3. Local(Idle)
    BY <1>1 DEF Idle, Local, ByToken, Writing
  <1>4. \A w, h : Knows(Idle, w, h)
    BY <1>1 DEF Idle, Knows, Writes, Ends, Goals
  <1> QED
    BY <1>1, <1>2, <1>3, <1>4 DEF Idle

LEMMA FoundType ==
    ASSUME NEW t, NEW k \in Key
    PROVE  /\ Found(t, k) \in Session \cup {None}
           /\ Found(t, k) # None => Found(t, k) \in Session /\ t[Found(t, k)] # None
  <1>1. CASE \E s \in Session : Live(t[s]) /\ t[s].pair = k[2]
    <2> DEFINE c == CHOOSE s \in Session : Live(t[s]) /\ t[s].pair = k[2]
    <2>1. c \in Session /\ Live(t[c])
      BY <1>1
    <2>2. Found(t, k) = c
      BY <1>1 DEF Found
    <2> QED
      BY <2>1, <2>2 DEF Live
  <1>2. CASE ~\E s \in Session : Live(t[s]) /\ t[s].pair = k[2]
    BY <1>2 DEF Found
  <1> QED
    BY <1>1, <1>2

(* A step of request p that commits nothing.                               *)
LEMMA StepLemma ==
    ASSUME IInv, NEW p \in Proc, NEW r \in Request, Become(p, r),
           UNCHANGED <<rows, past, ended>>,
           minted \subseteq minted', minted' \in SUBSET Pair, given' \in SUBSET minted',
           cache' \in [Key -> Session \cup {None, Miss}],
           \A k \in Key : cache'[k] # Miss => cache'[k] \in past[k],
           Local(r), Knows(r, rows, past),
           r.new # None => r.new \in minted',
           r.new = None \/ r.new = req[p].new \/ r.new \notin minted,
           \A s \in Session : r.mine[s] # None => req[p].mine[s] # None \/ ~Locked(s, p)
    PROVE  IInv'
  <1>1. req' = [req EXCEPT ![p] = r] /\ req \in [Proc -> Request]
    BY DEF Become, IInv, TypeOK
  <1>2. req' \in [Proc -> Request] /\ req'[p] = r /\ \A q \in Proc \ {p} : req'[q] = req[q]
    BY <1>1
  <1>3. TypeOK'
    BY <1>2 DEF IInv, TypeOK
  <1>4. \A q \in Proc : Local(req'[q]) /\ Knows(req'[q], rows', past')
    BY <1>2 DEF IInv
  <1>5. Unique' /\ EndedAreRevoked'
    BY DEF IInv, Unique, EndedAreRevoked
  <1>6. Sourced'
    BY DEF IInv, Sourced, Found
  <1>7. ASSUME NEW q \in Proc \ {p}
        PROVE  /\ \A s \in Session : r.mine[s] = None \/ req[q].mine[s] = None
               /\ r.new # None => r.new # req[q].new
               /\ req[q].new # None => req[q].new # r.new
    BY DEF IInv, Apart, Locked
  <1>8. Apart'
    BY <1>2, <1>7 DEF IInv, Apart
  <1> QED
    BY <1>3, <1>4, <1>5, <1>6, <1>8 DEF IInv

(* What is known of a request.                                             *)
LEMMA Record ==
    ASSUME IInv, NEW p \in Proc
    PROVE  /\ req[p] \in Request
           /\ Local(req[p])
           /\ Knows(req[p], rows, past)
           /\ req[p].new # None => req[p].new \in minted
           /\ rows \in [Session -> Row \cup {None}]
           /\ \A k \in Key : cache[k] # Miss => cache[k] \in past[k]
    BY DEF IInv, TypeOK, Apart, Sourced

(* A step that leaves the tables, the cache and the pairs alone.           *)
LEMMA LocalLemma ==
    ASSUME IInv, NEW p \in Proc, NEW r \in Request, Become(p, r),
           UNCHANGED <<rows, past, cache, minted, given, ended>>,
           Local(r), Knows(r, rows, past), r.new = None \/ r.new = req[p].new,
           \A s \in Session : r.mine[s] # None => req[p].mine[s] # None \/ ~Locked(s, p)
    PROVE  IInv'
  <1>1. r.new # None => r.new \in minted'
    BY Record
  <1>2. /\ minted \subseteq minted' /\ minted' \in SUBSET Pair /\ given' \in SUBSET minted'
        /\ cache' \in [Key -> Session \cup {None, Miss}]
    BY DEF IInv, TypeOK
  <1>3. \A k \in Key : cache'[k] # Miss => cache'[k] \in past[k]
    BY Record
  <1> QED
    BY <1>1, <1>2, <1>3, StepLemma

-----------------------------------------------------------------------------
(* The record of a request that begins.                                    *)
LEMMA OpenedSound ==
    ASSUME IInv, NEW op \in Operations, NEW pc \in {"get", "read", "drop"}, NEW k \in Key \cup {None},
           op \in ByToken => k \in Key,
           pc = "get" => op \in ByToken \ {"invalidateAccess"},
           pc = "read" => op \in {"invalidateAccess", "signout"},
           pc = "drop" => op = "authenticate"
    PROVE  LET r == [Opened(op, pc) EXCEPT !.key = k]
           IN  /\ r \in Request /\ r.new = None /\ r.mine = Nothing
               /\ Local(r) /\ Knows(r, rows, past)
  <1> DEFINE r == [Opened(op, pc) EXCEPT !.key = k]
             f == IF op = "signout" THEN LiveSessions ELSE {}
  <1>1. Nothing \in [Session -> Row \cup {None}] /\ \A s \in Session : Nothing[s] = None
    BY DEF Nothing
  <1>2. f \in SUBSET Session /\ \A s \in f : rows[s] # None
    BY DEF LiveSessions, Live
  <1>3. /\ r.op = op /\ r.pc = pc /\ r.key = k /\ r.new = None /\ r.sess = None
        /\ r.mine = Nothing /\ r.floor = f /\ r.hit = {}
    BY DEF Opened, Idle
  <1>4. r \in Request
    BY <1>1, <1>2 DEF Opened, Idle, Request
  <1>5. Local(r)
    BY <1>1, <1>3 DEF Local, ByToken, Writing
  <1>6. Knows(r, rows, past)
    BY <1>1, <1>2, <1>3 DEF Knows, Writes, Ends, Goals
  <1> QED
    BY <1>3, <1>4, <1>5, <1>6

LEMMA StartStep ==
    ASSUME IInv, NEW p \in Proc, StartAny(p)
    PROVE  IInv'
  <1>1. ASSUME NEW op \in Operations, NEW pc \in {"get", "read", "drop"}, NEW k \in Key \cup {None},
               op \in ByToken => k \in Key,
               pc = "get" => op \in ByToken \ {"invalidateAccess"},
               pc = "read" => op \in {"invalidateAccess", "signout"},
               pc = "drop" => op = "authenticate",
               Start(p, op, pc, k)
        PROVE  IInv'
    <2> DEFINE r == [Opened(op, pc) EXCEPT !.key = k]
    <2>1. /\ r \in Request /\ r.new = None /\ r.mine = Nothing
          /\ Local(r) /\ Knows(r, rows, past)
      BY <1>1, OpenedSound
    <2>2. \A s \in Session : r.mine[s] = None
      BY <2>1 DEF Nothing
    <2>3. Become(p, r) /\ UNCHANGED <<rows, past, cache, minted, given, ended>>
      BY <1>1 DEF Start
    <2> HIDE DEF r
    <2> QED
      BY <2>1, <2>2, <2>3, LocalLemma
  <1>2. CASE Start(p, "signout", "read", None)
    BY <1>1, <1>2 DEF Operations, ByToken
  <1>3. ASSUME NEW q \in given,
               \/ \E op \in {"validate", "join"} : Start(p, op, "get", <<"access", q>>)
               \/ \E d \in Kind : Start(p, "refresh", "get", <<d, q>>)
               \/ Start(p, "invalidateAccess", "read", <<"access", q>>)
               \/ Start(p, "invalidateRefresh", "get", <<"refresh", q>>)
        PROVE  IInv'
    <2>1. q \in Pair
      BY DEF IInv, TypeOK
    <2>2. \A d \in Kind : <<d, q>> \in Key
      BY <2>1 DEF Key
    <2>3. "access" \in Kind /\ "refresh" \in Kind
      BY DEF Kind
    <2> QED
      BY <1>1, <1>3, <2>2, <2>3 DEF Operations, ByToken
  <1> QED
    BY <1>2, <1>3 DEF StartAny

LEMMA AuthenticateStep ==
    ASSUME IInv, NEW p \in Proc, NEW s \in Session, NEW q \in Pair, Authenticate(p, s, q)
    PROVE  IInv'
  <1> DEFINE m == [Nothing EXCEPT ![s] = NewRow(q)]
             r == [Opened("authenticate", "drop") EXCEPT !.new = q, !.mine[s] = NewRow(q),
                                                         !.todo = KeysOf({q})]
  <1>1. /\ Nothing \in [Session -> Row \cup {None}] /\ \A t \in Session : Nothing[t] = None
        /\ NewRow(q) \in Row /\ NewRow(q).pair = q /\ NewRow(q) # None
    <2>1. NewRow(q) \in Row /\ NewRow(q).pair = q
      BY DEF NewRow, Row
    <2> QED
      BY <2>1, GameAssumption DEF Nothing
  <1>2. /\ m \in [Session -> Row \cup {None}] /\ m[s] = NewRow(q)
        /\ \A t \in Session \ {s} : m[t] = None
    BY <1>1
  <1>3. /\ rows[s] = None /\ ~Locked(s, p) /\ q \notin minted
        /\ minted' = minted \cup {q} /\ Become(p, r)
        /\ UNCHANGED <<rows, past, cache, given, ended>>
    BY DEF Authenticate
  <1>4. /\ r.op = "authenticate" /\ r.pc = "drop" /\ r.key = None /\ r.new = q
        /\ r.sess = None /\ r.mine = m /\ r.floor = {}
    BY DEF Opened, Idle
  <1>5. r \in Request
    <2>1. KeysOf({q}) \in SUBSET Key
      BY DEF KeysOf, Key
    <2> QED
      BY <1>2, <2>1 DEF Opened, Idle, Request, Operations
  <1> HIDE DEF r, m
  <1>6. Local(r)
    BY <1>2, <1>4 DEF Local, ByToken, Writing
  <1>7. Knows(r, rows, past)
    <2>1. \A t \in Session : rows[t] # None => rows[t].pair # q
      BY <1>3 DEF IInv, Unique
    <2>2. Writes(r, rows)
      BY <1>1, <1>2, <1>3, <1>4 DEF Writes
    <2> QED
      BY <1>4, <2>1, <2>2 DEF Knows, Ends, Goals
  <1>8. /\ minted \subseteq minted' /\ minted' \in SUBSET Pair /\ given' \in SUBSET minted'
        /\ cache' \in [Key -> Session \cup {None, Miss}]
    BY <1>3 DEF IInv, TypeOK
  <1>9. \A k \in Key : cache'[k] # Miss => cache'[k] \in past[k]
    BY <1>3, Record
  <1>10. \A t \in Session : r.mine[t] # None => ~Locked(t, p)
    BY <1>2, <1>3, <1>4
  <1> QED
    BY <1>3, <1>4, <1>5, <1>6, <1>7, <1>8, <1>9, <1>10, StepLemma

-----------------------------------------------------------------------------
(* The lookup of a request ends with an answer of the past.                *)
LEMMA LearnLemma ==
    ASSUME IInv, NEW p \in Proc, At(p, "get") \/ At(p, "set"), NEW s \in Session \cup {None},
           s \in past[req[p].key], NEW loaded \in BOOLEAN, Learn(p, s, loaded),
           UNCHANGED <<rows, past, minted, given, ended>>,
           cache' \in [Key -> Session \cup {None, Miss}],
           \A k \in Key : cache'[k] # Miss => cache'[k] \in past[k]
    PROVE  IInv'
  <1>0. /\ req[p] \in Request /\ Local(req[p]) /\ Knows(req[p], rows, past)
        /\ req[p].pc \in {"get", "set"}
        /\ minted' \in SUBSET Pair /\ given' \in SUBSET minted' /\ minted \subseteq minted'
        /\ req[p].new # None => req[p].new \in minted
    BY Record DEF At, IInv, TypeOK
  <1>1. CASE Become(p, Idle)
    BY <1>0, <1>1, IdleSound, StepLemma
  <1>2. CASE ~(s = None \/ req[p].op = "validate")
    <2> DEFINE r == [req[p] EXCEPT !.sess = s, !.loaded = loaded, !.pc = "read"]
    <2>1. Become(p, r) /\ s \in Session
      BY <1>2 DEF Learn
    <2>2. /\ r \in Request /\ r.op = req[p].op /\ r.pc = "read" /\ r.key = req[p].key
          /\ r.new = req[p].new /\ r.sess = s /\ r.mine = req[p].mine /\ r.floor = req[p].floor
      BY <1>0, <2>1 DEF Request
    <2> HIDE DEF r
    <2>3. Local(r)
      BY <1>0, <1>2, <2>1, <2>2 DEF Local, ByToken, Writing
    <2>4. Knows(r, rows, past)
      BY <1>0, <2>1, <2>2 DEF Knows, Writes, Ends
    <2>5. \A t \in Session : r.mine[t] # None => req[p].mine[t] # None
      BY <2>2
    <2>6. r.new # None => r.new \in minted'
      BY <1>0, <2>2
    <2> QED
      BY <1>0, <2>1, <2>2, <2>3, <2>4, <2>5, <2>6, StepLemma
  <1> QED
    BY <1>1, <1>2 DEF Learn

(* A request that only moves on.                                           *)
LEMMA MoveLemma ==
    ASSUME IInv, NEW p \in Proc, NEW r \in Request,
           r.op = req[p].op, r.key = req[p].key, r.new = req[p].new,
           r.mine = req[p].mine, r.floor = req[p].floor
    PROVE  /\ r.new # None => r.new \in minted
           /\ Writes(r, rows)
           /\ \A s \in r.floor : rows[s] # None
           /\ r.new # None => \A s \in Session : rows[s] # None => rows[s].pair # r.new
           /\ r.new # None => r.op \in {"authenticate", "refresh"}
           /\ r.new # None => \A s, t \in Session : r.mine[s] # None /\ r.mine[t] # None => s = t
           /\ r.op \in ByToken => r.key \in Key
           /\ \A s \in Session : r.mine[s] # None => req[p].mine[s] # None
    BY Record DEF Knows, Local, Writes, Ends

LEMMA LookupStep ==
    ASSUME IInv, NEW p \in Proc,
           LookupHit(p) \/ LookupMiss(p) \/ LookupSelect(p) \/ LookupSet(p)
    PROVE  IInv'
  <1>0. req[p] \in Request /\ Local(req[p]) /\ Knows(req[p], rows, past)
    BY Record
  <1>1. req[p].pc \in {"get", "select", "set"}
    BY DEF LookupHit, LookupMiss, LookupSelect, LookupSet, At
  <1>2. req[p].key \in Key /\ req[p].op \in ByToken \ {"invalidateAccess"} /\ req[p].mine = Nothing
    BY <1>0, <1>1 DEF Local
  <1>3. cache \in [Key -> Session \cup {None, Miss}]
        /\ \A k \in Key : cache[k] # Miss => cache[k] \in past[k]
    BY Record DEF IInv, TypeOK
  <1>4. CASE LookupHit(p)
    <2>1. cache[req[p].key] \in Session \cup {None} /\ cache[req[p].key] \in past[req[p].key]
      BY <1>2, <1>3, <1>4 DEF LookupHit
    <2> QED
      BY <1>3, <1>4, <2>1, LearnLemma DEF LookupHit
  <1>5. ASSUME NEW s \in Session \cup {None}, s = None \/ s \in past[req[p].key],
               NEW pc \in {"select", "set"},
               Become(p, [req[p] EXCEPT !.pc = pc, !.sess = s]),
               UNCHANGED <<rows, past, cache, minted, given, ended>>
        PROVE  IInv'
    <2> DEFINE r == [req[p] EXCEPT !.pc = pc, !.sess = s]
    <2>1. /\ r \in Request /\ r.op = req[p].op /\ r.pc = pc /\ r.key = req[p].key
          /\ r.new = req[p].new /\ r.sess = s /\ r.mine = req[p].mine /\ r.floor = req[p].floor
      BY <1>0 DEF Request
    <2> HIDE DEF r
    <2>2. Local(r)
      BY <1>2, <2>1, MoveLemma DEF Local
    <2>3. Knows(r, rows, past)
      BY <1>2, <1>5, <2>1, MoveLemma DEF Knows, Ends
    <2>4. \A t \in Session : r.mine[t] # None => req[p].mine[t] # None
      BY <2>1
    <2> QED
      BY <1>5, <2>1, <2>2, <2>3, <2>4, LocalLemma DEF r
  <1>6. CASE LookupMiss(p)
    <2>1. [req[p] EXCEPT !.pc = "select"] = [req[p] EXCEPT !.pc = "select", !.sess = req[p].sess]
      BY <1>0 DEF Request
    <2>2. req[p].sess \in Session \cup {None}
      BY <1>0 DEF Request
    <2>3. req[p].sess = None \/ req[p].sess \in past[req[p].key]
      BY <1>0, <1>2 DEF Knows
    <2> QED
      BY <1>5, <1>6, <2>1, <2>2, <2>3 DEF LookupMiss
  <1>7. CASE LookupSelect(p)
    <2>1. Found(rows, req[p].key) \in past[req[p].key]
      BY <1>2 DEF IInv, Sourced
    <2> QED
      BY <1>2, <1>5, <1>7, <2>1, FoundType DEF LookupSelect
  <1>8. CASE LookupSet(p)
    <2>1. req[p].sess \in Session \cup {None} /\ At(p, "set")
      BY <1>0, <1>8 DEF Request, LookupSet
    <2>2. req[p].sess \in past[req[p].key]
      BY <1>0, <1>2 DEF Knows, IInv, Sourced
    <2>3. cache' = [cache EXCEPT ![req[p].key] = req[p].sess]
      BY <1>8 DEF LookupSet
    <2>4. cache' \in [Key -> Session \cup {None, Miss}]
          /\ \A k \in Key : cache'[k] # Miss => cache'[k] \in past[k]
      BY <1>2, <1>3, <2>1, <2>2, <2>3
    <2> QED
      BY <1>8, <2>1, <2>2, <2>4, LearnLemma DEF LookupSet
  <1> QED
    BY <1>4, <1>6, <1>7, <1>8

-----------------------------------------------------------------------------
LEMMA ReadStep ==
    ASSUME IInv, NEW p \in Proc, Read(p)
    PROVE  IInv'
  <1>0. /\ req[p] \in Request /\ Local(req[p]) /\ Knows(req[p], rows, past)
        /\ req[p].pc = "read" /\ UNCHANGED <<rows, past, cache, given, ended>>
    BY Record DEF Read, At
  <1>1. req[p].mine = Nothing /\ \A s \in Session : Nothing[s] = None
    BY <1>0 DEF Local, Nothing
  <1> DEFINE u == [req[p] EXCEPT !.pc = "answer"]
             v == [req[p] EXCEPT !.pc = "update", !.seen = Selected(p)]
             r == IF Gone(p) THEN u ELSE v
  <1>2. Selected(p) \in SUBSET Pair
    <2>1. \A s \in Session : rows[s] # None => rows[s].pair \in Pair
      BY Record DEF Row
    <2>2. CASE req[p].op = "signout"
      BY <2>1, <2>2 DEF Selected, LiveSessions, Live
    <2>3. CASE req[p].op = "invalidateAccess"
      BY <2>1, <2>3 DEF Selected
    <2>4. CASE req[p].op \in {"refresh", "join", "invalidateRefresh"}
      <3>1. req[p].sess \in Session /\ req[p].key \in Key /\ req[p].key[2] \in Pair
        BY <1>0, <2>4 DEF Local, ByToken, Key
      <3>2. req[p].sess # None /\ req[p].sess \in past[req[p].key]
        BY <1>0, <3>1, GameAssumption DEF Knows
      <3>3. rows[req[p].sess] # None
        BY <3>1, <3>2 DEF IInv, Sourced
      <3> QED
        BY <2>1, <2>4, <3>1, <3>3 DEF Selected
    <2> QED
      BY <1>0, <2>2, <2>3, <2>4 DEF Local, Writing
  <1> USE DEF Request
  <1>3. ASSUME NEW x \in {u, v}
        PROVE  /\ x \in Request /\ x.op = req[p].op /\ x.key = req[p].key /\ x.new = req[p].new
               /\ x.sess = req[p].sess /\ x.mine = req[p].mine /\ x.floor = req[p].floor
               /\ x.pc \in {"answer", "update"}
    BY <1>0, <1>2
  <1>4. r \in {u, v} /\ (r.pc = "answer" => req[p].op \in {"refresh", "join"})
    BY DEF Gone
  <1>5. ASSUME NEW x \in Request, Become(p, x), x.op = req[p].op, x.key = req[p].key,
               x.sess = req[p].sess, x.mine = req[p].mine, x.floor = req[p].floor,
               x.pc \in {"answer", "update"},
               x.pc = "answer" => req[p].op \in {"refresh", "join"},
               IF req[p].op = "refresh"
               THEN x.new \in Pair \ minted /\ minted' = minted \cup {x.new}
               ELSE x.new = req[p].new /\ minted' = minted
        PROVE  IInv'
    <2>1. Local(x)
      BY <1>0, <1>1, <1>5, GameAssumption DEF Local, Writing
    <2>2. x.new # None => \A s \in Session : rows[s] # None => rows[s].pair # x.new
      BY <1>0, <1>5 DEF Knows, IInv, Unique
    <2>3. Knows(x, rows, past)
      BY <1>0, <1>1, <1>5, <2>2 DEF Knows, Writes, Ends, Goals
    <2>4. /\ minted \subseteq minted' /\ minted' \in SUBSET Pair /\ given' \in SUBSET minted'
          /\ cache' \in [Key -> Session \cup {None, Miss}]
          /\ x.new # None => x.new \in minted'
      BY <1>0, <1>5, Record DEF IInv, TypeOK
    <2>5. \A k \in Key : cache'[k] # Miss => cache'[k] \in past[k]
      BY <1>0, Record
    <2>6. \A s \in Session : x.mine[s] = None
      BY <1>1, <1>5
    <2> QED
      BY <1>0, <1>5, <2>1, <2>3, <2>4, <2>5, <2>6, StepLemma
  <1>6. CASE req[p].op = "refresh"
    <2>1. PICK q \in Pair \ minted : Become(p, [r EXCEPT !.new = q]) /\ minted' = minted \cup {q}
      BY <1>6 DEF Read
    <2> HIDE DEF r, u, v
    <2> DEFINE x == [r EXCEPT !.new = q]
    <2>2. /\ x \in Request /\ x.op = req[p].op /\ x.key = req[p].key /\ x.new = q
          /\ x.sess = req[p].sess /\ x.mine = req[p].mine /\ x.floor = req[p].floor
          /\ x.pc = r.pc
      BY <1>3, <1>4
    <2> HIDE DEF x
    <2> QED
      BY <1>3, <1>4, <1>5, <1>6, <2>1, <2>2 DEF x
  <1>7. CASE req[p].op # "refresh"
    <2>1. Become(p, r) /\ minted' = minted
      BY <1>7 DEF Read
    <2> HIDE DEF r, u, v
    <2> QED
      BY <1>3, <1>4, <1>5, <1>7, <2>1
  <1> QED
    BY <1>6, <1>7

(* The UPDATE matches every session that it is to end and is not revoked.  *)
LEMMA UpdateStep ==
    ASSUME IInv, NEW p \in Proc, Update(p)
    PROVE  IInv'
  <1> DEFINE r == [req[p] EXCEPT !.pc = "lock", !.hit = {s \in Session : Matches(p, s)}]
  <1>0. /\ req[p] \in Request /\ Local(req[p]) /\ Knows(req[p], rows, past)
        /\ req[p].pc = "update" /\ UNCHANGED <<rows, past, cache, minted, given, ended>>
        /\ Become(p, r)
    BY Record DEF Update, At
  <1>1. /\ r \in Request /\ r.op = req[p].op /\ r.key = req[p].key /\ r.new = req[p].new
        /\ r.sess = req[p].sess /\ r.mine = req[p].mine /\ r.floor = req[p].floor
        /\ r.pc = "lock" /\ r.hit = {s \in Session : Matches(p, s)}
    BY <1>0 DEF Request
  <1> HIDE DEF r
  <1>2. Local(r)
    BY <1>0, <1>1 DEF Local
  <1>3. \A s \in Goals(r) : s \in Session /\ rows[s] # None
    <2>1. CASE r.op = "signout"
      BY <1>0, <1>1, <2>1 DEF Goals, Knows, Ends, Request
    <2>2. CASE r.op = "invalidateRefresh"
      <3>1. r.sess \in Session /\ r.key \in Key
        BY <1>0, <1>1, <2>2 DEF Local, ByToken
      <3>2. r.sess \in past[r.key]
        BY <1>0, <1>1, <3>1, GameAssumption DEF Knows
      <3> QED
        BY <2>2, <3>1, <3>2 DEF Goals, IInv, Sourced
    <2> QED
      BY <2>1, <2>2 DEF Goals
  <1>4. \A s \in Goals(r) : s \in r.hit \/ rows[s].revoked
    <2> SUFFICES ASSUME NEW s \in Goals(r), ~rows[s].revoked PROVE Matches(p, s)
      BY <1>1, <1>3
    <2> QED
      BY <1>1, <1>3 DEF Goals, Matches
  <1>5. Knows(r, rows, past)
    BY <1>0, <1>1, <1>4 DEF Knows, Writes, Ends
  <1>6. \A t \in Session : r.mine[t] # None => req[p].mine[t] # None
    BY <1>1
  <1> QED
    BY <1>0, <1>1, <1>2, <1>5, <1>6, LocalLemma

(* The rows that are still matched once their locks are free are written.  *)
LEMMA ApplyStep ==
    ASSUME IInv, NEW p \in Proc, Apply(p)
    PROVE  IInv'
  <1> DEFINE changed == {s \in req[p].hit : Matches(p, s)}
             mine == [s \in Session |-> IF s \in changed THEN Written(p, rows[s]) ELSE None]
             drop == Stale(p, changed)
             pc == IF drop = {} THEN "answer" ELSE "drop"
             r == [req[p] EXCEPT !.mine = mine, !.seen = {}, !.hit = {}, !.todo = drop,
                                 !.pc = pc]
  <1>0. /\ req[p] \in Request /\ Local(req[p]) /\ Knows(req[p], rows, past)
        /\ req[p].pc = "lock" /\ UNCHANGED <<rows, past, cache, minted, given, ended>>
        /\ \A s \in req[p].hit : ~Locked(s, p)
        /\ req[p].op \in Writing
    BY Record DEF Apply, At, Local
  <1>1. Become(p, r)
    BY DEF Apply, Changes
  <1>2. changed \in SUBSET Session /\ \A s \in changed : rows[s] \in Row /\ Matches(p, s)
    BY <1>0, Record DEF Request, Matches
  <1>3. ASSUME NEW s \in changed
        PROVE  /\ Written(p, rows[s]) \in Row
               /\ \/ req[p].op = "refresh" /\ Written(p, rows[s]).pair = req[p].new
                  \/ Written(p, rows[s]).pair = rows[s].pair
               /\ rows[s].revoked => Written(p, rows[s]) = rows[s]
               /\ req[p].op \notin {"refresh", "join"} => Written(p, rows[s]).revoked
    <2>1. rows[s] \in Row /\ Matches(p, s)
      BY <1>2
    <2>2. CASE req[p].op = "refresh"
      <3>1. ~rows[s].revoked /\ req[p].new \in Pair
        BY <1>0, <2>1, <2>2 DEF Matches, Local
      <3> QED
        BY <2>1, <2>2, <3>1 DEF Written, Row
    <2>3. CASE req[p].op = "join"
      <3>1. ~rows[s].revoked
        BY <2>1, <2>3 DEF Matches
      <3> QED
        BY <2>1, <2>3, <3>1 DEF Written, Row
    <2>4. CASE req[p].op \notin {"refresh", "join"}
      BY <2>1, <2>4 DEF Written, Row
    <2> QED
      BY <2>2, <2>3, <2>4
  <1>4. mine \in [Session -> Row \cup {None}]
    BY <1>2, <1>3
  <1>5. drop \in SUBSET Key
    <2>1. req[p].op = "refresh" => req[p].new \in Pair
      BY <1>0 DEF Local
    <2>2. req[p].op = "invalidateAccess" => req[p].key \in Key
      BY <1>0 DEF Local, ByToken
    <2>3. req[p].seen \in SUBSET Pair
      BY <1>0 DEF Request
    <2> QED
      BY <2>1, <2>2, <2>3 DEF Stale, KeysOf, Key
  <1>6. pc \in {"answer", "drop"}
    OBVIOUS
  <1> HIDE DEF changed, mine, drop, pc
  <1>7. /\ r \in Request /\ r.op = req[p].op /\ r.key = req[p].key /\ r.new = req[p].new
        /\ r.sess = req[p].sess /\ r.mine = mine /\ r.floor = req[p].floor /\ r.pc = pc
    BY <1>0, <1>4, <1>5, <1>6 DEF Request
  <1> HIDE DEF r
  <1>8. \A s \in Session : mine[s] # None => s \in changed
    BY DEF mine
  <1>9. \A s \in changed : mine[s] = Written(p, rows[s]) /\ mine[s] # None
    BY <1>2, <1>3, GameAssumption DEF mine
  <1>10. Local(r)
    <2>1. req[p].op = "refresh" => \A s, t \in changed : s = t
      BY <1>2 DEF Matches
    <2>2. r.new # None => r.op = "refresh"
      BY <1>0, <1>7 DEF Local, Writing
    <2> QED
      BY <1>0, <1>6, <1>7, <1>8, <2>1, <2>2 DEF Local
  <1>11. Writes(r, rows)
    BY <1>2, <1>3, <1>7, <1>8, <1>9, GameAssumption DEF Writes
  <1>12. \A s \in Goals(r) : rows[s].revoked \/ (mine[s] # None /\ mine[s].revoked)
    <2> SUFFICES ASSUME NEW s \in Goals(r)
                 PROVE  rows[s].revoked \/ (mine[s] # None /\ mine[s].revoked)
      OBVIOUS
    <2>1. r.op \in {"signout", "invalidateRefresh"} /\ Goals(r) = Goals(req[p])
      BY <1>7 DEF Goals
    <2>2. CASE rows[s].revoked
      BY <2>2
    <2>3. CASE ~rows[s].revoked
      <3>1. s \in req[p].hit
        BY <1>0, <2>1, <2>3 DEF Knows, Ends
      <3>2. s \in Session
        BY <1>0, <3>1 DEF Request
      <3>3. rows[s] # None
        <4>1. CASE r.op = "signout"
          BY <1>0, <1>7, <4>1 DEF Goals, Knows, Ends
        <4>2. CASE r.op = "invalidateRefresh"
          <5>1. r.sess = s /\ r.key \in Key
            BY <1>0, <1>7, <4>2 DEF Goals, Local, ByToken
          <5>2. s \in past[r.key]
            BY <1>0, <1>7, <3>2, <5>1, GameAssumption DEF Knows
          <5> QED
            BY <3>2, <5>1, <5>2 DEF IInv, Sourced
        <4> QED
          BY <2>1, <4>1, <4>2
      <3>4. Matches(p, s)
        BY <1>7, <2>1, <2>3, <3>3 DEF Matches, Goals
      <3>5. s \in changed
        BY <3>1, <3>4 DEF changed
      <3> QED
        BY <1>3, <1>7, <1>9, <2>1, <3>5
    <2> QED
      BY <2>2, <2>3
  <1>13. Knows(r, rows, past)
    BY <1>0, <1>6, <1>7, <1>11, <1>12 DEF Knows, Ends
  <1>14. \A s \in Session : r.mine[s] # None => ~Locked(s, p)
    BY <1>0, <1>7, <1>8 DEF changed
  <1> QED
    BY <1>0, <1>1, <1>7, <1>10, <1>13, <1>14, LocalLemma

(* A request that has written moves on: invalidations and the answer.      *)
LEMMA AfterWrite ==
    ASSUME IInv, NEW p \in Proc, NEW r \in Request, Become(p, r),
           req[p].pc \in {"drop", "answer"}, r.pc \in {"drop", "answer", "commit"},
           r.op = req[p].op, r.key = req[p].key, r.new = req[p].new,
           r.sess = req[p].sess, r.mine = req[p].mine, r.floor = req[p].floor,
           UNCHANGED <<rows, past, ended, minted>>, given' \in SUBSET minted,
           cache' \in [Key -> Session \cup {None, Miss}],
           \A k \in Key : cache'[k] \in {cache[k], Miss}
    PROVE  IInv'
  <1>1. Local(req[p]) /\ Knows(req[p], rows, past)
    BY Record
  <1>2. Local(r)
    BY <1>1 DEF Local
  <1>3. Knows(r, rows, past)
    BY <1>1 DEF Knows, Writes, Ends, Goals
  <1>4. minted' \in SUBSET Pair /\ (r.new # None => r.new \in minted')
    BY Record DEF IInv, TypeOK
  <1>5. \A k \in Key : cache'[k] # Miss => cache'[k] \in past[k]
    BY Record
  <1> QED
    BY <1>2, <1>3, <1>4, <1>5, StepLemma

LEMMA DropStep ==
    ASSUME IInv, NEW p \in Proc, Drop(p)
    PROVE  IInv'
  <1>1. req[p] \in Request /\ req[p].pc = "drop" /\ UNCHANGED <<rows, past, minted, given, ended>>
        /\ cache \in [Key -> Session \cup {None, Miss}] /\ given \in SUBSET minted
    BY Record DEF Drop, At, IInv, TypeOK
  <1>2. PICK q \in Pair :
           LET left == req[p].todo \ KeysOf({q})
           IN  /\ cache' = [k \in Key |-> IF k \in req[p].todo \ left THEN Miss ELSE cache[k]]
               /\ Become(p, [req[p] EXCEPT !.todo = left,
                                           !.pc = IF left = {} THEN "answer" ELSE "drop"])
    BY DEF Drop
  <1> DEFINE left == req[p].todo \ KeysOf({q})
             pc == IF left = {} THEN "answer" ELSE "drop"
             r == [req[p] EXCEPT !.todo = left, !.pc = pc]
  <1>3. left \in SUBSET Key /\ pc \in {"answer", "drop"}
    BY <1>1 DEF Request
  <1>4. Become(p, r)
    BY <1>2
  <1>5. /\ cache' \in [Key -> Session \cup {None, Miss}]
        /\ \A k \in Key : cache'[k] \in {cache[k], Miss}
    BY <1>1, <1>2
  <1> HIDE DEF left, pc
  <1>6. /\ r \in Request /\ r.op = req[p].op /\ r.key = req[p].key /\ r.new = req[p].new
        /\ r.sess = req[p].sess /\ r.mine = req[p].mine /\ r.floor = req[p].floor /\ r.pc = pc
    BY <1>1, <1>3 DEF Request
  <1> HIDE DEF r
  <1> QED
    BY <1>1, <1>3, <1>4, <1>5, <1>6, AfterWrite

LEMMA AnswerStep ==
    ASSUME IInv, NEW p \in Proc, Answer(p)
    PROVE  IInv'
  <1> DEFINE r == [req[p] EXCEPT !.pc = "commit"]
  <1>1. req[p] \in Request /\ req[p].pc = "answer" /\ UNCHANGED <<rows, past, cache, minted, ended>>
        /\ Become(p, r)
    BY Record DEF Answer, At
  <1>2. /\ r \in Request /\ r.op = req[p].op /\ r.key = req[p].key /\ r.new = req[p].new
        /\ r.sess = req[p].sess /\ r.mine = req[p].mine /\ r.floor = req[p].floor
        /\ r.pc = "commit"
    BY <1>1 DEF Request
  <1> HIDE DEF r
  <1>3. given' \in SUBSET minted
    BY Record DEF Answer, IInv, TypeOK
  <1>4. cache' \in [Key -> Session \cup {None, Miss}]
    BY <1>1 DEF IInv, TypeOK
  <1> QED
    BY <1>1, <1>2, <1>3, <1>4, AfterWrite

LEMMA EndStep ==
    ASSUME IInv, (\E p \in Proc : Fail(p)) \/ (\E k \in Key : Expire(k)) \/ UNCHANGED vars
    PROVE  IInv'
  <1>1. ASSUME NEW p \in Proc, Fail(p) PROVE IInv'
    BY <1>1, IdleSound, LocalLemma DEF Fail
  <1>2. ASSUME NEW k \in Key, Expire(k) PROVE IInv'
    <2>1. /\ cache' = [cache EXCEPT ![k] = Miss]
          /\ UNCHANGED <<rows, past, minted, given, ended, req>>
      BY <1>2 DEF Expire
    <2>2. TypeOK' /\ Sourced'
      BY <2>1 DEF IInv, TypeOK, Sourced, Found
    <2> QED
      BY <2>1, <2>2 DEF IInv, Unique, Apart, EndedAreRevoked
  <1>3. CASE UNCHANGED vars
    <2>1. UNCHANGED <<rows, past, cache, minted, given, ended, req>>
      BY <1>3 DEF vars
    <2>2. TypeOK' /\ Sourced'
      BY <2>1 DEF IInv, TypeOK, Sourced, Found
    <2> QED
      BY <2>1, <2>2 DEF IInv, Unique, Apart, EndedAreRevoked
  <1> QED
    BY <1>1, <1>2, <1>3

-----------------------------------------------------------------------------
(* A commit: each row is that of before, or one that the request wrote,    *)
(* with the new pair or the row's own; revoked rows are as they were.      *)
LEMMA Merge ==
    ASSUME IInv, NEW p \in Proc, Commit(p)
    PROVE  /\ rows' = Merged(p)
           /\ rows' \in [Session -> Row \cup {None}]
           /\ \A s \in Session : req[p].mine[s] = None => rows'[s] = rows[s]
           /\ \A s \in Session : req[p].mine[s] # None => rows'[s] = req[p].mine[s]
           /\ \A s \in Session : rows[s] # None => rows'[s] # None
           /\ \A s \in Session : rows[s] # None /\ rows[s].revoked => rows'[s] = rows[s]
           /\ \A s \in Session : rows'[s] # None =>
                 \/ rows[s] # None /\ rows'[s].pair = rows[s].pair
                 \/ /\ req[p].mine[s] # None /\ req[p].new # None
                    /\ rows'[s].pair = req[p].new
  <1>1. /\ req[p].mine \in [Session -> Row \cup {None}] /\ rows \in [Session -> Row \cup {None}]
        /\ Writes(req[p], rows)
    BY Record DEF Request, Knows
  <1>2. rows' = Merged(p)
    BY DEF Commit
  <1>3. /\ \A s \in Session : req[p].mine[s] = None => rows'[s] = rows[s]
        /\ \A s \in Session : req[p].mine[s] # None => rows'[s] = req[p].mine[s]
        /\ rows' \in [Session -> Row \cup {None}]
    BY <1>1, <1>2 DEF Merged
  <1>4. \A s \in Session : req[p].mine[s] # None => req[p].mine[s].pair # None
    BY <1>1, GameAssumption DEF Row
  <1> QED
    BY <1>1, <1>2, <1>3, <1>4 DEF Writes

LEMMA CommitStep ==
    ASSUME IInv, NEW p \in Proc, Commit(p)
    PROVE  IInv'
  <1>0. /\ req[p] \in Request /\ Local(req[p]) /\ Knows(req[p], rows, past)
        /\ req[p].pc = "commit" /\ UNCHANGED <<cache, minted, given>>
        /\ past' = [k \in Key |-> past[k] \cup {Found(rows', k)}]
        /\ ended' = ended \cup Aim(p)
        /\ req' = [req EXCEPT ![p] = Idle] /\ req \in [Proc -> Request]
    BY Record DEF Commit, Become, At, IInv, TypeOK
  <1>1. /\ req'[p] = Idle /\ \A q \in Proc \ {p} : req'[q] = req[q]
        /\ req' \in [Proc -> Request]
    BY <1>0, IdleSound
  <1>2. Aim(p) = Goals(req[p])
    BY DEF Aim, Goals
  <1>3. Aim(p) \in SUBSET Session /\ \A s \in Aim(p) : rows'[s] # None /\ rows'[s].revoked
    <2>1. \A s \in Goals(req[p]) : s \in Session
      <3>1. CASE req[p].op = "signout"
        BY <1>0, <3>1 DEF Goals, Request
      <3>2. CASE req[p].op = "invalidateRefresh"
        BY <1>0, <3>2 DEF Goals, Local
      <3> QED
        BY <3>1, <3>2 DEF Goals
    <2>2. ASSUME NEW s \in Goals(req[p]), s \in Session
          PROVE  rows[s] # None
      <3>1. CASE req[p].op = "signout"
        BY <1>0, <2>2, <3>1 DEF Goals, Knows, Ends
      <3>2. CASE req[p].op = "invalidateRefresh"
        <4>1. req[p].sess = s /\ req[p].key \in Key
          BY <1>0, <3>2 DEF Goals, Local, ByToken
        <4>2. s \in past[req[p].key]
          BY <1>0, <2>2, <4>1, GameAssumption DEF Knows
        <4> QED
          BY <2>2, <4>1, <4>2 DEF IInv, Sourced
      <3> QED
        BY <3>1, <3>2 DEF Goals
    <2>3. ASSUME NEW s \in Goals(req[p]), s \in Session
          PROVE  rows'[s] # None /\ rows'[s].revoked
      <3>1. rows[s].revoked \/ (req[p].mine[s] # None /\ req[p].mine[s].revoked)
        BY <1>0 DEF Knows, Ends
      <3> QED
        BY <2>2, <2>3, <3>1, Merge
    <2> QED
      BY <1>2, <2>1, <2>3
  <1>4. TypeOK'
    <2>1. past' \in [Key -> SUBSET (Session \cup {None})]
      BY <1>0, FoundType DEF IInv, TypeOK
    <2> QED
      BY <1>0, <1>1, <1>3, <2>1, Merge DEF IInv, TypeOK
  <1>5. ASSUME NEW q \in Proc \ {p}
        PROVE  Local(req[q]) /\ Knows(req[q], rows', past')
    <2>1. /\ Local(req[q]) /\ Knows(req[q], rows, past) /\ req[q] \in Request
          /\ \A s \in Session : req[q].mine[s] # None => req[p].mine[s] = None
          /\ req[q].new # None => req[q].new # req[p].new
      BY Record DEF IInv, Apart
    <2>2. req[q].key \in Key /\ req[q].sess # None => req[q].sess \in past'[req[q].key]
      BY <1>0, <2>1 DEF Knows
    <2>3. req[q].new # None => \A s \in Session : rows'[s] # None => rows'[s].pair # req[q].new
      BY <2>1, Merge DEF Knows
    <2>4. Writes(req[q], rows')
      BY <2>1, Merge DEF Knows, Writes
    <2>5. Ends(req[q], rows')
      <3>1. \A s \in Goals(req[q]) : s \in Session \/ req[q].pc \notin {"lock", "drop", "answer", "commit"}
        <4>1. CASE req[q].op = "signout"
          BY <2>1, <4>1 DEF Goals, Request
        <4>2. CASE req[q].op = "invalidateRefresh"
          BY <2>1, <4>2 DEF Goals, Local
        <4> QED
          BY <4>1, <4>2 DEF Goals
      <3>2. req[q].floor \in SUBSET Session
        BY <2>1 DEF Request
      <3>3. \A s \in req[q].floor : rows'[s] # None
        BY <2>1, <3>2, Merge DEF Knows, Ends
      <3>4. ASSUME NEW s \in Goals(req[q]), s \in Session,
                   req[q].pc \in {"lock", "drop", "answer", "commit"}
            PROVE  rows[s] # None
        <4>1. CASE req[q].op = "signout"
          BY <2>1, <3>4, <4>1 DEF Goals, Knows, Ends
        <4>2. CASE req[q].op = "invalidateRefresh"
          <5>1. req[q].sess = s /\ req[q].key \in Key
            BY <2>1, <4>2 DEF Goals, Local, ByToken
          <5>2. s \in past[req[q].key]
            BY <2>1, <3>4, <5>1, GameAssumption DEF Knows
          <5> QED
            BY <3>4, <5>1, <5>2 DEF IInv, Sourced
        <4> QED
          BY <4>1, <4>2 DEF Goals
      <3>5. \A s \in Session : rows[s] # None /\ rows[s].revoked => rows'[s].revoked
        BY Merge
      <3> QED
        BY <2>1, <3>1, <3>3, <3>4, <3>5 DEF Knows, Ends
    <2> QED
      BY <2>1, <2>2, <2>3, <2>4, <2>5 DEF Knows
  <1>6. \A q \in Proc : Local(req'[q]) /\ Knows(req'[q], rows', past')
    BY <1>1, <1>5, IdleSound
  <1>7. Unique'
    <2>1. ASSUME NEW s \in Session, NEW t \in Session, rows'[s] # None, rows'[t] # None,
                 rows'[s].pair = rows'[t].pair
          PROVE  s = t
      <3>1. req[p].new # None => \A u \in Session : rows[u] # None => rows[u].pair # req[p].new
        BY <1>0 DEF Knows
      <3>2. req[p].new # None => \A u, w \in Session :
               req[p].mine[u] # None /\ req[p].mine[w] # None => u = w
        BY <1>0 DEF Local
      <3> QED
        BY <2>1, <3>1, <3>2, Merge DEF IInv, Unique
    <2>2. \A s \in Session : rows'[s] # None => rows'[s].pair \in minted'
      BY <1>0, Record, Merge DEF IInv, Unique
    <2> QED
      BY <2>1, <2>2 DEF Unique
  <1>8. Sourced'
    <2>1. ASSUME NEW k \in Key
          PROVE  /\ cache'[k] # Miss => cache'[k] \in past'[k]
                 /\ None \in past'[k]
                 /\ Found(rows', k) \in past'[k]
                 /\ \A s \in Session : s \in past'[k] => rows'[s] # None
      <3>1. past'[k] = past[k] \cup {Found(rows', k)}
        BY <1>0
      <3>2. \A s \in Session : s = Found(rows', k) => rows'[s] # None
        BY FoundType, GameAssumption
      <3>3. /\ cache[k] # Miss => cache[k] \in past[k]
            /\ None \in past[k]
            /\ \A s \in Session : s \in past[k] => rows[s] # None
        BY DEF IInv, Sourced
      <3> QED
        BY <1>0, <3>1, <3>2, <3>3, Merge
    <2> QED
      BY <2>1 DEF Sourced
  <1>9. Apart'
    BY <1>0, <1>1, IdleSound DEF IInv, Apart
  <1>10. EndedAreRevoked'
    <2>1. \A s \in ended : s \in Session /\ rows[s] # None /\ rows[s].revoked
      BY DEF IInv, TypeOK, EndedAreRevoked
    <2> QED
      BY <1>0, <1>3, <2>1, Merge DEF EndedAreRevoked
  <1> QED
    BY <1>4, <1>6, <1>7, <1>8, <1>9, <1>10 DEF IInv

(* Every step keeps the invariant: one lemma per action or two.            *)
LEMMA Inductive == IInv /\ [Next]_vars => IInv'
    BY StartStep, AuthenticateStep, LookupStep, ReadStep, UpdateStep, ApplyStep,
       DropStep, AnswerStep, CommitStep, EndStep DEF Next, Step

LEMMA Initial == Init => IInv
  <1> SUFFICES ASSUME Init PROVE IInv
    OBVIOUS
  <1>1. Nothing \in [Session -> Row \cup {None}] /\ \A s \in Session : Nothing[s] = None
    BY DEF Nothing
  <1>2. \A k \in Key : Found(rows, k) = None
    BY <1>1 DEF Init, Found, Live
  <1>3. Sourced
    BY <1>2, GameAssumption DEF Init, Sourced
  <1>4. TypeOK /\ \A p \in Proc : Local(req[p]) /\ Knows(req[p], rows, past)
    BY <1>1, IdleSound DEF Init, TypeOK
  <1> QED
    BY <1>1, <1>3, <1>4, IdleSound DEF Init, IInv, Unique, Apart, EndedAreRevoked

LEMMA Invariance == Spec => []IInv
    BY Initial, Inductive, PTL DEF Spec

-----------------------------------------------------------------------------
(* The variables keep their types, for all values of the constants.        *)
THEOREM TypeCorrect == Spec => []TypeOK
  <1>1. IInv => TypeOK
    BY DEF IInv
  <1> QED
    BY <1>1, Invariance, PTL

(* A committed signout or invalidation by refresh token has revoked the    *)
(* sessions that it was for, whatever other requests wrote meanwhile.      *)
THEOREM EndedRevoked == Spec => []EndedAreRevoked
  <1>1. IInv => EndedAreRevoked
    BY DEF IInv
  <1> QED
    BY <1>1, Invariance, PTL

(* A pair is of one session, and lets in for sessions that were its own.   *)
THEOREM OwnSessions == Spec => []OnlyOwnSession
  <1>1. IInv => OnlyOwnSession
    <2> SUFFICES ASSUME IInv PROVE OnlyOwnSession
      OBVIOUS
    <2>1. \A p \in Proc : req[p].key # None => req[p].key \in Key
      BY Record DEF Request
    <2> QED
      BY <2>1 DEF IInv, Unique, Sourced, Knows, OnlyOwnSession
  <1> QED
    BY <1>1, Invariance, PTL

(* No step writes to a revoked row.                                        *)
THEOREM Revocations == Spec => RevokedForever
  <1>1. IInv /\ [Next]_vars =>
           [\A s \in Session : rows[s] # None /\ rows[s].revoked => rows'[s] = rows[s]]_vars
    <2> SUFFICES ASSUME IInv, Next, NEW s \in Session, rows[s] # None, rows[s].revoked
                 PROVE  rows'[s] = rows[s]
      BY DEF vars
    <2>1. CASE \E p \in Proc : Commit(p)
      BY <2>1, Merge
    <2>2. CASE ~\E p \in Proc : Commit(p)
      BY <2>2 DEF Next, Step, StartAny, Start, Authenticate, LookupHit, LookupMiss,
                  LookupSelect, LookupSet, Read, Update, Apply, Drop, Answer, Fail, Expire
    <2> QED
      BY <2>1, <2>2
  <1> QED
    BY <1>1, Invariance, PTL DEF Spec, RevokedForever

(* GameSession implements ReadThrough: each step of a request is a commit, *)
(* a change of cached answers to answers of the past, or a stutter.        *)
THEOREM LookupRefinement == Spec => ReadThroughRefined
  <1>1. Init => Promise!Init
    <2> SUFFICES ASSUME Init PROVE Promise!Init
      OBVIOUS
    <2>1. \A k \in Key : Found(rows, k) = None
      BY DEF Init, Nothing, Found, Live
    <2>2. [k \in Key |-> Found(rows, k)] \in [Key -> Session \cup {None}]
      BY <2>1
    <2> QED
      BY <2>1, <2>2 DEF Init, Promise!Init
  <1>2. IInv /\ IInv' /\ [Next]_vars => [Promise!Next]_Promise!vars
    <2> SUFFICES ASSUME IInv, IInv', [Next]_vars PROVE [Promise!Next]_Promise!vars
      OBVIOUS
    <2>1. ASSUME NEW p \in Proc, Commit(p) PROVE Promise!Commit
      <3>1. /\ cache' = cache
            /\ past' = [k \in Key |-> past[k] \cup {Found(rows', k)}]
        BY <2>1 DEF Commit
      <3>2. [k \in Key |-> Found(rows', k)] \in [Key -> Session \cup {None}]
        BY FoundType
      <3>3. past' = [k \in Key |-> past[k] \cup {[j \in Key |-> Found(rows', j)][k]}]
        BY <3>1
      <3> QED
        BY <3>1, <3>2, <3>3 DEF Promise!Commit
    <2>2. CASE ~\E p \in Proc : Commit(p)
      <3>1. UNCHANGED <<rows, past>>
        BY <2>2 DEF Next, Step, vars, StartAny, Start, Authenticate, LookupHit, LookupMiss,
                    LookupSelect, LookupSet, Read, Update, Apply, Drop, Answer, Fail, Expire
      <3>2. cache' \in [Key -> (Session \cup {None}) \cup {Miss}]
        BY DEF IInv, TypeOK
      <3>3. \A k \in Key : cache'[k] # Miss => cache'[k] \in past[k]
        BY <3>1, Record DEF IInv, Sourced
      <3> QED
        BY <3>1, <3>2, <3>3 DEF Promise!Next, Promise!Change, Promise!vars, Found
    <2> QED
      BY <2>1, <2>2 DEF Promise!Next
  <1> QED
    BY <1>1, <1>2, Invariance, PTL DEF Spec, ReadThroughRefined, Promise!Spec
=============================================================================
