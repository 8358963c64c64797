------------------------------- MODULE Access --------------------------------
(***************************************************************************)
(* Who gets in, on several pods: RequireAPIKey looks a partner's secret up *)
(* in Redis, and some time later the handler behind it opens a session     *)
(* with JWTManager.GenerateToken; the other guards accept the session      *)
(* wherever ParseAndValidate does.  Nothing connects the three but time:   *)
(* what was true at the lookup is believed until the token expires.        *)
(*                                                                         *)
(* core/pkg/redis/redis.go, core/pkg/security/jwt_manager.go,              *)
(* internal/middleware/pkg/RequireAPIKey.go, auth.go, AuthMiddleware.go    *)
(***************************************************************************)
EXTENDS RedisWrapper, FiniteSets

CONSTANTS
  Pods,
  Issuers,      \* pods with a private_key_path; the others only verify
  MaxKeys,      \* bound on the key pairs
  TTL,          \* life of a token, in ticks
  MaxHandling,  \* bound on the ticks between the lookup and the signature
  MaxTokens,    \* bound on requests in flight and tokens that clients keep
  MaxFaults     \* bound on failing nodes and failovers

ASSUME AccessAssumption ==
  /\ Issuers \subseteq Pods
  /\ MaxKeys \in Nat \ {0}
  /\ TTL \in Nat \ {0}
  /\ MaxHandling \in Nat
  /\ MaxTokens \in Nat
  /\ MaxFaults \in Nat

VARIABLES
  privateFile,  \* the key in private.pem
  publicFile,   \* and the one in public.pem
  loaded,       \* how far NewJWTManager is
  private,      \* each pod's privateKey, 0 for nil
  public,       \* each pod's publicKey, 0 for nil
  requests,     \* requests between RequireAPIKey's lookup and GenerateToken
  tokens,       \* the tokens clients keep
  seen,         \* history: secrets that were let in
  gone,         \* history: secrets that were let in and later refused
  idle,         \* history: ticks since a reader of Redis last held the secret
  faults

fileVars    == <<privateFile, publicFile>>
keyVars     == <<fileVars, loaded, private, public>>
sessionVars == <<requests, tokens>>
historyVars == <<seen, gone>>
vars == <<wrapperVars, keyVars, sessionVars, historyVars, idle, faults>>

\* c.Locals("client_id"), where, and the ticks since the lookup.
Request == [pod : Pods, sub : Entries, age : 0 .. MaxHandling]

\* MapClaims of GenerateToken: "sub", who signed, and what is left until "exp".
\* History: the age of the request that it was signed for.
Token == [sub : Entries, key : 1 .. MaxKeys, life : 0 .. TTL, age : 0 .. MaxHandling]

\* The clocks of the history stop here.
Longest == TTL + MaxHandling

TypeOK ==
  /\ WrapperTypeOK
  /\ privateFile \in 1 .. MaxKeys
  /\ publicFile  \in 1 .. MaxKeys
  /\ loaded   \in [Pods -> {"nothing", "private", "both"}]
  /\ private  \in [Pods -> 0 .. MaxKeys]
  /\ public   \in [Pods -> 0 .. MaxKeys]
  /\ requests \in SUBSET Request
  /\ tokens   \in SUBSET Token
  /\ seen     \in SUBSET Entries
  /\ gone     \in SUBSET Entries
  /\ idle     \in [Entries -> 0 .. Longest]
  /\ faults   \in 0 .. MaxFaults

Init ==
  /\ WrapperInit
  /\ privateFile = 1 /\ publicFile = 1
  /\ loaded   = [p \in Pods |-> "nothing"]
  /\ private  = [p \in Pods |-> 0]
  /\ public   = [p \in Pods |-> 0]
  /\ requests = {} /\ tokens = {}
  /\ seen     = {}
  /\ gone     = {}
  /\ idle     = [e \in Entries |-> Longest]
  /\ faults   = 0

-----------------------------------------------------------------------------
Readable(e) == \E n \in Readers : e \in Held(n)

\* The history idle, after a step that takes so many ticks.
Watch(ticks) ==
  idle' = [e \in Entries |->
    IF Readable(e)' THEN 0
    ELSE IF idle[e] + ticks <= Longest THEN idle[e] + ticks ELSE Longest]

\* GenerateToken, with the pod's private key if it has one.
GenerateToken(r) ==
  {[sub |-> r.sub, key |-> k, life |-> TTL, age |-> r.age] : k \in {private[r.pod]} \ {0}}

-----------------------------------------------------------------------------
(***************************************************************************)
(* Seeded mistakes: variants of definitions, not part of Spec.             *)
(***************************************************************************)

\* jwt.WithoutClaimsValidation()
ParseUnvalidated(p, t) == loaded[p] = "both" /\ t.key = public[p]

\* The public key of an issuer is taken from its private one.
LoadPublicOfPrivate(p) ==
  /\ loaded[p] = "private"
  /\ loaded' = [loaded EXCEPT ![p] = "both"]
  /\ public' = [public EXCEPT ![p] = IF p \in Issuers THEN private[p] ELSE publicFile]
  /\ UNCHANGED <<wrapperVars, fileVars, private, sessionVars, historyVars, faults>>
  /\ Watch(0)

\* A secret that was valid once is remembered and not looked up again.
AdmitRemembered(p, e) ==
  /\ loaded[p] = "both" /\ (Lookup(e, TRUE) \/ e \in seen)
  /\ seen' = seen \cup {e}
  /\ requests' = requests \cup {[pod |-> p, sub |-> e, age |-> 0]}
  /\ Cardinality(requests') + Cardinality(tokens) <= MaxTokens
  /\ UNCHANGED <<wrapperVars, keyVars, tokens, gone, faults>>
  /\ Watch(0)

-----------------------------------------------------------------------------
\* ParseAndValidate: signed by the key this pod knows, and "exp" lies ahead.
ParseAndValidate(p, t) == loaded[p] = "both" /\ t.key = public[p] /\ t.life > 0

\* RequireAuth lets in what ParseAndValidate accepts; "sub" is there, for
\* GenerateToken wrote it.  (The strict variant and RequireMFAToken let in less.)
RequireAuth(p, t) == ParseAndValidate(p, t)

-----------------------------------------------------------------------------
(***************************************************************************)
(* NewJWTManager                                                           *)
(***************************************************************************)
LoadPrivateKey(p) ==
  /\ loaded[p] = "nothing"
  /\ loaded' = [loaded EXCEPT ![p] = "private"]
  /\ private' = [private EXCEPT ![p] = IF p \in Issuers THEN privateFile ELSE 0]
  /\ UNCHANGED <<wrapperVars, fileVars, public, sessionVars, historyVars, faults>>
  /\ Watch(0)

LoadPublicKey(p) ==
  /\ loaded[p] = "private"
  /\ loaded' = [loaded EXCEPT ![p] = "both"]
  /\ public' = [public EXCEPT ![p] = publicFile]
  /\ UNCHANGED <<wrapperVars, fileVars, private, sessionVars, historyVars, faults>>
  /\ Watch(0)

\* The files are replaced one by one, in either order; the pods go on with what
\* they have read.
ReplacePrivateFile ==
  /\ privateFile < MaxKeys /\ privateFile <= publicFile
  /\ privateFile' = privateFile + 1
  /\ UNCHANGED <<wrapperVars, publicFile, loaded, private, public>>
  /\ UNCHANGED <<sessionVars, historyVars, faults>>
  /\ Watch(0)

ReplacePublicFile ==
  /\ publicFile < MaxKeys /\ publicFile <= privateFile
  /\ publicFile' = publicFile + 1
  /\ UNCHANGED <<wrapperVars, privateFile, loaded, private, public>>
  /\ UNCHANGED <<sessionVars, historyVars, faults>>
  /\ Watch(0)

Restart(p) ==
  /\ loaded' = [loaded EXCEPT ![p] = "nothing"]
  /\ private' = [private EXCEPT ![p] = 0]
  /\ public' = [public EXCEPT ![p] = 0]
  /\ requests' = {r \in requests : r.pod # p}
  /\ UNCHANGED <<wrapperVars, fileVars, tokens, historyVars, faults>>
  /\ Watch(0)

-----------------------------------------------------------------------------
(***************************************************************************)
(* RequireAPIKey and the handler behind it                                 *)
(***************************************************************************)

\* HGet finds the secret; c.Next().
Admit(p, e) ==
  /\ loaded[p] = "both" /\ Lookup(e, TRUE)
  /\ seen' = seen \cup {e}
  /\ requests' = requests \cup {[pod |-> p, sub |-> e, age |-> 0]}
  /\ Cardinality(requests') + Cardinality(tokens) <= MaxTokens
  /\ UNCHANGED <<wrapperVars, keyVars, tokens, gone, faults>>
  /\ Watch(0)

\* The handler signs, for the partner whom the lookup named, and answers.
OpenSession(r) ==
  /\ r \in requests
  /\ requests' = requests \ {r}
  /\ tokens' = tokens \cup GenerateToken(r)
  /\ UNCHANGED <<wrapperVars, keyVars, historyVars, faults>>
  /\ Watch(0)

\* redis.Nil: 401.  (A reader that does not answer is 500 and changes nothing.)
Refuse(e) ==
  /\ Lookup(e, FALSE)
  /\ gone' = gone \cup ({e} \cap seen)
  /\ UNCHANGED <<wrapperVars, keyVars, sessionVars, seen, faults>>
  /\ Watch(0)

-----------------------------------------------------------------------------
(***************************************************************************)
(* Partners come and go, time passes, nodes fail                           *)
(***************************************************************************)
Register(e) == HSet(e) /\ UNCHANGED <<keyVars, sessionVars, historyVars, faults>> /\ Watch(0)
Revoke(e)   == HDel(e) /\ UNCHANGED <<keyVars, sessionVars, historyVars, faults>> /\ Watch(0)

\* No handler takes longer than MaxHandling.
Tick ==
  /\ \A r \in requests : r.age < MaxHandling
  /\ requests' = {[r EXCEPT !.age = @ + 1] : r \in requests}
  /\ tokens' = {[t EXCEPT !.life = IF @ = 0 THEN 0 ELSE @ - 1] : t \in tokens}
  /\ UNCHANGED <<wrapperVars, keyVars, historyVars, faults>>
  /\ Watch(1)

\* A client throws an expired token away.
Forget(t) ==
  /\ t.life = 0
  /\ tokens' = tokens \ {t}
  /\ UNCHANGED <<wrapperVars, keyVars, requests, historyVars, faults>>
  /\ Watch(0)

StoreSettles(n) == Calm(n) /\ UNCHANGED <<keyVars, sessionVars, historyVars, faults>> /\ Watch(0)

StoreSuffers(n) ==
  /\ Storm(n)
  /\ faults < MaxFaults /\ faults' = faults + 1
  /\ UNCHANGED <<keyVars, sessionVars, historyVars>>
  /\ Watch(0)

-----------------------------------------------------------------------------
Serve(p) == \/ LoadPrivateKey(p) \/ LoadPublicKey(p) \/ Restart(p)
            \/ \E e \in Entries : Admit(p, e)

Next ==
  \/ \E p \in Pods : Serve(p)
  \/ \E e \in Entries : Refuse(e) \/ Register(e) \/ Revoke(e)
  \/ \E n \in Nodes : StoreSettles(n) \/ StoreSuffers(n)
  \/ \E r \in requests : OpenSession(r)
  \/ \E t \in tokens : Forget(t)
  \/ ReplacePrivateFile \/ ReplacePublicFile \/ Tick

Spec == Init /\ [][Next]_vars

(***************************************************************************)
(* Time passes, replicas catch up and nodes that failed come back, and a   *)
(* handler ends within MaxHandling.  What pods and clients do is left to   *)
(* them.                                                                   *)
(***************************************************************************)
InTime == \E r \in requests : r.age = MaxHandling /\ OpenSession(r)

Fairness ==
  WF_vars(Tick) /\ WF_vars(InTime) /\ \A n \in Nodes : WF_vars(StoreSettles(n))

FairSpec == Spec /\ Fairness

-----------------------------------------------------------------------------
(***************************************************************************)
(* Properties                                                              *)
(***************************************************************************)

\* A partner's secret may vanish between RequireAPIKey's lookup and the
\* signature, which gives the session its whole TTL all the same.  It ends
\* within TTL and the time its request took of the moment the secret has
\* vanished from everything RequireAPIKey may read, whichever pod signed it,
\* whatever was restarted, rotated or failed over in the meantime.
SessionsEndInTime == \A p \in Pods : \A t \in tokens :
  RequireAuth(p, t) => idle[t.sub] + t.life <= TTL + t.age

\* With one reader, answers do not go back in time: a secret that was let in and
\* later refused is not let in again, on any pod.  (In a cluster two replicas
\* may answer in turn.)
RefusedStaysRefused ==
  [][\A p \in Pods, e \in Entries :
       mode # "cluster" /\ Admit(p, e) => e \notin gone]_vars

\* With one reader, a removal that has reached it is never undone, whatever is
\* written, replicated or restarted later.
RemovedForReaders(e) == mode # "cluster" /\ \A n \in Readers : Has(n, removed[e])
RemovalIsFinal == \A e \in Entries :
  [](RemovedForReaders(e) => [](RemovedForReaders(e) /\ ~Readable(e)))

\* A key is retired once public.pem holds a later one and so does every pod that
\* is up.  It stays retired, and no session that it signed is accepted anywhere,
\* although pods may still sign with it, and may have read their private key
\* before the rotation and read their public one after it.
Retired(k) == publicFile > k /\ \A p \in Pods : loaded[p] = "both" => public[p] > k
RetiredKeysStayRetired ==
  [][\A k \in 1 .. MaxKeys : Retired(k) =>
       \A p \in Pods : \A t \in tokens' : t.key = k => ~RequireAuth(p, t)']_vars

\* A secret that stays revoked at the master opens no session any more, and the
\* ones it opened end, with whatever lag Redis replicates.
RevocationTakesEffect == \A e \in Entries :
  <>[](e \notin Held(Master)) =>
    <>[](\A p \in Pods : \A t \in tokens : t.sub = e => ~RequireAuth(p, t))

(***************************************************************************)
(* Why they hold: an inductive invariant.                                  *)
(***************************************************************************)

\* No write is numbered beyond what the master has, and a replica is behind it.
WritesAreNumbered ==
  /\ \A n \in Nodes : applied[n] <= applied[Master]
  /\ \A e \in Entries :
       /\ written[e] <= applied[Master] /\ removed[e] <= applied[Master]
       /\ removed[e] # 0 => 0 < written[e] /\ written[e] < removed[e]

\* What was refused after it was let in is removed as far as the reader knows.
GoneIsRemoved ==
  mode # "cluster" => \A n \in Readers :
    /\ \A e \in seen : Has(n, written[e])
    /\ \A e \in gone : Has(n, removed[e])

\* A request is as old as the last moment its secret could be read, or older.
RequestsAge == \A r \in requests : idle[r.sub] <= r.age

\* A token was signed after such a request.
TokensAge == \A t \in tokens : t.life > 0 => idle[t.sub] + t.life <= TTL + t.age

ReadableIsNotIdle == \A e \in Entries : Readable(e) => idle[e] = 0

AccessInv ==
  /\ TypeOK /\ WritesAreNumbered /\ GoneIsRemoved /\ RequestsAge /\ TokensAge
  /\ ReadableIsNotIdle
=============================================================================
