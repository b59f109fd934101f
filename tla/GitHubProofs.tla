--------------------------- MODULE GitHubProofs ---------------------------
(***************************************************************************)
(* Proofs about GitHub for any number of concurrent reconciliations, any   *)
(* repositories, rate limit and lives, and any bounds on time and faults.  *)
(***************************************************************************)
EXTENDS GitHub, TLAPS

-----------------------------------------------------------------------------
(* The inductive invariant.                                                *)

\* The type invariant in parts: the caches, the callers and the lock discipline
CacheTypes ==
    /\ githubClient \in 0..ClientLife \cup {None, Zero}
    /\ githubRepositories \in [Repositories -> 0..RepositoryLife]
    /\ githubTokens \in [Requests -> Tokens]
    /\ githubTenantCredentials \in [Requests -> 0..CredentialLife]
    /\ bridge \in 0..TokenLife
    /\ ticks \in 0..MaxTicks /\ faults \in 0..MaxFaults

CallerTypes ==
    /\ mutex \in [Mutexes -> Callers \cup {None}]
    /\ pc \in [Callers -> Labels]
    /\ request \in [Callers -> Requests \cup {None}]
    /\ \A c \in Callers : pc[c] = "idle" <=> request[c] = None

LockDiscipline ==
    \A c \in Callers :
        /\ mutex["client"] = c <=> pc[c] = "login"
        /\ mutex["repositories"] = c <=> pc[c] = "fetch"
        /\ mutex["credentials"] = c <=> pc[c] \in {"token", "tokenAgain", "createToken", "bridge"}

\* The cache has no repository that did not pass the checks.
CachedAllowed == \A r \in Repositories : githubRepositories[r] > 0 => r \notin Forbidden

\* Every use of a token but the first has been counted.
UsesCounted ==
    \A q \in Requests :
        githubTokens[q].uses <= githubTokens[q].rate + 1 /\ githubTokens[q].uses <= RateLimit

\* The parts are the type invariant.
LEMMA TypeParts == TypeOK <=> CacheTypes /\ CallerTypes /\ LockDiscipline
  <1>1. Mutexes = {"client", "repositories", "credentials"}
    BY DEF Mutexes
  <1>2. /\ Holding["client"] = {"login"}
        /\ Holding["repositories"] = {"fetch"}
        /\ Holding["credentials"] = {"token", "tokenAgain", "createToken", "bridge"}
    BY DEF Holding
  <1>3. (\A m \in Mutexes, c \in Callers : mutex[m] = c <=> pc[c] \in Holding[m]) <=> LockDiscipline
    BY <1>1, <1>2 DEF LockDiscipline
  <1> QED
    BY <1>3 DEF TypeOK, CacheTypes, CallerTypes

\* What a caller that is not idle wants is a request for a repository.
LEMMA RequestType ==
  ASSUME CallerTypes, NEW c \in Callers, pc[c] # "idle"
  PROVE  request[c] \in Requests /\ Repository(c) \in Repositories
  <1>1. request[c] \in Requests
    BY DEF CallerTypes
  <1> QED
    BY <1>1, RequestsAreEvents DEF Repository

-----------------------------------------------------------------------------
(* Type correctness.                                                       *)

\* The lives and bounds are natural numbers.
LEMMA Lives ==
  /\ ClientLife \in Nat /\ RepositoryLife \in Nat /\ TokenLife \in Nat
  /\ TokenCacheLife \in Nat /\ CredentialLife \in Nat
  /\ MaxTicks \in Nat /\ MaxFaults \in Nat
  BY GitHubBounds

\* Time that is left does not grow.
LEMMA LessBound ==
  ASSUME NEW n \in Nat, NEW k \in 0..n
  PROVE  Less(k) \in 0..n /\ Less(k) <= k
  BY DEF Less

\* The absent token is one.
LEMMA EmptyToken == NoToken \in Tokens
  <1>1. 0 \in 0..TokenCacheLife /\ 0 \in 0..TokenLife /\ 0 \in Nat
    BY Lives
  <1> QED
    BY <1>1 DEF NoToken, Tokens

\* A tick keeps the types.
LEMMA TickTypes ==
  ASSUME CacheTypes, Tick
  PROVE  CacheTypes'
  <1>1. \A n \in Nat : \A k \in 0..n : Less(k) \in 0..n
    BY LessBound
  <1>2. githubClient' \in 0..ClientLife \cup {None, Zero}
    BY <1>1, Lives DEF CacheTypes, Tick
  <1>3. githubRepositories' \in [Repositories -> 0..RepositoryLife]
    BY <1>1, Lives DEF CacheTypes, Tick
  <1>4. githubTokens' \in [Requests -> Tokens]
    <2>1. \A t \in Tokens : [t EXCEPT !.cached = Less(@), !.left = Less(@)] \in Tokens
      BY <1>1, Lives DEF Tokens
    <2> QED
      BY <2>1, EmptyToken DEF CacheTypes, Tick
  <1>5. githubTenantCredentials' \in [Requests -> 0..CredentialLife]
    BY <1>1, Lives DEF CacheTypes, Tick
  <1>6. bridge' \in 0..TokenLife
    BY <1>1, Lives DEF CacheTypes, Tick
  <1>7. ticks' \in 0..MaxTicks /\ faults' \in 0..MaxFaults
    <2>1. /\ ticks \in 0..MaxTicks /\ ticks < MaxTicks /\ ticks' = ticks + 1
          /\ faults \in 0..MaxFaults /\ faults' = faults
      BY DEF CacheTypes, Tick
    <2> QED
      BY <2>1, Lives
  <1> QED
    BY <1>2, <1>3, <1>4, <1>5, <1>6, <1>7 DEF CacheTypes

\* A counted lookup and a use leave a token.
LEMMA CountedToken ==
  ASSUME NEW t \in Tokens
  PROVE  /\ [t EXCEPT !.rate = @ + 1] \in Tokens
         /\ [[t EXCEPT !.rate = @ + 1] EXCEPT !.uses = @ + 1] \in Tokens
         /\ [t EXCEPT !.rate = @ + 1].left \in 0..TokenLife
  <1>1. t.rate + 1 \in Nat /\ t.uses + 1 \in Nat /\ t.left \in 0..TokenLife /\ t.cached \in 0..TokenCacheLife
    BY DEF Tokens
  <1> QED
    BY <1>1 DEF Tokens

\* A step of a caller keeps the types of the caches.
LEMMA CallerCacheTypes ==
  ASSUME CacheTypes, CallerTypes, NEW c \in Callers, Caller(c)
  PROVE  CacheTypes'
  <1> USE GitHubBounds DEF CacheTypes, cacheVars, Fault
  <1>1. CASE Reconcile(c) \/ Blocking(c) \/ GetRepository(c) \/ TryGetCredential(c)
    BY <1>1 DEF Reconcile, Blocking, InitGitHubClient, LockRepository, LockCredential, GetRepository, TryGetCredential
  <1>2. CASE Login(c)
    BY <1>2 DEF Login
  <1>3. CASE FetchRepository(c)
    BY <1>3 DEF FetchRepository
  <1>4. CASE TryGetToken(c)
    <2>1. request[c] \in Requests
      BY <1>4, RequestType DEF TryGetToken
    <2>2. githubTokens[request[c]] \in Tokens
      BY <2>1
    <2>3. /\ [githubTokens[request[c]] EXCEPT !.rate = @ + 1] \in Tokens
          /\ [[githubTokens[request[c]] EXCEPT !.rate = @ + 1] EXCEPT !.uses = @ + 1] \in Tokens
          /\ [githubTokens[request[c]] EXCEPT !.rate = @ + 1].left \in 0..TokenLife
      BY <2>2, CountedToken
    <2> QED
      BY <1>4, <2>3 DEF TryGetToken
  <1>5. CASE CreateToken(c)
    <2>1. [cached |-> TokenCacheLife, left |-> TokenLife, rate |-> 0, uses |-> 1] \in Tokens
      BY DEF Tokens
    <2> QED
      BY <1>5, <2>1 DEF CreateToken
  <1>6. CASE CreateTenantCredential(c)
    BY <1>6 DEF CreateTenantCredential
  <1> QED
    BY <1>1, <1>2, <1>3, <1>4, <1>5, <1>6 DEF Caller

\* A step of a caller keeps the types of the callers and the lock discipline: every critical
\* section is left with its mutex unlocked, on an error as well.
LEMMA CallerKeepsLocks ==
  ASSUME CallerTypes, LockDiscipline, NEW c \in Callers, Caller(c)
  PROVE  CallerTypes' /\ LockDiscipline'
  <1> USE GitHubBounds
      DEF CallerTypes, LockDiscipline, Mutexes, Labels, Goto, Lock, Unlock, Fail, Succeed
  <1>1. CASE Reconcile(c)
    BY <1>1 DEF Reconcile
  <1>2. CASE InitGitHubClient(c)
    BY <1>2 DEF InitGitHubClient
  <1>3. CASE LockRepository(c)
    BY <1>3 DEF LockRepository
  <1>4. CASE LockCredential(c)
    BY <1>4 DEF LockCredential
  <1>5. CASE Login(c)
    BY <1>5 DEF Login
  <1>6. CASE GetRepository(c)
    BY <1>6 DEF GetRepository
  <1>7. CASE FetchRepository(c)
    BY <1>7 DEF FetchRepository
  <1>8. CASE TryGetCredential(c)
    BY <1>8 DEF TryGetCredential
  <1>9. CASE TryGetToken(c)
    BY <1>9 DEF TryGetToken
  <1>10. CASE CreateToken(c)
    BY <1>10 DEF CreateToken
  <1>11. CASE CreateTenantCredential(c)
    BY <1>11 DEF CreateTenantCredential
  <1> QED
    BY <1>1, <1>2, <1>3, <1>4, <1>5, <1>6, <1>7, <1>8, <1>9, <1>10, <1>11 DEF Caller, Blocking

\* Type correctness and lock discipline hold for any number of callers.
THEOREM TypeCorrect == Spec => []TypeOK
  <1> DEFINE Types == CacheTypes /\ CallerTypes /\ LockDiscipline
  <1>1. Init => Types
    BY GitHubBounds DEF Init, CacheTypes, CallerTypes, LockDiscipline, Tokens, NoToken, Mutexes, Labels
  <1>2. Types /\ [Next]_vars => Types'
    <2> SUFFICES ASSUME Types, [Next]_vars
                 PROVE  Types'
      OBVIOUS
    <2>1. CASE Tick
      <3>1. CallerTypes' /\ LockDiscipline'
        BY <2>1 DEF Tick, CallerTypes, LockDiscipline
      <3> QED
        BY <2>1, <3>1, TickTypes
    <2>2. ASSUME NEW c \in Callers, Caller(c)
          PROVE  Types'
      BY <2>2, CallerCacheTypes, CallerKeepsLocks
    <2>3. CASE UNCHANGED vars
      BY <2>3 DEF vars, cacheVars, callerVars, CacheTypes, CallerTypes, LockDiscipline
    <2> QED
      BY <2>1, <2>2, <2>3 DEF Next
  <1> QED
    BY <1>1, <1>2, TypeParts, PTL DEF Spec

-----------------------------------------------------------------------------
(* The safety invariants.  Each is kept by a step that starts and ends in  *)
(* states with the types.                                                  *)

\* Only a repository that passed the checks of owner and visibility gets into the cache.
LEMMA CacheStaysAllowed ==
  ASSUME TypeOK, CachedAllowed, [Next]_vars
  PROVE  CachedAllowed'
  <1> USE TypeParts DEF CachedAllowed
  <1>1. CASE Tick
    <2>1. ASSUME NEW r \in Repositories, githubRepositories'[r] > 0
          PROVE  githubRepositories[r] > 0
      <3>1. githubRepositories'[r] = Less(githubRepositories[r]) /\ githubRepositories[r] \in 0..RepositoryLife
        BY <1>1 DEF Tick, CacheTypes
      <3> QED
        BY <2>1, <3>1, Lives DEF Less
    <2> QED
      BY <2>1
  <1>2. ASSUME NEW c \in Callers, FetchRepository(c)
        PROVE  CachedAllowed'
    BY <1>2 DEF FetchRepository, CacheTypes
  <1>3. ASSUME NEW c \in Callers, Caller(c), ~FetchRepository(c)
        PROVE  UNCHANGED githubRepositories
    BY <1>3 DEF Caller, Blocking, Reconcile, InitGitHubClient, LockRepository, LockCredential, Login,
                GetRepository, TryGetCredential, TryGetToken, CreateToken, CreateTenantCredential, cacheVars
  <1> QED
    BY <1>1, <1>2, <1>3 DEF Next, vars, cacheVars

\* A caller gets past the lookup of its repository only if the repository is allowed.
LEMMA CallersStayAllowed ==
  ASSUME TypeOK, CachedAllowed, OnlyAllowedRepositories, [Next]_vars
  PROVE  OnlyAllowedRepositories'
  <1> USE TypeParts DEF OnlyAllowedRepositories
  <1>1. CASE UNCHANGED <<pc, request>>
    BY <1>1 DEF Repository
  <1>2. ASSUME NEW c \in Callers, Caller(c)
        PROVE  OnlyAllowedRepositories'
    <2>1. ASSUME NEW d \in Callers, d # c
          PROVE  pc'[d] = pc[d] /\ request'[d] = request[d]
      BY <1>2, <2>1 DEF Caller, Blocking, Reconcile, InitGitHubClient, LockRepository, LockCredential, Login,
                        GetRepository, FetchRepository, TryGetCredential, TryGetToken, CreateToken,
                        CreateTenantCredential, Goto, Fail, Succeed, CallerTypes
    <2>2. pc'[c] \notin {"idle", "client", "login", "repository", "lockRepository", "fetch"} =>
            Repository(c)' \notin Forbidden
      <3> USE RequestType DEF CallerTypes, Goto, Fail, Succeed, Repository
      <3>1. CASE Reconcile(c) \/ InitGitHubClient(c) \/ Login(c)
        BY <3>1 DEF Reconcile, InitGitHubClient, Login
      <3>2. CASE GetRepository(c) \/ LockRepository(c)
        BY <3>2 DEF GetRepository, LockRepository, CachedAllowed
      <3>3. CASE FetchRepository(c)
        BY <3>3 DEF FetchRepository
      <3>4. CASE TryGetCredential(c) \/ LockCredential(c)
        BY <3>4 DEF TryGetCredential, LockCredential
      <3>5. CASE TryGetToken(c) \/ CreateToken(c) \/ CreateTenantCredential(c)
        BY <3>5 DEF TryGetToken, CreateToken, CreateTenantCredential
      <3> QED
        BY <1>2, <3>1, <3>2, <3>3, <3>4, <3>5 DEF Caller, Blocking
    <2> QED
      BY <2>1, <2>2 DEF Repository
  <1> QED
    BY <1>1, <1>2 DEF Next, Tick, vars, callerVars

\* A credential is asked for only for repositories that passed the checks, although callers
\* find repositories in the cache that others put there.
THEOREM RepositoriesAllowed == Spec => []OnlyAllowedRepositories
  <1>1. Init => CachedAllowed /\ OnlyAllowedRepositories
    BY DEF Init, CachedAllowed, OnlyAllowedRepositories
  <1>2. TypeOK /\ CachedAllowed /\ OnlyAllowedRepositories /\ [Next]_vars
          => (CachedAllowed /\ OnlyAllowedRepositories)'
    BY CacheStaysAllowed, CallersStayAllowed
  <1> QED
    BY <1>1, <1>2, TypeCorrect, PTL DEF Spec

\* A step counts every use of a token but the first, and gives out none that is used up.
LEMMA UsesStayCounted ==
  ASSUME TypeOK, UsesCounted, [Next]_vars
  PROVE  UsesCounted'
  <1> USE TypeParts
  <1>1. RateLimit \in Nat /\ RateLimit >= 1
    BY GitHubBounds
  <1>2. CASE Tick
    <2> SUFFICES ASSUME NEW q \in Requests
                 PROVE  githubTokens'[q].uses <= githubTokens'[q].rate + 1 /\ githubTokens'[q].uses <= RateLimit
      BY DEF UsesCounted
    <2>1. githubTokens[q] \in Tokens
      BY DEF CacheTypes
    <2>2. CASE githubTokens[q].cached <= 1
      <3>1. githubTokens'[q] = NoToken
        BY <1>2, <2>2 DEF Tick
      <3> QED
        BY <1>1, <3>1 DEF NoToken
    <2>3. CASE ~(githubTokens[q].cached <= 1)
      <3>1. githubTokens'[q] = [githubTokens[q] EXCEPT !.cached = Less(@), !.left = Less(@)]
        BY <1>2, <2>3 DEF Tick
      <3>2. githubTokens'[q].uses = githubTokens[q].uses /\ githubTokens'[q].rate = githubTokens[q].rate
        BY <2>1, <3>1 DEF Tokens
      <3> QED
        BY <3>2 DEF UsesCounted
    <2> QED
      BY <2>2, <2>3
  <1>3. ASSUME NEW c \in Callers, TryGetToken(c)
        PROVE  UsesCounted'
    <2> DEFINE q == request[c]
    <2> DEFINE t == [githubTokens[q] EXCEPT !.rate = @ + 1]
    <2>1. q \in Requests /\ githubTokens[q] \in Tokens /\ githubTokens \in [Requests -> Tokens]
      BY <1>3, RequestType DEF TryGetToken, CacheTypes
    <2>2. /\ t.rate = githubTokens[q].rate + 1 /\ t.uses = githubTokens[q].uses /\ t.left = githubTokens[q].left
          /\ [t EXCEPT !.uses = @ + 1].rate = t.rate /\ [t EXCEPT !.uses = @ + 1].uses = t.uses + 1
      BY <2>1 DEF Tokens
    <2>3. t.uses \in Nat /\ githubTokens[q].rate \in Nat
      BY <2>1, <2>2 DEF Tokens
    <2>4. githubTokens[q].uses <= githubTokens[q].rate + 1 /\ githubTokens[q].uses <= RateLimit
      BY <2>1 DEF UsesCounted
    <2>5. CASE githubTokens' = [githubTokens EXCEPT ![q] = [t EXCEPT !.uses = @ + 1]] /\ TokenGood(t)
      <3>1. t.uses + 1 <= t.rate + 1 /\ t.uses + 1 <= RateLimit
        BY <1>1, <2>2, <2>3, <2>4, <2>5 DEF TokenGood
      <3>2. \A p \in Requests : githubTokens'[p] = IF p = q THEN [t EXCEPT !.uses = @ + 1] ELSE githubTokens[p]
        BY <2>1, <2>5
      <3> QED
        BY <2>2, <3>1, <3>2 DEF UsesCounted
    <2>6. CASE githubTokens' = [githubTokens EXCEPT ![q] = t]
      <3>1. t.uses <= t.rate + 1 /\ t.uses <= RateLimit
        BY <2>2, <2>3, <2>4
      <3>2. \A p \in Requests : githubTokens'[p] = IF p = q THEN t ELSE githubTokens[p]
        BY <2>1, <2>6
      <3> QED
        BY <3>1, <3>2 DEF UsesCounted
    <2>7. CASE githubTokens' = githubTokens
      BY <2>7 DEF UsesCounted
    <2> QED
      BY <1>3, <2>5, <2>6, <2>7 DEF TryGetToken
  <1>4. ASSUME NEW c \in Callers, CreateToken(c)
        PROVE  UsesCounted'
    <2>1. request[c] \in Requests
      BY <1>4, RequestType DEF CreateToken
    <2>2. CASE UNCHANGED githubTokens
      BY <2>2 DEF UsesCounted
    <2>3. CASE githubTokens' = [githubTokens EXCEPT ![request[c]] =
                 [cached |-> TokenCacheLife, left |-> TokenLife, rate |-> 0, uses |-> 1]]
      BY <1>1, <2>1, <2>3 DEF UsesCounted, CacheTypes
    <2> QED
      BY <1>4, <2>2, <2>3 DEF CreateToken
  <1>5. ASSUME NEW c \in Callers, Caller(c), ~TryGetToken(c), ~CreateToken(c)
        PROVE  UNCHANGED githubTokens
    BY <1>5 DEF Caller, Blocking, Reconcile, InitGitHubClient, LockRepository, LockCredential, Login,
                GetRepository, FetchRepository, TryGetCredential, CreateTenantCredential, cacheVars
  <1>6. CASE UNCHANGED githubTokens
    BY <1>6 DEF UsesCounted
  <1> QED
    BY <1>2, <1>3, <1>4, <1>5, <1>6 DEF Next, vars, cacheVars

\* No registration or remove token is used more often than the rate limit allows.
THEOREM TokensWithinLimit == Spec => []TokenWithinLimit
  <1>1. Init => UsesCounted
    BY GitHubBounds DEF Init, UsesCounted, NoToken
  <1>2. TypeOK /\ UsesCounted /\ [Next]_vars => UsesCounted'
    BY UsesStayCounted
  <1>3. UsesCounted => TokenWithinLimit
    BY DEF UsesCounted, TokenWithinLimit
  <1> QED
    BY <1>1, <1>2, <1>3, TypeCorrect, PTL DEF Spec

-----------------------------------------------------------------------------
(* A fetch is never redundant.  Each conjunct is about one critical        *)
(* section: the cache is looked up when it is entered, only its owner      *)
(* fills the cache, and a tick takes away only.                            *)

LoginNeeded      == \A c \in Callers : pc[c] = "login" => ~ClientKept
FetchNeeded      == \A c \in Callers : pc[c] = "fetch" => githubRepositories[Repository(c)] = 0
CredentialNeeded ==
    \A c \in Callers : pc[c] \in {"token", "tokenAgain", "createToken", "bridge"} => ~Cached(request[c])
TokenNeeded ==
    \A c \in Callers : pc[c] = "createToken" =>
        ~(githubTokens[request[c]].cached > 0 /\ TokenGood(githubTokens[request[c]]))

\* Callers that are not taking a step stay where they are.
LEMMA OthersStay ==
  ASSUME TypeOK, NEW c \in Callers, Caller(c), NEW d \in Callers, d # c
  PROVE  pc'[d] = pc[d] /\ request'[d] = request[d]
  BY TypeParts
  DEF Caller, Blocking, Reconcile, InitGitHubClient, LockRepository, LockCredential, Login, GetRepository,
      FetchRepository, TryGetCredential, TryGetToken, CreateToken, CreateTenantCredential, Goto, Fail,
      Succeed, CallerTypes

\* A client is made only when there is none to keep.
LEMMA LoginStaysNeeded ==
  ASSUME TypeOK, LoginNeeded, [Next]_vars
  PROVE  LoginNeeded'
  <1> USE TypeParts
  <1>1. CASE Tick
    <2>1. ~ClientKept => ~ClientKept'
      <3>1. CASE githubClient \in {None, Zero}
        BY <1>1, <3>1 DEF Tick, ClientKept
      <3>2. CASE githubClient \notin {None, Zero}
        <4>1. githubClient' = Less(githubClient) /\ githubClient \in 0..ClientLife
          BY <1>1, <3>2 DEF Tick, CacheTypes
        <4>2. githubClient' \in 0..ClientLife /\ githubClient' <= githubClient
          BY <4>1, Lives, LessBound
        <4>3. Zero \notin Nat
          BY GitHubBounds
        <4> QED
          BY <4>1, <4>2, <4>3, Lives DEF ClientKept
      <3> QED
        BY <3>1, <3>2
    <2> QED
      BY <1>1, <2>1 DEF LoginNeeded, Tick
  <1>2. ASSUME NEW c \in Callers, Caller(c), NEW d \in Callers, pc'[d] = "login"
        PROVE  ~ClientKept'
    <2>1. CASE Login(c)
      <3>1. mutex["client"] = c
        BY <2>1 DEF Login, LockDiscipline
      <3>2. d # c
        BY <1>2, <2>1 DEF Login, Goto, Fail, CallerTypes
      <3> QED
        BY <1>2, <3>1, <3>2, OthersStay DEF LockDiscipline
    <2>2. CASE ~Login(c)
      <3>1. UNCHANGED githubClient
        BY <1>2, <2>2 DEF Caller, Blocking, Reconcile, InitGitHubClient, LockRepository, LockCredential,
          GetRepository, FetchRepository, TryGetCredential, TryGetToken, CreateToken, CreateTenantCredential, cacheVars
      <3>2. CASE d # c
        BY <1>2, <3>1, <3>2, OthersStay DEF LoginNeeded, ClientKept
      <3>3. CASE d = c
        <4>1. InitGitHubClient(c)
          BY <1>2, <2>2, <3>3 DEF Caller, Blocking, Reconcile, LockRepository, LockCredential, GetRepository,
            FetchRepository, TryGetCredential, TryGetToken, CreateToken, CreateTenantCredential, Goto, Fail,
            Succeed, CallerTypes
        <4> QED
          BY <1>2, <3>1, <3>3, <4>1 DEF InitGitHubClient, Goto, CallerTypes, ClientKept
      <3> QED
        BY <3>2, <3>3
    <2> QED
      BY <2>1, <2>2
  <1>3. CASE UNCHANGED vars
    BY <1>3 DEF LoginNeeded, ClientKept, vars, cacheVars, callerVars
  <1> QED
    BY <1>1, <1>2, <1>3 DEF Next, LoginNeeded

\* A repository is fetched only when the cache has lost it.
LEMMA FetchStaysNeeded ==
  ASSUME TypeOK, FetchNeeded, [Next]_vars
  PROVE  FetchNeeded'
  <1> USE TypeParts
  <1>1. CASE Tick
    <2> SUFFICES ASSUME NEW c \in Callers, pc'[c] = "fetch"
                 PROVE  githubRepositories'[Repository(c)'] = 0
      BY DEF FetchNeeded
    <2>1. pc[c] = "fetch" /\ Repository(c)' = Repository(c)
      BY <1>1 DEF Tick, Repository
    <2>2. Repository(c) \in Repositories /\ githubRepositories[Repository(c)] = 0
      BY <2>1, RequestType DEF FetchNeeded
    <2>3. githubRepositories'[Repository(c)] = Less(githubRepositories[Repository(c)])
      BY <1>1, <2>2 DEF Tick
    <2> QED
      BY <2>1, <2>2, <2>3 DEF Less
  <1>2. ASSUME NEW c \in Callers, Caller(c), NEW d \in Callers, pc'[d] = "fetch"
        PROVE  githubRepositories'[Repository(d)'] = 0
    <2>1. CASE FetchRepository(c)
      <3>1. mutex["repositories"] = c
        BY <2>1 DEF FetchRepository, LockDiscipline
      <3>2. d # c
        BY <1>2, <2>1 DEF FetchRepository, Goto, Fail, CallerTypes
      <3> QED
        BY <1>2, <3>1, <3>2, OthersStay DEF LockDiscipline
    <2>2. CASE ~FetchRepository(c)
      <3>1. UNCHANGED githubRepositories
        BY <1>2, <2>2 DEF Caller, Blocking, Reconcile, InitGitHubClient, LockRepository, LockCredential, Login,
          GetRepository, TryGetCredential, TryGetToken, CreateToken, CreateTenantCredential, cacheVars
      <3>2. CASE d # c
        BY <1>2, <3>1, <3>2, OthersStay DEF FetchNeeded, Repository
      <3>3. CASE d = c
        <4>1. LockRepository(c)
          BY <1>2, <2>2, <3>3 DEF Caller, Blocking, Reconcile, InitGitHubClient, LockCredential, Login,
            GetRepository, TryGetCredential, TryGetToken, CreateToken, CreateTenantCredential, Goto, Fail,
            Succeed, CallerTypes
        <4> QED
          BY <1>2, <3>1, <3>3, <4>1 DEF LockRepository, Goto, CallerTypes, Repository
      <3> QED
        BY <3>2, <3>3
    <2> QED
      BY <2>1, <2>2
  <1>3. CASE UNCHANGED vars
    BY <1>3 DEF FetchNeeded, Repository, vars, cacheVars, callerVars
  <1> QED
    BY <1>1, <1>2, <1>3 DEF Next, FetchNeeded

\* A credential is made only when the cache has none that is good.
LEMMA CredentialStaysNeeded ==
  ASSUME TypeOK, CredentialNeeded, [Next]_vars
  PROVE  CredentialNeeded'
  <1> USE TypeParts
  <1> DEFINE Section == {"token", "tokenAgain", "createToken", "bridge"}
  <1>1. CASE Tick
    <2> SUFFICES ASSUME NEW c \in Callers, pc'[c] \in Section
                 PROVE  ~(githubTenantCredentials'[request'[c]] > 0)
      BY DEF CredentialNeeded, Cached
    <2>1. pc[c] \in Section /\ request'[c] = request[c]
      BY <1>1 DEF Tick
    <2>2. request[c] \in Requests /\ ~(githubTenantCredentials[request[c]] > 0)
      BY <2>1, RequestType DEF CredentialNeeded, Cached
    <2>3. githubTenantCredentials'[request[c]] = Less(githubTenantCredentials[request[c]])
      BY <1>1, <2>2 DEF Tick
    <2> QED
      BY <2>1, <2>2, <2>3 DEF Less
  <1>2. ASSUME NEW c \in Callers, Caller(c), NEW d \in Callers, pc'[d] \in Section
        PROVE  ~Cached(request[d])'
    <2>1. CASE CreateTenantCredential(c)
      <3>1. mutex["credentials"] = c
        BY <2>1 DEF CreateTenantCredential, LockDiscipline
      <3>2. d # c
        BY <1>2, <2>1 DEF CreateTenantCredential, Goto, Fail, Succeed, CallerTypes
      <3> QED
        BY <1>2, <3>1, <3>2, OthersStay DEF LockDiscipline
    <2>2. CASE ~CreateTenantCredential(c)
      <3>1. UNCHANGED githubTenantCredentials
        BY <1>2, <2>2 DEF Caller, Blocking, Reconcile, InitGitHubClient, LockRepository, LockCredential, Login,
          GetRepository, FetchRepository, TryGetCredential, TryGetToken, CreateToken, cacheVars
      <3>2. CASE d # c
        BY <1>2, <3>1, <3>2, OthersStay DEF CredentialNeeded, Cached
      <3>3. CASE d = c /\ LockCredential(c)
        BY <1>2, <3>1, <3>3 DEF LockCredential, Goto, Succeed, CallerTypes, Cached
      <3>4. CASE d = c /\ ~LockCredential(c)
        <4>1. TryGetToken(c) \/ CreateToken(c)
          BY <1>2, <2>2, <3>4 DEF Caller, Blocking, Reconcile, InitGitHubClient, LockRepository, Login,
            GetRepository, FetchRepository, TryGetCredential, Goto, Fail, Succeed, CallerTypes
        <4>2. pc[c] \in Section /\ UNCHANGED request
          BY <4>1 DEF TryGetToken, CreateToken, Fail
        <4> QED
          BY <3>1, <3>4, <4>2 DEF CredentialNeeded, Cached
      <3> QED
        BY <3>2, <3>3, <3>4
    <2> QED
      BY <2>1, <2>2
  <1>3. CASE UNCHANGED vars
    BY <1>3 DEF CredentialNeeded, Cached, vars, cacheVars, callerVars
  <1> QED
    BY <1>1, <1>2, <1>3 DEF Next, CredentialNeeded

\* A token is made only when the cached one is absent, about to expire or used up.
LEMMA TokenStaysNeeded ==
  ASSUME TypeOK, TokenNeeded, [Next]_vars
  PROVE  TokenNeeded'
  <1> USE TypeParts
  <1>1. CASE Tick
    <2> SUFFICES ASSUME NEW c \in Callers, pc'[c] = "createToken"
                 PROVE  ~(githubTokens'[request'[c]].cached > 0 /\ TokenGood(githubTokens'[request'[c]]))
      BY DEF TokenNeeded
    <2>1. pc[c] = "createToken" /\ request'[c] = request[c]
      BY <1>1 DEF Tick
    <2> DEFINE t == githubTokens[request[c]]
    <2>2. request[c] \in Requests /\ t \in Tokens /\ ~(t.cached > 0 /\ TokenGood(t))
      BY <2>1, RequestType DEF TokenNeeded, CacheTypes
    <2>3. CASE t.cached <= 1
      <3>1. githubTokens'[request[c]] = NoToken
        BY <1>1, <2>2, <2>3 DEF Tick
      <3> QED
        BY <2>1, <3>1 DEF NoToken
    <2>4. CASE ~(t.cached <= 1)
      <3>1. githubTokens'[request[c]] = [t EXCEPT !.cached = Less(@), !.left = Less(@)]
        BY <1>1, <2>2, <2>4 DEF Tick
      <3>2. githubTokens'[request[c]].rate = t.rate /\ githubTokens'[request[c]].left = Less(t.left)
        BY <2>2, <3>1 DEF Tokens
      <3>3. t.left \in 0..TokenLife /\ t.cached \in 0..TokenCacheLife
        BY <2>2 DEF Tokens
      <3>4. ~TokenGood(t)
        BY <2>2, <2>4, <3>3, Lives
      <3> QED
        BY <2>1, <3>2, <3>3, <3>4, Lives DEF TokenGood, Less
    <2> QED
      BY <2>3, <2>4
  <1>2. ASSUME NEW c \in Callers, Caller(c), NEW d \in Callers, pc'[d] = "createToken"
        PROVE  ~(githubTokens'[request'[d]].cached > 0 /\ TokenGood(githubTokens'[request'[d]]))
    <2>1. CASE TryGetToken(c) \/ CreateToken(c)
      <3>1. mutex["credentials"] = c /\ UNCHANGED request
        BY <2>1 DEF TryGetToken, CreateToken, LockDiscipline, Fail
      <3>2. d = c
        BY <1>2, <3>1, OthersStay DEF LockDiscipline
      <3>3. TryGetToken(c)
        BY <1>2, <2>1, <3>2 DEF CreateToken, Goto, Fail, CallerTypes
      <3> DEFINE q == request[c]
      <3> DEFINE t == [githubTokens[q] EXCEPT !.rate = @ + 1]
      <3>4. q \in Requests /\ githubTokens[q] \in Tokens
        BY <3>3, RequestType DEF TryGetToken, CacheTypes
      <3>5. t.cached = githubTokens[q].cached
        BY <3>4 DEF Tokens
      <3>6. ~(githubTokens[q].cached > 0 /\ TokenGood(t))
        BY <1>2, <3>2, <3>3 DEF TryGetToken, Goto, CallerTypes
      <3>7. CASE githubTokens[q].cached > 0
        <4>1. githubTokens'[q] = t
          BY <3>3, <3>4, <3>6, <3>7 DEF TryGetToken, CacheTypes
        <4> QED
          BY <3>1, <3>2, <3>6, <3>7, <4>1
      <3>8. CASE ~(githubTokens[q].cached > 0)
        <4>1. githubTokens' = githubTokens
          BY <3>3, <3>8 DEF TryGetToken
        <4> QED
          BY <3>1, <3>2, <3>8, <4>1
      <3> QED
        BY <3>7, <3>8
    <2>2. CASE ~TryGetToken(c) /\ ~CreateToken(c)
      <3>1. UNCHANGED githubTokens
        BY <1>2, <2>2 DEF Caller, Blocking, Reconcile, InitGitHubClient, LockRepository, LockCredential, Login,
          GetRepository, FetchRepository, TryGetCredential, CreateTenantCredential, cacheVars
      <3>2. d # c
        BY <1>2, <2>2 DEF Caller, Blocking, Reconcile, InitGitHubClient, LockRepository, LockCredential, Login,
          GetRepository, FetchRepository, TryGetCredential, CreateTenantCredential, Goto, Fail, Succeed, CallerTypes
      <3> QED
        BY <1>2, <3>1, <3>2, OthersStay DEF TokenNeeded
    <2> QED
      BY <2>1, <2>2
  <1>3. CASE UNCHANGED vars
    BY <1>3 DEF TokenNeeded, vars, cacheVars, callerVars
  <1> QED
    BY <1>1, <1>2, <1>3 DEF Next, TokenNeeded

\* Callers that miss at the same time cause one fetch: whoever is in a critical section is
\* fetching what the cache does not have.
THEOREM FetchesNeeded == Spec => []NoRedundantFetch
  <1> DEFINE Needed == LoginNeeded /\ FetchNeeded /\ CredentialNeeded /\ TokenNeeded
  <1>1. Init => Needed
    BY DEF Init, LoginNeeded, FetchNeeded, CredentialNeeded, TokenNeeded
  <1>2. TypeOK /\ Needed /\ [Next]_vars => Needed'
    BY LoginStaysNeeded, FetchStaysNeeded, CredentialStaysNeeded, TokenStaysNeeded
  <1>3. Needed => NoRedundantFetch
    <2>1. Holding["credentials"] = {"token", "tokenAgain", "createToken", "bridge"}
      BY DEF Holding
    <2> QED
      BY <2>1 DEF LoginNeeded, FetchNeeded, CredentialNeeded, TokenNeeded, NoRedundantFetch
  <1> QED
    BY <1>1, <1>2, <1>3, TypeCorrect, PTL DEF Spec

=============================================================================
