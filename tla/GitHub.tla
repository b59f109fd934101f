------------------------------ MODULE GitHub ------------------------------
(***************************************************************************)
(* facades/gh.go: the GitHub client, repositories, tokens and credentials  *)
(* the reconcilers of a process share.  All are globals that expire: each  *)
(* is looked up, and, behind a mutex, looked up again and fetched.  Wires  *)
(* ask for a credential when they are initialised and destroyed; a         *)
(* reconciliation that gets an error is repeated.                          *)
(*                                                                         *)
(* An entry has the time it is still good for, in minutes of a coarse      *)
(* clock; the code keeps a client or a token that has more than one left.  *)
(***************************************************************************)
EXTENDS Naturals, FiniteSets

CONSTANTS
    GitHubPAT,         \* the client is made with a PAT
    Callers,           \* reconciliations under way at the same time
    Repositories,
    Forbidden,         \* repositories of other owners or visibilities
    Requests,          \* events and repositories of the ActionsRunners
    RateLimit,         \* how often a token may be used (60)
    ClientLife,        \* life of an installation token
    RepositoryLife,    \* life of an entry of githubRepositories
    TokenLife,         \* life of a registration or remove token
    TokenCacheLife,    \* life of an entry of the caches of tokens
    CredentialLife,    \* longest time a cached credential is used
    MaxTicks,          \* bound: time that passes
    MaxFaults,         \* bound: calls that fail
    None, Zero

ASSUME GitHubBounds ==
    /\ GitHubPAT \in BOOLEAN
    /\ Forbidden \subseteq Repositories /\ None \notin Callers \cup Requests
    /\ RateLimit \in Nat \ {0} /\ MaxTicks \in Nat /\ MaxFaults \in Nat
    /\ {ClientLife, TokenLife} \subseteq Nat \ {0, 1} /\ {RepositoryLife, TokenCacheLife, CredentialLife} \subseteq Nat \ {0}
    /\ None # Zero /\ {None, Zero} \cap Nat = {}

RunnerEvents == {"register", "remove"}

ASSUME RequestsAreEvents == Requests \subseteq RunnerEvents \X Repositories

VARIABLES
    githubClient,             \* time left of the client; Zero: it does not expire
    githubRepositories,       \* time left in the cache
    githubTokens,             \* githubRegistrationTokens and githubRemoveTokens
    githubTenantCredentials,  \* time left
    mutex,                    \* who holds each mutex
    pc,                       \* where each caller is
    request,                  \* what each caller wants
    bridge,                   \* time left of the token of the bridge client
    ticks, faults             \* budgets

cacheVars  == <<githubClient, githubRepositories, githubTokens, githubTenantCredentials>>
callerVars == <<pc, request, bridge>>
vars == <<cacheVars, mutex, callerVars, ticks, faults>>

Mutexes == {"client", "repositories", "credentials"}
Labels  == {"idle", "client", "login", "repository", "lockRepository", "fetch", "credential",
            "lockCredential", "token", "tokenAgain", "createToken", "bridge"}

\* uses is how often the token has been given to a caller.
Tokens  == [cached : 0..TokenCacheLife, left : 0..TokenLife, rate : Nat, uses : Nat]
NoToken == [cached |-> 0, left |-> 0, rate |-> 0, uses |-> 0]

\* The labels at which a caller holds each mutex
Holding == [client |-> {"login"}, repositories |-> {"fetch"},
            credentials |-> {"token", "tokenAgain", "createToken", "bridge"}]

\* Type correctness and lock discipline: whoever is in a critical section holds its mutex.
TypeOK ==
    /\ githubClient \in 0..ClientLife \cup {None, Zero}
    /\ githubRepositories \in [Repositories -> 0..RepositoryLife]
    /\ githubTokens \in [Requests -> Tokens]
    /\ githubTenantCredentials \in [Requests -> 0..CredentialLife]
    /\ mutex \in [Mutexes -> Callers \cup {None}]
    /\ pc \in [Callers -> Labels]
    /\ request \in [Callers -> Requests \cup {None}]
    /\ bridge \in 0..TokenLife
    /\ ticks \in 0..MaxTicks /\ faults \in 0..MaxFaults
    /\ \A c \in Callers : pc[c] = "idle" <=> request[c] = None
    /\ \A m \in Mutexes, c \in Callers : mutex[m] = c <=> pc[c] \in Holding[m]

Init ==
    /\ githubClient = None
    /\ githubRepositories = [r \in Repositories |-> 0]
    /\ githubTokens = [q \in Requests |-> NoToken]
    /\ githubTenantCredentials = [q \in Requests |-> 0]
    /\ mutex = [m \in Mutexes |-> None]
    /\ pc = [c \in Callers |-> "idle"]
    /\ request = [c \in Callers |-> None]
    /\ bridge = 0
    /\ ticks = 0 /\ faults = 0

-----------------------------------------------------------------------------

Goto(c, label) == pc' = [pc EXCEPT ![c] = label]
Lock(c, m)     == mutex[m] = None /\ mutex' = [mutex EXCEPT ![m] = c]
Unlock(m)      == mutex' = [mutex EXCEPT ![m] = None]
Fault          == faults < MaxFaults /\ faults' = faults + 1

\* The reconciliation returns an error and is repeated.
Fail(c) == Goto(c, "client") /\ UNCHANGED request

Repository(c) == request[c][2]

\* A call with the client answers unless the client has expired.
ClientWorks == githubClient \in 1..ClientLife \cup {Zero}

\* Variant: a client is kept.
ClientKeptForever == githubClient # None

\* initGitHubClient keeps a client that has more than a minute left.
ClientKept == githubClient \in 2..ClientLife \cup {Zero}

Cached(q) == githubTenantCredentials[q] > 0

\* A reconciliation wants a credential.
Reconcile(c) ==
    /\ pc[c] = "idle"
    /\ \E q \in Requests : request' = [request EXCEPT ![c] = q]
    /\ Goto(c, "client")
    /\ UNCHANGED <<cacheVars, mutex, bridge, ticks, faults>>

InitGitHubClient(c) ==
    /\ pc[c] = "client"
    /\ \/ /\ mutex["client"] = None /\ ClientKept
          /\ Goto(c, "repository") /\ UNCHANGED mutex
       \/ ~ClientKept /\ Lock(c, "client") /\ Goto(c, "login")
    /\ UNCHANGED <<cacheVars, request, bridge, ticks, faults>>

\* A client with a PAT, or with an installation token of the app, that answers
Login(c) ==
    /\ pc[c] = "login"
    /\ \/ /\ githubClient' = IF GitHubPAT THEN Zero ELSE ClientLife
          /\ Goto(c, "repository") /\ UNCHANGED <<request, faults>>
       \/ Fault /\ Fail(c) /\ UNCHANGED githubClient
    /\ Unlock("client")
    /\ UNCHANGED <<githubRepositories, githubTokens, githubTenantCredentials, bridge, ticks>>

GetRepository(c) ==
    /\ pc[c] = "repository"
    /\ Goto(c, IF githubRepositories[Repository(c)] > 0 THEN "credential" ELSE "lockRepository")
    /\ UNCHANGED <<cacheVars, mutex, request, bridge, ticks, faults>>

LockRepository(c) ==
    /\ pc[c] = "lockRepository"
    /\ \/ /\ githubRepositories[Repository(c)] > 0
          /\ mutex["repositories"] = None /\ UNCHANGED mutex
          /\ Goto(c, "credential")
       \/ /\ githubRepositories[Repository(c)] = 0
          /\ Lock(c, "repositories") /\ Goto(c, "fetch")
    /\ UNCHANGED <<cacheVars, request, bridge, ticks, faults>>

\* Variant: the repository is cached before its owner and visibility are looked at.
FetchRepositoryUnchecked(c) ==
    LET r == Repository(c) IN
    /\ pc[c] = "fetch"
    /\ \/ /\ ClientWorks
          /\ githubRepositories' = [githubRepositories EXCEPT ![r] = RepositoryLife]
          /\ IF r \in Forbidden THEN Fail(c) ELSE Goto(c, "credential") /\ UNCHANGED request
          /\ UNCHANGED faults
       \/ ~ClientWorks /\ Fail(c) /\ UNCHANGED <<githubRepositories, faults>>
       \/ Fault /\ Fail(c) /\ UNCHANGED githubRepositories
    /\ Unlock("repositories")
    /\ UNCHANGED <<githubClient, githubTokens, githubTenantCredentials, bridge, ticks>>

\* Variant: an error leaves the mutex locked.
FetchRepositoryLocked(c) ==
    LET r == Repository(c) IN
    /\ pc[c] = "fetch"
    /\ \/ /\ ClientWorks /\ r \notin Forbidden
          /\ githubRepositories' = [githubRepositories EXCEPT ![r] = RepositoryLife]
          /\ Goto(c, "credential") /\ Unlock("repositories") /\ UNCHANGED <<request, faults>>
       \/ /\ ~ClientWorks \/ r \in Forbidden
          /\ Fail(c) /\ UNCHANGED <<githubRepositories, mutex, faults>>
       \/ Fault /\ Fail(c) /\ UNCHANGED <<githubRepositories, mutex>>
    /\ UNCHANGED <<githubClient, githubTokens, githubTenantCredentials, bridge, ticks>>

\* Only a repository of an allowed owner and visibility is cached.
FetchRepository(c) ==
    LET r == Repository(c) IN
    /\ pc[c] = "fetch"
    /\ \/ /\ ClientWorks /\ r \notin Forbidden
          /\ githubRepositories' = [githubRepositories EXCEPT ![r] = RepositoryLife]
          /\ Goto(c, "credential") /\ UNCHANGED <<request, faults>>
       \/ /\ ~ClientWorks \/ r \in Forbidden
          /\ Fail(c) /\ UNCHANGED <<githubRepositories, faults>>
       \/ Fault /\ Fail(c) /\ UNCHANGED githubRepositories
    /\ Unlock("repositories")
    /\ UNCHANGED <<githubClient, githubTokens, githubTenantCredentials, bridge, ticks>>

-----------------------------------------------------------------------------
(* GetGitHubTenantCredential, gh.go 589-639.                               *)

Succeed(c) == Goto(c, "idle") /\ request' = [request EXCEPT ![c] = None]

TryGetCredential(c) ==
    /\ pc[c] = "credential"
    /\ \/ Cached(request[c]) /\ Succeed(c)
       \/ ~Cached(request[c]) /\ Goto(c, "lockCredential") /\ UNCHANGED request
    /\ UNCHANGED <<cacheVars, mutex, bridge, ticks, faults>>

\* Variant: not looked up again.
LockCredentialAtOnce(c) ==
    /\ pc[c] = "lockCredential"
    /\ Lock(c, "credentials") /\ Goto(c, "token") /\ UNCHANGED request
    /\ UNCHANGED <<cacheVars, bridge, ticks, faults>>

\* The mutex is held until the credential is there, so the mutexes of the tokens, which are
\* taken inside, are free.
LockCredential(c) ==
    /\ pc[c] = "lockCredential"
    /\ \/ /\ Cached(request[c])
          /\ mutex["credentials"] = None /\ UNCHANGED mutex
          /\ Succeed(c)
       \/ /\ ~Cached(request[c])
          /\ Lock(c, "credentials") /\ Goto(c, "token") /\ UNCHANGED request
    /\ UNCHANGED <<cacheVars, bridge, ticks, faults>>

\* Variant: one use too many.
TokenGoodOnceMore(t) == t.rate <= RateLimit /\ t.left > 1

\* t.rate counts this lookup.
TokenGood(t) == t.rate < RateLimit /\ t.left > 1

\* tryGetGitHubRegistrationToken and tryGetGitHubRemoveToken, called twice: every lookup
\* that finds the container counts.
TryGetToken(c) ==
    LET q     == request[c]
        found == githubTokens[q].cached > 0
        t     == [githubTokens[q] EXCEPT !.rate = @ + 1]
    IN  /\ pc[c] \in {"token", "tokenAgain"}
        /\ \/ /\ found /\ TokenGood(t)
              /\ githubTokens' = [githubTokens EXCEPT ![q] = [t EXCEPT !.uses = @ + 1]]
              /\ bridge' = t.left
              /\ Goto(c, "bridge")
           \/ /\ ~(found /\ TokenGood(t))
              /\ githubTokens' = IF found THEN [githubTokens EXCEPT ![q] = t] ELSE githubTokens
              /\ Goto(c, IF pc[c] = "token" THEN "tokenAgain" ELSE "createToken")
              /\ UNCHANGED bridge
        /\ UNCHANGED <<githubClient, githubRepositories, githubTenantCredentials>>
        /\ UNCHANGED <<mutex, request, ticks, faults>>

CreateToken(c) ==
    /\ pc[c] = "createToken"
    /\ \/ /\ ClientWorks
          /\ githubTokens' = [githubTokens EXCEPT ![request[c]] =
                [cached |-> TokenCacheLife, left |-> TokenLife, rate |-> 0, uses |-> 1]]
          /\ bridge' = TokenLife
          /\ Goto(c, "bridge")
          /\ UNCHANGED <<request, mutex, faults>>
       \/ /\ (~ClientWorks /\ UNCHANGED faults) \/ Fault
          /\ Fail(c) /\ Unlock("credentials")
          /\ UNCHANGED <<githubTokens, bridge>>
    /\ UNCHANGED <<githubClient, githubRepositories, githubTenantCredentials, ticks>>

\* The calls of the bridge client; the credential is good for some time.
CreateTenantCredential(c) ==
    /\ pc[c] = "bridge"
    /\ \/ /\ bridge > 0
          /\ \E life \in 1..CredentialLife :
               githubTenantCredentials' = [githubTenantCredentials EXCEPT ![request[c]] = life]
          /\ Succeed(c)
          /\ UNCHANGED faults
       \/ /\ (bridge = 0 /\ UNCHANGED faults) \/ Fault
          /\ Fail(c) /\ UNCHANGED githubTenantCredentials
    /\ Unlock("credentials")
    /\ bridge' = 0
    /\ UNCHANGED <<githubClient, githubRepositories, githubTokens, ticks>>

Less(n) == IF n > 0 THEN n - 1 ELSE 0

\* Time passes, also while a caller waits for a mutex or an answer.
Tick ==
    /\ ticks < MaxTicks /\ ticks' = ticks + 1
    /\ githubClient' = IF githubClient \in {None, Zero} THEN githubClient ELSE Less(githubClient)
    /\ githubRepositories' = [r \in Repositories |-> Less(githubRepositories[r])]
    /\ githubTokens' = [q \in Requests |->
         IF githubTokens[q].cached <= 1 THEN NoToken
         ELSE [githubTokens[q] EXCEPT !.cached = Less(@), !.left = Less(@)]]
    /\ githubTenantCredentials' = [q \in Requests |-> Less(githubTenantCredentials[q])]
    /\ bridge' = Less(bridge)
    /\ UNCHANGED <<mutex, pc, request, faults>>

Blocking(c) == InitGitHubClient(c) \/ LockRepository(c) \/ LockCredential(c)

Caller(c) ==
    \/ Reconcile(c) \/ Blocking(c) \/ Login(c) \/ GetRepository(c) \/ FetchRepository(c)
    \/ TryGetCredential(c) \/ TryGetToken(c) \/ CreateToken(c) \/ CreateTenantCredential(c)

Next == Tick \/ \E c \in Callers : Caller(c)

Spec == Init /\ [][Next]_vars

\* Calls answer in the end, and errors are retried; a Go mutex is given to whoever has waited
\* too long.
Fairness ==
    \A c \in Callers : WF_vars(Caller(c)) /\ SF_vars(Blocking(c))

FairSpec == Spec /\ Fairness

-----------------------------------------------------------------------------
(* Properties.                                                             *)

\* No token is used more often than the rate limit allows, however many callers look it up
\* and fail: the counter starts again with a new token only.
TokenWithinLimit == \A q \in Requests : githubTokens[q].uses <= RateLimit

\* A credential is asked for only if the repository passed the checks of owner and visibility,
\* also when another caller put it in the cache.
OnlyAllowedRepositories ==
    \A c \in Callers :
        pc[c] \notin {"idle", "client", "login", "repository", "lockRepository", "fetch"} =>
            Repository(c) \notin Forbidden

\* Only what the caches do not have is fetched: callers that miss at the same time cause one
\* login, one fetch, one token and one credential.
NoRedundantFetch ==
    \A c \in Callers :
        /\ pc[c] = "login" => ~ClientKept
        /\ pc[c] = "fetch" => githubRepositories[Repository(c)] = 0
        /\ pc[c] \in Holding["credentials"] => ~Cached(request[c])
        /\ pc[c] = "createToken" =>
              ~(githubTokens[request[c]].cached > 0 /\ TokenGood(githubTokens[request[c]]))

\* Whoever wants a credential of an allowed repository gets it, although clients, tokens and
\* credentials expire while it waits for others.
CredentialObtained ==
    \A c \in Callers :
        request[c] # None /\ Repository(c) \notin Forbidden ~> request[c] = None

=============================================================================
