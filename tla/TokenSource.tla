----------------------------- MODULE TokenSource -----------------------------
(***************************************************************************)
(* kubeauth/token.go: the short-lived token of a delegated service         *)
(* account, shared by all requests of a process.  Token() holds the mutex  *)
(* while it asks the API server, so time passes under the lock; a response *)
(* of 401 invalidates the token that the request carried, possibly long    *)
(* after another request has replaced it.                                  *)
(***************************************************************************)
EXTENDS Naturals, FiniteSets

CONSTANTS
    Clients,     \* concurrent requests
    Lifetime,    \* the longest life of an issued token, in ticks (600 s)
    RetryDelay,  \* ticks until a failed refresh is tried again (15 s)
    MaxTokens,   \* bound on the tokens issued
    MaxTime,     \* bound on the clock
    Nobody

ASSUME TokenSourceAssumption ==
    /\ Lifetime \in Nat \ {0} /\ RetryDelay \in Nat \ {0}
    /\ MaxTokens \in Nat /\ MaxTime \in Nat
    /\ Nobody \notin Clients

VARIABLES
    now,      \* the clock
    source,   \* s.token (0 when empty), s.expires, s.refresh
    holder,   \* the client inside Token(), waiting for the API server
    request,  \* the requests of the clients
    issued,   \* tokens issued so far
    revoked,  \* tokens the API server no longer accepts
    refused   \* history: tokens answered with 401

tokenVars == <<now, source, holder, request, issued, revoked, refused>>

NoRequest == [phase |-> "idle", token |-> 0, expires |-> 0]
Carrying(token, expires) == [phase |-> "sent", token |-> token, expires |-> expires]

-----------------------------------------------------------------------------
Tick ==
    /\ now < MaxTime
    /\ now' = now + 1
    /\ UNCHANGED <<source, holder, request, issued, revoked, refused>>

\* The API server stops accepting what it issued, for example because the account was
\* created anew.
Revoke ==
    /\ revoked # 1..issued
    /\ revoked' = 1..issued
    /\ UNCHANGED <<now, source, holder, request, issued, refused>>

-----------------------------------------------------------------------------
\* a token that is there and not expired
StillValid == source.token # 0 /\ now < source.expires

Attach(c) == request' = [request EXCEPT ![c] = Carrying(source.token, source.expires)]

\* Token(), while the refresh is not due
CachedToken(c) ==
    /\ request[c].phase = "idle" /\ holder = Nobody
    /\ StillValid /\ now < source.refresh
    /\ Attach(c)
    /\ UNCHANGED <<now, source, holder, issued, revoked, refused>>

\* Token(), when it is: the TokenRequest is sent, the mutex stays locked.
BeginRefresh(c) ==
    /\ request[c].phase = "idle" /\ holder = Nobody
    /\ ~(StillValid /\ now < source.refresh)
    /\ holder' = c
    /\ UNCHANGED <<now, source, request, issued, revoked, refused>>

\* A token with some time to live is returned; it is due at four fifths of it.
Refreshed(c) ==
    /\ holder = c /\ issued < MaxTokens
    /\ \E life \in 1..Lifetime :
         /\ source' = [token |-> issued + 1, expires |-> now + life,
                       refresh |-> now + (life * 4) \div 5]
         /\ request' = [request EXCEPT ![c] = Carrying(issued + 1, now + life)]
    /\ issued' = issued + 1
    /\ holder' = Nobody
    /\ UNCHANGED <<now, revoked, refused>>

\* An error, or an empty or expired token: the credential that is still valid is used,
\* without one the request fails.
RefreshFailed(c) ==
    /\ holder = c
    /\ source' = [source EXCEPT !.refresh = now + RetryDelay]
    /\ IF StillValid THEN Attach(c) ELSE UNCHANGED request
    /\ holder' = Nobody
    /\ UNCHANGED <<now, issued, revoked, refused>>

-----------------------------------------------------------------------------
\* The API server answers; the answer is on its way.
Answer(c) ==
    /\ request[c].phase = "sent"
    /\ LET accepted == request[c].token \notin revoked /\ now < request[c].expires IN
       IF accepted
         THEN /\ request' = [request EXCEPT ![c] = NoRequest]
              /\ UNCHANGED refused
         ELSE /\ request' = [request EXCEPT ![c].phase = "refused"]
              /\ refused' = refused \cup {request[c].token}
    /\ UNCHANGED <<now, source, holder, issued, revoked>>

\* Seeded defect: whatever token is there is discarded.
ForgetAny(token) == [source EXCEPT !.token = 0]

\* Invalidate
Forget(token) ==
    IF token = source.token THEN [source EXCEPT !.token = 0] ELSE source

\* The 401 arrives, once the mutex is free.
Invalidate(c) ==
    /\ request[c].phase = "refused" /\ holder = Nobody
    /\ source' = Forget(request[c].token)
    /\ request' = [request EXCEPT ![c] = NoRequest]
    /\ UNCHANGED <<now, holder, issued, revoked, refused>>

-----------------------------------------------------------------------------
TokenInit ==
    /\ now = 0
    /\ source = [token |-> 0, expires |-> 0, refresh |-> 0]
    /\ holder = Nobody
    /\ request = [c \in Clients |-> NoRequest]
    /\ issued = 0
    /\ revoked = {}
    /\ refused = {}

TokenNext ==
    \/ Tick \/ Revoke
    \/ \E c \in Clients :
         \/ CachedToken(c) \/ BeginRefresh(c) \/ Refreshed(c) \/ RefreshFailed(c)
         \/ Answer(c) \/ Invalidate(c)

TokenSpec == TokenInit /\ [][TokenNext]_tokenVars

-----------------------------------------------------------------------------
\* A late 401 never costs another request its credential: the source only loses a
\* token that the API server itself refused, and a failed refresh loses none.
OnlyRefusedIsDropped ==
    [][source.token # 0 /\ source'.token # source.token
       => source.token \in refused \/ source'.token = issued']_tokenVars
=============================================================================
