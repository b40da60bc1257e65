---------------------------- MODULE OAuthSession ----------------------------
(***************************************************************************)
(* GoogleOAuthClient of packages/google-drive/src/auth/oauth-client.ts,    *)
(* the token storage that its callers share, and the authenticated,        *)
(* retried requests of DriveHttpClient.request that live on it.  A call is *)
(* suspended at each fetch, and what it read of the storage before may be  *)
(* out of date when it writes the storage after.                           *)
(***************************************************************************)
EXTENDS Naturals

CONSTANTS
  Caller,      \* the calls that may be under way at once
  Grant,       \* the consents a user gives, one authorization code each
  MaxRetries,  \* of one request: 3 in the code
  MaxTokens,   \* bound: how many access tokens Google issues
  None         \* no session

ASSUME RetriesAssumption == MaxRetries \in Nat
ASSUME TokensAssumption == MaxTokens \in Nat \ {0}

VARIABLES
  session,   \* what the storage holds
  call,      \* what each caller is at
  honoured,  \* the refresh token Google honours for each grant, 0: none
  issued,    \* tokens are numbered as Google issues them
  aged,      \* those up to this one expired, or will within a minute
  rotates,   \* each refresh replaces the refresh token, or none does
  mishap     \* history: something that may end a grant happened

google == <<honoured, issued, aged, rotates>>
vars == <<session, call, google, mishap>>

\* dated says whether the session has an expiresAt: Google need not send an
\* expires_in, and the application need not give one.
Session ==
  [grant : Grant, access : 1..MaxTokens, refresh : 0..MaxTokens, dated : BOOLEAN]

ASSUME NoneAssumption == None \notin Session

\* attempt is 0 for a call that is no request of the Drive API; using is what
\* the call read of the storage; fresh is the session that came with a reply.
\* History: overlapped says that the storage was cleared during the attempt.
Call ==
  [pc : {"idle", "exchange", "refresh", "send", "revoke"},
   attempt : 0..(MaxRetries + 1),
   using : {None} \cup Session,
   reply : {"none", "ok", "denied", "unavailable"},
   fresh : {None} \cup Session,
   overlapped : BOOLEAN]

Idle == [pc |-> "idle", attempt |-> 0, using |-> None, reply |-> "none",
         fresh |-> None, overlapped |-> FALSE]

\* The client starts with no session, or with one that the application kept.
Init ==
  /\ call = [c \in Caller |-> Idle]
  /\ aged = 0 /\ rotates \in BOOLEAN /\ mishap = FALSE
  /\ \/ session = None /\ issued = 0 /\ honoured = [g \in Grant |-> 0]
     \/ \E g \in Grant, dated \in BOOLEAN :
          /\ session = [grant |-> g, access |-> 1, refresh |-> 1, dated |-> dated]
          /\ issued = 1
          /\ honoured = [h \in Grant |-> IF h = g THEN 1 ELSE 0]

-----------------------------------------------------------------------------
(* The callers.                                                            *)

Become(c, next) == call' = [call EXCEPT ![c] = next]

\* The call waits for a fetch of this kind, made with this session.
Await(label, with, n) ==
  [Idle EXCEPT !.pc = label, !.using = with, !.attempt = n]

\* A session without an expiresAt is never taken for expired, however old it is.
Expired == session.dated /\ session.access <= aged

\* A token that is not taken for expired is used; otherwise it is renewed, if
\* the session says how; otherwise the call is rejected.
GetAccessToken(n) ==
  IF session = None THEN Idle
  ELSE IF ~Expired THEN Await("send", session, n)
  ELSE IF session.refresh # 0 THEN Await("refresh", session, n)
  ELSE Idle

\* DriveHttpClient.request: each attempt asks for a token of its own.
Request(c) ==
  /\ call[c].pc = "idle"
  /\ Become(c, GetAccessToken(1))
  /\ UNCHANGED <<session, google, mishap>>

CanRetry(c) == call[c].reply = "unavailable" /\ call[c].attempt \in 1..MaxRetries

\* Mutant: the session is read once, outside the retries.
RetryKeepsSessionMutant(c) ==
  /\ CanRetry(c)
  /\ Become(c, Await(call[c].pc, call[c].using, call[c].attempt + 1))
  /\ UNCHANGED <<session, google, mishap>>

\* Mutant: one attempt more than maxRetries allows.
RetryOnceMoreMutant(c) ==
  /\ call[c].reply = "unavailable" /\ call[c].attempt \in 1..(MaxRetries + 1)
  /\ Become(c, GetAccessToken(call[c].attempt + 1))
  /\ UNCHANGED <<session, google, mishap>>

\* withRetry: after 429 and 5xx of the API and of the token endpoint alike.
Retry(c) ==
  /\ CanRetry(c)
  /\ Become(c, GetAccessToken(call[c].attempt + 1))
  /\ UNCHANGED <<session, google, mishap>>

\* refreshAccessToken, called by the application.
Refresh(c) ==
  /\ call[c].pc = "idle"
  /\ session # None /\ session.refresh # 0
  /\ Become(c, Await("refresh", session, 0))
  /\ UNCHANGED <<session, google, mishap>>

ExchangeCode(c) ==
  /\ call[c].pc = "idle"
  /\ Become(c, Await("exchange", None, 0))
  /\ UNCHANGED <<session, google, mishap>>

\* Mutant: the answer's refresh token is not looked at.
OnTokensNoRotationMutant(c) ==
  /\ call[c].fresh # None
  /\ session' = IF call[c].pc = "refresh"
                  THEN [call[c].fresh EXCEPT !.refresh = call[c].using.refresh]
                  ELSE call[c].fresh
  /\ Become(c, IF call[c].attempt = 0 THEN Idle
               ELSE [call[c] EXCEPT !.pc = "send", !.using = call[c].fresh,
                                    !.reply = "none", !.fresh = None])
  /\ UNCHANGED <<google, mishap>>

\* The session is stored, whatever the storage holds by now.
OnTokens(c) ==
  /\ call[c].fresh # None
  /\ session' = call[c].fresh
  /\ Become(c, IF call[c].attempt = 0 THEN Idle
               ELSE [call[c] EXCEPT !.pc = "send", !.using = call[c].fresh,
                                    !.reply = "none", !.fresh = None])
  /\ UNCHANGED <<google, mishap>>

\* The call ends with the answer of the API, or with an error.
Return(c) ==
  /\ call[c].pc \in {"send", "exchange", "refresh"}
  /\ call[c].reply # "none" /\ call[c].fresh = None /\ ~CanRetry(c)
  /\ Become(c, Idle)
  /\ UNCHANGED <<session, google, mishap>>

Revoke(c) ==
  /\ call[c].pc = "idle"
  /\ Become(c, Await("revoke", session, 0))
  /\ mishap' = TRUE
  /\ UNCHANGED <<session, google>>

\* "Revocation network errors should not prevent local session cleanup."
OnRevoked(c) ==
  /\ call[c].pc = "revoke" /\ (call[c].using = None \/ call[c].reply # "none")
  /\ session' = None
  /\ call' = [d \in Caller |->
                IF d = c THEN Idle
                ELSE [call[d] EXCEPT !.overlapped = call[d].pc # "idle"]]
  /\ UNCHANGED <<google, mishap>>

\* The application puts back a session that it kept, perhaps an old one.
SetSession ==
  /\ ~mishap
  /\ \E g \in Grant, a \in 1..issued, dated \in BOOLEAN :
       session' = [grant |-> g, access |-> a, refresh |-> honoured[g], dated |-> dated]
  /\ mishap' = TRUE
  /\ UNCHANGED <<call, google>>

\* The process restarts: the memory storage is empty; the file is as it was,
\* or cannot be read because the crash hit a write.
Crash ==
  /\ ~mishap
  /\ session' \in {session, None}
  /\ call' = [c \in Caller |-> Idle]
  /\ mishap' = TRUE
  /\ UNCHANGED google

-----------------------------------------------------------------------------
(* Google.                                                                 *)

\* Only a request tells the kinds of failures apart.
Failures(c) == IF call[c].attempt = 0 THEN {"denied"} ELSE {"denied", "unavailable"}

Answer(c, r, s) == Become(c, [call[c] EXCEPT !.reply = r, !.fresh = s])

\* Tokens are issued; the answer may be lost.
Issue(c, g, refresh) ==
  /\ issued < MaxTokens
  /\ issued' = issued + 1
  /\ honoured' = [honoured EXCEPT ![g] = refresh]
  /\ \/ /\ \E dated \in BOOLEAN :
             Answer(c, "ok", [grant |-> g, access |-> issued + 1, refresh |-> refresh,
                              dated |-> dated])
        /\ UNCHANGED mishap
     \/ /\ \E r \in Failures(c) : Answer(c, r, None)
        /\ mishap' = TRUE
  /\ UNCHANGED <<session, aged, rotates>>

\* A consent may come without a refresh token.
Consent(c) ==
  /\ call[c].pc = "exchange" /\ call[c].reply = "none"
  /\ \E g \in Grant, refresh \in {0, issued + 1} : honoured[g] = 0 /\ Issue(c, g, refresh)

Renew(c) ==
  /\ call[c].pc = "refresh" /\ call[c].reply = "none"
  /\ honoured[call[c].using.grant] = call[c].using.refresh
  /\ Issue(c, call[c].using.grant, IF rotates THEN issued + 1 ELSE call[c].using.refresh)

EndGrant(c) ==
  /\ call[c].pc = "revoke" /\ call[c].reply = "none" /\ call[c].using # None
  /\ honoured' = [honoured EXCEPT ![call[c].using.grant] = 0]
  /\ \E r \in {"ok", "denied"} : Answer(c, r, None)
  /\ UNCHANGED <<session, issued, aged, rotates, mishap>>

ServeRequest(c) ==
  /\ call[c].pc = "send" /\ call[c].reply = "none"
  /\ Answer(c, "ok", None)
  /\ UNCHANGED <<session, google, mishap>>

\* Any request may be refused, throttled or lost.
Refuse(c) ==
  /\ call[c].pc # "idle" /\ call[c].reply = "none"
  /\ \E r \in Failures(c) : Answer(c, r, None)
  /\ UNCHANGED <<session, google, mishap>>

\* Time passes: all that was issued so far comes to its end.
Age ==
  /\ aged < issued /\ aged' = issued
  /\ UNCHANGED <<session, call, honoured, issued, rotates, mishap>>

Google(c) ==
  \/ Consent(c)
  \/ Renew(c)
  \/ EndGrant(c)
  \/ ServeRequest(c)
  \/ Refuse(c)

Resume(c) ==
  \/ Retry(c)
  \/ OnTokens(c)
  \/ Return(c)
  \/ OnRevoked(c)

Start(c) ==
  \/ Request(c)
  \/ Refresh(c)
  \/ ExchangeCode(c)
  \/ Revoke(c)

Next ==
  \/ \E c \in Caller : Start(c) \/ Resume(c) \/ Google(c)
  \/ SetSession
  \/ Crash
  \/ Age

Spec == Init /\ [][Next]_vars

-----------------------------------------------------------------------------
(* Properties.                                                             *)

TypeOK ==
  /\ session \in {None} \cup Session
  /\ call \in [Caller -> Call]
  /\ honoured \in [Grant -> 0..MaxTokens]
  /\ issued \in 0..MaxTokens /\ aged \in 0..issued
  /\ rotates \in BOOLEAN /\ mishap \in BOOLEAN

Leaves(c) ==
  /\ call[c].pc # "send" \/ call[c].reply # "none"
  /\ call'[c].pc = "send" /\ call'[c].reply = "none"

\* Every attempt of a request, the retried ones too, leaves with a token that
\* was just issued, or with the one that the storage holds at that moment, and
\* then outside the safety margin.  The exception is a session that does not say
\* when it ends (no expiresAt): its token is sent however old it is.
FreshToken ==
  [][\A c \in Caller :
       Leaves(c) =>
         \/ call'[c].using = call[c].fresh
         \/ /\ call'[c].using = session
            /\ session.access > aged \/ ~session.dated]_vars

\* After revoke() cleared the storage, a refresh does not bring a session back
\* unless its attempt was under way at that moment.
StaysRevoked ==
  [][\A c \in Caller :
       session = None /\ call[c].pc = "refresh" /\ OnTokens(c) => call[c].overlapped]_vars

\* However refreshes and exchanges overlap, the user is not locked out: Google
\* honours the refresh token in the storage, or a call that is about to store
\* a newer one has it.
Refreshable ==
  ~mishap /\ session # None =>
    \/ session.refresh \in {0, honoured[session.grant]}
    \/ \E c \in Caller :
         /\ call[c].fresh # None
         /\ call[c].fresh.grant = session.grant
         /\ call[c].fresh.refresh = honoured[session.grant]

=============================================================================
