----------------------------- MODULE OAuthProofs -----------------------------
(***************************************************************************)
(* Theorems about OAuthSession, for any number of callers, grants, retries *)
(* and tokens.                                                             *)
(***************************************************************************)
EXTENDS OAuthSession, TLAPS

\* What the place of a call says of it.
CallInv ==
  \A c \in Caller :
    /\ call[c].pc = "refresh" => call[c].using # None /\ call[c].using.refresh # 0
    /\ call[c].fresh # None => call[c].reply = "ok" /\ call[c].pc \in {"exchange", "refresh"}
    /\ call[c].pc = "revoke" => mishap = TRUE
    /\ call[c].pc = "refresh" /\ session = None => call[c].overlapped = TRUE

\* Tokens are numbered in the order in which they are issued.
Numbered ==
  /\ \A g \in Grant : honoured[g] <= issued
  /\ session # None => session.refresh <= issued
  /\ \A c \in Caller :
       /\ call[c].using # None => call[c].using.refresh <= issued
       /\ call[c].fresh # None => call[c].fresh.refresh <= issued

\* A session on its way has the token that is honoured.
FreshInv ==
  ~mishap => \A c \in Caller :
    call[c].fresh # None => call[c].fresh.refresh \in {0, honoured[call[c].fresh.grant]}

Newest(c, g) ==
  call[c].fresh # None /\ call[c].fresh.grant = g /\ call[c].fresh.refresh = honoured[g]

\* The session has the token that is honoured, or the one who has it will
\* store it.
SessionInv ==
  ~mishap /\ session # None /\ session.refresh # 0 =>
    /\ honoured[session.grant] # 0
    /\ \/ session.refresh = honoured[session.grant]
       \/ \E c \in Caller : Newest(c, session.grant)

\* Where tokens rotate, one on its way is nowhere else: no call can use it.
Unique ==
  ~mishap /\ rotates => \A c \in Caller :
    call[c].fresh # None /\ call[c].fresh.refresh # 0 =>
      /\ session # None => session.refresh # call[c].fresh.refresh
      /\ \A d \in Caller :
           /\ d # c /\ call[d].fresh # None => call[d].fresh.refresh # call[c].fresh.refresh
           /\ call[d].pc = "refresh" => call[d].using.refresh # call[c].fresh.refresh

IInv == TypeOK /\ CallInv /\ Numbered /\ FreshInv /\ SessionInv /\ Unique

-----------------------------------------------------------------------------
(* Steps that change one call and nothing else.                            *)

\* What such a step may make of the call of c.
Quiet(c, next) ==
  /\ call[c].fresh = None /\ next \in Call /\ next.fresh = None
  /\ next.using \in {None, session, call[c].using}
  /\ next.pc = "revoke" => mishap' = TRUE
  /\ next.pc = "refresh" =>
       \/ session # None /\ session.refresh # 0 /\ next.using = session
       \/ call[c].pc = "refresh" /\ next.using = call[c].using
            /\ next.overlapped = call[c].overlapped

\* A call becomes another call.
LEMMA Becomes ==
  ASSUME TypeOK, NEW c \in Caller, NEW next \in Call, Become(c, next)
  PROVE  /\ call' \in [Caller -> Call]
         /\ \A d \in Caller : call'[d] = IF d = c THEN next ELSE call[d]
  BY DEF TypeOK, Become

\* Such a step keeps the invariant.
LEMMA QuietStep ==
  ASSUME IInv, NEW c \in Caller, NEW next, Quiet(c, next), Become(c, next),
         UNCHANGED <<session, honoured, issued, aged, rotates>>,
         mishap' \in BOOLEAN, mishap => mishap'
  PROVE  IInv'
<1>1. /\ call' \in [Caller -> Call]
      /\ \A d \in Caller : call'[d] = IF d = c THEN next ELSE call[d]
  BY Becomes DEF IInv, Quiet
<1>2. TypeOK'
  BY <1>1 DEF IInv, TypeOK
<1>3. CallInv'
  BY <1>1 DEF IInv, CallInv, Quiet
<1>4. Numbered'
  BY <1>1 DEF IInv, Numbered, Quiet
<1>5. FreshInv'
  BY <1>1 DEF IInv, FreshInv, Quiet
<1>6. SessionInv'
  BY <1>1 DEF IInv, SessionInv, Newest, Quiet
<1>7. Unique'
  BY <1>1 DEF IInv, Unique, Quiet
<1> QED
  BY <1>2, <1>3, <1>4, <1>5, <1>6, <1>7 DEF IInv

\* What a call that waits for a fetch is.
LEMMA Awaits ==
  ASSUME NEW label \in {"exchange", "refresh", "send", "revoke"},
         NEW with \in {None} \cup Session, NEW n \in 0..(MaxRetries + 1)
  PROVE  /\ Await(label, with, n) \in Call
         /\ Await(label, with, n).pc = label
         /\ Await(label, with, n).using = with
         /\ Await(label, with, n).fresh = None
  BY DEF Await, Idle, Call

\* getAccessToken leaves the call idle, or gives it the stored session.
LEMMA AccessToken ==
  ASSUME IInv, NEW c \in Caller, NEW n \in 0..(MaxRetries + 1), call[c].fresh = None
  PROVE  Quiet(c, GetAccessToken(n))
<1> DEFINE send    == Await("send", session, n)
           refresh == Await("refresh", session, n)
<1>1. Quiet(c, Idle)
  BY RetriesAssumption DEF Quiet, Idle, Call
<1>2. ASSUME session # None  PROVE Quiet(c, send)
  BY <1>2, Awaits DEF IInv, TypeOK, Quiet
<1>3. ASSUME session # None, session.refresh # 0  PROVE Quiet(c, refresh)
  BY <1>3, Awaits DEF IInv, TypeOK, Quiet
<1> HIDE DEF send, refresh
<1>4. GetAccessToken(n) \in {Idle, send, refresh}
      /\ (GetAccessToken(n) = send \/ GetAccessToken(n) = Idle \/ (session # None /\ session.refresh # 0))
      /\ (session = None => GetAccessToken(n) = Idle)
  BY DEF GetAccessToken, Expired, send, refresh
<1> QED
  BY <1>1, <1>2, <1>3, <1>4

\* The steps of a caller up to its next fetch, and the answers without tokens.
LEMMA QuietActions ==
  ASSUME IInv, NEW c \in Caller,
         \/ Request(c) \/ Retry(c) \/ Refresh(c) \/ ExchangeCode(c) \/ Return(c)
         \/ Revoke(c) \/ ServeRequest(c) \/ Refuse(c)
  PROVE  IInv'
<1> USE RetriesAssumption
<1>0. call[c] \in Call /\ Idle \in Call
  BY DEF IInv, TypeOK, Idle, Call
<1>f. call[c].reply # "ok" \/ call[c].pc \notin {"exchange", "refresh"} => call[c].fresh = None
  BY DEF IInv, CallInv
<1>1. CASE Request(c)
  <2>1. 1 \in 0..(MaxRetries + 1) /\ call[c].fresh = None
    BY <1>1, <1>f DEF Request
  <2>2. Quiet(c, GetAccessToken(1))
    BY <2>1, AccessToken
  <2> QED
    BY <1>1, <2>2, QuietStep DEF Request, google, IInv, TypeOK
<1>2. CASE Retry(c)
  <2>1. call[c].attempt + 1 \in 0..(MaxRetries + 1) /\ call[c].fresh = None
    BY <1>2, <1>f DEF Retry, CanRetry
  <2>2. Quiet(c, GetAccessToken(call[c].attempt + 1))
    BY <2>1, AccessToken
  <2> QED
    BY <1>2, <2>2, QuietStep DEF Retry, google, IInv, TypeOK
<1>3. CASE Refresh(c)
  <2>1. Quiet(c, Await("refresh", session, 0))
    BY <1>3, <1>f, Awaits, 0 \in 0..(MaxRetries + 1) DEF Refresh, Quiet, IInv, TypeOK
  <2> QED
    BY <1>3, <2>1, QuietStep DEF Refresh, google, IInv, TypeOK
<1>4. CASE ExchangeCode(c)
  <2>1. Quiet(c, Await("exchange", None, 0))
    BY <1>4, <1>f, Awaits, 0 \in 0..(MaxRetries + 1) DEF ExchangeCode, Quiet
  <2> QED
    BY <1>4, <2>1, QuietStep DEF ExchangeCode, google, IInv, TypeOK
<1>5. CASE Return(c)
  <2>1. Quiet(c, Idle)
    BY <1>5, <1>0 DEF Return, Quiet, Idle
  <2> QED
    BY <1>5, <2>1, QuietStep DEF Return, google, IInv, TypeOK
<1>6. CASE Revoke(c)
  <2>1. Quiet(c, Await("revoke", session, 0))
    BY <1>6, <1>f, Awaits, 0 \in 0..(MaxRetries + 1) DEF Revoke, Quiet, IInv, TypeOK
  <2> QED
    BY <1>6, <2>1, QuietStep DEF Revoke, google
<1>7. CASE ServeRequest(c)
  <2> DEFINE next == [call[c] EXCEPT !.reply = "ok", !.fresh = None]
  <2>1. Quiet(c, next)
    BY <1>7, <1>0, <1>f DEF ServeRequest, Quiet, Call
  <2> QED
    BY <1>7, <2>1, QuietStep DEF ServeRequest, Answer, google, IInv, TypeOK
<1>8. CASE Refuse(c)
  <2>1. PICK r \in {"denied", "unavailable"} :
          Become(c, [call[c] EXCEPT !.reply = r, !.fresh = None])
    BY <1>8 DEF Refuse, Failures, Answer
  <2> DEFINE next == [call[c] EXCEPT !.reply = r, !.fresh = None]
  <2>2. Quiet(c, next)
    BY <1>8, <1>0, <1>f DEF Refuse, Quiet, Call, IInv, CallInv
  <2> QED
    BY <1>8, <2>1, <2>2, QuietStep DEF Refuse, google, IInv, TypeOK
<1> QED
  BY <1>1, <1>2, <1>3, <1>4, <1>5, <1>6, <1>7, <1>8

-----------------------------------------------------------------------------
(* Steps that change the storage or a grant.                               *)

\* What is left to show once something happened that may end a grant.
LEMMA AfterMishap ==
  ASSUME TypeOK', CallInv', Numbered', mishap' = TRUE
  PROVE  IInv'
  BY DEF IInv, FreshInv, SessionInv, Unique

\* A call stores the session it was given.
LEMMA StoreStep ==
  ASSUME IInv, NEW c \in Caller, OnTokens(c)
  PROVE  IInv'
<1> DEFINE next == IF call[c].attempt = 0 THEN Idle
                   ELSE [call[c] EXCEPT !.pc = "send", !.using = call[c].fresh,
                                        !.reply = "none", !.fresh = None]
<1>1. /\ call[c] \in Call /\ call[c].fresh \in Session /\ call[c].fresh # None
      /\ session' = call[c].fresh /\ Become(c, next)
      /\ UNCHANGED <<honoured, issued, aged, rotates, mishap>>
  BY DEF OnTokens, google, IInv, TypeOK, Call
<1>2. /\ next \in Call /\ next.fresh = None /\ next.using \in {None, call[c].fresh}
      /\ next.pc \in {"idle", "send"}
  BY <1>1, RetriesAssumption DEF Call, Idle
<1> HIDE DEF next
<1>3. /\ call' \in [Caller -> Call]
      /\ \A d \in Caller : call'[d] = IF d = c THEN next ELSE call[d]
  BY <1>1, <1>2, Becomes DEF IInv
<1>4. TypeOK'
  BY <1>1, <1>3 DEF IInv, TypeOK
<1>5. CallInv'
  BY <1>1, <1>2, <1>3 DEF IInv, CallInv
<1>6. Numbered'
  BY <1>1, <1>2, <1>3 DEF IInv, Numbered
<1>7. FreshInv'
  BY <1>1, <1>2, <1>3 DEF IInv, FreshInv
<1>8. SessionInv'
  BY <1>1, <1>2, <1>3 DEF IInv, SessionInv, FreshInv
<1>9. Unique'
  BY <1>1, <1>2, <1>3 DEF IInv, Unique
<1> QED
  BY <1>4, <1>5, <1>6, <1>7, <1>8, <1>9 DEF IInv

\* A revocation ends: the storage is empty, and the calls under way know it.
LEMMA RevokedStep ==
  ASSUME IInv, NEW c \in Caller, OnRevoked(c)
  PROVE  IInv'
<1> DEFINE told(d) == IF d = c THEN Idle
                      ELSE [call[d] EXCEPT !.overlapped = call[d].pc # "idle"]
<1>1. /\ session' = None /\ mishap' = TRUE
      /\ UNCHANGED <<honoured, issued, aged, rotates>>
  BY DEF OnRevoked, google, IInv, CallInv
<1>2. ASSUME NEW d \in Caller
      PROVE  /\ told(d) \in Call
             /\ \/ told(d) = Idle
                \/ /\ told(d).pc = call[d].pc /\ told(d).using = call[d].using
                   /\ told(d).fresh = call[d].fresh /\ told(d).reply = call[d].reply
                   /\ call[d].pc # "idle" => told(d).overlapped = TRUE
  <2>1. call[d] \in Call /\ Idle \in Call
    BY RetriesAssumption DEF IInv, TypeOK, Call, Idle
  <2>2. CASE d = c
    BY <2>1, <2>2
  <2>3. CASE d # c /\ call[d].pc = "idle"
    <3>1. told(d) = [call[d] EXCEPT !.overlapped = FALSE]
      BY <2>3
    <3> QED
      BY <2>1, <2>3, <3>1 DEF Call
  <2>4. CASE d # c /\ call[d].pc # "idle"
    <3>1. told(d) = [call[d] EXCEPT !.overlapped = TRUE]
      BY <2>4
    <3> QED
      BY <2>1, <2>4, <3>1 DEF Call
  <2> QED
    BY <2>2, <2>3, <2>4
<1> HIDE DEF told
<1>3. /\ call' = [d \in Caller |-> told(d)]
      /\ \A d \in Caller : call'[d] = told(d)
  BY DEF OnRevoked, told
<1>i. Idle.pc = "idle" /\ Idle.fresh = None /\ Idle.using = None
  BY DEF Idle
<1>4. TypeOK'
  BY <1>1, <1>2, <1>3 DEF IInv, TypeOK
<1>5. CallInv'
  <2> SUFFICES ASSUME NEW d \in Caller  PROVE CallInv!(d)'
    BY DEF CallInv
  <2>1. CASE told(d) = Idle
    BY <1>1, <1>3, <1>i, <2>1
  <2>2. CASE told(d) # Idle
    <3>1. call'[d] = told(d) /\ CallInv!(d)
      BY <1>3 DEF IInv, CallInv
    <3> QED  BY <1>1, <1>2, <2>2, <3>1
  <2> QED
    BY <2>1, <2>2
<1>6. Numbered'
  BY <1>1, <1>2, <1>3, <1>i DEF IInv, Numbered
<1> QED
  BY <1>1, <1>4, <1>5, <1>6, AfterMishap

\* The application stores a session, or the process starts anew.
LEMMA OutsideStep ==
  ASSUME IInv, SetSession \/ Crash
  PROVE  IInv'
<1>1. CASE SetSession
  <2>1. PICK g \in Grant, a \in 1..issued, dated \in BOOLEAN :
          session' = [grant |-> g, access |-> a, refresh |-> honoured[g], dated |-> dated]
    BY <1>1 DEF SetSession
  <2>2. session' \in Session /\ session'.refresh = honoured[g]
    BY <2>1, TokensAssumption DEF IInv, TypeOK, Session
  <2>3. UNCHANGED <<call, honoured, issued, aged, rotates>> /\ mishap' = TRUE
    BY <1>1 DEF SetSession, google
  <2>4. TypeOK'
    BY <2>2, <2>3 DEF IInv, TypeOK
  <2>5. CallInv'
    BY <2>2, <2>3, NoneAssumption DEF IInv, CallInv
  <2>6. Numbered'
    BY <2>2, <2>3 DEF IInv, Numbered
  <2> QED
    BY <2>3, <2>4, <2>5, <2>6, AfterMishap
<1>2. CASE Crash
  <2>1. /\ session' \in {session, None} /\ call' = [c \in Caller |-> Idle]
        /\ UNCHANGED <<honoured, issued, aged, rotates>> /\ mishap' = TRUE
    BY <1>2 DEF Crash, google
  <2>2. Idle \in Call /\ Idle.pc = "idle" /\ Idle.fresh = None /\ Idle.using = None
    BY RetriesAssumption DEF Idle, Call
  <2>3. TypeOK'
    BY <2>1, <2>2 DEF IInv, TypeOK
  <2>4. CallInv'
    BY <2>1, <2>2 DEF CallInv
  <2>5. Numbered'
    BY <2>1, <2>2 DEF IInv, Numbered
  <2> QED
    BY <2>1, <2>3, <2>4, <2>5, AfterMishap
<1> QED
  BY <1>1, <1>2

-----------------------------------------------------------------------------
(* The steps of Google.                                                    *)

\* A token that is issued to a call which waits for one: the answer is lost,
\* or the call has the newest token of that grant and nobody else has it.
LEMMA IssueStep ==
  ASSUME IInv, NEW c \in Caller, NEW g \in Grant, NEW refresh \in 0..(issued + 1),
         call[c].pc \in {"exchange", "refresh"}, call[c].reply = "none",
         Issue(c, g, refresh),
         \/ refresh = 0
         \/ refresh = issued + 1
         \/ ~rotates /\ refresh = honoured[g],
         \/ honoured[g] = 0
         \/ /\ refresh # 0
            /\ rotates => /\ call[c].pc = "refresh" /\ call[c].using.refresh = honoured[g]
                          /\ refresh = issued + 1
            /\ ~rotates => refresh = honoured[g]
  PROVE  IInv'
<1>0. PICK dated \in BOOLEAN :
        \/ /\ Answer(c, "ok", [grant |-> g, access |-> issued + 1, refresh |-> refresh,
                               dated |-> dated])
           /\ UNCHANGED mishap
        \/ (\E r \in Failures(c) : Answer(c, r, None)) /\ mishap' = TRUE
  BY DEF Issue
<1> DEFINE new == [grant |-> g, access |-> issued + 1, refresh |-> refresh, dated |-> dated]
<1> USE TokensAssumption
<1>1. /\ issued + 1 \in 1..MaxTokens /\ issued' = issued + 1
      /\ honoured' = [honoured EXCEPT ![g] = refresh]
      /\ UNCHANGED <<session, aged, rotates>>
  BY DEF Issue, IInv, TypeOK
<1>2. /\ new \in Session /\ new # None /\ new.refresh = refresh /\ new.grant = g
  BY <1>1, NoneAssumption DEF Session
<1>3. PICK r \in {"ok", "denied", "unavailable"}, s \in {new, None} :
        /\ Become(c, [call[c] EXCEPT !.reply = r, !.fresh = s])
        /\ \/ r = "ok" /\ s = new /\ mishap' = mishap
           \/ s = None /\ mishap' = TRUE
  <2>1. CASE Answer(c, "ok", new) /\ UNCHANGED mishap
    BY <2>1 DEF Answer
  <2>2. CASE (\E r \in Failures(c) : Answer(c, r, None)) /\ mishap' = TRUE
    BY <2>2 DEF Answer, Failures
  <2> QED
    BY <1>0, <2>1, <2>2
<1> DEFINE next == [call[c] EXCEPT !.reply = r, !.fresh = s]
<1>4. /\ next \in Call /\ next.fresh = s /\ next.reply = r /\ next.pc = call[c].pc
      /\ next.using = call[c].using /\ next.overlapped = call[c].overlapped
  BY <1>2 DEF IInv, TypeOK, Call
<1> HIDE DEF new, next
<1>5. /\ call' \in [Caller -> Call]
      /\ \A d \in Caller : call'[d] = IF d = c THEN next ELSE call[d]
  BY <1>3, <1>4, Becomes DEF IInv, next
<1>6. TypeOK'
  <2>1. mishap' \in BOOLEAN
    BY <1>3 DEF IInv, TypeOK
  <2>2. issued \in Nat /\ issued' \in 0..MaxTokens /\ aged' \in 0..issued'
    BY <1>1 DEF IInv, TypeOK
  <2>3. honoured' \in [Grant -> 0..MaxTokens]
    BY <1>1, <2>2 DEF IInv, TypeOK
  <2> QED
    BY <1>1, <1>5, <2>1, <2>2, <2>3 DEF IInv, TypeOK
<1>7. CallInv'
  BY <1>1, <1>3, <1>4, <1>5 DEF IInv, CallInv
<1>8. Numbered'
  <2>1. issued \in Nat /\ \A n \in Nat : n <= issued => n <= issued'
    BY <1>1 DEF IInv, TypeOK
  <2>2. \A h \in Grant : honoured'[h] <= issued'
    BY <1>1, <2>1 DEF IInv, TypeOK, Numbered
  <2>3. session' # None => session'.refresh <= issued'
    BY <1>1, <2>1 DEF IInv, TypeOK, Numbered, Session
  <2>4. ASSUME NEW d \in Caller
        PROVE  /\ call'[d].using # None => call'[d].using.refresh <= issued'
               /\ call'[d].fresh # None => call'[d].fresh.refresh <= issued'
    <3>1. /\ call[d].using # None => call[d].using.refresh \in Nat
          /\ call[d].fresh # None => call[d].fresh.refresh \in Nat
      BY DEF IInv, TypeOK, Call, Session
    <3>2. /\ call[d].using # None => call[d].using.refresh <= issued'
          /\ call[d].fresh # None => call[d].fresh.refresh <= issued'
      BY <2>1, <3>1 DEF IInv, Numbered
    <3> QED
      BY <1>1, <1>2, <1>3, <1>4, <1>5, <3>2
  <2> QED
    BY <2>2, <2>3, <2>4 DEF Numbered
<1>9. CASE s = None /\ mishap' = TRUE
  BY <1>6, <1>7, <1>8, <1>9, AfterMishap
<1>10. CASE s = new /\ mishap' = mishap
  <2>1. FreshInv'
    BY <1>1, <1>2, <1>4, <1>5, <1>10 DEF IInv, FreshInv, Unique, TypeOK, Call
  <2>2. SessionInv'
    BY <1>1, <1>2, <1>4, <1>5, <1>10 DEF IInv, SessionInv, Newest, CallInv, TypeOK
  <2>3. Unique'
    BY <1>1, <1>2, <1>4, <1>5, <1>10 DEF IInv, Unique, Numbered, CallInv, TypeOK
  <2> QED
    BY <1>6, <1>7, <1>8, <2>1, <2>2, <2>3 DEF IInv
<1> QED
  BY <1>3, <1>9, <1>10

\* Consents and refreshes issue tokens as IssueStep says.
LEMMA IssueActions ==
  ASSUME IInv, NEW c \in Caller, Consent(c) \/ Renew(c)
  PROVE  IInv'
<1>1. CASE Consent(c)
  <2>1. PICK g \in Grant, refresh \in {0, issued + 1} :
          honoured[g] = 0 /\ Issue(c, g, refresh)
    BY <1>1 DEF Consent
  <2>2. refresh \in 0..(issued + 1)
    BY DEF IInv, TypeOK
  <2> QED
    BY <1>1, <2>1, <2>2, IssueStep DEF Consent
<1>2. CASE Renew(c)
  <2> DEFINE with    == call[c].using
             refresh == IF rotates THEN issued + 1 ELSE with.refresh
  <2>1. /\ with \in Session /\ with.refresh # 0 /\ with.refresh <= issued
        /\ honoured[with.grant] = with.refresh
    BY <1>2 DEF Renew, IInv, TypeOK, Call, CallInv, Numbered
  <2>2. /\ with.grant \in Grant /\ refresh \in 0..(issued + 1) /\ refresh # 0
        /\ Issue(c, with.grant, refresh)
    BY <1>2, <2>1 DEF Renew, IInv, TypeOK, Session
  <2> HIDE DEF refresh
  <2>3. (rotates => refresh = issued + 1) /\ (~rotates => refresh = honoured[with.grant])
    BY <2>1 DEF refresh
  <2> QED
    BY <1>2, <2>1, <2>2, <2>3, IssueStep DEF Renew
<1> QED
  BY <1>1, <1>2

\* Google ends a grant, which only a revocation asks for.
LEMMA EndStep ==
  ASSUME IInv, NEW c \in Caller, EndGrant(c)
  PROVE  IInv'
<1>1. /\ mishap' = TRUE /\ UNCHANGED <<session, issued, aged, rotates>>
      /\ call[c].using \in Session /\ call[c].reply = "none"
      /\ honoured' = [honoured EXCEPT ![call[c].using.grant] = 0]
  BY DEF EndGrant, IInv, TypeOK, CallInv, Call
<1>2. PICK r \in {"ok", "denied"} :
        Become(c, [call[c] EXCEPT !.reply = r, !.fresh = None])
  BY DEF EndGrant, Answer
<1> DEFINE next == [call[c] EXCEPT !.reply = r, !.fresh = None]
<1>3. /\ next \in Call /\ next.fresh = None /\ next.pc = call[c].pc
      /\ next.using = call[c].using /\ next.overlapped = call[c].overlapped
  BY DEF IInv, TypeOK, Call
<1> HIDE DEF next
<1>4. /\ call' \in [Caller -> Call]
      /\ \A d \in Caller : call'[d] = IF d = c THEN next ELSE call[d]
  BY <1>2, <1>3, Becomes DEF IInv, next
<1>5. TypeOK'
  <2>1. mishap' \in BOOLEAN /\ rotates' \in BOOLEAN
    BY <1>1 DEF IInv, TypeOK
  <2>2. honoured' \in [Grant -> 0..MaxTokens]
    <3>1. 0 \in 0..MaxTokens /\ honoured \in [Grant -> 0..MaxTokens]
      BY TokensAssumption DEF IInv, TypeOK
    <3> QED
      BY <1>1, <3>1
  <2> QED
    BY <1>1, <1>4, <2>1, <2>2 DEF IInv, TypeOK
<1>6. CallInv'
  BY <1>1, <1>3, <1>4 DEF IInv, CallInv
<1>7. Numbered'
  BY <1>1, <1>3, <1>4 DEF IInv, Numbered, TypeOK
<1> QED
  BY <1>1, <1>5, <1>6, <1>7, AfterMishap

\* Time passes.
LEMMA AgeStep ==
  ASSUME IInv, Age
  PROVE  IInv'
<1>1. aged' \in 0..issued'
  BY DEF Age, IInv, TypeOK
<1>2. UNCHANGED <<session, call, honoured, issued, rotates, mishap>>
  BY DEF Age
<1> QED
  BY <1>1, <1>2 DEF IInv, TypeOK, CallInv, Numbered, FreshInv, SessionInv, Newest, Unique

-----------------------------------------------------------------------------
(* The invariant and what follows from it.                                 *)

\* At the start no call is under way, and a stored token is the newest.
LEMMA InitInv ==
  Init => IInv
<1> SUFFICES ASSUME Init  PROVE IInv
  OBVIOUS
<1> USE TokensAssumption, RetriesAssumption, NoneAssumption
<1>1. Idle \in Call /\ Idle.pc = "idle" /\ Idle.fresh = None /\ Idle.using = None
  BY DEF Idle, Call
<1>2. /\ call = [c \in Caller |-> Idle] /\ aged = 0 /\ rotates \in BOOLEAN /\ mishap = FALSE
      /\ issued \in 0..MaxTokens /\ honoured \in [Grant -> 0..issued]
      /\ session \in {None} \cup Session
      /\ session # None => /\ issued = 1 /\ session.refresh = 1
                           /\ honoured[session.grant] = 1
  <2>1. CASE session = None /\ issued = 0 /\ honoured = [g \in Grant |-> 0]
    BY <2>1 DEF Init
  <2>2. CASE \E g \in Grant, dated \in BOOLEAN :
               /\ session = [grant |-> g, access |-> 1, refresh |-> 1, dated |-> dated]
               /\ issued = 1
               /\ honoured = [h \in Grant |-> IF h = g THEN 1 ELSE 0]
    BY <2>2 DEF Init, Session
  <2> QED
    BY <2>1, <2>2 DEF Init
<1>3. TypeOK
  <2>1. mishap \in BOOLEAN /\ rotates \in BOOLEAN
    BY <1>2
  <2>2. call \in [Caller -> Call] /\ aged \in 0..issued /\ honoured \in [Grant -> 0..MaxTokens]
    BY <1>1, <1>2
  <2> QED
    BY <1>2, <2>1, <2>2 DEF TypeOK
<1>4. CallInv /\ FreshInv /\ Unique
  BY <1>1, <1>2 DEF CallInv, FreshInv, Unique
<1>5. Numbered /\ SessionInv
  BY <1>1, <1>2 DEF Numbered, SessionInv
<1> QED
  BY <1>3, <1>4, <1>5 DEF IInv

\* Each kind of step was treated above.
LEMMA StepInv ==
  IInv /\ [Next]_vars => IInv'
<1> SUFFICES ASSUME IInv, [Next]_vars  PROVE IInv'
  OBVIOUS
<1>1. ASSUME NEW c \in Caller, Start(c) \/ Resume(c) \/ Google(c)
      PROVE  IInv'
  BY <1>1, QuietActions, StoreStep, RevokedStep, IssueActions, EndStep
  DEF Start, Resume, Google
<1>2. CASE SetSession \/ Crash
  BY <1>2, OutsideStep
<1>3. CASE Age
  BY <1>3, AgeStep
<1>4. CASE UNCHANGED vars
  BY <1>4 DEF vars, google, IInv, TypeOK, CallInv, Numbered, FreshInv, SessionInv, Newest, Unique
<1> QED
  BY <1>1, <1>2, <1>3, <1>4 DEF Next

\* The invariant that the theorems below rest on.
THEOREM Inductive ==
  Spec => []IInv
BY InitInv, StepInv, PTL DEF Spec

\* The storage holds nothing or a session, each call is at a known place, and
\* no request is tried more often than maxRetries allows.
THEOREM OAuthTypeOK ==
  Spec => []TypeOK
<1>1. IInv => TypeOK
  BY DEF IInv
<1> QED
  BY <1>1, Inductive, PTL

\* However refreshes and exchanges overlap, rotating or not, Google honours the
\* refresh token in the storage or one that a call is about to store.
THEOREM NotLockedOut ==
  Spec => []Refreshable
<1>1. IInv => Refreshable
  BY DEF IInv, SessionInv, Newest, Refreshable
<1> QED
  BY <1>1, Inductive, PTL

\* What a call may leave with: the stored session, if it has not aged or does
\* not say when it ends.
Stored(using) == using = session /\ (session.access > aged \/ ~session.dated)

\* A call that is given a token to send has the stored one, not yet aged as far
\* as the session says.
LEMMA StoredToken ==
  ASSUME TypeOK, NEW n, GetAccessToken(n).pc = "send"
  PROVE  Stored(GetAccessToken(n).using)
<1>1. session \in Session /\ ~Expired /\ GetAccessToken(n) = Await("send", session, n)
  BY DEF TypeOK, GetAccessToken, Await, Idle
<1>2. GetAccessToken(n).using = session
  BY <1>1 DEF Await, Idle
<1>3. session.access > aged \/ ~session.dated
  BY <1>1 DEF TypeOK, Session, Expired
<1> QED
  BY <1>2, <1>3 DEF Stored

\* Every attempt of a request leaves with a token that was just issued, or with
\* the stored one, outside the safety margin unless the session does not say
\* when it ends.
THEOREM EachAttemptFresh ==
  Spec => FreshToken
<1> DEFINE Leaving == \A c \in Caller :
      Leaves(c) =>
        \/ call'[c].using = call[c].fresh
        \/ /\ call'[c].using = session
           /\ session.access > aged \/ ~session.dated
<1>1. IInv /\ [Next]_vars => [Leaving]_vars
  <2> SUFFICES ASSUME IInv, Next, NEW c \in Caller, Leaves(c)
               PROVE  call'[c].using = call[c].fresh \/ Stored(call'[c].using)
    BY DEF Stored
  <2>1. PICK d \in Caller : Start(d) \/ Resume(d) \/ Google(d)
    BY DEF Next, SetSession, Crash, Age, Leaves, Idle
  <2>2. CASE OnRevoked(d)
    BY <2>2 DEF OnRevoked, Leaves, Idle
  <2>3. ASSUME NEW next, Become(d, next)  PROVE d = c /\ call'[c] = next
    <3>1. call'[c] = IF c = d THEN next ELSE call[c]
      BY <2>3 DEF Become, IInv, TypeOK
    <3> QED
      BY <3>1 DEF Leaves
  <2>4. CASE Request(d) \/ Retry(d)
    <3>1. PICK n : Become(d, GetAccessToken(n))
      BY <2>4 DEF Request, Retry
    <3>2. call'[c] = GetAccessToken(n)
      BY <2>3, <3>1
    <3> QED
      BY <3>2, StoredToken DEF Leaves, IInv
  <2>5. CASE Refresh(d) \/ ExchangeCode(d) \/ Revoke(d)
    <3>1. PICK label \in {"refresh", "exchange", "revoke"}, with \in {None, session} :
            Become(d, Await(label, with, 0))
      BY <2>5 DEF Refresh, ExchangeCode, Revoke
    <3>2. Await(label, with, 0).pc = label
      BY DEF Await, Idle
    <3> QED
      BY <2>3, <3>1, <3>2 DEF Leaves
  <2>6. CASE OnTokens(d)
    <3> DEFINE sent == [call[d] EXCEPT !.pc = "send", !.using = call[d].fresh,
                                       !.reply = "none", !.fresh = None]
    <3>1. call[d] \in Call /\ sent.using = call[d].fresh
      BY DEF IInv, TypeOK, Call
    <3> HIDE DEF sent
    <3>2. Become(d, Idle) \/ Become(d, sent)
      BY <2>6 DEF OnTokens, sent
    <3> QED
      BY <2>3, <3>1, <3>2 DEF Leaves, Idle
  <2>7. CASE Return(d)
    BY <2>3, <2>7 DEF Return, Leaves, Idle
  <2>8. CASE Google(d)
    <3>0. PICK r \in {"ok", "denied", "unavailable"} : \E s : Answer(d, r, s)
      BY <2>8 DEF Google, Consent, Renew, EndGrant, ServeRequest, Refuse, Issue, Failures
    <3>1. PICK s : Answer(d, r, s)
      BY <3>0
    <3> DEFINE answered == [call[d] EXCEPT !.reply = r, !.fresh = s]
    <3>2. call[d] \in Call /\ answered.reply = r
      BY DEF IInv, TypeOK, Call
    <3> HIDE DEF answered
    <3>3. Become(d, answered)
      BY <3>1 DEF Answer, answered
    <3> QED
      BY <2>3, <3>2, <3>3 DEF Leaves
  <2> QED
    BY <2>1, <2>2, <2>4, <2>5, <2>6, <2>7, <2>8 DEF Start, Resume
<1> QED
  BY <1>1, Inductive, PTL DEF Spec, FreshToken

\* Only an attempt that was under way when revoke() cleared the storage brings
\* a session back.
THEOREM RevokedStays ==
  Spec => StaysRevoked
<1>1. IInv /\ [Next]_vars =>
        [\A c \in Caller :
           session = None /\ call[c].pc = "refresh" /\ OnTokens(c) => call[c].overlapped]_vars
  BY DEF IInv, CallInv
<1> QED
  BY <1>1, Inductive, PTL DEF Spec, StaysRevoked

=============================================================================
