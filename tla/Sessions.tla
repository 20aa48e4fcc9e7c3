------------------------------ MODULE Sessions ------------------------------
(***************************************************************************)
(* Signing in and out of one account: the statements of auth.service.ts    *)
(* and the check of auth.guard.ts, called by browsers the way lib/api.ts   *)
(* calls them.  All tabs of a browser share its cookies; a request that is *)
(* refused refreshes the session once and is sent again.                   *)
(***************************************************************************)
EXTENDS Naturals, FiniteSets

CONSTANTS
    Requests,       \* API calls of the pages; a session or token is named by
                    \* the request that created it
    First,          \* the session, and its token, that exists in the beginning
    Browsers,
    Home,           \* the browser that is signed in with First
    Asks,           \* what a request may be: its operation and its browser
    None,           \* no cookie
    FailureLimit,   \* wrong passwords that lock the account (5)
    Failed0,        \* failedLoginCount in the beginning
    MaxFaults,      \* bound: calls cut off by an error, a crash or a lost answer
    MaxLapses       \* bound: access tokens that expire, locks that end, and errors
                    \* in the guard

Issues     == Requests \union {First}
Operations == {"get", "post", "logout", "logoutAll", "login", "wrong", "reset"}
Cookies    == [token : Issues \union {None}, csrf : Issues \union {None}]
NoCookies  == [token |-> None, csrf |-> None]

ASSUME SessionsAssumption ==
    /\ None \notin Issues /\ First \notin Requests /\ Home \in Browsers
    /\ Asks \subseteq [op : Operations, browser : Browsers]
    /\ Failed0 < FailureLimit
    /\ {FailureLimit, Failed0, MaxFaults, MaxLapses} \subseteq Nat

VARIABLES
    \* the account's row
    failed, locked,     \* failedLoginCount; lockedUntil is in the future
    version,            \* tokenVersion
    resetUsed,          \* usedAt of the account's one password reset token
    \* sessions and refresh tokens
    sessions,           \* AuthSession rows
    revoked,            \* those with revokedAt
    tokens,             \* issues: session and tokenVersion they were made with
    spent, dead,        \* refresh tokens with usedAt; with revokedAt
    lapsed,             \* issues whose access token is 15 minutes old
    \* the browsers
    jar,                \* cookies: newest issue received, session of csrf_token
    \* the requests
    pc, ask,
    card,               \* the cookies it was sent with
    retried, offered,   \* it refreshed; with which token
    seen,               \* the account as it was read
    \* history
    after,              \* requests that were over when this one was sent
    overlaps,           \* pairs whose refreshes offered one token together
    faulty,             \* requests cut off
    tally,              \* wrong passwords recorded since the counter was cleared
    lapses

account == <<failed, locked, version, resetUsed>>
rows    == <<sessions, revoked, tokens, spent, dead>>
calls   == <<ask, card, retried, offered, seen>>
history == <<after, overlaps, faulty, tally, lapses>>
vars    == <<account, rows, lapsed, jar, pc, calls, history>>

Over == {"ok", "failed"}
Steps == Over \union
    {"idle", "guard", "refused", "token", "use", "issue", "receive", "retry",
     "revokeFamily", "revokeSession", "endSession", "endTokens", "bump", "endAll",
     "endAllTokens", "clear", "lookup", "count", "session", "login", "counters",
     "welcome", "checkReset", "reset"}

NoAsk == [op |-> "none"]
Seen  == [failed : Nat, version : Nat]
Issue == [session : Issues, version : Nat]

TypeOK ==
    /\ failed \in Nat /\ locked \in BOOLEAN /\ version \in Nat /\ resetUsed \in BOOLEAN
    /\ sessions \subseteq Issues /\ revoked \subseteq sessions
    /\ DOMAIN tokens \subseteq Issues /\ tokens \in [DOMAIN tokens -> Issue]
    /\ spent \subseteq DOMAIN tokens /\ dead \subseteq DOMAIN tokens
    /\ lapsed \subseteq DOMAIN tokens
    /\ jar \in [Browsers -> Cookies]
    /\ pc \in [Requests -> Steps]
    /\ ask \in [Requests -> Asks \union {NoAsk}]
    /\ card \in [Requests -> Cookies]
    /\ retried \in [Requests -> BOOLEAN]
    /\ offered \in [Requests -> Issues \union {None}]
    /\ seen \in [Requests -> Seen]
    /\ after \in [Requests -> SUBSET Requests]
    /\ overlaps \subseteq SUBSET Requests
    /\ faulty \subseteq Requests
    /\ tally \in Nat /\ lapses \in Nat

Init ==
    /\ failed = Failed0 /\ locked = FALSE /\ version = 0 /\ resetUsed = FALSE
    /\ sessions = {First} /\ revoked = {}
    /\ tokens = [i \in {First} |-> [session |-> First, version |-> 0]]
    /\ spent = {} /\ dead = {} /\ lapsed = {}
    /\ jar = [b \in Browsers |->
                IF b = Home THEN [token |-> First, csrf |-> First] ELSE NoCookies]
    /\ pc = [r \in Requests |-> "idle"]
    /\ ask = [r \in Requests |-> NoAsk]
    /\ card = [r \in Requests |-> NoCookies]
    /\ retried = [r \in Requests |-> FALSE]
    /\ offered = [r \in Requests |-> None]
    /\ seen = [r \in Requests |-> [failed |-> 0, version |-> 0]]
    /\ after = [r \in Requests |-> {}]
    /\ overlaps = {} /\ faulty = {} /\ tally = Failed0 /\ lapses = 0

-----------------------------------------------------------------------------
Goto(r, step) == pc' = [pc EXCEPT ![r] = step]

\* One step of a request that touches neither browser nor history.
Quiet == UNCHANGED <<lapsed, jar, history>>

TokensOf(s) == {t \in DOMAIN tokens : tokens[t].session = s}
SessionOf(t) == tokens[t].session

FirstStep == [get |-> "guard", post |-> "guard", logout |-> "guard",
              logoutAll |-> "guard", login |-> "lookup", wrong |-> "lookup",
              reset |-> "checkReset"]

\* A page calls the API with the cookies of its browser.
Send(r, a) ==
    /\ pc[r] = "idle"
    /\ Goto(r, FirstStep[a.op])
    /\ ask' = [ask EXCEPT ![r] = a]
    /\ card' = [card EXCEPT ![r] = jar[a.browser]]
    /\ after' = [after EXCEPT ![r] = {q \in Requests : pc[q] \in Over}]
    /\ UNCHANGED <<account, rows, lapsed, jar, retried, offered, seen,
                   overlaps, faulty, tally, lapses>>

-----------------------------------------------------------------------------
(* The guard, and what a page does when it refuses. *)

\* Seeded bug: the session row is looked up without revokedAt: null.
AdmitsRevoked(c, op) ==
    /\ c.token # None /\ c.token \notin lapsed
    /\ tokens[c.token].version = version
    /\ op # "get" => c.csrf = SessionOf(c.token)

\* The access token is fresh, its session not revoked, its version the
\* account's, and, but for a GET, csrf_token is the session's.
Admits(c, op) ==
    /\ c.token # None /\ c.token \notin lapsed
    /\ SessionOf(c.token) \notin revoked
    /\ tokens[c.token].version = version
    /\ op # "get" => c.csrf = SessionOf(c.token)

Guard(r) ==
    /\ pc[r] = "guard"
    /\ Goto(r, IF ~Admits(card[r], ask[r].op) THEN "refused"
               ELSE CASE ask[r].op = "logout" -> "endSession"
                      [] ask[r].op = "logoutAll" -> "bump"
                      [] OTHER -> "ok")
    /\ UNCHANGED <<account, rows, calls>> /\ Quiet

Refreshing(q) == pc[q] \in {"token", "use", "issue", "receive"}

\* A 401 outside /auth/ on the first attempt: refresh with the browser's token.
Offer(r) ==
    /\ pc[r] = "refused" /\ ~retried[r] /\ ask[r].op \in {"get", "post"}
    /\ LET t == jar[ask[r].browser].token IN
       /\ offered' = [offered EXCEPT ![r] = t]
       /\ overlaps' = overlaps \union
             {{r, q} : q \in {p \in Requests : Refreshing(p) /\ offered[p] = t}}
    /\ retried' = [retried EXCEPT ![r] = TRUE]
    /\ Goto(r, "token")
    /\ UNCHANGED <<account, rows, lapsed, jar, ask, card, seen,
                   after, faulty, tally, lapses>>

GiveUp(r) ==
    /\ pc[r] = "refused"
    /\ retried[r] \/ ask[r].op \notin {"get", "post"}
    /\ Goto(r, "failed")
    /\ UNCHANGED <<account, rows, calls>> /\ Quiet

-----------------------------------------------------------------------------
(* AuthService.refresh *)

\* The token exists, and neither it nor its session is revoked.
Usable(t) == t # None /\ t \notin dead /\ SessionOf(t) \notin revoked

ReadToken(r) ==
    /\ pc[r] = "token"
    /\ Goto(r, IF ~Usable(offered[r]) THEN "failed"
               ELSE IF offered[r] \in spent THEN "revokeFamily" ELSE "use")
    /\ seen' = [seen EXCEPT ![r].version = version]
    /\ UNCHANGED <<account, rows, ask, card, retried, offered>> /\ Quiet

UseToken(r) ==
    /\ pc[r] = "use"
    /\ Goto(r, "issue")
    /\ spent' = spent \union {offered[r]}
    /\ UNCHANGED <<account, sessions, revoked, tokens, dead, calls>> /\ Quiet

AddIssue(r, s) ==
    tokens' = [t \in DOMAIN tokens \union {r} |->
                 IF t = r THEN [session |-> s, version |-> seen[r].version] ELSE tokens[t]]

IssueNext(r) ==
    /\ pc[r] = "issue"
    /\ Goto(r, "receive")
    /\ AddIssue(r, SessionOf(offered[r]))
    /\ UNCHANGED <<account, sessions, revoked, spent, dead, calls>> /\ Quiet

\* The token was used before: the family and its session are revoked.
RevokeFamily(r) ==
    /\ pc[r] = "revokeFamily"
    /\ Goto(r, "revokeSession")
    /\ dead' = dead \union TokensOf(SessionOf(offered[r]))
    /\ UNCHANGED <<account, sessions, revoked, tokens, spent, calls>> /\ Quiet

RevokeSession(r) ==
    /\ pc[r] = "revokeSession"
    /\ Goto(r, "failed")
    /\ revoked' = revoked \union {SessionOf(offered[r])}
    /\ UNCHANGED <<account, sessions, tokens, spent, dead, calls>> /\ Quiet

\* Seeded bug: the answer of a refresh sets no cookie.
StoreNothing(b, r) == UNCHANGED jar

\* The answer sets access_token and refresh_token, not csrf_token.
Store(b, r) == jar' = [jar EXCEPT ![b].token = r]

Receive(r) ==
    /\ pc[r] = "receive"
    /\ Goto(r, "retry")
    /\ Store(ask[r].browser, r)
    /\ UNCHANGED <<account, rows, lapsed, calls, history>>

Retry(r) ==
    /\ pc[r] = "retry"
    /\ Goto(r, "guard")
    /\ card' = [card EXCEPT ![r] = jar[ask[r].browser]]
    /\ UNCHANGED <<account, rows, ask, retried, offered, seen>> /\ Quiet

-----------------------------------------------------------------------------
(* AuthService.logout *)

EndSession(r) ==
    /\ pc[r] = "endSession"
    /\ Goto(r, "endTokens")
    /\ revoked' = revoked \union {SessionOf(card[r].token)}
    /\ UNCHANGED <<account, sessions, tokens, spent, dead, calls>> /\ Quiet

EndTokens(r) ==
    /\ pc[r] = "endTokens"
    /\ Goto(r, "clear")
    /\ dead' = dead \union TokensOf(SessionOf(card[r].token))
    /\ UNCHANGED <<account, sessions, revoked, tokens, spent, calls>> /\ Quiet

BumpVersion(r) ==
    /\ pc[r] = "bump"
    /\ Goto(r, "endAll")
    /\ version' = version + 1
    /\ UNCHANGED <<failed, locked, resetUsed, rows, calls>> /\ Quiet

EndAll(r) ==
    /\ pc[r] = "endAll"
    /\ Goto(r, "endAllTokens")
    /\ revoked' = sessions
    /\ UNCHANGED <<account, sessions, tokens, spent, dead, calls>> /\ Quiet

EndAllTokens(r) ==
    /\ pc[r] = "endAllTokens"
    /\ Goto(r, "clear")
    /\ dead' = DOMAIN tokens
    /\ UNCHANGED <<account, sessions, revoked, tokens, spent, calls>> /\ Quiet

\* The answer of a logout clears the three cookies.
Clear(r) ==
    /\ pc[r] = "clear"
    /\ Goto(r, "ok")
    /\ jar' = [jar EXCEPT ![ask[r].browser] = NoCookies]
    /\ UNCHANGED <<account, rows, lapsed, calls, history>>

-----------------------------------------------------------------------------
(* AuthService.login and resetPassword *)

Lookup(r) ==
    /\ pc[r] = "lookup"
    /\ Goto(r, IF locked THEN "failed"
               ELSE IF ask[r].op = "login" THEN "session" ELSE "count")
    /\ seen' = [seen EXCEPT ![r] = [failed |-> failed, version |-> version]]
    /\ UNCHANGED <<account, rows, ask, card, retried, offered>> /\ Quiet

Locks(n) == n >= FailureLimit

\* A wrong password: the counter that was read, and one more.
CountFailure(r) ==
    /\ pc[r] = "count"
    /\ Goto(r, "failed")
    /\ failed' = seen[r].failed + 1
    /\ locked' = Locks(seen[r].failed + 1)
    /\ tally' = tally + 1
    /\ UNCHANGED <<version, resetUsed, rows, lapsed, jar, calls, after, overlaps,
                   faulty, lapses>>

CreateSession(r) ==
    /\ pc[r] = "session"
    /\ Goto(r, "login")
    /\ sessions' = sessions \union {r}
    /\ UNCHANGED <<account, revoked, tokens, spent, dead, calls>> /\ Quiet

IssueFirst(r) ==
    /\ pc[r] = "login"
    /\ Goto(r, "counters")
    /\ AddIssue(r, r)
    /\ UNCHANGED <<account, sessions, revoked, spent, dead, calls>> /\ Quiet

ClearCounter == failed' = 0 /\ locked' = FALSE /\ tally' = 0

ClearCounters(r) ==
    /\ pc[r] = "counters"
    /\ Goto(r, "welcome")
    /\ ClearCounter
    /\ UNCHANGED <<version, resetUsed, rows, lapsed, jar, calls, after, overlaps,
                   faulty, lapses>>

\* Seeded bug: a login leaves the csrf_token of the last session.
WelcomeWithoutCsrf(r) ==
    /\ pc[r] = "welcome"
    /\ Goto(r, "ok")
    /\ jar' = [jar EXCEPT ![ask[r].browser].token = r]
    /\ UNCHANGED <<account, rows, lapsed, calls, history>>

Welcome(r) ==
    /\ pc[r] = "welcome"
    /\ Goto(r, "ok")
    /\ jar' = [jar EXCEPT ![ask[r].browser] = [token |-> r, csrf |-> r]]
    /\ UNCHANGED <<account, rows, lapsed, calls, history>>

CheckReset(r) ==
    /\ pc[r] = "checkReset"
    /\ Goto(r, IF resetUsed THEN "failed" ELSE "reset")
    /\ UNCHANGED <<account, rows, calls>> /\ Quiet

\* One transaction: password, version and counter, the reset token, and the
\* end of every session.
Reset(r) ==
    /\ pc[r] = "reset"
    /\ Goto(r, "ok")
    /\ ClearCounter
    /\ version' = version + 1
    /\ resetUsed' = TRUE
    /\ revoked' = sessions
    /\ dead' = DOMAIN tokens
    /\ UNCHANGED <<sessions, tokens, spent, lapsed, jar, calls, after, overlaps,
                   faulty, lapses>>

-----------------------------------------------------------------------------
\* An error inside the guard is answered like a request it does not admit.
GuardFails(r) ==
    /\ pc[r] = "guard"
    /\ lapses < MaxLapses
    /\ Goto(r, "refused")
    /\ lapses' = lapses + 1
    /\ UNCHANGED <<account, rows, lapsed, jar, calls, after, overlaps, faulty, tally>>

\* Any other database error, a dead process or a lost answer, at any await.
Fault(r) ==
    /\ pc[r] \notin Over \union {"idle", "refused", "retry"}
    /\ Cardinality(faulty) < MaxFaults
    /\ Goto(r, "failed")
    /\ faulty' = faulty \union {r}
    /\ UNCHANGED <<account, rows, lapsed, jar, calls, after, overlaps, tally, lapses>>

AccessLapses(t) ==
    /\ t \in DOMAIN tokens \ lapsed
    /\ lapses < MaxLapses
    /\ lapsed' = lapsed \union {t}
    /\ lapses' = lapses + 1
    /\ UNCHANGED <<account, rows, jar, pc, calls, after, overlaps, faulty, tally>>

LockLapses ==
    /\ locked
    /\ lapses < MaxLapses
    /\ locked' = FALSE
    /\ lapses' = lapses + 1
    /\ UNCHANGED <<failed, version, resetUsed, rows, lapsed, jar, pc, calls,
                   after, overlaps, faulty, tally>>

Serve(r) ==
    \/ Guard(r) \/ ReadToken(r) \/ UseToken(r) \/ IssueNext(r)
    \/ RevokeFamily(r) \/ RevokeSession(r)
    \/ EndSession(r) \/ EndTokens(r) \/ BumpVersion(r) \/ EndAll(r) \/ EndAllTokens(r)
    \/ Lookup(r) \/ CountFailure(r) \/ CreateSession(r) \/ IssueFirst(r)
    \/ ClearCounters(r) \/ CheckReset(r) \/ Reset(r)

Browse(r) ==
    Offer(r) \/ GiveUp(r) \/ Receive(r) \/ Retry(r) \/ Clear(r) \/ Welcome(r)

Next ==
    \/ \E r \in Requests : (\E a \in Asks : Send(r, a)) \/ Serve(r) \/ Browse(r)
    \/ \E r \in Requests : GuardFails(r) \/ Fault(r)
    \/ \E t \in Issues : AccessLapses(t)
    \/ LockLapses

Spec == Init /\ [][Next]_vars

-----------------------------------------------------------------------------
(* Properties *)

Page(r)     == ask[r].op \in {"get", "post"}
Started(r)  == pc[r] # "idle"
Together(q, r) == q \notin after[r] /\ r \notin after[q]

\* Request r, answered, has ended session s: by a logout of it, or by a logout
\* or a reset that covers every session whose login was over before.
Ends(r, s) ==
    /\ pc[r] = "ok"
    /\ \/ ask[r].op = "logout" /\ s = SessionOf(card[r].token)
       \/ ask[r].op \in {"logoutAll", "reset"} /\ s \in after[r] \union {First}

\* What a logout, a logout of all sessions or a password reset has ended stays
\* ended: no request sent later is admitted on that session, however refreshes
\* and logins were under way meanwhile and whatever they issued.
ClosedForGood ==
    \A q \in Requests : pc[q] = "ok" /\ Page(q) =>
        \A r \in after[q] : ~Ends(r, SessionOf(card[q].token))

\* Nobody is signed out for nothing: when the reuse of a token is detected,
\* another request has offered the same token, and either both were under way
\* together or the other's answer never came.
ReuseExplained ==
    \A r \in Requests : pc[r] \in {"revokeFamily", "revokeSession"} =>
        \E q \in Requests \ {r} :
            /\ offered[q] = offered[r]
            /\ {q, r} \in overlaps \/ q \in faulty

\* The token a browser holds can be used for its next refresh, unless a refresh
\* with it is on its way or was cut off.
NextRefreshWorks ==
    \A b \in Browsers : jar[b].token \in spent =>
        \E q \in Requests :
            /\ offered[q] = jar[b].token
            /\ pc[q] \in {"issue", "receive"} \/ q \in faulty

\* A browser refreshed together with a login or a logout of its own.
Crossed(b) ==
    \E q, r \in Requests :
        /\ q # r /\ Started(q) /\ Started(r) /\ Together(q, r)
        /\ ask[q].browser = b /\ ask[r].browser = b
        /\ retried[q] /\ ask[r].op \in {"login", "logout", "logoutAll"}

\* A browser's csrf_token belongs to the session of its other cookies, unless a
\* refresh was under way together with a login or a logout of that browser.
CookiesAgree ==
    \A b \in Browsers :
        jar[b].token # None /\ jar[b].csrf # SessionOf(jar[b].token) => Crossed(b)

\* Two logins or resets were under way together.
Credential(r) == Started(r) /\ ask[r].op \in {"login", "wrong", "reset"}
Rivals == \E q, r \in Requests : q # r /\ Credential(q) /\ Credential(r) /\ Together(q, r)

\* Failed logins that follow each other are all counted, and the one that
\* reaches the limit locks the account; only logins and resets that are under
\* way together can lose a count or a lock.
FailuresCounted ==
    \/ Rivals
    \/ /\ failed = tally
       /\ locked => failed >= FailureLimit
       /\ failed >= FailureLimit /\ lapses = 0 => locked

(* What every step keeps, and ClosedForGood rests on.                        *)

\* A request takes only the steps of its operation.
Routed ==
    \A r \in Requests :
        /\ Started(r) => ask[r] \in Asks
        /\ pc[r] \in {"guard", "refused"} => ask[r].op \in {"get", "post", "logout", "logoutAll"}
        /\ pc[r] \in {"token", "use", "issue", "receive", "retry", "revokeFamily",
                     "revokeSession"} => Page(r)
        /\ pc[r] \in {"endSession", "endTokens"} => ask[r].op = "logout"
        /\ pc[r] \in {"bump", "endAll", "endAllTokens"} => ask[r].op = "logoutAll"
        /\ pc[r] = "clear" => ask[r].op \in {"logout", "logoutAll"}
        /\ pc[r] \in {"lookup", "count", "session", "login", "counters", "welcome"} =>
               ask[r].op \in {"login", "wrong"}
        /\ pc[r] \in {"checkReset", "reset"} => ask[r].op = "reset"

\* Tokens belong to sessions, cookies hold tokens, and nothing is issued twice.
TokenOrNone == DOMAIN tokens \union {None}
Known ==
    /\ First \in sessions
    /\ \A t \in DOMAIN tokens : SessionOf(t) \in sessions
    /\ \A b \in Browsers : jar[b].token \in TokenOrNone
    /\ \A r \in Requests :
        /\ card[r].token \in TokenOrNone /\ offered[r] \in TokenOrNone
        /\ pc[r] \in {"token", "use", "issue", "receive", "retry"} => retried[r]
        /\ pc[r] \in {"use", "issue", "revokeFamily", "revokeSession"} => offered[r] # None
        /\ \/ pc[r] \in {"endSession", "endTokens"}
           \/ pc[r] \in {"clear", "ok"} /\ ask[r].op \in {"get", "post", "logout"}
           => card[r].token # None
        /\ pc[r] = "login" => r \in sessions
        /\ pc[r] \in {"receive", "counters", "welcome"} => r \in DOMAIN tokens
        /\ \/ pc[r] \in {"idle", "lookup", "session", "login", "token", "use", "issue"}
           \/ pc[r] \in {"guard", "refused"} /\ ~retried[r]
           => r \notin DOMAIN tokens

\* What a logout or a reset was sent after is over, and once it has revoked its
\* session, or the sessions there were, they are revoked.
Ended ==
    \A r \in Requests :
        /\ \A q \in after[r] : pc[q] \in Over
        /\ pc[r] \in {"endTokens", "clear", "ok"} /\ ask[r].op = "logout" =>
               SessionOf(card[r].token) \in revoked
        /\ \/ pc[r] \in {"endAllTokens", "clear", "ok"} /\ ask[r].op = "logoutAll"
           \/ pc[r] = "ok" /\ ask[r].op = "reset"
           => (after[r] \union {First}) \intersect sessions \subseteq revoked

\* The inductive invariant of which ClosedForGood is a part.
IInv == TypeOK /\ Routed /\ Known /\ Ended /\ ClosedForGood

(* What RefreshesExplained rests on. *)

\* The browser that a token is sent to, and that its answer is no longer awaited.
Owner(t)   == IF t = First THEN Home ELSE ask[t].browser
Arrived(t) == t = First \/ (t \in DOMAIN tokens /\ pc[t] \notin {"receive", "counters", "welcome"})

\* A browser keeps, and offers, the tokens that were sent to it.
JarsOwn ==
    \A b \in Browsers : jar[b].token # None => Owner(jar[b].token) = b /\ Arrived(jar[b].token)
OffersOwn ==
    \A q \in Requests : offered[q] # None =>
        /\ Page(q) /\ Started(q) /\ retried[q]
        /\ Owner(offered[q]) = ask[q].browser /\ Arrived(offered[q])

\* Whoever got the answer of a refresh holds another token than it offered.
Answered(q) == q \in DOMAIN tokens /\ pc[q] # "receive" /\ q \notin faulty
AnswersMoveOn ==
    \A q \in Requests : offered[q] # None /\ Answered(q) =>
        jar[ask[q].browser].token # offered[q]

\* Two refreshes with one token have met, or one of them was cut off.
Past(q) == Refreshing(q) \/ q \in DOMAIN tokens
OffersMet ==
    \A q, r \in Requests :
        q # r /\ offered[q] = offered[r] /\ offered[r] # None /\ Refreshing(r) /\ Past(q) =>
            {q, r} \in overlaps \/ q \in faulty

\* A spent token was offered by a request that got as far as to use it.
CutOff == \A q \in faulty : pc[q] = "failed"
SpentByOffer ==
    \A t \in spent : \E q \in Requests :
        offered[q] = t /\ (pc[q] = "issue" \/ q \in faulty \/ q \in DOMAIN tokens)

Refreshed == JarsOwn /\ OffersOwn /\ AnswersMoveOn /\ OffersMet /\ CutOff /\ SpentByOffer

(* What CookiesAgree and FailuresCounted rest on. *)

\* A login issues to its own session, a refresh to that of the token it offered,
\* which is the one the browser has the csrf_token of.
Fits(r) ==
    /\ pc[r] \in {"session", "login", "counters", "welcome"} => ask[r].op = "login"
    /\ pc[r] \in {"counters", "welcome"} => SessionOf(r) = r
    /\ pc[r] = "receive" => offered[r] # None /\ SessionOf(r) = SessionOf(offered[r])
    /\ \A b \in Browsers :
          Refreshing(r) /\ offered[r] # None /\ ask[r].browser = b =>
              jar[b].csrf = SessionOf(offered[r]) \/ Crossed(b)

\* Who is about to count a failure has read the counter as it is.
CountInv == Rivals \/ \A r \in Requests : pc[r] = "count" => seen[r].failed = failed

Fitting == CookiesAgree /\ FailuresCounted /\ CountInv /\ \A r \in Requests : Fits(r)

\* Every value has its type, requests, tokens and cookies fit together, and
\* failures are counted.
WellFormed == TypeOK /\ Routed /\ Known /\ Ended /\ Refreshed /\ Fitting

\* Refreshing works for those who wait for the answer, and is refused to the rest.
RefreshesExplained == ReuseExplained /\ NextRefreshWorks

\* docs/PLAYWRIGHT-GUIDE.md:69: whoever logs out and returns to /login loses
\* access.  The code does not keep it: a logout whose access token has expired
\* is refused and not repeated.
LogoutEndsAccess ==
    lapses = Cardinality(lapsed) =>     \* no error in the guard
    \A q \in Requests : pc[q] = "ok" /\ Page(q) =>
        \A r \in after[q] :
            ask[r].op = "logout" /\ r \notin faulty =>
                \/ card[r].token = None
                \/ SessionOf(card[r].token) # SessionOf(card[q].token)
=============================================================================
