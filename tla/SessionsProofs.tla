--------------------------- MODULE SessionsProofs ---------------------------
(* Proofs about Sessions, for any number of requests, browsers and faults.    *)
EXTENDS Sessions, TLAPS

-----------------------------------------------------------------------------
(* What an ask is, and the steps of a request. *)

\* An ask names one of the operations and a browser.
LEMMA AskShape ==
    ASSUME NEW a \in Asks
    PROVE  a.op \in Operations /\ a.browser \in Browsers
BY SessionsAssumption

\* None is nobody's token, and First is no request.
LEMMA NamesDiffer == None \notin Issues /\ First \notin Requests /\ Home \in Browsers
BY SessionsAssumption

LEMMA FirstStepOf ==
    ASSUME NEW op \in Operations
    PROVE  FirstStep[op] = IF op \in {"get", "post", "logout", "logoutAll"} THEN "guard"
                           ELSE IF op = "reset" THEN "checkReset" ELSE "lookup"
BY DEF FirstStep, Operations

\* A step of the server or of a page, but for Send, is taken by a started
\* request, changes pc of that request alone, and leaves what it asked for.
LEMMA ServeShape ==
    ASSUME TypeOK, NEW r \in Requests, Serve(r)
    PROVE  /\ pc[r] \notin Over \union {"idle", "refused", "retry", "receive", "clear"}
           /\ pc' \in [Requests -> Steps] /\ pc' = [pc EXCEPT ![r] = pc'[r]]
           /\ pc'[r] # "idle"
           /\ UNCHANGED <<ask, card, retried, offered, after, overlaps, faulty,
                          lapsed, jar, lapses>>
<1>1. ASSUME Guard(r) \/ ReadToken(r)
      PROVE  /\ pc[r] \in {"guard", "token"}
             /\ \E step \in Steps \ {"idle"} : Goto(r, step)
             /\ UNCHANGED <<ask, card, retried, offered, after, overlaps, faulty,
                            lapsed, jar, lapses>>
  BY <1>1 DEF Guard, ReadToken, Goto, Steps, Over, Quiet, calls, history
<1>2. ASSUME UseToken(r) \/ IssueNext(r) \/ RevokeFamily(r) \/ RevokeSession(r)
      PROVE  /\ pc[r] \in {"use", "issue", "revokeFamily", "revokeSession"}
             /\ \E step \in Steps \ {"idle"} : Goto(r, step)
             /\ UNCHANGED <<ask, card, retried, offered, after, overlaps, faulty,
                            lapsed, jar, lapses>>
  BY <1>2 DEF UseToken, IssueNext, RevokeFamily, RevokeSession, Goto, Steps, Over, Quiet,
              calls, history
<1>3. ASSUME EndSession(r) \/ EndTokens(r) \/ BumpVersion(r) \/ EndAll(r) \/ EndAllTokens(r)
      PROVE  /\ pc[r] \in {"endSession", "endTokens", "bump", "endAll", "endAllTokens"}
             /\ \E step \in Steps \ {"idle"} : Goto(r, step)
             /\ UNCHANGED <<ask, card, retried, offered, after, overlaps, faulty,
                            lapsed, jar, lapses>>
  BY <1>3 DEF EndSession, EndTokens, BumpVersion, EndAll, EndAllTokens, Goto, Steps, Over,
              Quiet, calls, history
<1>4. ASSUME Lookup(r) \/ CountFailure(r) \/ CreateSession(r) \/ IssueFirst(r)
      PROVE  /\ pc[r] \in {"lookup", "count", "session", "login"}
             /\ \E step \in Steps \ {"idle"} : Goto(r, step)
             /\ UNCHANGED <<ask, card, retried, offered, after, overlaps, faulty,
                            lapsed, jar, lapses>>
  BY <1>4 DEF Lookup, CountFailure, CreateSession, IssueFirst, Goto, Steps, Over, Quiet,
              calls, history
<1>5. ASSUME ClearCounters(r) \/ CheckReset(r) \/ Reset(r)
      PROVE  /\ pc[r] \in {"counters", "checkReset", "reset"}
             /\ \E step \in Steps \ {"idle"} : Goto(r, step)
             /\ UNCHANGED <<ask, card, retried, offered, after, overlaps, faulty,
                            lapsed, jar, lapses>>
  BY <1>5 DEF ClearCounters, CheckReset, Reset, Goto, Steps, Over, Quiet, calls, history
<1>6. /\ pc[r] \notin Over \union {"idle", "refused", "retry", "receive", "clear"}
      /\ \E step \in Steps \ {"idle"} : Goto(r, step)
      /\ UNCHANGED <<ask, card, retried, offered, after, overlaps, faulty,
                     lapsed, jar, lapses>>
  BY <1>1, <1>2, <1>3, <1>4, <1>5 DEF Serve, Over
<1>. QED BY <1>6 DEF Goto, TypeOK

\* An error in the guard moves one request, and nothing of the rows or the browsers.
LEMMA GuardFailsShape ==
    ASSUME TypeOK, NEW r \in Requests, GuardFails(r)
    PROVE  /\ pc[r] = "guard" /\ pc' = [pc EXCEPT ![r] = "refused"] /\ pc'[r] = "refused"
           /\ \A q \in Requests \ {r} : pc'[q] = pc[q]
           /\ UNCHANGED <<account, rows, lapsed, jar, ask, card, retried, offered, seen, after,
                          overlaps, faulty, tally>>
           /\ UNCHANGED <<failed, locked, version, resetUsed, sessions, revoked, tokens, spent,
                          dead>>
           /\ lapses' \in Nat \ {0}
BY DEF GuardFails, Goto, TypeOK, account, rows, calls

\* Tokens are only added, by the request they are named after.
LEMMA IssueShape ==
    ASSUME TypeOK, NEW r \in Requests, NEW s \in Issues, AddIssue(r, s), r \notin DOMAIN tokens
    PROVE  /\ DOMAIN tokens' = DOMAIN tokens \union {r}
           /\ tokens' \in [DOMAIN tokens' -> Issue]
           /\ tokens'[r].session = s
           /\ \A t \in DOMAIN tokens : tokens'[t] = tokens[t]
<1>1. seen[r].version \in Nat
  BY DEF TypeOK, Seen
<1>. QED BY <1>1 DEF AddIssue, TypeOK, Issue, Issues

-----------------------------------------------------------------------------
(* What a step does to sessions and tokens. *)

\* Tokens keep their session, what is revoked stays revoked, and the only
\* session a step adds is that of the login that takes it.
RowsGrow ==
    /\ DOMAIN tokens \subseteq DOMAIN tokens'
    /\ \A t \in DOMAIN tokens : tokens'[t] = tokens[t]
    /\ sessions \subseteq sessions'
    /\ revoked \subseteq revoked'
    /\ \A s \in sessions' \ sessions : s \in Requests /\ pc[s] = "session"

\* A step keeps the types, and what rows there are.
LEMMA TypeStep ==
    ASSUME TypeOK, Routed, Known, [Next]_vars
    PROVE  TypeOK' /\ RowsGrow
<1>1. CASE UNCHANGED vars
  BY <1>1 DEF TypeOK, RowsGrow, vars, account, rows, calls, history
<1>2. ASSUME NEW r \in Requests, NEW a \in Asks, Send(r, a)
      PROVE  TypeOK' /\ RowsGrow
  <2>1. a.op \in Operations /\ a.browser \in Browsers
    BY AskShape
  <2>2. FirstStep[a.op] \in Steps
    BY <2>1, FirstStepOf DEF Steps
  <2>3. jar[a.browser] \in Cookies
    BY <2>1 DEF TypeOK
  <2>. QED BY <1>2, <2>1, <2>2, <2>3 DEF TypeOK, RowsGrow, Send, Goto, account, rows
<1>3. ASSUME NEW r \in Requests, Browse(r) \/ Fault(r)
      PROVE  TypeOK' /\ RowsGrow
  <2>1. UNCHANGED <<account, rows, lapsed, seen, after, tally, lapses>>
    BY <1>3 DEF Browse, Offer, GiveUp, Receive, Retry, Clear, Welcome, Fault, Quiet, calls,
                history
  <2>2. Started(r)
    BY <1>3 DEF Browse, Offer, GiveUp, Receive, Retry, Clear, Welcome, Fault, Started
  <2>3. ask[r] \in Asks /\ ask[r].browser \in Browsers
    BY <2>2, AskShape DEF Routed
  <2>4. jar[ask[r].browser] \in Cookies
    BY <2>3 DEF TypeOK
  <2>5. CASE Offer(r)
    <3>1. jar[ask[r].browser].token \in Issues \union {None}
      BY <2>4 DEF Cookies
    <3>2. overlaps' \subseteq SUBSET Requests
      BY <2>5 DEF Offer, TypeOK
    <3>. QED BY <2>1, <2>5, <3>1, <3>2 DEF TypeOK, RowsGrow, Offer, Goto, Steps, account, rows
  <2>6. CASE GiveUp(r) \/ Retry(r)
    BY <2>1, <2>4, <2>6 DEF TypeOK, RowsGrow, GiveUp, Retry, Goto, Steps, Over, Quiet, account,
                            rows, calls, history
  <2>7. CASE Receive(r) \/ Clear(r) \/ Welcome(r)
    <3>1. NoCookies \in Cookies /\ [token |-> r, csrf |-> r] \in Cookies
      BY DEF NoCookies, Cookies, Issues
    <3>2. [jar[ask[r].browser] EXCEPT !.token = r] \in Cookies
      BY <2>4 DEF Cookies, Issues
    <3>3. \E c \in Cookies : jar' = [jar EXCEPT ![ask[r].browser] = c]
      BY <2>7, <3>1, <3>2 DEF Receive, Store, Clear, Welcome
    <3>4. jar' \in [Browsers -> Cookies]
      BY <2>3, <3>3 DEF TypeOK
    <3>. QED BY <2>1, <2>7, <3>4 DEF TypeOK, RowsGrow, Receive, Clear, Welcome, Goto, Steps, Over,
                                     account, rows, calls, history
  <2>8. CASE Fault(r)
    BY <2>1, <2>8 DEF TypeOK, RowsGrow, Fault, Goto, Steps, Over, account, rows, calls
  <2>. QED BY <1>3, <2>5, <2>6, <2>7, <2>8 DEF Browse
<1>4. ASSUME NEW r \in Requests, Serve(r)
      PROVE  TypeOK' /\ RowsGrow
  <2>1. /\ pc' \in [Requests -> Steps]
        /\ UNCHANGED <<ask, card, retried, offered, after, overlaps, faulty, lapsed, jar,
                       lapses>>
    BY <1>4, ServeShape
  <2>2. card[r].token \in DOMAIN tokens \union {None}
    BY DEF Known, TokenOrNone
  <2>3. offered[r] \in DOMAIN tokens \union {None}
    BY DEF Known, TokenOrNone
  <2>4. \A t \in DOMAIN tokens : SessionOf(t) \in sessions /\ SessionOf(t) \in Issues
    BY DEF Known, TypeOK
  <2>5. CASE Guard(r) \/ CheckReset(r)
    BY <2>1, <2>5 DEF TypeOK, RowsGrow, Guard, CheckReset, Quiet, account, rows, calls, history
  <2>6. CASE ReadToken(r) \/ Lookup(r)
    <3>1. seen[r] \in Seen /\ failed \in Nat /\ version \in Nat
      BY DEF TypeOK
    <3>2. \E w \in Seen : seen' = [seen EXCEPT ![r] = w]
      <4>1. [seen[r] EXCEPT !.version = version] \in Seen
            /\ [failed |-> failed, version |-> version] \in Seen
        BY <3>1 DEF Seen
      <4>. QED BY <2>6, <4>1 DEF ReadToken, Lookup
    <3>3. seen' \in [Requests -> Seen]
      BY <3>2 DEF TypeOK
    <3>. QED BY <2>1, <2>6, <3>3 DEF TypeOK, RowsGrow, ReadToken, Lookup, Quiet, account, rows,
                                     history
  <2>7. CASE UseToken(r) \/ RevokeFamily(r) \/ RevokeSession(r)
    <3>1. offered[r] \in DOMAIN tokens
      BY <2>3, <2>7 DEF UseToken, RevokeFamily, RevokeSession, Known
    <3>. QED BY <2>1, <2>4, <2>7, <3>1
             DEF TypeOK, RowsGrow, UseToken, RevokeFamily, RevokeSession, TokensOf, Quiet,
                 account, calls, history
  <2>8. CASE IssueNext(r)
    <3>1. offered[r] \in DOMAIN tokens /\ r \notin DOMAIN tokens
      BY <2>3, <2>8 DEF IssueNext, Known
    <3>2. AddIssue(r, SessionOf(offered[r]))
      BY <2>8 DEF IssueNext
    <3>3. /\ DOMAIN tokens' = DOMAIN tokens \union {r}
          /\ tokens' \in [DOMAIN tokens' -> Issue]
          /\ \A t \in DOMAIN tokens : tokens'[t] = tokens[t]
      BY <2>4, <3>1, <3>2, IssueShape
    <3>. QED BY <2>1, <2>8, <3>3
             DEF TypeOK, RowsGrow, IssueNext, Quiet, account, calls, history, Issues
  <2>9. CASE IssueFirst(r)
    <3>1. r \notin DOMAIN tokens /\ AddIssue(r, r) /\ r \in Issues
      BY <2>9 DEF IssueFirst, Known, Issues
    <3>2. /\ DOMAIN tokens' = DOMAIN tokens \union {r}
          /\ tokens' \in [DOMAIN tokens' -> Issue]
          /\ \A t \in DOMAIN tokens : tokens'[t] = tokens[t]
      BY <3>1, IssueShape
    <3>. QED BY <2>1, <2>9, <3>2
             DEF TypeOK, RowsGrow, IssueFirst, Quiet, account, calls, history, Issues
  <2>10. CASE EndSession(r) \/ EndTokens(r)
    <3>1. card[r].token \in DOMAIN tokens
      BY <2>2, <2>10 DEF EndSession, EndTokens, Known
    <3>. QED BY <2>1, <2>4, <2>10, <3>1
             DEF TypeOK, RowsGrow, EndSession, EndTokens, TokensOf, Quiet, account, calls,
                 history
  <2>11. CASE BumpVersion(r) \/ EndAll(r) \/ EndAllTokens(r)
    BY <2>1, <2>11 DEF TypeOK, RowsGrow, BumpVersion, EndAll, EndAllTokens, Quiet, account,
                       rows, calls, history
  <2>12. CASE CreateSession(r)
    BY <2>1, <2>12 DEF TypeOK, RowsGrow, CreateSession, Quiet, account, calls, history, Issues
  <2>13. CASE CountFailure(r)
    <3>1. seen[r].failed + 1 \in Nat /\ tally + 1 \in Nat
      BY DEF TypeOK, Seen
    <3>2. locked' \in BOOLEAN
      BY <2>13 DEF CountFailure, Locks
    <3>. QED BY <2>1, <2>13, <3>1, <3>2 DEF TypeOK, RowsGrow, CountFailure, rows, calls
  <2>14. CASE ClearCounters(r) \/ Reset(r)
    <3>1. /\ failed' = 0 /\ tally' = 0 /\ locked' \in BOOLEAN /\ resetUsed' \in BOOLEAN
          /\ version' \in {version, version + 1}
          /\ revoked' \in {revoked, sessions} /\ dead' \in {dead, DOMAIN tokens}
          /\ UNCHANGED <<sessions, tokens, spent, seen>>
      BY <2>14 DEF TypeOK, ClearCounters, Reset, ClearCounter, rows, calls
    <3>. QED BY <2>1, <3>1 DEF TypeOK, RowsGrow
  <2>. QED BY <1>4, <2>5, <2>6, <2>7, <2>8, <2>9, <2>10, <2>11, <2>12, <2>13, <2>14 DEF Serve
<1>5. ASSUME NEW t \in Issues, AccessLapses(t)
      PROVE  TypeOK' /\ RowsGrow
  BY <1>5 DEF TypeOK, RowsGrow, AccessLapses, account, rows, calls
<1>6. CASE LockLapses
  <2>1. locked' \in BOOLEAN
    BY <1>6, Zenon DEF LockLapses
  <2>2. lapses' \in Nat
    BY <1>6 DEF LockLapses, TypeOK
  <2>. QED BY <1>6, <2>1, <2>2 DEF TypeOK, RowsGrow, LockLapses, rows, calls
<1>7. ASSUME NEW r \in Requests, GuardFails(r)
      PROVE  TypeOK' /\ RowsGrow
  BY <1>7, GuardFailsShape DEF TypeOK, RowsGrow, Steps
<1>. QED BY <1>1, <1>2, <1>3, <1>4, <1>5, <1>6, <1>7 DEF Next

-----------------------------------------------------------------------------
(* Requests stay on the way of their operation. *)

\* The step a request is at, and what was asked, agree.
RightWay(step, a) ==
    /\ step # "idle" => a \in Asks
    /\ step \in {"guard", "refused"} => a.op \in {"get", "post", "logout", "logoutAll"}
    /\ step \in {"token", "use", "issue", "receive", "retry", "revokeFamily",
                 "revokeSession"} => a.op \in {"get", "post"}
    /\ step \in {"endSession", "endTokens"} => a.op = "logout"
    /\ step \in {"bump", "endAll", "endAllTokens"} => a.op = "logoutAll"
    /\ step = "clear" => a.op \in {"logout", "logoutAll"}
    /\ step \in {"lookup", "count", "session", "login", "counters", "welcome"} =>
           a.op \in {"login", "wrong"}
    /\ step \in {"checkReset", "reset"} => a.op = "reset"

LEMMA RoutedIsRightWay == Routed <=> \A r \in Requests : RightWay(pc[r], ask[r])
BY DEF Routed, RightWay, Started, Page

\* A step of the server or of a page keeps a request on its way.
LEMMA ServeKeepsWay ==
    ASSUME TypeOK, NEW r \in Requests, RightWay(pc[r], ask[r]), Serve(r)
    PROVE  RightWay(pc'[r], ask[r])
<1>. USE DEF RightWay, Goto, TypeOK
<1>1. CASE Guard(r)
  <2>1. ask[r].op \in {"get", "post", "logout", "logoutAll"} /\ ask[r] \in Asks
    BY <1>1 DEF Guard
  <2>2. pc'[r] = IF ~Admits(card[r], ask[r].op) THEN "refused"
                 ELSE CASE ask[r].op = "logout" -> "endSession"
                        [] ask[r].op = "logoutAll" -> "bump"
                        [] OTHER -> "ok"
    BY <1>1 DEF Guard
  <2>. QED BY <2>1, <2>2
<1>2. CASE ReadToken(r) \/ UseToken(r) \/ IssueNext(r) \/ RevokeFamily(r) \/ RevokeSession(r)
  BY <1>2 DEF ReadToken, UseToken, IssueNext, RevokeFamily, RevokeSession
<1>3. CASE EndSession(r) \/ EndTokens(r) \/ BumpVersion(r) \/ EndAll(r) \/ EndAllTokens(r)
  BY <1>3 DEF EndSession, EndTokens, BumpVersion, EndAll, EndAllTokens
<1>4. CASE Lookup(r) \/ CountFailure(r) \/ CreateSession(r) \/ IssueFirst(r)
  BY <1>4 DEF Lookup, CountFailure, CreateSession, IssueFirst
<1>5. CASE ClearCounters(r) \/ CheckReset(r) \/ Reset(r)
  BY <1>5 DEF ClearCounters, CheckReset, Reset
<1>. QED BY <1>1, <1>2, <1>3, <1>4, <1>5 DEF Serve

LEMMA BrowseKeepsWay ==
    ASSUME TypeOK, NEW r \in Requests, RightWay(pc[r], ask[r]), Browse(r) \/ Fault(r)
    PROVE  RightWay(pc'[r], ask[r]) /\ ask' = ask
BY DEF RightWay, Goto, TypeOK, Browse, Offer, GiveUp, Receive, Retry, Clear, Welcome, Fault,
       calls, Over

\* The request a step is taken by, and no other, is somewhere else after it.
LEMMA BrowseShape ==
    ASSUME TypeOK, NEW r \in Requests, Browse(r) \/ Fault(r)
    PROVE  /\ pc[r] \notin Over \union {"idle"}
           /\ pc' = [pc EXCEPT ![r] = pc'[r]]
           /\ UNCHANGED <<account, rows, ask, after, seen>>
BY DEF Goto, TypeOK, Browse, Offer, GiveUp, Receive, Retry, Clear, Welcome, Fault,
       calls, Over, Quiet, history, account, rows

LEMMA RoutedStep ==
    ASSUME TypeOK, Routed, [Next]_vars
    PROVE  Routed'
<1>. SUFFICES \A q \in Requests : RightWay(pc'[q], ask'[q])
  BY DEF Routed, RightWay, Started, Page
<1>0. \A q \in Requests : RightWay(pc[q], ask[q])
  BY RoutedIsRightWay
<1>1. CASE UNCHANGED <<pc, ask>>
  BY <1>0, <1>1
<1>2. ASSUME NEW r \in Requests, NEW a \in Asks, Send(r, a)
      PROVE  \A q \in Requests : RightWay(pc'[q], ask'[q])
  <2>1. a.op \in Operations
    BY AskShape
  <2>2. RightWay(FirstStep[a.op], a)
    BY <2>1, FirstStepOf DEF RightWay, Operations
  <2>3. /\ pc' = [pc EXCEPT ![r] = FirstStep[a.op]]
        /\ ask' = [ask EXCEPT ![r] = a]
    BY <1>2 DEF Send, Goto
  <2>. QED BY <1>0, <2>2, <2>3 DEF TypeOK
<1>3. ASSUME NEW r \in Requests, Serve(r)
      PROVE  \A q \in Requests : RightWay(pc'[q], ask'[q])
  BY <1>0, <1>3, ServeShape, ServeKeepsWay DEF TypeOK
<1>4. ASSUME NEW r \in Requests, Browse(r) \/ Fault(r)
      PROVE  \A q \in Requests : RightWay(pc'[q], ask'[q])
  BY <1>0, <1>4, BrowseShape, BrowseKeepsWay DEF TypeOK
<1>5. ASSUME NEW t \in Issues, AccessLapses(t)
      PROVE  UNCHANGED <<pc, ask>>
  BY <1>5 DEF AccessLapses, calls
<1>6. CASE LockLapses
  BY <1>1, <1>6 DEF LockLapses, calls
<1>7. ASSUME NEW r \in Requests, GuardFails(r)
      PROVE  \A q \in Requests : RightWay(pc'[q], ask'[q])
  BY <1>0, <1>7, GuardFailsShape DEF RightWay
<1>. QED BY <1>1, <1>2, <1>3, <1>4, <1>5, <1>6, <1>7 DEF Next, vars, calls

-----------------------------------------------------------------------------
(* Sessions, tokens and cookies stay known. *)

\* What Known says of one request: where it is, the tokens of its cookies and
\* of its refresh, and whether it has added a session and a token.
Holds(r) ==
    /\ card[r].token \in TokenOrNone /\ offered[r] \in TokenOrNone
    /\ pc[r] \in {"token", "use", "issue", "receive", "retry"} => retried[r]
    /\ pc[r] \in {"use", "issue", "revokeFamily", "revokeSession"} => offered[r] # None
    /\ \/ pc[r] \in {"endSession", "endTokens"}
       \/ pc[r] \in {"clear", "ok"} /\ ask[r].op \in {"get", "post", "logout"}
       => card[r].token # None
    /\ pc[r] = "login" => r \in sessions
    /\ pc[r] \in {"receive", "counters", "welcome"} => r \in DOMAIN tokens
    /\ \/ pc[r] \in {"idle", "lookup", "session", "login", "token", "use", "issue"}
       \/ pc[r] \in {"guard", "refused"} /\ ~retried[r]
       => r \notin DOMAIN tokens

LEMMA KnownHolds ==
    Known <=> /\ First \in sessions
              /\ \A t \in DOMAIN tokens : SessionOf(t) \in sessions
              /\ \A b \in Browsers : jar[b].token \in TokenOrNone
              /\ \A r \in Requests : Holds(r)
BY DEF Known, Holds

\* A request that a step leaves where it is still holds what it held, unless the
\* step issues a token in its name.
LEMMA HoldsStays ==
    ASSUME NEW q \in Requests, Holds(q), RowsGrow,
           q \in DOMAIN tokens' => q \in DOMAIN tokens,
           pc'[q] = pc[q], ask'[q] = ask[q], card'[q] = card[q], offered'[q] = offered[q],
           retried'[q] = retried[q]
    PROVE  Holds(q)'
BY DEF Holds, RowsGrow, TokenOrNone

\* A step of the server issues nothing, or one token in the request's own name.
LEMMA ServeIssues ==
    ASSUME TypeOK, Known, NEW r \in Requests, Serve(r)
    PROVE  \/ UNCHANGED tokens
           \/ /\ pc[r] \in {"issue", "login"}
              /\ DOMAIN tokens' = DOMAIN tokens \union {r}
              /\ tokens'[r].session \in sessions
              /\ \A t \in DOMAIN tokens : tokens'[t] = tokens[t]
<1>1. CASE IssueNext(r)
  <2>1. /\ pc[r] = "issue" /\ r \notin DOMAIN tokens /\ offered[r] \in DOMAIN tokens
        /\ AddIssue(r, SessionOf(offered[r]))
    BY <1>1 DEF IssueNext, Known, TokenOrNone
  <2>2. SessionOf(offered[r]) \in sessions /\ SessionOf(offered[r]) \in Issues
    BY <2>1 DEF Known, TypeOK
  <2>. QED BY <2>1, <2>2, IssueShape
<1>2. CASE IssueFirst(r)
  <2>1. pc[r] = "login" /\ r \notin DOMAIN tokens /\ AddIssue(r, r) /\ r \in sessions
    BY <1>2 DEF IssueFirst, Known
  <2>2. r \in Issues
    BY DEF Issues
  <2>. QED BY <2>1, <2>2, IssueShape
<1>3. CASE Guard(r) \/ ReadToken(r) \/ UseToken(r) \/ RevokeFamily(r) \/ RevokeSession(r)
  BY <1>3 DEF Guard, ReadToken, UseToken, RevokeFamily, RevokeSession, rows
<1>4. CASE EndSession(r) \/ EndTokens(r) \/ BumpVersion(r) \/ EndAll(r) \/ EndAllTokens(r)
  BY <1>4 DEF EndSession, EndTokens, BumpVersion, EndAll, EndAllTokens, rows
<1>5. CASE Lookup(r) \/ CountFailure(r) \/ CreateSession(r) \/ ClearCounters(r)
           \/ CheckReset(r) \/ Reset(r)
  BY <1>5 DEF Lookup, CountFailure, CreateSession, ClearCounters, CheckReset, Reset, rows
<1>. QED BY <1>1, <1>2, <1>3, <1>4, <1>5 DEF Serve

LEMMA ServeHolds ==
    ASSUME TypeOK, Routed, Known, NEW r \in Requests, Serve(r), RowsGrow
    PROVE  Holds(r)'
<1>1. Holds(r)
  BY KnownHolds
<1>2. RightWay(pc[r], ask[r])
  BY RoutedIsRightWay
<1>3. UNCHANGED <<ask, card, retried, offered>>
  BY ServeShape
<1>4. DOMAIN tokens \subseteq DOMAIN tokens' /\ sessions \subseteq sessions'
  BY DEF RowsGrow
<1>. USE <1>1, <1>3, <1>4 DEF Holds, TokenOrNone, Goto, TypeOK
<1>5. CASE Guard(r)
  <2>1. pc[r] = "guard" /\ tokens' = tokens
    BY <1>5 DEF Guard, rows
  <2>2. pc'[r] = "refused" \/ (Admits(card[r], ask[r].op) /\ pc'[r] \in {"endSession", "bump", "ok"})
    BY <1>5 DEF Guard
  <2>3. Admits(card[r], ask[r].op) => card[r].token # None
    BY DEF Admits
  <2>. QED BY <2>1, <2>2, <2>3
<1>6. CASE ReadToken(r)
  BY <1>6 DEF ReadToken, Usable, rows
<1>7. CASE UseToken(r) \/ RevokeFamily(r) \/ RevokeSession(r)
  BY <1>7 DEF UseToken, RevokeFamily, RevokeSession
<1>8. CASE IssueNext(r) \/ IssueFirst(r)
  <2>1. r \in DOMAIN tokens'
    BY <1>8 DEF IssueNext, IssueFirst, AddIssue
  <2>2. (pc'[r] = "receive" /\ retried[r]) \/ pc'[r] = "counters"
    BY <1>8 DEF IssueNext, IssueFirst
  <2>. QED BY <2>1, <2>2
<1>9. CASE EndSession(r) \/ EndTokens(r) \/ BumpVersion(r) \/ EndAll(r) \/ EndAllTokens(r)
  BY <1>2, <1>9 DEF EndSession, EndTokens, BumpVersion, EndAll, EndAllTokens, RightWay
<1>10. CASE Lookup(r) \/ CountFailure(r) \/ CreateSession(r)
  BY <1>10 DEF Lookup, CountFailure, CreateSession, rows
<1>11. CASE ClearCounters(r) \/ CheckReset(r) \/ Reset(r)
  BY <1>2, <1>11 DEF ClearCounters, CheckReset, Reset, RightWay
<1>. QED BY <1>5, <1>6, <1>7, <1>8, <1>9, <1>10, <1>11 DEF Serve

\* A step of a page puts only known tokens in cookies, and its request holds on.
LEMMA BrowseHolds ==
    ASSUME TypeOK, Routed, Known, NEW r \in Requests, Browse(r) \/ Fault(r)
    PROVE  /\ Holds(r)'
           /\ \A b \in Browsers : jar'[b].token \in TokenOrNone
           /\ \A q \in Requests \ {r} : /\ card'[q] = card[q] /\ offered'[q] = offered[q]
                                        /\ retried'[q] = retried[q]
<1>1. Holds(r) /\ RightWay(pc[r], ask[r])
  BY KnownHolds, RoutedIsRightWay
<1>2. UNCHANGED <<tokens, sessions, ask>>
  BY BrowseShape DEF rows
<1>3. ask[r].browser \in Browsers
  <2>1. pc[r] # "idle"
    BY BrowseShape
  <2>. QED BY <1>1, <2>1, AskShape DEF RightWay
<1>4. jar[ask[r].browser].token \in TokenOrNone /\ (\A b \in Browsers : jar[b].token \in TokenOrNone)
  BY <1>3 DEF Known
<1>. USE <1>1, <1>2 DEF Holds, TokenOrNone, Goto, TypeOK
<1>5. CASE Offer(r)
  BY <1>3, <1>4, <1>5 DEF Offer
<1>6. CASE GiveUp(r)
  BY <1>4, <1>6 DEF GiveUp, calls, Quiet
<1>7. CASE Receive(r)
  <2>1. r \in DOMAIN tokens /\ jar' = [jar EXCEPT ![ask[r].browser].token = r]
    BY <1>7 DEF Receive, Store
  <2>2. \A b \in Browsers : jar'[b].token \in TokenOrNone
    BY <1>3, <1>4, <2>1 DEF Cookies
  <2>. QED BY <1>7, <2>2 DEF Receive, calls
<1>8. CASE Retry(r)
  <2>1. UNCHANGED <<jar, offered, retried>> /\ card' = [card EXCEPT ![r] = jar[ask[r].browser]]
    BY <1>8 DEF Retry, Quiet
  <2>2. retried[r]
    BY <1>8 DEF Retry, Holds
  <2>. QED BY <1>4, <1>8, <2>1, <2>2 DEF Retry
<1>9. CASE Clear(r)
  <2>1. jar' = [jar EXCEPT ![ask[r].browser] = NoCookies] /\ UNCHANGED calls /\ pc'[r] = "ok"
    BY <1>9 DEF Clear
  <2>2. \A b \in Browsers : jar'[b].token \in TokenOrNone
    BY <1>3, <1>4, <2>1 DEF NoCookies
  <2>. QED BY <1>9, <2>1, <2>2 DEF Clear, calls
<1>10. CASE Welcome(r)
  <2>1. /\ jar' = [jar EXCEPT ![ask[r].browser] = [token |-> r, csrf |-> r]]
        /\ UNCHANGED calls /\ pc'[r] = "ok" /\ r \in DOMAIN tokens
    BY <1>10 DEF Welcome
  <2>2. \A b \in Browsers : jar'[b].token \in TokenOrNone
    BY <1>3, <1>4, <2>1
  <2>3. ask[r].op \in {"login", "wrong"}
    BY <1>10 DEF Welcome, RightWay
  <2>. QED BY <2>1, <2>2, <2>3 DEF calls
<1>11. CASE Fault(r)
  BY <1>4, <1>11 DEF Fault, calls
<1>. QED BY <1>5, <1>6, <1>7, <1>8, <1>9, <1>10, <1>11 DEF Browse

LEMMA KnownStep ==
    ASSUME TypeOK, Routed, Known, [Next]_vars, RowsGrow
    PROVE  Known'
<1>. SUFFICES /\ First \in sessions'
              /\ \A t \in DOMAIN tokens' : tokens'[t].session \in sessions'
              /\ \A b \in Browsers : jar'[b].token \in TokenOrNone'
              /\ \A q \in Requests : Holds(q)'
  BY DEF Known, Holds, SessionOf
<1>0. /\ First \in sessions
      /\ \A t \in DOMAIN tokens : tokens[t].session \in sessions
      /\ \A b \in Browsers : jar[b].token \in TokenOrNone
      /\ \A q \in Requests : Holds(q)
  BY KnownHolds DEF SessionOf
<1>1. sessions \subseteq sessions' /\ TokenOrNone \subseteq TokenOrNone'
  BY DEF RowsGrow, TokenOrNone
<1>3. ASSUME NEW r \in Requests, NEW a \in Asks, Send(r, a)
      PROVE  /\ UNCHANGED <<sessions, tokens, jar>>
             /\ \A q \in Requests : Holds(q)'
  <2>1. UNCHANGED <<sessions, tokens, jar, retried, offered>>
    BY <1>3 DEF Send, rows
  <2>2. a.op \in Operations /\ a.browser \in Browsers
    BY AskShape
  <2>3. pc[r] = "idle" /\ pc'[r] \in {"guard", "checkReset", "lookup"}
    BY <1>3, <2>2, FirstStepOf DEF Send, Goto, TypeOK
  <2>4. card'[r].token \in TokenOrNone'
    BY <1>0, <1>1, <1>3, <2>2 DEF Send, TypeOK
  <2>5. Holds(r)'
    BY <1>0, <2>1, <2>3, <2>4 DEF Holds, TokenOrNone
  <2>6. ASSUME NEW q \in Requests, q # r
        PROVE  Holds(q)'
    BY <1>0, <1>3, <2>1, <2>6, HoldsStays DEF Send, Goto, TypeOK
  <2>. QED BY <2>1, <2>5, <2>6
<1>4. ASSUME NEW r \in Requests, Serve(r)
      PROVE  /\ \A t \in DOMAIN tokens' : tokens'[t].session \in sessions'
             /\ UNCHANGED jar
             /\ \A q \in Requests : Holds(q)'
  <2>1. \/ UNCHANGED tokens
        \/ /\ DOMAIN tokens' = DOMAIN tokens \union {r}
           /\ tokens'[r].session \in sessions
           /\ \A t \in DOMAIN tokens : tokens'[t] = tokens[t]
    BY <1>4, ServeIssues
  <2>2. \A t \in DOMAIN tokens' : tokens'[t].session \in sessions'
    BY <1>0, <1>1, <2>1
  <2>3. UNCHANGED <<jar, ask, card, retried, offered>> /\ pc' = [pc EXCEPT ![r] = pc'[r]]
    BY <1>4, ServeShape
  <2>4. ASSUME NEW q \in Requests, q # r
        PROVE  Holds(q)'
    <3>1. q \in DOMAIN tokens' => q \in DOMAIN tokens
      BY <2>1, <2>4
    <3>2. pc'[q] = pc[q]
      BY <2>3, <2>4 DEF TypeOK
    <3>. QED BY <1>0, <2>3, <3>1, <3>2, HoldsStays
  <2>. QED BY <1>4, <2>2, <2>3, <2>4, ServeHolds
<1>5. ASSUME NEW r \in Requests, Browse(r) \/ Fault(r)
      PROVE  /\ UNCHANGED <<sessions, tokens>>
             /\ \A b \in Browsers : jar'[b].token \in TokenOrNone
             /\ \A q \in Requests : Holds(q)'
  <2>1. UNCHANGED <<sessions, tokens, ask>> /\ pc' = [pc EXCEPT ![r] = pc'[r]]
    BY <1>5, BrowseShape DEF rows
  <2>2. /\ Holds(r)'
        /\ \A b \in Browsers : jar'[b].token \in TokenOrNone
        /\ \A q \in Requests \ {r} : /\ card'[q] = card[q] /\ offered'[q] = offered[q]
                                     /\ retried'[q] = retried[q]
    BY <1>5, BrowseHolds
  <2>3. ASSUME NEW q \in Requests, q # r
        PROVE  Holds(q)'
    <3>1. pc'[q] = pc[q]
      BY <2>1, <2>3 DEF TypeOK
    <3>. QED BY <1>0, <2>1, <2>2, <2>3, <3>1, HoldsStays
  <2>. QED BY <2>1, <2>2, <2>3
<1>6. ASSUME NEW t \in Issues, AccessLapses(t)
      PROVE  UNCHANGED <<sessions, tokens, jar, pc, ask, card, offered, retried>>
  BY <1>6 DEF AccessLapses, rows, calls
<1>7. ASSUME LockLapses
      PROVE  UNCHANGED <<sessions, tokens, jar, pc, ask, card, offered, retried>>
  BY <1>7 DEF LockLapses, rows, calls
<1>8. ASSUME UNCHANGED vars
      PROVE  UNCHANGED <<sessions, tokens, jar, pc, ask, card, offered, retried>>
  BY <1>8 DEF vars, rows, calls
<1>9. CASE UNCHANGED <<sessions, tokens, jar, pc, ask, card, offered, retried>>
  BY <1>0, <1>9 DEF Holds, TokenOrNone
<1>10. ASSUME NEW r \in Requests, GuardFails(r)
       PROVE  /\ UNCHANGED <<sessions, tokens, jar>>
              /\ \A q \in Requests : Holds(q)'
  <2>1. /\ pc[r] = "guard" /\ pc'[r] = "refused" /\ \A q \in Requests \ {r} : pc'[q] = pc[q]
        /\ UNCHANGED <<sessions, tokens, jar, ask, card, offered, retried>>
    BY <1>10, GuardFailsShape
  <2>. QED BY <1>0, <2>1 DEF Holds, TokenOrNone
<1>. QED BY <1>0, <1>1, <1>3, <1>4, <1>5, <1>6, <1>7, <1>8, <1>9, <1>10 DEF Next

-----------------------------------------------------------------------------
(* What was ended stays ended. *)

\* What is over is over: a step leaves a finished request as it is.
LEMMA OverIsOver ==
    ASSUME TypeOK, Routed, Known, [Next]_vars, NEW q \in Requests, pc[q] \in Over
    PROVE  UNCHANGED <<pc[q], ask[q], card[q], after[q]>>
<1>1. ASSUME NEW r \in Requests, NEW a \in Asks, Send(r, a)
      PROVE  UNCHANGED <<pc[q], ask[q], card[q], after[q]>>
  BY <1>1 DEF Send, Goto, TypeOK, Over
<1>2. ASSUME NEW r \in Requests, Serve(r)
      PROVE  UNCHANGED <<pc[q], ask[q], card[q], after[q]>>
  BY <1>2, ServeShape DEF TypeOK
<1>3. ASSUME NEW r \in Requests, Browse(r) \/ Fault(r)
      PROVE  UNCHANGED <<pc[q], ask[q], card[q], after[q]>>
  <2>1. r # q /\ pc'[q] = pc[q] /\ UNCHANGED <<ask, after>>
    BY <1>3, BrowseShape DEF TypeOK
  <2>2. card'[q] = card[q]
    BY <1>3, <2>1, BrowseHolds
  <2>. QED BY <2>1, <2>2
<1>4. ASSUME NEW t \in Issues, AccessLapses(t)
      PROVE  UNCHANGED <<pc[q], ask[q], card[q], after[q]>>
  BY <1>4 DEF AccessLapses, calls
<1>5. CASE LockLapses
  BY <1>5 DEF LockLapses, calls
<1>6. CASE UNCHANGED vars
  BY <1>6 DEF vars, calls, history
<1>7. ASSUME NEW r \in Requests, GuardFails(r)
      PROVE  UNCHANGED <<pc[q], ask[q], card[q], after[q]>>
  <2>1. r # q
    BY <1>7, GuardFailsShape DEF Over
  <2>. QED BY <1>7, <2>1, GuardFailsShape
<1>. QED BY <1>1, <1>2, <1>3, <1>4, <1>5, <1>6, <1>7 DEF Next

\* What Ended says of one request.
AfterIsOver(r) == \A q \in after[r] : pc[q] \in Over
EndedOne(r) ==
    pc[r] \in {"endTokens", "clear", "ok"} /\ ask[r].op = "logout" =>
        SessionOf(card[r].token) \in revoked
EndedAll(r) ==
    \/ pc[r] \in {"endAllTokens", "clear", "ok"} /\ ask[r].op = "logoutAll"
    \/ pc[r] = "ok" /\ ask[r].op = "reset"
    => (after[r] \union {First}) \intersect sessions \subseteq revoked

LEMMA EndedParts ==
    Ended <=> \A r \in Requests : AfterIsOver(r) /\ EndedOne(r) /\ EndedAll(r)
BY DEF Ended, AfterIsOver, EndedOne, EndedAll

\* A request that a step leaves where it is has ended what it had: no step adds
\* a session in the name of a request that was over.
LEMMA EndedStays ==
    ASSUME TypeOK, Routed, Known, Ended, [Next]_vars, RowsGrow, NEW q \in Requests,
           pc'[q] = pc[q], ask'[q] = ask[q], card'[q] = card[q], after'[q] = after[q]
    PROVE  AfterIsOver(q)' /\ EndedOne(q)' /\ EndedAll(q)'
<1>1. AfterIsOver(q) /\ EndedOne(q) /\ EndedAll(q)
  BY EndedParts
<1>2. after[q] \subseteq Requests
  BY DEF TypeOK
<1>3. \A p \in after[q] : pc'[p] = pc[p] /\ pc[p] \in Over
  BY <1>1, <1>2, OverIsOver DEF AfterIsOver
<1>4. AfterIsOver(q)'
  BY <1>3 DEF AfterIsOver
<1>5. EndedOne(q)'
  <2>1. SUFFICES ASSUME pc[q] \in {"endTokens", "clear", "ok"}, ask[q].op = "logout"
                 PROVE  tokens'[card[q].token].session \in revoked'
    BY DEF EndedOne, SessionOf
  <2>2. card[q].token \in DOMAIN tokens
    BY <2>1 DEF Known, TokenOrNone
  <2>. QED BY <1>1, <2>1, <2>2 DEF EndedOne, SessionOf, RowsGrow
<1>6. (after[q] \union {First}) \intersect sessions' \subseteq sessions
  BY <1>3, NamesDiffer DEF RowsGrow, Over, Known
<1>7. EndedAll(q)'
  BY <1>1, <1>6 DEF EndedAll, RowsGrow
<1>. QED BY <1>4, <1>5, <1>7

LEMMA EndedStep ==
    ASSUME TypeOK, Routed, Known, Ended, [Next]_vars, RowsGrow
    PROVE  Ended'
<1>. SUFFICES \A q \in Requests : AfterIsOver(q)' /\ EndedOne(q)' /\ EndedAll(q)'
  BY DEF Ended, AfterIsOver, EndedOne, EndedAll
<1>1. ASSUME NEW r \in Requests, NEW a \in Asks, Send(r, a)
      PROVE  \A q \in Requests : AfterIsOver(q)' /\ EndedOne(q)' /\ EndedAll(q)'
  <2>1. a.op \in Operations
    BY AskShape
  <2>2. pc[r] = "idle" /\ pc'[r] \in {"guard", "checkReset", "lookup"}
    BY <1>1, <2>1, FirstStepOf DEF Send, Goto, TypeOK
  <2>3. after'[r] = {q \in Requests : pc[q] \in Over}
    BY <1>1 DEF Send, TypeOK
  <2>4. AfterIsOver(r)'
    BY <2>3, OverIsOver DEF AfterIsOver
  <2>5. EndedOne(r)' /\ EndedAll(r)'
    BY <2>2 DEF EndedOne, EndedAll
  <2>6. \A q \in Requests \ {r} :
            pc'[q] = pc[q] /\ ask'[q] = ask[q] /\ card'[q] = card[q] /\ after'[q] = after[q]
    BY <1>1 DEF Send, Goto, TypeOK
  <2>. QED BY <2>4, <2>5, <2>6, EndedStays
<1>2. ASSUME NEW r \in Requests, Serve(r)
      PROVE  \A q \in Requests : AfterIsOver(q)' /\ EndedOne(q)' /\ EndedAll(q)'
  <2>1. /\ UNCHANGED <<ask, card, after>> /\ pc' = [pc EXCEPT ![r] = pc'[r]]
        /\ pc[r] \notin Over
    BY <1>2, ServeShape
  <2>2. \A q \in Requests \ {r} : pc'[q] = pc[q]
    BY <2>1 DEF TypeOK
  <2>3. AfterIsOver(r)'
    <3>1. AfterIsOver(r) /\ after[r] \subseteq Requests
      BY EndedParts DEF TypeOK
    <3>. QED BY <2>1, <3>1, OverIsOver DEF AfterIsOver
  <2>4. RightWay(pc[r], ask[r]) /\ EndedOne(r) /\ EndedAll(r)
    BY RoutedIsRightWay, EndedParts
  <2>5. EndedOne(r)'
    <3>1. SUFFICES ASSUME pc'[r] \in {"endTokens", "clear", "ok"}, ask[r].op = "logout"
                   PROVE  tokens'[card[r].token].session \in revoked'
      BY <2>1 DEF EndedOne, SessionOf
    <3>2. EndSession(r) \/ EndTokens(r)
      <4>1. pc[r] \in {"guard", "endSession", "endTokens"}
        BY <1>2, <2>1, <2>4, <3>1
           DEF RightWay, Over, Serve, Guard, ReadToken, UseToken, IssueNext, RevokeFamily,
               RevokeSession, EndSession, EndTokens, BumpVersion, EndAll, EndAllTokens,
               Lookup, CountFailure, CreateSession, IssueFirst, ClearCounters, CheckReset, Reset
      <4>2. ~Guard(r)
        BY <3>1 DEF Guard, Goto, TypeOK
      <4>. QED BY <1>2, <4>1, <4>2
               DEF Serve, Guard, ReadToken, UseToken, IssueNext, RevokeFamily,
                   RevokeSession, EndSession, EndTokens, BumpVersion, EndAll, EndAllTokens,
                   Lookup, CountFailure, CreateSession, IssueFirst, ClearCounters, CheckReset,
                   Reset
    <3>3. card[r].token \in DOMAIN tokens
      BY <3>2 DEF Known, TokenOrNone, EndSession, EndTokens
    <3>4. tokens[card[r].token].session \in revoked'
      BY <2>4, <3>1, <3>2 DEF EndSession, EndTokens, EndedOne, SessionOf
    <3>. QED BY <3>3, <3>4 DEF RowsGrow
  <2>6. EndedAll(r)'
    <3>1. CASE EndAll(r) \/ Reset(r)
      BY <3>1 DEF EndAll, Reset, EndedAll
    <3>2. CASE EndAllTokens(r)
      BY <2>1, <2>4, <3>2 DEF EndAllTokens, EndedAll, RightWay
    <3>3. CASE EndSession(r) \/ EndTokens(r) \/ BumpVersion(r) \/ ClearCounters(r)
               \/ CheckReset(r)
      BY <2>1, <2>4, <3>3 DEF EndSession, EndTokens, BumpVersion, ClearCounters, CheckReset,
                              Goto, TypeOK, EndedAll, RightWay
    <3>4. CASE Guard(r)
      <4>1. pc'[r] = "ok" => ask[r].op # "logoutAll" /\ ask[r].op # "reset"
        BY <2>4, <3>4 DEF Guard, Goto, TypeOK, RightWay
      <4>2. pc'[r] \in {"refused", "endSession", "bump", "ok"}
        BY <3>4 DEF Guard, Goto, TypeOK
      <4>. QED BY <2>1, <4>1, <4>2 DEF EndedAll
    <3>5. CASE ReadToken(r) \/ UseToken(r) \/ IssueNext(r) \/ RevokeFamily(r) \/ RevokeSession(r)
      BY <3>5 DEF ReadToken, UseToken, IssueNext, RevokeFamily, RevokeSession, Goto, TypeOK,
                  EndedAll
    <3>6. CASE Lookup(r) \/ CountFailure(r) \/ CreateSession(r) \/ IssueFirst(r)
      BY <3>6 DEF Lookup, CountFailure, CreateSession, IssueFirst, Goto, TypeOK, EndedAll
    <3>. QED BY <1>2, <3>1, <3>2, <3>3, <3>4, <3>5, <3>6 DEF Serve
  <2>. QED BY <2>1, <2>2, <2>3, <2>5, <2>6, EndedStays
<1>3. ASSUME NEW r \in Requests, Browse(r) \/ Fault(r)
      PROVE  \A q \in Requests : AfterIsOver(q)' /\ EndedOne(q)' /\ EndedAll(q)'
  <2>1. /\ UNCHANGED <<rows, ask, after>> /\ pc' = [pc EXCEPT ![r] = pc'[r]]
        /\ pc[r] \notin Over
    BY <1>3, BrowseShape
  <2>2. \A q \in Requests \ {r} : pc'[q] = pc[q] /\ card'[q] = card[q]
    BY <1>3, <2>1, BrowseHolds DEF TypeOK
  <2>3. AfterIsOver(r)'
    <3>1. AfterIsOver(r) /\ after[r] \subseteq Requests
      BY EndedParts DEF TypeOK
    <3>. QED BY <2>1, <3>1, OverIsOver DEF AfterIsOver
  <2>4. RightWay(pc[r], ask[r]) /\ EndedOne(r) /\ EndedAll(r)
    BY RoutedIsRightWay, EndedParts
  <2>5. ASSUME Clear(r) PROVE EndedOne(r)' /\ EndedAll(r)'
    <3>1. pc[r] = "clear" /\ pc'[r] = "ok" /\ UNCHANGED <<card, tokens, revoked, sessions>>
      BY <2>1, <2>5 DEF Clear, Goto, TypeOK, calls, rows
    <3>2. EndedOne(r)'
      BY <2>1, <2>4, <3>1 DEF EndedOne, SessionOf
    <3>3. EndedAll(r)'
      BY <2>1, <2>4, <3>1 DEF EndedAll, RightWay
    <3>. QED BY <3>2, <3>3
  <2>6. ASSUME ~Clear(r) PROVE EndedOne(r)' /\ EndedAll(r)'
    <3>1. pc'[r] \notin {"endTokens", "endAllTokens", "clear", "ok"} \/ ask'[r].op = "login"
          \/ ask'[r].op = "wrong"
      BY <1>3, <2>1, <2>4, <2>6
         DEF Browse, Offer, GiveUp, Receive, Retry, Welcome, Fault, Goto, TypeOK, RightWay
    <3>. QED BY <3>1 DEF EndedOne, EndedAll
  <2>. QED BY <1>3, <2>1, <2>2, <2>3, <2>5, <2>6, EndedStays
<1>4. ASSUME NEW t \in Issues, AccessLapses(t)
      PROVE  UNCHANGED <<pc, ask, card, after>>
  BY <1>4 DEF AccessLapses, calls
<1>5. ASSUME LockLapses
      PROVE  UNCHANGED <<pc, ask, card, after>>
  BY <1>5 DEF LockLapses, calls
<1>6. ASSUME UNCHANGED vars
      PROVE  UNCHANGED <<pc, ask, card, after>>
  BY <1>6 DEF vars, calls, history
<1>7. CASE UNCHANGED <<pc, ask, card, after>>
  BY <1>7, EndedStays
<1>8. ASSUME NEW r \in Requests, GuardFails(r)
      PROVE  \A q \in Requests : AfterIsOver(q)' /\ EndedOne(q)' /\ EndedAll(q)'
  <2>1. /\ pc[r] = "guard" /\ pc'[r] = "refused" /\ \A q \in Requests \ {r} : pc'[q] = pc[q]
        /\ UNCHANGED <<ask, card, after>>
    BY <1>8, GuardFailsShape
  <2>2. AfterIsOver(r)'
    <3>1. AfterIsOver(r) /\ after[r] \subseteq Requests
      BY EndedParts DEF TypeOK
    <3>. QED BY <2>1, <3>1, OverIsOver DEF AfterIsOver
  <2>3. EndedOne(r)' /\ EndedAll(r)'
    <3>1. ask[r].op # "reset"
      BY <2>1, RoutedIsRightWay DEF RightWay
    <3>. QED BY <2>1, <3>1 DEF EndedOne, EndedAll
  <2>. QED BY <2>1, <2>2, <2>3, EndedStays
<1>. QED BY <1>1, <1>2, <1>3, <1>4, <1>5, <1>6, <1>7, <1>8 DEF Next

\* The guard admits nobody on a revoked session.
LEMMA AdmittedOnLiveSession ==
    ASSUME TypeOK, Routed, Known, [Next]_vars, NEW q \in Requests,
           pc[q] # "ok", pc'[q] = "ok", ask'[q].op \in {"get", "post"}
    PROVE  /\ card[q].token \in DOMAIN tokens /\ SessionOf(card[q].token) \notin revoked
           /\ UNCHANGED <<revoked, tokens, sessions, ask, card, after>>
<1>0. RightWay(pc[q], ask[q])
  BY RoutedIsRightWay
<1>1. ASSUME NEW r \in Requests, NEW a \in Asks, Send(r, a)
      PROVE  FALSE
  <2>1. a.op \in Operations
    BY AskShape
  <2>. QED BY <1>1, <2>1, FirstStepOf DEF Send, Goto, TypeOK
<1>2. ASSUME NEW r \in Requests, Serve(r)
      PROVE  Guard(q)
  <2>1. r = q /\ ask' = ask
    BY <1>2, ServeShape DEF TypeOK
  <2>2. ~Reset(r)
    BY <1>0, <2>1 DEF Reset, RightWay
  <2>3. ~(EndSession(r) \/ EndTokens(r) \/ BumpVersion(r) \/ EndAll(r) \/ EndAllTokens(r))
    BY <2>1 DEF EndSession, EndTokens, BumpVersion, EndAll, EndAllTokens, Goto, TypeOK
  <2>4. ~(ReadToken(r) \/ UseToken(r) \/ IssueNext(r) \/ RevokeFamily(r) \/ RevokeSession(r))
    BY <2>1 DEF ReadToken, UseToken, IssueNext, RevokeFamily, RevokeSession, Goto, TypeOK
  <2>5. ~(Lookup(r) \/ CountFailure(r) \/ CreateSession(r) \/ IssueFirst(r)
          \/ ClearCounters(r) \/ CheckReset(r))
    BY <2>1 DEF Lookup, CountFailure, CreateSession, IssueFirst, ClearCounters, CheckReset,
                Goto, TypeOK
  <2>. QED BY <1>2, <2>1, <2>2, <2>3, <2>4, <2>5 DEF Serve
<1>3. ASSUME NEW r \in Requests, Browse(r) \/ Fault(r)
      PROVE  FALSE
  <2>1. r = q /\ ask' = ask
    BY <1>3, BrowseShape DEF TypeOK
  <2>. QED BY <1>0, <1>3, <2>1
           DEF Browse, Offer, GiveUp, Receive, Retry, Clear, Welcome, Fault, Goto, TypeOK,
               RightWay
<1>4. ~(\E t \in Issues : AccessLapses(t)) /\ ~LockLapses /\ ~UNCHANGED vars
  BY DEF AccessLapses, LockLapses, vars
<1>8. ASSUME NEW r \in Requests, GuardFails(r)
      PROVE  FALSE
  <2>1. pc'[q] = "refused" \/ pc'[q] = pc[q]
    BY <1>8, GuardFailsShape
  <2>. QED BY <2>1
<1>5. Guard(q)
  BY <1>1, <1>2, <1>3, <1>4, <1>8 DEF Next
<1>6. Admits(card[q], ask[q].op)
  BY <1>5 DEF Guard, Goto, TypeOK
<1>7. card[q].token \in DOMAIN tokens /\ SessionOf(card[q].token) \notin revoked
  BY <1>6 DEF Admits, Known, TokenOrNone
<1>. QED BY <1>5, <1>7 DEF Guard, rows, calls, Quiet, history

LEMMA ClosedStep ==
    ASSUME IInv, [Next]_vars, RowsGrow, Known'
    PROVE  ClosedForGood'
<1>. USE DEF IInv
<1>. SUFFICES ASSUME NEW q \in Requests, pc'[q] = "ok", ask'[q].op \in {"get", "post"},
                     NEW r \in after'[q], pc'[r] = "ok",
                     \/ /\ ask'[r].op = "logout"
                        /\ tokens'[card'[q].token].session = tokens'[card'[r].token].session
                     \/ /\ ask'[r].op \in {"logoutAll", "reset"}
                        /\ tokens'[card'[q].token].session \in after'[r] \union {First}
              PROVE  FALSE
  BY DEF ClosedForGood, Ends, Page, SessionOf
<1>1. AfterIsOver(q) /\ after[q] \subseteq Requests
  BY EndedParts DEF TypeOK
<1>2. CASE pc[q] = "ok"
  <2>1. UNCHANGED <<ask[q], card[q], after[q]>>
    BY <1>2, OverIsOver DEF Over
  <2>2. r \in Requests /\ UNCHANGED <<pc[r], ask[r], card[r], after[r]>>
    BY <1>1, <2>1, OverIsOver DEF AfterIsOver
  <2>3. card[q].token \in DOMAIN tokens
    BY <1>2, <2>1 DEF Known, TokenOrNone
  <2>4. ask[r].op = "logout" => card[r].token \in DOMAIN tokens
    BY <2>2 DEF Known, TokenOrNone
  <2>5. Ends(r, SessionOf(card[q].token))
    BY <2>1, <2>2, <2>3, <2>4 DEF Ends, SessionOf, RowsGrow
  <2>. QED BY <1>2, <2>1, <2>2, <2>5 DEF ClosedForGood, Page
<1>3. CASE pc[q] # "ok"
  <2>1. /\ card[q].token \in DOMAIN tokens /\ SessionOf(card[q].token) \notin revoked
        /\ UNCHANGED <<revoked, tokens, sessions, ask, card, after>>
    BY <1>3, AdmittedOnLiveSession
  <2>2. r \in Requests /\ pc[r] = "ok"
    BY <1>1, <2>1, OverIsOver DEF AfterIsOver
  <2>3. SessionOf(card[q].token) \in sessions
    BY <2>1 DEF Known
  <2>4. EndedOne(r) /\ EndedAll(r)
    BY <2>2, EndedParts
  <2>. QED BY <2>1, <2>2, <2>3, <2>4 DEF EndedOne, EndedAll, SessionOf
<1>. QED BY <1>2, <1>3

-----------------------------------------------------------------------------
(* The endings hold. *)

LEMMA InitIInv == Init => IInv
<1>. SUFFICES ASSUME Init PROVE IInv
  OBVIOUS
<1>1. First \in Issues /\ NoCookies \in Cookies /\ [token |-> First, csrf |-> First] \in Cookies
  BY DEF Issues, NoCookies, Cookies
<1>2. DOMAIN tokens = {First} /\ tokens[First] = [session |-> First, version |-> 0]
  BY DEF Init
<1>3. [session |-> First, version |-> 0] \in Issue
  BY <1>1 DEF Issue
<1>4. TypeOK
  <2>1. jar \in [Browsers -> Cookies] /\ card \in [Requests -> Cookies]
    BY <1>1 DEF Init
  <2>2. tokens \in [DOMAIN tokens -> Issue]
    BY <1>3 DEF Init
  <2>3. failed \in Nat /\ tally \in Nat
    BY SessionsAssumption DEF Init
  <2>. QED BY <1>1, <1>2, <2>1, <2>2, <2>3 DEF Init, TypeOK, Steps, Seen
<1>5. Routed
  BY DEF Init, Routed, Started
<1>6. Known
  <2>1. \A b \in Browsers : jar[b].token \in {First, None}
    BY DEF Init, NoCookies
  <2>2. \A r \in Requests : card[r].token = None /\ offered[r] = None /\ pc[r] = "idle"
    BY DEF Init, NoCookies
  <2>3. \A r \in Requests : r \notin DOMAIN tokens
    BY <1>2, NamesDiffer
  <2>4. sessions = {First}
    BY DEF Init
  <2>. QED BY <1>2, <2>1, <2>2, <2>3, <2>4 DEF Known, TokenOrNone, SessionOf
<1>7. Ended /\ ClosedForGood
  BY DEF Init, Ended, ClosedForGood
<1>. QED BY <1>4, <1>5, <1>6, <1>7 DEF IInv

LEMMA IInvStep == ASSUME IInv, [Next]_vars PROVE IInv'
<1>. USE DEF IInv
<1>1. TypeOK' /\ RowsGrow
  BY TypeStep
<1>2. Routed'
  BY RoutedStep
<1>3. Known'
  BY <1>1, KnownStep
<1>4. Ended'
  BY <1>1, EndedStep
<1>5. ClosedForGood'
  BY <1>1, <1>3, ClosedStep
<1>. QED BY <1>1, <1>2, <1>3, <1>4, <1>5

\* The invariant holds in every reachable state, whatever the numbers of
\* requests, browsers, faults and lapses.
THEOREM SessionsInvariant == Spec => []IInv
<1>1. Init => IInv
  BY InitIInv
<1>2. IInv /\ [Next]_vars => IInv'
  BY IInvStep
<1>. QED BY <1>1, <1>2, PTL DEF Spec

\* Type correctness: rows, cookies and calls keep their types, a revoked session
\* is one that exists, and so is a spent or dead token.
THEOREM SessionsTypes == Spec => []TypeOK
<1>1. IInv => TypeOK
  BY DEF IInv
<1>. QED BY <1>1, SessionsInvariant, PTL

\* A session that a logout, a logout of all sessions or a password reset has
\* ended (auth.service.ts) admits no request sent after its answer, whatever
\* refreshes and logins ran meanwhile.
THEOREM SessionsClosedForGood == Spec => []ClosedForGood
<1>1. IInv => ClosedForGood
  BY DEF IInv
<1>. QED BY <1>1, SessionsInvariant, PTL

\* A step, a step that revokes or issues included, takes back no revocation,
\* moves no token to another session, and adds no session but that of the login
\* that takes it.
THEOREM SessionsOnlyGrow == Spec => [][RowsGrow]_vars
<1>1. IInv /\ [Next]_vars => [RowsGrow]_vars
  BY TypeStep DEF IInv
<1>. QED BY <1>1, SessionsInvariant, PTL DEF Spec

-----------------------------------------------------------------------------
(* Steps that leave cookies, offers and spent tokens alone.                   *)

\* Arrived tokens stay what they are, unless a step sends their request off.
LEMMA OwnersStay ==
    ASSUME NEW t, Arrived(t), NEW r \in Requests,
           DOMAIN tokens \subseteq DOMAIN tokens',
           \A q \in Requests \ {r} : pc'[q] = pc[q],
           t \in Requests \union {First}, t # First => ask'[t] = ask[t],
           r \in DOMAIN tokens /\ pc'[r] \in {"receive", "counters", "welcome"} =>
               pc[r] \in {"receive", "counters", "welcome"}
    PROVE  Owner(t)' = Owner(t) /\ Arrived(t)'
BY DEF Owner, Arrived

\* The names that a browser or an offer may hold.
LEMMA HeldNames ==
    ASSUME TypeOK
    PROVE  /\ \A b \in Browsers : jar[b].token # None => jar[b].token \in Requests \union {First}
           /\ \A q \in Requests : offered[q] # None => offered[q] \in Requests \union {First}
           /\ None \notin spent
BY NamesDiffer DEF TypeOK, Cookies, Issues

LEMMA QuietStep ==
    ASSUME TypeOK, Refreshed, NEW r \in Requests,
           UNCHANGED <<jar, offered, ask, overlaps, faulty, spent, retried>>,
           DOMAIN tokens' = DOMAIN tokens,
           pc' = [pc EXCEPT ![r] = pc'[r]],
           pc[r] \notin {"idle", "failed", "issue", "receive"},
           pc'[r] \notin {"idle", "receive"},
           r \in DOMAIN tokens /\ pc'[r] \in {"counters", "welcome"} =>
               pc[r] \in {"counters", "welcome"},
           Refreshing(r)' => Refreshing(r)
    PROVE  Refreshed'
<1>1. \A q \in Requests \ {r} : pc'[q] = pc[q]
  BY DEF TypeOK
<1>2. r \notin faulty /\ pc[r] # "failed"
  BY DEF Refreshed, CutOff
<1>3. \A t \in Requests \union {First} : Arrived(t) => Owner(t)' = Owner(t) /\ Arrived(t)'
  BY <1>1, OwnersStay
<1>4. JarsOwn'
  BY <1>3, HeldNames DEF JarsOwn, Refreshed
<1>5. OffersOwn'
  BY <1>1, <1>3, HeldNames DEF OffersOwn, Refreshed, Page, Started
<1>6. AnswersMoveOn'
  BY <1>1, <1>2 DEF AnswersMoveOn, Refreshed, Answered
<1>7. OffersMet'
  <2>1. \A q \in Requests : (Refreshing(q)' => Refreshing(q)) /\ (Past(q)' => Past(q))
    BY <1>1 DEF Past, Refreshing
  <2>. QED BY <2>1 DEF OffersMet, Refreshed
<1>8. CutOff'
  BY <1>1, <1>2 DEF CutOff, Refreshed, TypeOK
<1>9. SpentByOffer'
  BY <1>1 DEF SpentByOffer, Refreshed
<1>. QED BY <1>4, <1>5, <1>6, <1>7, <1>8, <1>9 DEF Refreshed

-----------------------------------------------------------------------------
(* The steps of a refresh, and those that set cookies.                        *)

\* A step of anyone that leaves these alone leaves Refreshed alone.
LEMMA NothingMoves ==
    ASSUME Refreshed,
           UNCHANGED <<tokens, spent, jar, pc, ask, retried, offered, overlaps, faulty>>
    PROVE  Refreshed'
BY DEF Refreshed, JarsOwn, OffersOwn, AnswersMoveOn, OffersMet, CutOff, SpentByOffer, Owner,
       Arrived, Answered, Past, Refreshing, Page, Started

LEMMA SendStep ==
    ASSUME TypeOK, Known, Refreshed, NEW r \in Requests, NEW a \in Asks, Send(r, a)
    PROVE  Refreshed'
<1>1. /\ pc[r] = "idle" /\ pc'[r] \in {"guard", "checkReset", "lookup"}
      /\ pc' = [pc EXCEPT ![r] = pc'[r]] /\ ask' = [ask EXCEPT ![r] = a]
      /\ UNCHANGED <<tokens, spent, jar, retried, offered, overlaps, faulty>>
  <2>1. a.op \in Operations
    BY AskShape
  <2>. QED BY <2>1, FirstStepOf DEF Send, Goto, TypeOK, rows
<1>2. r \notin DOMAIN tokens /\ r \notin faulty /\ offered[r] = None /\ r # First
  BY <1>1, NamesDiffer DEF Known, Refreshed, CutOff, OffersOwn, Started
<1>3. \A q \in Requests \ {r} : pc'[q] = pc[q] /\ ask'[q] = ask[q]
  BY <1>1 DEF TypeOK
<1>4. \A t \in Requests \union {First} : Arrived(t) => Owner(t)' = Owner(t) /\ Arrived(t)'
  <2>. TAKE t \in Requests \union {First}
  <2>1. Arrived(t) => t # r
    BY <1>2 DEF Arrived
  <2>. QED BY <1>1, <1>2, <1>3, <2>1, OwnersStay
<1>5. JarsOwn'
  BY <1>1, <1>4, HeldNames DEF JarsOwn, Refreshed
<1>6. OffersOwn'
  BY <1>1, <1>2, <1>3, <1>4, HeldNames DEF OffersOwn, Refreshed, Page, Started
<1>7. AnswersMoveOn'
  BY <1>1, <1>2, <1>3 DEF AnswersMoveOn, Refreshed, Answered
<1>8. OffersMet'
  <2>1. \A q \in Requests : (Refreshing(q)' => Refreshing(q)) /\ (Past(q)' => Past(q))
    BY <1>1, <1>3 DEF Past, Refreshing
  <2>. QED BY <1>1, <2>1 DEF OffersMet, Refreshed
<1>9. CutOff'
  BY <1>1, <1>2, <1>3 DEF CutOff, Refreshed, TypeOK
<1>10. SpentByOffer'
  BY <1>1, <1>3 DEF SpentByOffer, Refreshed
<1>. QED BY <1>5, <1>6, <1>7, <1>8, <1>9, <1>10 DEF Refreshed

LEMMA OfferStep ==
    ASSUME TypeOK, Routed, Known, Refreshed, NEW r \in Requests, Offer(r)
    PROVE  Refreshed'
<1>. DEFINE b == ask[r].browser
            t == jar[b].token
<1>1. /\ pc[r] = "refused" /\ ~retried[r] /\ Page(r) /\ pc' = [pc EXCEPT ![r] = "token"]
      /\ offered' = [offered EXCEPT ![r] = t] /\ retried' = [retried EXCEPT ![r] = TRUE]
      /\ overlaps' = overlaps \union
            {{r, q} : q \in {p \in Requests : Refreshing(p) /\ offered[p] = t}}
      /\ UNCHANGED <<tokens, spent, jar, ask, faulty>>
  BY DEF Offer, Goto, Page, rows
<1>2. r \notin DOMAIN tokens /\ r \notin faulty /\ offered[r] = None /\ b \in Browsers
  <2>1. ask[r] \in Asks
    BY <1>1 DEF Routed, Started
  <2>. QED BY <1>1, <2>1, AskShape DEF Known, Refreshed, CutOff, OffersOwn
<1>3. /\ pc'[r] = "token" /\ offered'[r] = t /\ retried'[r]
      /\ \A q \in Requests \ {r} :
            pc'[q] = pc[q] /\ offered'[q] = offered[q] /\ retried'[q] = retried[q]
  BY <1>1 DEF TypeOK
<1>4. \A u \in Requests \union {First} : Arrived(u) => Owner(u)' = Owner(u) /\ Arrived(u)'
  BY <1>1, <1>3, OwnersStay
<1>5. t # None => t \in Requests \union {First} /\ Owner(t) = b /\ Arrived(t)
  BY <1>2, HeldNames DEF JarsOwn, Refreshed
<1>6. JarsOwn'
  BY <1>1, <1>4, HeldNames DEF JarsOwn, Refreshed
<1>7. OffersOwn'
  BY <1>1, <1>3, <1>4, <1>5, HeldNames DEF OffersOwn, Refreshed, Page, Started
<1>8. AnswersMoveOn'
  BY <1>1, <1>2, <1>3 DEF AnswersMoveOn, Refreshed, Answered
<1>9. OffersMet'
  <2>. SUFFICES ASSUME NEW q \in Requests, NEW p \in Requests, q # p,
                       offered'[q] = offered'[p], offered'[p] # None, Refreshing(p)', Past(q)'
                PROVE  {q, p} \in overlaps' \/ q \in faulty'
    BY DEF OffersMet
  <2>1. CASE q = r
    <3>1. Refreshing(p) /\ offered[p] = t
      BY <1>3, <2>1 DEF Refreshing
    <3>. QED BY <1>1, <2>1, <3>1
  <2>2. CASE p = r
    <3>1. Past(q) /\ offered[q] = t /\ t # None
      BY <1>1, <1>3, <2>2 DEF Past, Refreshing
    <3>2. CASE Refreshing(q)
      <4>1. {r, q} \in overlaps'
        BY <1>1, <3>1, <3>2
      <4>2. {r, q} = {q, p}
        BY <2>2
      <4>. QED BY <4>1, <4>2
    <3>3. CASE ~Refreshing(q) /\ q \notin faulty
      <4>1. Answered(q)
        BY <3>1, <3>3 DEF Answered, Past, Refreshing
      <4>2. ask[q].browser = b
        BY <1>5, <3>1 DEF OffersOwn, Refreshed
      <4>. QED BY <3>1, <4>1, <4>2 DEF AnswersMoveOn, Refreshed
    <3>. QED BY <1>1, <3>2, <3>3
  <2>3. CASE q # r /\ p # r
    <3>1. Past(q) /\ Refreshing(p) /\ offered[q] = offered[p] /\ offered[p] # None
      BY <1>1, <1>3, <2>3 DEF Past, Refreshing
    <3>. QED BY <1>1, <3>1 DEF OffersMet, Refreshed
  <2>. QED BY <2>1, <2>2, <2>3
<1>10. CutOff'
  BY <1>1, <1>2, <1>3 DEF CutOff, Refreshed, TypeOK
<1>11. SpentByOffer'
  <2>1. \A q \in Requests : offered[q] \in spent => q # r
    BY <1>2, HeldNames
  <2>. QED BY <1>1, <1>3, <2>1 DEF SpentByOffer, Refreshed
<1>. QED BY <1>6, <1>7, <1>8, <1>9, <1>10, <1>11 DEF Refreshed

LEMMA UseStep ==
    ASSUME TypeOK, Routed, Known, Refreshed, NEW r \in Requests, UseToken(r)
    PROVE  Refreshed'
<1>1. /\ pc[r] = "use" /\ pc' = [pc EXCEPT ![r] = "issue"] /\ pc'[r] = "issue"
      /\ spent' = spent \union {offered[r]}
      /\ UNCHANGED <<tokens, jar, ask, retried, offered, overlaps, faulty>>
  BY DEF UseToken, Goto, TypeOK, calls, Quiet, history
<1>2. \A q \in Requests \ {r} : pc'[q] = pc[q]
  BY <1>1 DEF TypeOK
<1>3. r \notin faulty /\ r \notin DOMAIN tokens
  BY <1>1 DEF Refreshed, CutOff, Known
<1>4. \A t \in Requests \union {First} : Arrived(t) => Owner(t)' = Owner(t) /\ Arrived(t)'
  BY <1>1, <1>2, OwnersStay
<1>5. JarsOwn'
  BY <1>1, <1>4, HeldNames DEF JarsOwn, Refreshed
<1>6. OffersOwn'
  BY <1>1, <1>2, <1>4, HeldNames DEF OffersOwn, Refreshed, Page, Started
<1>7. AnswersMoveOn'
  BY <1>1, <1>2, <1>3 DEF AnswersMoveOn, Refreshed, Answered
<1>8. OffersMet'
  <2>1. \A q \in Requests : (Refreshing(q)' => Refreshing(q)) /\ (Past(q)' => Past(q))
    BY <1>1, <1>2 DEF Past, Refreshing
  <2>. QED BY <1>1, <2>1 DEF OffersMet, Refreshed
<1>9. CutOff'
  BY <1>1, <1>2, <1>3 DEF CutOff, Refreshed, TypeOK
<1>10. SpentByOffer'
  <2>1. \A t \in spent : \E q \in Requests :
            offered'[q] = t /\ (pc'[q] = "issue" \/ q \in faulty' \/ q \in DOMAIN tokens')
    BY <1>1, <1>2 DEF SpentByOffer, Refreshed
  <2>. QED BY <1>1, <2>1 DEF SpentByOffer
<1>. QED BY <1>5, <1>6, <1>7, <1>8, <1>9, <1>10 DEF Refreshed

\* A token is issued, to a refresh or to a login.
LEMMA IssueStep ==
    ASSUME TypeOK, Routed, Known, Refreshed, NEW r \in Requests, IssueNext(r) \/ IssueFirst(r)
    PROVE  Refreshed'
<1>1. /\ pc[r] \in {"issue", "login"}
      /\ (pc[r] = "issue" /\ pc'[r] = "receive") \/ (pc[r] = "login" /\ pc'[r] = "counters")
      /\ pc' = [pc EXCEPT ![r] = pc'[r]]
      /\ DOMAIN tokens' = DOMAIN tokens \union {r} /\ r \notin DOMAIN tokens
      /\ UNCHANGED <<spent, jar, ask, retried, offered, overlaps, faulty>>
  BY DEF IssueNext, IssueFirst, AddIssue, Goto, TypeOK, Known, calls, Quiet, history
<1>2. \A q \in Requests \ {r} : pc'[q] = pc[q]
  BY <1>1 DEF TypeOK
<1>3. r \notin faulty
  BY <1>1 DEF Refreshed, CutOff
<1>4. pc[r] = "login" => offered[r] = None
  BY <1>1 DEF Routed, OffersOwn, Refreshed, Page
<1>5. \A t \in Requests \union {First} : Arrived(t) => Owner(t)' = Owner(t) /\ Arrived(t)'
  <2>. TAKE t \in Requests \union {First}
  <2>1. ASSUME Arrived(t), t # First
        PROVE  t \in DOMAIN tokens' /\ pc'[t] = pc[t]
    BY <1>1, <1>2, <2>1 DEF Arrived
  <2>. QED BY <1>1, <2>1 DEF Arrived, Owner
<1>6. JarsOwn'
  BY <1>1, <1>5, HeldNames DEF JarsOwn, Refreshed
<1>7. OffersOwn'
  BY <1>1, <1>2, <1>5, HeldNames DEF OffersOwn, Refreshed, Page, Started
<1>8. AnswersMoveOn'
  BY <1>1, <1>2, <1>4 DEF AnswersMoveOn, Refreshed, Answered
<1>9. OffersMet'
  <2>1. \A q \in Requests : offered[q] # None =>
            (Refreshing(q)' => Refreshing(q)) /\ (Past(q)' => Past(q))
    BY <1>1, <1>2, <1>4 DEF Past, Refreshing
  <2>. QED BY <1>1, <2>1 DEF OffersMet, Refreshed
<1>10. CutOff'
  BY <1>1, <1>2, <1>3 DEF CutOff, Refreshed, TypeOK
<1>11. SpentByOffer'
  BY <1>1, <1>2 DEF SpentByOffer, Refreshed
<1>. QED BY <1>6, <1>7, <1>8, <1>9, <1>10, <1>11 DEF Refreshed

\* The answer of a refresh or a login sets the cookies, that of a logout clears them.
LEMMA CookieStep ==
    ASSUME TypeOK, Routed, Known, Refreshed, NEW r \in Requests,
           Receive(r) \/ Welcome(r) \/ Clear(r)
    PROVE  Refreshed'
<1>. DEFINE b == ask[r].browser
<1>1. /\ pc' = [pc EXCEPT ![r] = pc'[r]] /\ pc'[r] \in {"retry", "ok"}
      /\ pc[r] \in {"receive", "welcome", "clear"}
      /\ UNCHANGED <<tokens, spent, ask, retried, offered, overlaps, faulty>>
  BY DEF Receive, Welcome, Clear, Goto, TypeOK, calls, rows, history
<1>2. \A q \in Requests \ {r} : pc'[q] = pc[q]
  BY <1>1 DEF TypeOK
<1>3. r \notin faulty /\ b \in Browsers /\ r # First /\ r # None
  <2>1. ask[r] \in Asks
    BY <1>1 DEF Routed, Started
  <2>. QED BY <1>1, <2>1, AskShape, NamesDiffer DEF Refreshed, CutOff, Issues
<1>4. \A t \in Requests \union {First} : Arrived(t) => Owner(t)' = Owner(t) /\ Arrived(t)'
  BY <1>1, <1>2, OwnersStay
<1>5. \/ /\ jar'[b].token = r /\ pc[r] \in {"receive", "welcome"} /\ r \in DOMAIN tokens
      \/ /\ jar'[b].token = None /\ pc[r] = "clear"
  BY <1>3 DEF Receive, Store, Welcome, Clear, NoCookies, TypeOK, Cookies, Known
<1>6. \A c \in Browsers \ {b} : jar'[c] = jar[c]
  BY DEF Receive, Store, Welcome, Clear, TypeOK
<1>7. JarsOwn'
  <2>1. ASSUME NEW c \in Browsers, c # b, jar'[c].token # None
        PROVE  Owner(jar[c].token)' = c /\ Arrived(jar[c].token)'
    <3>1. jar'[c] = jar[c] /\ jar[c].token \in Requests \union {First}
      BY <1>6, <2>1, HeldNames
    <3>2. Owner(jar[c].token) = c /\ Arrived(jar[c].token)
      BY <2>1, <3>1 DEF JarsOwn, Refreshed
    <3>. QED BY <1>1, <1>2, <3>1, <3>2 DEF Owner, Arrived
  <2>2. ASSUME NEW c \in Browsers, c = b, jar'[c].token # None
        PROVE  Owner(jar[c].token)' = c /\ Arrived(jar[c].token)'
    BY <1>1, <1>3, <1>5, <2>2 DEF Owner, Arrived
  <2>. QED BY <2>1, <2>2 DEF JarsOwn
<1>8. OffersOwn'
  BY <1>1, <1>2, <1>4, HeldNames DEF OffersOwn, Refreshed, Page, Started
<1>9. AnswersMoveOn'
  <2>. SUFFICES ASSUME NEW q \in Requests, offered[q] # None, Answered(q)',
                       jar'[ask[q].browser].token = offered[q]
                PROVE  FALSE
    BY <1>1 DEF AnswersMoveOn
  <2>1. Arrived(offered[q]) /\ Page(q) /\ Started(q)
    BY DEF OffersOwn, Refreshed
  <2>2. pc[r] \in {"receive", "welcome"} => offered[q] # r
    BY <1>3, <2>1 DEF Arrived
  <2>3. ask[q].browser # b
    BY <1>5, <2>2
  <2>4. ask[q].browser \in Browsers /\ q # r
    <3>1. ask[q] \in Asks
      BY <2>1 DEF Routed
    <3>. QED BY <2>3, <3>1, AskShape
  <2>5. Answered(q) /\ jar[ask[q].browser].token = offered[q]
    BY <1>1, <1>2, <1>6, <2>3, <2>4 DEF Answered
  <2>. QED BY <2>5 DEF AnswersMoveOn, Refreshed
<1>10. OffersMet'
  <2>1. \A q \in Requests : (Refreshing(q)' => Refreshing(q)) /\ (Past(q)' => Past(q))
    BY <1>1, <1>2 DEF Past, Refreshing
  <2>. QED BY <1>1, <2>1 DEF OffersMet, Refreshed
<1>11. CutOff'
  BY <1>1, <1>2, <1>3 DEF CutOff, Refreshed, TypeOK
<1>12. SpentByOffer'
  BY <1>1, <1>2 DEF SpentByOffer, Refreshed
<1>. QED BY <1>7, <1>8, <1>9, <1>10, <1>11, <1>12 DEF Refreshed

LEMMA FaultStep ==
    ASSUME TypeOK, Known, Refreshed, NEW r \in Requests, Fault(r)
    PROVE  Refreshed'
<1>1. /\ pc' = [pc EXCEPT ![r] = "failed"] /\ pc'[r] = "failed" /\ faulty' = faulty \union {r}
      /\ UNCHANGED <<tokens, spent, jar, ask, retried, offered, overlaps>>
  BY DEF Fault, Goto, TypeOK, calls, rows
<1>2. \A q \in Requests \ {r} : pc'[q] = pc[q]
  BY <1>1 DEF TypeOK
<1>3. \A t \in Requests \union {First} : Arrived(t) => Owner(t)' = Owner(t) /\ Arrived(t)'
  BY <1>1, <1>2, OwnersStay
<1>4. JarsOwn'
  BY <1>1, <1>3, HeldNames DEF JarsOwn, Refreshed
<1>5. OffersOwn'
  BY <1>1, <1>2, <1>3, HeldNames DEF OffersOwn, Refreshed, Page, Started
<1>6. AnswersMoveOn'
  BY <1>1, <1>2 DEF AnswersMoveOn, Refreshed, Answered
<1>7. OffersMet'
  <2>1. \A q \in Requests : (Refreshing(q)' => Refreshing(q)) /\ (Past(q)' => Past(q))
    BY <1>1, <1>2 DEF Past, Refreshing
  <2>. QED BY <1>1, <2>1 DEF OffersMet, Refreshed
<1>8. CutOff'
  BY <1>1, <1>2 DEF CutOff, Refreshed, TypeOK
<1>9. SpentByOffer'
  BY <1>1, <1>2 DEF SpentByOffer, Refreshed
<1>. QED BY <1>4, <1>5, <1>6, <1>7, <1>8, <1>9 DEF Refreshed

-----------------------------------------------------------------------------
(* Refreshes. *)

LEMMA RefreshedStep ==
    ASSUME TypeOK, Routed, Known, Refreshed, [Next]_vars
    PROVE  Refreshed'
<1>1. ASSUME NEW r \in Requests, NEW a \in Asks, Send(r, a)
      PROVE  Refreshed'
  BY <1>1, SendStep
<1>2. ASSUME NEW r \in Requests, Serve(r)
      PROVE  Refreshed'
  <2>1. /\ pc[r] \notin Over \union {"idle", "refused", "retry", "receive", "clear"}
        /\ pc' \in [Requests -> Steps] /\ pc' = [pc EXCEPT ![r] = pc'[r]] /\ pc'[r] # "idle"
        /\ UNCHANGED <<ask, retried, offered, overlaps, faulty, jar>>
    BY <1>2, ServeShape
  <2>2. CASE UseToken(r)
    BY <2>2, UseStep
  <2>3. CASE IssueNext(r) \/ IssueFirst(r)
    BY <2>3, IssueStep
  <2>4. CASE ~UseToken(r) /\ ~IssueNext(r) /\ ~IssueFirst(r)
    <3>1. UNCHANGED <<tokens, spent>>
      BY <1>2, <2>4 DEF Serve, Guard, ReadToken, RevokeFamily, RevokeSession, EndSession,
                        EndTokens, BumpVersion, EndAll, EndAllTokens, Lookup, CountFailure,
                        CreateSession, ClearCounters, CheckReset, Reset, rows
    <3>2. /\ pc[r] # "issue" /\ pc'[r] \notin {"receive", "counters"}
          /\ pc'[r] = "welcome" => pc[r] = "counters"
          /\ pc'[r] \in {"token", "use", "issue", "receive"} =>
                 pc[r] \in {"token", "use", "issue", "receive"}
      <4>1. CASE Guard(r)
        BY <4>1 DEF Guard, Goto, TypeOK
      <4>2. CASE ReadToken(r) \/ RevokeFamily(r) \/ RevokeSession(r)
        BY <4>2 DEF ReadToken, RevokeFamily, RevokeSession, Goto, TypeOK
      <4>3. CASE EndSession(r) \/ EndTokens(r) \/ BumpVersion(r) \/ EndAll(r) \/ EndAllTokens(r)
        BY <4>3 DEF EndSession, EndTokens, BumpVersion, EndAll, EndAllTokens, Goto, TypeOK
      <4>4. CASE Lookup(r) \/ CountFailure(r) \/ CreateSession(r)
        BY <4>4 DEF Lookup, CountFailure, CreateSession, Goto, TypeOK
      <4>5. CASE ClearCounters(r) \/ CheckReset(r) \/ Reset(r)
        BY <4>5 DEF ClearCounters, CheckReset, Reset, Goto, TypeOK
      <4>. QED BY <1>2, <2>4, <4>1, <4>2, <4>3, <4>4, <4>5 DEF Serve
    <3>. QED BY <2>1, <3>1, <3>2, QuietStep DEF Over, Refreshing
  <2>. QED BY <2>2, <2>3, <2>4
<1>3. ASSUME NEW r \in Requests, Browse(r)
      PROVE  Refreshed'
  <2>1. CASE Offer(r)
    BY <2>1, OfferStep
  <2>2. CASE Receive(r) \/ Welcome(r) \/ Clear(r)
    BY <2>2, CookieStep
  <2>3. CASE GiveUp(r) \/ Retry(r)
    <3>1. /\ pc[r] \in {"refused", "retry"} /\ pc'[r] \in {"failed", "guard"}
          /\ pc' = [pc EXCEPT ![r] = pc'[r]]
          /\ UNCHANGED <<tokens, spent, jar, ask, retried, offered, overlaps, faulty>>
      BY <2>3 DEF GiveUp, Retry, Goto, TypeOK, calls, rows, Quiet, history
    <3>. QED BY <3>1, QuietStep DEF Refreshing
  <2>. QED BY <1>3, <2>1, <2>2, <2>3 DEF Browse
<1>4. ASSUME NEW r \in Requests, Fault(r)
      PROVE  Refreshed'
  BY <1>4, FaultStep
<1>5. ASSUME NEW t \in Issues, AccessLapses(t)
      PROVE  Refreshed'
  BY <1>5, NothingMoves DEF AccessLapses, rows, calls
<1>6. CASE LockLapses
  BY <1>6, NothingMoves DEF LockLapses, rows, calls
<1>7. CASE UNCHANGED vars
  BY <1>7, NothingMoves DEF vars, rows, calls, history
<1>8. ASSUME NEW r \in Requests, GuardFails(r)
      PROVE  Refreshed'
  <2>1. /\ pc[r] = "guard" /\ pc'[r] = "refused" /\ pc' = [pc EXCEPT ![r] = pc'[r]]
        /\ UNCHANGED <<tokens, spent, jar, ask, retried, offered, overlaps, faulty>>
    BY <1>8, GuardFailsShape
  <2>. QED BY <2>1, QuietStep DEF Refreshing
<1>. QED BY <1>1, <1>2, <1>3, <1>4, <1>5, <1>6, <1>7, <1>8 DEF Next

\* The reuse that a step detects is explained by the offer that spent the token.
LEMMA ReuseStep ==
    ASSUME TypeOK, Routed, Known, Refreshed, ReuseExplained, [Next]_vars
    PROVE  ReuseExplained'
<1>. SUFFICES ASSUME NEW r \in Requests, pc'[r] \in {"revokeFamily", "revokeSession"}
              PROVE  \E q \in Requests \ {r} :
                         /\ offered'[q] = offered'[r]
                         /\ {q, r} \in overlaps' \/ q \in faulty'
  BY DEF ReuseExplained
<1>1. /\ overlaps \subseteq overlaps' /\ faulty \subseteq faulty'
      /\ \A q \in Requests : offered[q] # None => offered'[q] = offered[q]
  <2>1. ASSUME NEW p \in Requests, NEW a \in Asks, Send(p, a)
        PROVE  UNCHANGED <<overlaps, faulty, offered>>
    BY <2>1 DEF Send
  <2>2. ASSUME NEW p \in Requests, Serve(p)
        PROVE  UNCHANGED <<overlaps, faulty, offered>>
    BY <2>2, ServeShape
  <2>3. ASSUME NEW p \in Requests, Offer(p)
        PROVE  /\ overlaps \subseteq overlaps' /\ faulty \subseteq faulty'
               /\ \A q \in Requests : offered[q] # None => offered'[q] = offered[q]
    <3>1. offered[p] = None
      BY <2>3 DEF Offer, OffersOwn, Refreshed
    <3>. QED BY <2>3, <3>1 DEF Offer, TypeOK
  <2>4. ASSUME NEW p \in Requests,
               GiveUp(p) \/ Receive(p) \/ Retry(p) \/ Clear(p) \/ Welcome(p) \/ Fault(p)
        PROVE  overlaps' = overlaps /\ faulty \subseteq faulty' /\ offered' = offered
    BY <2>4 DEF GiveUp, Receive, Retry, Clear, Welcome, Fault, calls, history, Quiet
  <2>5. ASSUME NEW t \in Issues, AccessLapses(t)
        PROVE  UNCHANGED <<overlaps, faulty, offered>>
    BY <2>5 DEF AccessLapses, calls
  <2>6. ASSUME LockLapses
        PROVE  UNCHANGED <<overlaps, faulty, offered>>
    BY <2>6 DEF LockLapses, calls
  <2>7. ASSUME UNCHANGED vars
        PROVE  UNCHANGED <<overlaps, faulty, offered>>
    BY <2>7 DEF vars, calls, history
  <2>8. ASSUME NEW p \in Requests, GuardFails(p)
        PROVE  UNCHANGED <<overlaps, faulty, offered>>
    BY <2>8, GuardFailsShape
  <2>. QED BY <2>1, <2>2, <2>3, <2>4, <2>5, <2>6, <2>7, <2>8 DEF Next, Browse
<1>2. CASE pc[r] \in {"revokeFamily", "revokeSession"}
  <2>1. PICK q \in Requests \ {r} :
            offered[q] = offered[r] /\ ({q, r} \in overlaps \/ q \in faulty)
    BY <1>2 DEF ReuseExplained
  <2>2. offered[r] # None
    BY <1>2 DEF Known
  <2>. QED BY <1>1, <2>1, <2>2
<1>3. CASE pc[r] \notin {"revokeFamily", "revokeSession"}
  <2>1. ReadToken(r)
    <3>1. ASSUME NEW p \in Requests, NEW a \in Asks, Send(p, a)
          PROVE  FALSE
      <4>1. a.op \in Operations
        BY AskShape
      <4>. QED BY <1>3, <3>1, <4>1, FirstStepOf DEF Send, Goto, TypeOK
    <3>2. ASSUME NEW p \in Requests, Serve(p)
          PROVE  p = r
      BY <1>3, <3>2, ServeShape DEF TypeOK
    <3>3. ASSUME NEW p \in Requests, Browse(p) \/ Fault(p)
          PROVE  FALSE
      BY <1>3, <3>3 DEF Browse, Offer, GiveUp, Receive, Retry, Clear, Welcome, Fault, Goto,
                        TypeOK
    <3>4. ~(\E t \in Issues : AccessLapses(t)) /\ ~LockLapses /\ ~UNCHANGED vars
      BY <1>3 DEF AccessLapses, LockLapses, vars
    <3>9. ASSUME NEW p \in Requests, GuardFails(p)
          PROVE  FALSE
      <4>1. pc'[r] = "refused" \/ pc'[r] = pc[r]
        BY <3>9, GuardFailsShape
      <4>. QED BY <1>3, <4>1
    <3>5. Serve(r)
      BY <3>1, <3>2, <3>3, <3>4, <3>9 DEF Next
    <3>6. ~Guard(r) /\ ~UseToken(r) /\ ~IssueNext(r) /\ ~RevokeFamily(r) /\ ~RevokeSession(r)
      BY <1>3 DEF Guard, UseToken, IssueNext, RevokeFamily, RevokeSession, Goto, TypeOK
    <3>7. ~EndSession(r) /\ ~EndTokens(r) /\ ~BumpVersion(r) /\ ~EndAll(r) /\ ~EndAllTokens(r)
      BY DEF EndSession, EndTokens, BumpVersion, EndAll, EndAllTokens, Goto, TypeOK
    <3>8. /\ ~Lookup(r) /\ ~CountFailure(r) /\ ~CreateSession(r) /\ ~IssueFirst(r)
          /\ ~ClearCounters(r) /\ ~CheckReset(r) /\ ~Reset(r)
      BY DEF Lookup, CountFailure, CreateSession, IssueFirst, ClearCounters, CheckReset, Reset,
             Goto, TypeOK
    <3>. QED BY <3>5, <3>6, <3>7, <3>8 DEF Serve
  <2>2. /\ pc[r] = "token" /\ offered[r] # None /\ offered[r] \in spent
        /\ UNCHANGED <<offered, overlaps, faulty>>
    BY <2>1 DEF ReadToken, Goto, TypeOK, Usable, Quiet, history
  <2>3. PICK q \in Requests :
            offered[q] = offered[r] /\ (pc[q] = "issue" \/ q \in faulty \/ q \in DOMAIN tokens)
    BY <2>2 DEF SpentByOffer, Refreshed
  <2>4. q # r
    BY <2>2, <2>3 DEF Known, CutOff, Refreshed
  <2>5. {q, r} \in overlaps \/ q \in faulty
    BY <2>2, <2>3, <2>4 DEF OffersMet, Refreshed, Past, Refreshing
  <2>. QED BY <2>2, <2>3, <2>4, <2>5
<1>. QED BY <1>2, <1>3

\* A spent token that is still a cookie has its refresh on the way, or cut off.
LEMMA NextRefreshFollows ==
    ASSUME TypeOK, Refreshed
    PROVE  NextRefreshWorks
<1>. SUFFICES ASSUME NEW b \in Browsers, jar[b].token \in spent
              PROVE  \E q \in Requests :
                         /\ offered[q] = jar[b].token
                         /\ pc[q] \in {"issue", "receive"} \/ q \in faulty
  BY DEF NextRefreshWorks
<1>1. jar[b].token # None /\ Owner(jar[b].token) = b
  BY HeldNames DEF JarsOwn, Refreshed
<1>2. PICK q \in Requests :
          offered[q] = jar[b].token /\ (pc[q] = "issue" \/ q \in faulty \/ q \in DOMAIN tokens)
  BY DEF SpentByOffer, Refreshed
<1>3. ask[q].browser = b
  BY <1>1, <1>2 DEF OffersOwn, Refreshed
<1>4. ~Answered(q)
  BY <1>1, <1>2, <1>3 DEF AnswersMoveOn, Refreshed
<1>. QED BY <1>2, <1>4 DEF Answered

RInv == IInv /\ Refreshed /\ ReuseExplained

LEMMA InitRInv == Init => RInv
<1>. SUFFICES ASSUME Init PROVE RInv
  OBVIOUS
<1>1. IInv
  BY InitIInv
<1>2. Refreshed
  <2>1. JarsOwn
    BY DEF Init, JarsOwn, NoCookies, Owner, Arrived
  <2>2. OffersOwn /\ AnswersMoveOn /\ OffersMet /\ CutOff /\ SpentByOffer
    BY DEF Init, OffersOwn, AnswersMoveOn, OffersMet, CutOff, SpentByOffer
  <2>. QED BY <2>1, <2>2 DEF Refreshed
<1>3. ReuseExplained
  BY DEF Init, ReuseExplained
<1>. QED BY <1>1, <1>2, <1>3 DEF RInv

LEMMA RInvStep == ASSUME RInv, [Next]_vars PROVE RInv'
<1>1. IInv'
  BY IInvStep DEF RInv
<1>2. Refreshed'
  BY RefreshedStep DEF RInv, IInv
<1>3. ReuseExplained'
  BY ReuseStep DEF RInv, IInv
<1>. QED BY <1>1, <1>2, <1>3 DEF RInv

\* The refresh of a session (auth.service.ts and lib/api.ts) signs nobody out for
\* nothing: a token is found used again only where two requests of one browser
\* offered it together, or the answer to the one that used it was lost; and the
\* token a browser keeps can be used, unless its refresh is on the way or was lost.
THEOREM SessionsRefreshesExplained == Spec => []RefreshesExplained
<1>1. Init => RInv
  BY InitRInv
<1>2. RInv /\ [Next]_vars => RInv'
  BY RInvStep
<1>3. RInv => RefreshesExplained
  BY NextRefreshFollows DEF RInv, IInv, RefreshesExplained
<1>. QED BY <1>1, <1>2, <1>3, PTL DEF Spec

-----------------------------------------------------------------------------
(* Cookies and counters. *)

\* What history says of requests that have started is for good.
LEMMA HistoryStays ==
    ASSUME TypeOK, [Next]_vars, NEW q \in Requests, Started(q)
    PROVE  /\ pc'[q] # "idle" /\ ask'[q] = ask[q] /\ after'[q] = after[q]
           /\ retried[q] => retried'[q]
<1>1. ASSUME NEW r \in Requests, NEW a \in Asks, Send(r, a)
      PROVE  pc'[q] = pc[q] /\ ask'[q] = ask[q] /\ after'[q] = after[q] /\ retried' = retried
  BY <1>1 DEF Send, Goto, TypeOK, Started
<1>2. ASSUME NEW r \in Requests, Serve(r)
      PROVE  pc'[q] # "idle" /\ UNCHANGED <<ask, after, retried>>
  BY <1>2, ServeShape DEF TypeOK, Started
<1>3. ASSUME NEW r \in Requests, Browse(r) \/ Fault(r)
      PROVE  pc'[q] # "idle" /\ UNCHANGED <<ask, after>> /\ (retried[q] => retried'[q])
  <2>1. pc' = [pc EXCEPT ![r] = pc'[r]] /\ UNCHANGED <<ask, after>>
    BY <1>3, BrowseShape
  <2>2. pc'[r] # "idle"
    BY <1>3 DEF Browse, Offer, GiveUp, Receive, Retry, Clear, Welcome, Fault, Goto, TypeOK
  <2>3. retried[q] => retried'[q]
    BY <1>3 DEF Browse, Offer, GiveUp, Receive, Retry, Clear, Welcome, Fault, calls, TypeOK
  <2>. QED BY <2>1, <2>2, <2>3 DEF TypeOK, Started
<1>4. ASSUME (\E t \in Issues : AccessLapses(t)) \/ LockLapses \/ UNCHANGED vars
      PROVE  UNCHANGED <<pc, ask, after, retried>>
  BY <1>4 DEF AccessLapses, LockLapses, vars, calls, history
<1>5. ASSUME NEW r \in Requests, GuardFails(r)
      PROVE  pc'[q] # "idle" /\ UNCHANGED <<ask, after, retried>>
  <2>1. /\ pc'[q] = "refused" \/ pc'[q] = pc[q]
        /\ UNCHANGED <<ask, after, retried>>
    BY <1>5, GuardFailsShape
  <2>. QED BY <2>1 DEF Started
<1>. QED BY <1>1, <1>2, <1>3, <1>4, <1>5 DEF Next, Started

\* Who has met has met.
LEMMA MeetingsStay ==
    ASSUME TypeOK, [Next]_vars
    PROVE  /\ \A b \in Browsers : Crossed(b) => Crossed(b)'
           /\ Rivals => Rivals'
<1>1. \A q \in Requests : Started(q) =>
          /\ pc'[q] # "idle" /\ ask'[q] = ask[q] /\ after'[q] = after[q]
          /\ retried[q] => retried'[q]
  BY HistoryStays
<1>2. ASSUME NEW b \in Browsers, Crossed(b)
      PROVE  Crossed(b)'
  BY <1>1, <1>2 DEF Crossed, Started, Together
<1>3. ASSUME Rivals
      PROVE  Rivals'
  BY <1>1, <1>3 DEF Rivals, Credential, Started, Together
<1>. QED BY <1>2, <1>3

\* Two requests that are under way are under way together.
LEMMA ActiveTogether ==
    ASSUME Ended, NEW q \in Requests, NEW r \in Requests, pc[q] \notin Over, pc[r] \notin Over
    PROVE  Together(q, r)
BY DEF Ended, Together

\* What a request holds fits, as long as neither it nor its browser's csrf_token moves.
LEMMA FitsStays ==
    ASSUME TypeOK, Known, RowsGrow, NEW q \in Requests, Fits(q),
           pc'[q] = pc[q], ask'[q] = ask[q], offered'[q] = offered[q],
           \A b \in Browsers : Crossed(b) => Crossed(b)',
           \A b \in Browsers : Refreshing(q) /\ ask[q].browser = b =>
               jar'[b].csrf = jar[b].csrf \/ Crossed(b)'
    PROVE  Fits(q)'
<1>1. \A t \in DOMAIN tokens : tokens'[t].session = tokens[t].session
  BY DEF RowsGrow
<1>2. offered[q] # None => offered[q] \in DOMAIN tokens
  BY DEF Known, TokenOrNone
<1>3. pc[q] \in {"counters", "welcome", "receive"} => q \in DOMAIN tokens
  BY DEF Known
<1>4. /\ pc'[q] \in {"session", "login", "counters", "welcome"} => ask'[q].op = "login"
      /\ pc'[q] \in {"counters", "welcome"} => tokens'[q].session = q
      /\ pc'[q] = "receive" =>
            offered'[q] # None /\ tokens'[q].session = tokens'[offered'[q]].session
  BY <1>1, <1>2, <1>3 DEF Fits, SessionOf
<1>5. ASSUME NEW b \in Browsers, Refreshing(q)', offered'[q] # None, ask'[q].browser = b
      PROVE  jar'[b].csrf = tokens'[offered'[q]].session \/ Crossed(b)'
  <2>1. Refreshing(q) /\ offered[q] # None /\ ask[q].browser = b
    BY <1>5 DEF Refreshing
  <2>2. jar[b].csrf = tokens[offered[q]].session \/ Crossed(b)
    BY <2>1 DEF Fits, SessionOf
  <2>. QED BY <1>1, <1>2, <2>1, <2>2
<1>. QED BY <1>4, <1>5 DEF Fits, SessionOf

\* Cookies that do not move agree as before.
LEMMA AgreeStays ==
    ASSUME TypeOK, Known, RowsGrow, NEW b \in Browsers, jar'[b] = jar[b],
           Crossed(b) => Crossed(b)',
           jar[b].token # None /\ jar[b].csrf # SessionOf(jar[b].token) => Crossed(b)
    PROVE  jar'[b].token # None /\ jar'[b].csrf # tokens'[jar'[b].token].session => Crossed(b)'
<1>1. jar[b].token # None => jar[b].token \in DOMAIN tokens
  BY DEF Known, TokenOrNone
<1>. QED BY <1>1 DEF RowsGrow, SessionOf

\* The server's steps: only those of a login and of a refresh issue.
LEMMA ServeFits ==
    ASSUME TypeOK, Routed, Known, RowsGrow, NEW r \in Requests, Fits(r), Serve(r),
           \A b \in Browsers : Crossed(b) => Crossed(b)'
    PROVE  Fits(r)'
<1>1. /\ UNCHANGED <<ask, offered, jar>>
      /\ pc' \in [Requests -> Steps] /\ pc'[r] # "idle"
  BY ServeShape
<1>2. \A t \in DOMAIN tokens : tokens'[t].session = tokens[t].session
  BY DEF RowsGrow
<1>3. offered[r] # None => offered[r] \in DOMAIN tokens
  BY DEF Known, TokenOrNone
<1>4. ASSUME NEW b \in Browsers, Refreshing(r), offered[r] # None, ask[r].browser = b
      PROVE  jar'[b].csrf = tokens'[offered'[r]].session \/ Crossed(b)'
  BY <1>1, <1>2, <1>3, <1>4 DEF Fits, SessionOf
<1>5. CASE IssueNext(r)
  <2>1. /\ pc[r] = "issue" /\ pc'[r] = "receive" /\ r \notin DOMAIN tokens
        /\ AddIssue(r, SessionOf(offered[r])) /\ offered[r] \in DOMAIN tokens
    BY <1>3, <1>5 DEF IssueNext, Goto, TypeOK, Known
  <2>2. SessionOf(offered[r]) \in Issues
    BY <2>1 DEF Known, TypeOK
  <2>3. tokens'[r].session = SessionOf(offered[r])
    BY <2>1, <2>2, IssueShape
  <2>4. Refreshing(r)
    BY <2>1 DEF Refreshing
  <2>5. offered[r] # None
    BY <2>1, NamesDiffer DEF TypeOK
  <2>. QED BY <1>1, <1>2, <1>4, <2>1, <2>3, <2>4, <2>5 DEF Fits, SessionOf
<1>6. CASE IssueFirst(r)
  <2>1. /\ pc[r] = "login" /\ pc'[r] = "counters" /\ r \notin DOMAIN tokens /\ AddIssue(r, r)
    BY <1>6 DEF IssueFirst, Goto, TypeOK, Known
  <2>2. tokens'[r].session = r
    BY <2>1, IssueShape DEF Issues
  <2>. QED BY <1>1, <2>1, <2>2 DEF Fits, SessionOf, Refreshing
<1>7. CASE ClearCounters(r)
  <2>1. pc[r] = "counters" /\ pc'[r] = "welcome" /\ r \in DOMAIN tokens
    BY <1>7 DEF ClearCounters, Goto, TypeOK, Known
  <2>. QED BY <1>1, <1>2, <2>1 DEF Fits, SessionOf, Refreshing
<1>8. CASE Lookup(r) \/ CreateSession(r)
  <2>1. /\ pc'[r] \in {"failed", "session", "count", "login"}
        /\ pc'[r] \in {"session", "login"} => ask[r].op = "login"
    BY <1>8 DEF Lookup, CreateSession, Goto, TypeOK, Fits
  <2>. QED BY <1>1, <2>1 DEF Fits, Refreshing
<1>9. CASE ReadToken(r) \/ UseToken(r)
  <2>1. Refreshing(r) /\ pc'[r] \in {"failed", "revokeFamily", "use", "issue"}
    BY <1>9 DEF ReadToken, UseToken, Goto, TypeOK, Refreshing
  <2>. QED BY <1>1, <1>4, <2>1 DEF Fits, SessionOf
<1>10. ASSUME ~IssueNext(r), ~IssueFirst(r), ~ClearCounters(r), ~Lookup(r), ~CreateSession(r),
              ~ReadToken(r), ~UseToken(r)
       PROVE  Fits(r)'
  <2>1. pc'[r] \notin {"session", "login", "counters", "welcome", "token", "use", "issue",
                       "receive"}
    <3>1. CASE Guard(r)
      BY <3>1 DEF Guard, Goto, TypeOK
    <3>2. CASE RevokeFamily(r) \/ RevokeSession(r) \/ EndSession(r) \/ EndTokens(r)
      BY <3>2 DEF RevokeFamily, RevokeSession, EndSession, EndTokens, Goto, TypeOK
    <3>3. CASE BumpVersion(r) \/ EndAll(r) \/ EndAllTokens(r) \/ CountFailure(r)
      BY <3>3 DEF BumpVersion, EndAll, EndAllTokens, CountFailure, Goto, TypeOK
    <3>4. CASE CheckReset(r) \/ Reset(r)
      BY <3>4 DEF CheckReset, Reset, Goto, TypeOK
    <3>. QED BY <1>10, <3>1, <3>2, <3>3, <3>4 DEF Serve
  <2>. QED BY <2>1 DEF Fits, Refreshing
<1>. QED BY <1>5, <1>6, <1>7, <1>8, <1>9, <1>10

\* A login or a logout that answers a browser crosses every refresh under way there.
LEMMA AnswerCrosses ==
    ASSUME TypeOK, Routed, Known, Ended, NEW r \in Requests, NEW q \in Requests, q # r,
           pc[r] \in {"welcome", "clear"}, Fits(r), Refreshing(q),
           ask[q].browser = ask[r].browser
    PROVE  Crossed(ask[r].browser)
<1>1. pc[r] \notin Over /\ pc[q] \notin Over /\ Started(r) /\ Started(q)
  BY DEF Over, Refreshing, Started
<1>2. Together(q, r)
  BY <1>1, ActiveTogether
<1>3. retried[q] /\ ask[r].op \in {"login", "logout", "logoutAll"}
  BY DEF Known, Refreshing, Routed, Fits
<1>. QED BY <1>1, <1>2, <1>3 DEF Crossed

FitsAll == CookiesAgree /\ \A q \in Requests : Fits(q)

LEMMA BrowseFits ==
    ASSUME TypeOK, Routed, Known, Ended, FitsAll, RowsGrow, NEW r \in Requests,
           Browse(r) \/ Fault(r), \A b \in Browsers : Crossed(b) => Crossed(b)'
    PROVE  FitsAll'
<1>1. /\ pc[r] \notin Over \union {"idle"} /\ pc' = [pc EXCEPT ![r] = pc'[r]]
      /\ UNCHANGED <<rows, ask>>
      /\ \A q \in Requests \ {r} : pc'[q] = pc[q]
  BY BrowseShape DEF TypeOK
<1>2. ask[r].browser \in Browsers /\ UNCHANGED tokens
  BY <1>1, AskShape DEF Routed, Started, rows
<1>. DEFINE b == ask[r].browser
<1>3. CASE Offer(r)
  <2>1. /\ pc[r] = "refused" /\ pc'[r] = "token" /\ offered' = [offered EXCEPT ![r] = jar[b].token]
        /\ UNCHANGED jar
    BY <1>3 DEF Offer, Goto, TypeOK
  <2>2. /\ offered'[r] = jar[b].token
        /\ \A q \in Requests \ {r} : offered'[q] = offered[q]
    BY <2>1 DEF TypeOK
  <2>3. \A q \in Requests \ {r} : Fits(q)'
    BY <1>1, <2>1, <2>2, FitsStays DEF FitsAll
  <2>4. \A c \in Browsers : c = b /\ offered'[r] # None =>
            jar'[c].csrf = tokens'[offered'[r]].session \/ Crossed(c)'
    BY <1>2, <2>1, <2>2 DEF FitsAll, CookiesAgree, SessionOf
  <2>5. Fits(r)'
    BY <1>1, <2>1, <2>4 DEF Fits, SessionOf
  <2>6. CookiesAgree'
    BY <1>2, <2>1 DEF FitsAll, CookiesAgree, SessionOf
  <2>. QED BY <2>3, <2>5, <2>6 DEF FitsAll
<1>4. CASE GiveUp(r) \/ Retry(r) \/ Fault(r)
  <2>1. pc'[r] \in {"failed", "guard"} /\ UNCHANGED <<jar, offered>>
    BY <1>4 DEF GiveUp, Retry, Fault, Goto, TypeOK, calls, Quiet
  <2>2. \A q \in Requests \ {r} : Fits(q)'
    BY <1>1, <2>1, FitsStays DEF FitsAll
  <2>3. Fits(r)'
    BY <2>1 DEF Fits, Refreshing
  <2>4. CookiesAgree'
    BY <1>2, <2>1 DEF FitsAll, CookiesAgree, SessionOf
  <2>. QED BY <2>2, <2>3, <2>4 DEF FitsAll
<1>5. CASE Receive(r)
  <2>1. /\ pc[r] = "receive" /\ pc'[r] = "retry" /\ jar' = [jar EXCEPT ![b].token = r]
        /\ UNCHANGED offered
    BY <1>5 DEF Receive, Store, Goto, TypeOK, calls
  <2>2. jar'[b].token = r /\ \A c \in Browsers : jar'[c].csrf = jar[c].csrf /\ (c # b => jar'[c] = jar[c])
    BY <1>2, <2>1 DEF TypeOK, Cookies
  <2>3. \A q \in Requests \ {r} : Fits(q)'
    BY <1>1, <2>1, <2>2, FitsStays DEF FitsAll
  <2>4. Fits(r)'
    BY <2>1 DEF Fits, Refreshing
  <2>5. /\ jar[b].csrf = SessionOf(offered[r]) \/ Crossed(b)
        /\ SessionOf(r) = SessionOf(offered[r])
    BY <1>2, <2>1 DEF FitsAll, Fits, Refreshing
  <2>6. CookiesAgree'
    BY <1>2, <2>2, <2>5 DEF FitsAll, CookiesAgree, SessionOf
  <2>. QED BY <2>3, <2>4, <2>6 DEF FitsAll
<1>6. CASE Clear(r) \/ Welcome(r)
  <2>1. /\ pc[r] \in {"clear", "welcome"} /\ pc'[r] = "ok" /\ UNCHANGED offered
        /\ jar' = [jar EXCEPT ![b] = IF pc[r] = "clear" THEN NoCookies ELSE [token |-> r, csrf |-> r]]
    BY <1>6 DEF Clear, Welcome, Goto, TypeOK, calls
  <2>2. \A c \in Browsers : c # b => jar'[c] = jar[c]
    BY <2>1 DEF TypeOK
  <2>3. ASSUME NEW q \in Requests \ {r}
        PROVE  Fits(q)'
    <3>1. \A c \in Browsers : Refreshing(q) /\ ask[q].browser = c =>
              jar'[c].csrf = jar[c].csrf \/ Crossed(c)'
      BY <1>2, <2>1, <2>2, <2>3, AnswerCrosses DEF FitsAll
    <3>. QED BY <1>1, <2>1, <2>3, <3>1, FitsStays DEF FitsAll
  <2>4. Fits(r)'
    BY <2>1 DEF Fits, Refreshing
  <2>5. pc[r] = "welcome" => SessionOf(r) = r
    BY DEF FitsAll, Fits
  <2>6. jar'[b].token # None => jar'[b].csrf = tokens'[jar'[b].token].session
    BY <1>2, <2>1, <2>5 DEF TypeOK, NoCookies, SessionOf
  <2>7. CookiesAgree'
    BY <1>2, <2>2, <2>6 DEF FitsAll, CookiesAgree, SessionOf
  <2>. QED BY <2>3, <2>4, <2>7 DEF FitsAll
<1>. QED BY <1>3, <1>4, <1>5, <1>6 DEF Browse

LEMMA FitsAllStep ==
    ASSUME TypeOK, Routed, Known, Ended, FitsAll, [Next]_vars
    PROVE  FitsAll'
<1>1. RowsGrow /\ TypeOK'
  BY TypeStep
<1>2. \A b \in Browsers : Crossed(b) => Crossed(b)'
  BY MeetingsStay
<1>3. ASSUME NEW r \in Requests, NEW a \in Asks, Send(r, a)
      PROVE  FitsAll'
  <2>1. /\ pc' = [pc EXCEPT ![r] = FirstStep[a.op]] /\ ask' = [ask EXCEPT ![r] = a]
        /\ UNCHANGED <<jar, offered, tokens>>
    BY <1>3 DEF Send, Goto, rows
  <2>2. FirstStep[a.op] \in {"guard", "checkReset", "lookup"}
    BY AskShape, FirstStepOf
  <2>3. pc'[r] \in {"guard", "checkReset", "lookup"}
        /\ \A q \in Requests \ {r} : pc'[q] = pc[q] /\ ask'[q] = ask[q]
    BY <2>1, <2>2 DEF TypeOK
  <2>4. \A q \in Requests \ {r} : Fits(q)'
    BY <1>1, <1>2, <2>1, <2>3, FitsStays DEF FitsAll
  <2>5. Fits(r)'
    BY <2>3 DEF Fits, Refreshing
  <2>6. CookiesAgree'
    BY <1>2, <2>1 DEF FitsAll, CookiesAgree, SessionOf
  <2>. QED BY <2>4, <2>5, <2>6 DEF FitsAll
<1>4. ASSUME NEW r \in Requests, Serve(r)
      PROVE  FitsAll'
  <2>1. /\ pc' = [pc EXCEPT ![r] = pc'[r]] /\ UNCHANGED <<ask, offered, jar>>
    BY <1>4, ServeShape
  <2>2. \A q \in Requests \ {r} : pc'[q] = pc[q]
    BY <2>1 DEF TypeOK
  <2>3. \A q \in Requests \ {r} : Fits(q)'
    BY <1>1, <1>2, <2>1, <2>2, FitsStays DEF FitsAll
  <2>4. Fits(r)'
    BY <1>1, <1>2, <1>4, ServeFits DEF FitsAll
  <2>5. CookiesAgree'
    BY <1>1, <1>2, <2>1, AgreeStays DEF FitsAll, CookiesAgree, SessionOf
  <2>. QED BY <2>3, <2>4, <2>5 DEF FitsAll
<1>5. ASSUME NEW r \in Requests, Browse(r) \/ Fault(r)
      PROVE  FitsAll'
  BY <1>1, <1>2, <1>5, BrowseFits
<1>6. ASSUME (\E t \in Issues : AccessLapses(t)) \/ LockLapses \/ UNCHANGED vars
      PROVE  FitsAll'
  <2>1. UNCHANGED <<pc, ask, offered, jar, tokens>>
    BY <1>6 DEF AccessLapses, LockLapses, vars, calls, rows
  <2>2. \A q \in Requests : Fits(q)'
    BY <1>1, <1>2, <2>1, FitsStays DEF FitsAll
  <2>3. CookiesAgree'
    BY <1>2, <2>1 DEF FitsAll, CookiesAgree, SessionOf
  <2>. QED BY <2>2, <2>3 DEF FitsAll
<1>7. ASSUME NEW r \in Requests, GuardFails(r)
      PROVE  FitsAll'
  <2>1. /\ pc'[r] = "refused" /\ \A q \in Requests \ {r} : pc'[q] = pc[q]
        /\ UNCHANGED <<ask, offered, jar, tokens>>
    BY <1>7, GuardFailsShape
  <2>2. \A q \in Requests \ {r} : Fits(q)'
    BY <1>1, <1>2, <2>1, FitsStays DEF FitsAll
  <2>3. Fits(r)'
    BY <2>1 DEF Fits, Refreshing
  <2>4. CookiesAgree'
    BY <1>2, <2>1 DEF FitsAll, CookiesAgree, SessionOf
  <2>. QED BY <2>2, <2>3, <2>4 DEF FitsAll
<1>. QED BY <1>3, <1>4, <1>5, <1>6, <1>7 DEF Next

-----------------------------------------------------------------------------
(* Failures. *)

Counts == FailuresCounted /\ CountInv

\* A step that leaves counter, lock and counters-to-be alone.
LEMMA CountStays ==
    ASSUME TypeOK, Counts, Rivals => Rivals', UNCHANGED <<failed, locked, tally, lapses>>,
           \A q \in Requests : pc'[q] = "count" => pc[q] = "count" /\ seen'[q] = seen[q]
    PROVE  Counts'
BY DEF Counts, FailuresCounted, CountInv

\* Nobody else is about to count while a login or a reset clears or counts.
LEMMA NobodyElse ==
    ASSUME TypeOK, Routed, Ended, NEW r \in Requests, ~Rivals, pc[r] \notin Over \union {"idle"},
           ask[r].op \in {"login", "wrong", "reset"},
           NEW q \in Requests, q # r, pc[q] = "count"
    PROVE  FALSE
<1>1. Credential(q) /\ Credential(r) /\ pc[q] \notin Over /\ pc[r] \notin Over
  BY DEF Credential, Started, Routed, Over
<1>2. Together(q, r)
  BY <1>1, ActiveTogether
<1>. QED BY <1>1, <1>2 DEF Rivals

LEMMA CountsStep ==
    ASSUME TypeOK, Routed, Known, Ended, Counts, [Next]_vars
    PROVE  Counts'
<1>1. Rivals => Rivals'
  BY MeetingsStay
<1>2. CASE Rivals
  BY <1>1, <1>2 DEF Counts, FailuresCounted, CountInv
<1>. SUFFICES ASSUME ~Rivals PROVE Counts'
  BY <1>2
<1>3. ASSUME NEW r \in Requests, NEW a \in Asks, Send(r, a)
      PROVE  Counts'
  <2>1. FirstStep[a.op] \in {"guard", "checkReset", "lookup"}
    BY AskShape, FirstStepOf
  <2>2. \A q \in Requests : pc'[q] = "count" => pc[q] = "count"
    BY <1>3, <2>1 DEF Send, Goto, TypeOK
  <2>3. UNCHANGED <<failed, locked, tally, lapses, seen>>
    BY <1>3 DEF Send, account
  <2>. QED BY <1>1, <2>2, <2>3, CountStays
<1>4. ASSUME NEW r \in Requests, Serve(r)
      PROVE  Counts'
  <2>1. /\ pc[r] \notin Over \union {"idle"} /\ pc' = [pc EXCEPT ![r] = pc'[r]]
        /\ UNCHANGED <<ask, after, lapses>> /\ pc'[r] # "idle"
    BY <1>4, ServeShape
  <2>2. \A q \in Requests \ {r} : pc'[q] = pc[q]
    BY <2>1 DEF TypeOK
  <2>3. CASE Lookup(r)
    <3>1. /\ UNCHANGED <<failed, locked, tally, lapses>>
          /\ seen' = [seen EXCEPT ![r] = [failed |-> failed, version |-> version]]
      BY <2>3 DEF Lookup, Quiet, history, account
    <3>2. \A q \in Requests : pc'[q] = "count" => seen'[q].failed = failed'
      BY <2>2, <3>1 DEF Counts, CountInv, TypeOK
    <3>. QED BY <1>1, <3>1, <3>2 DEF Counts, FailuresCounted, CountInv
  <2>4. CASE CountFailure(r)
    <3>1. /\ pc[r] = "count" /\ pc'[r] = "failed" /\ failed' = seen[r].failed + 1
          /\ locked' = Locks(seen[r].failed + 1) /\ tally' = tally + 1 /\ UNCHANGED seen
      BY <2>4 DEF CountFailure, Goto, TypeOK, calls
    <3>2. seen[r].failed = failed /\ failed = tally
      BY <3>1 DEF Counts, CountInv, FailuresCounted
    <3>3. \A q \in Requests : pc'[q] # "count"
      BY <2>1, <2>2, <3>1, NobodyElse DEF Routed
    <3>4. locked' <=> failed' >= FailureLimit
      BY <3>1, <3>2 DEF Locks
    <3>5. failed' = tally'
      BY <3>1, <3>2
    <3>. QED BY <3>3, <3>4, <3>5 DEF Counts, FailuresCounted, CountInv
  <2>5. CASE ClearCounters(r) \/ Reset(r)
    <3>1. /\ failed' = 0 /\ locked' = FALSE /\ tally' = 0
          /\ pc[r] \in {"counters", "reset"} /\ pc'[r] \in {"welcome", "ok"}
      BY <2>5 DEF ClearCounters, Reset, ClearCounter, Goto, TypeOK
    <3>2. \A q \in Requests : pc'[q] # "count"
      BY <2>1, <2>2, <3>1, NobodyElse DEF Routed
    <3>3. ~(failed' >= FailureLimit)
      BY <3>1, SessionsAssumption
    <3>. QED BY <3>1, <3>2, <3>3 DEF Counts, FailuresCounted, CountInv
  <2>6. ASSUME ~Lookup(r), ~CountFailure(r), ~ClearCounters(r), ~Reset(r)
        PROVE  Counts'
    <3>1. UNCHANGED <<failed, locked, tally>> /\ pc'[r] # "count"
          /\ \A q \in Requests \ {r} : seen'[q] = seen[q]
      <4>1. CASE Guard(r) \/ ReadToken(r)
        BY <4>1 DEF Guard, ReadToken, Goto, TypeOK, Quiet, history, account, calls
      <4>2. CASE UseToken(r) \/ IssueNext(r) \/ RevokeFamily(r) \/ RevokeSession(r)
        BY <4>2 DEF UseToken, IssueNext, RevokeFamily, RevokeSession, Goto, TypeOK, Quiet,
                    history, account, calls
      <4>3. CASE EndSession(r) \/ EndTokens(r) \/ BumpVersion(r) \/ EndAll(r) \/ EndAllTokens(r)
        BY <4>3 DEF EndSession, EndTokens, BumpVersion, EndAll, EndAllTokens, Goto, TypeOK,
                    Quiet, history, account, calls
      <4>4. CASE CreateSession(r) \/ IssueFirst(r) \/ CheckReset(r)
        BY <4>4 DEF CreateSession, IssueFirst, CheckReset, Goto, TypeOK, Quiet, history,
                    account, calls
      <4>. QED BY <1>4, <2>6, <4>1, <4>2, <4>3, <4>4 DEF Serve
    <3>. QED BY <1>1, <2>1, <2>2, <3>1, CountStays
  <2>. QED BY <2>3, <2>4, <2>5, <2>6
<1>5. ASSUME NEW r \in Requests, Browse(r) \/ Fault(r)
      PROVE  Counts'
  <2>1. pc' = [pc EXCEPT ![r] = pc'[r]] /\ UNCHANGED <<account, seen>>
    BY <1>5, BrowseShape
  <2>2. pc'[r] # "count" /\ UNCHANGED <<tally, lapses>>
    BY <1>5 DEF Browse, Offer, GiveUp, Receive, Retry, Clear, Welcome, Fault, Goto, TypeOK,
                Quiet, history
  <2>. QED BY <1>1, <2>1, <2>2, CountStays DEF account, TypeOK
<1>6. ASSUME NEW t \in Issues, AccessLapses(t)
      PROVE  Counts'
  <2>1. UNCHANGED <<failed, locked, tally, pc, seen>> /\ lapses' # 0
    BY <1>6 DEF AccessLapses, account, calls, TypeOK
  <2>. QED BY <1>1, <2>1 DEF Counts, FailuresCounted, CountInv
<1>7. CASE LockLapses
  <2>1. UNCHANGED <<failed, tally, pc, seen>> /\ lapses' # 0 /\ ~locked'
    BY <1>7 DEF LockLapses, calls, TypeOK
  <2>. QED BY <1>1, <2>1 DEF Counts, FailuresCounted, CountInv
<1>8. CASE UNCHANGED vars
  BY <1>1, <1>8, CountStays DEF vars, account, calls, history
<1>9. ASSUME NEW r \in Requests, GuardFails(r)
      PROVE  Counts'
  <2>1. /\ UNCHANGED <<failed, locked, tally, seen>> /\ lapses' # 0
        /\ \A q \in Requests : pc'[q] = "count" => pc[q] = "count"
    BY <1>9, GuardFailsShape
  <2>. QED BY <1>1, <2>1 DEF Counts, FailuresCounted, CountInv
<1>. QED BY <1>3, <1>4, <1>5, <1>6, <1>7, <1>8, <1>9 DEF Next

-----------------------------------------------------------------------------
(* Everything. *)

LEMMA InitFits == Init => FitsAll /\ Counts
<1>. SUFFICES ASSUME Init PROVE FitsAll /\ Counts
  OBVIOUS
<1>1. CookiesAgree
  BY DEF Init, CookiesAgree, NoCookies, SessionOf
<1>2. \A q \in Requests : Fits(q)
  BY DEF Init, Fits, Refreshing
<1>3. Counts
  BY SessionsAssumption DEF Init, Counts, FailuresCounted, CountInv
<1>. QED BY <1>1, <1>2, <1>3 DEF FitsAll

\* Every value has its type, tokens and cookies fit together, and failures are
\* counted, for any number of requests, browsers and faults.
THEOREM SessionsWellFormed == Spec => []WellFormed
<1>1. Init => RInv /\ FitsAll /\ Counts
  BY InitRInv, InitFits
<1>2. RInv /\ FitsAll /\ Counts /\ [Next]_vars => (RInv /\ FitsAll /\ Counts)'
  BY RInvStep, FitsAllStep, CountsStep DEF RInv, IInv
<1>3. RInv /\ FitsAll /\ Counts => WellFormed
  BY DEF RInv, IInv, FitsAll, Counts, WellFormed, Fitting
<1>. QED BY <1>1, <1>2, <1>3, PTL DEF Spec

\* A browser whose cookies were all set by answers that came one after the other
\* passes the check of csrf_token in auth.guard.ts: the token in the cookie is of
\* the session of its access_token.
THEOREM SessionsCookiesAgree == Spec => []CookiesAgree
<1>1. WellFormed => CookiesAgree
  BY DEF WellFormed, Fitting
<1>. QED BY <1>1, SessionsWellFormed, PTL

\* The read and the write of failedLoginCount (auth.service.ts) lose no wrong
\* password, and no lock, unless two logins or resets overlap.
THEOREM SessionsFailuresCounted == Spec => []FailuresCounted
<1>1. WellFormed => FailuresCounted
  BY DEF WellFormed, Fitting
<1>. QED BY <1>1, SessionsWellFormed, PTL
=============================================================================
