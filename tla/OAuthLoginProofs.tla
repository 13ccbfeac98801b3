-------------------------- MODULE OAuthLoginProofs --------------------------
(***************************************************************************)
(* For any number of browsers, instances, logins and people: an attempt    *)
(* opens one session, for the browser and the person it was made for, and  *)
(* an identity has one account.                                            *)
(***************************************************************************)
EXTENDS OAuthLogin, FiniteSetTheorems, TLAPS

AccountRow == [subject : Subject, active : BOOLEAN]
SessionRow == [account : Nat, attempt : Attempt, browser : Browser, subject : Subject]

RowsOK ==
    /\ attempt \in [Attempt -> {Absent} \cup Row]
    /\ cookie \in [Browser -> Attempt \cup {Absent}]
    /\ account \in Seq(AccountRow)
    /\ session \in Seq(SessionRow)
    /\ call = [w \in Worker |-> call[w]]

\* The steps after the attempt's consumption.
Past == {"exchange", "resolve", "open"}

InPast(c) == c # NoCall /\ c.step \in Past

Begun(a, b) == attempt[a] # Absent /\ attempt[a].browser = b

Consumed(a) == attempt[a].status = "CONSUMED"

Owns(n, s) == n \in DOMAIN account /\ account[n].subject = s

\* What a call has established by the step it is at.
CallOK(c) ==
    /\ c.browser \in Browser /\ c.step \in Past \cup {"consume", "clear", "keep"}
    /\ c.step \in Past \cup {"consume"} =>
          c.state \in Attempt /\ c.code \in Code /\ attempt[c.state] # Absent
    /\ c.step = "consume" /\ c.bound => Begun(c.state, c.browser)
    /\ c.step \in Past => Begun(c.state, c.browser) /\ Consumed(c.state)
    /\ c.step \in {"resolve", "open"} => c.code[1] = c.state /\ c.code \in redeemed
    /\ c.step = "resolve" /\ c.view # Absent =>
          \A p \in c.view : Owns(p[1], Identified(c))
    /\ c.step = "open" => Owns(c.account, Identified(c))

CallsOK == \A w \in Worker : call[w] # NoCall => CallOK(call[w])

\* An attempt has one call past its consumption, or one session.
CallsExclude ==
    \A v, w \in Worker :
       InPast(call[v]) /\ InPast(call[w]) /\ call[v].state = call[w].state => v = w

SessionOK(r) ==
    /\ Begun(r.attempt, r.browser)
    /\ Consumed(r.attempt)
    /\ <<r.attempt, r.subject>> \in redeemed
    /\ Owns(r.account, r.subject)

SessionsOK == \A n \in DOMAIN session : SessionOK(session[n])

SessionsExclude ==
    /\ OneSessionPerAttempt
    /\ \A n \in DOMAIN session, w \in Worker :
          InPast(call[w]) => call[w].state # session[n].attempt

CookiesOK == \A b \in Browser : cookie[b] \in Attempt => Begun(cookie[b], b)

IdentitiesOK ==
    \A m, n \in DOMAIN account : account[m].subject = account[n].subject => m = n

IInv ==
    /\ RowsOK /\ CallsOK /\ CallsExclude /\ SessionsOK /\ SessionsExclude
    /\ CookiesOK /\ IdentitiesOK

\* What no step takes back.
Later ==
    /\ \A a \in Attempt : attempt[a] # Absent =>
          /\ attempt'[a] # Absent
          /\ attempt'[a].browser = attempt[a].browser
          /\ attempt[a].status = "CONSUMED" => attempt'[a].status = "CONSUMED"
    /\ \A n \in DOMAIN account :
          n \in DOMAIN account' /\ account'[n].subject = account[n].subject
    /\ redeemed \subseteq redeemed'

-----------------------------------------------------------------------------
LEMMA InitIInv == Init => IInv
<1> SUFFICES ASSUME Init PROVE IInv
  OBVIOUS
<1>1. RowsOK
  BY DEF Init, RowsOK
<1>2. CallsOK /\ CallsExclude
  BY DEF Init, CallsOK, CallsExclude, InPast
<1>3. SessionsOK /\ SessionsExclude
  BY DEF Init, SessionsOK, SessionsExclude, OneSessionPerAttempt
<1>4. CookiesOK
  BY LoginAssumption DEF Init, CookiesOK
<1>5. IdentitiesOK
  BY DEF Init, IdentitiesOK
<1>6. QED
  BY <1>1, <1>2, <1>3, <1>4, <1>5 DEF IInv

\* What holds of a call or a session goes on holding of it.
LEMMA CallStays ==
    ASSUME Later, NEW c, CallOK(c)
    PROVE  CallOK(c)'
<1>1. CASE c.step = "consume"
  BY <1>1 DEF Later, CallOK, Begun, Past
<1>2. CASE c.step \in Past
  <2>1. c.state \in Attempt /\ c.code \in Code /\ attempt[c.state] # Absent
    BY <1>2 DEF CallOK
  <2>2. Begun(c.state, c.browser)' /\ Consumed(c.state)'
    BY <1>2, <2>1 DEF Later, CallOK, Begun, Consumed
  <2>3. c.step \in {"resolve", "open"} => c.code[1] = c.state /\ c.code \in redeemed'
    BY DEF Later, CallOK
  <2>4. c.step = "resolve" /\ c.view # Absent =>
           \A p \in c.view : Owns(p[1], Identified(c))'
    BY DEF Later, CallOK, Owns, Identified
  <2>5. c.step = "open" => Owns(c.account, Identified(c))'
    BY DEF Later, CallOK, Owns, Identified
  <2>6. QED
    BY <1>2, <2>1, <2>2, <2>3, <2>4, <2>5 DEF CallOK, Past, Begun, Consumed, Owns, Identified
<1>3. CASE c.step \in {"clear", "keep"}
  BY <1>3 DEF CallOK, Past
<1>4. QED
  BY <1>1, <1>2, <1>3 DEF CallOK

LEMMA SessionStays ==
    ASSUME Later, NEW r \in SessionRow, SessionOK(r) PROVE SessionOK(r)'
BY DEF Later, SessionOK, Begun, Consumed, Owns, SessionRow

\* No other call is past the consumption of a, and no session is of it.
Free(w, a) ==
    /\ \A v \in Worker \ {w} : InPast(call[v]) => call[v].state # a
    /\ \A n \in DOMAIN session : session[n].attempt # a

\* A worker that goes on with its own attempt, or with one nobody went on with.
LEMMA Moves ==
    ASSUME IInv, Later, NEW w \in Worker, NEW c, UNCHANGED session,
           call' = [call EXCEPT ![w] = c],
           c # NoCall => CallOK(c)',
           InPast(c) => Free(w, c.state)
    PROVE  CallsOK' /\ CallsExclude' /\ SessionsOK' /\ SessionsExclude'
<1>1. call'[w] = c /\ \A v \in Worker \ {w} : call'[v] = call[v]
  BY DEF IInv, RowsOK
<1>2. CallsOK'
  <2> SUFFICES ASSUME NEW v \in Worker, call'[v] # NoCall PROVE CallOK(call[v])'
    BY DEF CallsOK
  <2>1. CASE v = w
    BY <1>1, <2>1
  <2>2. CASE v # w
    <3>1. call'[v] = call[v] /\ CallOK(call[v])
      BY <1>1, <2>2 DEF IInv, CallsOK
    <3> PICK d : d = call[v]
      OBVIOUS
    <3>2. CallOK(d)'
      BY <3>1, CallStays
    <3>3. QED
      BY <3>1, <3>2
  <2>3. QED
    BY <2>1, <2>2
<1>3. CallsExclude'
  BY <1>1 DEF IInv, CallsExclude, InPast, Free
<1>4. SessionsOK'
  <2> SUFFICES ASSUME NEW n \in DOMAIN session PROVE SessionOK(session[n])'
    BY DEF SessionsOK
  <2> PICK r : r = session[n]
    OBVIOUS
  <2>1. r \in SessionRow /\ SessionOK(r)
    BY DEF IInv, RowsOK, SessionsOK
  <2>2. QED
    BY <2>1, SessionStays
<1>5. SessionsExclude'
  BY <1>1 DEF IInv, SessionsExclude, OneSessionPerAttempt, InPast, Free
<1>6. QED
  BY <1>2, <1>3, <1>4, <1>5

\* A call past its attempt's consumption is the only one, and has no session.
LEMMA PastIsFree ==
    ASSUME IInv, NEW w \in Worker, InPast(call[w]) PROVE Free(w, call[w].state)
BY DEF IInv, CallsExclude, SessionsExclude, Free

\* Nothing but the worker's call changes.
LEMMA QuietStep ==
    ASSUME IInv, NEW w \in Worker, NEW c,
           UNCHANGED <<attempt, cookie, redeemed, account, session>>,
           call' = [call EXCEPT ![w] = c],
           c # NoCall => CallOK(c),
           InPast(c) => InPast(call[w]) /\ c.state = call[w].state
    PROVE  IInv'
<1>1. Later
  BY DEF Later
<1>2. c # NoCall => CallOK(c)'
  BY DEF CallOK, Begun, Consumed, Owns, Identified
<1>3. InPast(c) => Free(w, c.state)
  BY PastIsFree
<1>4. CallsOK' /\ CallsExclude' /\ SessionsOK' /\ SessionsExclude'
  BY <1>1, <1>2, <1>3, Moves
<1>5. RowsOK'
  BY DEF IInv, RowsOK
<1>6. CookiesOK' /\ IdentitiesOK'
  BY DEF IInv, CookiesOK, Begun, IdentitiesOK
<1>7. QED
  BY <1>4, <1>5, <1>6 DEF IInv

\* What the inductive invariant says of the call of a worker.
LEMMA CallAt ==
    ASSUME IInv, NEW w \in Worker, NEW step, At(w, step)
    PROVE  CallOK(call[w]) /\ call[w].step = step
BY DEF IInv, CallsOK, At

LEMMA AnswerOK ==
    ASSUME IInv, NEW w \in Worker, call[w] # NoCall, NEW response \in {"clear", "keep"}
    PROVE  /\ CallOK([step |-> response, browser |-> call[w].browser])
           /\ ~ InPast([step |-> response, browser |-> call[w].browser])
<1>1. call[w].browser \in Browser
  BY DEF IInv, CallsOK, CallOK
<1>2. QED
  BY <1>1 DEF CallOK, InPast, Past

\* An answer that changes nothing else.
LEMMA QuietAnswer ==
    ASSUME IInv, NEW w \in Worker, call[w] # NoCall, NEW response \in {"clear", "keep"},
           Answer(w, response), UNCHANGED <<attempt, cookie, redeemed, account, session>>
    PROVE  IInv'
<1> PICK c : c = [step |-> response, browser |-> call[w].browser]
  OBVIOUS
<1>1. CallOK(c) /\ ~ InPast(c)
  BY AnswerOK
<1>2. call' = [call EXCEPT ![w] = c]
  BY DEF Answer
<1>3. QED
  BY <1>1, <1>2, QuietStep

-----------------------------------------------------------------------------
(* Steps that change nothing but a call.                                   *)

LEMMA DeliverIInv ==
    ASSUME IInv, NEW w \in Worker, NEW b \in Browser, NEW a \in Attempt, NEW x \in Code,
           Deliver(w, b, a, x)
    PROVE  IInv'
<1> PICK c : c = [step |-> "consume", browser |-> b, bound |-> cookie[b] = a,
                  state |-> a, code |-> x, view |-> Absent, tries |-> 1, account |-> 0]
  OBVIOUS
<1>1. c.bound => Begun(a, b)
  BY DEF IInv, CookiesOK
<1>2. CallOK(c) /\ ~ InPast(c)
  BY <1>1 DEF CallOK, InPast, Past, Deliver
<1>3. QED
  BY <1>2, QuietStep DEF Deliver

LEMMA ReadAttemptIInv ==
    ASSUME IInv, NEW w \in Worker, ReadAttempt(w) PROVE IInv'
<1> PICK c : c = Proceeding(call[w], "consume", attempt[call[w].state], 1, 0)
  OBVIOUS
<1>1. CallOK(call[w]) /\ call[w].step = "consume"
  BY CallAt DEF ReadAttempt
<1>2. CallOK(c) /\ ~ InPast(c)
  BY <1>1 DEF CallOK, InPast, Past, Proceeding
<1>3. QED
  BY <1>2, QuietStep DEF ReadAttempt, Proceed

LEMMA QuietAnswersIInv ==
    ASSUME IInv, NEW w \in Worker,
           RejectAttempt(w) \/ FailUnconsumed(w) \/ FailConsumed(w)
    PROVE  IInv'
<1>1. PICK response \in {"clear", "keep"} : Answer(w, response)
  BY DEF RejectAttempt, FailUnconsumed, FailConsumed
<1>2. call[w] # NoCall /\ UNCHANGED <<attempt, cookie, redeemed, account, session>>
  BY DEF RejectAttempt, FailUnconsumed, FailConsumed, Viewing, At
<1>3. QED
  BY <1>1, <1>2, QuietAnswer

\* While it resolves the account, a call knows what it has read of it.
LEMMA ResolvingOK ==
    ASSUME IInv, NEW w \in Worker, At(w, "resolve"), NEW view, NEW tries, NEW n,
           NEW step \in {"resolve", "open"},
           step = "resolve" /\ view # Absent =>
              \A p \in view : Owns(p[1], Identified(call[w])),
           step = "open" => Owns(n, Identified(call[w]))
    PROVE  LET c == Proceeding(call[w], step, view, tries, n)
           IN  CallOK(c) /\ InPast(call[w]) /\ c.state = call[w].state
<1>1. CallOK(call[w]) /\ call[w].step = "resolve" /\ call[w] # NoCall
  BY CallAt DEF At
<1> DEFINE c == Proceeding(call[w], step, view, tries, n)
<1>2. /\ c.step = step /\ c.browser = call[w].browser /\ c.state = call[w].state
      /\ c.code = call[w].code /\ c.view = view /\ c.account = n
  BY DEF Proceeding
<1>3. Identified(c) = Identified(call[w])
  BY <1>2 DEF Identified
<1> HIDE DEF c
<1>4. CallOK(c)
  <2>1. c.browser \in Browser /\ c.step \in Past \cup {"consume", "clear", "keep"}
    BY <1>1, <1>2 DEF CallOK, Past
  <2>2. c.state \in Attempt /\ c.code \in Code /\ attempt[c.state] # Absent
    BY <1>1, <1>2 DEF CallOK, Past
  <2>3. Begun(c.state, c.browser) /\ Consumed(c.state)
    BY <1>1, <1>2 DEF CallOK, Past
  <2>4. c.code[1] = c.state /\ c.code \in redeemed
    BY <1>1, <1>2 DEF CallOK
  <2>5. c.step = "resolve" /\ c.view # Absent => \A p \in c.view : Owns(p[1], Identified(c))
    BY <1>2, <1>3
  <2>6. c.step = "open" => Owns(c.account, Identified(c))
    BY <1>2, <1>3
  <2>7. c.step # "consume"
    BY <1>2
  <2>8. QED
    BY <2>1, <2>2, <2>3, <2>4, <2>5, <2>6, <2>7 DEF CallOK
<1>5. QED
  BY <1>1, <1>2, <1>4 DEF c, InPast, Past

LEMMA ReadIdentityIInv ==
    ASSUME IInv, NEW w \in Worker, ReadIdentity(w) PROVE IInv'
<1> DEFINE view == {<<n, account[n].active>> : n \in AccountsOf(Identified(call[w]))}
           c == Proceeding(call[w], "resolve", view, call[w].tries, 0)
<1>1. \A p \in view : Owns(p[1], Identified(call[w]))
  BY DEF AccountsOf, Owns
<1>2. At(w, "resolve") /\ call' = [call EXCEPT ![w] = c]
  BY DEF ReadIdentity, Proceed
<1>3. UNCHANGED <<attempt, cookie, redeemed, account, session>>
  BY DEF ReadIdentity
<1> HIDE DEF view
<1>4. CallOK(c) /\ InPast(call[w]) /\ c.state = call[w].state
  BY <1>1, <1>2, ResolvingOK
<1> HIDE DEF c
<1>5. QED
  BY <1>2, <1>3, <1>4, QuietStep

LEMMA MatchAccountIInv ==
    ASSUME IInv, NEW w \in Worker, MatchAccount(w) PROVE IInv'
<1>1. /\ At(w, "resolve") /\ call[w] # NoCall /\ call[w].view # Absent
      /\ UNCHANGED <<attempt, cookie, redeemed, account, session>>
  BY DEF MatchAccount, Viewing, At
<1>2. PICK p \in call[w].view : Found(w, p[1]) \/ Answer(w, "clear")
  BY DEF MatchAccount
<1>3. CASE Answer(w, "clear")
  BY <1>1, <1>3, QuietAnswer
<1>4. CASE Found(w, p[1])
  <2> DEFINE c == Proceeding(call[w], "open", Absent, 1, p[1])
  <2>1. Owns(p[1], Identified(call[w]))
    BY <1>1, CallAt DEF CallOK
  <2>2. CallOK(c) /\ InPast(call[w]) /\ c.state = call[w].state
    BY <1>1, <2>1, ResolvingOK
  <2>3. call' = [call EXCEPT ![w] = c]
    BY <1>4 DEF Found, Proceed
  <2> HIDE DEF c
  <2>4. QED
    BY <1>1, <2>2, <2>3, QuietStep
<1>5. QED
  BY <1>2, <1>3, <1>4

LEMMA RetryResolveIInv ==
    ASSUME IInv, NEW w \in Worker, RetryResolve(w) PROVE IInv'
<1> DEFINE c == Proceeding(call[w], "resolve", Absent, call[w].tries + 1, 0)
<1>1. /\ At(w, "resolve") /\ call' = [call EXCEPT ![w] = c]
      /\ UNCHANGED <<attempt, cookie, redeemed, account, session>>
  BY DEF RetryResolve, Viewing, Proceed
<1>2. CallOK(c) /\ InPast(call[w]) /\ c.state = call[w].state
  BY <1>1, ResolvingOK
<1> HIDE DEF c
<1>3. QED
  BY <1>1, <1>2, QuietStep

LEMMA CrashIInv ==
    ASSUME IInv, NEW w \in Worker, Crash(w) PROVE IInv'
<1>1. ~ InPast(NoCall)
  BY DEF InPast
<1>2. QED
  BY <1>1, QuietStep DEF Crash

-----------------------------------------------------------------------------
(* Steps that change more than a call.                                     *)

\* A call that stays as it is: nothing is asked of the worker.
LEMMA Unmoved ==
    ASSUME IInv, Later, UNCHANGED <<session, call>>
    PROVE  CallsOK' /\ CallsExclude' /\ SessionsOK' /\ SessionsExclude'
<1>1. CallsOK'
  <2> SUFFICES ASSUME NEW v \in Worker, call[v] # NoCall PROVE CallOK(call[v])'
    BY DEF CallsOK
  <2> PICK d : d = call[v]
    OBVIOUS
  <2>1. CallOK(d)'
    BY CallStays DEF IInv, CallsOK
  <2>2. QED
    BY <2>1
<1>2. SessionsOK'
  <2> SUFFICES ASSUME NEW n \in DOMAIN session PROVE SessionOK(session[n])'
    BY DEF SessionsOK
  <2> PICK r : r = session[n]
    OBVIOUS
  <2>1. r \in SessionRow /\ SessionOK(r)
    BY DEF IInv, RowsOK, SessionsOK
  <2>2. QED
    BY <2>1, SessionStays
<1>3. CallsExclude' /\ SessionsExclude'
  BY DEF IInv, CallsExclude, SessionsExclude, OneSessionPerAttempt, InPast
<1>4. QED
  BY <1>1, <1>2, <1>3

LEMMA StartIInv ==
    ASSUME IInv, NEW b \in Browser, NEW a \in Attempt, Start(b, a) PROVE IInv'
<1>1. [status |-> "PENDING", browser |-> b] \in Row
  BY DEF Row
<1>2. Later
  BY DEF Start, IInv, RowsOK, Later
<1>3. RowsOK'
  BY <1>1 DEF Start, IInv, RowsOK
<1>4. CookiesOK'
  BY <1>1, RowAssumption DEF Start, IInv, RowsOK, CookiesOK, Begun
<1>5. IdentitiesOK'
  BY DEF Start, IInv, IdentitiesOK
<1>6. UNCHANGED <<session, call>>
  BY DEF Start
<1>7. QED
  BY <1>2, <1>3, <1>4, <1>5, <1>6, Unmoved DEF IInv

LEMMA SuspendIInv ==
    ASSUME IInv, NEW n \in DOMAIN account, Suspend(n) PROVE IInv'
<1>1. DOMAIN account' = DOMAIN account
      /\ \A m \in DOMAIN account : account'[m].subject = account[m].subject
  BY DEF Suspend, IInv, RowsOK, AccountRow
<1>2. Later
  BY <1>1 DEF Later, Suspend
<1>3. RowsOK'
  <2> PICK r : r = [account[n] EXCEPT !.active = FALSE]
    OBVIOUS
  <2>1. account \in Seq(AccountRow) /\ account[n] \in AccountRow
    BY DEF IInv, RowsOK
  <2>2. r \in AccountRow
    BY <2>1 DEF AccountRow
  <2>3. account' = [account EXCEPT ![n] = r]
    BY DEF Suspend
  <2>4. account' \in Seq(AccountRow)
    BY <2>1, <2>2, <2>3
  <2>5. QED
    BY <2>4 DEF Suspend, IInv, RowsOK
<1>4. CookiesOK' /\ IdentitiesOK'
  BY <1>1 DEF Suspend, IInv, CookiesOK, Begun, IdentitiesOK
<1>5. UNCHANGED <<session, call>>
  BY DEF Suspend
<1>6. QED
  BY <1>2, <1>3, <1>4, <1>5, Unmoved DEF IInv

\* A PENDING row takes another status, and keeps its browser.
LEMMA ClaimKeeps ==
    ASSUME IInv, NEW w \in Worker, NEW status \in {"CONSUMED", "EXPIRED"}, Claim(w, status)
    PROVE  /\ CallOK(call[w]) /\ call[w].step = "consume" /\ call[w] # NoCall
           /\ Later /\ CookiesOK' /\ IdentitiesOK'
           /\ attempt' \in [Attempt -> {Absent} \cup Row]
           /\ attempt'[call[w].state] = [status |-> status, browser |-> call[w].browser]
           /\ Free(w, call[w].state)
<1>1. CallOK(call[w]) /\ call[w].step = "consume" /\ call[w] # NoCall
  BY CallAt DEF Claim, Viewing, At
<1> PICK a : a = call[w].state
  OBVIOUS
<1>2. a \in Attempt /\ attempt[a] \in Row /\ attempt[a].status = "PENDING"
      /\ Begun(a, call[w].browser)
  BY <1>1 DEF Claim, Eligible, Claimable, CallOK, Begun, IInv, RowsOK
<1>3. attempt' = [attempt EXCEPT ![a].status = status]
  BY DEF Claim
<1>4. attempt'[a] \in Row /\ attempt'[a].browser = attempt[a].browser
      /\ attempt'[a].status = status
  BY <1>2, <1>3 DEF Row, IInv, RowsOK
<1>5. \A d \in Attempt \ {a} : attempt'[d] = attempt[d]
  BY <1>3 DEF IInv, RowsOK
<1>6. attempt' \in [Attempt -> {Absent} \cup Row]
  BY <1>2, <1>3, <1>4, <1>5 DEF IInv, RowsOK
<1>7. Later
  BY <1>2, <1>4, <1>5, RowAssumption DEF Claim, Later
<1>8. CookiesOK' /\ IdentitiesOK'
  BY <1>2, <1>4, <1>5, RowAssumption DEF Claim, IInv, CookiesOK, Begun, IdentitiesOK
<1>9. attempt'[a] = [status |-> status, browser |-> call[w].browser]
  BY <1>2, <1>4 DEF Begun, Row
<1>10. Free(w, a)
  <2>1. ~ Consumed(a)
    BY <1>2 DEF Consumed
  <2>2. \A v \in Worker : InPast(call[v]) => Consumed(call[v].state)
    BY DEF IInv, CallsOK, CallOK, InPast
  <2>3. \A n \in DOMAIN session : Consumed(session[n].attempt)
    BY DEF IInv, SessionsOK, SessionOK
  <2>4. QED
    BY <2>1, <2>2, <2>3 DEF Free
<1>11. QED
  BY <1>1, <1>4, <1>6, <1>7, <1>8, <1>9, <1>10

\* What follows a claim: the worker goes on alone with the attempt, or answers.
LEMMA ClaimedIInv ==
    ASSUME IInv, NEW w \in Worker, NEW status \in {"CONSUMED", "EXPIRED"}, Claim(w, status),
           \/ status = "CONSUMED" /\ Proceed(w, "exchange", Absent, 1, 0)
           \/ \E response \in {"clear", "keep"} : Answer(w, response)
    PROVE  IInv'
<1>1. /\ CallOK(call[w]) /\ call[w].step = "consume" /\ call[w] # NoCall
      /\ Later /\ CookiesOK' /\ IdentitiesOK'
      /\ attempt' \in [Attempt -> {Absent} \cup Row]
      /\ attempt'[call[w].state] = [status |-> status, browser |-> call[w].browser]
      /\ Free(w, call[w].state)
  BY ClaimKeeps
<1>2. UNCHANGED <<cookie, redeemed, account, session>>
  BY DEF Claim
<1>3. PICK c : /\ call' = [call EXCEPT ![w] = c] /\ CallOK(c)'
               /\ InPast(c) => Free(w, c.state)
  <2>1. CASE \E response \in {"clear", "keep"} : Answer(w, response)
    <3>1. PICK response \in {"clear", "keep"} : Answer(w, response)
      BY <2>1
    <3> PICK c : c = [step |-> response, browser |-> call[w].browser]
      OBVIOUS
    <3>2. CallOK(c) /\ ~ InPast(c)
      BY <1>1, AnswerOK
    <3>3. CallOK(c)'
      BY <1>1, <3>2, CallStays
    <3>4. QED
      BY <3>1, <3>2, <3>3 DEF Answer
  <2>2. CASE status = "CONSUMED" /\ Proceed(w, "exchange", Absent, 1, 0)
    <3> PICK c : c = Proceeding(call[w], "exchange", Absent, 1, 0)
      OBVIOUS
    <3>1. /\ c.step = "exchange" /\ c.browser = call[w].browser
          /\ c.state = call[w].state /\ c.code = call[w].code
      BY DEF Proceeding
    <3>2. c.browser \in Browser /\ c.state \in Attempt /\ c.code \in Code
      BY <1>1, <3>1 DEF CallOK
    <3>3. attempt'[c.state] = [status |-> "CONSUMED", browser |-> c.browser]
          /\ attempt'[c.state] # Absent
      BY <1>1, <2>2, <3>1, <3>2 DEF Later, CallOK
    <3>4. CallOK(c)'
      BY <3>1, <3>2, <3>3 DEF CallOK, Past, Begun, Consumed
    <3>5. QED
      BY <1>1, <2>2, <3>1, <3>4 DEF Proceed
  <2>3. QED
    BY <2>1, <2>2
<1>4. CallsOK' /\ CallsExclude' /\ SessionsOK' /\ SessionsExclude'
  BY <1>1, <1>2, <1>3, Moves
<1>5. RowsOK'
  BY <1>1, <1>2, <1>3 DEF IInv, RowsOK
<1>6. QED
  BY <1>1, <1>4, <1>5 DEF IInv

LEMMA ExpireAttemptIInv ==
    ASSUME IInv, NEW w \in Worker, ExpireAttempt(w) PROVE IInv'
BY ClaimedIInv DEF ExpireAttempt

LEMMA ConsumeIInv ==
    ASSUME IInv, NEW w \in Worker, Consume(w) PROVE IInv'
BY ClaimedIInv DEF Consume

\* The provider redeems a code, and the call goes on or answers.
LEMMA RedeemedIInv ==
    ASSUME IInv, NEW w \in Worker, At(w, "exchange"), redeemed \subseteq redeemed',
           UNCHANGED <<attempt, cookie, account, session>>,
           \/ /\ call[w].code \in redeemed' /\ ForThisAttempt(call[w])
              /\ Proceed(w, "resolve", Absent, 1, 0)
           \/ Answer(w, "clear")
    PROVE  IInv'
<1>1. CallOK(call[w]) /\ call[w].step = "exchange" /\ call[w] # NoCall
  BY CallAt DEF At
<1>2. Later
  BY DEF Later
<1>3. Free(w, call[w].state)
  BY <1>1, PastIsFree DEF InPast, Past
<1>4. PICK c : /\ call' = [call EXCEPT ![w] = c] /\ CallOK(c)'
               /\ InPast(c) => Free(w, c.state)
  <2>1. CASE Answer(w, "clear")
    <3> PICK c : c = [step |-> "clear", browser |-> call[w].browser]
      OBVIOUS
    <3>1. CallOK(c) /\ ~ InPast(c)
      BY <1>1, AnswerOK
    <3>2. CallOK(c)'
      BY <1>2, <3>1, CallStays
    <3>3. QED
      BY <2>1, <3>1, <3>2 DEF Answer
  <2>2. CASE call[w].code \in redeemed' /\ ForThisAttempt(call[w])
             /\ Proceed(w, "resolve", Absent, 1, 0)
    <3> PICK c : c = Proceeding(call[w], "resolve", Absent, 1, 0)
      OBVIOUS
    <3> PICK d : d = call[w]
      OBVIOUS
    <3>1. /\ c.step = "resolve" /\ c.browser = d.browser /\ c.view = Absent
          /\ c.state = d.state /\ c.code = d.code
      BY DEF Proceeding
    <3>2. CallOK(d)' /\ d.step = "exchange"
      BY <1>1, <1>2, CallStays
    <3>3. d.code \in redeemed' /\ d.code[1] = d.state
      BY <2>2 DEF ForThisAttempt
    <3>4. CallOK(c)'
      BY <3>1, <3>2, <3>3 DEF CallOK, Past
    <3>5. QED
      BY <1>3, <2>2, <3>1, <3>4 DEF Proceed
  <2>3. QED
    BY <2>1, <2>2
<1>5. CallsOK' /\ CallsExclude' /\ SessionsOK' /\ SessionsExclude'
  BY <1>2, <1>4, Moves
<1>6. RowsOK' /\ CookiesOK' /\ IdentitiesOK'
  BY <1>4 DEF IInv, RowsOK, CookiesOK, Begun, IdentitiesOK
<1>7. QED
  BY <1>5, <1>6 DEF IInv

LEMMA ExchangeIInv ==
    ASSUME IInv, NEW w \in Worker, Exchange(w) PROVE IInv'
BY RedeemedIInv DEF Exchange

LEMMA FailExchangeIInv ==
    ASSUME IInv, NEW w \in Worker, FailExchange(w) PROVE IInv'
BY RedeemedIInv DEF FailExchange

LEMMA RespondIInv ==
    ASSUME IInv, NEW w \in Worker, Respond(w) PROVE IInv'
<1>1. Later /\ UNCHANGED session /\ call' = [call EXCEPT ![w] = NoCall] /\ ~ InPast(NoCall)
  BY DEF Later, Respond, InPast
<1>2. CallsOK' /\ CallsExclude' /\ SessionsOK' /\ SessionsExclude'
  BY <1>1, Moves
<1>3. RowsOK'
  BY DEF Respond, IInv, RowsOK
<1>4. CookiesOK'
  BY LoginAssumption DEF Respond, IInv, RowsOK, CookiesOK, Begun
<1>5. IdentitiesOK'
  BY DEF Respond, IInv, IdentitiesOK
<1>6. QED
  BY <1>2, <1>3, <1>4, <1>5 DEF IInv

LEMMA CreateAccountIInv ==
    ASSUME IInv, NEW w \in Worker, CreateAccount(w) PROVE IInv'
<1> PICK s : s = Identified(call[w])
  OBVIOUS
<1> PICK r : r = [subject |-> s, active |-> TRUE]
  OBVIOUS
<1>1. CallOK(call[w]) /\ call[w].step = "resolve" /\ call[w] # NoCall
  BY CallAt DEF CreateAccount, Viewing, At
<1>2. r \in AccountRow
  BY <1>1 DEF AccountRow, Identified, CallOK, Code, Past
<1>3. /\ account' = Append(account, r) /\ AccountsOf(s) = {}
      /\ UNCHANGED <<attempt, cookie, redeemed, session>>
  BY DEF CreateAccount, IdentityKeyFree
<1>4. account \in Seq(AccountRow) /\ account' \in Seq(AccountRow)
  BY <1>2, <1>3 DEF IInv, RowsOK
<1>5. /\ Len(account') \in DOMAIN account' /\ account'[Len(account')] = r
      /\ \A m \in DOMAIN account : m \in DOMAIN account' /\ account'[m] = account[m]
      /\ \A m \in DOMAIN account' : m \in DOMAIN account \/ m = Len(account')
  BY <1>2, <1>3, <1>4
<1>6. Later
  BY <1>3, <1>5 DEF Later
<1>7. IdentitiesOK'
  BY <1>3, <1>5 DEF IInv, IdentitiesOK, AccountsOf
<1>8. CookiesOK'
  BY <1>3 DEF IInv, CookiesOK, Begun
<1>9. Free(w, call[w].state)
  BY <1>1, PastIsFree DEF InPast, Past
<1>10. PICK c : /\ call' = [call EXCEPT ![w] = c] /\ CallOK(c)'
                /\ InPast(c) => Free(w, c.state)
  <2>1. CASE Answer(w, "clear")
    <3> PICK c : c = [step |-> "clear", browser |-> call[w].browser]
      OBVIOUS
    <3>1. CallOK(c) /\ ~ InPast(c)
      BY <1>1, AnswerOK
    <3>2. CallOK(c)'
      BY <1>6, <3>1, CallStays
    <3>3. QED
      BY <2>1, <3>1, <3>2 DEF Answer
  <2>2. CASE Found(w, Len(account'))
    <3> PICK c : c = Proceeding(call[w], "open", Absent, 1, Len(account'))
      OBVIOUS
    <3> PICK d : d = call[w]
      OBVIOUS
    <3>1. /\ c.step = "open" /\ c.browser = d.browser /\ c.account = Len(account')
          /\ c.state = d.state /\ c.code = d.code
      BY DEF Proceeding
    <3>2. CallOK(d)' /\ d.step = "resolve"
      BY <1>1, <1>6, CallStays
    <3>3. Identified(c) = s
      BY <3>1 DEF Identified
    <3>4. Owns(c.account, s)'
      BY <1>5, <3>1 DEF Owns
    <3>5. CallOK(c)'
      BY <3>1, <3>2, <3>3, <3>4 DEF CallOK, Past
    <3>6. QED
      BY <1>9, <2>2, <3>1, <3>5 DEF Found, Proceed
  <2>3. QED
    BY <2>1, <2>2 DEF CreateAccount
<1>11. CallsOK' /\ CallsExclude' /\ SessionsOK' /\ SessionsExclude'
  BY <1>3, <1>6, <1>10, Moves
<1>12. RowsOK'
  BY <1>3, <1>4, <1>10 DEF IInv, RowsOK
<1>13. QED
  BY <1>7, <1>8, <1>11, <1>12 DEF IInv

LEMMA OpenSessionIInv ==
    ASSUME IInv, NEW w \in Worker, OpenSession(w) PROVE IInv'
<1> PICK d : d = call[w]
  OBVIOUS
<1> PICK r : r = [account |-> d.account, attempt |-> d.state,
                  browser |-> d.browser, subject |-> Identified(d)]
  OBVIOUS
<1> PICK c : c = [step |-> "clear", browser |-> d.browser]
  OBVIOUS
<1>1. CallOK(d) /\ d.step = "open" /\ d # NoCall
  BY CallAt DEF OpenSession, At
<1>2. /\ session' = Append(session, r) /\ call' = [call EXCEPT ![w] = c]
      /\ UNCHANGED <<attempt, cookie, redeemed, account>>
  BY DEF OpenSession, Answer
<1>3. r \in SessionRow /\ SessionOK(r)
  <2>1. d.state \in Attempt /\ d.browser \in Browser /\ d.code \in Code
        /\ Identified(d) \in Subject
    BY <1>1 DEF CallOK, Past, Code, Identified
  <2>2. d.account \in Nat
    BY <1>1 DEF CallOK, Owns, IInv, RowsOK
  <2>3. d.code = <<d.state, Identified(d)>>
    BY <1>1, <2>1 DEF CallOK, Code, Identified
  <2>4. Begun(d.state, d.browser) /\ Consumed(d.state)
        /\ d.code \in redeemed /\ Owns(d.account, Identified(d))
    BY <1>1 DEF CallOK, Past
  <2>5. QED
    BY <2>1, <2>2, <2>3, <2>4 DEF SessionRow, SessionOK
<1>4. session' \in Seq(SessionRow)
      /\ \A n \in DOMAIN session' :
            \/ n \in DOMAIN session /\ session'[n] = session[n]
            \/ n = Len(session) + 1 /\ session'[n] = r
  BY <1>2, <1>3 DEF IInv, RowsOK
<1>5. Later
  BY <1>2 DEF Later
<1>6. CallOK(c) /\ ~ InPast(c)
  BY <1>1, AnswerOK
<1>7. /\ call'[w] = c /\ \A v \in Worker \ {w} : call'[v] = call[v]
      /\ call' = [v \in Worker |-> call'[v]]
  BY <1>2 DEF IInv, RowsOK
<1>8. CallsOK'
  <2> SUFFICES ASSUME NEW v \in Worker, call'[v] # NoCall PROVE CallOK(call[v])'
    BY DEF CallsOK
  <2> PICK e : e = call'[v]
    OBVIOUS
  <2>1. CallOK(e)
    BY <1>6, <1>7 DEF IInv, CallsOK
  <2>2. CallOK(e)'
    BY <1>5, <2>1, CallStays
  <2>3. QED
    BY <2>2
<1>9. CallsExclude'
  BY <1>6, <1>7 DEF IInv, CallsExclude, InPast
<1>10. SessionsOK'
  <2> SUFFICES ASSUME NEW n \in DOMAIN session' PROVE SessionOK(session[n])'
    BY DEF SessionsOK
  <2> PICK q : q = session'[n]
    OBVIOUS
  <2>1. q \in SessionRow /\ SessionOK(q)
    BY <1>3, <1>4 DEF IInv, RowsOK, SessionsOK
  <2>2. SessionOK(q)'
    BY <1>5, <2>1, SessionStays
  <2>3. QED
    BY <2>2
<1>11. SessionsExclude'
  <2>1. InPast(d) /\ r.attempt = d.state /\ Free(w, d.state)
    BY <1>1, PastIsFree DEF InPast, Past
  <2>2. OneSessionPerAttempt'
    BY <1>4, <2>1 DEF IInv, SessionsExclude, OneSessionPerAttempt, Free
  <2>3. (\A n \in DOMAIN session, v \in Worker :
            InPast(call[v]) => call[v].state # session[n].attempt)'
    BY <1>4, <1>6, <1>7, <2>1 DEF IInv, SessionsExclude, InPast, Free
  <2>4. QED
    BY <2>2, <2>3 DEF SessionsExclude
<1>12. RowsOK' /\ CookiesOK' /\ IdentitiesOK'
  BY <1>2, <1>4, <1>7 DEF IInv, RowsOK, CookiesOK, Begun, IdentitiesOK
<1>13. QED
  BY <1>8, <1>9, <1>10, <1>11, <1>12 DEF IInv

-----------------------------------------------------------------------------
LEMMA CallbackIInv ==
    ASSUME IInv, NEW w \in Worker, Callback(w) PROVE IInv'
BY ReadAttemptIInv, ExpireAttemptIInv, ConsumeIInv, QuietAnswersIInv, ExchangeIInv,
   FailExchangeIInv, ReadIdentityIInv, CreateAccountIInv, MatchAccountIInv,
   RetryResolveIInv, OpenSessionIInv, RespondIInv, CrashIInv DEF Callback

LEMMA NextIInv == IInv /\ [Next]_vars => IInv'
<1> SUFFICES ASSUME IInv, [Next]_vars PROVE IInv'
  OBVIOUS
<1>1. CASE UNCHANGED vars
  <2>1. Later /\ UNCHANGED <<attempt, cookie, redeemed, account, session, call>>
    BY <1>1 DEF vars, Later
  <2>2. CallsOK' /\ CallsExclude' /\ SessionsOK' /\ SessionsExclude'
    BY <2>1, Unmoved
  <2>3. RowsOK' /\ CookiesOK' /\ IdentitiesOK'
    BY <2>1 DEF IInv, RowsOK, CookiesOK, Begun, IdentitiesOK
  <2>4. QED
    BY <2>2, <2>3 DEF IInv
<1>2. CASE Next
  BY <1>2, StartIInv, DeliverIInv, CallbackIInv, SuspendIInv DEF Next
<1>3. QED
  BY <1>1, <1>2

\* The invariant holds in every reachable state: a call past the consumption of an
\* attempt, or a session of it, excludes every other one.
THEOREM Inductive == Spec => []IInv
BY InitIInv, NextIInv, PTL DEF Spec

\* However its callback URLs are opened, an attempt opens at most one session.
THEOREM LoginsOpenOneSession == Spec => []OneSessionPerAttempt
<1>1. IInv => OneSessionPerAttempt
  BY DEF IInv, SessionsExclude
<1>2. QED
  BY <1>1, Inductive, PTL

\* A session is of the browser that began the login and of who signed in for it.
THEOREM SessionsAreOfTheirLogin == Spec => []SessionOfItsLogin
<1>1. IInv => SessionOfItsLogin
  BY DEF IInv, SessionsOK, SessionOK, Begun, Owns, SessionOfItsLogin
<1>2. QED
  BY <1>1, Inductive, PTL

\* Racing first logins leave at most one account for an identity.
THEOREM IdentitiesAreUnique == Spec => []OneAccountPerIdentity
<1>1. IInv => OneAccountPerIdentity
  <2> SUFFICES ASSUME IInv, NEW s \in Subject PROVE Cardinality(AccountsOf(s)) <= 1
    BY DEF OneAccountPerIdentity
  <2>1. CASE AccountsOf(s) = {}
    BY <2>1, FS_EmptySet
  <2>2. CASE AccountsOf(s) # {}
    <3>1. PICK n : n \in AccountsOf(s)
      BY <2>2
    <3>2. AccountsOf(s) = {n}
      BY <3>1 DEF AccountsOf, IInv, IdentitiesOK
    <3>3. Cardinality(AccountsOf(s)) = 1
      BY <3>2, FS_Singleton
    <3>4. QED
      BY <3>3
  <2>3. QED
    BY <2>1, <2>2
<1>2. QED
  BY <1>1, Inductive, PTL

-----------------------------------------------------------------------------
(* Types.                                                                  *)

\* What the step a call is at says of its fields, whatever the tables hold.
CallTyped(c) ==
    /\ c.step \in Past \cup {"consume"} => c.bound \in BOOLEAN /\ c.tries \in 1 .. MaxTries
    /\ c.step = "consume" => c.view \in {Absent} \cup Row
    /\ c.step = "resolve" /\ c.view # Absent => c.view \subseteq Nat \X BOOLEAN

CallsTyped == \A w \in Worker : call[w] # NoCall => CallTyped(call[w])

RedeemedOK == redeemed \subseteq Code

\* The rows of a table.
LEMMA RowTypes ==
    ASSUME NEW S, NEW s \in Seq(S), NEW n \in DOMAIN s PROVE n \in Nat /\ s[n] \in S
<1>1. s \in [1 .. Len(s) -> S] /\ Len(s) \in Nat
  OBVIOUS
<1>2. QED
  BY <1>1

\* A worker whose new call is typed.
LEMMA TypedStep ==
    ASSUME IInv, CallsTyped, NEW w \in Worker, NEW c, call' = [call EXCEPT ![w] = c],
           c # NoCall => CallTyped(c)
    PROVE  CallsTyped'
<1>1. call'[w] = c /\ \A v \in Worker \ {w} : call'[v] = call[v]
  BY DEF IInv, RowsOK
<1>2. QED
  BY <1>1 DEF CallsTyped

LEMMA TypedAnswer ==
    ASSUME IInv, CallsTyped, NEW w \in Worker, NEW response \in {"clear", "keep"},
           Answer(w, response)
    PROVE  CallsTyped'
<1> PICK c : c = [step |-> response, browser |-> call[w].browser]
  OBVIOUS
<1>1. CallTyped(c)
  BY DEF CallTyped, Past
<1>2. QED
  BY <1>1, TypedStep DEF Answer

LEMMA TypedProceed ==
    ASSUME IInv, CallsTyped, NEW w \in Worker, NEW from \in Past \cup {"consume"},
           At(w, from), NEW step \in Past \cup {"consume"}, NEW view,
           NEW tries \in 1 .. MaxTries, NEW n, Proceed(w, step, view, tries, n),
           step = "consume" => view \in {Absent} \cup Row,
           step = "resolve" /\ view # Absent => view \subseteq Nat \X BOOLEAN
    PROVE  CallsTyped'
<1> PICK c : c = Proceeding(call[w], step, view, tries, n)
  OBVIOUS
<1>1. call[w].bound \in BOOLEAN
  BY DEF CallsTyped, CallTyped, At
<1>2. CallTyped(c)
  BY <1>1 DEF CallTyped, Proceeding
<1>3. QED
  BY <1>2, TypedStep DEF Proceed

LEMMA CallbackTyped ==
    ASSUME IInv, CallsTyped, NEW w \in Worker, Callback(w)
    PROVE  CallsTyped'
<1> USE DEF Past
<1>0. 1 \in 1 .. MaxTries
  BY DEF MaxTries
<1>1. ASSUME NEW response \in {"clear", "keep"}, Answer(w, response) PROVE CallsTyped'
  BY <1>1, TypedAnswer
<1>2. ASSUME NEW n, At(w, "resolve"), Found(w, n) PROVE CallsTyped'
  BY <1>0, <1>2, TypedProceed DEF Found
<1>3. CASE ReadAttempt(w)
  <2>1. At(w, "consume") /\ Proceed(w, "consume", attempt[call[w].state], 1, 0)
    BY <1>3 DEF ReadAttempt
  <2>2. call[w].state \in Attempt
    BY <2>1, CallAt DEF CallOK
  <2>3. attempt[call[w].state] \in {Absent} \cup Row
    BY <2>2 DEF IInv, RowsOK
  <2>4. QED
    BY <1>0, <2>1, <2>3, TypedProceed
<1>4. CASE RejectAttempt(w) \/ ExpireAttempt(w) \/ FailUnconsumed(w) \/ FailExchange(w)
           \/ FailConsumed(w) \/ OpenSession(w)
  BY <1>1, <1>4 DEF RejectAttempt, ExpireAttempt, FailUnconsumed, FailExchange,
                    FailConsumed, OpenSession
<1>5. CASE Consume(w)
  <2>1. At(w, "consume") /\ (Proceed(w, "exchange", Absent, 1, 0) \/ Answer(w, "keep"))
    BY <1>5 DEF Consume, Claim, Viewing
  <2>2. QED
    BY <1>0, <1>1, <2>1, TypedProceed
<1>6. CASE Exchange(w)
  <2>1. At(w, "exchange") /\ Proceed(w, "resolve", Absent, 1, 0)
    BY <1>6 DEF Exchange
  <2>2. QED
    BY <1>0, <2>1, TypedProceed
<1>7. CASE ReadIdentity(w)
  <2> DEFINE view == {<<n, account[n].active>> : n \in AccountsOf(Identified(call[w]))}
  <2>1. At(w, "resolve") /\ Proceed(w, "resolve", view, call[w].tries, 0)
    BY <1>7 DEF ReadIdentity
  <2>2. view \subseteq Nat \X BOOLEAN
    <3>1. ASSUME NEW n \in DOMAIN account PROVE n \in Nat /\ account[n].active \in BOOLEAN
      <4>1. n \in Nat /\ account[n] \in AccountRow
        BY RowTypes DEF IInv, RowsOK
      <4>2. QED
        BY <4>1 DEF AccountRow
    <3>2. QED
      BY <3>1 DEF AccountsOf
  <2>3. call[w].tries \in 1 .. MaxTries
    BY <2>1 DEF CallsTyped, CallTyped, At
  <2> HIDE DEF view
  <2>4. QED
    BY <2>1, <2>2, <2>3, TypedProceed
<1>8. CASE CreateAccount(w)
  <2>1. At(w, "resolve") /\ (Found(w, Len(account')) \/ Answer(w, "clear"))
    BY <1>8 DEF CreateAccount, Viewing
  <2>2. QED
    BY <1>1, <1>2, <2>1
<1>9. CASE MatchAccount(w)
  <2>1. At(w, "resolve") /\ \E p \in call[w].view : Found(w, p[1]) \/ Answer(w, "clear")
    BY <1>9 DEF MatchAccount, Viewing
  <2>2. QED
    BY <1>1, <1>2, <2>1
<1>10. CASE RetryResolve(w)
  <2>1. /\ At(w, "resolve") /\ call[w].tries < MaxTries
        /\ Proceed(w, "resolve", Absent, call[w].tries + 1, 0)
    BY <1>10 DEF RetryResolve, Viewing
  <2>2. call[w].tries \in 1 .. MaxTries
    BY <2>1 DEF CallsTyped, CallTyped, At
  <2>3. call[w].tries + 1 \in 1 .. MaxTries
    BY <2>1, <2>2 DEF MaxTries
  <2>4. QED
    BY <2>1, <2>3, TypedProceed
<1>11. CASE Respond(w) \/ Crash(w)
  BY <1>11, TypedStep DEF Respond, Crash
<1>12. QED
  BY <1>3, <1>4, <1>5, <1>6, <1>7, <1>8, <1>9, <1>10, <1>11 DEF Callback

LEMMA NextRedeemed == IInv /\ RedeemedOK /\ [Next]_vars => RedeemedOK'
<1> SUFFICES ASSUME IInv, RedeemedOK, [Next]_vars PROVE RedeemedOK'
  OBVIOUS
<1>1. CASE UNCHANGED redeemed
  BY <1>1 DEF RedeemedOK
<1>2. ASSUME NEW w \in Worker, Exchange(w) \/ FailExchange(w) PROVE RedeemedOK'
  <2>1. At(w, "exchange") /\ redeemed' \subseteq redeemed \cup {call[w].code}
    BY <1>2 DEF Exchange, FailExchange
  <2>2. call[w].code \in Code
    BY <2>1, CallAt DEF CallOK, Past
  <2>3. QED
    BY <2>1, <2>2 DEF RedeemedOK
<1>3. ASSUME NEW w \in Worker, Callback(w), ~ (Exchange(w) \/ FailExchange(w))
      PROVE  UNCHANGED redeemed
  BY <1>3 DEF Callback, ReadAttempt, RejectAttempt, ExpireAttempt, Consume, Claim,
              FailUnconsumed, ReadIdentity, CreateAccount, MatchAccount, RetryResolve,
              FailConsumed, OpenSession, Respond, Crash
<1>4. QED
  BY <1>1, <1>2, <1>3 DEF Next, Start, Deliver, Suspend, vars

LEMMA NextTyped == IInv /\ CallsTyped /\ [Next]_vars => CallsTyped'
<1> SUFFICES ASSUME IInv, CallsTyped, [Next]_vars PROVE CallsTyped'
  OBVIOUS
<1>1. CASE UNCHANGED call
  BY <1>1 DEF CallsTyped
<1>2. ASSUME NEW w \in Worker, NEW b \in Browser, NEW a \in Attempt, NEW x \in Code,
             Deliver(w, b, a, x)
      PROVE  CallsTyped'
  <2> PICK c : c = [step |-> "consume", browser |-> b, bound |-> cookie[b] = a,
                    state |-> a, code |-> x, view |-> Absent, tries |-> 1, account |-> 0]
    OBVIOUS
  <2>1. CallTyped(c)
    BY DEF CallTyped, Past, MaxTries
  <2>2. QED
    BY <1>2, <2>1, TypedStep DEF Deliver
<1>3. QED
  BY <1>1, <1>2, CallbackTyped DEF Next, Start, Suspend, vars

\* Whatever callbacks are in flight, and wherever they stop, rows, cookies and calls
\* keep their shape and refer to rows that exist.
THEOREM LoginTypes == Spec => []TypeOK
<1>1. Init => CallsTyped /\ RedeemedOK
  BY DEF Init, CallsTyped, RedeemedOK
<1>2. ASSUME IInv, CallsTyped, RedeemedOK PROVE TypeOK
  <2>1. attempt \in [Attempt -> {Absent} \cup Row] /\ cookie \in [Browser -> Attempt \cup {Absent}]
    BY <1>2 DEF IInv, RowsOK
  <2>2. \A n \in DOMAIN account : account[n] \in [subject : Subject, active : BOOLEAN]
    BY <1>2, RowTypes DEF IInv, RowsOK, AccountRow
  <2>3. ASSUME NEW n \in DOMAIN session
        PROVE  session[n] \in [account : DOMAIN account, attempt : Attempt,
                               browser : Browser, subject : Subject]
    <3>1. session[n] \in SessionRow
      BY <1>2, RowTypes DEF IInv, RowsOK
    <3>2. session[n].account \in DOMAIN account
      BY <1>2 DEF IInv, SessionsOK, SessionOK, Owns
    <3>3. QED
      BY <3>1, <3>2 DEF SessionRow
  <2>4. ASSUME NEW w \in Worker, call[w] # NoCall PROVE TypeOfCall(call[w])
    <3> PICK c : c = call[w]
      OBVIOUS
    <3>1. CallOK(c) /\ CallTyped(c)
      BY <1>2, <2>4 DEF IInv, CallsOK, CallsTyped
    <3>2. c.step = "resolve" /\ c.view # Absent => c.view \subseteq (DOMAIN account) \X BOOLEAN
      BY <3>1 DEF CallOK, CallTyped, Owns
    <3>3. c.step = "open" => c.account \in DOMAIN account
      BY <3>1 DEF CallOK, Owns
    <3>4. QED
      BY <3>1, <3>2, <3>3 DEF CallOK, CallTyped, TypeOfCall, Working, Past
  <2>5. redeemed \subseteq Code
    BY <1>2 DEF RedeemedOK
  <2>6. QED
    BY <2>1, <2>2, <2>3, <2>4, <2>5 DEF TypeOK
<1>3. QED
  BY <1>1, <1>2, NextTyped, NextRedeemed, Inductive, PTL DEF Spec

-----------------------------------------------------------------------------
(* Logging in, without callbacks.                                          *)

\* An identity's account says what its owner is.
LEMMA MemberIs ==
    ASSUME IInv, NEW s \in Subject
    PROVE  /\ AccountsOf(s) = {} => Member[s] = "NONE"
           /\ \A n \in DOMAIN account : account[n].subject = s =>
                 /\ AccountsOf(s) = {n}
                 /\ Member[s] = IF account[n].active THEN "ACTIVE" ELSE "SUSPENDED"
<1>1. ASSUME NEW n \in DOMAIN account, account[n].subject = s
      PROVE  AccountsOf(s) = {n}
  BY <1>1 DEF IInv, IdentitiesOK, AccountsOf
<1>2. QED
  BY <1>1 DEF Member

\* A session goes on being of whom it was opened for.
LEMMA OpenedStays ==
    ASSUME IInv, Later, UNCHANGED session PROVE Opened' = Opened
<1>1. ASSUME NEW n \in DOMAIN session
      PROVE  account'[session[n].account].subject = account[session[n].account].subject
  BY DEF IInv, SessionsOK, SessionOK, Owns, Later
<1>2. ASSUME NEW n \in DOMAIN session PROVE Seen(session[n])' = Seen(session[n])
  BY <1>1 DEF Seen
<1>3. ASSUME NEW a \in Attempt
      PROVE  {Seen(session[n]) : n \in {m \in DOMAIN session : session[m].attempt = a}}'
             = {Seen(session[n]) : n \in {m \in DOMAIN session : session[m].attempt = a}}
  BY <1>2
<1>4. QED
  BY <1>3 DEF Opened

LEMMA NothingHappens ==
    ASSUME IInv, UNCHANGED <<redeemed, account, session>>,
           \A a \in Attempt :
              /\ attempt'[a] = Absent <=> attempt[a] = Absent
              /\ attempt[a] # Absent => attempt'[a].browser = attempt[a].browser
    PROVE  UNCHANGED People!vars
<1>1. Starter' = Starter
  BY DEF Starter
<1>2. Member' = Member /\ Opened' = Opened
  BY DEF Member, AccountsOf, Opened, Seen
<1>3. QED
  BY <1>1, <1>2 DEF People!vars

LEMMA StartStarts ==
    ASSUME IInv, NEW b \in Browser, NEW a \in Attempt, Start(b, a)
    PROVE  People!Start(b, a)
<1>1. /\ attempt[a] = Absent
      /\ attempt' = [attempt EXCEPT ![a] = [status |-> "PENDING", browser |-> b]]
      /\ UNCHANGED <<redeemed, account, session>>
      /\ attempt \in [Attempt -> {Absent} \cup Row]
  BY DEF Start, IInv, RowsOK
<1>2. [status |-> "PENDING", browser |-> b] # Absent
  BY RowAssumption DEF Row
<1>3. Starter[a] = Absent /\ Starter' = [Starter EXCEPT ![a] = b]
  BY <1>1, <1>2 DEF Starter
<1>4. Member' = Member /\ Opened' = Opened
  BY <1>1 DEF Member, AccountsOf, Opened, Seen
<1>5. QED
  BY <1>1, <1>3, <1>4 DEF People!Start

LEMMA RedemptionSignsIn ==
    ASSUME IInv, NEW w \in Worker, Exchange(w) \/ FailExchange(w), redeemed' # redeemed
    PROVE  \E a \in Attempt, s \in Subject : People!SignIn(a, s)
<1> PICK c : c = call[w].code
  OBVIOUS
<1>1. /\ redeemed' = redeemed \cup {c}
      /\ UNCHANGED <<attempt, account, session>>
      /\ At(w, "exchange")
  BY DEF Exchange, FailExchange
<1>2. c \in Code
  BY <1>1, CallAt DEF CallOK, Past
<1>3. PICK a \in Attempt, s \in Subject : c = <<a, s>>
  BY <1>2 DEF Code
<1>4. Starter' = Starter /\ Member' = Member /\ Opened' = Opened
  BY <1>1 DEF Starter, Member, AccountsOf, Opened, Seen
<1>5. QED
  BY <1>1, <1>3, <1>4 DEF People!SignIn

LEMMA CreationEnrols ==
    ASSUME IInv, NEW w \in Worker, CreateAccount(w)
    PROVE  \E s \in Subject : People!Enrol(s)
<1> PICK d : d = call[w]
  OBVIOUS
<1> PICK s : s = Identified(d)
  OBVIOUS
<1>1. /\ account' = Append(account, [subject |-> s, active |-> TRUE])
      /\ AccountsOf(s) = {}
      /\ UNCHANGED <<attempt, redeemed, session>>
      /\ At(w, "resolve")
      /\ account \in Seq(AccountRow)
  BY DEF CreateAccount, IdentityKeyFree, Viewing, IInv, RowsOK
<1>2. CallOK(d) /\ d.step = "resolve"
  BY <1>1, CallAt
<1>3. s \in Subject /\ d.state \in Attempt /\ <<d.state, s>> \in redeemed
  <2>1. d.code \in Code /\ d.code[1] = d.state /\ d.code \in redeemed /\ d.state \in Attempt
    BY <1>2 DEF CallOK, Past
  <2>2. d.code = <<d.code[1], d.code[2]>> /\ d.code[2] \in Subject
    BY <2>1 DEF Code
  <2>3. QED
    BY <2>1, <2>2 DEF Identified
<1>4. Member[s] = "NONE"
  BY <1>1, <1>3 DEF Member
<1>5. /\ DOMAIN account' = DOMAIN account \cup {Len(account) + 1}
      /\ Len(account) + 1 \notin DOMAIN account
      /\ account'[Len(account) + 1] = [subject |-> s, active |-> TRUE]
      /\ \A n \in DOMAIN account : account'[n] = account[n]
  BY <1>1
<1>6. Member' = [Member EXCEPT ![s] = "ACTIVE"]
  <2>1. AccountsOf(s)' = {Len(account) + 1}
    BY <1>1, <1>5 DEF AccountsOf
  <2>2. Member'[s] = "ACTIVE"
    BY <1>3, <1>5, <2>1 DEF Member
  <2>3. ASSUME NEW x \in Subject, x # s PROVE Member'[x] = Member[x]
    <3>1. AccountsOf(x)' = AccountsOf(x)
      BY <1>5, <2>3 DEF AccountsOf
    <3>2. \A n \in AccountsOf(x) : account'[n] = account[n]
      BY <1>5 DEF AccountsOf
    <3>3. QED
      BY <3>1, <3>2 DEF Member
  <2>4. /\ Member = [x \in Subject |-> Member[x]]
        /\ Member' = [x \in Subject |-> Member'[x]]
    BY DEF Member
  <2> HIDE DEF Member
  <2>5. QED
    BY <1>3, <2>2, <2>3, <2>4
<1>7. Starter' = Starter
  BY <1>1 DEF Starter
<1>8. Opened' = Opened
  <2>1. Later
    BY <1>1, <1>5 DEF Later
  <2>2. QED
    BY <1>1, <2>1, OpenedStays
<1>9. QED
  BY <1>1, <1>3, <1>4, <1>6, <1>7, <1>8 DEF People!Enrol

LEMMA SessionOpens ==
    ASSUME IInv, NEW w \in Worker, OpenSession(w)
    PROVE  \E a \in Attempt, s \in Subject : People!Open(a, s)
<1> PICK d : d = call[w]
  OBVIOUS
<1> PICK s : s = Identified(d)
  OBVIOUS
<1> PICK a : a = d.state
  OBVIOUS
<1> PICK r : r = [account |-> d.account, attempt |-> a, browser |-> d.browser, subject |-> s]
  OBVIOUS
<1>1. /\ session' = Append(session, r)
      /\ UNCHANGED <<attempt, redeemed, account>>
      /\ account[d.account].active /\ At(w, "open")
      /\ session \in Seq(SessionRow)
  BY DEF OpenSession, StillActive, IInv, RowsOK
<1>2. CallOK(d) /\ d.step = "open" /\ InPast(d)
  BY <1>1, CallAt DEF InPast, Past, At
<1>3. s \in Subject /\ a \in Attempt /\ <<a, s>> \in redeemed
  <2>1. d.code \in Code /\ d.code[1] = a /\ d.code \in redeemed /\ a \in Attempt
    BY <1>2 DEF CallOK, Past
  <2>2. d.code = <<d.code[1], d.code[2]>> /\ d.code[2] \in Subject
    BY <2>1 DEF Code
  <2>3. QED
    BY <2>1, <2>2 DEF Identified
<1>4. d.account \in DOMAIN account /\ account[d.account].subject = s
  BY <1>2 DEF CallOK, Owns
<1>5. Member[s] = "ACTIVE"
  BY <1>1, <1>3, <1>4, MemberIs
<1>6. \A n \in DOMAIN session : session[n].attempt # a
  BY <1>2, PastIsFree DEF Free
<1>7. Opened[a] = {}
  BY <1>3, <1>6 DEF Opened
<1>8. Starter[a] = d.browser
  BY <1>2, <1>3 DEF Starter, CallOK, Past, Begun
<1>9. /\ DOMAIN session' = DOMAIN session \cup {Len(session) + 1}
      /\ session'[Len(session) + 1] = r
      /\ \A n \in DOMAIN session : session'[n] = session[n]
  BY <1>1
<1>10. Seen(r)' = [subject |-> s, browser |-> d.browser]
  BY <1>1, <1>4 DEF Seen
<1>11. Opened' = [Opened EXCEPT ![a] = {[subject |-> s, browser |-> Starter[a]]}]
  <2>1. Opened'[a] = {Seen(r)'}
    <3>1. {m \in DOMAIN session' : session'[m].attempt = a} = {Len(session) + 1}
      BY <1>6, <1>9
    <3>2. QED
      BY <1>3, <1>9, <3>1 DEF Opened
  <2>2. ASSUME NEW x \in Attempt, x # a PROVE Opened'[x] = Opened[x]
    <3>1. {m \in DOMAIN session' : session'[m].attempt = x}
          = {m \in DOMAIN session : session[m].attempt = x}
      BY <1>9, <2>2
    <3>2. \A n \in DOMAIN session : Seen(session[n])' = Seen(session[n])
      BY <1>1, <1>9 DEF Seen
    <3>3. QED
      BY <3>1, <3>2 DEF Opened
  <2>3. /\ Opened = [x \in Attempt |-> Opened[x]]
        /\ Opened' = [x \in Attempt |-> Opened'[x]]
    BY DEF Opened
  <2>4. QED
    BY <1>3, <1>8, <1>10, <2>1, <2>2, <2>3
<1>12. Starter' = Starter /\ Member' = Member
  BY <1>1 DEF Starter, Member, AccountsOf
<1>13. QED
  BY <1>1, <1>3, <1>5, <1>7, <1>11, <1>12 DEF People!Open

LEMMA SuspensionSuspends ==
    ASSUME IInv, NEW n \in DOMAIN account, Suspend(n)
    PROVE  \E s \in Subject : People!Suspend(s)
<1> PICK s : s = account[n].subject
  OBVIOUS
<1>1. /\ account[n].active /\ s \in Unsteady
      /\ account' = [account EXCEPT ![n].active = FALSE]
      /\ UNCHANGED <<attempt, redeemed, session>>
      /\ account \in Seq(AccountRow)
  BY DEF Suspend, IInv, RowsOK
<1>2. s \in Subject
  BY <1>1, LoginAssumption
<1>3. /\ DOMAIN account' = DOMAIN account
      /\ \A m \in DOMAIN account :
            /\ account'[m].subject = account[m].subject
            /\ m # n => account'[m] = account[m]
      /\ account'[n].active = FALSE
  <2>1. account[n] \in AccountRow
    BY <1>1, RowTypes
  <2>2. account'[n] = [account[n] EXCEPT !.active = FALSE]
    BY <1>1
  <2>3. account'[n].active = FALSE /\ account'[n].subject = account[n].subject
    BY <2>1, <2>2 DEF AccountRow
  <2>4. QED
    BY <1>1, <2>3
<1>4. Member[s] = "ACTIVE" /\ AccountsOf(s) = {n}
  BY <1>1, <1>2, MemberIs
<1>5. \A x : AccountsOf(x)' = AccountsOf(x)
  BY <1>3 DEF AccountsOf
<1>6. Member' = [Member EXCEPT ![s] = "SUSPENDED"]
  <2>1. Member'[s] = "SUSPENDED"
    BY <1>2, <1>3, <1>4, <1>5 DEF Member
  <2>2. ASSUME NEW x \in Subject, x # s PROVE Member'[x] = Member[x]
    <3>1. \A m \in AccountsOf(x) : account'[m] = account[m]
      BY <1>3, <2>2 DEF AccountsOf
    <3>2. QED
      BY <1>5, <3>1 DEF Member
  <2>3. /\ Member = [x \in Subject |-> Member[x]]
        /\ Member' = [x \in Subject |-> Member'[x]]
    BY DEF Member
  <2>4. QED
    BY <1>2, <2>1, <2>2, <2>3
<1>7. Starter' = Starter
  BY <1>1 DEF Starter
<1>8. Opened' = Opened
  <2>1. Later
    BY <1>1, <1>3 DEF Later
  <2>2. QED
    BY <1>1, <2>1, OpenedStays
<1>9. QED
  BY <1>1, <1>2, <1>4, <1>6, <1>7, <1>8 DEF People!Suspend

LEMMA CallbackIsLogin ==
    ASSUME IInv, NEW w \in Worker, Callback(w)
    PROVE  [People!Next]_(People!vars)
<1>1. CASE ExpireAttempt(w) \/ Consume(w)
  <2> PICK a : a = call[w].state
    OBVIOUS
  <2>1. PICK status \in {"EXPIRED", "CONSUMED"} :
           /\ attempt' = [attempt EXCEPT ![a].status = status]
           /\ UNCHANGED <<redeemed, account, session>>
           /\ At(w, "consume")
    BY <1>1 DEF ExpireAttempt, Consume, Claim, Viewing
  <2>2. a \in Attempt /\ attempt[a] \in Row /\ attempt \in [Attempt -> {Absent} \cup Row]
    BY <2>1, CallAt DEF CallOK, IInv, RowsOK
  <2>3. attempt'[a] # Absent /\ attempt'[a].browser = attempt[a].browser
    <3>1. attempt'[a] = [attempt[a] EXCEPT !.status = status]
      BY <2>1, <2>2
    <3>2. attempt'[a] \in Row /\ attempt'[a].browser = attempt[a].browser
      BY <2>2, <3>1 DEF Row
    <3>3. QED
      BY <3>2, RowAssumption
  <2>4. \A x \in Attempt : x # a => attempt'[x] = attempt[x]
    BY <2>1, <2>2
  <2>5. attempt[a] # Absent
    BY <2>2, RowAssumption
  <2>6. UNCHANGED People!vars
    BY <2>1, <2>3, <2>4, <2>5, NothingHappens
  <2>7. QED
    BY <2>6
<1>2. CASE Exchange(w) \/ FailExchange(w)
  <2>1. CASE redeemed' = redeemed
    BY <1>2, <2>1, NothingHappens DEF Exchange, FailExchange
  <2>2. CASE redeemed' # redeemed
    BY <1>2, <2>2, RedemptionSignsIn DEF People!Next
  <2>3. QED
    BY <2>1, <2>2
<1>3. CASE CreateAccount(w)
  BY <1>3, CreationEnrols DEF People!Next
<1>4. CASE OpenSession(w)
  BY <1>4, SessionOpens DEF People!Next
<1>5. CASE UNCHANGED <<attempt, redeemed, account, session>>
  BY <1>5, NothingHappens
<1>6. QED
  BY <1>1, <1>2, <1>3, <1>4, <1>5
  DEF Callback, ReadAttempt, RejectAttempt, FailUnconsumed, ReadIdentity, MatchAccount,
      RetryResolve, FailConsumed, Respond, Crash

\* Whatever meets in the callbacks in flight, logins are what they promise: an account
\* once its owner has signed in, and one session per login while it is active.
THEOREM LoginsImplemented == Spec => ImplementsLogins
<1>1. Init => People!Init
  <2> SUFFICES ASSUME Init PROVE People!Init
    OBVIOUS
  <2>1. Starter = [a \in Attempt |-> Absent] /\ redeemed = {}
    BY DEF Init, Starter
  <2>2. Member = [s \in Subject |-> "NONE"]
    BY DEF Init, Member, AccountsOf
  <2>3. Opened = [a \in Attempt |-> {}]
    BY DEF Init, Opened
  <2>4. QED
    BY <2>1, <2>2, <2>3 DEF People!Init
<1>2. IInv /\ [Next]_vars => [People!Next]_(People!vars)
  <2> SUFFICES ASSUME IInv, [Next]_vars PROVE [People!Next]_(People!vars)
    OBVIOUS
  <2>1. CASE UNCHANGED vars
    BY <2>1, NothingHappens DEF vars
  <2>2. CASE \E b \in Browser, a \in Attempt : Start(b, a)
    BY <2>2, StartStarts DEF People!Next
  <2>3. CASE \E w \in Worker, b \in Browser, a \in Attempt, c \in Code : Deliver(w, b, a, c)
    BY <2>3, NothingHappens DEF Deliver
  <2>4. CASE \E w \in Worker : Callback(w)
    BY <2>4, CallbackIsLogin
  <2>5. CASE \E n \in DOMAIN account : Suspend(n)
    BY <2>5, SuspensionSuspends DEF People!Next
  <2>6. QED
    BY <2>1, <2>2, <2>3, <2>4, <2>5 DEF Next
<1>3. QED
  BY <1>1, <1>2, Inductive, PTL DEF Spec, ImplementsLogins, People!Spec

=============================================================================
