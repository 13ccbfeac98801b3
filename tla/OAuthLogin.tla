----------------------------- MODULE OAuthLogin -----------------------------
(***************************************************************************)
(* Logging in with Google: /auth/google/start and /auth/google/callback    *)
(* over PostgresOAuthAttemptAuthority, GoogleOidcClient,                   *)
(* ResolveGoogleAccount and the session authority's create.                *)
(*                                                                         *)
(* An attempt stands for its row and for the four secrets made with it:    *)
(* the state in the URL, the binding in the browser's cookie, and the      *)
(* nonce and PKCE verifier sealed in the row.  A callback request carries  *)
(* the cookie of whichever browser opens the URL; a URL may be opened      *)
(* often, late, in another browser, or with a code from another attempt.   *)
(* Once an attempt is started anyone may sign in for it at the provider,   *)
(* which redeems each code once.  Every transaction may fail before or     *)
(* after its commit.  Whether a row is still in time, and still unseals,   *)
(* is a choice.  Creating a session is one step here: Sessions models it,  *)
(* and logging out.  Audit and outbox rows are not modelled.               *)
(***************************************************************************)
EXTENDS Integers, Sequences, FiniteSets

CONSTANTS
    Worker,      \* callbacks in flight, over all application instances
    Browser,
    Attempt,     \* bounds the logins that are started
    Subject,     \* the provider's accounts
    Unsteady,    \* subjects whose account may be suspended
    Absent,      \* no row, no cookie, nothing read
    NoCall       \* the worker is idle

ASSUME LoginAssumption ==
    /\ Unsteady \subseteq Subject
    /\ Absent \notin Attempt

Row == [status : {"PENDING", "CONSUMED", "EXPIRED"}, browser : Browser]

ASSUME RowAssumption == Absent \notin Row

\* the attempts of PrismaMarketplaceUnitOfWork.execute
MaxTries == 3

VARIABLES
    attempt,    \* oauth_attempt; the browser is the one its binding went to
    cookie,     \* the attempt cookie of each browser
    redeemed,   \* the codes the provider has redeemed
    account,    \* account rows with their external_identity
    session,    \* browser_session, with the login each comes from
    call        \* the callback each worker executes

vars == <<attempt, cookie, redeemed, account, session, call>>

\* whose sign-in, for which attempt
Code == Attempt \X Subject

Init ==
    /\ attempt = [a \in Attempt |-> Absent]
    /\ cookie = [b \in Browser |-> Absent]
    /\ redeemed = {}
    /\ account = << >>
    /\ session = << >>
    /\ call = [w \in Worker |-> NoCall]

Start(b, a) ==
    /\ attempt[a] = Absent
    /\ attempt' = [attempt EXCEPT ![a] = [status |-> "PENDING", browser |-> b]]
    /\ cookie' = [cookie EXCEPT ![b] = a]
    /\ UNCHANGED <<redeemed, account, session, call>>

-----------------------------------------------------------------------------
(* The callback, up to the attempt's consumption.                          *)

Deliver(w, b, a, c) ==
    /\ call[w] = NoCall
    /\ attempt[a] # Absent
    /\ attempt[c[1]] # Absent
    /\ call' = [call EXCEPT ![w] =
          [step |-> "consume", browser |-> b, bound |-> cookie[b] = a, state |-> a,
           code |-> c, view |-> Absent, tries |-> 1, account |-> 0]]
    /\ UNCHANGED <<attempt, cookie, redeemed, account, session>>

At(w, step) == call[w] # NoCall /\ call[w].step = step

Viewing(w, step) == At(w, step) /\ call[w].view # Absent

\* the call c at a step, with what that step has read, found and tried
Proceeding(c, step, view, tries, n) ==
    [step |-> step, browser |-> c.browser, bound |-> c.bound, state |-> c.state,
     code |-> c.code, view |-> view, tries |-> tries, account |-> n]

Proceed(w, step, view, tries, n) ==
    call' = [call EXCEPT ![w] = Proceeding(call[w], step, view, tries, n)]

\* the response, which keeps the attempt cookie or clears it
Answer(w, response) ==
    call' = [call EXCEPT ![w] = [step |-> response, browser |-> call[w].browser]]

\* consume(): the transaction reads the row
ReadAttempt(w) ==
    /\ At(w, "consume")
    /\ call[w].view = Absent
    /\ Proceed(w, "consume", attempt[call[w].state], 1, 0)
    /\ UNCHANGED <<attempt, cookie, redeemed, account, session>>

AnyBrowser(c) == c.view.status = "PENDING"
Eligible(c) == c.view.status = "PENDING" /\ c.bound

RejectAttempt(w) ==
    /\ Viewing(w, "consume")
    /\ ~ Eligible(call[w])
    /\ Answer(w, "clear")
    /\ UNCHANGED <<attempt, cookie, redeemed, account, session>>

ClaimedAnyway(c) == TRUE
\* an UPDATE of a PENDING row under SERIALIZABLE: one that moved is a conflict
Claimable(c) == attempt[c.state] = c.view

Claim(w, status) ==
    /\ Viewing(w, "consume")
    /\ Eligible(call[w])
    /\ Claimable(call[w])
    /\ attempt' = [attempt EXCEPT ![call[w].state].status = status]
    /\ UNCHANGED <<cookie, redeemed, account, session>>

ExpireAttempt(w) ==
    /\ Claim(w, "EXPIRED")
    /\ \E response \in {"clear", "keep"} : Answer(w, response)

\* without the commit's acknowledgement the route takes the attempt as unused
Consume(w) ==
    /\ Claim(w, "CONSUMED")
    /\ Proceed(w, "exchange", Absent, 1, 0) \/ Answer(w, "keep")

\* the allowance is refused, the URL is not canonical, or consume() throws
FailUnconsumed(w) ==
    /\ At(w, "consume")
    /\ \E response \in {"clear", "keep"} : Answer(w, response)
    /\ UNCHANGED <<attempt, cookie, redeemed, account, session>>

-----------------------------------------------------------------------------
(* From the code to the account.                                           *)

\* the code's authorization request carried this attempt's challenge and nonce
ForThisAttempt(c) == c.code[1] = c.state

Exchange(w) ==
    /\ At(w, "exchange")
    /\ call[w].code \notin redeemed
    /\ ForThisAttempt(call[w])
    /\ redeemed' = redeemed \cup {call[w].code}
    /\ Proceed(w, "resolve", Absent, 1, 0)
    /\ UNCHANGED <<attempt, cookie, account, session>>

\* the provider refuses, or its answer is lost or invalid
FailExchange(w) ==
    /\ At(w, "exchange")
    /\ redeemed' \in {redeemed, redeemed \cup {call[w].code}}
    /\ Answer(w, "clear")
    /\ UNCHANGED <<attempt, cookie, account, session>>

Identified(c) == c.code[2]

AccountsOf(s) == {n \in DOMAIN account : account[n].subject = s}

\* resolveGoogleIdentity(): the transaction reads the identity and its account
ReadIdentity(w) ==
    /\ At(w, "resolve")
    /\ call[w].view = Absent
    /\ Proceed(w, "resolve", {<<n, account[n].active>> : n \in AccountsOf(Identified(call[w]))},
               call[w].tries, 0)
    /\ UNCHANGED <<attempt, cookie, redeemed, account, session>>

FoundCandidate(w, n) == Proceed(w, "open", Absent, 1, Len(account) + 1)
\* the account of the identity, never the candidate another login has forestalled
Found(w, n) == Proceed(w, "open", Absent, 1, n)

WithoutKey(s) == TRUE
\* external_identity_issuer_subject_key
IdentityKeyFree(s) == AccountsOf(s) = {}

CreateAccount(w) ==
    LET s == Identified(call[w])
    IN  /\ Viewing(w, "resolve")
        /\ call[w].view = {}
        /\ IdentityKeyFree(s)
        /\ account' = Append(account, [subject |-> s, active |-> TRUE])
        /\ Found(w, Len(account')) \/ Answer(w, "clear")
        /\ UNCHANGED <<attempt, cookie, redeemed, session>>

MatchAccount(w) ==
    /\ Viewing(w, "resolve")
    /\ \E p \in call[w].view : IF p[2] THEN Found(w, p[1]) ELSE Answer(w, "clear")
    /\ UNCHANGED <<attempt, cookie, redeemed, account, session>>

\* a conflict, or the key is taken: the unit of work tries again
RetryResolve(w) ==
    /\ Viewing(w, "resolve")
    /\ call[w].tries < MaxTries
    /\ Proceed(w, "resolve", Absent, call[w].tries + 1, 0)
    /\ UNCHANGED <<attempt, cookie, redeemed, account, session>>

\* both resolving the account and opening the session may throw
FailConsumed(w) ==
    /\ At(w, "resolve") \/ At(w, "open")
    /\ Answer(w, "clear")
    /\ UNCHANGED <<attempt, cookie, redeemed, account, session>>

-----------------------------------------------------------------------------
(* The session and the response.                                           *)

SuspendedToo(n) == TRUE
\* whatever the callback read: the session's transaction reads the account again
StillActive(n) == account[n].active

OpenSession(w) ==
    LET c == call[w]
    IN  /\ At(w, "open")
        /\ StillActive(c.account)
        /\ session' = Append(session, [account |-> c.account, attempt |-> c.state,
                                       browser |-> c.browser, subject |-> Identified(c)])
        /\ Answer(w, "clear")
        /\ UNCHANGED <<attempt, cookie, redeemed, account>>

Respond(w) ==
    /\ At(w, "clear") \/ At(w, "keep")
    /\ cookie' = IF At(w, "clear") THEN [cookie EXCEPT ![call[w].browser] = Absent]
                 ELSE cookie
    /\ call' = [call EXCEPT ![w] = NoCall]
    /\ UNCHANGED <<attempt, redeemed, account, session>>

\* the process stops, or the response never arrives
Crash(w) ==
    /\ call[w] # NoCall
    /\ call' = [call EXCEPT ![w] = NoCall]
    /\ UNCHANGED <<attempt, cookie, redeemed, account, session>>

Suspend(n) ==
    /\ account[n].active
    /\ account[n].subject \in Unsteady
    /\ account' = [account EXCEPT ![n].active = FALSE]
    /\ UNCHANGED <<attempt, cookie, redeemed, session, call>>

Callback(w) ==
    \/ ReadAttempt(w) \/ RejectAttempt(w) \/ ExpireAttempt(w) \/ Consume(w)
    \/ FailUnconsumed(w) \/ Exchange(w) \/ FailExchange(w)
    \/ ReadIdentity(w) \/ CreateAccount(w) \/ MatchAccount(w)
    \/ RetryResolve(w) \/ FailConsumed(w) \/ OpenSession(w)
    \/ Respond(w) \/ Crash(w)

Next ==
    \/ \E b \in Browser, a \in Attempt : Start(b, a)
    \/ \E w \in Worker, b \in Browser, a \in Attempt, c \in Code : Deliver(w, b, a, c)
    \/ \E w \in Worker : Callback(w)
    \/ \E n \in DOMAIN account : Suspend(n)

Spec == Init /\ [][Next]_vars

-----------------------------------------------------------------------------
(* Properties.                                                             *)

Working == {"consume", "exchange", "resolve", "open"}

\* a call and what the transaction of its step has read
TypeOfCall(c) ==
    /\ c.step \in Working \cup {"clear", "keep"}
    /\ c.browser \in Browser
    /\ c.step \in Working =>
          /\ c.bound \in BOOLEAN /\ c.state \in Attempt /\ c.code \in Code
          /\ c.tries \in 1 .. MaxTries
          /\ c.step = "open" => c.account \in DOMAIN account
    /\ c.step = "consume" => c.view \in {Absent} \cup Row
    /\ c.step = "resolve" /\ c.view # Absent =>
          c.view \subseteq (DOMAIN account) \X BOOLEAN

\* Rows, cookies and calls keep their shape, and refer to rows that exist.
TypeOK ==
    /\ attempt \in [Attempt -> {Absent} \cup Row]
    /\ cookie \in [Browser -> Attempt \cup {Absent}]
    /\ redeemed \subseteq Code
    /\ \A n \in DOMAIN account : account[n] \in [subject : Subject, active : BOOLEAN]
    /\ \A n \in DOMAIN session :
          session[n] \in [account : DOMAIN account, attempt : Attempt,
                          browser : Browser, subject : Subject]
    /\ \A w \in Worker : call[w] # NoCall => TypeOfCall(call[w])

\* However often, late or concurrently the callback URLs of an attempt are
\* opened, and although its consumption, the code's exchange and the session's
\* creation may each fail after taking effect, the attempt opens one session.
OneSessionPerAttempt ==
    \A m, n \in DOMAIN session : session[m].attempt = session[n].attempt => m = n

\* A session belongs to the browser that started the login, and is of the
\* account of whoever signed in for that very attempt, also when another login
\* runs in the same browser or the URL is opened in another one.
SessionOfItsLogin ==
    \A n \in DOMAIN session :
       LET r == session[n]
       IN  /\ r.browser = attempt[r.attempt].browser
           /\ <<r.attempt, r.subject>> \in redeemed
           /\ account[r.account].subject = r.subject

\* Racing first logins of one identity, retried or abandoned halfway, leave one
\* account for it; so does a login that failed after its account was created.
OneAccountPerIdentity == \A s \in Subject : Cardinality(AccountsOf(s)) <= 1

(***************************************************************************)
(* Callbacks that read, wait, retry and fail, with whatever cookies, codes *)
(* and states meet in them, are to the people who log in: one account when *)
(* they have signed in, and one session for each login, in the browser it  *)
(* was started in, while the account is active (the callback's GET).       *)
(***************************************************************************)
Starter == [a \in Attempt |-> IF attempt[a] = Absent THEN Absent ELSE attempt[a].browser]

Member ==
    [s \in Subject |->
       IF AccountsOf(s) = {} THEN "NONE"
       ELSE IF \E n \in AccountsOf(s) : account[n].active THEN "ACTIVE" ELSE "SUSPENDED"]

Seen(r) == [subject |-> account[r.account].subject, browser |-> r.browser]

Opened ==
    [a \in Attempt |->
       {Seen(session[n]) : n \in {m \in DOMAIN session : session[m].attempt = a}}]

People ==
    INSTANCE Logins WITH starter <- Starter, signedIn <- redeemed,
                         member <- Member, opened <- Opened

ImplementsLogins == People!Spec

=============================================================================
