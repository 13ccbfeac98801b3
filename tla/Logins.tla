------------------------------- MODULE Logins -------------------------------
(***************************************************************************)
(* What logging in promises, without cookies, callbacks, transactions or   *)
(* failures: whoever has signed in at the provider for a login may have an *)
(* account, and the login opens one session of it, in the browser it was   *)
(* started in, unless the account is suspended.                            *)
(***************************************************************************)
CONSTANTS Browser, Attempt, Subject, Unsteady, Absent

VARIABLES
    starter,   \* the browser each login was started in
    signedIn,  \* who has signed in at the provider, and for which login
    member,    \* the account of each subject
    opened     \* the sessions that each login has opened: none or one

vars == <<starter, signedIn, member, opened>>

Init ==
    /\ starter = [a \in Attempt |-> Absent]
    /\ signedIn = {}
    /\ member = [s \in Subject |-> "NONE"]
    /\ opened = [a \in Attempt |-> {}]

Start(b, a) ==
    /\ starter[a] = Absent
    /\ starter' = [starter EXCEPT ![a] = b]
    /\ UNCHANGED <<signedIn, member, opened>>

SignIn(a, s) ==
    /\ signedIn' = signedIn \cup {<<a, s>>}
    /\ UNCHANGED <<starter, member, opened>>

Enrol(s) ==
    /\ \E a \in Attempt : <<a, s>> \in signedIn
    /\ member[s] = "NONE"
    /\ member' = [member EXCEPT ![s] = "ACTIVE"]
    /\ UNCHANGED <<starter, signedIn, opened>>

Open(a, s) ==
    /\ opened[a] = {}
    /\ <<a, s>> \in signedIn
    /\ member[s] = "ACTIVE"
    /\ opened' = [opened EXCEPT ![a] = {[subject |-> s, browser |-> starter[a]]}]
    /\ UNCHANGED <<starter, signedIn, member>>

Suspend(s) ==
    /\ s \in Unsteady
    /\ member[s] = "ACTIVE"
    /\ member' = [member EXCEPT ![s] = "SUSPENDED"]
    /\ UNCHANGED <<starter, signedIn, opened>>

Next ==
    \/ \E b \in Browser, a \in Attempt : Start(b, a)
    \/ \E a \in Attempt, s \in Subject : SignIn(a, s) \/ Open(a, s)
    \/ \E s \in Subject : Enrol(s) \/ Suspend(s)

Spec == Init /\ [][Next]_vars

=============================================================================
