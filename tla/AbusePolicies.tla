--------------------------- MODULE AbusePolicies ---------------------------
(***************************************************************************)
(* The policies of the web application, and the limits buildAbuseLimits    *)
(* makes of one for a request.  A context is the set of subjects the route *)
(* knows; a compound subject needs both its parts.  The values of subjects *)
(* and their digests are data.                                             *)
(***************************************************************************)
EXTENDS Integers, FiniteSets

Minute == 60000

\* required but for auth.callback's device and session.logout's session
Definition(axis, source, maximum, minutes) ==
    [axis |-> axis, source |-> source, maximum |-> maximum, window |-> minutes * Minute,
     required |-> TRUE]

Optional(d) == [d EXCEPT !.required = FALSE]

\* network per minute, and account and session per ten
OfAccount(network, account) ==
    {Definition("NETWORK", {"network"}, network, 1),
     Definition("ACCOUNT", {"account"}, account, 10),
     Definition("SESSION", {"session"}, account, 10)}

OfTarget(network, account, target) ==
    OfAccount(network, account)
        \cup {Definition("TARGET", {"account", "target"}, target, 10)}

Policies ==
    [auth_callback |-> {Definition("NETWORK", {"network"}, 20, 10),
                        Optional(Definition("DEVICE", {"device"}, 8, 10))},
     auth_start |-> {Definition("NETWORK", {"network"}, 10, 10)},
     discussion_answer |-> OfTarget(30, 12, 6),
     discussion_question |-> OfTarget(30, 12, 6),
     moderation_trip |-> OfTarget(20, 10, 4),
     order_submit |-> OfTarget(20, 8, 4),
     profile_create |-> OfAccount(30, 6),
     public_trip_detail |-> {Definition("NETWORK", {"network"}, 120, 1),
                             Definition("TARGET", {"network", "target"}, 60, 1)},
     public_trip_list |-> {Definition("NETWORK", {"network"}, 120, 1)},
     session_logout |-> {Definition("NETWORK", {"network"}, 60, 1),
                         Optional(Definition("SESSION", {"session"}, 10, 1))},
     session_validate |-> {Definition("NETWORK", {"network"}, 120, 1),
                           Definition("SESSION", {"session"}, 60, 1)},
     trip_create |-> OfAccount(60, 20),
     trip_submit |-> OfTarget(30, 10, 5)]

\* an actor brings the account and the session
Actor == {"account", "session"}

\* the contexts of the routes; requireAbuseAllowance adds the network
Contexts ==
    [auth_callback |-> {{}, {"device"}}, auth_start |-> {{}},
     discussion_answer |-> {Actor \cup {"target"}},
     discussion_question |-> {Actor \cup {"target"}},
     moderation_trip |-> {Actor \cup {"target"}},
     order_submit |-> {Actor \cup {"target"}},
     profile_create |-> {Actor},
     public_trip_detail |-> {{"target"}}, public_trip_list |-> {{}},
     session_logout |-> {{}, {"session"}}, session_validate |-> {{"session"}},
     trip_create |-> {Actor},
     trip_submit |-> {Actor \cup {"target"}}]

Known(context) == context \cup {"network"}

\* AbusePolicyContextError MISSING
Incomplete(policy, context) ==
    \E d \in Policies[policy] : d.required /\ ~ d.source \subseteq Known(context)

BuildAbuseLimits(policy, context) ==
    {d \in Policies[policy] : d.source \subseteq Known(context)}

\* normalizedLimits
Accepted(limits) ==
    /\ Cardinality(limits) \in 1 .. 5
    /\ \A d, e \in limits : d.axis = e.axis => d = e
    /\ \A d \in limits : d.maximum \in 1 .. 10000 /\ d.window \in 1000 .. 24 * 60 * Minute

-----------------------------------------------------------------------------
\* No route is refused for want of a subject, and the store accepts the limits
\* of every route.
ASSUME RoutesAreServed ==
    \A p \in DOMAIN Policies : \A c \in Contexts[p] :
       ~ Incomplete(p, c) /\ Accepted(BuildAbuseLimits(p, c))

\* No client or account exhausts a target for the others: what counts against a
\* target always counts against one account, or one network, as well.
ASSUME TargetsAreIsolated ==
    \A p \in DOMAIN Policies : \A d \in Policies[p] :
       d.axis = "TARGET" => d.source \cap {"account", "network"} # {}

\* Whatever a request leaves out, its network is counted.
ASSUME NetworkCounts ==
    \A p \in DOMAIN Policies : \A c \in SUBSET {"account", "session", "device", "target"} :
       \E d \in BuildAbuseLimits(p, c) : d.source = {"network"} /\ d.required

=============================================================================
