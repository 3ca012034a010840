----------------------------- MODULE MCServing -----------------------------
(***************************************************************************)
(* Serving with two calls at once, over every combination of forwarded     *)
(* names, configured headers, the token and the transports. Callers name   *)
(* themselves, do not, send an empty value before another, come from a     *)
(* browser, or speak a version that the server does not.                   *)
(***************************************************************************)
EXTENDS Serving, TLC

CONSTANTS c1, c2, user, alice, bob, secret, v1

Slots == Permutations({c1, c2})

MCHeader == {Auth, user, Identity, Origin, ProtocolVersion}

With(assignments) ==
    [n \in MCHeader |-> IF n \in DOMAIN assignments THEN assignments[n] ELSE <<>>]

Maps ==
    {With(<<>>),
     With(Auth :> <<secret>>),
     With(Auth :> <<secret, alice>> @@ user :> <<Empty, secret>>),
     With(Identity :> <<secret>>)}

MCOffered == Maps \cup {Put(h, Auth, Token) : h \in Maps}

MCInbound ==
    {With(<<>>),
     With(Identity :> <<alice>> @@ user :> <<bob, alice>> @@ Auth :> <<bob>>
          @@ ProtocolVersion :> <<v1>>),
     With(Identity :> <<bob>> @@ user :> <<Empty, bob>>),
     With(Auth :> <<alice>> @@ Origin :> <<Empty>>),
     With(Auth :> <<alice>> @@ ProtocolVersion :> <<alice, v1>>)}

\* Command lines that the checks have no quarrel with, but for collisions and for
\* forwarding over stdio.
MCCommand ==
    {[positiveInterval |-> TRUE, hostport |-> over # "stdio", transport |-> over,
      tlsCrt |-> FALSE, tlsKey |-> FALSE, caFile |-> FALSE,
      identity |-> identity, forward |-> forward,
      map |-> map, headers |-> {n \in MCHeader : Get(map, n) # Empty}, bearer |-> bearer,
      clientCA |-> FALSE, clientCrt |-> FALSE, clientKey |-> FALSE,
      plainURL |-> TRUE, option |-> "none", descriptors |-> FALSE, reflect |-> TRUE] :
        over \in {"stdio", "http", "sse"}, identity \in BOOLEAN,
        forward \in SUBSET {Auth, user, Identity}, map \in Maps, bearer \in {"none", "set"}}
=============================================================================
