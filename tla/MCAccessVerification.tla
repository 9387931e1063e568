------------------------ MODULE MCAccessVerification ------------------------
(* Instances of AccessVerification for TLC.                                *)
EXTENDS AccessVerification, TLC

CONSTANTS c1, u1, u2, export1, location1

\* an export and a location, both also asked for under the wrong kind
MCMixedKinds  == (export1 :> "export") @@ (location1 :> "location")
MCMixedOwner  == (export1 :> u1) @@ (location1 :> NoUser)
MCMixedElement == {[kind |-> "export", id |-> export1],
                   [kind |-> "location", id |-> location1],
                   [kind |-> "device", id |-> location1]}

\* a single location, which needs two rights
MCOneLocation == [i \in {location1} |-> "location"]
MCUnowned     == [i \in {location1} |-> NoUser]
MCLocation    == {[kind |-> "location", id |-> location1]}
=============================================================================
