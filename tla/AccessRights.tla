---------------------------- MODULE AccessRights ----------------------------
(***************************************************************************)
(* What the two access modules share: users, the identifiers they ask for, *)
(* and the question the wrapper puts to the permission service for them    *)
(* (pkg/verification/device.go, device-group.go, location.go, export.go).  *)
(***************************************************************************)
CONSTANTS User,      \* subjects of the request tokens
          NoUser,    \* the empty OwnerUserId
          Id,        \* identifiers of exports, devices, device groups, locations
          KindOf,    \* the kind an identifier really has upstream
          OwnerOf,   \* the owner of an export; NoUser for every other kind
          Element    \* request elements: the kind the client claims and the id

Kind  == {"export", "device", "device_group", "location"}
Right == {"read", "execute"}

ASSUME AccessAssumption ==
    /\ NoUser \notin User
    /\ KindOf \in [Id -> Kind]
    /\ OwnerOf \in [Id -> User \cup {NoUser}]
    /\ \A i \in Id : KindOf[i] # "export" => OwnerOf[i] = NoUser
    /\ Element \subseteq [kind : Kind, id : Id]

(* The rights CheckPermission is asked for, per kind of element.           *)
Needed(kind) == IF kind = "location" THEN {"read", "execute"} ELSE {"execute"}

(* The answer of the permission service: it knows an id only under the     *)
(* topic of its kind.                                                      *)
Sufficient(rights, u, e) ==
    /\ KindOf[e.id] = e.kind
    /\ Needed(e.kind) \subseteq rights[<<u, e.id>>]

(* What a set of replies, <<user, kind asked, id, yes or no>>, says of an  *)
(* element a user claims.  An id is affirmed under its real kind only; a   *)
(* refusal may also have been given for another kind than the claimed one. *)
Affirmed(replied, u, e) == <<u, KindOf[e.id], e.id, TRUE>> \in replied
Refused(replied, u, e) == <<u, e.kind, e.id, FALSE>> \in replied
RefusedAsAnother(replied, u, e) ==
    \E kind \in Kind \ {e.kind} : <<u, kind, e.id, FALSE>> \in replied

VerifierCacheEntry == [Ok : BOOLEAN, OwnerUserId : User \cup {NoUser}]
Denied == [Ok |-> FALSE, OwnerUserId |-> NoUser]
Granted(owner) == [Ok |-> TRUE, OwnerUserId |-> owner]
=============================================================================
