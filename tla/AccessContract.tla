--------------------------- MODULE AccessContract ---------------------------
(***************************************************************************)
(* What VerifyAccess promises to the request handlers, without goroutines  *)
(* and without a cache: one step decides a call, a grant needs one         *)
(* affirmative upstream reply per element for this very user, a denial     *)
(* needs a negative one, and the owners come back in the order of the      *)
(* elements.  What it does not promise is that the replies were given for  *)
(* the kind the element claims: replies are remembered per user and id     *)
(* (verification.go:83-98), so that a step of its own, CDenyAsAnother,     *)
(* denies an element for what was refused under another kind, and CGrant   *)
(* takes what was affirmed under the kind the id really has.               *)
(***************************************************************************)
EXTENDS AccessRights, Naturals

CONSTANTS Call, MaxElements

VARIABLES rights,   \* what the permission service holds now
          replied,  \* every reply it has ever given: <<user, kind, id, yes>>
          phase, user, elems,
          answer, owners

cvars == <<rights, replied, phase, user, elems, answer, owners>>

ElementLists == UNION {[1 .. n -> Element] : n \in 0 .. MaxElements}

(* What the handlers make of (ok, err), in the order they test them.       *)
Answers == {"none", "granted", "denied", "error"}

CInit ==
    /\ rights \in [User \X Id -> SUBSET Right]
    /\ replied = {}
    /\ phase = [c \in Call |-> "idle"]
    /\ user \in [Call -> User]
    /\ elems = [c \in Call |-> <<>>]
    /\ answer = [c \in Call |-> "none"]
    /\ owners = [c \in Call |-> <<>>]

CStart(c) ==
    /\ phase[c] # "running"
    /\ \E u \in User, es \in ElementLists :
        /\ user' = [user EXCEPT ![c] = u]
        /\ elems' = [elems EXCEPT ![c] = es]
    /\ phase' = [phase EXCEPT ![c] = "running"]
    /\ answer' = [answer EXCEPT ![c] = "none"]
    /\ owners' = [owners EXCEPT ![c] = <<>>]
    /\ UNCHANGED <<rights, replied>>

(* The permission service answers a question some running call has.        *)
CReply(c) ==
    /\ phase[c] = "running"
    /\ \E i \in DOMAIN elems[c] :
        replied' = replied \cup
            {<<user[c], elems[c][i].kind, elems[c][i].id,
               Sufficient(rights, user[c], elems[c][i])>>}
    /\ UNCHANGED <<rights, phase, user, elems, answer, owners>>

CGrant(c) ==
    /\ \A i \in DOMAIN elems[c] : Affirmed(replied, user[c], elems[c][i])
    /\ answer' = [answer EXCEPT ![c] = "granted"]
    /\ owners' = [owners EXCEPT ![c] = [i \in DOMAIN elems[c] |-> OwnerOf[elems[c][i].id]]]

CDeny(c) ==
    /\ \E i \in DOMAIN elems[c] : Refused(replied, user[c], elems[c][i])
    /\ answer' = [answer EXCEPT ![c] = "denied"]
    /\ UNCHANGED owners

(* The denial of one kind, replayed for another.                           *)
CDenyAsAnother(c) ==
    /\ \E i \in DOMAIN elems[c] : RefusedAsAnother(replied, user[c], elems[c][i])
    /\ answer' = [answer EXCEPT ![c] = "denied"]
    /\ UNCHANGED owners

CFail(c) ==
    /\ elems[c] # <<>>
    /\ answer' = [answer EXCEPT ![c] = "error"]
    /\ UNCHANGED owners

CAnswer(c) ==
    /\ phase[c] = "running"
    /\ CGrant(c) \/ CDeny(c) \/ CDenyAsAnother(c) \/ CFail(c)
    /\ phase' = [phase EXCEPT ![c] = "answered"]
    /\ UNCHANGED <<rights, replied, user, elems>>

CChangeRights ==
    /\ \E k \in User \X Id, r \in SUBSET Right : rights' = [rights EXCEPT ![k] = r]
    /\ UNCHANGED <<replied, phase, user, elems, answer, owners>>

CNext == CChangeRights \/ \E c \in Call : CStart(c) \/ CReply(c) \/ CAnswer(c)

CSpec == CInit /\ [][CNext]_cvars
=============================================================================
