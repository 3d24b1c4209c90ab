----------------------------- MODULE MCMessaging -----------------------------
(* Instances of Messaging for TLC: a member and a creator.                 *)
EXTENDS Messaging, TLC

CONSTANTS member1, creator1, memberProfile, creatorProfile

MCProfile == member1 :> memberProfile @@ creator1 :> creatorProfile

MCRole == member1 :> "member" @@ creator1 :> "creator"

\* Requests, conversations and messages are interchangeable.
Symmetry ==
  Permutations(Requests) \cup Permutations(ConversationIds) \cup Permutations(MessageIds)
=============================================================================
