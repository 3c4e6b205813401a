---------------------------- MODULE StreamLimit ----------------------------
(***************************************************************************)
(* What PlaySync promises about one account, whatever the claim strategy:  *)
(* at most `limit' sessions play at once, a session that stopped playing   *)
(* never plays again, and the limit is never set below what is playing.    *)
(***************************************************************************)
EXTENDS Integers, FiniteSets

CONSTANT Session        \* identities of playback_session rows

VARIABLES
  playing,              \* sessions that play now
  retired,              \* sessions that played once and never will again
  limit                 \* account.max_streams

abstractVars == <<playing, retired, limit>>

Init ==
  /\ playing = {}
  /\ retired = {}
  /\ limit \in Nat \ {0}

(* A new session starts; the sessions in `out' stop to make room for it. *)
Admit(s, out) ==
  /\ s \notin playing \cup retired
  /\ playing' = (playing \ out) \cup {s}
  /\ Cardinality(playing') <= limit
  /\ retired' = retired \cup out
  /\ UNCHANGED limit

(* Sessions stop: paused, released, expired, preempted, or lapsed. *)
Leave(out) ==
  /\ playing' = playing \ out
  /\ retired' = retired \cup out
  /\ UNCHANGED limit

SetLimit ==
  /\ limit' \in Nat \ {0}
  /\ Cardinality(playing) <= limit'
  /\ UNCHANGED <<playing, retired>>

Next ==
  \/ \E s \in Session, out \in SUBSET playing : Admit(s, out)
  \/ \E out \in SUBSET playing : Leave(out)
  \/ SetLimit

Spec == Init /\ [][Next]_abstractVars
=============================================================================
