------------------------------- MODULE KeyRing -------------------------------
(***************************************************************************)
(* What the Secret with the encryption keys of a cluster promises to the   *)
(* cluster that decrypts with them: a rotation is one step that makes the  *)
(* current key the previous one and puts a key in its place that was never *)
(* used.  Nobody but a user damages a key.  Keys are numbers; a later key  *)
(* is a larger one.                                                        *)
(***************************************************************************)
EXTENDS Integers

CONSTANTS
    Bad,       \* bytes that are no key
    Empty      \* no previous key

VARIABLES
    current,   \* the key to encrypt with; Empty if there is no Secret
    previous,  \* the key before it
    last       \* no key larger than this was ever used

ring == <<current, previous, last>>

Key == Nat \ {0}

RingTypeOK ==
    /\ current \in Key \cup {Bad, Empty}
    /\ previous \in Key \cup {Bad, Empty}
    /\ last \in Nat

Fresh == last' \in Key /\ last' > last /\ current' = last'
Later == last' \in Nat /\ last' >= last

Create == current = Empty /\ Fresh /\ previous' = Empty

Rotate == /\ current # Empty /\ Fresh
          /\ previous' = IF current = Bad THEN Empty ELSE current

Repair == /\ previous = Bad /\ previous' = Empty
          /\ Later /\ UNCHANGED current

(* The rotation is put off or on, or asked for.                              *)
Touch == Later /\ UNCHANGED <<current, previous>>

Damage == /\ current # Empty /\ Later
          /\ \/ current' = Bad /\ previous' \in {previous, Empty}
             \/ previous' = Bad /\ UNCHANGED current

Delete == Later /\ current' = Empty /\ previous' = Empty

RingInit == current = Empty /\ previous = Empty /\ last = 0
RingNext == Create \/ Rotate \/ Repair \/ Touch \/ Damage \/ Delete

RingSpec == RingInit /\ [][RingNext]_ring

=============================================================================
