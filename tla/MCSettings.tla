----------------------------- MODULE MCSettings -----------------------------
(* Two threads and a contact's setting with a scalar and two blobs. *)
EXTENDS Settings

CONSTANTS b1, b2

\* Two blobs of the same length.
MCLength == [b \in {b1, b2} |-> 1]

\* The setting is the contact's.
MCOwner == [k \in Key |-> "bob"]
=============================================================================
