------------------------ MODULE MC_CompositeClient ------------------------
(* Model-checking instance of CompositeClient. *)
EXTENDS CompositeClient

\* An account number distinct from the -1 sentinel.
MC_ChainAccountNumber == 7

\* Three sequence numbers: room for a lost response and a rejection on top
\* of an accepted transaction in one behaviour.
MC_MaxSequence == 3

=============================================================================
