---------------------------- MODULE MCBatchLife ----------------------------
(* Values for the constants of BatchLife. *)
EXTENDS BatchLife

\* Two batches, of two plans and of one, or one that the second is appended to.
TwoEnvelopes ==
  << [title |-> "b1", plans |-> <<"p1", "p2">>],
     [title |-> "b2", plans |-> <<"p3">>] >>

\* Two batches with a plan ID in common.
ReusedPlan ==
  << [title |-> "b1", plans |-> <<"p1">>],
     [title |-> "b2", plans |-> <<"p1", "p2">>] >>
=============================================================================
