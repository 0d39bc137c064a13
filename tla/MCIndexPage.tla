---------------------------- MODULE MCIndexPage ----------------------------
(* Instances of IndexPage for TLC. *)
EXTENDS IndexPage

(* All records have jobs, and are there but perhaps one; or one is to come. *)
Past == {<<"there", "there">>, <<"there", "deleted">>, <<"there", "to come">>}
=============================================================================
