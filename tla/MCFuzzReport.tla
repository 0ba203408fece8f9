---------------------------- MODULE MCFuzzReport ----------------------------
(* The jobs that make a comprehensive report, of one implementation of one *)
(* family or of each.                                                      *)
EXTENDS FuzzReport

MCReportJobs ==
  {[method |-> "comprehensive", kem |-> names[1], dsa |-> names[2], iterations |-> 2, output_format |-> "both"]
     : names \in {<< <<"a">>, <<>> >>, << <<>>, <<"b">> >>, << <<"a">>, <<"b">> >>}}
=============================================================================
