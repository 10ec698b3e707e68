------------------------------ MODULE MCDelta ------------------------------
(* Instances of Delta for TLC. *)
EXTENDS Delta

(* A document of four nodes and what its changes lead to; each change      *)
(* gives a higher number, so there are finitely many in a row.             *)
MCChanges == <<
    << <<2, 3>>, <<4>>, <<3, 6>>, <<5>> >>,
    << <<>>, <<4, 5>>, <<6>> >>,
    << <<5>>, <<4, 6>>, <<>> >>,
    << <<5>>, <<6>> >>,
    << <<6>> >>,
    <<>> >>
=============================================================================
