-------------------------- MODULE MCSourceDetector --------------------------
(***************************************************************************)
(* SourceDetector for TLC.  A list without universes, a short one, one     *)
(* that is longer than the limit, one that is not in order, and two pairs  *)
(* of lists that share a page or mix: page 0 of <<1, 2>>, <<3>> goes on    *)
(* with page 1 of <<1>>, <<4>> to a list nobody sent.                      *)
(***************************************************************************)
EXTENDS SourceDetector

MCLists == { << << >> >>, << <<2>> >>, << <<1, 2>>, <<3>> >>, << <<1>>, <<4>> >>,
             << <<1, 2>>, <<4, 5>>, <<6>> >>, << <<2, 1>> >> }
=============================================================================
