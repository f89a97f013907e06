-------------------------- MODULE MCRequestDispatch --------------------------
(* Instances of RequestDispatch for TLC. *)
EXTENDS RequestDispatch

DefaultFraming == {[contentSize |-> NoSize, encoding |-> "UNKNOWN"]}
\* A subclass that declares a size: Done raises an exception in the deleter.
WithSizedFraming == DefaultFraming \cup {[contentSize |-> 1, encoding |-> "UNKNOWN"]}
Blocks == {<<>>, <<"a">>}
Chain == <<"route", "static", "route">>

==============================================================================
