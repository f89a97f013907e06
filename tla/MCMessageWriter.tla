--------------------------- MODULE MCMessageWriter ---------------------------
(* Instances of MessageWriter for TLC. *)
EXTENDS MessageRecipient

\* No size and no encoding, as in every class of the repository, and all the
\* other framings that the protected fields allow a subclass to choose.
AllFramings ==
  [contentSize : {NoSize, 0, 2}, encoding : {"UNKNOWN", "chunked"}]

\* An empty block is an empty string streamed into a context.
Blocks == {<<>>, <<"a">>, <<"b", "a">>}

Finished == closed /\ UNCHANGED writerVars
MCNext == WriterNext \/ Finished
MCSpec == WriterInit /\ [][MCNext]_writerVars

==============================================================================
