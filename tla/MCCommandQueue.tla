--------------------------- MODULE MCCommandQueue ---------------------------
(* Two command queues and two commands with wait lists of at most one      *)
(* event, so that a command can wait on a command of the other queue.      *)
EXTENDS CommandQueue, TLC

\* Two kernels: a 3-dimensional NDRange whose x and y group counts differ
\* (1 and 4), and a 2-dimensional one whose unused z sizes are ignored.
MCNDRanges == {<<3, <<2, 4, 2>>, <<2, 1, 1>> >>, <<2, <<4, 2, 7>>, <<2, 2, 7>> >>}

=============================================================================
