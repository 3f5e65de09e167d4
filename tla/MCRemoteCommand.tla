--------------------------- MODULE MCRemoteCommand ---------------------------
(* A small instance of RemoteCommand for TLC. *)
EXTENDS RemoteCommand

\* Up to two lines on stdout, a long one among them or not, and fewer on stderr.
SmallOutputs ==
  {o \in [Streams -> {<<>>, <<"short">>, <<"short", "short">>, <<"long", "short">>}] :
     o["stderr"] # <<"short", "short">>}
=============================================================================
