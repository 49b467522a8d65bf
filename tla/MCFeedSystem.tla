---------------------------- MODULE MCFeedSystem ----------------------------
(***************************************************************************)
(* Finite instances of FeedSystem for TLC.                                 *)
(***************************************************************************)
EXTENDS FeedSystem, TLC

CONSTANTS h1, h2

\* A datagram shorter than a header, and a packet cut short.
MCStrays ==
  {[size |-> 3, seq_num |-> 0, msg_count |-> 0, messages |-> <<>>],
   [size |-> packet_size_bytes(1), seq_num |-> 2, msg_count |-> 2, messages |-> <<1>>]}

HandlerSymmetry == Permutations(Handlers)
=============================================================================
