---------------------------- MODULE MCVideoWorker ----------------------------
(***************************************************************************)
(* Values for the constants of VideoWorker that a cfg cannot write.        *)
(***************************************************************************)
EXTENDS VideoWorker

\* A B-frame after its reference.
Reordered == [i \in Samples |-> CASE i = 2 -> 6 [] i = 3 -> 4 [] OTHER -> 2 * i]

Plan(k, calls, faults) == [kind |-> k, calls |-> calls, faults |-> faults]

\* An mcap stream that is played and scrubbed; one that fails at any time; mp4
\* streams that are scrubbed while paused, and over a late or blacked canvas.
Everything ==
  {Plan("mcap", {"seek", "cursor", "play", "close"}, {"throw", "decode"}),
   Plan("mcap", {"seek", "retry", "capture", "close"}, {"open", "read", "decode"}),
   Plan("mp4", {"seek", "retry", "close"}, {}),
   Plan("mp4", {"seek", "capture", "black", "late"}, {})}

\* The calls under which the pump of an mp4 stream starts while it primes.
PrimedWhileMoving == {Plan("mp4", {"seek", "cursor", "play", "black", "close", "capture"}, {})}

\* A paused mp4 stream that is scrubbed.
Scrubbed == {Plan("mp4", {"seek"}, {})}
===============================================================================
