----------------------------- MODULE MCWriteSync ----------------------------
(* Small instances of WriteSync: two nodes or three in a line, connected   *)
(* from the start (met) or not, and what may go wrong.  Every setting has  *)
(* few of each, so that all of their interleavings can be looked at.       *)
EXTENDS WriteSync

CONSTANTS n1, n2, n3

MCPair == {{n1, n2}}
MCLine == {{n1, n2}, {n2, n3}}

Each(a, b, c) == [n \in Node |-> CASE n = n1 -> a [] n = n2 -> b [] OTHER -> c]

Calm(links, posts) ==
  [links |-> links, met |-> FALSE, fresh |-> {}, posts |-> posts, crashes |-> Each(0, 0, 0),
   losses |-> 0, repeats |-> 0, decays |-> 0, checkpoints |-> 0]
Met(setting) == [setting EXCEPT !.met = TRUE]
Unkind(setting) == [setting EXCEPT !.losses = 1, !.repeats = 1, !.decays = 1]

(* Three in a line that meet, and one message lost, repeated or forgotten. *)
MCRelay == Calm(MCLine, Each(2, 0, 0))
MCUnkindRelay == Unkind(Met(Calm(MCLine, Each(2, 0, 0))))

(* Two that write or meet while messages are lost and repeated.            *)
MCUnkindPair == Unkind(Met(Calm(MCPair, Each(2, 1, 0))))
MCUnkindMeeting == Unkind(Calm(MCPair, Each(2, 0, 0)))

(* A writer that crashes, with a checkpoint and without; an archiver that  *)
(* does.                                                                   *)
MCWriterCrash == [Met(Calm(MCPair, Each(2, 0, 0))) EXCEPT !.crashes = Each(1, 0, 0)]
MCWriterReturns ==
  [Met(Calm(MCPair, Each(1, 0, 0))) EXCEPT !.crashes = Each(1, 0, 0), !.checkpoints = 1]
MCArchiverReturns ==
  [Met(Calm(MCPair, Each(2, 0, 0))) EXCEPT !.crashes = Each(0, 1, 0), !.checkpoints = 1]

(* A node that has nothing yet meets one with a checkpoint.                *)
MCFresh == [Calm(MCPair, Each(2, 0, 0)) EXCEPT !.fresh = {n2}, !.checkpoints = 1]

(* One that starts again and may go back to the first of two checkpoints.  *)
MCGoesBack ==
  [Met(Calm(MCPair, Each(1, 0, 0))) EXCEPT !.fresh = {n1}, !.crashes = Each(1, 0, 0),
                                           !.checkpoints = 2]

MCSettings ==
  {MCRelay, MCUnkindRelay, MCUnkindPair, MCUnkindMeeting, MCWriterCrash, MCWriterReturns,
   MCArchiverReturns, MCFresh, MCGoesBack}

(* A writer that loses its chain when it starts again, and writes on.      *)
MCForkOnly ==
  {[Met(Calm(MCPair, Each(3, 0, 0))) EXCEPT !.crashes = Each(1, 0, 0), !.checkpoints = 1]}

=============================================================================
