---------------------------- MODULE MCHttpSource -----------------------------
(* Model-checking instances of HttpSource.                                   *)
EXTENDS HttpSource

Response(headers, metaint, lengths, tail) ==
    [headers |-> headers, metaint |-> metaint, blocks |-> lengths, tail |-> tail]

\* A plain body, an ICY body with a block of more than one piece and an empty
\* one, and a header that does not end within the limit.
MCResponses ==
    { Response(1, 0, << >>, 4), Response(0, 2, << 3, 0 >>, 2), Response(5, 0, << >>, 1) }

\* The audio of a part of a body, and its complete blocks.
AudioOf(units) == SelectSeq(units, LAMBDA u : u.kind = "audio")
BlocksOf(r, units) ==
    LET ends == SelectSeq(units, LAMBDA u : u.kind = "meta" /\ u.at = r.blocks[u.of])
    IN  [i \in DOMAIN ends |-> Run("meta", ends[i].of, ends[i].at)]

\* The two ways to say what is in a body agree.
ASSUME \A r \in MCResponses :
    AudioIn(r) = AudioOf(Body(r)) /\ BlocksIn(r) = BlocksOf(r, Body(r))
=============================================================================
