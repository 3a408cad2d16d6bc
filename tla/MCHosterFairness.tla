-------------------------- MODULE MCHosterFairness --------------------------
(* Two archives on one hoster; the second part of the first was added first. *)
EXTENDS HosterFairness

MCArchive == <<"a", "b", "a">>
MCRank == <<2, 1, 1>>

Start(m, f, d, n) == [mode |-> m, fast |-> f, done |-> d, commands |-> n]

\* All three parts, or the two of the first archive, with fewer commands
\* where the controller's own state is large.
MCStarts ==
    {Start("Safe", FALSE, {}, 2), Start("Safe", TRUE, {}, 1), Start("Off", FALSE, {2}, 1),
     Start("Adaptive", FALSE, {}, 0), Start("Adaptive", FALSE, {2}, 1),
     Start("Adaptive", TRUE, {2}, 0)}
=============================================================================
