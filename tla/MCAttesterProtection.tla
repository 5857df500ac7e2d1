------------------------ MODULE MCAttesterProtection ------------------------
(***************************************************************************)
(* Instances of AttesterProtection for TLC.                                *)
(***************************************************************************)
EXTENDS AttesterProtection

CONSTANTS k1, k2, b1, b2

Data(source, target, block) == [source |-> source, target |-> target, block |-> block]

\* Epochs 0 to 3: a double vote at target 2, and (0, 3) surrounds (1, 2).
Conflicting == {Data(0, 1, b1), Data(1, 2, b1), Data(1, 2, b2), Data(0, 3, b1),
                Data(2, 3, b1)}
\* Asked for again and again.
OneVote == {Data(0, 1, b1)}

\* A new client, and clients that imported a record with and without its signing root.
NoHistory == {<<>>}
Imported(source, target, root) ==
    [key |-> k1, source |-> source, target |-> target, signingRoot |-> root]
Histories == {<<>>, <<Imported(0, 1, Data(0, 1, b1))>>, <<Imported(0, 1, NoSigningRoot)>>,
              <<Imported(0, 0, NoSigningRoot), Imported(1, 2, NoSigningRoot)>>}
=============================================================================
