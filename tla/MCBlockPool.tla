---------------------------- MODULE MCBlockPool ----------------------------
(* Model-checking instances of BlockPool.                                    *)
EXTENDS BlockPool, TLC

CONSTANTS r1, r2, r3

\* Blocks of two tokens, so that a block is filled by several steps.  r1 and r2
\* share their first block, which r1 has to compute again for its last token;
\* r3 shares one token, which is no block.
Texts   == (r1 :> <<1, 1, 1, 1>>) @@ (r2 :> <<1, 1, 1, 2, 1>>) @@ (r3 :> <<1, 2>>)
Prompts == (r1 :> 2) @@ (r2 :> 4) @@ (r3 :> 2)
RankOf  == (r1 :> 2) @@ (r2 :> 1) @@ (r3 :> 3)
=============================================================================
