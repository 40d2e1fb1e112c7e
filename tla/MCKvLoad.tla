------------------------------ MODULE MCKvLoad ------------------------------
\* KvLoad for TLC: small prompts with common prefixes; blocks are alike.
EXTENDS KvLoad, TLC

CONSTANTS ra, rb, rc, rd

\* Prompts with a common first block, two of which share a second; the last
\* token of a prompt is always computed, so rd has a second block for hash 1.
Prompts == (ra :> <<1, 2, 3>>) @@ (rb :> <<1, 2, 4>>) @@ (rc :> <<1, 5>>)
           @@ (rd :> <<1>>)

Config(again, asyn, abort, S) ==
    [recompute |-> again, async |-> asyn, aborts |-> abort, reqs |-> S]

\* Synchronous loads of three requests and asynchronous ones of two, under either
\* policy, with aborts.
MCConfigs == {Config(again, FALSE, TRUE, {ra, rb, r}) : again \in BOOLEAN, r \in {rc, rd}}
        \cup {Config(again, TRUE, TRUE, {ra, rb}) : again \in BOOLEAN}

\* The fail policy, two requests with a common prefix.
FailPair == {Config(FALSE, FALSE, FALSE, {ra, rb})}

Symmetry == Permutations(Blocks)
=============================================================================
