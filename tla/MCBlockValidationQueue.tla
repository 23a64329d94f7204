----------------------- MODULE MCBlockValidationQueue -----------------------
(* Two blocks on the tip at one height, and a child of the first.             *)
EXTENDS BlockValidationQueue, TLC

CONSTANTS a, b, c

ThreeBlocks == {a, b, c}
Parents == (a :> NoBlock) @@ (b :> NoBlock) @@ (c :> a)
BlockHeights == (a :> 1) @@ (b :> 1) @@ (c :> 2)
=============================================================================
