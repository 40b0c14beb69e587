------------------------------ MODULE MCUpkeep ------------------------------
(***************************************************************************)
(* TLC instance of Upkeep: a source of two modules, and a file uploaded    *)
(* under the name of one of them; two names of one concept and one of      *)
(* another.                                                                *)
(***************************************************************************)
EXTENDS Upkeep, TLC

CONSTANTS r1, r2, r3, mA, mB, src, t1, t2, t3, g, h

MCGroupOf == (t1 :> g) @@ (t2 :> g) @@ (t3 :> h)
MCHomes   == (r1 :> {mA}) @@ (r2 :> {mA, mB}) @@ (r3 :> {mB})
MCClash   == {{r1, r2}, {r1, r3}, {r2, r3}}
MCBrings  == (src :> {r1, r2}) @@ (mB :> {r3})
MCCode    == (src :> <<t1, t3>>) @@ (mB :> <<t2>>)
MCSaid    == (mA :> <<t1>>) @@ (mB :> <<t2, t3>>)

\* Sessions are interchangeable, and so are the definitions the LLM writes
UpkeepSymmetry == Permutations(Slots) \cup Permutations(Ai)

=============================================================================
