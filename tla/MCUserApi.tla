------------------------------ MODULE MCUserApi ------------------------------
(***************************************************************************)
(* Instances of Reporting, and of MonitorsApi within it, for TLC: a day of *)
(* two hours, a window "7d" of three and a window "30d" of four.           *)
(***************************************************************************)
EXTENDS Reporting, TLC

CONSTANTS m1, u1, u2, h1, h2, k1, k2, k3

\* The names in use: two spellings of one region.
Spelt == {"eu", " EU"}
Lowered == [s \in Spelt |-> "eu"]

\* One column at a time, and both.
Asked == {[enabled |-> FALSE, regions |-> {}], [enabled |-> TRUE, regions |-> {}],
          [enabled |-> Absent, regions |-> {" EU", "eu"}]}

OneEach == k1 :> "eu" @@ k2 :> "us"

AllEu == k1 :> "eu" @@ k2 :> "eu" @@ k3 :> "eu"

UserSymmetry == Permutations({h1, h2}) \cup Permutations({u1, u2})
=============================================================================
