----------------------------- MODULE MC_Signup -----------------------------
(***************************************************************************)
(* Signup for TLC: three calls; two spellings normalize to one email, a    *)
(* third to another.                                                       *)
(***************************************************************************)
EXTENDS Signup, TLC

MCNormalized == "A@b.com" :> "a@b.com" @@ "a@b.com" :> "a@b.com" @@ "c@d.com" :> "c@d.com"

Symmetry == Permutations(Requests)
=============================================================================
