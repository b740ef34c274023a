------------------------------ MODULE MC_Deploy ------------------------------
(***************************************************************************)
(* Deploy for TLC.                                                         *)
(***************************************************************************)
EXTENDS Deploy

MCApiIds == 1 .. 4

(* .env.example as it is, without the keys; and two that lack a URL.       *)
MCDotEnvs ==
  {[Populated EXCEPT !["JWT_PRIVATE_KEY_PEM"] = "bad", !["JWT_PUBLIC_KEY_PEM"] = "bad"],
   [Populated EXCEPT !["DATABASE_URL"] = "unset"],
   [Populated EXCEPT !["REDIS_URL"] = "bad"]}
=============================================================================
