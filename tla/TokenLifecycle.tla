--------------------------- MODULE TokenLifecycle ---------------------------
(***************************************************************************)
(* What the token store promises about every token the auth service signs, *)
(* whatever requests run at the same time: a token starts to count at most *)
(* once, it is handed to a client only after it has started to count, and  *)
(* once it has stopped counting (revoked or expired) it never counts       *)
(* again.  AuthSessions is shown to implement this module.                 *)
(***************************************************************************)
CONSTANT Token

VARIABLES status,  \* status[t]: has the token been whitelisted, and is it still
          handed   \* the tokens some client has received

vars == <<status, handed>>

TypeOK ==
  /\ status \in [Token -> {"fresh", "live", "dead"}]
  /\ handed \subseteq Token

Init ==
  /\ status = [t \in Token |-> "fresh"]
  /\ handed = {}

(* The store starts to accept t: only once, and before anybody holds it. *)
Grant(t) ==
  /\ status[t] = "fresh"
  /\ status' = [status EXCEPT ![t] = "live"]
  /\ UNCHANGED handed

(* Live tokens stop counting, together when the clock expires several. *)
End(S) ==
  /\ \A t \in S : status[t] = "live"
  /\ status' = [t \in Token |-> IF t \in S THEN "dead" ELSE status[t]]
  /\ UNCHANGED handed

(* A client receives tokens, none of which the store has yet to accept. *)
Hand(S) ==
  /\ \A t \in S : status[t] # "fresh"
  /\ handed' = handed \union S
  /\ UNCHANGED status

Next ==
  \/ \E t \in Token : Grant(t)
  \/ \E S \in SUBSET Token : End(S) \/ Hand(S)

Spec == Init /\ [][Next]_vars
=============================================================================
