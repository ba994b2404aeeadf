----------------------------- MODULE TokenSource -----------------------------
(***************************************************************************)
(* What a KeycloakAuth promises the callers that share it: whoever asks    *)
(* while a request is under way is answered together with the others, with *)
(* the same token or the same failure, and no token is ever older than one *)
(* handed out before.                                                      *)
(***************************************************************************)
EXTENDS Naturals

CONSTANT Callers

VARIABLES
  asking,  (* the callers that wait for an answer *)
  held,    (* the newest token handed out so far, 0 for none *)
  answer   (* the last answer of each caller: a token, or 0 for a failure *)

TokenSourceInit ==
  asking = {} /\ held = 0 /\ answer = [c \in Callers |-> 0]

Ask(c) ==
  /\ c \notin asking
  /\ asking' = asking \cup {c}
  /\ answer' = [answer EXCEPT ![c] = 0]
  /\ UNCHANGED held

AnswerAll(token) ==
  /\ asking' = {}
  /\ answer' = [c \in Callers |-> IF c \in asking THEN token ELSE answer[c]]

Serve ==
  /\ asking # {}
  /\ held' \in Nat \ {0} /\ held' >= held
  /\ AnswerAll(held')

Fail ==
  /\ asking # {}
  /\ AnswerAll(0)
  /\ UNCHANGED held

TokenSourceNext == (\E c \in Callers : Ask(c)) \/ Serve \/ Fail

TokenSourceSpec ==
  TokenSourceInit /\ [][TokenSourceNext]_<<asking, held, answer>>
=============================================================================
