---------------------------- MODULE KeycloakAxios ----------------------------
(***************************************************************************)
(* packages/keycloak-auth/src/keycloakAxios.ts, the interceptor made from  *)
(* options: concurrent requests each run authenticate() on the previous    *)
(* they find, and the last one to end leaves its result in it.             *)
(* (The interceptor made from a KeycloakAuth is a caller of that module.)  *)
(***************************************************************************)
EXTENDS KeycloakApi

VARIABLE header  (* the token in the header of each request, 0 for none *)

axiosVars == <<now, issued, run, previous, header>>

AxiosInit ==
  /\ ApiInit
  /\ header = [c \in Callers |-> 0]

-----------------------------------------------------------------------------
Intercept(c) ==
  /\ run[c].step = "idle"
  /\ Begin(c, previous)
  /\ header' = [header EXCEPT ![c] = 0]
  /\ UNCHANGED <<now, issued, previous>>

(* Faulty variant: the header is read before the assignment. *)
AuthorizeBeforeAssignment(c) ==
  /\ Returns(c)
  /\ previous' = Result(c)
  /\ header' = [header EXCEPT ![c] = previous.accessToken]
  /\ End(c)
  /\ UNCHANGED <<now, issued>>

(* Faulty variant: the requests share one promise of all their exchanges, *)
(* so each waits until none of the others is under way.                   *)
AuthorizeTogether(c) ==
  /\ Returns(c)
  /\ \A d \in Callers : run[d].wire # "sent"
  /\ previous' = Result(c)
  /\ header' = [header EXCEPT ![c] = previous'.accessToken]
  /\ End(c)
  /\ UNCHANGED <<now, issued>>

(* Lines 24 and 25 run with no await between them. *)
Authorize(c) ==
  /\ Returns(c)
  /\ previous' = Result(c)
  /\ header' = [header EXCEPT ![c] = previous'.accessToken]
  /\ End(c)
  /\ UNCHANGED <<now, issued>>

(* The request is rejected; previous is not assigned. *)
RejectRequest(c) ==
  /\ Throws(c)
  /\ End(c)
  /\ UNCHANGED <<now, issued, previous, header>>

AxiosEnvironment ==
  /\ Tick \/ \E c \in Callers : Server(c)
  /\ UNCHANGED <<previous, header>>

AxiosFetch(c) ==
  \/ FallBackToLogin(c) /\ UNCHANGED <<previous, header>>
  \/ Authorize(c)
  \/ RejectRequest(c)

AxiosNext ==
  \/ AxiosEnvironment
  \/ \E c \in Callers : Intercept(c) \/ AxiosFetch(c)

AxiosSpec == AxiosInit /\ [][AxiosNext]_axiosVars

-----------------------------------------------------------------------------
AxiosTypeOK ==
  /\ ApiTypeOK
  /\ previous \in AuthResponse
  /\ header \in [Callers -> Nat]

(* Every variable stays in its type and, as for KeycloakAuth, no race      *)
(* makes the interceptor believe a token lives longer than the server will *)
(* honour it.                                                              *)
PreviousIsConservative ==
  /\ AxiosTypeOK
  /\ Conservative(previous)
  /\ \A c \in Callers : Conservative(run[c].previous)

(* The shared previous may go back to an older token when replies come out *)
(* of order, but no request leaves with a token older than the one held    *)
(* when it was made.                                                       *)
HeaderNoOlderThanAtCall ==
  [][\A c \in Callers :
       Returns(c) /\ run'[c].step = "idle"
         => /\ header'[c] # 0
            /\ header'[c] >= run[c].previous.accessToken]_axiosVars

(* The event loop runs c's continuations and its exchange ends some day.   *)
OwnFairness(c) ==
  WF_axiosVars(AxiosFetch(c)) /\ WF_axiosVars(Server(c) /\ UNCHANGED <<previous, header>>)

(* A request is held up by its own exchange with the server only: it ends  *)
(* even when every other request's exchange hangs for ever.                *)
HeldUpByOwnExchangeOnly ==
  \A c \in Callers :
    OwnFairness(c) => (run[c].step # "idle" ~> run[c].step = "idle")
=============================================================================
