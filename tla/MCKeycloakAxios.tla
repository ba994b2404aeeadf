--------------------------- MODULE MCKeycloakAxios ---------------------------
(* Small instance of KeycloakAxios for TLC. *)
EXTENDS KeycloakAxios

(* A plain token, and one without refresh token that is born inside the    *)
(* margin.                                                                 *)
MCResponses == {
  [expires_in |-> 3, refresh_expires_in |-> 5, refresh_token |-> TRUE],
  [expires_in |-> 1, refresh_expires_in |-> 0, refresh_token |-> FALSE] }
=============================================================================
