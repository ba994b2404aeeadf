--------------------------- MODULE MCKeycloakAuth ---------------------------
(* Small instances of KeycloakAuth for TLC. *)
EXTENDS KeycloakAuth

(* A plain token, one without refresh token, and one that is born inside   *)
(* the margin.                                                             *)
MCResponses == {
  [expires_in |-> 3, refresh_expires_in |-> 5, refresh_token |-> TRUE],
  [expires_in |-> 3, refresh_expires_in |-> 0, refresh_token |-> FALSE],
  [expires_in |-> 1, refresh_expires_in |-> 3, refresh_token |-> TRUE] }
=============================================================================
