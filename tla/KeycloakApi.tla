----------------------------- MODULE KeycloakApi -----------------------------
(***************************************************************************)
(* packages/keycloak-auth/src/api.ts: one activation of authenticate() per *)
(* caller, the HTTP exchanges it makes with the Keycloak server, and the   *)
(* clock both are read against.                                            *)
(*                                                                         *)
(* A token is the number of the server response that granted it, 0 stands  *)
(* for undefined.  Time is in whole seconds of one monotone clock.         *)
(***************************************************************************)
EXTENDS Integers, Sequences, FiniteSets

CONSTANTS
  Callers,    (* the concurrent callers of authenticate() *)
  Margin,     (* seconds before its expiry a token is no longer used *)
  Responses,  (* the token responses the server may grant *)
  MaxTime,    (* bound: the clock stops here *)
  MaxIssued   (* bound: the server grants no more than this many responses *)

KeycloakResponse ==
  [expires_in : Nat, refresh_expires_in : Nat, refresh_token : BOOLEAN]

ASSUME CallersAssumption == IsFiniteSet(Callers) /\ Callers # {}
ASSUME MarginAssumption == Margin \in Nat
ASSUME ResponsesAssumption == Responses \subseteq KeycloakResponse
ASSUME BoundsAssumption == MaxTime \in Nat /\ MaxIssued \in Nat

VARIABLES
  now,      (* the clock, in seconds *)
  issued,   (* what the server granted so far, with the second it did *)
  run,      (* the activation of authenticate() of each caller *)
  previous  (* the AuthResponse the callers share: this.previous of         *)
            (* KeycloakAuth, or the variable the interceptor closes over    *)

Grants == [at : Nat, response : Responses]

AuthResponse == [accessToken : Nat, accessTokenExpires : Nat,
                 refreshToken : Nat, refreshTokenExpires : Nat]

NoAuth == [accessToken |-> 0, accessTokenExpires |-> 0,
           refreshToken |-> 0, refreshTokenExpires |-> 0]

(* "cached": about to return the token it was given.  "refresh", "login":  *)
(* awaiting the answer to that request.                                    *)
Steps == {"idle", "cached", "refresh", "login"}
Wires == {"none", "sent", "granted", "refused", "failed"}

Activation == [step : Steps, wire : Wires, timestamp : Nat,
               previous : AuthResponse, token : Nat]

Idle == [step |-> "idle", wire |-> "none", timestamp |-> 0,
         previous |-> NoAuth, token |-> 0]

ApiInit ==
  /\ now = 0 /\ issued = <<>> /\ run = [c \in Callers |-> Idle]
  /\ previous = NoAuth

-----------------------------------------------------------------------------
(* toAuth and isExpired.                                                   *)

(* Faulty variant: the expiry counts from the answer's arrival. *)
toAuthOnArrival(token, timestamp) ==
  LET r == issued[token].response IN
    [accessToken |-> token,
     accessTokenExpires |-> now + r.expires_in,
     refreshToken |-> IF r.refresh_token THEN token ELSE 0,
     refreshTokenExpires |-> now + r.refresh_expires_in]

(* Faulty variant: the margin is taken off here as well. *)
toAuthLessMargin(token, timestamp) ==
  LET r == issued[token].response IN
    [accessToken |-> token,
     accessTokenExpires |-> timestamp + r.expires_in - Margin,
     refreshToken |-> IF r.refresh_token THEN token ELSE 0,
     refreshTokenExpires |-> timestamp + r.refresh_expires_in - Margin]

toAuth(token, timestamp) ==
  LET r == issued[token].response IN
    [accessToken |-> token,
     accessTokenExpires |-> timestamp + r.expires_in,
     refreshToken |-> IF r.refresh_token THEN token ELSE 0,
     refreshTokenExpires |-> timestamp + r.refresh_expires_in]

(* Faulty variant: the margin is granted past the expiry. *)
isExpiredPastMargin(expires, timestamp) == timestamp >= expires + Margin

isExpired(expires, timestamp) == timestamp + Margin >= expires

IsCached(auth, timestamp) ==
  /\ auth # NoAuth
  /\ ~isExpired(auth.accessTokenExpires, timestamp)

CanRefresh(auth, timestamp) ==
  /\ auth.refreshToken # 0
  /\ ~isExpired(auth.refreshTokenExpires, timestamp)

FirstStep(auth, timestamp) ==
  IF IsCached(auth, timestamp) THEN "cached"
  ELSE IF CanRefresh(auth, timestamp) THEN "refresh" ELSE "login"

-----------------------------------------------------------------------------
(* The code: authenticate() up to its first await, and what the answers do.*)

Begin(c, auth) ==
  LET step == FirstStep(auth, now) IN
    run' = [run EXCEPT ![c] =
              [step |-> step, wire |-> IF step = "cached" THEN "none" ELSE "sent",
               timestamp |-> now, previous |-> auth, token |-> 0]]

(* Faulty variant: a login that is refused is tried again as well. *)
FallBackForever(c) ==
  /\ run[c].step \in {"refresh", "login"} /\ run[c].wire = "refused"
  /\ run' = [run EXCEPT ![c].step = "login", ![c].wire = "sent"]
  /\ UNCHANGED <<now, issued>>

(* A refresh refused with a KeycloakAuthError is followed by a login.      *)
FallBackToLogin(c) ==
  /\ run[c].step = "refresh" /\ run[c].wire = "refused"
  /\ run' = [run EXCEPT ![c].step = "login", ![c].wire = "sent"]
  /\ UNCHANGED <<now, issued>>

Returns(c) == run[c].step = "cached" \/ run[c].wire = "granted"

Result(c) ==
  IF run[c].step = "cached" THEN run[c].previous
  ELSE toAuth(run[c].token, run[c].timestamp)

Throws(c) ==
  \/ run[c].wire = "failed"
  \/ run[c].step = "login" /\ run[c].wire = "refused"

End(c) == run' = [run EXCEPT ![c] = Idle]

-----------------------------------------------------------------------------
(* The environment: the clock, the server and the connection to it.        *)

Tick ==
  /\ now < MaxTime
  /\ now' = now + 1
  /\ UNCHANGED <<issued, run>>

Grant(c) ==
  /\ run[c].wire = "sent"
  /\ Len(issued) < MaxIssued
  /\ \E r \in Responses : issued' = Append(issued, [at |-> now, response |-> r])
  /\ run' = [run EXCEPT ![c].wire = "granted", ![c].token = Len(issued) + 1]
  /\ UNCHANGED now

(* An answer that is not ok.                                               *)
Refuse(c) ==
  /\ run[c].wire = "sent"
  /\ run' = [run EXCEPT ![c].wire = "refused"]
  /\ UNCHANGED <<now, issued>>

(* No answer, or one whose body cannot be read as JSON: the server may     *)
(* have granted the token all the same.                                    *)
Break(c) ==
  /\ run[c].wire \in {"sent", "granted"}
  /\ run' = [run EXCEPT ![c].wire = "failed", ![c].token = 0]
  /\ UNCHANGED <<now, issued>>

Server(c) == Grant(c) \/ Refuse(c) \/ Break(c)

-----------------------------------------------------------------------------
ApiTypeOK ==
  /\ now \in Nat
  /\ issued \in Seq(Grants)
  /\ run \in [Callers -> Activation]

(* The second at which the server stops accepting an access token.         *)
TrueExpiry(token) == issued[token].at + issued[token].response.expires_in

(* An AuthResponse never claims more life than the server gave its token.  *)
Conservative(auth) ==
  auth # NoAuth =>
    /\ auth.accessToken \in 1..Len(issued)
    /\ auth.accessTokenExpires <= TrueExpiry(auth.accessToken)
=============================================================================
