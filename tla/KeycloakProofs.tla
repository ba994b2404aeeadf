--------------------------- MODULE KeycloakProofs ---------------------------
(***************************************************************************)
(* The safety of KeycloakAuth, and of the interceptor without one, for any *)
(* number of callers, any margin, any responses and any length of the run. *)
(***************************************************************************)
EXTENDS KeycloakAuth, KeycloakAxios, TLAPS

(***************************************************************************)
(* KeycloakAuth                                                            *)
(***************************************************************************)

(* What an activation of authenticate() that is under way satisfies: it    *)
(* works on the previous the instance holds, since no other can assign it; *)
(* its timestamp precedes the grant it is given, which is the last one.    *)
ActivationOK(c) ==
  /\ run[c].wire # "none" <=> run[c].step \in {"refresh", "login"}
  /\ run[c].timestamp <= now
  /\ run[c].step # "idle" => run[c].previous = previous
  /\ run[c].step = "idle" => run[c].previous = NoAuth
  /\ run[c].step = "cached" => IsCached(run[c].previous, run[c].timestamp)
  /\ run[c].wire = "granted" =>
       /\ run[c].token = Len(issued) /\ run[c].token # 0
       /\ run[c].timestamp <= issued[run[c].token].at

(* The flight under way is the one authPromise names, and everyone who     *)
(* waits waits for it, its starter included.                               *)
FlightOK ==
  /\ \A c \in Callers : run[c].step # "idle" <=> authPromise = c
  /\ \A c \in Callers : awaits[c] \in {NoFlight, authPromise}
  /\ \A c \in Callers : authPromise = c => awaits[c] = c

IInv ==
  /\ TypeOK
  /\ FlightOK
  /\ \A c \in Callers : ActivationOK(c)
  /\ Conservative(previous)
  /\ \A c \in Callers : Conservative(answers[c])

-----------------------------------------------------------------------------
(* A further grant takes nothing from what is known of the earlier ones.   *)
LEMMA ConservativeStable ==
  ASSUME issued \in Seq(Grants), NEW g \in Grants, issued' = Append(issued, g),
         NEW auth \in AuthResponse, Conservative(auth)
  PROVE  Conservative(auth)'
BY DEF Conservative, TrueExpiry, Grants, AuthResponse, NoAuth

(* What toAuth returns for a granted token is an AuthResponse that claims  *)
(* no more life than the server gave, the timestamp preceding the grant.   *)
LEMMA ToAuthConservative ==
  ASSUME issued \in Seq(Grants), NEW token \in 1..Len(issued),
         NEW timestamp \in Nat, timestamp <= issued[token].at
  PROVE  /\ toAuth(token, timestamp) \in AuthResponse
         /\ toAuth(token, timestamp).accessToken = token
         /\ Conservative(toAuth(token, timestamp))
<1>1. issued[token] \in Grants
  OBVIOUS
<1>2. issued[token].at \in Nat /\ issued[token].response.expires_in \in Nat
      /\ issued[token].response.refresh_expires_in \in Nat
  BY <1>1, ResponsesAssumption DEF Grants, KeycloakResponse
<1> DEFINE auth == toAuth(token, timestamp)
<1>3. auth \in AuthResponse
  BY <1>2, SMTT(30) DEF toAuth, AuthResponse
<1>4. /\ auth.accessToken = token
      /\ auth.accessTokenExpires = timestamp + issued[token].response.expires_in
  BY DEF toAuth
<1>5. auth.accessTokenExpires <= TrueExpiry(token)
  BY <1>2, <1>4 DEF TrueExpiry
<1>6. QED
  BY <1>3, <1>4, <1>5 DEF Conservative

(* The answer of an activation that returns: an AuthResponse with a token, *)
(* never older than the one held, whose expiry is conservative.            *)
LEMMA ResultOK ==
  ASSUME IInv, NEW f \in Callers, Returns(f)
  PROVE  /\ Result(f) \in AuthResponse
         /\ Result(f).accessToken >= previous.accessToken
         /\ Result(f).accessToken # 0
         /\ Conservative(Result(f))
<1> USE DEF IInv, TypeOK, ApiTypeOK
<1>0. ActivationOK(f) /\ run[f] \in Activation /\ previous \in AuthResponse
  OBVIOUS
<1>1. CASE run[f].step = "cached"
  <2>1. Result(f) = previous /\ previous # NoAuth
    BY <1>0, <1>1 DEF Result, ActivationOK, IsCached
  <2>2. previous.accessToken \in 1..Len(issued)
    BY <2>1 DEF Conservative
  <2>3. QED
    BY <1>0, <2>1, <2>2 DEF AuthResponse
<1>2. CASE run[f].step # "cached"
  <2>1. /\ run[f].wire = "granted"
        /\ Result(f) = toAuth(run[f].token, run[f].timestamp)
    BY <1>2 DEF Returns, Result
  <2>2. /\ run[f].token = Len(issued) /\ run[f].token \in 1..Len(issued)
        /\ run[f].timestamp \in Nat
        /\ run[f].timestamp <= issued[run[f].token].at
    BY <1>0, <2>1 DEF ActivationOK, Activation
  <2>3. previous.accessToken <= Len(issued)
    BY DEF Conservative, NoAuth
  <2>4. /\ Result(f) \in AuthResponse /\ Conservative(Result(f))
        /\ Result(f).accessToken = run[f].token
    BY <2>1, <2>2, ToAuthConservative
  <2>5. QED
    BY <2>2, <2>3, <2>4
<1>3. QED
  BY <1>1, <1>2

-----------------------------------------------------------------------------
LEMMA InitIInv == Init => IInv
<1> SUFFICES ASSUME Init PROVE IInv
  OBVIOUS
<1> USE DEF Init, ApiInit
<1>1. NoAuth \in AuthResponse
  BY DEF NoAuth, AuthResponse
<1>2. Idle \in Activation
  BY <1>1 DEF Idle, Activation, Steps, Wires
<1>3. TypeOK
  BY <1>1, <1>2 DEF TypeOK, ApiTypeOK
<1>4. FlightOK
  BY NoFlightAssumption DEF FlightOK, Idle
<1>5. \A c \in Callers : ActivationOK(c)
  BY DEF ActivationOK, Idle
<1>6. QED
  BY <1>3, <1>4, <1>5 DEF IInv, Conservative

LEMMA StartIInv == ASSUME IInv, NEW c \in Callers, Start(c) PROVE IInv'
<1> USE DEF IInv, Start
<1> DEFINE step == FirstStep(previous, now)
           act == [step |-> step, wire |-> IF step = "cached" THEN "none" ELSE "sent",
                   timestamp |-> now, previous |-> previous, token |-> 0]
<1>1. run' = [run EXCEPT ![c] = act]
  BY DEF Begin
<1>2. step \in {"cached", "refresh", "login"}
  BY DEF FirstStep
<1>3. act \in Activation
  BY <1>2 DEF Activation, Steps, Wires, TypeOK, ApiTypeOK
<1>4. NoAuth \in AuthResponse
  BY DEF NoAuth, AuthResponse
<1>5. TypeOK'
  BY <1>1, <1>3, <1>4 DEF TypeOK, ApiTypeOK
<1>6. \A d \in Callers : run[d].step = "idle" /\ awaits[d] = NoFlight
  BY NoFlightAssumption DEF FlightOK
<1>7. FlightOK'
  <2>1. \A d \in Callers : run'[d].step # "idle" <=> d = c
    BY <1>1, <1>2, <1>6 DEF TypeOK, ApiTypeOK
  <2>2. \A d \in Callers : awaits'[d] = IF d = c THEN c ELSE NoFlight
    BY <1>6 DEF TypeOK
  <2>3. QED
    BY <2>1, <2>2 DEF FlightOK
<1>8. ASSUME NEW d \in Callers PROVE ActivationOK(d)'
  <2>1. CASE d = c
    <3>1. run'[d] = act
      BY <1>1, <2>1 DEF TypeOK, ApiTypeOK
    <3>2. step = "cached" => IsCached(previous, now)
      BY DEF FirstStep
    <3>3. now \in Nat /\ previous' = previous /\ now' = now
      BY DEF TypeOK, ApiTypeOK
    <3>4. act.step = step /\ act.timestamp = now /\ act.previous = previous
          /\ act.wire = IF step = "cached" THEN "none" ELSE "sent"
      OBVIOUS
    <3>5. QED
      BY <1>2, <3>1, <3>2, <3>3, <3>4 DEF ActivationOK, IsCached, isExpired
  <2>2. CASE d # c
    <3>1. run'[d] = run[d] /\ run[d].step = "idle" /\ ActivationOK(d)
      BY <1>1, <1>6, <2>2 DEF TypeOK, ApiTypeOK
    <3>2. QED
      BY <3>1 DEF ActivationOK, IsCached, isExpired
  <2>3. QED
    BY <2>1, <2>2
<1>9. Conservative(previous)' /\ \A d \in Callers : Conservative(answers[d])'
  BY DEF Conservative, TrueExpiry, TypeOK
<1>10. QED
  BY <1>5, <1>7, <1>8, <1>9

LEMMA JoinIInv == ASSUME IInv, NEW c \in Callers, Join(c) PROVE IInv'
<1> USE DEF IInv, Join
<1>1. NoAuth \in AuthResponse
  BY DEF NoAuth, AuthResponse
<1>2. TypeOK'
  BY <1>1 DEF TypeOK, ApiTypeOK
<1>3. FlightOK'
  BY DEF FlightOK, TypeOK
<1>4. \A d \in Callers : ActivationOK(d)'
  BY DEF ActivationOK, IsCached, isExpired
<1>5. Conservative(previous)' /\ \A d \in Callers : Conservative(answers[d])'
  BY DEF Conservative, TrueExpiry, TypeOK
<1>6. QED
  BY <1>2, <1>3, <1>4, <1>5

(* What Resolve and Reject have in common: the flight ends, everyone who   *)
(* awaited it has its answer, and previous becomes p.                      *)
LEMMA SettleIInv ==
  ASSUME IInv, NEW f \in Callers, run[f].step # "idle",
         NEW auth \in AuthResponse, Conservative(auth),
         previous' \in AuthResponse, Conservative(previous'),
         authPromise' = NoFlight, Answer(f, auth), End(f), UNCHANGED <<now, issued>>
  PROVE  IInv'
<1> USE DEF IInv
<1>1. Idle \in Activation
  BY DEF Idle, Activation, Steps, Wires, NoAuth, AuthResponse
<1>2. TypeOK'
  BY <1>1 DEF TypeOK, ApiTypeOK, Answer, End
<1>3. authPromise = f
  BY DEF FlightOK
<1>4. \A d \in Callers : run'[d] = Idle \/ (d # f /\ run'[d] = run[d])
  BY DEF End, TypeOK, ApiTypeOK
<1>5. \A d \in Callers : run'[d].step = "idle"
  BY <1>3, <1>4 DEF FlightOK, Idle
<1>6. FlightOK'
  BY <1>3, <1>5, NoFlightAssumption DEF FlightOK, Answer, TypeOK
<1>7. ASSUME NEW d \in Callers PROVE ActivationOK(d)'
  <2>1. run'[d].timestamp <= now
    BY <1>4 DEF ActivationOK, Idle, TypeOK, ApiTypeOK
  <2>2. run'[d].wire = "none" /\ run'[d].step = "idle" /\ run'[d].previous = NoAuth
    BY <1>4, <1>5 DEF ActivationOK, Idle
  <2>3. QED
    BY <2>1, <2>2 DEF ActivationOK
<1>8. Conservative(previous)'
  BY DEF Conservative, TrueExpiry
<1>9. \A d \in Callers : Conservative(answers[d])'
  BY DEF Conservative, TrueExpiry, Answer
<1>10. QED
  BY <1>2, <1>6, <1>7, <1>8, <1>9

LEMMA ResolveIInv == ASSUME IInv, NEW f \in Callers, Resolve(f) PROVE IInv'
<1>1. run[f].step # "idle"
  BY DEF Resolve, Returns, IInv, ActivationOK
<1>2. Result(f) \in AuthResponse /\ Conservative(Result(f)) /\ previous' = Result(f)
  BY ResultOK DEF Resolve
<1>3. QED
  BY <1>1, <1>2, SettleIInv DEF Resolve

LEMMA RejectIInv == ASSUME IInv, NEW f \in Callers, Reject(f) PROVE IInv'
<1>1. run[f].step # "idle"
  BY DEF Reject, Throws, IInv, ActivationOK
<1>2. NoAuth \in AuthResponse /\ Conservative(NoAuth)
  BY DEF NoAuth, AuthResponse, Conservative
<1>3. previous' \in AuthResponse /\ Conservative(previous')
  BY DEF Reject, IInv, TypeOK
<1>4. QED
  BY <1>1, <1>2, <1>3, SettleIInv DEF Reject

(* An exchange moves on without ending the activation.                     *)
LEMMA WireIInv ==
  ASSUME IInv, NEW c \in Callers,
         NEW wire \in Wires, wire \in {"sent", "refused", "failed"},
         NEW step \in {"refresh", "login"}, NEW token \in Nat,
         run[c].step \in {"refresh", "login"},
         run' = [run EXCEPT ![c] = [run[c] EXCEPT !.step = step, !.wire = wire,
                                                  !.token = token]],
         UNCHANGED <<now, issued, previous, authPromise, awaits, answers>>
  PROVE  IInv'
<1> USE DEF IInv
<1> DEFINE act == [run[c] EXCEPT !.step = step, !.wire = wire, !.token = token]
<1>0. run[c] \in Activation
  BY DEF TypeOK, ApiTypeOK
<1>1. act \in Activation
  BY <1>0 DEF Activation, Steps
<1>2. /\ act.step = step /\ act.wire = wire
      /\ act.timestamp = run[c].timestamp /\ act.previous = run[c].previous
  BY <1>0 DEF Activation
<1>3. run'[c] = act /\ \A d \in Callers : d # c => run'[d] = run[d]
  BY DEF TypeOK, ApiTypeOK
<1>4. TypeOK'
  BY <1>1 DEF TypeOK, ApiTypeOK
<1>5. \A d \in Callers : run'[d].step # "idle" <=> run[d].step # "idle"
  BY <1>2, <1>3
<1>6. FlightOK'
  BY <1>5 DEF FlightOK
<1>7. ASSUME NEW d \in Callers PROVE ActivationOK(d)'
  <2>1. CASE d = c
    BY <1>2, <1>3, <2>1 DEF ActivationOK
  <2>2. CASE d # c
    BY <1>3, <2>2 DEF ActivationOK, IsCached, isExpired
  <2>3. QED
    BY <2>1, <2>2
<1>8. Conservative(previous)' /\ \A d \in Callers : Conservative(answers[d])'
  BY DEF Conservative, TrueExpiry
<1>9. QED
  BY <1>4, <1>6, <1>7, <1>8

LEMMA GrantIInv ==
  ASSUME IInv, NEW c \in Callers, Grant(c),
         UNCHANGED <<previous, authPromise, awaits, answers>>
  PROVE  IInv'
<1> USE DEF IInv
<1> DEFINE act == [run[c] EXCEPT !.wire = "granted", !.token = Len(issued) + 1]
<1>0. run[c] \in Activation /\ issued \in Seq(Grants) /\ now \in Nat
  BY DEF TypeOK, ApiTypeOK
<1>1. PICK r \in Responses : issued' = Append(issued, [at |-> now, response |-> r])
  BY DEF Grant
<1>2. [at |-> now, response |-> r] \in Grants
  BY <1>0 DEF Grants
<1>3. /\ issued' \in Seq(Grants) /\ Len(issued') = Len(issued) + 1
      /\ Len(issued) \in Nat /\ issued'[Len(issued) + 1].at = now
  BY <1>0, <1>1, <1>2
<1>4. run' = [run EXCEPT ![c] = act]
  BY DEF Grant, TypeOK, ApiTypeOK
<1>5. act \in Activation
  <2>1. Len(issued) + 1 \in Nat
    BY <1>3
  <2>2. ASSUME NEW n \in Nat
        PROVE  [run[c] EXCEPT !.wire = "granted", !.token = n] \in Activation
    BY <1>0 DEF Activation, Wires
  <2>3. QED
    BY <2>1, <2>2
<1>6. /\ act.step = run[c].step /\ act.wire = "granted" /\ act.token = Len(issued) + 1
      /\ act.timestamp = run[c].timestamp /\ act.previous = run[c].previous
  BY <1>0 DEF Activation
<1>7. run'[c] = act /\ \A d \in Callers : d # c => run'[d] = run[d]
  BY <1>4 DEF TypeOK, ApiTypeOK
<1>8. now' = now /\ TypeOK'
  BY <1>3, <1>4, <1>5 DEF TypeOK, ApiTypeOK, Grant
<1>9. \A d \in Callers : run'[d].step # "idle" <=> run[d].step # "idle"
  BY <1>6, <1>7
<1>10. FlightOK'
  BY <1>9 DEF FlightOK
<1>11. run[c].step \in {"refresh", "login"} /\ authPromise = c
  BY DEF Grant, ActivationOK, FlightOK
<1>12. ASSUME NEW d \in Callers PROVE ActivationOK(d)'
  <2>1. CASE d = c
    <3>1. ActivationOK(c) /\ run[c].timestamp <= now
      BY DEF ActivationOK
    <3>2. /\ run'[c].token = Len(issued') /\ run'[c].token # 0
          /\ run'[c].timestamp <= issued'[run'[c].token].at
          /\ run'[c].timestamp <= now'
      BY <1>3, <1>6, <1>7, <1>8, <3>1
    <3>3. QED
      BY <1>6, <1>7, <1>11, <2>1, <3>1, <3>2, ZenonT(30) DEF ActivationOK, Grant
  <2>2. CASE d # c
    <3>1. run'[d] = run[d] /\ run[d].step = "idle" /\ ActivationOK(d)
      BY <1>7, <1>11, <2>2 DEF FlightOK
    <3>2. QED
      BY <1>8, <3>1 DEF ActivationOK
  <2>3. QED
    BY <2>1, <2>2
<1>13. Conservative(previous)' /\ \A d \in Callers : Conservative(answers[d])'
  BY <1>0, <1>1, <1>2, ConservativeStable DEF TypeOK
<1>14. QED
  BY <1>8, <1>10, <1>12, <1>13

LEMMA TickIInv ==
  ASSUME IInv, Tick, UNCHANGED <<previous, authPromise, awaits, answers>>
  PROVE  IInv'
<1> USE DEF IInv, Tick
<1>1. TypeOK'
  BY DEF TypeOK, ApiTypeOK
<1>2. FlightOK'
  BY DEF FlightOK
<1>3. \A d \in Callers : run[d].timestamp \in Nat /\ now \in Nat
  BY DEF TypeOK, ApiTypeOK, Activation
<1>4. \A d \in Callers : ActivationOK(d)'
  BY <1>3 DEF ActivationOK, IsCached, isExpired
<1>5. Conservative(previous)' /\ \A d \in Callers : Conservative(answers[d])'
  BY DEF Conservative, TrueExpiry
<1>6. QED
  BY <1>1, <1>2, <1>4, <1>5

LEMMA NextIInv == IInv /\ [Next]_vars => IInv'
<1> SUFFICES ASSUME IInv, [Next]_vars PROVE IInv'
  OBVIOUS
<1> DEFINE rest == UNCHANGED <<previous, authPromise, awaits, answers>>
<1>1. ASSUME NEW c \in Callers, Start(c) PROVE IInv'
  BY <1>1, StartIInv
<1>2. ASSUME NEW c \in Callers, Join(c) PROVE IInv'
  BY <1>2, JoinIInv
<1>3. ASSUME NEW c \in Callers, Resolve(c) PROVE IInv'
  BY <1>3, ResolveIInv
<1>4. ASSUME NEW c \in Callers, Reject(c) PROVE IInv'
  BY <1>4, RejectIInv
<1>5. ASSUME NEW c \in Callers, FallBackToLogin(c), rest PROVE IInv'
  <2>1. run[c] \in Activation
    BY DEF IInv, TypeOK, ApiTypeOK
  <2>2. run' = [run EXCEPT ![c] = [run[c] EXCEPT !.step = "login", !.wire = "sent",
                                                 !.token = run[c].token]]
    BY <1>5, <2>1 DEF FallBackToLogin, Activation, IInv, TypeOK, ApiTypeOK
  <2>3. QED
    BY <1>5, <2>1, <2>2, WireIInv DEF FallBackToLogin, Wires, Activation
<1>6. ASSUME NEW c \in Callers, Server(c), rest PROVE IInv'
  <2>1. run[c] \in Activation /\ ActivationOK(c)
    BY DEF IInv, TypeOK, ApiTypeOK
  <2>2. CASE Grant(c)
    BY <1>6, <2>2, GrantIInv
  <2>3. CASE Refuse(c)
    <3>1. run' = [run EXCEPT ![c] = [run[c] EXCEPT !.step = run[c].step,
                               !.wire = "refused", !.token = run[c].token]]
      BY <2>1, <2>3 DEF Refuse, Activation, IInv, TypeOK, ApiTypeOK
    <3>2. run[c].step \in {"refresh", "login"}
      BY <2>1, <2>3 DEF Refuse, ActivationOK
    <3>3. run[c].token \in Nat /\ "refused" \in Wires
      BY <2>1 DEF Activation, Wires
    <3>4. UNCHANGED <<now, issued, previous, authPromise, awaits, answers>>
      BY <1>6, <2>3 DEF Refuse
    <3>5. QED
      BY <3>1, <3>2, <3>3, <3>4, WireIInv
  <2>4. CASE Break(c)
    <3>1. run' = [run EXCEPT ![c] = [run[c] EXCEPT !.step = run[c].step,
                               !.wire = "failed", !.token = 0]]
      BY <2>1, <2>4 DEF Break, Activation, IInv, TypeOK, ApiTypeOK
    <3>2. run[c].step \in {"refresh", "login"}
      BY <2>1, <2>4 DEF Break, ActivationOK
    <3>3. QED
      BY <1>6, <2>1, <2>4, <3>1, <3>2, WireIInv DEF Break, Wires, Activation
  <2>5. QED
    BY <1>6, <2>2, <2>3, <2>4 DEF Server
<1>7. ASSUME Tick, rest PROVE IInv'
  BY <1>7, TickIInv
<1>8. CASE UNCHANGED vars
  BY <1>8 DEF vars, IInv, TypeOK, ApiTypeOK, FlightOK, ActivationOK, IsCached,
              isExpired, Conservative, TrueExpiry
<1>9. QED
  BY <1>1, <1>2, <1>3, <1>4, <1>5, <1>6, <1>7, <1>8 DEF Next, Environment, Fetch

LEMMA Inductive == Spec => []IInv
BY InitIInv, NextIInv, PTL DEF Spec

-----------------------------------------------------------------------------
(* Every variable stays in its type. *)
THEOREM TypeCorrect == Spec => []TypeOK
<1>1. IInv => TypeOK
  BY DEF IInv
<1>2. QED
  BY <1>1, Inductive, PTL

(* The thundering herd is prevented: authPromise guards fetchAuth(). *)
THEOREM OneFlight == Spec => []SingleFlight
<1>1. IInv => SingleFlight
  BY DEF IInv, FlightOK, SingleFlight
<1>2. QED
  BY <1>1, Inductive, PTL

(* No caller awaits a settled fetchAuth(). *)
THEOREM NobodyOrphaned == Spec => []NoOrphans
<1>1. IInv => NoOrphans
  BY NoFlightAssumption DEF IInv, FlightOK, NoOrphans, TypeOK
<1>2. QED
  BY <1>1, Inductive, PTL

(* Expiries recorded by toAuth never outlive those of the server. *)
THEOREM ExpiriesConservative == Spec => []ExpiryIsConservative
<1>1. IInv => ExpiryIsConservative
  <2> SUFFICES ASSUME IInv PROVE ExpiryIsConservative
    OBVIOUS
  <2>1. Conservative(previous) /\ \A c \in Callers : Conservative(answers[c])
    BY DEF IInv
  <2>2. ASSUME NEW c \in Callers PROVE Conservative(run[c].previous)
    <3>1. run[c].previous = previous \/ run[c].previous = NoAuth
      BY DEF IInv, ActivationOK
    <3>2. QED
      BY <2>1, <3>1 DEF Conservative
  <2>3. QED
    BY <2>1, <2>2 DEF ExpiryIsConservative
<1>2. QED
  BY <1>1, Inductive, PTL

(* A token returned from the cache has more than the margin left. *)
THEOREM CachedTokensAlive == Spec => []CachedTokenIsAlive
<1>1. IInv => CachedTokenIsAlive
  <2> SUFFICES ASSUME IInv, NEW c \in Callers, run[c].step = "cached"
               PROVE  run[c].timestamp + Margin < TrueExpiry(run[c].previous.accessToken)
    BY DEF CachedTokenIsAlive
  <2>1. /\ run[c].previous = previous /\ previous # NoAuth
        /\ ~(run[c].timestamp + Margin >= previous.accessTokenExpires)
    BY DEF IInv, ActivationOK, IsCached, isExpired
  <2>2. /\ previous.accessToken \in 1..Len(issued)
        /\ previous.accessTokenExpires <= TrueExpiry(previous.accessToken)
    BY <2>1 DEF IInv, Conservative
  <2>3. /\ issued \in Seq(Grants) /\ previous.accessTokenExpires \in Nat
        /\ run[c].timestamp \in Nat
    BY DEF IInv, TypeOK, ApiTypeOK, Activation, AuthResponse
  <2>4. issued[previous.accessToken] \in Grants
    BY <2>2, <2>3
  <2>5. TrueExpiry(previous.accessToken) \in Nat
    BY <2>4, ResponsesAssumption DEF TrueExpiry, Grants, KeycloakResponse
  <2>6. QED
    BY <2>1, <2>2, <2>3, <2>5, MarginAssumption
<1>2. QED
  BY <1>1, Inductive, PTL

(* No step replaces the token held by an older one. *)
THEOREM NeverBack == Spec => TokenNeverGoesBack
<1>1. IInv /\ [Next]_vars => [previous'.accessToken >= previous.accessToken]_vars
  <2> SUFFICES ASSUME IInv, Next
               PROVE  previous'.accessToken >= previous.accessToken
    OBVIOUS
  <2>1. ASSUME NEW f \in Callers, Resolve(f)
        PROVE  previous'.accessToken >= previous.accessToken
    BY <2>1, ResultOK DEF Resolve
  <2>2. ASSUME previous' = previous
        PROVE  previous'.accessToken >= previous.accessToken
    BY <2>2 DEF IInv, TypeOK, AuthResponse
  <2>3. QED
    BY <2>1, <2>2 DEF Next, Environment, Fetch, Start, Join, Reject
<1>2. QED
  BY <1>1, Inductive, PTL DEF Spec, TokenNeverGoesBack

-----------------------------------------------------------------------------
(* Every behaviour of KeycloakAuth is one of TokenSource: Start and Join   *)
(* are Ask, Resolve is Serve, Reject is Fail, the rest stutters.           *)
THEOREM Refinement == Spec => ImplementsTokenSource
<1> DEFINE asking == {c \in Callers : awaits[c] # NoFlight}
           held == previous.accessToken
           answer == [c \in Callers |-> answers[c].accessToken]
<1>1. Init => Source!TokenSourceInit
  BY DEF Init, ApiInit, NoAuth, Source!TokenSourceInit
<1>2. IInv /\ [Next]_vars => [Source!TokenSourceNext]_<<asking, held, answer>>
  <2> SUFFICES ASSUME IInv, [Next]_vars
               PROVE  Source!TokenSourceNext \/ UNCHANGED <<asking, held, answer>>
    OBVIOUS
  <2>1. ASSUME NEW c \in Callers, Start(c) \/ Join(c) PROVE Source!Ask(c)
    <3>1. PICK f \in Callers : awaits' = [awaits EXCEPT ![c] = f]
      BY <2>1 DEF Start, Join, IInv, TypeOK
    <3>2. answers' = [answers EXCEPT ![c] = NoAuth] /\ UNCHANGED previous
          /\ awaits[c] = NoFlight
      BY <2>1 DEF Start, Join
    <3>3. asking' = asking \cup {c} /\ c \notin asking
      BY <3>1, <3>2, NoFlightAssumption DEF IInv, TypeOK
    <3>4. answer' = [answer EXCEPT ![c] = 0]
      BY <3>2 DEF IInv, TypeOK, NoAuth
    <3>5. QED
      BY <3>2, <3>3, <3>4 DEF Source!Ask
  <2>2. ASSUME NEW f \in Callers, NEW auth, Answer(f, auth), run[f].step # "idle"
        PROVE  asking # {} /\ Source!AnswerAll(auth.accessToken)
    <3>1. authPromise = f /\ awaits[f] = f
      BY <2>2 DEF IInv, FlightOK
    <3>2. f \in asking
      BY <3>1, NoFlightAssumption
    <3>3. \A c \in Callers : awaits[c] = f <=> c \in asking
      BY <3>1, NoFlightAssumption DEF IInv, FlightOK
    <3>4. asking' = {}
      BY <2>2, <3>3, NoFlightAssumption DEF Answer
    <3>5. answer' = [c \in Callers |-> IF c \in asking THEN auth.accessToken ELSE answer[c]]
      BY <2>2, <3>3 DEF Answer
    <3>6. QED
      BY <3>2, <3>4, <3>5 DEF Source!AnswerAll
  <2>3. ASSUME NEW f \in Callers, Resolve(f) PROVE Source!Serve
    <3>1. run[f].step # "idle"
      BY <2>3 DEF Resolve, Returns, IInv, ActivationOK
    <3>2. PICK auth : auth = Result(f)
      OBVIOUS
    <3>3. Answer(f, auth) /\ previous' = auth
      BY <2>3, <3>2 DEF Resolve, Answer
    <3>4. asking # {} /\ Source!AnswerAll(auth.accessToken)
      BY <2>2, <3>1, <3>3
    <3>5. held' = auth.accessToken /\ held' \in Nat \ {0} /\ held' >= held
      BY <2>3, <3>2, <3>3, ResultOK DEF Resolve, AuthResponse
    <3>6. Source!AnswerAll(held')
      BY <3>4, <3>5 DEF Source!AnswerAll
    <3>7. QED
      BY <3>4, <3>5, <3>6 DEF Source!Serve
  <2>4. ASSUME NEW f \in Callers, Reject(f) PROVE Source!Fail
    <3>1. run[f].step # "idle"
      BY <2>4 DEF Reject, Throws, IInv, ActivationOK
    <3>2. asking # {} /\ Source!AnswerAll(NoAuth.accessToken)
      BY <2>2, <2>4, <3>1 DEF Reject
    <3>3. NoAuth.accessToken = 0
      BY DEF NoAuth
    <3>4. UNCHANGED held
      BY <2>4 DEF Reject
    <3>5. QED
      BY <3>2, <3>3, <3>4 DEF Source!Fail
  <2>5. ASSUME UNCHANGED <<previous, awaits, answers>>
        PROVE  UNCHANGED <<asking, held, answer>>
    BY <2>5
  <2>6. QED
    BY <2>1, <2>3, <2>4, <2>5
    DEF Next, Environment, Fetch, vars, Source!TokenSourceNext
<1>3. QED
  BY <1>1, <1>2, Inductive, PTL
  DEF Spec, ImplementsTokenSource, Source!TokenSourceSpec

-----------------------------------------------------------------------------
(***************************************************************************)
(* KeycloakAxios                                                           *)
(***************************************************************************)

(* What an activation of authenticate() satisfies.  Nothing ties its       *)
(* previous to the shared variable, which another may have assigned since: *)
(* it is conservative by itself, and a token granted to the activation is  *)
(* newer than the one it started from, since the server numbers them.      *)
Sound(act) ==
  /\ act.wire # "none" <=> act.step \in {"refresh", "login"}
  /\ act.timestamp <= now
  /\ Conservative(act.previous)
  /\ act.step = "cached" => act.previous # NoAuth
  /\ act.wire = "granted" =>
       /\ act.token \in 1..Len(issued)
       /\ act.timestamp <= issued[act.token].at
       /\ act.token > act.previous.accessToken

AxiosIInv ==
  /\ AxiosTypeOK
  /\ Conservative(previous)
  /\ \A c \in Callers : Sound(run[c])

-----------------------------------------------------------------------------
(* What the passage of time and further grants take nothing from.          *)
Grows ==
  /\ now' \in Nat /\ now' >= now
  /\ issued' = issued \/ \E g \in Grants : issued' = Append(issued, g)

LEMMA ConservativeGrows ==
  ASSUME AxiosTypeOK, Grows, NEW auth \in AuthResponse, Conservative(auth)
  PROVE  Conservative(auth)'
BY SMTT(30) DEF AxiosTypeOK, ApiTypeOK, Grows, Conservative, TrueExpiry, AuthResponse, NoAuth

LEMMA SoundStable ==
  ASSUME AxiosTypeOK, Grows, NEW act \in Activation, Sound(act)
  PROVE  Sound(act)'
<1>1. act.previous \in AuthResponse /\ act.timestamp \in Nat /\ now \in Nat
  BY DEF Activation, AxiosTypeOK, ApiTypeOK
<1>2. Conservative(act.previous)'
  BY <1>1, ConservativeGrows DEF Sound
<1>3. act.timestamp <= now'
  BY <1>1 DEF Sound, Grows
<1>4. ASSUME act.wire = "granted"
      PROVE  /\ act.token \in 1..Len(issued')
             /\ act.timestamp <= issued'[act.token].at
  BY <1>1, <1>4 DEF Sound, Grows, AxiosTypeOK, ApiTypeOK
<1>5. QED
  BY <1>2, <1>3, <1>4 DEF Sound

(* What a request leaves with: never the empty response, a token no older  *)
(* than the one the request found, and an expiry that is conservative.     *)
LEMMA RequestResult ==
  ASSUME AxiosIInv, NEW c \in Callers, Returns(c)
  PROVE  /\ Result(c) \in AuthResponse
         /\ Conservative(Result(c))
         /\ Result(c).accessToken # 0
         /\ Result(c).accessToken >= run[c].previous.accessToken
<1>1. /\ run[c] \in Activation /\ Sound(run[c])
      /\ run[c].previous \in AuthResponse /\ issued \in Seq(Grants)
  BY DEF AxiosIInv, AxiosTypeOK, ApiTypeOK, Activation
<1>2. CASE run[c].step = "cached"
  <2>1. Result(c) = run[c].previous /\ run[c].previous # NoAuth
    BY <1>1, <1>2 DEF Result, Sound
  <2>2. Conservative(run[c].previous)
    BY <1>1 DEF Sound
  <2>3. run[c].previous.accessToken \in 1..Len(issued)
    BY <2>1, <2>2 DEF Conservative
  <2>4. QED
    BY <1>1, <2>1, <2>2, <2>3 DEF AuthResponse
<1>3. CASE run[c].step # "cached"
  <2> DEFINE token == run[c].token
             timestamp == run[c].timestamp
             auth == toAuth(token, timestamp)
  <2>1. run[c].wire = "granted" /\ Result(c) = auth
    BY <1>3 DEF Returns, Result
  <2>2. /\ token \in 1..Len(issued) /\ timestamp \in Nat
        /\ timestamp <= issued[token].at
        /\ token > run[c].previous.accessToken
    BY <1>1, <2>1 DEF Sound, Activation
  <2>3. issued[token] \in Grants
    BY <1>1, <2>2
  <2>4. /\ issued[token].at \in Nat /\ issued[token].response.expires_in \in Nat
        /\ issued[token].response.refresh_expires_in \in Nat
    BY <2>3, ResponsesAssumption DEF Grants, KeycloakResponse
  <2>5. auth \in AuthResponse
    <3>1. token \in Nat
      BY <1>1 DEF Activation
    <3>2. \A x, y \in Nat : x + y \in Nat
      OBVIOUS
    <3>3. timestamp + issued[token].response.expires_in \in Nat
          /\ timestamp + issued[token].response.refresh_expires_in \in Nat
      BY <2>2, <2>4, <3>2, Zenon
    <3>4. QED
      BY <3>1, <3>3 DEF toAuth, AuthResponse
  <2>6. /\ auth.accessToken = token
        /\ auth.accessTokenExpires = timestamp + issued[token].response.expires_in
    BY DEF toAuth
  <2>7. auth.accessTokenExpires <= TrueExpiry(token)
    BY <2>2, <2>4, <2>6, SMTT(30) DEF TrueExpiry
  <2>8. Conservative(auth)
    BY <2>2, <2>6, <2>7 DEF Conservative
  <2>9. QED
    BY <1>1, <2>1, <2>2, <2>5, <2>6, <2>8, SMTT(30) DEF AuthResponse
<1>4. QED
  BY <1>2, <1>3

-----------------------------------------------------------------------------
(* An activation that ends, or has not begun. *)
LEMMA IdleOK == ASSUME now \in Nat PROVE Idle \in Activation /\ Sound(Idle)
BY DEF Idle, Activation, Steps, Wires, NoAuth, AuthResponse, Sound, Conservative

LEMMA AxiosInitIInv == AxiosInit => AxiosIInv
<1> SUFFICES ASSUME AxiosInit PROVE AxiosIInv
  OBVIOUS
<1>1. now = 0 /\ issued = <<>> /\ run = [c \in Callers |-> Idle] /\ previous = NoAuth
  BY DEF AxiosInit, ApiInit
<1>2. Idle \in Activation /\ Sound(Idle)
  BY <1>1, IdleOK
<1>3. AxiosTypeOK
  BY <1>1, <1>2 DEF AxiosInit, AxiosTypeOK, ApiTypeOK, NoAuth, AuthResponse
<1>4. Conservative(previous)
  BY <1>1 DEF Conservative
<1>5. QED
  BY <1>1, <1>2, <1>3, <1>4 DEF AxiosIInv

(* Every step replaces at most one activation by one that is sound, lets   *)
(* time and the grants only grow, and leaves a conservative previous.      *)
LEMMA StepIInv ==
  ASSUME AxiosIInv, Grows, NEW c \in Callers, NEW act \in Activation,
         Sound(act)', run' = [run EXCEPT ![c] = act],
         previous' \in AuthResponse, Conservative(previous)',
         header' \in [Callers -> Nat]
  PROVE  AxiosIInv'
<1>1. AxiosTypeOK'
  <2>1. issued' \in Seq(Grants)
    <3>1. issued \in Seq(Grants)
      BY DEF AxiosIInv, AxiosTypeOK, ApiTypeOK
    <3>2. \A g \in Grants : Append(issued, g) \in Seq(Grants)
      BY <3>1
    <3>3. QED
      BY <3>1, <3>2 DEF Grows
  <2>2. run' \in [Callers -> Activation]
    BY DEF AxiosIInv, AxiosTypeOK, ApiTypeOK
  <2>3. QED
    BY <2>1, <2>2 DEF AxiosTypeOK, ApiTypeOK, Grows, Grants
<1>2. ASSUME NEW d \in Callers PROVE Sound(run[d])'
  <2>1. CASE d = c
    <3>1. run'[d] = act
      BY <2>1 DEF AxiosIInv, AxiosTypeOK, ApiTypeOK
    <3>2. QED
      BY <3>1 DEF Sound, Conservative, TrueExpiry
  <2>2. CASE d # c
    <3>1. run'[d] = run[d] /\ run[d] \in Activation /\ Sound(run[d])
      BY <2>2 DEF AxiosIInv, AxiosTypeOK, ApiTypeOK
    <3>2. PICK old \in Activation : old = run[d] /\ Sound(old)
      BY <3>1
    <3>3. Sound(old)'
      BY <3>2, SoundStable DEF AxiosIInv
    <3>4. QED
      BY <3>1, <3>2, <3>3 DEF Sound, Conservative, TrueExpiry
  <2>3. QED
    BY <2>1, <2>2
<1>3. QED
  BY <1>1, <1>2 DEF AxiosIInv

LEMMA InterceptIInv == ASSUME AxiosIInv, NEW c \in Callers, Intercept(c) PROVE AxiosIInv'
<1> DEFINE step == FirstStep(previous, now)
           act == [step |-> step, wire |-> IF step = "cached" THEN "none" ELSE "sent",
                   timestamp |-> now, previous |-> previous, token |-> 0]
<1>1. /\ run' = [run EXCEPT ![c] = act] /\ header' = [header EXCEPT ![c] = 0]
      /\ UNCHANGED <<now, issued, previous>>
  BY DEF Intercept, Begin
<1>2. /\ step \in {"cached", "refresh", "login"}
      /\ step = "cached" => previous # NoAuth
  BY DEF FirstStep, IsCached
<1>3. now \in Nat /\ previous \in AuthResponse /\ Conservative(previous) /\ AxiosTypeOK
  BY DEF AxiosIInv, AxiosTypeOK, ApiTypeOK
<1>4. act \in Activation
  BY <1>2, <1>3 DEF Activation, Steps, Wires
<1>5. /\ act.step = step /\ act.timestamp = now /\ act.previous = previous
      /\ act.wire = IF step = "cached" THEN "none" ELSE "sent"
  OBVIOUS
<1>6. Sound(act)
  BY <1>2, <1>3, <1>5 DEF Sound
<1>7. Grows /\ previous' \in AuthResponse /\ header' \in [Callers -> Nat]
  BY <1>1, <1>3 DEF Grows, AxiosTypeOK
<1>8. Conservative(previous)'
  BY <1>1, <1>3 DEF Conservative, TrueExpiry
<1>9. PICK new \in Activation : new = act /\ Sound(new)
  BY <1>4, <1>6
<1>10. Sound(new)'
  BY <1>3, <1>7, <1>9, SoundStable
<1>11. run' = [run EXCEPT ![c] = new]
  BY <1>1, <1>9
<1>12. QED
  BY <1>7, <1>8, <1>10, <1>11, StepIInv

(* The request ends, leaving auth in previous. *)
LEMMA EndIInv ==
  ASSUME AxiosIInv, NEW c \in Callers, NEW auth \in AuthResponse, Conservative(auth),
         End(c), previous' = auth, header' \in [Callers -> Nat],
         UNCHANGED <<now, issued>>
  PROVE  AxiosIInv'
<1>1. AxiosTypeOK /\ now \in Nat
  BY DEF AxiosIInv, AxiosTypeOK, ApiTypeOK
<1>2. Grows
  BY <1>1 DEF Grows
<1>3. PICK new \in Activation : new = Idle /\ Sound(new)
  BY <1>1, IdleOK
<1>4. Sound(new)' /\ run' = [run EXCEPT ![c] = new]
  BY <1>1, <1>2, <1>3, SoundStable DEF End
<1>5. Conservative(previous)'
  BY DEF Conservative, TrueExpiry
<1>6. QED
  BY <1>2, <1>4, <1>5, StepIInv

LEMMA AuthorizeIInv == ASSUME AxiosIInv, NEW c \in Callers, Authorize(c) PROVE AxiosIInv'
<1>1. Result(c) \in AuthResponse /\ Conservative(Result(c))
  BY RequestResult DEF Authorize
<1>2. /\ previous' = Result(c) /\ End(c) /\ UNCHANGED <<now, issued>>
      /\ header' = [header EXCEPT ![c] = previous'.accessToken]
  BY DEF Authorize
<1>3. header' \in [Callers -> Nat]
  BY <1>1, <1>2 DEF AxiosIInv, AxiosTypeOK, AuthResponse
<1>4. QED
  BY <1>1, <1>2, <1>3, EndIInv

LEMMA RejectRequestIInv == ASSUME AxiosIInv, NEW c \in Callers, RejectRequest(c) PROVE AxiosIInv'
<1>1. previous \in AuthResponse /\ Conservative(previous) /\ header \in [Callers -> Nat]
  BY DEF AxiosIInv, AxiosTypeOK
<1>2. End(c) /\ UNCHANGED <<now, issued, previous, header>>
  BY DEF RejectRequest
<1>3. QED
  BY <1>1, <1>2, EndIInv

(* An exchange moves on without ending the activation.                     *)
LEMMA ExchangeIInv ==
  ASSUME AxiosIInv, Grows, NEW c \in Callers, NEW wire \in Wires \ {"none"},
         NEW step \in {"refresh", "login"}, NEW token \in Nat,
         wire = "granted" => /\ token = Len(issued) + 1 /\ token = Len(issued')
                             /\ issued'[token].at = now,
         run' = [run EXCEPT ![c] = [run[c] EXCEPT !.step = step, !.wire = wire,
                                                  !.token = token]],
         UNCHANGED <<previous, header>>
  PROVE  AxiosIInv'
<1> DEFINE act == [run[c] EXCEPT !.step = step, !.wire = wire, !.token = token]
<1>1. /\ AxiosTypeOK /\ run[c] \in Activation /\ Sound(run[c]) /\ now \in Nat
      /\ previous \in AuthResponse /\ Conservative(previous)
      /\ issued \in Seq(Grants)
  BY DEF AxiosIInv, AxiosTypeOK, ApiTypeOK
<1>2. act \in Activation
  BY <1>1 DEF Activation, Steps
<1>3. /\ act.step = step /\ act.wire = wire /\ act.token = token
      /\ act.timestamp = run[c].timestamp /\ act.previous = run[c].previous
  BY <1>1 DEF Activation
<1>4. PICK new \in Activation : new = act
  BY <1>2
<1>5. PICK old \in Activation : old = run[c] /\ Sound(old)
  BY <1>1
<1>6. Sound(old)'
  BY <1>1, <1>5, SoundStable
<1>7. /\ old.previous \in AuthResponse /\ old.timestamp \in Nat
      /\ old.timestamp <= now /\ Conservative(old.previous)
  BY <1>5 DEF Activation, Sound
<1>8. old.previous.accessToken \in Nat /\ old.previous.accessToken <= Len(issued)
  BY <1>1, <1>7 DEF Conservative, AuthResponse, NoAuth
<1>9. ASSUME wire = "granted"
      PROVE  /\ token \in 1..Len(issued') /\ old.timestamp <= issued'[token].at
             /\ token > old.previous.accessToken
  BY <1>1, <1>7, <1>8, <1>9
<1>10. Sound(new)'
  BY <1>3, <1>4, <1>5, <1>6, <1>9 DEF Sound
<1>11. Conservative(previous)' /\ previous' \in AuthResponse
  BY <1>1, ConservativeGrows
<1>12. QED
  BY <1>1, <1>4, <1>10, <1>11, StepIInv DEF AxiosTypeOK

LEMMA ServerIInv ==
  ASSUME AxiosIInv, NEW c \in Callers, Server(c), UNCHANGED <<previous, header>>
  PROVE  AxiosIInv'
<1>1. /\ run[c] \in Activation /\ Sound(run[c]) /\ now \in Nat /\ issued \in Seq(Grants)
      /\ run \in [Callers -> Activation]
  BY DEF AxiosIInv, AxiosTypeOK, ApiTypeOK
<1>2. run[c].step \in {"refresh", "login"} /\ run[c].token \in Nat
  BY <1>1 DEF Server, Grant, Refuse, Break, Sound, Activation
<1>3. CASE Grant(c)
  <2>1. PICK r \in Responses : issued' = Append(issued, [at |-> now, response |-> r])
    BY <1>3 DEF Grant
  <2>2. [at |-> now, response |-> r] \in Grants
    BY <1>1 DEF Grants
  <2>3. /\ Len(issued) + 1 \in Nat /\ Len(issued') = Len(issued) + 1
        /\ issued'[Len(issued) + 1].at = now
    BY <1>1, <2>1, <2>2
  <2>4. Grows
    BY <1>1, <1>3, <2>1, <2>2 DEF Grows, Grant
  <2>5. run' = [run EXCEPT ![c] = [run[c] EXCEPT !.step = run[c].step,
                             !.wire = "granted", !.token = Len(issued) + 1]]
    BY <1>1, <1>3 DEF Grant, Activation
  <2>6. QED
    BY <1>2, <2>3, <2>4, <2>5, ExchangeIInv DEF Wires
<1>4. ASSUME UNCHANGED <<now, issued>> PROVE Grows
  BY <1>1, <1>4 DEF Grows
<1>5. CASE Refuse(c)
  <2>1. run' = [run EXCEPT ![c] = [run[c] EXCEPT !.step = run[c].step,
                             !.wire = "refused", !.token = run[c].token]]
    BY <1>1, <1>5 DEF Refuse, Activation
  <2>2. Grows
    BY <1>4, <1>5 DEF Refuse
  <2>3. QED
    BY <1>2, <2>1, <2>2, ExchangeIInv DEF Wires
<1>6. CASE Break(c)
  <2>1. run' = [run EXCEPT ![c] = [run[c] EXCEPT !.step = run[c].step,
                             !.wire = "failed", !.token = 0]]
    BY <1>1, <1>6 DEF Break, Activation
  <2>2. Grows
    BY <1>4, <1>6 DEF Break
  <2>3. QED
    BY <1>2, <2>1, <2>2, ExchangeIInv DEF Wires
<1>7. QED
  BY <1>3, <1>5, <1>6 DEF Server

LEMMA FallBackIInv ==
  ASSUME AxiosIInv, NEW c \in Callers, FallBackToLogin(c), UNCHANGED <<previous, header>>
  PROVE  AxiosIInv'
<1>1. /\ run[c] \in Activation /\ now \in Nat /\ run[c].token \in Nat
      /\ run \in [Callers -> Activation]
  BY DEF AxiosIInv, AxiosTypeOK, ApiTypeOK, Activation
<1>2. run' = [run EXCEPT ![c] = [run[c] EXCEPT !.step = "login", !.wire = "sent",
                                               !.token = run[c].token]]
  BY <1>1 DEF FallBackToLogin, Activation
<1>3. Grows
  BY <1>1 DEF Grows, FallBackToLogin
<1>4. QED
  BY <1>1, <1>2, <1>3, ExchangeIInv DEF Wires

LEMMA AxiosTickIInv ==
  ASSUME AxiosIInv, Tick, UNCHANGED <<previous, header>>
  PROVE  AxiosIInv'
<1>1. AxiosTypeOK /\ now \in Nat /\ run \in [Callers -> Activation]
      /\ previous \in AuthResponse /\ Conservative(previous)
  BY DEF AxiosIInv, AxiosTypeOK, ApiTypeOK
<1>2. Grows
  BY <1>1 DEF Grows, Tick
<1>3. Conservative(previous)' /\ previous' \in AuthResponse
  BY <1>1, <1>2, ConservativeGrows
<1>4. PICK c \in Callers : TRUE
  BY CallersAssumption
<1>5. PICK old \in Activation : old = run[c] /\ Sound(old)
  BY <1>1 DEF AxiosIInv
<1>6. Sound(old)' /\ run' = [run EXCEPT ![c] = old]
  BY <1>1, <1>2, <1>5, SoundStable DEF Tick
<1>7. QED
  BY <1>1, <1>2, <1>3, <1>6, StepIInv DEF AxiosTypeOK

LEMMA AxiosNextIInv == AxiosIInv /\ [AxiosNext]_axiosVars => AxiosIInv'
<1> SUFFICES ASSUME AxiosIInv, [AxiosNext]_axiosVars PROVE AxiosIInv'
  OBVIOUS
<1>1. ASSUME NEW c \in Callers, Intercept(c) PROVE AxiosIInv'
  BY <1>1, InterceptIInv
<1>2. ASSUME NEW c \in Callers, Authorize(c) PROVE AxiosIInv'
  BY <1>2, AuthorizeIInv
<1>3. ASSUME NEW c \in Callers, RejectRequest(c) PROVE AxiosIInv'
  BY <1>3, RejectRequestIInv
<1>4. ASSUME NEW c \in Callers, FallBackToLogin(c), UNCHANGED <<previous, header>>
      PROVE  AxiosIInv'
  BY <1>4, FallBackIInv
<1>5. ASSUME NEW c \in Callers, Server(c), UNCHANGED <<previous, header>> PROVE AxiosIInv'
  BY <1>5, ServerIInv
<1>6. ASSUME Tick, UNCHANGED <<previous, header>> PROVE AxiosIInv'
  BY <1>6, AxiosTickIInv
<1>7. CASE UNCHANGED axiosVars
  BY <1>7 DEF axiosVars, AxiosIInv, AxiosTypeOK, ApiTypeOK, Sound, Conservative, TrueExpiry
<1>8. QED
  BY <1>1, <1>2, <1>3, <1>4, <1>5, <1>6, <1>7 DEF AxiosNext, AxiosEnvironment, AxiosFetch

LEMMA AxiosInductive == AxiosSpec => []AxiosIInv
BY AxiosInitIInv, AxiosNextIInv, PTL DEF AxiosSpec

-----------------------------------------------------------------------------
(* Whatever requests race for previous, the expiries it and the requests   *)
(* go by are never later than the server's, and all variables stay typed.  *)
THEOREM PreviousConservative == AxiosSpec => []PreviousIsConservative
<1>1. AxiosIInv => PreviousIsConservative
  BY DEF AxiosIInv, Sound, PreviousIsConservative
<1>2. QED
  BY <1>1, AxiosInductive, PTL

(* A request leaves with a token, one no older than the previous it found  *)
(* when it was made, although previous itself may have gone back since.    *)
THEOREM HeaderFresh == AxiosSpec => HeaderNoOlderThanAtCall
<1> DEFINE A(c) == Returns(c) /\ run'[c].step = "idle"
                     => /\ header'[c] # 0
                        /\ header'[c] >= run[c].previous.accessToken
<1>1. AxiosIInv /\ [AxiosNext]_axiosVars => [\A c \in Callers : A(c)]_axiosVars
  <2> SUFFICES ASSUME AxiosIInv, AxiosNext, NEW c \in Callers, Returns(c), run'[c].step = "idle"
               PROVE  /\ header'[c] # 0
                      /\ header'[c] >= run[c].previous.accessToken
    OBVIOUS
  <2>1. /\ run[c] \in Activation /\ Sound(run[c])
        /\ run \in [Callers -> Activation] /\ header \in [Callers -> Nat]
    BY DEF AxiosIInv, AxiosTypeOK, ApiTypeOK
  <2>2. run[c].step # "idle" /\ ~Throws(c)
    BY <2>1 DEF Returns, Throws, Sound
  <2>3. CASE Authorize(c)
    <3>1. header'[c] = Result(c).accessToken
      BY <2>1, <2>3 DEF Authorize
    <3>2. QED
      BY <3>1, RequestResult
  <2>4. CASE \E d \in Callers \ {c} :
               Intercept(d) \/ Authorize(d) \/ RejectRequest(d) \/ FallBackToLogin(d) \/ Server(d)
    <3>1. run'[c] = run[c]
      BY <2>1, <2>4 DEF Intercept, Begin, Authorize, RejectRequest, End,
                        FallBackToLogin, Server, Grant, Refuse, Break
    <3>2. QED
      BY <2>2, <3>1
  <2>5. CASE FallBackToLogin(c) \/ Server(c)
    <3>1. run'[c].step \in {run[c].step, "login"}
      BY <2>1, <2>5 DEF FallBackToLogin, Server, Grant, Refuse, Break, Activation
    <3>2. QED
      BY <2>2, <3>1
  <2>6. CASE Tick
    BY <2>2, <2>6 DEF Tick
  <2>7. ~Intercept(c) /\ ~RejectRequest(c)
    BY <2>2 DEF Intercept, RejectRequest
  <2>8. QED
    BY <2>3, <2>4, <2>5, <2>6, <2>7 DEF AxiosNext, AxiosEnvironment, AxiosFetch
<1>2. QED
  BY <1>1, AxiosInductive, PTL DEF AxiosSpec, HeaderNoOlderThanAtCall
=============================================================================
