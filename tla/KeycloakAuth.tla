---------------------------- MODULE KeycloakAuth ----------------------------
(***************************************************************************)
(* packages/keycloak-auth/src/KeycloakAuth.ts: one KeycloakAuth shared by  *)
(* concurrent callers.  A caller that finds authPromise set awaits it; one *)
(* that does not starts fetchAuth(), whose activation carries its name.    *)
(***************************************************************************)
EXTENDS KeycloakApi

CONSTANT NoFlight  (* authPromise undefined, or a caller that awaits nothing *)

ASSUME NoFlightAssumption == NoFlight \notin Callers

VARIABLES
  authPromise,  (* this.authPromise: the caller whose fetchAuth() it is *)
  awaits,       (* the fetchAuth() each caller awaits *)
  answers       (* the last answer of each caller, NoAuth for a rejection *)

vars == <<now, issued, run, previous, authPromise, awaits, answers>>

Init ==
  /\ ApiInit
  /\ authPromise = NoFlight
  /\ awaits = [c \in Callers |-> NoFlight]
  /\ answers = [c \in Callers |-> NoAuth]

-----------------------------------------------------------------------------
(* Faulty variant: every caller starts a request of its own. *)
StartUnguarded(c) ==
  /\ awaits[c] = NoFlight
  /\ Begin(c, previous)
  /\ authPromise' = c
  /\ awaits' = [awaits EXCEPT ![c] = c]
  /\ answers' = [answers EXCEPT ![c] = NoAuth]
  /\ UNCHANGED <<now, issued, previous>>

(* authenticate() when no request is in flight. *)
Start(c) ==
  /\ awaits[c] = NoFlight
  /\ authPromise = NoFlight
  /\ Begin(c, previous)
  /\ authPromise' = c
  /\ awaits' = [awaits EXCEPT ![c] = c]
  /\ answers' = [answers EXCEPT ![c] = NoAuth]
  /\ UNCHANGED <<now, issued, previous>>

(* authenticate() when one is: await the same promise. *)
Join(c) ==
  /\ awaits[c] = NoFlight
  /\ authPromise # NoFlight
  /\ awaits' = [awaits EXCEPT ![c] = authPromise]
  /\ answers' = [answers EXCEPT ![c] = NoAuth]
  /\ UNCHANGED <<now, issued, run, previous, authPromise>>

(* The promise of fetchAuth() f settles: whoever awaits it has the answer. *)
Answer(f, auth) ==
  /\ awaits' = [c \in Callers |-> IF awaits[c] = f THEN NoFlight ELSE awaits[c]]
  /\ answers' = [c \in Callers |-> IF awaits[c] = f THEN auth ELSE answers[c]]

(* Faulty variant: authPromise is not reset. *)
ResolveWithoutReset(f) ==
  /\ Returns(f)
  /\ previous' = Result(f)
  /\ Answer(f, Result(f))
  /\ End(f)
  /\ UNCHANGED <<now, issued, authPromise>>

Resolve(f) ==
  /\ Returns(f)
  /\ previous' = Result(f)
  /\ authPromise' = NoFlight
  /\ Answer(f, Result(f))
  /\ End(f)
  /\ UNCHANGED <<now, issued>>

(* Faulty variant: a failure forgets the token held. *)
RejectAndForget(f) ==
  /\ Throws(f)
  /\ previous' = NoAuth
  /\ authPromise' = NoFlight
  /\ Answer(f, NoAuth)
  /\ End(f)
  /\ UNCHANGED <<now, issued>>

(* The finally of fetchAuth() runs, the assignment of previous does not. *)
Reject(f) ==
  /\ Throws(f)
  /\ authPromise' = NoFlight
  /\ Answer(f, NoAuth)
  /\ End(f)
  /\ UNCHANGED <<now, issued, previous>>

Environment ==
  /\ Tick \/ \E c \in Callers : Server(c)
  /\ UNCHANGED <<previous, authPromise, awaits, answers>>

Fetch(f) ==
  \/ FallBackToLogin(f) /\ UNCHANGED <<previous, authPromise, awaits, answers>>
  \/ Resolve(f)
  \/ Reject(f)

Next ==
  \/ Environment
  \/ \E c \in Callers : Start(c) \/ Join(c) \/ Fetch(c)

(* Continuations of settled promises run (the event loop), and an exchange *)
(* with the server ends in some way: the code sets no timeout of its own.  *)
Fairness ==
  /\ \A c \in Callers : WF_vars(Fetch(c))
  /\ \A c \in Callers :
       WF_vars(Server(c) /\ UNCHANGED <<previous, authPromise, awaits, answers>>)

Spec == Init /\ [][Next]_vars

FairSpec == Spec /\ Fairness

-----------------------------------------------------------------------------
TypeOK ==
  /\ ApiTypeOK
  /\ previous \in AuthResponse
  /\ authPromise \in Callers \cup {NoFlight}
  /\ awaits \in [Callers -> Callers \cup {NoFlight}]
  /\ answers \in [Callers -> AuthResponse]

(* "Prevent thundering herd": however many callers ask, the instance has   *)
(* at most one activation of authenticate(), so one request, under way.    *)
SingleFlight ==
  \A c, d \in Callers : run[c].step # "idle" /\ run[d].step # "idle" => c = d

(* No caller waits for a fetchAuth() that has already settled, and a       *)
(* running fetchAuth() is the one new callers will find.                   *)
NoOrphans ==
  /\ \A c \in Callers : awaits[c] # NoFlight => run[awaits[c]].step # "idle"
  /\ \A c \in Callers : run[c].step # "idle" <=> authPromise = c

(* A token in use is believed to live no longer than the server will honour*)
(* it, however long the exchange that brought it took.                     *)
ExpiryIsConservative ==
  /\ Conservative(previous)
  /\ \A c \in Callers : Conservative(answers[c]) /\ Conservative(run[c].previous)

(* A token returned without asking the server had, by the server's         *)
(* reckoning, more than the margin left when the call was made.            *)
CachedTokenIsAlive ==
  \A c \in Callers : run[c].step = "cached" =>
    run[c].timestamp + Margin < TrueExpiry(run[c].previous.accessToken)

(* The token held is never replaced by an older one, nor lost when a       *)
(* request fails.                                                          *)
TokenNeverGoesBack == [][previous'.accessToken >= previous.accessToken]_vars

(* Every caller gets an answer, a token or a rejection. *)
EveryCallerAnswered ==
  \A c \in Callers : awaits[c] # NoFlight ~> awaits[c] = NoFlight

(* KeycloakAuth keeps the promise of TokenSource. *)
Source == INSTANCE TokenSource WITH
  asking <- {c \in Callers : awaits[c] # NoFlight},
  held   <- previous.accessToken,
  answer <- [c \in Callers |-> answers[c].accessToken]

ImplementsTokenSource == Source!TokenSourceSpec
=============================================================================
