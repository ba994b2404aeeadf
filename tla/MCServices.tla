----------------------------- MODULE MCServices ------------------------------
(* Two things a service runs beside one another, which share no state: a   *)
(* sink into PostgreSQL and the interceptor of its requests.  A behaviour  *)
(* is of the one or of the other.                                          *)
EXTENDS MCPGSink, MCKeycloakAxios

VARIABLE part

servicesVars == <<vars, axiosVars, part>>

NothingSunk == Init /\ source = CHOOSE s \in Sources : s.batches = "topic"

ServicesInit ==
  \/ part = "sink" /\ Init /\ AxiosInit
  \/ part = "interceptor" /\ AxiosInit /\ NothingSunk

ServicesNext ==
  /\ UNCHANGED part
  /\ \/ part = "sink" /\ Next /\ UNCHANGED axiosVars
     \/ part = "interceptor" /\ AxiosNext /\ UNCHANGED vars

ServicesSpec == ServicesInit /\ [][ServicesNext]_servicesVars /\ WF_vars(Sink)
=============================================================================
