----------------------------- MODULE Middleware -----------------------------
(***************************************************************************)
(* The chains of middleware around a handler and around a provider's       *)
(* Publish (subscribe.go, publish.go), and what each middleware does to    *)
(* the outcome of what it wraps: "nil", "error" or "panic".                *)
(*                                                                         *)
(* A name with an underscore (Default_RecoverFirst) is the definition      *)
(* before the underscore with a bug put in; nothing refers to it.          *)
(***************************************************************************)
EXTENDS Naturals, Sequences

(* These look at the outcome, log it or put it in a span, and pass it on.  *)
Logging == {"logrus", "pubsubzap"}
Tracing == {"opentracing", "opentelemetry"}

(* "recoverNil" is recover with a RecoveryHandlerFunc that returns nil.    *)
Kinds == Logging \cup Tracing \cup {"prometheus", "audit", "recover", "recoverNil"}

Outcomes == {"nil", "error", "panic"}

Default_RecoverFirst ==
  <<"recover", "logrus", "prometheus", "opentracing", "audit">>

Default_AuditFirst ==
  <<"logrus", "prometheus", "audit", "opentracing", "recover">>

(* defaults.Middleware *)
Default == <<"logrus", "prometheus", "opentracing", "audit", "recover">>

(* A chain in which one message is counted once at most. *)
CountsOnce(mw) ==
  \A i, j \in 1..Len(mw) : mw[i] = "prometheus" /\ mw[j] = "prometheus" => i = j

-----------------------------------------------------------------------------
(* A result: an outcome, and what the prometheus middleware has counted.   *)

Result(outcome) == [outcome |-> outcome, counted |-> {}]

(* recover.Middleware *)
Recovered(kind, r) ==
  IF r.outcome # "panic" THEN r
  ELSE [r EXCEPT !.outcome = IF kind = "recover" THEN "error" ELSE "nil"]

(* prometheus.Middleware, which a panic passes by: nothing runs after next. *)
Counted(r) ==
  IF r.outcome = "panic" THEN r ELSE [r EXCEPT !.counted = @ \cup {r.outcome}]

(* What a middleware makes of the result of what it wraps. *)
Intercept(kind, r) ==
  CASE kind \in {"recover", "recoverNil"} -> Recovered(kind, r)
    [] kind = "prometheus"                -> Counted(r)
    [] OTHER                              -> r

(* chainSubscriberMiddleware: the last one is next to the handler. *)
ThroughSubscribers(mw, outcome) ==
  LET from[i \in 1..(Len(mw) + 1)] ==
        IF i > Len(mw) THEN Result(outcome) ELSE Intercept(mw[i], from[i + 1])
  IN  from[1]

(* Client.Publish makes a message without metadata; the tracing ones make  *)
(* a map for it, the audit one writes to it, which panics without one.     *)
AuditPanics(mw, i) ==
  mw[i] = "audit" /\ \A j \in 1..(i - 1) : mw[j] \notin Tracing

(* chainPublisherMiddleware *)
ThroughPublishers(mw, outcome) ==
  LET from[i \in 1..(Len(mw) + 1)] ==
        IF i > Len(mw) THEN Result(outcome)
        ELSE IF AuditPanics(mw, i) THEN Result("panic")
        ELSE Intercept(mw[i], from[i + 1])
  IN  from[1]

(* Whether a message gets to the provider at all. *)
ReachesProvider(mw) == \A i \in 1..Len(mw) : ~AuditPanics(mw, i)
=============================================================================
