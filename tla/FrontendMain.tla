---------------------------- MODULE FrontendMain ----------------------------
(***************************************************************************)
(* frontend/config.go, frontend/status.go and main of the TCP frontend:    *)
(* the validation of the configuration, what the rest of the program then  *)
(* relies on, and the status endpoint that runs beside Serve.  Serve is    *)
(* TunnelServer; here it listens, serves and returns.                      *)
(***************************************************************************)
EXTENDS Integers, Sequences, SequencesExt

CONSTANT FrontConfigs   \* the configuration files there may be

VARIABLES
  front,        \* the configuration, as read and then as filled in
  frontPc,      \* main: "config", "setup", "listen", "serve", "exited"
  frontSignal,  \* a signal arrived
  frontEnd,     \* how main ended: "running", "ok", or the step that failed
  statusSrv,    \* the status endpoint: "off", "starting", "serving", "gone"
  shown         \* the last request for /stats and its answer

frontVars == <<front, frontPc, frontSignal, frontEnd, statusSrv, shown>>

(* A text is "" (absent), "good", "padded" (good, in blanks), "blank" (of  *)
(* blanks only), or "bad".                                                 *)
Trim(t) == CASE t = "padded" -> "good" [] t = "blank" -> "" [] OTHER -> t

Limits == {"max_connections", "max_relays", "handshake_timeout", "idle_timeout"}
LimitDefault == [l \in Limits |-> CASE l = "max_connections" -> 1024 [] l = "max_relays" -> 64
                                    [] l = "handshake_timeout" -> 10 [] OTHER -> 300]

(* What the file may hold; "bad" stands for any token but the configured.  *)
Blanks == {"", "blank", "good", "padded"}
RealityConfig ==
  [key : Blanks \cup {"bad"}, names : Seq(Blanks), ids : Seq(Blanks \cup {"bad"}),
   maxTimeDiff : Int, target : {"", "good", "bad"}]
FrontConfig ==
  [parses : BOOLEAN, mode : {"", "reality", "tls", "other"}, cert : BOOLEAN, reality : RealityConfig,
   text : [{"log_level", "listen", "upstream"} -> {"", "good", "bad"}], limit : [Limits -> Int],
   status : [http : {"", "good", "bad"}, token : Blanks]]

ASSUME FrontConfigsTyped == FrontConfigs \subseteq FrontConfig

-----------------------------------------------------------------------------
(* parseRealityPrivateKey and parseShortIDs trim; an empty id is legal.    *)
keyParses(k) == Trim(k) = "good"
idsParse(ids) == \A i \in Range(ids) : i = "" \/ Trim(i) \in {"", "good"}

realityValid(r) ==
  /\ r.key # "" /\ r.names # <<>> /\ \A n \in Range(r.names) : Trim(n) # ""
  /\ keyParses(r.key) /\ r.ids # <<>> /\ idsParse(r.ids)
  /\ r.maxTimeDiff >= 0
  /\ r.target # "bad"

(* Mutant: a status endpoint needs no token.                               *)
statusValidOpen(s) == s.http # "bad"

statusValid(s) == s.http = "" \/ (s.http # "bad" /\ Trim(s.token) # "")

(* applyDefaultsAndValidate: what it accepts, and the defaults.            *)
frontValid(c) ==
  /\ c.parses
  /\ \A t \in DOMAIN c.text : c.text[t] # "bad"
  /\ c.mode \in {"", "reality", "tls"}
  /\ c.mode # "tls" => realityValid(c.reality)
  /\ c.mode = "tls" => c.cert
  /\ \A l \in Limits : c.limit[l] >= 0
  /\ statusValid(c.status)

frontFilled(c) ==
  LET r == c.reality IN
  [c EXCEPT
     !.mode = IF @ = "" THEN "reality" ELSE @,
     !.text = [t \in DOMAIN c.text |-> IF c.text[t] = "" THEN "good" ELSE c.text[t]],
     !.limit = [l \in Limits |-> IF c.limit[l] = 0 THEN LimitDefault[l] ELSE c.limit[l]],
     !.reality = IF c.mode = "tls" THEN r
                 ELSE [r EXCEPT !.names = [i \in DOMAIN @ |-> Trim(@[i])],
                                !.target = IF @ = "" THEN "good" ELSE @]]

FrontInit ==
  /\ front \in FrontConfigs /\ frontPc = "config"
  /\ frontSignal = FALSE /\ frontEnd = "running"
  /\ statusSrv = "off" /\ shown = [auth |-> "none", code |-> 0]

-----------------------------------------------------------------------------
Exit(why) == frontPc' = "exited" /\ frontEnd' = why

LoadFrontConfig ==
  /\ frontPc = "config"
  /\ IF frontValid(front)
       THEN front' = frontFilled(front) /\ frontPc' = "setup" /\ UNCHANGED frontEnd
       ELSE Exit("config") /\ UNCHANGED front
  /\ UNCHANGED <<frontSignal, statusSrv, shown>>

(* NewTunnelServer reads keys and ids again, or the certificate; then the  *)
(* goroutine of the status endpoint is started.                            *)
SetupDone ==
  /\ frontPc = "setup"
  /\ front.mode = "reality" => keyParses(front.reality.key) /\ idsParse(front.reality.ids)
  /\ frontPc' = "listen" /\ statusSrv' = IF front.status.http = "" THEN "gone" ELSE "starting"
  /\ UNCHANGED <<front, frontSignal, frontEnd, shown>>

SetupFails ==
  /\ frontPc = "setup"
  /\ front.mode = "reality" => ~(keyParses(front.reality.key) /\ idsParse(front.reality.ids))
  /\ Exit("setup")
  /\ UNCHANGED <<front, frontSignal, statusSrv, shown>>

FrontListen ==
  /\ frontPc = "listen"
  /\ \/ Exit("listen")
     \/ frontPc' = "serve" /\ UNCHANGED frontEnd
  /\ UNCHANGED <<front, frontSignal, statusSrv, shown>>

FrontSignal ==
  /\ frontPc \in {"listen", "serve"} /\ ~frontSignal
  /\ frontSignal' = TRUE
  /\ UNCHANGED <<front, frontPc, frontEnd, statusSrv, shown>>

(* Serve returns once the context is done (TunnelServer).                  *)
ServeReturns ==
  /\ frontPc = "serve" /\ frontSignal
  /\ Exit("ok")
  /\ UNCHANGED <<front, frontSignal, statusSrv, shown>>

(* ListenAndServe, which may fail at once: only a warning; and Shutdown.   *)
StartStatus ==
  /\ frontPc # "exited"
  /\ \/ statusSrv = "starting" /\ statusSrv' \in {"serving", "gone"}
     \/ statusSrv \in {"starting", "serving"} /\ frontSignal /\ statusSrv' = "gone"
  /\ UNCHANGED <<front, frontPc, frontSignal, frontEnd, shown>>

(* GET /stats with an Authorization: absent, of another scheme, or a       *)
(* bearer token of the wrong value, the wrong length or the right one.     *)
(* net/http cuts the blanks at the end of a header.                        *)
Provided(auth) ==
  CASE auth \in {"none", "basic"} -> "" [] auth = "padded" -> "cut" [] OTHER -> auth
StatusRequest ==
  /\ frontPc # "exited" /\ statusSrv = "serving"
  /\ \E auth \in {"none", "basic", "bad", "good", "padded"} :
       shown' = [auth |-> auth, code |-> IF Provided(auth) = front.status.token THEN 200 ELSE 403]
  /\ UNCHANGED <<front, frontPc, frontSignal, frontEnd, statusSrv>>

FrontNext ==
  \/ LoadFrontConfig \/ SetupDone \/ SetupFails \/ FrontListen \/ FrontSignal \/ ServeReturns
  \/ StartStatus \/ StatusRequest

FrontSpec == FrontInit /\ [][FrontNext]_frontVars

-----------------------------------------------------------------------------
(* Correctness                                                             *)

(* A configuration that was accepted is one the program can use: reading   *)
(* its keys again in NewTunnelServer does not fail, the limits are those   *)
(* TunnelServer assumes, and validating it again changes nothing.          *)
FrontTrusted ==
  frontPc \notin {"config", "exited"} \/ frontEnd = "setup" =>
    /\ frontEnd = "setup" => front.mode = "tls"
    /\ \A l \in Limits : front.limit[l] \in Nat \ {0}
    /\ frontValid(front) /\ frontFilled(front) = front

(* The counters are shown only to a request that carries a token: with an  *)
(* empty one, which only the validation rules out, the comparison of the   *)
(* handler would let every request through.                                *)
StatusGuarded == shown.code = 200 => shown.auth \notin {"none", "basic", "bad"}

(* The configuration and the status endpoint of the TCP frontend.          *)
FrontInv == FrontTrusted /\ StatusGuarded

=============================================================================
