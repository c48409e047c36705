------------------------------ MODULE H3Serve ------------------------------
(***************************************************************************)
(* h3frontend: main, loadConfig, serve and originHandler.  serve opens its *)
(* sockets one after the other with a deferred close for each, starts the  *)
(* goroutine of the website and one that waits for the context, and then   *)
(* accepts QUIC connections until the listener, the website or a signal    *)
(* ends it.  What a CONNECT does once it is relayed is TunnelRelay.        *)
(***************************************************************************)
EXTENDS Integers, Sequences, SequencesExt

CONSTANTS
  Peers,      \* clients, one QUIC connection each
  Configs     \* the configuration files there may be

VARIABLES
  cfg,        \* the configuration, as read and then as filled in
  hpc,        \* main: "config", a stage of serve, "accept", "return" or "exited"
  open,       \* what serve has opened and not closed
  signalled,  \* SIGINT or SIGTERM arrived: the context of main is done
  ctxDone,    \* serve's own context is done
  website,    \* the website's goroutine: "off", "serving", "failed", "sent", "gone"
  websiteErr, \* errors in the channel of that name
  watcher,    \* the goroutine that waits for ctx: "off", "waiting", "closing", "gone"
  quicConn,   \* each connection: "none", "pending", "serving", "refused", "gone"
  served,     \* the first request of a connection and what it got
  outcome     \* "running", "ok", or the stage or cause that serve's error names

serveVars == <<cfg, hpc, open, signalled, ctxDone, website, websiteErr, watcher, quicConn,
               served, outcome>>

NoRequest == [method |-> "none"]

-----------------------------------------------------------------------------
(* c.parses: the file is TOML without a reality section.  Text settings    *)
(* are "" (absent), "good" or "bad", the congestion control also "cubic";  *)
(* c.num holds the numbers with a least value: the QUIC packet size, the   *)
(* windows, the streams.                                                   *)
Least == [packet |-> 1200, window |-> 16384, streams |-> 8]
Default == [packet |-> 1200, window |-> 8388608, streams |-> 1024]
Texts == {"log_level", "listen", "upstream", "idle", "congestion", "bbrProfile"}
Modes == {"", "origin", "tls", "reality"}
Config ==
  [parses : BOOLEAN, mode : Modes, cert : BOOLEAN, origin : BOOLEAN, tcp : BOOLEAN,
   check : BOOLEAN, num : [DOMAIN Least -> Int], text : [Texts -> {"", "good", "bad", "cubic"}]]

ASSUME ConfigsTyped == Configs \subseteq Config

valid(c) ==
  /\ c.parses
  /\ c.mode \in {"", "tls", "origin"} /\ c.cert
  /\ c.mode # "tls" => c.origin
  /\ \A n \in DOMAIN Least : c.num[n] = 0 \/ c.num[n] >= Least[n]
  /\ \A t \in Texts : c.text[t] # "bad"

filled(c) ==
  [c EXCEPT !.mode = IF @ = "" THEN "origin" ELSE @,
            !.text = [t \in Texts |-> IF c.text[t] = "" THEN "good" ELSE c.text[t]],
            !.num = [n \in DOMAIN Least |-> IF c.num[n] = 0 THEN Default[n] ELSE c.num[n]]]

ServeInit ==
  /\ cfg \in Configs /\ hpc = "config" /\ open = {}
  /\ signalled = FALSE /\ ctxDone = FALSE
  /\ website = "off" /\ websiteErr = 0 /\ watcher = "off"
  /\ quicConn = [c \in Peers |-> "none"]
  /\ served = NoRequest /\ outcome = "running"

(* loadConfig and, for "check", the end.                                   *)
LoadConfig ==
  /\ hpc = "config"
  /\ IF valid(cfg)
       THEN /\ cfg' = filled(cfg)
            /\ IF cfg.check THEN hpc' = "exited" /\ outcome' \in {"ok", "cert"}
                            ELSE hpc' = "mode" /\ UNCHANGED outcome
       ELSE hpc' = "exited" /\ outcome' = "config" /\ UNCHANGED cfg
  /\ UNCHANGED <<open, signalled, ctxDone, website, websiteErr, watcher, quicConn, served>>

-----------------------------------------------------------------------------
(* The stages of serve before the loop, in order, and what each opens.     *)
Stages == <<"mode", "cert", "idle", "qlog", "udp", "listener", "root", "tcp">>
HasWebsite == cfg.mode = "origin" /\ cfg.tcp
Opens(stage) ==
  CASE stage = "udp" -> {"udp", "transport"}
    [] stage = "listener" -> {"listener"}
    [] stage = "root" -> (IF cfg.mode = "origin" THEN {"root"} ELSE {}) \cup {"h3srv"}
    [] stage = "tcp" -> IF HasWebsite THEN {"tcp", "websrv"} ELSE {}
    [] OTHER -> {}

(* Whether a stage can fail: the first and third repeat what validation    *)
(* looked at; the last two only open what the configuration asks for.      *)
CanFail(stage) ==
  CASE stage = "mode" -> cfg.mode \notin {"origin", "tls"}
    [] stage = "idle" -> cfg.text["idle"] = "bad"
    [] stage = "root" -> cfg.mode = "origin"
    [] stage = "tcp" -> HasWebsite
    [] OTHER -> TRUE

Return(why) == hpc' = "return" /\ outcome' = why

StageFails(i) ==
  /\ hpc = Stages[i] /\ CanFail(hpc)
  /\ Return(hpc)
  /\ UNCHANGED <<cfg, open, signalled, ctxDone, website, websiteErr, watcher, quicConn, served>>

(* Before the loop the website's goroutine and the watcher are started.    *)
StageDone(i) ==
  /\ hpc = Stages[i]
  /\ hpc \in {"mode", "idle"} => ~CanFail(hpc)
  /\ open' = open \cup Opens(hpc)
  /\ hpc' = IF i = Len(Stages) THEN "accept" ELSE Stages[i + 1]
  /\ website' = IF hpc = "tcp" /\ HasWebsite THEN "serving" ELSE website
  /\ watcher' = IF hpc = "tcp" THEN "waiting" ELSE watcher
  /\ UNCHANGED <<cfg, signalled, ctxDone, websiteErr, quicConn, served, outcome>>

-----------------------------------------------------------------------------
(* ServeTLS returns: with an error of its listener, or because it was      *)
(* closed, which is no error.                                              *)
WebsiteFails ==
  /\ website = "serving" /\ "websrv" \in open
  /\ website' = "failed"
  /\ UNCHANGED <<cfg, hpc, open, signalled, ctxDone, websiteErr, watcher, quicConn, served, outcome>>

WebsiteClosed ==
  /\ website = "serving" /\ "websrv" \notin open
  /\ website' = "gone"
  /\ UNCHANGED <<cfg, hpc, open, signalled, ctxDone, websiteErr, watcher, quicConn, served, outcome>>

(* Mutant: the context is cancelled before the error is sent.              *)
WebsiteReportsLate ==
  /\ \/ website = "failed" /\ website' = "sent" /\ ctxDone' = TRUE /\ UNCHANGED websiteErr
     \/ website = "sent" /\ website' = "gone" /\ websiteErr' = websiteErr + 1 /\ UNCHANGED ctxDone
  /\ UNCHANGED <<cfg, hpc, open, signalled, watcher, quicConn, served, outcome>>

(* websiteErr <- err, then cancel().                                       *)
WebsiteReports ==
  /\ \/ website = "failed" /\ website' = "sent" /\ websiteErr' = websiteErr + 1 /\ UNCHANGED ctxDone
     \/ website = "sent" /\ website' = "gone" /\ ctxDone' = TRUE /\ UNCHANGED websiteErr
  /\ UNCHANGED <<cfg, hpc, open, signalled, watcher, quicConn, served, outcome>>

Signal ==
  /\ hpc \notin {"config", "exited"} /\ ~signalled
  /\ signalled' = TRUE /\ ctxDone' = TRUE
  /\ UNCHANGED <<cfg, hpc, open, website, websiteErr, watcher, quicConn, served, outcome>>

(* What nobody accepted is refused when the listener is closed.            *)
Without(conns, what) ==
  IF "listener" \in what THEN [c \in Peers |-> IF conns[c] = "pending" THEN "gone" ELSE conns[c]]
  ELSE conns

(* The watcher closes the listener, then the UDP socket.                   *)
Watch ==
  LET what == IF watcher = "waiting" THEN {"listener"} ELSE {"udp"} IN
  /\ watcher \in {"waiting", "closing"} /\ ctxDone
  /\ watcher' = IF watcher = "waiting" THEN "closing" ELSE "gone"
  /\ open' = open \ what
  /\ quicConn' = Without(quicConn, what)
  /\ UNCHANGED <<cfg, hpc, signalled, ctxDone, website, websiteErr, served, outcome>>

-----------------------------------------------------------------------------
Handshake(c) ==
  /\ quicConn[c] = "none" /\ {"listener", "udp"} \subseteq open
  /\ quicConn' = [quicConn EXCEPT ![c] = "pending"]
  /\ UNCHANGED <<cfg, hpc, open, signalled, ctxDone, website, websiteErr, watcher, served, outcome>>

(* A connection whose congestion controller cannot be replaced is closed.  *)
AcceptConn(c) ==
  /\ hpc = "accept" /\ quicConn[c] = "pending"
  /\ quicConn' = [quicConn EXCEPT ![c] =
       IF cfg.text["congestion"] = "good" /\ cfg.text["bbrProfile"] = "bad" THEN "refused"
       ELSE "serving"]
  /\ UNCHANGED <<cfg, hpc, open, signalled, ctxDone, website, websiteErr, watcher, served, outcome>>

(* listener.Accept fails: closed, cancelled, or the transport broke.       *)
AcceptFails ==
  /\ hpc = "accept"
  /\ IF websiteErr > 0 THEN Return("website") /\ websiteErr' = websiteErr - 1
     ELSE Return(IF ctxDone THEN "ok" ELSE "accept") /\ UNCHANGED websiteErr
  /\ UNCHANGED <<cfg, open, signalled, ctxDone, website, watcher, quicConn, served>>

(* originHandler.ServeHTTP, or relayHandler alone in tls mode: what the    *)
(* first request of a connection gets.  The website answers GET and HEAD.  *)
Answered(method, authorized) ==
  IF method = "CONNECT" /\ (authorized \/ cfg.mode = "tls") THEN "relayed"
  ELSE IF cfg.mode = "tls" THEN "404"
  ELSE IF method \in {"GET", "HEAD"} THEN "file" ELSE "405"

Request(c) ==
  /\ quicConn[c] = "serving" /\ served = NoRequest
  /\ \E method \in {"CONNECT", "GET", "POST"}, authorized \in BOOLEAN :
       served' = [method |-> method, authorized |-> authorized,
                  got |-> Answered(method, authorized)]
  /\ UNCHANGED <<cfg, hpc, open, signalled, ctxDone, website, websiteErr, watcher, quicConn, outcome>>

(* ServeQUICConn returns: the client left, or the server, the transport or *)
(* the socket was closed; the deferred CloseWithError follows.             *)
ConnEnds(c) ==
  /\ quicConn[c] = "serving"
  /\ quicConn' = [quicConn EXCEPT ![c] = "gone"]
  /\ UNCHANGED <<cfg, hpc, open, signalled, ctxDone, website, websiteErr, watcher, served, outcome>>

ConnCut(c) == ~({"h3srv", "transport", "udp"} \subseteq open) /\ ConnEnds(c)

-----------------------------------------------------------------------------
(* The deferred calls, last first; cancel() comes last.                    *)
Closers == <<"websrv", "tcp", "h3srv", "root", "listener", "transport", "udp">>

(* Mutant: without the deferred close of the website's server.             *)
UnwindSome ==
  /\ hpc = "return"
  /\ open' = open \cap {"websrv"}
  /\ quicConn' = Without(quicConn, {"listener"})
  /\ hpc' = "exited" /\ ctxDone' = TRUE
  /\ UNCHANGED <<cfg, signalled, website, websiteErr, watcher, served, outcome>>

Unwind ==
  /\ hpc = "return"
  /\ IF open # {}
       THEN LET i == CHOOSE k \in DOMAIN Closers : /\ Closers[k] \in open
                                                    /\ \A j \in 1..(k - 1) : Closers[j] \notin open
            IN /\ open' = open \ {Closers[i]}
               /\ quicConn' = Without(quicConn, {Closers[i]})
               /\ UNCHANGED <<hpc, ctxDone>>
       ELSE hpc' = "exited" /\ ctxDone' = TRUE /\ UNCHANGED <<open, quicConn>>
  /\ UNCHANGED <<cfg, signalled, website, websiteErr, watcher, served, outcome>>

(* The exit status of main.                                                *)
ExitCode == IF outcome # "ok" /\ ~signalled THEN 1 ELSE 0

-----------------------------------------------------------------------------
Website == WebsiteFails \/ WebsiteClosed \/ WebsiteReports
MainStep == (\E i \in DOMAIN Stages : StageDone(i) \/ StageFails(i)) \/ Unwind
            \/ (("listener" \notin open \/ ctxDone) /\ AcceptFails)

ServeNext ==
  \/ LoadConfig \/ Unwind \/ AcceptFails \/ Website \/ Signal \/ Watch
  \/ \E i \in DOMAIN Stages : StageDone(i) \/ StageFails(i)
  \/ \E c \in Peers : Handshake(c) \/ AcceptConn(c) \/ Request(c) \/ ConnEnds(c)

(* Goroutines are scheduled; Accept returns when its listener is closed or *)
(* its context done, ServeTLS and ServeQUICConn when theirs is closed.  A  *)
(* handler that waits for its upstream without a deadline may outlast that *)
(* call; it ends with the process, which main leaves when serve returns.   *)
ServeFairness ==
  /\ WF_serveVars(MainStep) /\ WF_serveVars(Watch)
  /\ WF_serveVars(WebsiteClosed \/ WebsiteReports)
  /\ \A c \in Peers : WF_serveVars(ConnCut(c))

ServeSpec == ServeInit /\ [][ServeNext]_serveVars /\ ServeFairness

-----------------------------------------------------------------------------
(* Correctness                                                             *)

(* Every variable has its type.                                            *)
ServeTypeOK ==
  /\ hpc \in {"config", "accept", "return", "exited"} \cup Range(Stages)
  /\ open \subseteq Range(Closers)
  /\ {signalled, ctxDone} \subseteq BOOLEAN /\ websiteErr \in 0..1
  /\ website \in {"off", "serving", "failed", "sent", "gone"}
  /\ watcher \in {"off", "waiting", "closing", "gone"}
  /\ quicConn \in [Peers -> {"none", "pending", "serving", "refused", "gone"}]

(* serve leaves nothing open when it returns, at whatever stage it failed. *)
NothingLeftOpen == hpc = "exited" => open = {}

(* A configuration that was accepted is one serve can use: neither its own *)
(* checks of the mode and the timeout nor UseBBR ever fail because of it,  *)
(* and reading it again would change nothing.                              *)
ConfigTrusted ==
  hpc \notin {"config", "exited"} =>
    /\ outcome \notin {"mode", "idle"} /\ \A c \in Peers : quicConn[c] # "refused"
    /\ valid(cfg) /\ filled(cfg) = cfg

(* Without a signal the process never ends as if all were well: a website  *)
(* that failed, or a listener that broke, is reported by the exit status.  *)
FailureReported == (hpc = "exited" /\ ~signalled /\ ~cfg.check) => ExitCode = 1

(* A CONNECT that is not relayed never gets a 2xx answer, which would tell *)
(* the client that its tunnel is there.                                    *)
NoFalseTunnel == served.method = "CONNECT" => served.got \in {"relayed", "404", "405"}

(* The listeners, the configuration, the exit status and the answers.      *)
ServeInv == NothingLeftOpen /\ ConfigTrusted /\ FailureReported /\ NoFalseTunnel

(* After a signal, or once the website has failed, main exits, and with it *)
(* end both goroutines and every connection that was accepted.             *)
ServeEnds ==
  (signalled \/ website = "failed") ~>
     /\ hpc = "exited" /\ website \in {"off", "gone"} /\ watcher \in {"off", "gone"}
     /\ \A c \in Peers : quicConn[c] \notin {"pending", "serving"}

=============================================================================
