-------------------------- MODULE ComponentsProofs --------------------------
(***************************************************************************)
(* Proofs about the other parts that keep a state of their own: serve of   *)
(* the HTTP/3 frontend and main of the TCP frontend, for every set of      *)
(* clients and of configuration files; the listeners of EntryManager, for  *)
(* any set of connections; ProfileStore, for any files, links and number   *)
(* of profiles; the device of TunDevice, for any profiles, gateways and    *)
(* number of calls; and, from them and ClientPartsProofs, the invariant of *)
(* all the components together.                                            *)
(*                                                                         *)
(* serve of the HTTP/3 frontend: an exit status of zero can only come from *)
(* AcceptFails with the context done and no error in the channel, so the   *)
(* invariant follows the error of the website from the goroutine through   *)
(* the channel, and the context from whoever cancels it.                   *)
(***************************************************************************)
EXTENDS MCComponents, ClientPartsProofs

-----------------------------------------------------------------------------
(* The stages and the closers, as sets.                                    *)
StageNames == {"mode", "cert", "idle", "qlog", "udp", "listener", "root", "tcp"}
CloserNames == {"websrv", "tcp", "h3srv", "root", "listener", "transport", "udp"}

(* The stages of the start come in their order.                            *)
LEMMA StageFacts ==
  /\ DOMAIN Stages = 1..8 /\ Len(Stages) = 8
  /\ Range(Stages) = StageNames
  /\ \A i \in 1..8 : Stages[i] \in StageNames
  /\ \A i \in 1..8 : Stages[i] = "tcp" <=> i = 8
<1>1. DOMAIN Stages = 1..8 /\ Len(Stages) = 8
  BY DEF Stages
<1>2. /\ Stages[1] = "mode" /\ Stages[2] = "cert" /\ Stages[3] = "idle" /\ Stages[4] = "qlog"
      /\ Stages[5] = "udp" /\ Stages[6] = "listener" /\ Stages[7] = "root" /\ Stages[8] = "tcp"
  BY DEF Stages
<1>3. 1..8 = {1, 2, 3, 4, 5, 6, 7, 8}
  OBVIOUS
<1>4. \A i \in 1..8 : Stages[i] \in StageNames /\ (Stages[i] = "tcp" <=> i = 8)
  BY <1>2, <1>3 DEF StageNames
<1>5. Range(Stages) = {Stages[i] : i \in 1..8}
  BY <1>1 DEF Range
<1>6. Range(Stages) = StageNames
  BY <1>2, <1>3, <1>5 DEF StageNames
<1> QED
  BY <1>1, <1>4, <1>6

(* The deferred closers are the ones named.                                *)
LEMMA CloserFacts == Range(Closers) = CloserNames
<1>1. /\ DOMAIN Closers = {1, 2, 3, 4, 5, 6, 7}
      /\ Closers[1] = "websrv" /\ Closers[2] = "tcp" /\ Closers[3] = "h3srv"
      /\ Closers[4] = "root" /\ Closers[5] = "listener" /\ Closers[6] = "transport"
      /\ Closers[7] = "udp"
  BY DEF Closers
<1> QED
  BY <1>1 DEF Range, CloserNames

-----------------------------------------------------------------------------
(* What loadConfig accepts and fills in is accepted again as it is.        *)
Usable(c) == valid(c) /\ filled(c) = c /\ c.mode \in {"origin", "tls"}

(* A configuration that validation accepts is usable once it is filled.    *)
LEMMA FilledUsable ==
  ASSUME NEW c \in Config, valid(c)
  PROVE  filled(c) \in Config /\ Usable(filled(c)) /\ filled(c).check = c.check
<1> DEFINE f == filled(c)
<1>0. /\ c.mode \in Modes
      /\ c.text \in [Texts -> {"", "good", "bad", "cubic"}]
      /\ c.num \in [DOMAIN Least -> Int]
  BY DEF Config
<1>1. DOMAIN Least = {"packet", "window", "streams"}
  BY DEF Least
<1>2. /\ Least["packet"] = 1200 /\ Least["window"] = 16384 /\ Least["streams"] = 8
      /\ Default["packet"] = 1200 /\ Default["window"] = 8388608 /\ Default["streams"] = 1024
  BY DEF Least, Default
<1>3. \A n \in DOMAIN Least : Default[n] \in Int /\ Default[n] # 0 /\ Default[n] >= Least[n]
  BY <1>1, <1>2
<1>4. /\ f.parses = c.parses /\ f.cert = c.cert /\ f.origin = c.origin /\ f.tcp = c.tcp
      /\ f.check = c.check
  BY DEF filled, Config
<1>m. /\ f.mode = IF c.mode = "" THEN "origin" ELSE c.mode
      /\ f.text = [t \in Texts |-> IF c.text[t] = "" THEN "good" ELSE c.text[t]]
      /\ f.num = [n \in DOMAIN Least |-> IF c.num[n] = 0 THEN Default[n] ELSE c.num[n]]
  BY DEF filled, Config
<1>a. /\ f.text \in [Texts -> {"", "good", "bad", "cubic"}]
      /\ \A t \in Texts : f.text[t] # "" /\ (c.text[t] # "bad" => f.text[t] # "bad")
  <2> DEFINE g == [t \in Texts |-> IF c.text[t] = "" THEN "good" ELSE c.text[t]]
  <2>1. \A t \in Texts : g[t] = IF c.text[t] = "" THEN "good" ELSE c.text[t]
    OBVIOUS
  <2>2. \A t \in Texts : c.text[t] \in {"", "good", "bad", "cubic"}
    BY <1>0
  <2>3. g \in [Texts -> {"", "good", "bad", "cubic"}]
    BY <2>2
  <2>4. \A t \in Texts : g[t] # "" /\ (c.text[t] # "bad" => g[t] # "bad")
    BY <2>1
  <2> HIDE DEF f, g
  <2> QED
    BY <2>3, <2>4, <1>m DEF g
<1>b. /\ f.num \in [DOMAIN Least -> Int]
      /\ \A n \in DOMAIN Least : f.num[n] = IF c.num[n] = 0 THEN Default[n] ELSE c.num[n]
  <2> DEFINE h == [n \in DOMAIN Least |-> IF c.num[n] = 0 THEN Default[n] ELSE c.num[n]]
  <2>1. \A n \in DOMAIN Least : c.num[n] \in Int
    BY <1>0
  <2>2. h \in [DOMAIN Least -> Int]
    BY <2>1, <1>3
  <2>3. \A n \in DOMAIN Least : h[n] = IF c.num[n] = 0 THEN Default[n] ELSE c.num[n]
    OBVIOUS
  <2> HIDE DEF f, h
  <2> QED
    BY <2>2, <2>3, <1>m DEF h
<1>5. f \in Config
  <2>1. c.mode \in Modes /\ f.mode \in Modes
    BY <1>0, <1>m DEF Modes
  <2>2. f = [c EXCEPT !.mode = f.mode, !.text = f.text, !.num = f.num]
    BY <1>m DEF filled
  <2> HIDE DEF f
  <2> QED
    BY <2>1, <2>2, <1>a, <1>b DEF Config
<1>6. valid(f) /\ f.mode \in {"origin", "tls"}
  <2>1. \A n \in DOMAIN Least : f.num[n] = 0 \/ f.num[n] >= Least[n]
    BY <1>3, <1>b DEF valid
  <2>2. \A t \in Texts : f.text[t] # "bad"
    BY <1>a DEF valid
  <2>3. f.mode \in {"origin", "tls"} /\ (f.mode # "tls" => c.mode # "tls")
    BY <1>m DEF valid
  <2> QED
    BY <1>4, <2>1, <2>2, <2>3 DEF valid
<1>7. /\ \A t \in Texts : f.text[t] # ""
      /\ \A n \in DOMAIN Least : f.num[n] # 0
  BY <1>3, <1>a, <1>b
<1>8. /\ f.mode = IF f.mode = "" THEN "origin" ELSE f.mode
      /\ f.text = [t \in Texts |-> IF f.text[t] = "" THEN "good" ELSE f.text[t]]
      /\ f.num = [n \in DOMAIN Least |-> IF f.num[n] = 0 THEN Default[n] ELSE f.num[n]]
  BY <1>5, <1>6, <1>7 DEF Config
<1>9. filled(f) = f
  <2> HIDE DEF f
  <2> QED
    BY <1>5, <1>8 DEF filled, Config
<1> QED
  BY <1>4, <1>5, <1>6, <1>9 DEF Usable

-----------------------------------------------------------------------------
(* Where main is and what it has decided: an outcome names the end, the    *)
(* configuration was accepted unless that is the outcome, nothing is open  *)
(* outside serve.                                                          *)
MainInv ==
  /\ cfg \in Config
  /\ outcome = "running" <=> hpc \notin {"return", "exited"}
  /\ hpc \in {"config", "exited"} => open = {}
  /\ hpc # "config" /\ outcome # "config" => Usable(cfg)
  /\ outcome = "config" => hpc = "exited"
  /\ outcome \notin {"mode", "idle"}
  /\ \A c \in Peers : quicConn[c] # "refused"

(* The error of the website is with its goroutine or in the channel while  *)
(* main accepts, and before that there is no goroutine at all.             *)
ErrorInv ==
  /\ hpc \in {"config"} \cup StageNames => website = "off"
  /\ website \in {"off", "serving", "failed"} => websiteErr = 0
  /\ hpc = "accept" /\ website = "serving" => "websrv" \in open
  /\ hpc = "accept" /\ website \in {"sent", "gone"} => websiteErr = 1

(* Without a signal only that goroutine cancels the context while serve    *)
(* runs, and success needs a signal or the check of a configuration.       *)
ContextInv ==
  /\ hpc \in {"config"} \cup StageNames /\ ctxDone => signalled
  /\ hpc = "accept" /\ ctxDone => signalled \/ website = "gone"
  /\ outcome = "ok" => signalled \/ cfg.check

ServeIInv == ServeTypeOK /\ MainInv /\ ErrorInv /\ ContextInv /\ NoFalseTunnel

(* The invariant holds when the process starts.                            *)
LEMMA ServeStarts == ServeInit => ServeIInv
<1> SUFFICES ASSUME ServeInit PROVE ServeIInv
  OBVIOUS
<1>1. ServeTypeOK
  <2>1. {signalled, ctxDone} \subseteq BOOLEAN
    BY DEF ServeInit
  <2>2. quicConn \in [Peers -> {"none", "pending", "serving", "refused", "gone"}]
    BY DEF ServeInit
  <2> QED
    BY <2>1, <2>2 DEF ServeInit, ServeTypeOK
<1>2. MainInv
  BY ConfigsTyped DEF ServeInit, MainInv
<1>3. ErrorInv /\ ContextInv /\ NoFalseTunnel
  BY DEF ServeInit, ErrorInv, ContextInv, NoFalseTunnel, NoRequest, StageNames
<1> QED
  BY <1>1, <1>2, <1>3 DEF ServeIInv

(* One case per stage of run and per event of the serve loop.              *)
LEMMA ServeSteps == ServeIInv /\ [ServeNext]_serveVars => ServeIInv'
<1> SUFFICES ASSUME ServeIInv, [ServeNext]_serveVars PROVE ServeIInv'
  OBVIOUS
<1> USE DEF ServeIInv
<1>1. CASE LoadConfig
  <2> USE <1>1 DEF LoadConfig
  <2>1. ServeTypeOK'
    <3>1. hpc' \in {"exited", "mode"}
      OBVIOUS
    <3> QED
      BY <3>1, StageFacts DEF ServeTypeOK, StageNames
  <2>2. MainInv'
    <3>1. CASE valid(cfg)
      BY <3>1, FilledUsable DEF MainInv
    <3>2. CASE ~valid(cfg)
      BY <3>2 DEF MainInv
    <3> QED
      BY <3>1, <3>2
  <2>3. ErrorInv' /\ NoFalseTunnel'
    BY DEF ErrorInv, NoFalseTunnel, StageNames
  <2>4. ContextInv'
    <3>1. outcome' = "ok" => cfg.check /\ valid(cfg)
      BY DEF MainInv
    <3>2. outcome' = "ok" => cfg'.check
      BY <3>1, FilledUsable DEF MainInv
    <3>3. hpc' \in {"exited", "mode"}
      OBVIOUS
    <3> QED
      BY <3>2, <3>3 DEF ContextInv, StageNames
  <2> QED
    BY <2>1, <2>2, <2>3, <2>4
<1>2. CASE Unwind
  BY <1>2, ZenonT(60) DEF Unwind, Without, ServeTypeOK, MainInv, ErrorInv,
              ContextInv, NoFalseTunnel, StageNames
<1>3. CASE AcceptFails
  BY <1>3 DEF AcceptFails, Return, ServeTypeOK, MainInv, ErrorInv,
              ContextInv, NoFalseTunnel, StageNames
<1>4. CASE WebsiteFails
  BY <1>4 DEF WebsiteFails, ServeTypeOK, MainInv, ErrorInv,
              ContextInv, NoFalseTunnel, StageNames
<1>5. CASE WebsiteClosed
  BY <1>5 DEF WebsiteClosed, ServeTypeOK, MainInv, ErrorInv,
              ContextInv, NoFalseTunnel, StageNames
<1>6. CASE WebsiteReports
  <2>1. CASE website = "failed"
    BY <1>6, <2>1 DEF WebsiteReports, ServeTypeOK, MainInv, ErrorInv,
                      ContextInv, NoFalseTunnel, StageNames
  <2>2. CASE website = "sent"
    <3>1. ServeTypeOK'
      BY <1>6, <2>2 DEF WebsiteReports, ServeTypeOK
    <3> QED
      BY <1>6, <2>2, <3>1 DEF WebsiteReports, MainInv, ErrorInv, ContextInv, NoFalseTunnel,
                              StageNames
  <2> QED
    BY <1>6, <2>1, <2>2 DEF WebsiteReports
<1>7. CASE Signal
  BY <1>7 DEF Signal, ServeTypeOK, MainInv, ErrorInv,
              ContextInv, NoFalseTunnel, StageNames
<1>8. CASE Watch
  BY <1>8 DEF Watch, Without, ServeTypeOK, MainInv, ErrorInv,
              ContextInv, NoFalseTunnel, StageNames
<1>9. ASSUME NEW i \in DOMAIN Stages, StageDone(i) PROVE ServeIInv'
  <2> USE <1>9 DEF StageDone
  <2>1. hpc \in StageNames /\ (hpc = "tcp" <=> i = 8)
    BY StageFacts
  <2>2. hpc' \in {"accept"} \cup StageNames /\ (hpc' = "accept" <=> hpc = "tcp")
    BY <2>1, StageFacts DEF StageNames
  <2>3. Opens(hpc) \subseteq CloserNames
    BY <2>1 DEF Opens, CloserNames, StageNames
  <2>4. ServeTypeOK'
    BY <2>2, <2>3, StageFacts, CloserFacts DEF ServeTypeOK
  <2>5. MainInv'
    BY <2>1, <2>2 DEF MainInv, StageNames
  <2>6. ErrorInv'
    <3>1. hpc = "tcp" /\ HasWebsite => "websrv" \in open'
      BY DEF Opens
    <3> QED
      BY <2>1, <2>2, <3>1 DEF ErrorInv, StageNames
  <2>7. ContextInv' /\ NoFalseTunnel'
    BY <2>1, <2>2 DEF ContextInv, NoFalseTunnel, StageNames
  <2> QED
    BY <2>4, <2>5, <2>6, <2>7
<1>10. ASSUME NEW i \in DOMAIN Stages, StageFails(i) PROVE ServeIInv'
  <2> USE <1>10 DEF StageFails, Return
  <2>1. hpc \in StageNames
    BY StageFacts
  <2>2. Usable(cfg)
    BY <2>1 DEF MainInv, StageNames
  <2>3. hpc \notin {"mode", "idle"}
    BY <2>2 DEF CanFail, Usable, valid, Texts
  <2>4. MainInv'
    BY <2>1, <2>2, <2>3 DEF MainInv, StageNames
  <2> QED
    BY <2>1, <2>4 DEF ServeTypeOK, ErrorInv, ContextInv, NoFalseTunnel, StageNames
<1>11. ASSUME NEW c \in Peers, Handshake(c) PROVE ServeIInv'
  BY <1>11 DEF Handshake, ServeTypeOK, MainInv, ErrorInv,
               ContextInv, NoFalseTunnel, StageNames
<1>12. ASSUME NEW c \in Peers, AcceptConn(c) PROVE ServeIInv'
  BY <1>12, ZenonT(60) DEF AcceptConn, Usable, valid, Texts, ServeTypeOK, MainInv, ErrorInv,
               ContextInv, NoFalseTunnel, StageNames
<1>13. ASSUME NEW c \in Peers, Request(c) PROVE ServeIInv'
  BY <1>13 DEF Request, Answered, ServeTypeOK, MainInv, ErrorInv,
               ContextInv, NoFalseTunnel, StageNames
<1>14. ASSUME NEW c \in Peers, ConnEnds(c) PROVE ServeIInv'
  BY <1>14 DEF ConnEnds, ServeTypeOK, MainInv, ErrorInv,
               ContextInv, NoFalseTunnel, StageNames
<1>15. CASE UNCHANGED serveVars
  BY <1>15 DEF serveVars, ServeTypeOK, MainInv, ErrorInv, ContextInv, NoFalseTunnel
<1> QED
  BY <1>1, <1>2, <1>3, <1>4, <1>5, <1>6, <1>7, <1>8, <1>9, <1>10, <1>11, <1>12, <1>13, <1>14,
     <1>15 DEF ServeNext, Website

(* For every set of clients and of configuration files serve stays in the  *)
(* invariant of its stages, its error channel and its context.             *)
THEOREM ServeInvariance == ServeSpec => []ServeIInv
  BY ServeStarts, ServeSteps, PTL DEF ServeSpec

(* serve leaves nothing open, uses no configuration that it would refuse,  *)
(* ends with status zero only after a signal, and answers no CONNECT as if *)
(* it were a tunnel (serve and originHandler of h3frontend).               *)
THEOREM ServeCorrect == ServeSpec => []ServeInv
<1>1. ServeIInv => ServeInv
  <2> SUFFICES ASSUME ServeIInv PROVE ServeInv
    OBVIOUS
  <2>1. NothingLeftOpen
    BY DEF ServeIInv, MainInv, NothingLeftOpen
  <2>2. ConfigTrusted
    BY DEF ServeIInv, MainInv, ConfigTrusted, Usable
  <2>3. FailureReported
    BY DEF ServeIInv, MainInv, ContextInv, FailureReported, ExitCode
  <2> QED
    BY <2>1, <2>2, <2>3 DEF ServeIInv, ServeInv
<1> QED
  BY <1>1, ServeInvariance, PTL

-----------------------------------------------------------------------------
(* The TCP frontend.  Trimming what was trimmed changes nothing, so that a *)
(* server name that is accepted is accepted again.                         *)
LEMMA TrimTwice ==
  ASSUME NEW t \in Blanks \cup {"bad"}
  PROVE  Trim(Trim(t)) = Trim(t) /\ Trim(t) \in Blanks \cup {"bad"}
         /\ (t \in Blanks => Trim(t) \in Blanks)
  BY DEF Trim, Blanks

(* What applyDefaultsAndValidate accepts and fills in.                     *)
FrontUsable(c) ==
  /\ frontValid(c) /\ frontFilled(c) = c /\ c.mode \in {"reality", "tls"}
  /\ \A l \in Limits : c.limit[l] \in Nat \ {0}

(* A sequence is empty if and only if it has no first element.             *)
LEMMA FirstElement ==
  ASSUME NEW S, NEW s \in Seq(S)
  PROVE  s # <<>> <=> 1 \in DOMAIN s
  OBVIOUS

(* The names of a filled REALITY section.                                  *)
LEMMA NamesTrimmed ==
  ASSUME NEW s \in Seq(Blanks), s # <<>>, \A n \in Range(s) : Trim(n) # ""
  PROVE  LET t == [i \in DOMAIN s |-> Trim(s[i])]
         IN  /\ t \in Seq(Blanks) /\ t # <<>> /\ \A n \in Range(t) : Trim(n) # ""
             /\ [i \in DOMAIN t |-> Trim(t[i])] = t
<1> DEFINE t == [i \in DOMAIN s |-> Trim(s[i])]
<1>0. DOMAIN s = 1..Len(s) /\ Len(s) \in Nat
  BY LenProperties
<1>1. DOMAIN s = 1..Len(s) /\ Len(s) \in Nat /\ \A i \in DOMAIN s : s[i] \in Blanks
  BY <1>0, ElementOfSeq
<1>2. \A i \in DOMAIN s : Trim(s[i]) \in Blanks /\ Trim(Trim(s[i])) = Trim(s[i])
  BY <1>1, TrimTwice
<1>3. t \in Seq(Blanks) /\ DOMAIN t = DOMAIN s
  <2> HIDE DEF Blanks
  <2>1. t \in [1..Len(s) -> Blanks] /\ DOMAIN t = DOMAIN s
    BY <1>1, <1>2
  <2> QED
    BY <2>1, <1>0, SeqDef
<1>4. t # <<>>
  BY <1>3, FirstElement, Zenon
<1>5. \A n \in Range(t) : Trim(n) # ""
  <2> SUFFICES ASSUME NEW i \in DOMAIN s PROVE Trim(t[i]) # ""
    BY <1>3 DEF Range
  <2>1. t[i] = Trim(s[i]) /\ s[i] \in Range(s)
    BY DEF Range
  <2> QED
    BY <2>1, <1>2
<1>6. [i \in DOMAIN t |-> Trim(t[i])] = t
  BY <1>2, <1>3
<1> QED
  BY <1>3, <1>4, <1>5, <1>6

(* The section as a whole.                                                 *)
RealityFilled(r) ==
  [r EXCEPT !.names = [i \in DOMAIN @ |-> Trim(@[i])],
            !.target = IF @ = "" THEN "good" ELSE @]

(* An accepted REALITY section stays valid, and filling it twice is        *)
(* filling it once.                                                        *)
LEMMA RealityUsable ==
  ASSUME NEW r \in RealityConfig, realityValid(r)
  PROVE  LET f == RealityFilled(r)
         IN  f \in RealityConfig /\ realityValid(f) /\ RealityFilled(f) = f
<1> DEFINE f == RealityFilled(r)
           ns == [i \in DOMAIN r.names |-> Trim(r.names[i])]
           tg == IF r.target = "" THEN "good" ELSE r.target
<1>1. r.names \in Seq(Blanks) /\ r.target \in {"", "good", "bad"}
  BY DEF RealityConfig
<1>2. /\ ns \in Seq(Blanks) /\ ns # <<>> /\ \A n \in Range(ns) : Trim(n) # ""
      /\ [i \in DOMAIN ns |-> Trim(ns[i])] = ns
  BY <1>1, NamesTrimmed DEF realityValid
<1>3. tg \in {"good", "bad"} /\ (r.target # "bad" => tg # "bad")
  BY <1>1
<1>4. f = [r EXCEPT !.names = ns, !.target = tg]
  BY DEF RealityFilled
<1> HIDE DEF f, ns, tg
<1>5. /\ f \in RealityConfig /\ f.names = ns /\ f.target = tg
      /\ f.key = r.key /\ f.ids = r.ids /\ f.maxTimeDiff = r.maxTimeDiff
  BY <1>2, <1>3, <1>4 DEF RealityConfig
<1>6. realityValid(f)
  BY <1>2, <1>3, <1>5 DEF realityValid
<1>7. RealityFilled(f) = [f EXCEPT !.names = f.names, !.target = f.target]
  BY <1>2, <1>3, <1>5 DEF RealityFilled
<1>8. RealityFilled(f) = f
  BY <1>5, <1>7 DEF RealityConfig
<1> QED
  BY <1>5, <1>6, <1>8 DEF f

(* An accepted configuration of the TCP frontend is usable once it is      *)
(* filled.                                                                 *)
LEMMA FrontFilledUsable ==
  ASSUME NEW c \in FrontConfig, frontValid(c)
  PROVE  frontFilled(c) \in FrontConfig /\ FrontUsable(frontFilled(c))
         /\ frontFilled(c).status = c.status
<1> DEFINE f == frontFilled(c)
           X == {"log_level", "listen", "upstream"}
           tx == [t \in DOMAIN c.text |-> IF c.text[t] = "" THEN "good" ELSE c.text[t]]
           li == [l \in Limits |-> IF c.limit[l] = 0 THEN LimitDefault[l] ELSE c.limit[l]]
           md == IF c.mode = "" THEN "reality" ELSE c.mode
           re == IF c.mode = "tls" THEN c.reality ELSE RealityFilled(c.reality)
<1>1. c.text \in [X -> {"", "good", "bad"}] /\ c.limit \in [Limits -> Int]
      /\ c.reality \in RealityConfig /\ c.mode \in {"", "reality", "tls", "other"}
  BY DEF FrontConfig
<1>2. f = [c EXCEPT !.mode = md, !.text = tx, !.limit = li, !.reality = re]
  BY DEF frontFilled, RealityFilled
<1>3. tx \in [X -> {"good", "bad"}] /\ \A t \in X : tx[t] # "bad"
  BY <1>1 DEF frontValid
<1>4. \A l \in Limits : LimitDefault[l] \in Nat \ {0}
  BY DEF Limits, LimitDefault
<1>5. li \in [Limits -> Int] /\ \A l \in Limits : li[l] \in Nat \ {0}
  <2>1. \A l \in Limits : c.limit[l] \in Int /\ c.limit[l] >= 0
    BY <1>1 DEF frontValid
  <2>2. \A l \in Limits : li[l] \in Nat \ {0}
    BY <2>1, <1>4
  <2> QED
    BY <2>2
<1>6. md \in {"reality", "tls"} /\ (md = "tls" <=> c.mode = "tls")
  BY <1>1 DEF frontValid
<1>7. /\ re \in RealityConfig
      /\ md # "tls" => realityValid(re) /\ RealityFilled(re) = re
  BY <1>1, <1>6, RealityUsable DEF frontValid
<1> HIDE DEF f, tx, li, md, re
<1>8. /\ f.mode = md /\ f.text = tx /\ f.limit = li /\ f.reality = re /\ f.status = c.status
      /\ f \in FrontConfig
  BY <1>2, <1>3, <1>5, <1>6, <1>7, ZenonT(60) DEF FrontConfig
<1>9. f.cert = c.cert /\ f.parses = c.parses
  BY <1>2 DEF FrontConfig
<1>10. frontValid(f)
  <2>1. statusValid(f.status)
    BY <1>8 DEF frontValid
  <2>2. \A t \in DOMAIN f.text : f.text[t] # "bad"
    BY <1>3, <1>8
  <2>3. \A l \in Limits : f.limit[l] >= 0
    BY <1>5, <1>8
  <2>4. f.parses /\ (f.mode = "tls" => f.cert)
    BY <1>6, <1>8, <1>9 DEF frontValid
  <2> QED
    BY <1>6, <1>7, <1>8, <2>1, <2>2, <2>3, <2>4 DEF frontValid
<1>11. frontFilled(f) = f
  <2>1. DOMAIN f.text = X /\ \A t \in X : f.text[t] # ""
    BY <1>3, <1>8
  <2>2. [t \in DOMAIN f.text |-> IF f.text[t] = "" THEN "good" ELSE f.text[t]] = f.text
    BY <1>3, <1>8, <2>1
  <2>3. [l \in Limits |-> IF f.limit[l] = 0 THEN LimitDefault[l] ELSE f.limit[l]] = f.limit
    BY <1>5, <1>8
  <2>4. (IF f.mode = "" THEN "reality" ELSE f.mode) = f.mode
    BY <1>6, <1>8
  <2>5. (IF f.mode = "tls" THEN f.reality ELSE RealityFilled(f.reality)) = f.reality
    BY <1>7, <1>8
  <2>6. frontFilled(f) = [f EXCEPT !.mode = f.mode, !.text = f.text, !.limit = f.limit,
                                   !.reality = f.reality]
    BY <2>2, <2>3, <2>4, <2>5 DEF frontFilled, RealityFilled
  <2> QED
    BY <2>6, <1>8 DEF FrontConfig
<1> QED
  BY <1>5, <1>6, <1>8, <1>10, <1>11 DEF FrontUsable, f

-----------------------------------------------------------------------------
(* The configuration is the file's until it is validated and usable from   *)
(* then on; the status endpoint runs only where one is configured, so that *)
(* its token is one that the validation looked at.                         *)
FrontIInv ==
  /\ front \in FrontConfig
  /\ frontPc \in {"config", "setup", "listen", "serve", "exited"}
  /\ frontEnd = "running" <=> frontPc # "exited"
  /\ frontPc # "config" /\ frontEnd # "config" => FrontUsable(front)
  /\ frontEnd = "setup" => front.mode = "tls"
  /\ frontPc \in {"config", "setup"} \/ frontEnd = "config" => statusSrv = "off"
  /\ statusSrv \in {"starting", "serving"} => front.status.http # ""
  /\ StatusGuarded

(* The invariant holds before the file is read.                            *)
LEMMA FrontStarts == FrontInit => FrontIInv
  BY FrontConfigsTyped DEF FrontInit, FrontIInv, StatusGuarded

(* One case per step of main.                                              *)
LEMMA FrontSteps == FrontIInv /\ [FrontNext]_frontVars => FrontIInv'
<1> SUFFICES ASSUME FrontIInv, [FrontNext]_frontVars PROVE FrontIInv'
  OBVIOUS
<1>1. CASE LoadFrontConfig
  <2>1. CASE frontValid(front)
    BY <1>1, <2>1, FrontFilledUsable DEF LoadFrontConfig, FrontIInv, StatusGuarded
  <2>2. CASE ~frontValid(front)
    BY <1>1, <2>2 DEF LoadFrontConfig, Exit, FrontIInv, StatusGuarded
  <2> QED
    BY <2>1, <2>2
<1>2. CASE SetupDone
  BY <1>2 DEF SetupDone, FrontIInv, StatusGuarded
<1>3. CASE SetupFails
  <2>1. FrontUsable(front)
    BY <1>3 DEF SetupFails, FrontIInv
  <2>2. front.mode = "tls"
    BY <1>3, <2>1 DEF SetupFails, FrontUsable, frontValid, realityValid
  <2> QED
    BY <1>3, <2>1, <2>2 DEF SetupFails, Exit, FrontIInv, StatusGuarded
<1>4. CASE FrontListen
  BY <1>4 DEF FrontListen, Exit, FrontIInv, StatusGuarded
<1>5. CASE FrontSignal
  BY <1>5 DEF FrontSignal, FrontIInv, StatusGuarded
<1>6. CASE ServeReturns
  BY <1>6 DEF ServeReturns, Exit, FrontIInv, StatusGuarded
<1>7. CASE StartStatus
  BY <1>7 DEF StartStatus, FrontIInv, StatusGuarded
<1>8. CASE StatusRequest
  <2>1. FrontUsable(front) /\ front.status.http # "" /\ front.status.token \in Blanks
    BY <1>8 DEF StatusRequest, FrontIInv, FrontConfig
  <2>2. front.status.token \in {"good", "padded"}
    BY <2>1 DEF FrontUsable, frontValid, statusValid, Trim, Blanks
  <2>3. StatusGuarded'
    <3>1. PICK auth \in {"none", "basic", "bad", "good", "padded"} :
            shown' = [auth |-> auth,
                      code |-> IF Provided(auth) = front.status.token THEN 200 ELSE 403]
      BY <1>8 DEF StatusRequest
    <3>2. auth \in {"none", "basic", "bad"} => Provided(auth) \in {"", "bad"}
      BY DEF Provided
    <3>3. shown'.code = 200 => Provided(auth) = front.status.token
      <4> DEFINE n == IF Provided(auth) = front.status.token THEN 200 ELSE 403
      <4>1. n \in Int /\ (n = 200 => Provided(auth) = front.status.token)
        OBVIOUS
      <4> HIDE DEF n
      <4>2. shown'.code = n
        BY <3>1 DEF n
      <4> QED
        BY <4>1, <4>2
    <3>4. shown'.auth = auth
      BY <3>1
    <3> QED
      BY <2>2, <3>2, <3>3, <3>4 DEF StatusGuarded
  <2> QED
    BY <1>8, <2>3 DEF StatusRequest, FrontIInv
<1>9. CASE UNCHANGED frontVars
  BY <1>9, ZenonT(60) DEF frontVars, FrontIInv, StatusGuarded
<1> QED
  BY <1>1, <1>2, <1>3, <1>4, <1>5, <1>6, <1>7, <1>8, <1>9 DEF FrontNext

(* What applyDefaultsAndValidate accepts is what NewTunnelServer can use,  *)
(* validating it again changes nothing, its limits are those TunnelServer  *)
(* assumes, and no request sees the counters without the token.            *)
THEOREM FrontCorrect == FrontSpec => []FrontInv
<1>1. FrontIInv => FrontInv
  BY DEF FrontIInv, FrontInv, FrontTrusted, FrontUsable
<1> QED
  BY <1>1, FrontStarts, FrontSteps, PTL DEF FrontSpec

-----------------------------------------------------------------------------
(* EntryManager                                                            *)

(* A socket is bound exactly while Manager.listeners holds it, which is    *)
(* what Stop goes by; before Start there is none.                          *)
ListenersExact ==
  /\ \A e \in Entries : socket[e] = "bound" <=> e \in listeners
  /\ started = "no" => listeners = {}
  /\ closed => listeners = {}

(* Between Accept and the critical section a loop holds a connection.      *)
AcceptedHeld == \A e \in Entries : loop[e] = "accepted" => accepted[e] \in Conns

(* The inductive invariant of the entry.                                   *)
EntryIInv == EntryInv /\ StopReleases /\ ListenersExact /\ AcceptedHeld

(* The first state of the entry satisfies it.                              *)
LEMMA EntryInitial == EntryInit => EntryIInv
  <1> SUFFICES ASSUME EntryInit PROVE EntryIInv
    OBVIOUS
  <1>1. EntryTypeOK
    <2>1. closed \in BOOLEAN
      BY DEF EntryInit
    <2>2. QED
      BY <2>1 DEF EntryInit, EntryTypeOK
  <1>2. QED
    BY <1>1 DEF EntryInit, EntryIInv, EntryInv, ConnsExact, StopReleases, NothingServedAfterStop,
       PortsFree, ListenersExact, AcceptedHeld

(* Every step of Start, Stop, the accept loops and the handlers keeps it.  *)
LEMMA EntryStep == EntryIInv /\ [EntryNext]_entryVars => EntryIInv'
  <1> SUFFICES ASSUME EntryIInv, [EntryNext]_entryVars PROVE EntryIInv'
    OBVIOUS
  <1>1. CASE Start
    BY <1>1 DEF Start, StartFailed, EntryIInv, EntryInv, EntryTypeOK, ConnsExact, StopReleases,
       NothingServedAfterStop, PortsFree, ListenersExact, AcceptedHeld
  <1>2. CASE Stop
    BY <1>2 DEF Stop, EntryIInv, EntryInv, EntryTypeOK, ConnsExact, StopReleases,
       NothingServedAfterStop, PortsFree, ListenersExact, AcceptedHeld
  <1>3. ASSUME NEW e \in Entries, Accept(e)
        PROVE  EntryIInv'
    BY <1>3 DEF Accept, listenVars, EntryIInv, EntryInv, EntryTypeOK, ConnsExact, StopReleases,
       NothingServedAfterStop, PortsFree, ListenersExact, AcceptedHeld
  <1>4. ASSUME NEW e \in Entries, AcceptError(e)
        PROVE  EntryIInv'
    BY <1>4 DEF AcceptError, listenVars, EntryIInv, EntryInv, EntryTypeOK, ConnsExact, StopReleases,
       NothingServedAfterStop, PortsFree, ListenersExact, AcceptedHeld
  <1>5. ASSUME NEW e \in Entries, AddConn(e)
        PROVE  EntryIInv'
    BY <1>5 DEF AddConn, listenVars, EntryIInv, EntryInv, EntryTypeOK, ConnsExact, StopReleases,
       NothingServedAfterStop, PortsFree, ListenersExact, AcceptedHeld
  <1>6. ASSUME NEW e \in Entries, NEW c \in Conns, Connect(c, e)
        PROVE  EntryIInv'
    BY <1>6 DEF Connect, listenVars, EntryIInv, EntryInv, EntryTypeOK, ConnsExact, StopReleases,
       NothingServedAfterStop, PortsFree, ListenersExact, AcceptedHeld
  <1>7. ASSUME NEW c \in Conns, HandlerReturns(c)
        PROVE  EntryIInv'
    BY <1>7 DEF HandlerReturns, listenVars, EntryIInv, EntryInv, EntryTypeOK, ConnsExact, StopReleases,
       NothingServedAfterStop, PortsFree, ListenersExact, AcceptedHeld
  <1>8. ASSUME NEW c \in Conns, Delete(c)
        PROVE  EntryIInv'
    BY <1>8 DEF Delete, listenVars, EntryIInv, EntryInv, EntryTypeOK, ConnsExact, StopReleases,
       NothingServedAfterStop, PortsFree, ListenersExact, AcceptedHeld
  <1>9. CASE UNCHANGED entryVars
    BY <1>9 DEF entryVars, EntryIInv, EntryInv, EntryTypeOK, ConnsExact, StopReleases,
       NothingServedAfterStop, PortsFree, ListenersExact, AcceptedHeld
  <1>10. QED
    BY <1>1, <1>2, <1>3, <1>4, <1>5, <1>6, <1>7, <1>8, <1>9 DEF EntryNext, AcceptLoop

(* The inductive invariant of the entry holds.                             *)
THEOREM EntryInvariance == EntrySpec => []EntryIInv
  BY EntryInitial, EntryStep, PTL DEF EntrySpec

(* After Stop, or a Start that failed, no open connection is served and no *)
(* port is held, also for a connection between Accept and the critical     *)
(* section of the loop (StopReleases).                                     *)
THEOREM EntryReleases == EntrySpec => []StopReleases
  <1>1. EntryIInv => StopReleases
    BY DEF EntryIInv
  <1>2. QED
    BY <1>1, EntryInvariance, PTL

(* Until Stop, Manager.conns holds exactly the connections with a handler. *)
THEOREM EntryTableExact == EntrySpec => []EntryInv
  <1>1. EntryIInv => EntryInv
    BY DEF EntryIInv
  <1>2. QED
    BY <1>1, EntryInvariance, PTL

-----------------------------------------------------------------------------
(* ProfileStore                                                            *)

(* The fields of a profile.                                                *)
LEMMA ProfileFields ==
  ASSUME NEW n \in Words, NEW s \in Words, NEW po \in Nat, NEW r \in BOOLEAN, NEW f \in Words,
         NEW lo \in Local, r \/ f = ""
  PROVE  [name |-> n, server |-> s, port |-> po, reality |-> r, fingerprint |-> f,
          local |-> lo] \in Profile
  BY DEF Profile

(* Defaults of the local settings: nothing is left to fill in, and a new   *)
(* profile has nothing to fill in.                                         *)
LEMMA LocalFilled ==
  /\ \A x \in Local : localDefaults(x) \in Local /\ localDefaults(localDefaults(x)) = localDefaults(x)
  /\ NewLocal \in Local /\ localDefaults(NewLocal) = NewLocal
<1>1. "socks" \in Words /\ "http" \in Words
  BY StoreTexts
<1>2. NewLocal \in Local /\ localDefaults(NewLocal) = NewLocal
  BY <1>1 DEF NewLocal, Local, localDefaults
<1>3. ASSUME NEW x \in Local
      PROVE  localDefaults(x) \in Local /\ localDefaults(localDefaults(x)) = localDefaults(x)
  BY <1>1 DEF Local, localDefaults
<1> QED
  BY <1>2, <1>3

(* Defaults: a profile stays one and nothing is left to fill in.           *)
LEMMA DefaultsFilled ==
  ASSUME NEW p \in Profile
  PROVE  /\ withDefaults(p) \in Profile /\ withDefaults(withDefaults(p)) = withDefaults(p)
<1> DEFINE po == IF p.port = 0 THEN 443 ELSE p.port
           f == IF p.reality /\ p.fingerprint = "" THEN "chrome" ELSE p.fingerprint
           lo == localDefaults(p.local)
           d == withDefaults(p)
<1>1. /\ p.name \in Words /\ p.server \in Words /\ p.port \in Nat /\ p.fingerprint \in Words
      /\ p.reality \in BOOLEAN
      /\ p.reality \/ p.fingerprint = ""
  BY DEF Profile
<1>2. po \in Nat \ {0} /\ f \in Words /\ (p.reality => f # "") /\ (~p.reality => f = "")
  <2>1. po \in Nat \ {0}
    <3>1. p.port \in Nat
      BY DEF Profile
    <3> QED
      BY <3>1
  <2>2. p.fingerprint \in Words /\ (p.reality \/ p.fingerprint = "")
    BY <1>1
  <2>3. f \in Words
    BY <2>2, StoreTexts
  <2>4. (p.reality => f # "") /\ (~p.reality => f = "")
    BY <2>2
  <2> QED
    BY <2>1, <2>3, <2>4
<1>l. lo \in Local /\ localDefaults(lo) = lo
  <2>1. p.local \in Local
    BY DEF Profile
  <2> QED
    BY <2>1, LocalFilled
<1>3. d = [p EXCEPT !.port = po, !.local = lo, !.fingerprint = f]
  BY DEF withDefaults
<1> HIDE DEF po, f, lo, d
<1>4. d = [name |-> p.name, server |-> p.server, port |-> po, reality |-> p.reality,
           fingerprint |-> f, local |-> lo]
  BY <1>3 DEF Profile
<1>5. d \in Profile
  <2>1. p.reality \/ f = ""
    BY <1>2
  <2> QED
    BY <1>1, <1>2, <1>4, <1>l, <2>1, ProfileFields, Zenon
<1>6. withDefaults(d) = d
  <2>1. d.port = po /\ d.fingerprint = f /\ localDefaults(d.local) = d.local /\ d.reality = p.reality
    BY <1>4, <1>l
  <2>2. (IF d.port = 0 THEN 443 ELSE d.port) = d.port
    BY <2>1, <1>2
  <2>3. (IF d.reality /\ d.fingerprint = "" THEN "chrome" ELSE d.fingerprint) = d.fingerprint
    BY <2>1, <1>2
  <2>4. withDefaults(d) = [d EXCEPT !.port = d.port, !.local = d.local,
                                    !.fingerprint = d.fingerprint]
    BY <2>1, <2>2, <2>3, Zenon DEF withDefaults
  <2> QED
    BY <2>4, <1>4
<1> QED
  BY <1>5, <1>6, Zenon DEF d

(* A link that Parse accepts yields a profile with all defaults.           *)
LEMMA ParsedProfile ==
  ASSUME NEW l \in ShareLink, ParseOk(l)
  PROVE  Parse(l) \in Profile /\ withDefaults(Parse(l)) = Parse(l)
<1> DEFINE n == IF l.name = "" THEN l.host ELSE l.name
           po == IF l.port = 0 THEN 443 ELSE l.port
           r == l.scheme = "naivereal"
           f == IF l.scheme # "naivereal" THEN "" ELSE IF l.fp = "" THEN "chrome" ELSE l.fp
           d == Parse(l)
<1>0. /\ l.name \in Words /\ l.host \in Words /\ l.fp \in Words /\ l.port \in Nat
  BY DEF ShareLink
<1>1. n \in Words /\ l.host \in Words /\ f \in Words
  <2>1. "" \in Words /\ "chrome" \in Words
    BY StoreTexts
  <2> QED
    BY <1>0, <2>1, Zenon
<1>2. po \in Nat \ {0}
  BY <1>0
<1>r. r \in BOOLEAN /\ (r => f # "") /\ (~r => f = "")
  BY Zenon
<1>3. d = [name |-> n, server |-> l.host, port |-> po, reality |-> r, fingerprint |-> f,
           local |-> NewLocal]
  BY DEF Parse
<1> HIDE DEF n, po, r, f, d
<1>4. d \in Profile
  <2>1. po \in Nat /\ NewLocal \in Local
    BY <1>2, LocalFilled
  <2>2. r \/ f = ""
    BY <1>r
  <2> QED
    BY <1>1, <1>r, <1>3, <2>1, <2>2, ProfileFields, Zenon
<1>5. withDefaults(d) = d
  <2>1. d.port = po /\ d.fingerprint = f /\ localDefaults(d.local) = d.local /\ d.reality = r
    BY <1>3, LocalFilled
  <2>2. (IF d.port = 0 THEN 443 ELSE d.port) = d.port
    BY <2>1, <1>2
  <2>3. (IF d.reality /\ d.fingerprint = "" THEN "chrome" ELSE d.fingerprint) = d.fingerprint
    BY <2>1, <1>r
  <2>4. withDefaults(d) = [d EXCEPT !.port = d.port, !.local = d.local,
                                    !.fingerprint = d.fingerprint]
    BY <2>1, <2>2, <2>3, Zenon DEF withDefaults
  <2> QED
    BY <2>4, <1>3
<1> QED
  BY <1>4, <1>5 DEF d

(* Port 0, the one a link without a port has, is accepted.                 *)
LEMMA PortZero == 0 \in ValidPorts
<1>1. MaxPort \in Nat
  BY DEF MaxPort
<1> QED
  BY <1>1 DEF ValidPorts

(* Parse undoes Build, up to the defaults and the local settings.          *)
LEMMA BuildThenParse ==
  ASSUME NEW p \in Profile, BuildOk(p)
  PROVE  /\ ParseOk(Build(p)) /\ Build(p) # NoLink
         /\ Parse(Build(p)) = [withDefaults(p) EXCEPT !.local = NewLocal,
                                 !.name = IF @ = "" THEN p.server ELSE @]
<1> DEFINE l == Build(p)
           d == withDefaults(p)
           po == IF p.port \in {0, 443} THEN 0 ELSE p.port
           f == IF p.fingerprint = "chrome" THEN "" ELSE p.fingerprint
           sc == IF p.reality THEN "naivereal" ELSE "naive+https"
<1>0. l = [scheme |-> sc, host |-> p.server, port |-> po, name |-> p.name, keys |-> p.reality,
           fp |-> f]
  BY DEF Build
<1>s. sc \in {"naivereal", "naive+https"} /\ (sc = "naivereal" <=> p.reality)
  OBVIOUS
<1>p. p.port \in ValidPorts
  BY DEF BuildOk
<1>q. po \in ValidPorts
  BY <1>p, PortZero
<1>w. p.server # ""
  BY Zenon DEF BuildOk
<1> HIDE DEF l, po, f, sc
<1>1. /\ l.scheme = sc /\ l.host = p.server /\ l.port = po /\ l.name = p.name /\ l.fp = f
  BY <1>0
<1>2. l.keys = p.reality
  BY <1>0
<1>4. l.scheme = "naivereal" <=> p.reality
  BY <1>1, <1>s
<1>5. ParseOk(l) /\ l # NoLink
  <2>1. l.scheme # "none"
    BY <1>1, <1>s
  <2>2. l # NoLink
    BY <2>1 DEF NoLink
  <2>3. l.host # "" /\ l.port \in ValidPorts
    BY <1>1, <1>q, <1>w, Zenon
  <2> QED
    BY <1>2, <1>4, <2>2, <2>3, Zenon DEF ParseOk
<1>6. d = [name |-> p.name, server |-> p.server,
           port |-> IF p.port = 0 THEN 443 ELSE p.port, reality |-> p.reality,
           fingerprint |-> IF p.reality /\ p.fingerprint = "" THEN "chrome" ELSE p.fingerprint,
           local |-> localDefaults(p.local)]
  <2> DEFINE g == IF p.reality /\ p.fingerprint = "" THEN "chrome" ELSE p.fingerprint
             q == IF p.port = 0 THEN 443 ELSE p.port
             lo == localDefaults(p.local)
  <2>1. d = [p EXCEPT !.port = q, !.local = lo, !.fingerprint = g]
    BY DEF withDefaults
  <2> HIDE DEF g, q, lo
  <2>2. d = [name |-> p.name, server |-> p.server, port |-> q, reality |-> p.reality,
             fingerprint |-> g, local |-> lo]
    BY <2>1 DEF Profile
  <2> QED
    BY <2>2 DEF g, q, lo
<1>7. (IF l.port = 0 THEN 443 ELSE l.port) = (IF p.port = 0 THEN 443 ELSE p.port)
  <2>1. l.port = po /\ p.port \in Nat
    <3>1. p.port \in Nat
      BY DEF Profile
    <3> QED
      BY <3>1, <1>1, Zenon
  <2> QED
    BY <2>1 DEF po
<1>8. (IF l.scheme # "naivereal" THEN "" ELSE IF l.fp = "" THEN "chrome" ELSE l.fp)
        = (IF p.reality /\ p.fingerprint = "" THEN "chrome" ELSE p.fingerprint)
  <2>1. p.reality \/ p.fingerprint = ""
    BY DEF Profile
  <2> QED
    BY <1>1, <1>4, <2>1 DEF f
<1>9. (l.scheme = "naivereal") = p.reality
  <2>1. p.reality \in BOOLEAN
    BY DEF Profile
  <2> QED
    BY <2>1, <1>4, Zenon
<1>10. Parse(l) = [name |-> IF p.name = "" THEN p.server ELSE p.name, server |-> p.server,
           port |-> IF p.port = 0 THEN 443 ELSE p.port, reality |-> p.reality,
           fingerprint |-> IF p.reality /\ p.fingerprint = "" THEN "chrome" ELSE p.fingerprint,
           local |-> NewLocal]
  BY <1>1, <1>7, <1>8, <1>9, Zenon DEF Parse
<1> HIDE DEF d
<1>11. d.name = p.name
  BY <1>6
<1>12. Parse(l) = [d EXCEPT !.local = NewLocal, !.name = IF p.name = "" THEN p.server ELSE p.name]
  <2> DEFINE g == IF p.reality /\ p.fingerprint = "" THEN "chrome" ELSE p.fingerprint
             q == IF p.port = 0 THEN 443 ELSE p.port
             n == IF p.name = "" THEN p.server ELSE p.name
             r == p.reality
             lo == localDefaults(p.local)
             new == NewLocal
             x == Parse(l)
  <2>1. d = [name |-> p.name, server |-> p.server, port |-> q, reality |-> r,
             fingerprint |-> g, local |-> lo]
    BY <1>6
  <2>2. x = [name |-> n, server |-> p.server, port |-> q, reality |-> r,
             fingerprint |-> g, local |-> new]
    BY <1>10
  <2> HIDE DEF g, q, n, r, lo, new, x
  <2> DEFINE e == [d EXCEPT !.local = new]
  <2>3. x = [d EXCEPT !.local = new, !.name = n]
    <3>1. e = [name |-> p.name, server |-> p.server, port |-> q, reality |-> r,
               fingerprint |-> g, local |-> new]
      BY <2>1
    <3>2. [d EXCEPT !.local = new, !.name = n] = [e EXCEPT !.name = n]
      OBVIOUS
    <3> HIDE DEF e
    <3>3. [e EXCEPT !.name = n] = [name |-> n, server |-> p.server, port |-> q, reality |-> r,
                                   fingerprint |-> g, local |-> new]
      BY <3>1
    <3> QED
      BY <2>2, <3>2, <3>3
  <2> QED
    BY <2>3 DEF n, new, x
<1>13. [d EXCEPT !.local = NewLocal, !.name = IF p.name = "" THEN p.server ELSE p.name]
         = [d EXCEPT !.local = NewLocal, !.name = IF @ = "" THEN p.server ELSE @]
  <2> DEFINE new == NewLocal
             n == p.name
             v == p.server
             e == [d EXCEPT !.local = new]
  <2>1. DOMAIN d = {"name", "server", "port", "reality", "fingerprint", "local"} /\ d.name = n
    BY <1>6, <1>11
  <2> HIDE DEF new, n, v
  <2>2. e.name = n
    BY <2>1
  <2>3. [d EXCEPT !.local = new, !.name = IF n = "" THEN v ELSE n]
          = [d EXCEPT !.local = new, !.name = IF @ = "" THEN v ELSE @]
    BY <2>2
  <2> QED
    BY <2>3 DEF new, n, v
<1> QED
  BY <1>5, <1>12, <1>13, Zenon DEF l, d

-----------------------------------------------------------------------------
(* The store in memory and the two files.                                  *)
Store == [active : Words, profiles : Seq(Profile), defaults : BOOLEAN]
StoreFiles == [kind : {"absent", "whole", "torn"}, active : Words, profiles : Seq(Profile)]

StoreTyped ==
  /\ mem \in [Instances -> Store]
  /\ ui \in [Instances -> {"off", "ready", "open", "write", "rename"}]
  /\ loaded \in [Instances -> BOOLEAN]
  /\ msg \in [Instances -> {"", "error", "saved", "copied"}]
  /\ storeFile \in StoreFiles /\ tmp \in StoreFiles

CursorInv == \A i \in Instances : cursor[i] \in 1..Len(mem[i].profiles) \cup {1}

(* A store that was read has all of its defaults, and keeps them.          *)
DefaultsInv ==
  \A i \in Instances :
    loaded[i] => mem[i].defaults /\ \A p \in Range(mem[i].profiles) : withDefaults(p) = p

StoreIInv == StoreTyped /\ cursor \in [Instances -> Nat] /\ CursorInv /\ DefaultsInv
             /\ LinkRoundTrip

(* The values that steps assign.                                           *)
LEMMA StoreValues ==
  /\ Empty \in Store /\ Empty.profiles = <<>>
  /\ Absent \in StoreFiles /\ Torn \in StoreFiles /\ Torn.profiles = <<>>
  /\ \A m \in Store : Whole(m) \in StoreFiles /\ Whole(m).profiles = m.profiles
                       /\ Whole(m).kind = "whole"
<1>1. "" \in Words /\ <<>> \in Seq(Profile)
  <2>1. "" \in Words
    BY StoreTexts
  <2> QED
    BY <2>1, EmptySeq, Zenon
<1>2. Empty \in Store /\ Empty.profiles = <<>>
  BY <1>1, Zenon DEF Empty, Store
<1>3. Absent \in StoreFiles /\ Torn \in StoreFiles /\ Torn.profiles = <<>>
  BY <1>1 DEF Absent, Torn, StoreFiles
<1>4. ASSUME NEW m \in Store
      PROVE  Whole(m) \in StoreFiles /\ Whole(m).profiles = m.profiles /\ Whole(m).kind = "whole"
  <2>1. m.active \in Words /\ m.profiles \in Seq(Profile)
    BY DEF Store
  <2> QED
    BY <2>1 DEF Whole, StoreFiles
<1> QED
  BY <1>2, <1>3, <1>4

(* What LoadProfileStore leaves in memory has the types of the store.      *)
LEMMA LoadFacts ==
  ASSUME NEW f \in StoreFiles
  PROVE  /\ Load(f) \in Store /\ Load(f).defaults
         /\ \A p \in Range(Load(f).profiles) : withDefaults(p) = p
         /\ \A p \in Range(f.profiles) : withDefaults(p) \in Range(Load(f).profiles)
<1> DEFINE s == f.profiles
           t == [k \in DOMAIN s |-> withDefaults(s[k])]
<1>1. s \in Seq(Profile) /\ f.active \in Words
  BY DEF StoreFiles
<1>2. DOMAIN s = 1..Len(s) /\ Len(s) \in Nat /\ \A k \in DOMAIN s : s[k] \in Profile
  BY <1>1, LenProperties, ElementOfSeq
<1>3. \A k \in DOMAIN s : withDefaults(s[k]) \in Profile
                          /\ withDefaults(withDefaults(s[k])) = withDefaults(s[k])
  BY <1>2, DefaultsFilled
<1>4. t \in Seq(Profile) /\ DOMAIN t = DOMAIN s
  <2>1. t \in [1..Len(s) -> Profile]
    BY <1>2, <1>3
  <2> QED
    BY <2>1, <1>2, SeqDef
<1>5. Load(f) = [active |-> f.active, defaults |-> TRUE, profiles |-> t]
  BY DEF Load
<1>6. \A p \in Range(t) : withDefaults(p) = p
  BY <1>3, <1>4 DEF Range
<1>7. \A p \in Range(s) : withDefaults(p) \in Range(t)
  BY <1>4 DEF Range
<1> HIDE DEF s, t
<1>8. Load(f) \in Store /\ Load(f).defaults /\ Load(f).profiles = t
  BY <1>1, <1>4, <1>5 DEF Store
<1> QED
  BY <1>6, <1>7, <1>8 DEF s

(* The active profile: the one of the least position of that name.         *)
Named(m) == {k \in DOMAIN m.profiles : m.profiles[k].name = m.active}

(* Active returns the first profile of the active name.                    *)
LEMMA ActiveFacts ==
  ASSUME NEW m \in Store, m.profiles # <<>>
  PROVE  /\ Active(m) \in Profile
         /\ Named(m) # {} => \E k \in Named(m) : /\ \A j \in Named(m) : k <= j
                                                /\ Active(m) = m.profiles[k]
<1>1. m.profiles \in Seq(Profile)
  BY DEF Store
<1>2. DOMAIN m.profiles \subseteq Nat /\ \A k \in DOMAIN m.profiles : m.profiles[k] \in Profile
  <2>1. DOMAIN m.profiles = 1..Len(m.profiles) /\ Len(m.profiles) \in Nat
    BY <1>1, LenProperties
  <2> QED
    BY <1>1, <2>1, ElementOfSeq
<1>3. CASE Named(m) = {}
  <2>1. 1 \in DOMAIN m.profiles
    BY <1>1
  <2>2. Active(m) = m.profiles[1]
    BY <1>3 DEF Active, Named
  <2> QED
    BY <1>2, <1>3, <2>1, <2>2
<1>4. CASE Named(m) # {}
  <2> DEFINE least == CHOOSE k \in Named(m) : \A j \in Named(m) : k <= j
  <2>1. Named(m) \in SUBSET Nat
    BY <1>2 DEF Named
  <2>2. \E k \in Named(m) : \A j \in Named(m) : k <= j
    BY <2>1, <1>4, LeastNumber
  <2>3. least \in Named(m) /\ \A j \in Named(m) : least <= j
    BY <2>2
  <2>4. Active(m) = m.profiles[least]
    BY <1>4 DEF Active, Named
  <2> HIDE DEF least
  <2> QED
    BY <1>2, <2>3, <2>4 DEF Named
<1> QED
  BY <1>3, <1>4

-----------------------------------------------------------------------------
(* Appending adds one element.                                             *)
LEMMA ElementAppended ==
  ASSUME NEW S, NEW s \in Seq(S), NEW e \in S
  PROVE  /\ \A p \in Range(Append(s, e)) : p \in Range(s) \/ p = e
         /\ \A p \in Range(s) : p \in Range(Append(s, e))
  BY DEF Range

(* The invariant holds when the program starts.                            *)
LEMMA StoreStarts == StoreInit => StoreIInv
<1> SUFFICES ASSUME StoreInit PROVE StoreIInv
  OBVIOUS
<1>1. storeFile \in StoreFiles /\ tmp \in StoreFiles
  <2>1. ASSUME NEW ps \in Files PROVE Whole([active |-> "", profiles |-> ps]) \in StoreFiles
    <3>1. ps \in Seq(Profile) /\ "" \in Words
      BY StoreTexts
    <3> QED
      BY <3>1 DEF Whole, StoreFiles
  <2> QED
    BY <2>1, StoreValues DEF StoreInit
<1>2. StoreTyped
  <2>1. mem \in [Instances -> Store] /\ loaded \in [Instances -> BOOLEAN]
    BY StoreValues DEF StoreInit
  <2> QED
    BY <1>1, <2>1 DEF StoreInit, StoreTyped
<1>3. CursorInv /\ DefaultsInv /\ LinkRoundTrip /\ cursor \in [Instances -> Nat]
  BY DEF StoreInit, CursorInv, DefaultsInv, LinkRoundTrip
<1> QED
  BY <1>2, <1>3 DEF StoreIInv

(* One case per handler of the store, under it one per part disturbed.     *)
LEMMA StoreSteps == StoreIInv /\ [StoreNext]_storeVars => StoreIInv'
<1> SUFFICES ASSUME StoreIInv, [StoreNext]_storeVars PROVE StoreIInv'
  OBVIOUS
<1> USE DEF StoreIInv
<1>1. ASSUME NEW i \in Instances, LaunchTui(i) PROVE StoreIInv'
  <2> DEFINE m == mem'[i]
  <2>1. /\ mem' = [mem EXCEPT ![i] = m] /\ m \in Store
        /\ loaded'[i] => m.defaults /\ \A p \in Range(m.profiles) : withDefaults(p) = p
    BY <1>1, LoadFacts, StoreValues DEF LaunchTui, StoreTyped
  <2> HIDE DEF m
  <2>2. \A j \in Instances \ {i} : mem'[j] = mem[j] /\ loaded'[j] = loaded[j] /\ cursor'[j] = cursor[j]
    BY <1>1, <2>1 DEF LaunchTui, StoreTyped
  <2>3. StoreTyped'
    BY <1>1, <2>1 DEF LaunchTui, StoreTyped
  <2>4. CursorInv' /\ DefaultsInv' /\ LinkRoundTrip' /\ cursor' \in [Instances -> Nat]
    BY <1>1, <2>1, <2>2 DEF LaunchTui, StoreTyped, CursorInv, DefaultsInv, LinkRoundTrip, m
  <2> QED
    BY <2>3, <2>4
<1>2. ASSUME NEW i \in Instances, Die(i) PROVE StoreIInv'
  BY <1>2, StoreValues DEF Die, StoreTyped, CursorInv, DefaultsInv, LinkRoundTrip
<1>3. CASE HandEdit
  BY <1>3 DEF HandEdit, StoreTyped, StoreFiles, CursorInv, DefaultsInv, LinkRoundTrip
<1>4. ASSUME NEW i \in Instances, NEW l \in Links, ImportLink(i, l) PROVE StoreIInv'
  <2>1. CASE ParseOk(l)
    <3> DEFINE m == [mem[i] EXCEPT !.profiles = Append(@, Parse(l)),
                                   !.active = IF @ = "" THEN Parse(l).name ELSE @]
    <3>1. Parse(l) \in Profile /\ withDefaults(Parse(l)) = Parse(l) /\ Parse(l).name \in Words
      BY <2>1, ParsedProfile, StoreTexts DEF Profile
    <3>2. mem[i] \in Store /\ mem[i].profiles \in Seq(Profile) /\ mem[i].active \in Words
      BY DEF StoreTyped, Store
    <3>3. /\ m.profiles = Append(mem[i].profiles, Parse(l)) /\ m.defaults = mem[i].defaults
          /\ m \in Store
      <4> DEFINE ps == Append(mem[i].profiles, Parse(l))
                 a == IF mem[i].active = "" THEN Parse(l).name ELSE mem[i].active
      <4>1. ps \in Seq(Profile)
        BY <3>1, <3>2, AppendProperties, Zenon
      <4>2. a \in Words
        BY <3>1, <3>2, Zenon
      <4>3. m = [mem[i] EXCEPT !.profiles = ps, !.active = a]
        OBVIOUS
      <4> HIDE DEF ps, a, m
      <4>4. m.profiles = ps /\ m.defaults = mem[i].defaults /\ m \in Store
        BY <3>2, <4>1, <4>2, <4>3 DEF Store
      <4> QED
        BY <4>4 DEF ps
    <3>4. mem' = [mem EXCEPT ![i] = m]
      BY <1>4, <2>1 DEF ImportLink
    <3>5. Len(m.profiles) = Len(mem[i].profiles) + 1 /\ Len(mem[i].profiles) \in Nat
      BY <3>2, <3>3
    <3>6. \A p \in Range(m.profiles) : p \in Range(mem[i].profiles) \/ p = Parse(l)
      BY <3>1, <3>2, <3>3, ElementAppended
    <3> HIDE DEF m
    <3>7. StoreTyped'
      <4>1. mem' \in [Instances -> Store]
        BY <3>3, <3>4 DEF StoreTyped
      <4> QED
        BY <1>4, <2>1, <4>1 DEF ImportLink, StoreTyped
    <3>8. CursorInv'
      <4>1. \A j \in Instances : mem'[j] = IF j = i THEN m ELSE mem[j]
        BY <3>4 DEF StoreTyped
      <4>2. 1..Len(mem[i].profiles) \subseteq 1..Len(m.profiles)
        BY <3>5
      <4> QED
        BY <1>4, <2>1, <4>1, <4>2 DEF ImportLink, CursorInv
    <3>9. DefaultsInv'
      BY <1>4, <2>1, <3>1, <3>3, <3>4, <3>6 DEF ImportLink, StoreTyped, DefaultsInv
    <3> QED
      BY <1>4, <3>7, <3>8, <3>9 DEF ImportLink, LinkRoundTrip
  <2>2. CASE ~ParseOk(l)
    BY <1>4, <2>2 DEF ImportLink, StoreTyped, CursorInv, DefaultsInv, LinkRoundTrip
  <2> QED
    BY <2>1, <2>2
<1>5. ASSUME NEW i \in Instances, Activate(i) PROVE StoreIInv'
  <2> DEFINE n == mem[i].profiles[cursor[i]].name
             m == [mem[i] EXCEPT !.active = n]
  <2>1. mem[i] \in Store /\ mem[i].profiles \in Seq(Profile) /\ mem[i].profiles # <<>>
    BY <1>5 DEF Activate, StoreTyped, Store
  <2>2. cursor[i] \in 1..Len(mem[i].profiles)
    BY <2>1 DEF CursorInv
  <2>3. mem[i].profiles[cursor[i]] \in Profile
    BY <2>1, <2>2, ElementOfSeq, Zenon
  <2>4. n \in Words
    BY <2>3 DEF Profile
  <2> HIDE DEF n
  <2>5. m \in Store /\ m.profiles = mem[i].profiles /\ m.defaults = mem[i].defaults
    BY <2>1, <2>4 DEF Store
  <2>6. mem' = [mem EXCEPT ![i] = m]
    BY <1>5 DEF Activate, n
  <2> HIDE DEF m
  <2>7. StoreTyped'
    BY <1>5, <2>5, <2>6 DEF Activate, StoreTyped
  <2>8. \A j \in Instances : mem'[j].profiles = mem[j].profiles /\ mem'[j].defaults = mem[j].defaults
    BY <2>5, <2>6 DEF StoreTyped
  <2>9. UNCHANGED <<cursor, loaded, clipboard, copied>>
    BY <1>5 DEF Activate
  <2>10. CursorInv' /\ (cursor \in [Instances -> Nat])'
    BY <2>8, <2>9 DEF CursorInv
  <2>11. DefaultsInv'
    BY <2>8, <2>9 DEF DefaultsInv
  <2>12. LinkRoundTrip'
    BY <2>9 DEF LinkRoundTrip
  <2> QED
    BY <2>7, <2>10, <2>11, <2>12
<1>6. ASSUME NEW i \in Instances, MoveCursor(i) PROVE StoreIInv'
  <2>1. PICK c \in 1..Len(mem[i].profiles) : cursor' = [cursor EXCEPT ![i] = c]
    BY <1>6 DEF MoveCursor
  <2>2. mem[i].profiles \in Seq(Profile)
    BY DEF StoreTyped, Store
  <2>3. c \in Nat
    BY <2>2
  <2>4. cursor' \in [Instances -> Nat] /\ CursorInv'
    BY <1>6, <2>1, <2>3 DEF MoveCursor, CursorInv
  <2> QED
    BY <1>6, <2>4 DEF MoveCursor, StoreTyped, DefaultsInv, LinkRoundTrip
<1>7. ASSUME NEW i \in Instances, CopyLink(i) PROVE StoreIInv'
  <2>1. StoreTyped' /\ CursorInv' /\ DefaultsInv' /\ cursor' = cursor
    BY <1>7 DEF CopyLink, StoreTyped, CursorInv, DefaultsInv
  <2>2. CASE UNCHANGED <<clipboard, copied>>
    BY <2>1, <2>2 DEF LinkRoundTrip
  <2>3. CASE /\ mem[i].profiles # <<>> /\ BuildOk(Active(mem[i]))
             /\ clipboard' = Build(Active(mem[i])) /\ copied' = Active(mem[i])
    <3>1. mem[i] \in Store
      BY DEF StoreTyped
    <3>2. Active(mem[i]) \in Profile
      BY <2>3, <3>1, ActiveFacts
    <3>3. LinkRoundTrip'
      BY <2>3, <3>2, BuildThenParse DEF LinkRoundTrip
    <3> QED
      BY <2>1, <3>3
  <2> QED
    BY <1>7, <2>2, <2>3 DEF CopyLink
<1>8. ASSUME NEW i \in Instances, SaveFails(i) PROVE StoreIInv'
  BY <1>8 DEF SaveFails, StoreTyped, CursorInv, DefaultsInv, LinkRoundTrip
<1>9. ASSUME NEW i \in Instances, SaveOpen(i) PROVE StoreIInv'
  BY <1>9, StoreValues DEF SaveOpen, StoreTyped, CursorInv, DefaultsInv, LinkRoundTrip
<1>10. ASSUME NEW i \in Instances, SaveWrite(i) PROVE StoreIInv'
  BY <1>10, StoreValues DEF SaveWrite, StoreTyped, CursorInv, DefaultsInv, LinkRoundTrip
<1>11. ASSUME NEW i \in Instances, SaveRename(i) PROVE StoreIInv'
  BY <1>11, StoreValues DEF SaveRename, StoreTyped, CursorInv, DefaultsInv, LinkRoundTrip
<1>12. CASE UNCHANGED storeVars
  BY <1>12 DEF storeVars, StoreTyped, CursorInv, DefaultsInv, LinkRoundTrip
<1> QED
  BY <1>1, <1>2, <1>3, <1>4, <1>5, <1>6, <1>7, <1>8, <1>9, <1>10, <1>11, <1>12
     DEF StoreNext, Save

(* For any number of TUIs the store keeps its types and its defaults.      *)
THEOREM StoreInvariance == StoreSpec => []StoreIInv
  BY StoreStarts, StoreSteps, PTL DEF StoreSpec

(* The types of the variables follow.                                      *)
LEMMA StoreTyping == StoreIInv => StoreTypeOK
  BY DEF StoreIInv, StoreTyped, StoreFiles, CursorInv, DefaultsInv, StoreTypeOK

(* The screen, the message, the cursor and the profiles in memory keep     *)
(* their types, and no profile that was loaded has a default left to fill  *)
(* in.                                                                     *)
THEOREM StoreTypes == StoreSpec => []StoreTypeOK
  BY StoreInvariance, StoreTyping, PTL

(* A copied link, pasted anywhere, yields its profile with the local       *)
(* settings of a new one (sharelink).                                      *)
THEOREM LinksComeBack == StoreSpec => []LinkRoundTrip
<1>1. StoreIInv => LinkRoundTrip
  BY DEF StoreIInv
<1> QED
  BY <1>1, StoreInvariance, PTL

-----------------------------------------------------------------------------
(* One TUI at a time: the temporary file is the one this process wrote,    *)
(* and the memory holds what it read.                                      *)
OneTui == \A i, j \in Instances : i = j

SaveInv ==
  \A i \in Instances :
    /\ ui[i] = "off" => ~loaded[i]
    /\ ui[i] = "write" => tmp = Torn
    /\ ui[i] = "rename" => tmp = Whole(mem[i])
    /\ loaded[i] => \A p \in Range(storeFile.profiles) :
                      withDefaults(p) \in Range(mem[i].profiles)

(* What an import and an activation leave in the memory of their TUI.      *)
LEMMA ImportFacts ==
  ASSUME StoreTyped, NEW i \in Instances, NEW l \in Links, ImportLink(i, l), ParseOk(l)
  PROVE  /\ mem'[i].profiles = Append(mem[i].profiles, Parse(l))
         /\ mem'[i].active = IF mem[i].active = "" THEN Parse(l).name ELSE mem[i].active
         /\ mem'[i] \in Store
<1> DEFINE ps == Append(mem[i].profiles, Parse(l))
           a == IF mem[i].active = "" THEN Parse(l).name ELSE mem[i].active
           m == [mem[i] EXCEPT !.profiles = ps, !.active = a]
<1>1. mem[i] \in Store /\ mem[i].profiles \in Seq(Profile) /\ mem[i].active \in Words
  BY DEF StoreTyped, Store
<1>2. Parse(l) \in Profile /\ Parse(l).name \in Words
  <2>1. Parse(l) \in Profile
    BY ParsedProfile, StoreTexts
  <2> QED
    BY <2>1 DEF Profile
<1>3. mem' = [mem EXCEPT ![i] = m]
  BY DEF ImportLink
<1>4. ps \in Seq(Profile)
  BY <1>1, <1>2, AppendProperties, Zenon
<1>5. a \in Words
  BY <1>1, <1>2, Zenon
<1>6. m = [mem[i] EXCEPT !.profiles = ps, !.active = a]
  OBVIOUS
<1> HIDE DEF ps, a, m
<1>7. m.profiles = ps /\ m.active = a /\ m \in Store
  BY <1>1, <1>4, <1>5, <1>6 DEF Store
<1>8. mem'[i] = m
  BY <1>3 DEF StoreTyped
<1> QED
  BY <1>7, <1>8 DEF ps, a

(* Activating a profile leaves the profiles alone.                         *)
LEMMA ActivateFacts ==
  ASSUME StoreTyped, NEW i \in Instances, Activate(i)
  PROVE  mem'[i].profiles = mem[i].profiles
<1> DEFINE n == mem[i].profiles[cursor[i]].name
           m == [mem[i] EXCEPT !.active = n]
<1>1. mem[i] \in Store
  BY DEF StoreTyped
<1>2. mem' = [mem EXCEPT ![i] = m]
  BY DEF Activate
<1> HIDE DEF n
<1>3. m.profiles = mem[i].profiles
  BY <1>1 DEF Store
<1> HIDE DEF m
<1> QED
  BY <1>2, <1>3 DEF StoreTyped

(* With one TUI every handler keeps SaveInv.                               *)
LEMMA SaveStep ==
  ASSUME OneTui, StoreIInv, SaveInv, [StoreNext]_storeVars
  PROVE  SaveInv'
<1> USE DEF StoreIInv, OneTui
<1>1. ASSUME NEW i \in Instances, LaunchTui(i) PROVE SaveInv'
  BY <1>1, LoadFacts DEF LaunchTui, StoreTyped, SaveInv
<1>2. ASSUME NEW i \in Instances, Die(i) PROVE SaveInv'
  BY <1>2 DEF Die, StoreTyped, SaveInv
<1>3. CASE HandEdit
  BY <1>3 DEF HandEdit, StoreTyped, StoreFiles, SaveInv
<1>4. ASSUME NEW i \in Instances, NEW l \in Links, ImportLink(i, l) PROVE SaveInv'
  <2>1. CASE ParseOk(l)
    <3>1. Parse(l) \in Profile /\ mem[i].profiles \in Seq(Profile)
      BY <2>1, ParsedProfile, StoreTexts DEF StoreTyped, Store
    <3>2. mem'[i].profiles = Append(mem[i].profiles, Parse(l))
      BY <1>4, <2>1, ImportFacts
    <3>3. \A p \in Range(mem[i].profiles) : p \in Range(mem'[i].profiles)
      BY <3>1, <3>2, ElementAppended
    <3>4. ui'[i] = "open" /\ UNCHANGED <<loaded, storeFile>> /\ ui[i] = "ready"
      BY <1>4, <2>1 DEF ImportLink, StoreTyped
    <3> QED
      BY <3>3, <3>4 DEF SaveInv
  <2>2. CASE ~ParseOk(l)
    BY <1>4, <2>2 DEF ImportLink, SaveInv
  <2> QED
    BY <2>1, <2>2
<1>5. ASSUME NEW i \in Instances, Activate(i) PROVE SaveInv'
  <2>1. mem'[i].profiles = mem[i].profiles
    BY <1>5, ActivateFacts
  <2>2. ui'[i] = "open" /\ UNCHANGED <<loaded, storeFile>> /\ ui[i] = "ready"
    BY <1>5 DEF Activate, StoreTyped
  <2> QED
    BY <2>1, <2>2 DEF SaveInv
<1>6. ASSUME NEW i \in Instances, MoveCursor(i) PROVE SaveInv'
  BY <1>6 DEF MoveCursor, SaveInv
<1>7. ASSUME NEW i \in Instances, CopyLink(i) PROVE SaveInv'
  BY <1>7 DEF CopyLink, SaveInv
<1>8. ASSUME NEW i \in Instances, SaveFails(i) PROVE SaveInv'
  BY <1>8 DEF SaveFails, StoreTyped, SaveInv
<1>9. ASSUME NEW i \in Instances, SaveOpen(i) PROVE SaveInv'
  BY <1>9 DEF SaveOpen, StoreTyped, SaveInv
<1>10. ASSUME NEW i \in Instances, SaveWrite(i) PROVE SaveInv'
  <2>1. tmp.profiles = <<>>
    <3>1. ui[i] = "write"
      BY <1>10 DEF SaveWrite
    <3>2. tmp = Torn
      BY <3>1 DEF SaveInv
    <3> QED
      BY <3>2 DEF Torn
  <2>2. mem[i].profiles \in Seq(Profile)
    BY DEF StoreTyped, Store
  <2>3. ~(Len(tmp.profiles) > Len(mem[i].profiles))
    <3>1. Len(mem[i].profiles) \in Nat /\ Len(tmp.profiles) = 0
      BY <2>1, <2>2
    <3> QED
      BY <3>1
  <2>4. tmp' = Whole(mem[i]) /\ ui'[i] = "rename" /\ UNCHANGED <<mem, loaded, storeFile>>
    BY <1>10, <2>3 DEF SaveWrite, StoreTyped
  <2> QED
    BY <2>4 DEF SaveInv
<1>11. ASSUME NEW i \in Instances, SaveRename(i) PROVE SaveInv'
  BY <1>11, StoreValues, ZenonT(60) DEF SaveRename, StoreTyped, SaveInv, DefaultsInv
<1>12. CASE UNCHANGED storeVars
  BY <1>12 DEF storeVars, SaveInv
<1> QED
  BY <1>1, <1>2, <1>3, <1>4, <1>5, <1>6, <1>7, <1>8, <1>9, <1>10, <1>11, <1>12
     DEF StoreNext, Save

-----------------------------------------------------------------------------
(* The first profile of the active name is still the first when profiles   *)
(* are appended behind it.                                                 *)
LEMMA ActiveAppend ==
  ASSUME NEW m \in Store, NEW n \in Store, NEW e \in Profile,
         n.profiles = Append(m.profiles, e), n.active = m.active,
         \E p \in Range(m.profiles) : p.name = m.active
  PROVE  Active(n) = Active(m)
<1>1. m.profiles \in Seq(Profile) /\ n.profiles \in Seq(Profile)
  BY DEF Store
<1>2. Len(m.profiles) \in Nat /\ DOMAIN m.profiles = 1..Len(m.profiles)
  BY <1>1, LenProperties
<1>3. /\ DOMAIN n.profiles = 1..(Len(m.profiles) + 1)
      /\ \A k \in 1..Len(m.profiles) : n.profiles[k] = m.profiles[k]
  BY <1>1, <1>2
<1>4. \A k \in Named(m) : k \in Named(n) /\ n.profiles[k] = m.profiles[k] /\ k \in 1..Len(m.profiles)
  BY <1>2, <1>3 DEF Named
<1>5. \A k \in Named(n) : k \in Named(m) \/ k = Len(m.profiles) + 1
  BY <1>2, <1>3 DEF Named
<1>6. Named(m) # {}
  BY <1>2 DEF Named, Range
<1>7. m.profiles # <<>> /\ n.profiles # <<>>
  BY <1>1, <1>2, <1>3, <1>4, <1>6
<1>8. PICK k \in Named(m) : (\A j \in Named(m) : k <= j) /\ Active(m) = m.profiles[k]
  BY <1>6, <1>7, ActiveFacts
<1>9. PICK h \in Named(n) : (\A j \in Named(n) : h <= j) /\ Active(n) = n.profiles[h]
  BY <1>4, <1>6, <1>7, ActiveFacts
<1>10. h <= k /\ k \in 1..Len(m.profiles)
  BY <1>4, <1>8, <1>9
<1>11. h \in Named(m)
  BY <1>2, <1>5, <1>9, <1>10
<1>12. h = k
  BY <1>2, <1>4, <1>8, <1>10, <1>11
<1> QED
  BY <1>4, <1>8, <1>9, <1>12

(* With one TUI every step has what the four action properties ask.        *)
LEMMA StoreStepSafe ==
  ASSUME OneTui, StoreIInv, SaveInv, StoreNext, NEW i \in Instances
  PROVE  /\ Save(i) => storeFile' = storeFile \/ storeFile'.kind = "whole"
         /\ (loaded[i] /\ storeFile' # storeFile /\ ui[i] = "rename") =>
              \A p \in Range(storeFile.profiles) : withDefaults(p) \in Range(storeFile'.profiles)
         /\ (ui[i] # "ready" /\ ui'[i] = "ready" /\ msg'[i] = "saved") => storeFile' = Whole(mem[i])
         /\ (/\ mem'[i].profiles # mem[i].profiles /\ ui[i] = "ready" /\ ui'[i] # "off"
             /\ mem[i].active \in {p.name : p \in Range(mem[i].profiles)} \ {""})
              => Active(mem'[i]) = Active(mem[i])
<1> USE DEF StoreIInv, OneTui
<1>1. ASSUME Save(i), storeFile' # storeFile
      PROVE  SaveRename(i) /\ storeFile' = Whole(mem[i]) /\ storeFile'.kind = "whole"
  <2>1. SaveRename(i)
    BY <1>1 DEF Save, SaveFails, SaveOpen, SaveWrite
  <2>2. storeFile' = Whole(mem[i])
    BY <2>1 DEF SaveRename, SaveInv
  <2> QED
    BY <2>1, <2>2, StoreValues DEF StoreTyped
<1>2. ASSUME loaded[i], storeFile' # storeFile, ui[i] = "rename"
      PROVE  \A p \in Range(storeFile.profiles) : withDefaults(p) \in Range(storeFile'.profiles)
  <2>1. Save(i)
    BY <1>2 DEF StoreNext, HandEdit, LaunchTui, Die, ImportLink, Activate, MoveCursor, CopyLink
  <2>2. storeFile'.profiles = mem[i].profiles
    BY <1>1, <1>2, <2>1, StoreValues DEF StoreTyped
  <2> QED
    BY <1>2, <2>2 DEF SaveInv
<1>3. ASSUME ui[i] # "ready", ui'[i] = "ready", msg'[i] = "saved"
      PROVE  storeFile' = Whole(mem[i])
  <2>1. ~HandEdit
    BY <1>3 DEF HandEdit
  <2>2. ~LaunchTui(i)
    BY <1>3 DEF LaunchTui, StoreTyped
  <2>3. ~Die(i) /\ ~SaveOpen(i) /\ ~SaveWrite(i) /\ ~SaveFails(i)
    BY <1>3 DEF Die, SaveOpen, SaveWrite, SaveFails, StoreTyped
  <2>4. ~Activate(i) /\ ~MoveCursor(i) /\ ~CopyLink(i) /\ \A l \in Links : ~ImportLink(i, l)
    BY <1>3 DEF Activate, MoveCursor, CopyLink, ImportLink
  <2>5. SaveRename(i)
    BY <2>1, <2>2, <2>3, <2>4 DEF StoreNext, Save
  <2> QED
    BY <2>5 DEF SaveRename, SaveInv
<1>4. ASSUME mem'[i].profiles # mem[i].profiles, ui[i] = "ready", ui'[i] # "off",
             mem[i].active \in {p.name : p \in Range(mem[i].profiles)} \ {""}
      PROVE  Active(mem'[i]) = Active(mem[i])
  <2>1. ~HandEdit /\ ~Save(i) /\ ~MoveCursor(i) /\ ~CopyLink(i)
    BY <1>4 DEF HandEdit, Save, SaveOpen, SaveWrite, SaveRename, SaveFails, MoveCursor, CopyLink
  <2>2. ~LaunchTui(i) /\ ~Die(i)
    BY <1>4 DEF LaunchTui, Die, StoreTyped
  <2>3. ~Activate(i)
    BY <1>4, ActivateFacts
  <2>4. PICK l \in Links : ImportLink(i, l)
    BY <2>1, <2>2, <2>3 DEF StoreNext
  <2>5. ParseOk(l)
    BY <1>4, <2>4 DEF ImportLink
  <2>6. /\ mem'[i].profiles = Append(mem[i].profiles, Parse(l)) /\ mem'[i] \in Store
        /\ mem'[i].active = mem[i].active
    BY <1>4, <2>4, <2>5, ImportFacts
  <2>7. Parse(l) \in Profile /\ mem[i] \in Store
    BY <2>5, ParsedProfile, StoreTexts DEF StoreTyped
  <2> QED
    BY <1>4, <2>6, <2>7, ActiveAppend
<1> QED
  BY <1>1, <1>2, <1>3, <1>4

(* Save is atomic, a save keeps what was read, and the active profile      *)
(* changes by the user alone: with one TUI running, for every file, every  *)
(* link and every failure of Save (config.Save, app.go).                   *)
THEOREM StoreKept == ASSUME OneTui PROVE StoreSpec => StoreSafe
<1>1. StoreInit => SaveInv
  BY DEF StoreInit, SaveInv
<1>2. StoreIInv /\ SaveInv /\ [StoreNext]_storeVars => SaveInv'
  BY SaveStep
<1> DEFINE Atomic == \A i \in Instances : Save(i) => storeFile' = storeFile \/ storeFile'.kind = "whole"
           K == \A i \in Instances :
                  /\ (loaded[i] /\ storeFile' # storeFile /\ ui[i] = "rename") =>
                       \A p \in Range(storeFile.profiles) : withDefaults(p) \in Range(storeFile'.profiles)
                  /\ (ui[i] # "ready" /\ ui'[i] = "ready" /\ msg'[i] = "saved") => storeFile' = Whole(mem[i])
           T == \A i \in Instances :
                  (/\ mem'[i].profiles # mem[i].profiles /\ ui[i] = "ready" /\ ui'[i] # "off"
                   /\ mem[i].active \in {p.name : p \in Range(mem[i].profiles)} \ {""})
                    => Active(mem'[i]) = Active(mem[i])
<1>3. StoreIInv /\ SaveInv /\ [StoreNext]_storeVars => [Atomic]_storeVars /\ [K]_storeVars /\ [T]_storeVars
  <2>1. ASSUME StoreIInv, SaveInv, StoreNext PROVE Atomic /\ K /\ T
    <3>1. Atomic
      BY <2>1, StoreStepSafe
    <3>2. K
      BY <2>1, StoreStepSafe
    <3>3. T
      BY <2>1, StoreStepSafe
    <3> QED
      BY <3>1, <3>2, <3>3
  <2> QED
    BY <2>1
<1> QED
  BY <1>1, <1>2, <1>3, StoreInvariance, PTL DEF StoreSpec, StoreSafe, SaveAtomic, SaveKeeps, ActiveStays

-----------------------------------------------------------------------------
(* TunDevice                                                               *)

(* The halves that go into the device, those a failed Close left aside.    *)
Diverted == (routes \cap ToTun) \ kept

(* The exclusions through the gateway of now.                              *)
Exclusions == {Route(ip, gateway) : ip \in Range(exclude)}

(* startTUN's loop: the server's addresses up to the index are excluded,   *)
(* and from Create on all of them.                                         *)
ServerExcluded ==
  /\ tunStep = "exclude" => \A j \in 1..Len(profile.server) :
                              j < idx => profile.server[j] \in Range(exclude)
  /\ tunStep \notin {"idle", "exclude"} => Range(profile.server) \subseteq Range(exclude)

(* The adapter of the current call is the only one that may be open.       *)
AdapterHeld ==
  \A d \in Tuns : adapter[d] = "open" => d = tuns /\ tunStep \notin {"idle", "exclude"}

(* Where the device exists there was a call of startTUN.                   *)
TunCounted == tunStep # "idle" => tuns \in Tuns

(* setupRoutes has a gateway for the exclusions before it adds the first.  *)
GatewayKnown == tunStep = "add" /\ exclude # <<>> => phyGW # NoGateway

(* Which halves of the address space may go into the device, and that all  *)
(* exclusions were added before the first of them: setupRoutes has added   *)
(* those that lie behind its index, and only the network takes them away.  *)
HalvesInv ==
  /\ tunStep \notin {"add", "up", "cancel", "halves"} => Diverted = {}
  /\ tunStep = "halves" => \A k \in 1..Len(Halves) :
                             k < idx => \A r \in Diverted : r.dst # Halves[k]
ExclusionsFirst ==
  /\ tunStep = "add" => \A j \in 1..Len(exclude) :
                          j < idx => Route(exclude[j], phyGW) \in routes \cup flushed
  /\ Diverted # {} => \A j \in 1..Len(exclude) :
                       /\ phyGW \in Gateways
                       /\ Route(exclude[j], phyGW) \in routes \cup flushed

(* As long as the network stays the same: every route is one of the device *)
(* that is there or was left by a failed command, and the loop of          *)
(* teardownRoutes leaves no other behind its index.                        *)
StableInv ==
  ~roamed =>
    /\ tunStep \in {"idle", "exclude", "stack", "address", "device"} => routes \subseteq kept
    /\ routes \subseteq kept \cup ToTun \cup Exclusions
    /\ tunStep = "add" => phyGW \in {gateway, NoGateway}
    /\ tunStep = "exclusions" =>
         /\ phyGW \in {gateway, NoGateway}
         /\ \A r \in routes \ kept : \E j \in 1..Len(exclude) :
              j >= idx /\ r = Route(exclude[j], gateway)

(* The inductive invariant of the device.                                  *)
TunIInv ==
  /\ TunTypeOK /\ ServerExcluded /\ AdapterHeld /\ TunCounted /\ GatewayKnown
  /\ HalvesInv /\ ExclusionsFirst /\ StableInv

USE NoGatewayNone, TunBounds, HalvesNoIPv4, TunProfilesTyped

(* The two halves.                                                         *)
LEMMA HalvesTwo ==
  /\ Len(Halves) = 2
  /\ Range(Halves) = {Halves[1], Halves[2]}
  /\ ToTun = {Route(Halves[1], "tun"), Route(Halves[2], "tun")}
  /\ \A a \in IPv4s : a \notin Range(Halves)
  <1>1. Len(Halves) = 2 /\ DOMAIN Halves = 1..2
    BY DEF Halves
  <1>2. Range(Halves) = {Halves[1], Halves[2]}
    BY <1>1 DEF Range
  <1>3. ToTun = {Route(Halves[1], "tun"), Route(Halves[2], "tun")}
    BY <1>2, Zenon DEF ToTun
  <1>4. \A a \in IPv4s : a \notin Range(Halves)
    OBVIOUS
  <1>5. QED
    BY <1>1, <1>2, <1>3, <1>4

(* Appending adds to the range.                                            *)
LEMMA RangeAppend ==
  ASSUME NEW S, NEW s \in Seq(S), NEW e \in S
  PROVE  Append(s, e) \in Seq(S) /\ Range(s) \cup {e} \subseteq Range(Append(s, e))
  <1>1. /\ Append(s, e) \in Seq(S) /\ Len(Append(s, e)) = Len(s) + 1
        /\ Append(s, e)[Len(s) + 1] = e
        /\ \A j \in 1..Len(s) : Append(s, e)[j] = s[j]
    OBVIOUS
  <1>2. DOMAIN s = 1..Len(s) /\ DOMAIN Append(s, e) = 1..(Len(s) + 1) /\ Len(s) \in Nat
    BY <1>1
  <1>3. QED
    BY <1>1, <1>2 DEF Range

(* setupRoutes runs the exclusions first, then the halves.                 *)
LEMMA RouteListOrder ==
  ASSUME exclude \in Seq(IPv4s)
  PROVE  /\ Len(routeList) = Len(exclude) + 2
         /\ \A j \in 1..Len(exclude) : /\ routeList[j] = exclude[j] /\ exclude[j] \in IPv4s
                                       /\ routeList[j] \notin Range(Halves)
         /\ \A j \in 1..Len(routeList) : j > Len(exclude) => routeList[j] \in Range(Halves)
  <1> DEFINE S == IPv4s \cup {"0.0.0.0/1", "128.0.0.0/1"}
  <1>1. Halves \in Seq(S) /\ exclude \in Seq(S) /\ Len(Halves) = 2
    BY HalvesTwo DEF Halves
  <1>2. /\ Len(routeList) = Len(exclude) + 2
        /\ \A j \in 1..Len(routeList) :
             routeList[j] = IF j <= Len(exclude) THEN exclude[j] ELSE Halves[j - Len(exclude)]
    <2> HIDE DEF S
    <2>1. /\ Len(exclude \o Halves) = Len(exclude) + Len(Halves)
          /\ \A i \in 1..Len(exclude) + Len(Halves) : (exclude \o Halves)[i] =
               IF i <= Len(exclude) THEN exclude[i] ELSE Halves[i - Len(exclude)]
      BY <1>1, ConcatProperties, ZenonT(60)
    <2>2. QED
      BY <1>1, <2>1 DEF routeList
  <1>3. \A j \in 1..Len(exclude) : exclude[j] \in IPv4s
    OBVIOUS
  <1>4. \A k \in 1..2 : Halves[k] \in Range(Halves)
    BY HalvesTwo
  <1>5. QED
    BY <1>2, <1>3, <1>4, HalvesTwo, SMTT(60)

(* The first state of the device satisfies the invariant.                  *)
LEMMA TunInitial == TunInit => TunIInv
  <1> SUFFICES ASSUME TunInit PROVE TunIInv
    OBVIOUS
  <1>1. roamed \in BOOLEAN /\ cancelled \in [Tuns -> BOOLEAN]
    BY DEF TunInit
  <1>2. TunTypeOK
    BY <1>1 DEF TunInit, TunTypeOK
  <1>3. /\ ServerExcluded /\ AdapterHeld /\ TunCounted /\ GatewayKnown /\ HalvesInv
        /\ ExclusionsFirst /\ StableInv
    BY DEF TunInit, ServerExcluded, AdapterHeld, TunCounted, GatewayKnown, HalvesInv,
       ExclusionsFirst, StableInv, Diverted
  <1>4. QED
    BY <1>2, <1>3 DEF TunIInv

(* The part of the invariant about the routes stays when neither they nor  *)
(* what it reads of the device changes.                                    *)
LEMMA RoutesAlone ==
  ASSUME TunIInv, tunStep' \notin {"add", "halves", "exclusions"},
         tunStep' \notin {"up", "cancel"} => tunStep \notin {"add", "up", "cancel", "halves"},
         tunStep' \in {"idle", "exclude", "stack", "address", "device"}
           => tunStep \in {"idle", "exclude", "stack", "address", "device"},
         UNCHANGED <<exclude, gateway, roamed, routes, kept, flushed>>,
         phyGW' = phyGW \/ tunStep \notin {"add", "up", "cancel", "halves"}
  PROVE  HalvesInv' /\ ExclusionsFirst' /\ StableInv'
  <1>1. Diverted' = Diverted /\ Exclusions' = Exclusions
    BY DEF Diverted, Exclusions, ToTun
  <1>2. HalvesInv'
    BY <1>1 DEF TunIInv, HalvesInv
  <1>3. ExclusionsFirst'
    BY <1>1 DEF TunIInv, ExclusionsFirst, HalvesInv
  <1>4. StableInv'
    BY <1>1 DEF TunIInv, StableInv, ToTun
  <1>5. QED
    BY <1>2, <1>3, <1>4

(* Every command of Create and Close, every end of a pump and every change *)
(* of the network keeps the invariant.                                     *)
LEMMA TunStep == TunIInv /\ [TunNext]_tunVars => TunIInv'
  <1> SUFFICES ASSUME TunIInv, [TunNext]_tunVars PROVE TunIInv'
    OBVIOUS
  <1>1. ASSUME NEW p \in TunProfiles, StartTun(p)
        PROVE  TunIInv'
    <2>1. p.exclude \in Seq(IPv4s)
      BY <1>1
    <2>2. /\ tunStep = "idle" /\ tunStep' \in {"idle", "exclude"}
          /\ UNCHANGED <<gateway, roamed, routes, kept>> /\ flushed' = {}
      BY <1>1 DEF StartTun, netVars
    <2>3. TunTypeOK'
      BY <1>1, <2>1 DEF StartTun, netVars, deviceVars, TunIInv, TunTypeOK
    <2>4. ServerExcluded' /\ AdapterHeld' /\ TunCounted' /\ GatewayKnown'
      BY <1>1 DEF StartTun, netVars, deviceVars, TunIInv, TunTypeOK, ServerExcluded, AdapterHeld,
         TunCounted, GatewayKnown, Tuns
    <2>5. Diverted = {} /\ Diverted' = {}
      BY <2>2 DEF TunIInv, HalvesInv, Diverted
    <2>6. HalvesInv' /\ ExclusionsFirst'
      BY <2>2, <2>5 DEF HalvesInv, ExclusionsFirst
    <2>7. StableInv'
      BY <2>2 DEF TunIInv, StableInv
    <2>8. QED
      BY <2>3, <2>4, <2>6, <2>7 DEF TunIInv
  <1>2. CASE ExcludeServer
    <2>1. profile.server \in Seq(IPv4s) /\ idx \in 1..Len(profile.server)
      BY <1>2 DEF ExcludeServer, TunIInv, TunTypeOK
    <2>2. profile.server[idx] \in IPv4s
      BY <2>1
    <2>3. /\ exclude' \in Seq(IPv4s)
          /\ Range(exclude) \cup {profile.server[idx]} \subseteq Range(exclude')
      BY <1>2, <2>2, RangeAppend DEF ExcludeServer, TunIInv, TunTypeOK
    <2>4. /\ tunStep = "exclude" /\ tunStep' = "exclude"
          /\ UNCHANGED <<gateway, roamed, routes, kept, flushed>>
      BY <1>2 DEF ExcludeServer, netVars, routeVars
    <2>5. TunTypeOK'
      BY <1>2, <2>3 DEF ExcludeServer, netVars, routeVars, deviceVars, TunIInv, TunTypeOK
    <2>6. ServerExcluded'
      BY <1>2, <2>1, <2>3 DEF ExcludeServer, TunIInv, TunTypeOK, ServerExcluded
    <2>7. AdapterHeld' /\ TunCounted' /\ GatewayKnown'
      BY <1>2 DEF ExcludeServer, netVars, deviceVars, TunIInv, AdapterHeld, TunCounted, GatewayKnown
    <2>8. Diverted = {} /\ Diverted' = {}
      BY <2>4 DEF TunIInv, HalvesInv, Diverted
    <2>9. HalvesInv' /\ ExclusionsFirst'
      BY <2>4, <2>8 DEF HalvesInv, ExclusionsFirst
    <2>10. StableInv'
      BY <2>4 DEF TunIInv, StableInv
    <2>11. QED
      BY <2>5, <2>6, <2>7, <2>9, <2>10 DEF TunIInv
  <1>3. CASE OpenAdapter
    <2>1. profile.server \in Seq(IPv4s)
      BY DEF TunIInv, TunTypeOK
    <2>2. Range(profile.server) \subseteq Range(exclude)
      <3>1. \A j \in 1..Len(profile.server) : profile.server[j] \in Range(exclude)
        BY <1>3, <2>1 DEF OpenAdapter, TunIInv, TunTypeOK, ServerExcluded
      <3>2. DOMAIN profile.server = 1..Len(profile.server)
        BY <2>1
      <3>3. \A x \in Range(profile.server) : \E j \in 1..Len(profile.server) : x = profile.server[j]
        BY <3>2 DEF Range
      <3>4. QED
        BY <3>1, <3>3
    <2>3. TunTypeOK' /\ AdapterHeld'
      BY <1>3 DEF OpenAdapter, netVars, routeVars, TunIInv, TunTypeOK, AdapterHeld, TunCounted
    <2>4. ServerExcluded' /\ TunCounted' /\ GatewayKnown'
      BY <1>3, <2>2 DEF OpenAdapter, netVars, TunIInv, ServerExcluded, TunCounted, GatewayKnown
    <2>5. HalvesInv' /\ ExclusionsFirst' /\ StableInv'
      BY <1>3, RoutesAlone DEF OpenAdapter, netVars, routeVars
    <2>6. QED
      BY <2>3, <2>4, <2>5 DEF TunIInv
  <1>4. CASE SetupStack
    <2>1. /\ tunStep = "stack" /\ tunStep' \in {"cancel", "address"}
          /\ pump' \in [Tuns -> [Pumps -> {"off", "running", "gone"}]]
      BY <1>4 DEF SetupStack, Fail, TunIInv, TunTypeOK, TunCounted
    <2>2. TunTypeOK'
      BY <1>4, <2>1 DEF SetupStack, netVars, routeVars, TunIInv, TunTypeOK
    <2>3. ServerExcluded' /\ AdapterHeld' /\ TunCounted' /\ GatewayKnown'
      BY <1>4, <2>1 DEF SetupStack, TunIInv, ServerExcluded, AdapterHeld, TunCounted, GatewayKnown
    <2>4. HalvesInv' /\ ExclusionsFirst' /\ StableInv'
      BY <1>4, <2>1, RoutesAlone DEF SetupStack, netVars, routeVars
    <2>5. QED
      BY <2>2, <2>3, <2>4 DEF TunIInv
  <1>5. CASE SetAddress
    <2>1. /\ tunStep = "address" /\ tunStep' \in {"cancel", "add"} /\ idx' \in {idx, 1}
          /\ phyGW' \in {phyGW, gateway, NoGateway}
          /\ tunStep' = "add" => /\ idx' = 1 /\ phyGW' \in {gateway, NoGateway}
                                 /\ exclude # <<>> => phyGW' # NoGateway
          /\ UNCHANGED <<tuns, profile, exclude, gateway, roams, roamed, routes, kept, flushed,
                         adapter, cancelled, pump>>
      BY <1>5 DEF SetAddress, Fail, physicalGateway, netVars, routeVars, deviceVars
    <2>2. TunTypeOK'
      BY <2>1 DEF TunIInv, TunTypeOK
    <2>3. ServerExcluded' /\ AdapterHeld' /\ TunCounted' /\ GatewayKnown'
      BY <2>1 DEF TunIInv, ServerExcluded, AdapterHeld, TunCounted, GatewayKnown
    <2>4. Diverted = {} /\ Diverted' = {} /\ Exclusions' = Exclusions
      BY <2>1 DEF TunIInv, HalvesInv, Diverted, Exclusions
    <2>5. HalvesInv' /\ ExclusionsFirst'
      BY <2>1, <2>4 DEF HalvesInv, ExclusionsFirst
    <2>6. StableInv'
      BY <2>1, <2>4 DEF TunIInv, StableInv
    <2>7. QED
      BY <2>2, <2>3, <2>5, <2>6 DEF TunIInv
  <1>6. CASE AddRoute
    <2> DEFINE r == Route(routeList[idx], IF routeList[idx] \in Range(Halves) THEN "tun" ELSE phyGW)
    <2>1. /\ tunStep = "add" /\ idx \in 1..Len(routeList) /\ exclude \in Seq(IPv4s)
          /\ UNCHANGED <<tuns, profile, exclude, phyGW, gateway, roams, roamed, kept, flushed,
                         adapter, cancelled, pump>>
      BY <1>6 DEF AddRoute, netVars, deviceVars, TunIInv, TunTypeOK
    <2>2. \/ tunStep' = "cancel" /\ UNCHANGED <<routes, idx>>
          \/ routes' = routes \cup {r} /\ idx' = idx + 1 /\ UNCHANGED tunStep
      BY <1>6 DEF AddRoute, Fail
    <2>3. \/ idx > Len(exclude) /\ r \in ToTun
          \/ /\ idx \in 1..Len(exclude) /\ exclude # <<>> /\ r = Route(exclude[idx], phyGW)
             /\ exclude[idx] \in IPv4s /\ phyGW \in Gateways /\ r \notin ToTun
      <3>1. /\ Len(routeList) = Len(exclude) + 2
            /\ idx <= Len(exclude) => /\ routeList[idx] = exclude[idx] /\ exclude[idx] \in IPv4s
                                      /\ routeList[idx] \notin Range(Halves)
            /\ idx > Len(exclude) => routeList[idx] \in Range(Halves)
        BY <2>1, RouteListOrder
      <3>2. CASE idx > Len(exclude)
        BY <3>1, <3>2 DEF ToTun
      <3>3. CASE idx <= Len(exclude)
        <4>1. exclude # <<>> /\ phyGW \in Gateways
          BY <2>1, <3>3 DEF TunIInv, TunTypeOK, GatewayKnown
        <4>2. r = Route(exclude[idx], phyGW) /\ r \notin ToTun
          BY <3>1, <3>3, HalvesTwo DEF Route
        <4>3. QED
          BY <2>1, <3>1, <3>3, <4>1, <4>2
      <3>4. QED
        BY <2>1, <3>2, <3>3
    <2> HIDE DEF r
    <2>4. r \in ToTun \cup {Route(a, g) : a \in IPv4s, g \in Gateways}
      BY <2>3
    <2>5. TunTypeOK'
      BY <2>1, <2>2, <2>4 DEF TunIInv, TunTypeOK
    <2>6. ServerExcluded' /\ AdapterHeld' /\ TunCounted' /\ GatewayKnown'
      BY <2>1, <2>2 DEF TunIInv, ServerExcluded, AdapterHeld, TunCounted, GatewayKnown
    <2>7. HalvesInv'
      BY <2>1, <2>2 DEF HalvesInv
    <2>8. ExclusionsFirst'
      <3>1. \A j \in 1..Len(exclude) :
              j < idx => Route(exclude[j], phyGW) \in routes \cup flushed
        BY <2>1 DEF TunIInv, ExclusionsFirst
      <3>2. tunStep' = "add" => \A j \in 1..Len(exclude) :
              j < idx' => Route(exclude[j], phyGW) \in routes' \cup flushed
        BY <2>1, <2>2, <2>3, <3>1
      <3>3. Diverted' # {} => \A j \in 1..Len(exclude) :
              phyGW \in Gateways /\ Route(exclude[j], phyGW) \in routes \cup flushed
        <4>1. CASE Diverted # {}
          BY <4>1 DEF TunIInv, ExclusionsFirst
        <4>2. CASE Diverted = {} /\ Diverted' # {}
          <5>1. r \in ToTun
            BY <2>1, <2>2, <4>2 DEF Diverted
          <5>2. idx > Len(exclude)
            BY <2>3, <5>1
          <5>3. \A j \in 1..Len(exclude) : exclude # <<>>
            BY <2>1
          <5>4. exclude # <<>> => phyGW \in Gateways
            BY <2>1 DEF TunIInv, TunTypeOK, GatewayKnown
          <5>5. QED
            BY <2>1, <3>1, <5>2, <5>3, <5>4
        <4>3. QED
          BY <4>1, <4>2
      <3>4. routes \subseteq routes'
        BY <2>2
      <3>5. QED
        BY <2>1, <3>2, <3>3, <3>4 DEF ExclusionsFirst
    <2>9. StableInv'
      <3> SUFFICES ASSUME ~roamed PROVE StableInv'
        BY <2>1 DEF StableInv
      <3>1. phyGW \in {gateway, NoGateway} /\ routes \subseteq kept \cup ToTun \cup Exclusions
        BY <2>1 DEF TunIInv, StableInv
      <3>2. \A j \in 1..Len(exclude) : exclude[j] \in Range(exclude)
        BY <2>1 DEF Range
      <3>3. r \in ToTun \cup Exclusions
        BY <2>3, <3>1, <3>2 DEF Exclusions
      <3>4. Exclusions' = Exclusions
        BY <2>1 DEF Exclusions
      <3>5. QED
        BY <2>1, <2>2, <3>1, <3>3, <3>4 DEF StableInv
    <2>10. QED
      BY <2>5, <2>6, <2>7, <2>8, <2>9 DEF TunIInv
  <1>7. CASE Created
    <2>1. /\ tunStep = "add" /\ tunStep' = "up" /\ idx' = 1
          /\ UNCHANGED <<tuns, profile, exclude, phyGW, gateway, roams, roamed, routes, kept,
                         flushed, adapter, cancelled, pump>>
      BY <1>7 DEF Created, netVars, routeVars, deviceVars
    <2>2. TunTypeOK'
      BY <2>1 DEF TunIInv, TunTypeOK
    <2>3. ServerExcluded' /\ AdapterHeld' /\ TunCounted' /\ GatewayKnown'
      BY <2>1 DEF TunIInv, ServerExcluded, AdapterHeld, TunCounted, GatewayKnown
    <2>4. HalvesInv' /\ ExclusionsFirst' /\ StableInv'
      BY <2>1, RoutesAlone
    <2>5. QED
      BY <2>2, <2>3, <2>4 DEF TunIInv
  <1>8. CASE StopTun
    <2>1. /\ tunStep = "up" /\ tunStep' = "cancel"
          /\ UNCHANGED <<tuns, profile, exclude, idx, phyGW, gateway, roams, roamed, routes, kept,
                         flushed, adapter, cancelled, pump>>
      BY <1>8 DEF StopTun, netVars, routeVars, deviceVars
    <2>2. TunTypeOK'
      BY <2>1 DEF TunIInv, TunTypeOK
    <2>3. ServerExcluded' /\ AdapterHeld' /\ TunCounted' /\ GatewayKnown'
      BY <2>1 DEF TunIInv, ServerExcluded, AdapterHeld, TunCounted, GatewayKnown
    <2>4. HalvesInv' /\ ExclusionsFirst' /\ StableInv'
      BY <2>1, RoutesAlone
    <2>5. QED
      BY <2>2, <2>3, <2>4 DEF TunIInv
  <1>9. CASE CloseCancels
    <2>1. /\ tunStep = "cancel" /\ tunStep' = "halves" /\ idx' = 1
          /\ cancelled' = [cancelled EXCEPT ![tuns] = TRUE]
          /\ UNCHANGED <<tuns, profile, exclude, phyGW, gateway, roams, roamed, routes, kept,
                         flushed, adapter, pump>>
      BY <1>9 DEF CloseCancels, netVars, routeVars
    <2>2. cancelled' \in [Tuns -> BOOLEAN]
      <3>1. cancelled \in [Tuns -> BOOLEAN]
        BY DEF TunIInv, TunTypeOK
      <3>2. QED
        BY <2>1, <3>1
    <2>3. TunTypeOK'
      BY <2>1, <2>2 DEF TunIInv, TunTypeOK
    <2>4. ServerExcluded' /\ AdapterHeld' /\ TunCounted' /\ GatewayKnown'
      BY <2>1 DEF TunIInv, ServerExcluded, AdapterHeld, TunCounted, GatewayKnown
    <2>5. Diverted' = Diverted /\ Exclusions' = Exclusions
      BY <2>1 DEF Diverted, Exclusions
    <2>6. HalvesInv' /\ ExclusionsFirst' /\ StableInv'
      BY <2>1, <2>5 DEF TunIInv, HalvesInv, ExclusionsFirst, StableInv
    <2>7. QED
      BY <2>3, <2>4, <2>6 DEF TunIInv
  <1>10. CASE DeleteHalf
    <2> DEFINE here == {r \in routes : idx <= Len(Halves) /\ r.dst = Halves[idx]}
    <2>1. /\ tunStep = "halves" /\ tunStep' \in {"halves", "exclusions"}
          /\ routes' \in {routes, routes \ here} /\ kept' = (kept \cup here) \cap routes'
          /\ UNCHANGED <<tuns, profile, exclude, gateway, roams, roamed, flushed, adapter,
                         cancelled, pump>>
      BY <1>10 DEF DeleteHalf, netVars, deviceVars
    <2>2. /\ idx <= Len(Halves) => idx' = idx + 1 /\ UNCHANGED <<tunStep, phyGW>>
          /\ ~(idx <= Len(Halves)) =>
               phyGW' \in {gateway, NoGateway} /\ idx' = 1 /\ tunStep' = "exclusions" /\ here = {}
      BY <1>10 DEF DeleteHalf, physicalGateway
    <2>3. /\ routes' \subseteq routes /\ kept' \subseteq routes'
          /\ \A x \in routes' \ kept' : x \in routes \ kept /\ x \notin here
          /\ \A x \in routes \ routes' : x \in here
      BY <2>1
    <2>4. here = {} \/ (idx \in 1..2 /\ \A x \in here : x.dst = Halves[idx])
      BY HalvesTwo DEF TunIInv, TunTypeOK
    <2>5. \A x \in here : \A a \in IPv4s : \A g : x # Route(a, g)
      <3>1. \A x \in here : x.dst \in Range(Halves)
        BY <2>4, HalvesTwo
      <3>2. QED
        BY <3>1, HalvesTwo DEF Route
    <2> HIDE DEF here
    <2>6. TunTypeOK'
      <3>1. routes' \cup flushed' \subseteq ToTun \cup {Route(a, g) : a \in IPv4s, g \in Gateways}
        BY <2>1, <2>3 DEF TunIInv, TunTypeOK
      <3>2. idx' \in Nat \ {0} /\ phyGW' \in Gateways \cup {NoGateway}
        BY <2>2 DEF TunIInv, TunTypeOK
      <3>3. QED
        BY <2>1, <2>3, <3>1, <3>2 DEF TunIInv, TunTypeOK
    <2>7. ServerExcluded' /\ AdapterHeld' /\ TunCounted' /\ GatewayKnown'
      BY <2>1 DEF TunIInv, ServerExcluded, AdapterHeld, TunCounted, GatewayKnown
    <2>8. Diverted' \subseteq Diverted /\ \A x \in Diverted' : x \notin here /\ x \in routes
      BY <2>3 DEF Diverted
    <2>9. \A x \in Diverted' : idx <= Len(Halves) => x.dst # Halves[idx]
      BY <2>8 DEF here
    <2>10. ~(idx <= Len(Halves)) => Diverted' = {}
      <3>1. ASSUME ~(idx <= Len(Halves)), NEW x \in Diverted' PROVE FALSE
        <4>1. x \in Diverted /\ x \in ToTun
          BY <2>8, <3>1 DEF Diverted
        <4>2. x.dst # Halves[1] /\ x.dst # Halves[2]
          BY <2>1, <3>1, <4>1, HalvesTwo DEF TunIInv, TunTypeOK, HalvesInv
        <4>3. QED
          BY <4>1, <4>2, HalvesTwo DEF Route
      <3>2. QED
        BY <3>1
    <2>11. HalvesInv'
      <3>1. CASE idx <= Len(Halves)
        <4>1. tunStep' = "halves" /\ idx' = idx + 1
          BY <2>1, <2>2, <3>1
        <4>2. \A k \in 1..Len(Halves) : k < idx => \A x \in Diverted' : x.dst # Halves[k]
          BY <2>1, <2>8 DEF TunIInv, HalvesInv
        <4>3. \A k \in 1..Len(Halves) : k < idx + 1 => \A x \in Diverted' : x.dst # Halves[k]
          BY <2>9, <3>1, <4>2, HalvesTwo DEF TunIInv, TunTypeOK
        <4>4. QED
          BY <4>1, <4>3 DEF HalvesInv
      <3>2. CASE ~(idx <= Len(Halves))
        BY <2>2, <2>10, <3>2 DEF HalvesInv
      <3>3. QED
        BY <3>1, <3>2
    <2>12. ExclusionsFirst'
      <3>1. CASE idx <= Len(Halves)
        <4>1. \A j \in 1..Len(exclude) : exclude[j] \in IPv4s
          BY DEF TunIInv, TunTypeOK
        <4>2. Diverted' # {} => \A j \in 1..Len(exclude) :
                phyGW \in Gateways /\ Route(exclude[j], phyGW) \in routes \cup flushed
          BY <2>8 DEF TunIInv, ExclusionsFirst
        <4>3. \A j \in 1..Len(exclude) :
                Route(exclude[j], phyGW) \in routes => Route(exclude[j], phyGW) \in routes'
          BY <2>3, <2>5, <4>1
        <4>4. QED
          BY <2>1, <2>2, <3>1, <4>2, <4>3 DEF ExclusionsFirst
      <3>2. CASE ~(idx <= Len(Halves))
        BY <2>2, <2>10, <3>2 DEF ExclusionsFirst
      <3>3. QED
        BY <3>1, <3>2
    <2>13. StableInv'
      <3> SUFFICES ASSUME ~roamed PROVE StableInv'
        BY <2>1 DEF StableInv
      <3>1. Exclusions' = Exclusions
        BY <2>1 DEF Exclusions
      <3>2. routes' \subseteq kept' \cup ToTun \cup Exclusions
        BY <2>3 DEF TunIInv, StableInv
      <3>3. CASE idx <= Len(Halves)
        BY <2>1, <2>2, <3>1, <3>2, <3>3 DEF StableInv
      <3>4. CASE ~(idx <= Len(Halves))
        <4>1. \A x \in Range(exclude) : \E j \in 1..Len(exclude) : x = exclude[j]
          BY DEF TunIInv, TunTypeOK, Range
        <4>2. \A x \in routes' \ kept' : x \in Exclusions
          BY <2>10, <3>2, <3>4 DEF Diverted
        <4>3. \A x \in routes' \ kept' : \E j \in 1..Len(exclude) :
                j >= 1 /\ x = Route(exclude[j], gateway)
          BY <4>1, <4>2 DEF Exclusions
        <4>4. QED
          BY <2>1, <2>2, <3>1, <3>2, <3>4, <4>3 DEF StableInv
      <3>5. QED
        BY <3>3, <3>4
    <2>14. QED
      BY <2>6, <2>7, <2>11, <2>12, <2>13 DEF TunIInv
  <1>11. CASE DeleteExclusion
    <2> DEFINE here == {r \in routes : /\ idx <= Len(exclude) /\ r.dst = exclude[idx]
                                       /\ phyGW \in {r.via, NoGateway}}
    <2>1. /\ tunStep = "exclusions" /\ tunStep' \in {"exclusions", "device"}
          /\ routes' \in {routes, routes \ here} /\ kept' = (kept \cup here) \cap routes'
          /\ UNCHANGED <<tuns, profile, exclude, phyGW, gateway, roams, roamed, flushed, adapter,
                         cancelled, pump>>
      BY <1>11 DEF DeleteExclusion, netVars, deviceVars
    <2>2. IF idx <= Len(exclude) THEN idx' = idx + 1 /\ UNCHANGED tunStep
                                 ELSE tunStep' = "device" /\ UNCHANGED idx
      BY <1>11 DEF DeleteExclusion
    <2>3. /\ routes' \subseteq routes /\ kept' \subseteq routes'
          /\ \A x \in routes' \ kept' : x \in routes \ kept /\ x \notin here
      BY <2>1
    <2> HIDE DEF here
    <2>4. exclude \in Seq(IPv4s) /\ idx \in Nat \ {0} /\ Len(exclude) \in Nat
      BY DEF TunIInv, TunTypeOK
    <2>5. TunTypeOK'
      <3>1. routes' \cup flushed' \subseteq ToTun \cup {Route(a, g) : a \in IPv4s, g \in Gateways}
        BY <2>1, <2>3 DEF TunIInv, TunTypeOK
      <3>2. idx' \in Nat \ {0}
        BY <2>2, <2>4
      <3>3. QED
        BY <2>1, <2>3, <3>1, <3>2 DEF TunIInv, TunTypeOK
    <2>6. ServerExcluded' /\ AdapterHeld' /\ TunCounted' /\ GatewayKnown'
      BY <2>1 DEF TunIInv, ServerExcluded, AdapterHeld, TunCounted, GatewayKnown
    <2>7. Diverted' = {}
      BY <2>1, <2>3 DEF TunIInv, HalvesInv, Diverted
    <2>8. HalvesInv' /\ ExclusionsFirst'
      BY <2>1, <2>7 DEF HalvesInv, ExclusionsFirst
    <2>9. StableInv'
      <3> SUFFICES ASSUME ~roamed PROVE StableInv'
        BY <2>1 DEF StableInv
      <3>1. Exclusions' = Exclusions
        BY <2>1 DEF Exclusions
      <3>2. routes' \subseteq kept' \cup ToTun \cup Exclusions
        BY <2>3 DEF TunIInv, StableInv
      <3>3. /\ phyGW \in {gateway, NoGateway}
            /\ \A x \in routes' \ kept' : \E j \in 1..Len(exclude) :
                 j >= idx /\ x = Route(exclude[j], gateway)
        BY <2>1, <2>3 DEF TunIInv, StableInv
      <3>4. CASE idx <= Len(exclude)
        <4>1. \A x \in routes' \ kept' : x # Route(exclude[idx], gateway)
          BY <2>3, <3>3, <3>4 DEF here, Route
        <4>2. \A x \in routes' \ kept' : \E j \in 1..Len(exclude) :
                j >= idx + 1 /\ x = Route(exclude[j], gateway)
          BY <2>4, <3>3, <4>1
        <4>3. idx' = idx + 1 /\ tunStep' = "exclusions"
          BY <2>1, <2>2, <3>4
        <4>4. QED
          BY <2>1, <3>1, <3>2, <3>3, <4>2, <4>3 DEF StableInv
      <3>5. CASE ~(idx <= Len(exclude))
        <4>1. routes' \subseteq kept'
          BY <2>4, <3>3, <3>5
        <4>2. QED
          BY <2>2, <3>5, <4>1 DEF StableInv
      <3>6. QED
        BY <3>4, <3>5
    <2>10. QED
      BY <2>5, <2>6, <2>8, <2>9 DEF TunIInv
  <1>12. CASE CloseDevice
    <2>1. /\ tunStep = "device" /\ tunStep' = "idle"
          /\ adapter' = [adapter EXCEPT ![tuns] = "closed"]
          /\ routes' \subseteq routes /\ kept' = kept \cap routes'
          /\ exclude' = <<>> /\ idx' = 1 /\ phyGW' = NoGateway /\ flushed' = {}
          /\ UNCHANGED <<tuns, profile, gateway, roams, roamed, cancelled, pump>>
      BY <1>12 DEF CloseDevice, netVars
    <2>2. exclude' \in Seq(IPv4s)
      BY <2>1
    <2>3. TunTypeOK'
      BY <2>1, <2>2 DEF TunIInv, TunTypeOK, TunCounted
    <2>4. ServerExcluded' /\ AdapterHeld' /\ TunCounted' /\ GatewayKnown'
      BY <2>1 DEF TunIInv, TunTypeOK, ServerExcluded, AdapterHeld, TunCounted, GatewayKnown
    <2>5. Diverted' = {}
      BY <2>1 DEF TunIInv, HalvesInv, Diverted
    <2>6. HalvesInv' /\ ExclusionsFirst'
      BY <2>1, <2>5 DEF HalvesInv, ExclusionsFirst
    <2>7. StableInv'
      BY <2>1 DEF TunIInv, StableInv
    <2>8. QED
      BY <2>3, <2>4, <2>6, <2>7 DEF TunIInv
  <1>13. ASSUME NEW d \in Tuns, NEW q \in Pumps, PumpEnds(d, q)
        PROVE  TunIInv'
    <2>1. /\ pump' \in [Tuns -> [Pumps -> {"off", "running", "gone"}]]
          /\ UNCHANGED <<tunStep, tuns, profile, exclude, idx, phyGW, gateway, roams, roamed,
                         routes, kept, flushed, adapter, cancelled>>
      BY <1>13 DEF PumpEnds, netVars, routeVars, TunIInv, TunTypeOK
    <2>2. TunTypeOK'
      BY <2>1 DEF TunIInv, TunTypeOK
    <2>3. QED
      BY <2>1, <2>2 DEF TunIInv, ServerExcluded, AdapterHeld, TunCounted, GatewayKnown, HalvesInv,
         ExclusionsFirst, StableInv, Diverted, Exclusions
  <1>14. ASSUME NEW g \in Gateways \cup {NoGateway}, Roam(g)
        PROVE  TunIInv'
    <2>1. roamed' \in BOOLEAN /\ roams' \in 0..MaxRoams
      BY <1>14 DEF Roam, TunIInv, TunTypeOK
    <2>2. /\ routes' \subseteq routes /\ kept' = kept \cap routes'
          /\ flushed' = flushed \cup (routes \ routes')
          /\ gateway' = g /\ roamed' = (roamed \/ tunStep \notin {"idle", "exclude"})
          /\ UNCHANGED <<tunStep, tuns, profile, exclude, idx, phyGW, adapter, cancelled, pump>>
      BY <1>14 DEF Roam, deviceVars
    <2>3. TunTypeOK'
      BY <2>1, <2>2 DEF TunIInv, TunTypeOK
    <2>4. ServerExcluded' /\ AdapterHeld' /\ TunCounted' /\ GatewayKnown'
      BY <2>2 DEF TunIInv, ServerExcluded, AdapterHeld, TunCounted, GatewayKnown
    <2>5. Diverted' \subseteq Diverted /\ routes' \cup flushed' = routes \cup flushed
      BY <2>2 DEF Diverted
    <2>6. HalvesInv' /\ ExclusionsFirst'
      BY <2>2, <2>5 DEF TunIInv, HalvesInv, ExclusionsFirst
    <2>7. StableInv'
      <3>1. ~roamed' => ~roamed /\ tunStep' = tunStep /\ tunStep \in {"idle", "exclude"}
        BY <2>2
      <3>2. ~roamed' => routes' \subseteq kept'
        BY <2>2, <3>1 DEF TunIInv, StableInv
      <3>3. QED
        BY <3>1, <3>2 DEF StableInv
    <2>8. QED
      BY <2>3, <2>4, <2>6, <2>7 DEF TunIInv
  <1>15. CASE UNCHANGED tunVars
    BY <1>15 DEF tunVars, TunIInv, TunTypeOK, ServerExcluded, AdapterHeld,
       TunCounted, GatewayKnown, HalvesInv, ExclusionsFirst, StableInv, Diverted, Exclusions
  <1>16. QED
    BY <1>1, <1>2, <1>3, <1>4, <1>5, <1>6, <1>7, <1>8,
       <1>9, <1>10, <1>11, <1>12, <1>13, <1>14, <1>15
    DEF TunNext, CreateStep, CloseStep

(* The inductive invariant of the device holds.                            *)
THEOREM TunInvariance == TunSpec => []TunIInv
  BY TunInitial, TunStep, PTL DEF TunSpec

(* For any lists of exclusions and addresses of the server, whatever       *)
(* command of Create and Close fails and whenever the network changes: no  *)
(* order of the commands sends the tunnel into itself, and what is left    *)
(* after Close was left by a command that failed (TunRoutes).              *)
THEOREM TunRoutesCorrect == TunSpec => []TunRoutes
  <1>1. TunIInv => TunRoutes
    <2> SUFFICES ASSUME TunIInv PROVE TunRoutes
      OBVIOUS
    <2>1. NoLoop
      <3> SUFFICES ASSUME Diverted # {}, NEW ip \in Range(profile.server)
                   PROVE  \E g \in Gateways : Route(ip, g) \in routes \cup flushed
        BY DEF NoLoop, Diverted
      <3>1. ip \in Range(exclude)
        BY DEF TunIInv, HalvesInv, ServerExcluded
      <3>2. PICK j \in 1..Len(exclude) : ip = exclude[j]
        BY <3>1 DEF TunIInv, TunTypeOK, Range
      <3>3. phyGW \in Gateways /\ Route(ip, phyGW) \in routes \cup flushed
        BY <3>2 DEF TunIInv, ExclusionsFirst
      <3>4. QED
        BY <3>3
    <2>2. ClosedLeavesNothing
      BY DEF TunIInv, AdapterHeld, HalvesInv, StableInv, ClosedLeavesNothing, Diverted
    <2>3. QED
      BY <2>1, <2>2 DEF TunRoutes
  <1>2. QED
    BY <1>1, TunInvariance, PTL

-----------------------------------------------------------------------------
(* All the components                                                      *)

(* The inductive invariant of each of them.                                *)
ComponentsIInv ==
  /\ CoreIInv /\ EntryIInv /\ SocksIInv /\ FrontIInv
  /\ TunIInv /\ DnsTyped /\ StoreIInv /\ ServeIInv

(* They hold where the components begin, driven or not.                    *)
LEMMA ComponentsStart == Init => ComponentsIInv
  BY CoreInitial, EntryInitial, SocksInitial, FrontStarts, TunInitial, DnsStarts, StoreStarts,
     ServeStarts
  DEF Init, ComponentsIInv

(* A step is one of the driven component and leaves the others alone, so   *)
(* each of them takes a step of its own specification or none.             *)
LEMMA ComponentsSteps == ComponentsIInv /\ [Next]_vars => ComponentsIInv'
<1> SUFFICES ASSUME ComponentsIInv, [Next]_vars PROVE ComponentsIInv'
  OBVIOUS
<1>1. /\ [CoreNext]_coreVars /\ [EntryNext]_entryVars /\ [SocksNext]_socksVars /\ [FrontNext]_frontVars
      /\ [TunNext]_tunVars /\ [DnsNext]_dnsVars /\ [StoreNext]_storeVars /\ [ServeNext]_serveVars
  BY DEF Next, vars
<1> QED
  BY <1>1, CoreSteps, EntryStep, SocksSteps, FrontSteps, TunStep, DnsTypedInductive, StoreSteps, ServeSteps
  DEF ComponentsIInv

(* Whichever component is driven, for any number of generations, profiles, *)
(* connections, files and peers: the managed core is the one of the        *)
(* current generation, the entry's table is exact, a SOCKS5 dialogue ends  *)
(* in the tunnel that was asked for or none, an accepted configuration is  *)
(* usable, a share link yields its profile, and every variable keeps its   *)
(* type.                                                                   *)
THEOREM ComponentsCorrect == Spec => []ComponentsInv
<1>1. ComponentsIInv => ComponentsInv
  <2> SUFFICES ASSUME ComponentsIInv PROVE ComponentsInv
    OBVIOUS
  <2>1. CoreInv /\ EntryInv /\ SocksInv /\ FrontInv
    BY SocksImplied
    DEF ComponentsIInv, CoreIInv, EntryIInv, FrontIInv, FrontInv, FrontTrusted, FrontUsable
  <2>2. TunTypeOK /\ DnsTypeOK /\ StoreTypeOK /\ ServeTypeOK /\ LinkRoundTrip
    BY DnsTyping, StoreTyping DEF ComponentsIInv, TunIInv, StoreIInv, ServeIInv
  <2> QED
    BY <2>1, <2>2 DEF ComponentsInv
<1> QED
  BY <1>1, ComponentsStart, ComponentsSteps, PTL DEF Spec

=============================================================================
