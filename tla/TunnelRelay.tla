---------------------------- MODULE TunnelRelay ----------------------------
(***************************************************************************)
(* One CONNECT tunnel, in each of the six places the repository relays one *)
(*                                                                         *)
(*   "h1", "h2"       frontend/relay.go     serveH1Connect, handleRequest  *)
(*   "h3"             h3frontend/relay.go   relayHandler.ServeHTTP         *)
(*   "socks", "http"  tui entry.go          serveSocks5, serveHTTPConnect  *)
(*   "tun"            tui tun_windows.go    handleTCP                      *)
(*                                                                         *)
(* All have one shape: dial the upstream, answer the client, run a copy    *)
(* goroutine in each direction, and end when the first is done.  They      *)
(* differ in what they close then and in how long they wait for the        *)
(* second.  Data is a number of chunks: sent by an end, taken by the copy  *)
(* goroutine, delivered to the other end.                                  *)
(***************************************************************************)
EXTENDS Naturals

CONSTANT MaxChunks   \* bound: chunks each end sends

ASSUME MaxChunksNat == MaxChunks \in Nat

VARIABLES
  kind,      \* which of the six relays this is
  pc,        \* the handler goroutine
  answer,    \* what the client was told
  client,    \* [sent, taken, got, end, stalled]: the client and its chunks
  upstream,  \* the same of the upstream
  up,        \* our socket to the upstream
  down,      \* our side of the client connection: [read, write] open?
  c2u, u2c,  \* the two copy goroutines
  done,      \* tokens in the channel done
  pending,   \* copy goroutines the handler still waits for
  cancelled  \* Device.ctx was cancelled, or Manager.Stop closed the client

vars == <<kind, pc, answer, client, upstream, up, down, c2u, u2c, done, pending,
          cancelled>>
ends == <<client, upstream, cancelled>>
copies == <<c2u, u2c, done, pending>>

Kinds == {"h1", "h2", "h3", "socks", "http", "tun"}
Frontend == {"h1", "h2"}
Entry == {"socks", "http"}

Init ==
  /\ kind \in Kinds
  /\ pc = "request"
  /\ answer = "none"
  /\ client = [sent |-> 0, taken |-> 0, got |-> 0, end |-> "open", stalled |-> FALSE]
  /\ upstream = [sent |-> 0, taken |-> 0, got |-> 0, end |-> "open", stalled |-> FALSE]
  /\ up = "none"
  /\ down = [read |-> TRUE, write |-> TRUE]
  /\ c2u = "off" /\ u2c = "off"
  /\ done = 0 /\ pending = 2
  /\ cancelled = FALSE

-----------------------------------------------------------------------------
(* The two ends.  "fin" is an orderly end of sending, "gone" a reset; a    *)
(* stalled end does not read.                                              *)

ClientStep ==
  /\ \/ /\ client.end = "open" /\ client.sent < MaxChunks
        /\ client' = [client EXCEPT !.sent = @ + 1]
     \/ /\ client.end = "open"
        /\ client' = [client EXCEPT !.end = "fin"]
     \/ /\ client.end # "gone"
        /\ client' = [client EXCEPT !.end = "gone"]
     \/ client' = [client EXCEPT !.stalled = ~@]
  /\ UNCHANGED <<kind, pc, answer, upstream, up, down, copies, cancelled>>

UpstreamStep ==
  /\ up = "open"
  /\ \/ /\ upstream.end = "open" /\ upstream.sent < MaxChunks
        /\ upstream' = [upstream EXCEPT !.sent = @ + 1]
     \/ /\ upstream.end = "open"
        /\ upstream' = [upstream EXCEPT !.end = "fin"]
     \/ /\ upstream.end # "gone"
        /\ upstream' = [upstream EXCEPT !.end = "gone"]
     \/ upstream' = [upstream EXCEPT !.stalled = ~@]
  /\ UNCHANGED <<kind, pc, answer, client, up, down, copies, cancelled>>

(* The TUI disconnects: Device.Close cancels the context the tun splice    *)
(* waits for, Manager.Stop closes the accepted connection.                 *)
Cancel ==
  /\ kind \in Entry \cup {"tun"} /\ ~cancelled
  /\ cancelled' = TRUE
  /\ down' = IF kind = "tun" THEN down ELSE [read |-> FALSE, write |-> FALSE]
  /\ UNCHANGED <<kind, pc, answer, client, upstream, up, copies>>

-----------------------------------------------------------------------------
(* Before the tunnel                                                       *)

(* Mutant: the client's connection is left open.                           *)
CloseDeferredUpOnly(tunnelled) ==
  /\ pc' = "returned"
  /\ up' = IF up = "none" THEN up ELSE "closed"
  /\ down' = down

(* The deferred calls.  The handler's return ends the client's side, save  *)
(* for an HTTP/3 stream that HTTPStream took out of the server's hands.    *)
CloseDeferred(tunnelled) ==
  /\ pc' = "returned"
  /\ up' = IF up = "none" THEN up ELSE "closed"
  /\ down' = IF kind = "h3" /\ tunnelled THEN down ELSE [read |-> FALSE, write |-> FALSE]

Return(told) ==
  /\ answer' = told
  /\ CloseDeferred(FALSE)
  /\ UNCHANGED <<kind, ends, copies>>

Dial ==
  /\ pc = "dial"
  /\ up' = "open" /\ pc' = "head"
  /\ UNCHANGED <<kind, answer, ends, down, copies>>

StartCopies ==
  /\ c2u' = "read" /\ u2c' = "read"
  /\ pc' = "copying"
  /\ UNCHANGED <<kind, up, down, done, pending, cancelled>>

ReadRequest(refusals) ==
  /\ pc = "request"
  /\ \/ pc' = "dial" /\ UNCHANGED <<kind, answer, ends, up, down, copies>>
     \/ \E told \in refusals : Return(told)

(* The frontends: the request, the dial, the CONNECT to the upstream and   *)
(* its response head.  Bytes that came in the segment of a head stay in    *)
(* the bufio reader the copy goroutine goes on reading from.               *)
OpenFrontend(k, unread, refusals) ==
  /\ kind = k
  /\ \/ ReadRequest(unread \cup {"404"})
     \/ pc = "dial" /\ Return("502")
     \/ Dial
     \/ pc = "head" /\ \E told \in refusals : Return(told)
     \/ pc = "head" /\ answer' = "200" /\ StartCopies /\ UNCHANGED <<client, upstream>>

(* Mutant: the copy goroutine reads the socket and not the bufio reader.   *)
OpenH1Unbuffered ==
  /\ kind = "h1"
  /\ \/ ReadRequest({"404"})
     \/ Dial
     \/ pc = "head" /\ answer' = "200" /\ StartCopies
          /\ upstream' = [upstream EXCEPT !.taken = upstream.sent]
          /\ UNCHANGED client

(* HTTP/1.1 reads its request itself, and gives up without an answer, and  *)
(* writes a head of its own, which may fail; a response writer that is no  *)
(* HTTPStreamer ends an HTTP/3 tunnel after its 200.                       *)
OpenH1 == OpenFrontend("h1", {"none"}, {"502", "non2xx", "none"})
OpenH2 == OpenFrontend("h2", {}, {"502", "non2xx"})
OpenH3 == OpenFrontend("h3", {}, {"502", "non2xx", "200"})

OpenSocks5 ==
  /\ kind = "socks"
  /\ \/ ReadRequest({"none"})
     \/ pc = "dial" /\ Return("refused")
     \/ Dial
     \/ pc = "head" /\ Return("none")
     \/ /\ pc = "head" /\ down.write
        /\ answer' = "200" /\ StartCopies
        /\ UNCHANGED <<client, upstream>>

(* The k chunks that are in the bufio reader are written to the upstream   *)
(* before the splice, which reads the connection itself: without a         *)
(* deadline, and nothing wakes that write.                                 *)
OpenHTTPConnect ==
  /\ kind = "http"
  /\ \/ ReadRequest({"400"})
     \/ pc = "dial" /\ Return("502")
     \/ Dial
     \/ pc = "head" /\ Return("none")
     \/ /\ pc = "head" /\ down.write
        /\ answer' = "200" /\ pc' = "drain"
        /\ \E k \in 0..client.sent : client' = [client EXCEPT !.taken = k]
        /\ UNCHANGED <<kind, upstream, up, down, copies, cancelled>>
     \/ pc = "drain" /\ client.taken > 0 /\ upstream.end = "gone" /\ Return("200")
     \/ /\ pc = "drain"
        /\ client.taken > 0 => upstream.end # "gone" /\ ~upstream.stalled
        /\ upstream' = [upstream EXCEPT !.got = client.taken]
        /\ StartCopies
        /\ UNCHANGED <<answer, client>>

(* handleTCP has accepted the flow already; nobody is told of a failure.   *)
OpenTun ==
  /\ kind = "tun"
  /\ \/ pc = "request" /\ pc' = "dial" /\ UNCHANGED <<kind, answer, ends, up, down, copies>>
     \/ pc = "dial" /\ Return("none")
     \/ Dial
     \/ pc = "head" /\ StartCopies /\ UNCHANGED <<answer, client, upstream>>

-----------------------------------------------------------------------------
(* The copy goroutines: io.Copy alternates reads and writes and returns    *)
(* at the end of the source or on the first error.                         *)

ReadClient ==
  /\ c2u = "read" /\ down.read
  /\ client.taken < client.sent
  /\ client' = [client EXCEPT !.taken = @ + 1]
  /\ c2u' = "write"
  /\ UNCHANGED <<kind, pc, answer, upstream, up, down, u2c, done, pending, cancelled>>

(* A write to an end that does not read blocks.                            *)
WriteUpstream ==
  /\ c2u = "write" /\ up = "open"
  /\ upstream.end # "gone" /\ ~upstream.stalled
  /\ upstream' = [upstream EXCEPT !.got = @ + 1]
  /\ c2u' = "read"
  /\ UNCHANGED <<kind, pc, answer, client, up, down, u2c, done, pending, cancelled>>

(* End of the upload; the frontends then CloseWrite the upstream, which    *)
(* the Close that follows makes unobservable to our side.  The body of an  *)
(* HTTP/2 request is closed behind the last frame of the response, which   *)
(* does not leave while the client reads nothing.                          *)
EndUpload ==
  /\ \/ /\ c2u = "read"
        /\ \/ ~down.read /\ (kind = "h2" => ~client.stalled)
           \/ client.end = "gone"
           \/ client.end = "fin" /\ client.taken = client.sent
     \/ c2u = "write" /\ (up = "closed" \/ upstream.end = "gone")
  /\ c2u' = "done"
  /\ done' = done + 1
  /\ UNCHANGED <<kind, pc, answer, ends, up, down, u2c, pending>>

ReadUpstream ==
  /\ u2c = "read" /\ up = "open"
  /\ upstream.taken < upstream.sent
  /\ upstream' = [upstream EXCEPT !.taken = @ + 1]
  /\ u2c' = "write"
  /\ UNCHANGED <<kind, pc, answer, client, up, down, c2u, done, pending, cancelled>>

WriteClient ==
  /\ u2c = "write" /\ down.write
  /\ client.end # "gone" /\ ~client.stalled
  /\ client' = [client EXCEPT !.got = @ + 1]
  /\ u2c' = "read"
  /\ UNCHANGED <<kind, pc, answer, upstream, up, down, c2u, done, pending, cancelled>>

(* Neither the return of an HTTP/2 handler nor closing an HTTP/3 stream    *)
(* wakes a Write that is blocked in flow control.                          *)
EndDownload ==
  /\ \/ /\ u2c = "read"
        /\ \/ up = "closed"
           \/ upstream.end = "gone"
           \/ upstream.end = "fin" /\ upstream.taken = upstream.sent
     \/ /\ u2c = "write"
        /\ \/ client.end = "gone"
           \/ ~down.write /\ (kind \in {"h2", "h3"} => ~client.stalled)
  /\ u2c' = "done"
  /\ done' = done + 1
  /\ down' = IF kind = "h3" THEN [down EXCEPT !.write = FALSE] ELSE down
  /\ UNCHANGED <<kind, pc, answer, ends, up, c2u, pending>>

-----------------------------------------------------------------------------
(* The handler: the first direction to end, what is closed then, and the   *)
(* wait for the second.                                                    *)

TakeDone == done > 0 /\ done' = done - 1 /\ pending' = pending - 1

(* Mutant: the handler waits for both directions before it closes.         *)
FirstDoneFrontendLate ==
  /\ kind \in Frontend /\ pc = "copying"
  /\ done = 2 /\ done' = 1 /\ pending' = 1
  /\ up' = "closed" /\ pc' = "wait"
  /\ UNCHANGED <<kind, answer, ends, down, c2u, u2c>>

FirstDoneFrontend ==
  /\ kind \in Frontend /\ pc = "copying" /\ TakeDone
  /\ up' = "closed" /\ pc' = "wait"
  /\ UNCHANGED <<kind, answer, ends, down, c2u, u2c>>

FirstDoneH3 ==
  /\ kind = "h3" /\ pc = "copying" /\ TakeDone
  /\ up' = "closed" /\ pc' = "wait"
  /\ down' = [down EXCEPT !.write = FALSE]
  /\ UNCHANGED <<kind, answer, ends, c2u, u2c>>

FirstDoneEntry ==
  /\ kind \in Entry /\ pc = "copying" /\ TakeDone
  /\ up' = "closed" /\ pc' = "wait"
  /\ UNCHANGED <<kind, answer, ends, down, c2u, u2c>>

(* Mutant: the tun splice closes the upstream only, as entry.splice does.  *)
FirstDoneTunHalf ==
  /\ kind = "tun" /\ pc = "copying"
  /\ \/ TakeDone
     \/ cancelled /\ UNCHANGED <<done, pending>>
  /\ up' = "closed" /\ pc' = "wait"
  /\ UNCHANGED <<kind, answer, ends, down, c2u, u2c>>

FirstDoneTun ==
  /\ kind = "tun" /\ pc = "copying"
  /\ \/ TakeDone
     \/ cancelled /\ UNCHANGED <<done, pending>>
  /\ up' = "closed" /\ pc' = "wait"
  /\ down' = [read |-> FALSE, write |-> FALSE]
  /\ UNCHANGED <<kind, answer, ends, c2u, u2c>>

SecondDone ==
  /\ pc = "wait" /\ TakeDone
  /\ IF pending = 1 THEN CloseDeferred(TRUE) ELSE UNCHANGED <<pc, up, down>>
  /\ UNCHANGED <<kind, answer, ends, c2u, u2c>>

(* time.After(5 * time.Second), in the frontends only.                     *)
GiveUp ==
  /\ pc = "wait" /\ kind \in Frontend \cup {"h3"}
  /\ CloseDeferred(TRUE)
  /\ UNCHANGED <<kind, answer, ends, copies>>

-----------------------------------------------------------------------------
Open == OpenH1 \/ OpenH2 \/ OpenH3 \/ OpenSocks5 \/ OpenHTTPConnect \/ OpenTun
Upload == ReadClient \/ WriteUpstream \/ EndUpload
Download == ReadUpstream \/ WriteClient \/ EndDownload
Finish == FirstDoneFrontend \/ FirstDoneH3 \/ FirstDoneEntry \/ FirstDoneTun
          \/ SecondDone \/ GiveUp

Next == ClientStep \/ UpstreamStep \/ Cancel \/ Open \/ Upload \/ Download \/ Finish

Spec == Init /\ [][Next]_vars

LocalOpen == OpenSocks5 \/ OpenHTTPConnect \/ OpenTun

(* Goroutines are scheduled; the requests, dials and answers of the local  *)
(* relays have deadlines and the frontends' last wait a timer.  Nothing is *)
(* assumed of the two ends, and nothing of how a frontend opens: it reads  *)
(* the upstream's response head without a deadline.                        *)
FairSpec == Spec /\ WF_vars(LocalOpen) /\ WF_vars(Upload) /\ WF_vars(Download)
                 /\ WF_vars(Finish)

-----------------------------------------------------------------------------
(* Correctness                                                             *)

Chunks == 0..MaxChunks

(* Every variable has its type.                                            *)
TypeOK ==
  /\ kind \in Kinds
  /\ pc \in {"request", "dial", "head", "drain", "copying", "wait", "returned"}
  /\ answer \in {"none", "404", "400", "502", "non2xx", "refused", "200"}
  /\ client \in [sent : Chunks, taken : Chunks, got : Chunks,
                 end : {"open", "fin", "gone"}, stalled : BOOLEAN]
  /\ upstream \in [sent : Chunks, taken : Chunks, got : Chunks,
                   end : {"open", "fin", "gone"}, stalled : BOOLEAN]
  /\ up \in {"none", "open", "closed"}
  /\ down \in [read : BOOLEAN, write : BOOLEAN]
  /\ {c2u, u2c} \subseteq {"off", "read", "write", "done"}
  /\ done \in 0..2 /\ pending \in 0..2
  /\ cancelled \in BOOLEAN

(* No relay leaves its upstream socket open, whichever return it takes.    *)
UpstreamClosed == pc = "returned" => up # "open"

(* When neither the client nor the TUI ends a tunnel, the client has every *)
(* byte the upstream sent before its orderly end by the time the handler   *)
(* returns: not the 5 s timer, not a slow client, not bytes buffered with  *)
(* the response head cut the download.                                     *)
DownloadComplete ==
  (/\ pc = "returned" /\ u2c # "off" /\ ~cancelled
   /\ client.end = "open" /\ upstream.end # "gone")
    => client.got = upstream.sent

(* When the upstream stays, it has every byte the client sent before its   *)
(* orderly end, bytes sent together with the CONNECT included.             *)
UploadComplete ==
  (/\ pc = "returned" /\ c2u # "off" /\ ~cancelled
   /\ client.end = "fin" /\ upstream.end = "open")
    => upstream.got = client.sent

(* Once a direction has ended the handler returns, even when the client    *)
(* is stalled and silent.  The splice of entry.go has no such promise: its *)
(* client is a program of this machine, which it may wait for.             *)
HandlerReturns ==
  (kind \notin Entry /\ (c2u = "done" \/ u2c = "done")) ~> pc = "returned"

CopiesEnded == {c2u, u2c} \subseteq {"off", "done"}

(* A disconnect ends every local relay and both of its goroutines.  Stop   *)
(* of the entry manager closes the client's side only: a write to an       *)
(* upstream that stopped reading goes on until that reads or is gone.      *)
(* Close of the TUN device wakes it.                                       *)
CancelEnds ==
  (kind \in Entry => <>[](~upstream.stalled)) => (cancelled ~> (pc = "returned" /\ CopiesEnded))

(* No copy goroutine outlives its handler for ever; over HTTP/2 and HTTP/3 *)
(* it may until the client's stream is gone.                               *)
GoroutinesEnd ==
  (pc = "returned" /\ (kind \in {"h2", "h3"} => client.end = "gone")) ~> CopiesEnded

(* A relay's state is well formed, no return leaves its upstream socket    *)
(* open, and no orderly transfer is cut short, in either direction.        *)
TunnelInv == TypeOK /\ UpstreamClosed /\ DownloadComplete /\ UploadComplete

=============================================================================
