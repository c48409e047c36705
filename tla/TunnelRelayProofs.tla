------------------------- MODULE TunnelRelayProofs -------------------------
(***************************************************************************)
(* Proofs about TunnelRelay, for all six relays and any number of chunks.  *)
(***************************************************************************)
EXTENDS TunnelRelay, TLAPS

USE MaxChunksNat

Opening == {"request", "dial", "head", "drain"}

(* The handler and its goroutines: both copies are started together, after *)
(* the dial; until then only a disconnect touches the client's side.       *)
PhaseInv ==
  /\ pc \in Opening => c2u = "off" /\ (cancelled \/ (down.read /\ down.write))
  /\ pc \in {"head", "drain"} => up = "open"
  /\ pc \in {"copying", "wait"} => c2u # "off"
  /\ c2u = "off" <=> u2c = "off"

Ended(copy) == IF copy = "done" THEN 1 ELSE 0

(* Every ended copy has put one token into done, which is there or has     *)
(* been taken.                                                             *)
TokenInv == done + 2 = pending + Ended(c2u) + Ended(u2c)

(* A chunk that was taken is delivered or in the hand of the goroutine.    *)
Carried(copy, taken, got) ==
  /\ copy = "off" => got = 0
  /\ copy = "read" => taken = got
  /\ copy = "write" => taken = got + 1
  /\ got <= taken

ChunkInv ==
  /\ pc \in {"request", "dial", "head"} => client.taken = 0
  /\ u2c = "off" => upstream.taken = 0
  /\ client.taken <= client.sent /\ upstream.taken <= upstream.sent
  /\ Carried(c2u, client.taken, upstream.got)
  /\ Carried(u2c, upstream.taken, client.got)

(* While the client stays and nobody disconnects, the download is the      *)
(* first direction to end, it ends with the upstream's orderly end and     *)
(* with everything delivered, and the handler does not go on before.       *)
DownloadFirst ==
  (~cancelled /\ client.end = "open" /\ upstream.end # "gone") =>
    /\ u2c = "done" => upstream.end = "fin" /\ client.got = upstream.sent
    /\ c2u = "done" => u2c = "done"
    /\ pc \in {"wait", "returned"} => u2c \in {"off", "done"}
    /\ (pc = "copying" /\ u2c # "done") => up = "open" /\ down.read /\ down.write

(* The same for the upload while the upstream stays.                       *)
UploadFirst ==
  (~cancelled /\ client.end # "gone" /\ upstream.end = "open") =>
    /\ c2u = "done" => client.end = "fin" /\ upstream.got = client.sent
    /\ u2c = "done" => c2u = "done"
    /\ pc \in {"wait", "returned"} => c2u \in {"off", "done"}
    /\ (pc = "copying" /\ c2u # "done") => up = "open" /\ down.read /\ down.write

(* The inductive invariant of a relay.                                     *)
TunnelIInv ==
  /\ TypeOK /\ UpstreamClosed
  /\ PhaseInv /\ TokenInv /\ ChunkInv
  /\ DownloadFirst /\ UploadFirst

-----------------------------------------------------------------------------
(* The first state satisfies the invariant.                                *)
LEMMA TunnelInitial == Init => TunnelIInv
  <1> SUFFICES ASSUME Init PROVE TunnelIInv
    OBVIOUS
  <1>1. cancelled \in BOOLEAN /\ down \in [read : BOOLEAN, write : BOOLEAN]
    BY DEF Init
  <1>2. /\ client \in [sent : Chunks, taken : Chunks, got : Chunks,
                      end : {"open", "fin", "gone"}, stalled : BOOLEAN]
        /\ upstream \in [sent : Chunks, taken : Chunks, got : Chunks,
                        end : {"open", "fin", "gone"}, stalled : BOOLEAN]
    BY DEF Init, Chunks
  <1>3. TypeOK
    BY <1>1, <1>2 DEF Init, TypeOK
  <1>4. UpstreamClosed /\ PhaseInv /\ TokenInv /\ ChunkInv /\ DownloadFirst /\ UploadFirst
    BY DEF Init, UpstreamClosed, PhaseInv, TokenInv, ChunkInv, Carried, Ended, DownloadFirst,
       UploadFirst, Opening
  <1>5. QED
    BY <1>3, <1>4 DEF TunnelIInv

Answers == {"none", "404", "400", "502", "non2xx", "refused", "200"}

(* The steps before the tunnel keep it: a return with an answer, the next  *)
(* phase, the dial and the start of the copies.                            *)
LEMMA ReturnKeeps ==
  ASSUME TunnelIInv, pc \in Opening, NEW told \in Answers, Return(told)
  PROVE  TunnelIInv'
  <1>1. down' \in [read : BOOLEAN, write : BOOLEAN] /\ answer' \in Answers
    BY DEF Return, CloseDeferred, TunnelIInv, TypeOK
  <1>2. /\ pc' = "returned" /\ up' \in {"none", "closed"}
        /\ UNCHANGED <<kind, client, upstream, cancelled, c2u, u2c, done, pending>>
    BY DEF Return, CloseDeferred, ends, copies, TunnelIInv, TypeOK
  <1>3. QED
    BY <1>1, <1>2 DEF Answers, TunnelIInv, TypeOK, UpstreamClosed, PhaseInv, TokenInv, ChunkInv, Carried, Ended,
       DownloadFirst, UploadFirst, Chunks, Opening

(* One lemma per step of the tunnel up to its copies.                      *)
LEMMA RequestKeeps ==
  ASSUME TunnelIInv, pc = "request", pc' = "dial",
         UNCHANGED <<kind, answer, ends, up, down, copies>>
  PROVE  TunnelIInv'
  BY DEF ends, copies, TunnelIInv, TypeOK, UpstreamClosed, PhaseInv, TokenInv, ChunkInv, Carried, Ended,
       DownloadFirst, UploadFirst, Chunks, Opening

(* The backend is dialled.                                                 *)
LEMMA DialKeeps ==
  ASSUME TunnelIInv, Dial
  PROVE  TunnelIInv'
  BY DEF Dial, ends, copies, TunnelIInv, TypeOK, UpstreamClosed, PhaseInv, TokenInv, ChunkInv, Carried, Ended,
       DownloadFirst, UploadFirst, Chunks, Opening

(* The head is answered with the chunks that came behind it in the reader. *)
LEMMA DrainKeeps ==
  ASSUME TunnelIInv, pc = "head", pc' = "drain", answer' \in Answers,
         NEW k \in 0..client.sent, client' = [client EXCEPT !.taken = k],
         UNCHANGED <<kind, upstream, up, down, copies, cancelled>>
  PROVE  TunnelIInv'
  <1>1. k \in Chunks
    BY DEF TunnelIInv, TypeOK, Chunks
  <1>2. /\ client'.sent = client.sent /\ client'.taken = k /\ client'.got = client.got
        /\ client'.end = client.end
    BY DEF TunnelIInv, TypeOK
  <1>3. TypeOK'
    BY <1>1 DEF copies, Answers, TunnelIInv, TypeOK
  <1>4. QED
    BY <1>2, <1>3 DEF copies, TunnelIInv, TypeOK, UpstreamClosed, PhaseInv, TokenInv, ChunkInv, Carried,
       Ended, DownloadFirst, UploadFirst, Chunks, Opening

(* Both copies start.                                                      *)
LEMMA StartCopiesKeeps ==
  ASSUME TunnelIInv, pc \in {"head", "drain"}, StartCopies, answer' \in Answers, UNCHANGED client,
         \/ pc = "head" /\ UNCHANGED upstream
         \/ upstream' = [upstream EXCEPT !.got = client.taken]
  PROVE  TunnelIInv'
  <1>1. CASE pc = "head" /\ UNCHANGED upstream
    BY <1>1 DEF StartCopies, Answers, TunnelIInv, TypeOK, UpstreamClosed, PhaseInv, TokenInv, ChunkInv, Carried, Ended,
         DownloadFirst, UploadFirst, Chunks, Opening
  <1>2. CASE upstream' = [upstream EXCEPT !.got = client.taken]
    <2>1. /\ upstream'.sent = upstream.sent /\ upstream'.taken = upstream.taken
          /\ upstream'.got = client.taken /\ upstream'.end = upstream.end
      BY <1>2 DEF TunnelIInv, TypeOK
    <2>2. TypeOK'
      BY <1>2 DEF StartCopies, Answers, TunnelIInv, TypeOK
    <2>3. QED
      BY <2>1, <2>2 DEF StartCopies, TunnelIInv, TypeOK, UpstreamClosed, PhaseInv, TokenInv, ChunkInv, Carried, Ended,
         DownloadFirst, UploadFirst, Chunks, Opening
  <1>3. QED
    BY <1>1, <1>2

(* Every step of the two ends, the handler and the goroutines keeps it.    *)
LEMMA TunnelStep == TunnelIInv /\ [Next]_vars => TunnelIInv'
  <1> SUFFICES ASSUME TunnelIInv, [Next]_vars PROVE TunnelIInv'
    OBVIOUS
  <1>0. answer \in Answers
    BY DEF TunnelIInv, TypeOK, Answers
  <1>1. CASE ClientStep
    <2>1. /\ UNCHANGED <<kind, pc, answer, upstream, up, down, c2u, u2c, done, pending, cancelled>>
          /\ client'.taken = client.taken /\ client'.got = client.got
          /\ client'.sent = client.sent \/ (client'.sent = client.sent + 1 /\ client.end = "open")
          /\ client'.end = client.end \/ client'.end = "gone" \/ (client.end = "open" /\ client'.end = "fin")
      BY <1>1 DEF ClientStep, copies, TunnelIInv, TypeOK
    <2>2. client' \in [sent : Chunks, taken : Chunks, got : Chunks,
                      end : {"open", "fin", "gone"}, stalled : BOOLEAN]
      <3>1. (~client.stalled) \in BOOLEAN
        OBVIOUS
      <3>2. client \in [sent : Chunks, taken : Chunks, got : Chunks,
                       end : {"open", "fin", "gone"}, stalled : BOOLEAN]
        BY DEF TunnelIInv, TypeOK
      <3>3. CASE client' = [client EXCEPT !.stalled = ~@]
        BY <3>1, <3>2, <3>3
      <3>4. CASE client.sent < MaxChunks /\ client' = [client EXCEPT !.sent = @ + 1]
        BY <3>2, <3>4 DEF Chunks
      <3>5. CASE \E x \in {"fin", "gone"} : client' = [client EXCEPT !.end = x]
        BY <3>2, <3>5
      <3>6. QED
        BY <1>1, <3>3, <3>4, <3>5 DEF ClientStep
    <2>3. TypeOK'
      BY <2>1, <2>2 DEF TunnelIInv, TypeOK
    <2>4. QED
      BY <2>1, <2>3 DEF TunnelIInv, TypeOK, UpstreamClosed, PhaseInv, TokenInv, ChunkInv, Carried, Ended,
         DownloadFirst, UploadFirst, Chunks, Opening
  <1>2. CASE UpstreamStep
    <2>1. /\ up = "open"
          /\ UNCHANGED <<kind, pc, answer, client, up, down, c2u, u2c, done, pending, cancelled>>
          /\ upstream'.taken = upstream.taken /\ upstream'.got = upstream.got
          /\ \/ upstream'.sent = upstream.sent
             \/ upstream'.sent = upstream.sent + 1 /\ upstream.end = "open"
          /\ \/ upstream'.end = upstream.end \/ upstream'.end = "gone"
             \/ upstream.end = "open" /\ upstream'.end = "fin"
      BY <1>2 DEF UpstreamStep, copies, TunnelIInv, TypeOK
    <2>2. upstream' \in [sent : Chunks, taken : Chunks, got : Chunks,
                        end : {"open", "fin", "gone"}, stalled : BOOLEAN]
      <3>1. (~upstream.stalled) \in BOOLEAN
        OBVIOUS
      <3>2. upstream \in [sent : Chunks, taken : Chunks, got : Chunks,
                         end : {"open", "fin", "gone"}, stalled : BOOLEAN]
        BY DEF TunnelIInv, TypeOK
      <3>3. CASE upstream' = [upstream EXCEPT !.stalled = ~@]
        BY <3>1, <3>2, <3>3
      <3>4. CASE upstream.sent < MaxChunks /\ upstream' = [upstream EXCEPT !.sent = @ + 1]
        BY <3>2, <3>4 DEF Chunks
      <3>5. CASE \E x \in {"fin", "gone"} : upstream' = [upstream EXCEPT !.end = x]
        BY <3>2, <3>5
      <3>6. QED
        BY <1>2, <3>3, <3>4, <3>5 DEF UpstreamStep
    <2>3. TypeOK'
      BY <2>1, <2>2 DEF TunnelIInv, TypeOK
    <2>4. QED
      BY <2>1, <2>3 DEF TunnelIInv, TypeOK, UpstreamClosed, PhaseInv, TokenInv, ChunkInv, Carried, Ended,
         DownloadFirst, UploadFirst, Chunks, Opening
  <1>3. CASE Cancel
    BY <1>3 DEF Cancel, copies, Entry,
       TunnelIInv, TypeOK, UpstreamClosed, PhaseInv, TokenInv, ChunkInv, Carried, Ended,
       DownloadFirst, UploadFirst, Chunks, Opening
  <1>4. CASE OpenH1
    BY <1>4, <1>0, ReturnKeeps, RequestKeeps, DialKeeps, StartCopiesKeeps
    DEF OpenH1, OpenFrontend, ReadRequest, Answers, Opening
  <1>5. CASE OpenH2
    BY <1>5, <1>0, ReturnKeeps, RequestKeeps, DialKeeps, StartCopiesKeeps
    DEF OpenH2, OpenFrontend, ReadRequest, Answers, Opening
  <1>6. CASE OpenH3
    BY <1>6, <1>0, ReturnKeeps, RequestKeeps, DialKeeps, StartCopiesKeeps
    DEF OpenH3, OpenFrontend, ReadRequest, Answers, Opening
  <1>7. CASE OpenSocks5
    BY <1>7, <1>0, ReturnKeeps, RequestKeeps, DialKeeps, StartCopiesKeeps
    DEF OpenSocks5, ReadRequest, Answers, Opening
  <1>8. CASE OpenHTTPConnect
    BY <1>8, <1>0, ReturnKeeps, RequestKeeps, DialKeeps, DrainKeeps, StartCopiesKeeps
    DEF OpenHTTPConnect, ReadRequest, Answers, Opening
  <1>9. CASE OpenTun
    BY <1>9, <1>0, ReturnKeeps, RequestKeeps, DialKeeps, StartCopiesKeeps
    DEF OpenTun, Answers, Opening
  <1>10. CASE ReadClient
    BY <1>10 DEF ReadClient,
       TunnelIInv, TypeOK, UpstreamClosed, PhaseInv, TokenInv, ChunkInv, Carried, Ended,
       DownloadFirst, UploadFirst, Chunks, Opening
  <1>11. CASE WriteUpstream
    BY <1>11 DEF WriteUpstream,
       TunnelIInv, TypeOK, UpstreamClosed, PhaseInv, TokenInv, ChunkInv, Carried, Ended,
       DownloadFirst, UploadFirst, Chunks, Opening
  <1>12. CASE EndUpload
    BY <1>12 DEF EndUpload, ends,
       TunnelIInv, TypeOK, UpstreamClosed, PhaseInv, TokenInv, ChunkInv, Carried, Ended,
       DownloadFirst, UploadFirst, Chunks, Opening
  <1>13. CASE ReadUpstream
    BY <1>13 DEF ReadUpstream,
       TunnelIInv, TypeOK, UpstreamClosed, PhaseInv, TokenInv, ChunkInv, Carried, Ended,
       DownloadFirst, UploadFirst, Chunks, Opening
  <1>14. CASE WriteClient
    BY <1>14 DEF WriteClient,
       TunnelIInv, TypeOK, UpstreamClosed, PhaseInv, TokenInv, ChunkInv, Carried, Ended,
       DownloadFirst, UploadFirst, Chunks, Opening
  <1>15. CASE EndDownload
    <2>1. down' \in [read : BOOLEAN, write : BOOLEAN]
      BY <1>15 DEF EndDownload, ends, TunnelIInv, TypeOK
    <2>2. QED
      BY <1>15, <2>1 DEF EndDownload, ends,
         TunnelIInv, TypeOK, UpstreamClosed, PhaseInv, TokenInv, ChunkInv, Carried, Ended,
         DownloadFirst, UploadFirst, Chunks, Opening
  <1>16. CASE FirstDoneFrontend
    BY <1>16 DEF FirstDoneFrontend, TakeDone, ends,
       TunnelIInv, TypeOK, UpstreamClosed, PhaseInv, TokenInv, ChunkInv, Carried, Ended,
       DownloadFirst, UploadFirst, Chunks, Opening
  <1>17. CASE FirstDoneH3
    <2>1. down' \in [read : BOOLEAN, write : BOOLEAN]
      BY <1>17 DEF FirstDoneH3, TakeDone, ends, TunnelIInv, TypeOK
    <2>2. QED
      BY <1>17, <2>1 DEF FirstDoneH3, TakeDone, ends,
         TunnelIInv, TypeOK, UpstreamClosed, PhaseInv, TokenInv, ChunkInv, Carried, Ended,
         DownloadFirst, UploadFirst, Chunks, Opening
  <1>18. CASE FirstDoneEntry
    BY <1>18 DEF FirstDoneEntry, TakeDone, ends,
       TunnelIInv, TypeOK, UpstreamClosed, PhaseInv, TokenInv, ChunkInv, Carried, Ended,
       DownloadFirst, UploadFirst, Chunks, Opening
  <1>19. CASE FirstDoneTun
    BY <1>19 DEF FirstDoneTun, TakeDone, ends,
       TunnelIInv, TypeOK, UpstreamClosed, PhaseInv, TokenInv, ChunkInv, Carried, Ended,
       DownloadFirst, UploadFirst, Chunks, Opening
  <1>20. CASE SecondDone
    <2>1. down' \in [read : BOOLEAN, write : BOOLEAN]
      <3>1. down \in [read : BOOLEAN, write : BOOLEAN]
        BY DEF TunnelIInv, TypeOK
      <3>2. \/ down' = down
            \/ down' = [read |-> FALSE, write |-> FALSE]
        BY <1>20 DEF SecondDone, CloseDeferred
      <3>3. [read |-> FALSE, write |-> FALSE] \in [read : BOOLEAN, write : BOOLEAN]
        OBVIOUS
      <3>4. QED
        BY <3>1, <3>2, <3>3
    <2>2. QED
      BY <1>20, <2>1 DEF SecondDone, TakeDone, CloseDeferred, ends,
         TunnelIInv, TypeOK, UpstreamClosed, PhaseInv, TokenInv, ChunkInv, Carried, Ended,
         DownloadFirst, UploadFirst, Chunks, Opening
  <1>21. CASE GiveUp
    BY <1>21 DEF GiveUp, CloseDeferred, ends, copies,
       TunnelIInv, TypeOK, UpstreamClosed, PhaseInv, TokenInv, ChunkInv, Carried, Ended,
       DownloadFirst, UploadFirst, Chunks, Opening
  <1>22. CASE UNCHANGED vars
    BY <1>22 DEF vars,
       TunnelIInv, TypeOK, UpstreamClosed, PhaseInv, TokenInv, ChunkInv, Carried, Ended,
       DownloadFirst, UploadFirst, Chunks, Opening
  <1>23. QED
    BY <1>1, <1>2, <1>3, <1>4, <1>5, <1>6, <1>7, <1>8, <1>9, <1>10, <1>11,
       <1>12, <1>13, <1>14, <1>15, <1>16, <1>17, <1>18, <1>19, <1>20, <1>21, <1>22
    DEF Next, Open, Upload, Download, Finish

(* The inductive invariant holds in each of the six relays.                *)
THEOREM TunnelInvariance == Spec => []TunnelIInv
  BY TunnelInitial, TunnelStep, PTL DEF Spec

(* No relay leaves its upstream socket open and no orderly transfer is cut *)
(* short, in either direction (TunnelInv).                                 *)
THEOREM TunnelCorrect == Spec => []TunnelInv
  <1>1. TunnelIInv => TunnelInv
    BY DEF TunnelIInv, TunnelInv, DownloadComplete, UploadComplete, DownloadFirst, UploadFirst,
           PhaseInv
  <1>2. QED
    BY <1>1, TunnelInvariance, PTL

=============================================================================
