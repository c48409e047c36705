------------------------- MODULE TunnelServerProofs -------------------------
(***************************************************************************)
(* TunnelServer for any finite set of connections and any limits: the two  *)
(* counters are exact, the limits hold, and both limits implement          *)
(* BoundedPool.                                                            *)
(***************************************************************************)
EXTENDS TunnelServer, FiniteSetTheorems, TLAPS

USE ConnFinite, MaxConnectionsPositive, MaxRelaysPositive, MaxStreamsNat

(* Every action, for expanding Next.                                       *)
LEMMA NextCases ==
  ASSUME Next
  PROVE  \/ Signal \/ CloseListener \/ AcceptError \/ SleepOver
         \/ \E c \in Conn :
              \/ AcceptConn(c) \/ Reject(c) \/ Admit(c) \/ Spawn(c)
              \/ ClientGone(c) \/ StartHandler(c) \/ TLSHandshake(c)
              \/ DialRefused(c) \/ DialSlot(c) \/ DialOk(c) \/ DialError(c)
              \/ ReleaseSlot(c) \/ CloseRelay(c) \/ RealityReturn(c)
              \/ CountRelay(c) \/ CountAuthed(c) \/ Peek(c) \/ Serve(c)
              \/ CloseRaw(c) \/ ExitHandler(c)
BY DEF Next, AcceptLoop, Handshake, Dial, Exit

-----------------------------------------------------------------------------
(* Type correctness.                                                       *)

(* The type invariant holds initially ...                                  *)
LEMMA TypeInit == Init => TypeOK
<1> SUFFICES ASSUME Init PROVE TypeOK
  OBVIOUS
<1>1. /\ ctxDone \in BOOLEAN /\ listening \in BOOLEAN
      /\ client \in [Conn -> BOOLEAN]
  BY Zenon DEF Init
<1>2. QED
  BY <1>1 DEF Init, NewTunnelServer, TypeOK, LoopStates, HandlerStates, None

(* ... and every step keeps it.                                            *)
LEMMA TypeNext == TypeOK /\ [Next]_vars => TypeOK'
<1> SUFFICES ASSUME TypeOK, [Next]_vars PROVE TypeOK'
  OBVIOUS
<1> USE DEF TypeOK, LoopStates, HandlerStates, Live, PreAuth, Serving, None,
            loopVars, relayVars, countVars
<1>1. CASE UNCHANGED vars
  BY <1>1 DEF vars
<1>2. CASE Signal \/ CloseListener
  <2>1. ctxDone' \in BOOLEAN /\ listening' \in BOOLEAN
    BY <1>2, Zenon DEF Signal, CloseListener
  <2>2. QED
    BY <1>2, <2>1 DEF Signal, CloseListener
<1>2a. CASE AcceptError \/ SleepOver
  <2>1. loop' \in {"returned", "sleep", "accept"}
    BY <1>2a, Zenon DEF AcceptError, SleepOver
  <2>2. QED
    BY <1>2a, <2>1 DEF AcceptError, SleepOver
<1>3. ASSUME NEW c \in Conn,
             AcceptConn(c) \/ Reject(c) \/ Admit(c) \/ Spawn(c)
      PROVE  TypeOK'
  BY <1>3 DEF AcceptConn, Reject, Admit, Spawn
<1>3a. ASSUME NEW c \in Conn, ClientGone(c)
       PROVE  TypeOK'
  <2>1. client' \in [Conn -> BOOLEAN]
    BY <1>3a, Zenon DEF ClientGone
  <2>2. QED
    BY <1>3a, <2>1 DEF ClientGone
<1>4. ASSUME NEW c \in Conn,
             StartHandler(c) \/ CountRelay(c) \/ CountAuthed(c)
      PROVE  TypeOK'
  BY <1>4 DEF StartHandler, CountRelay, CountAuthed, Go, Inc, Counters
<1>5. ASSUME NEW c \in Conn,
             DialRefused(c) \/ DialSlot(c) \/ DialOk(c) \/ DialError(c)
             \/ ReleaseSlot(c)
      PROVE  TypeOK'
  BY <1>5 DEF DialRefused, DialSlot, DialOk, DialError, ReleaseSlot, Go
<1>6. ASSUME NEW c \in Conn, CloseRelay(c)
      PROVE  TypeOK'
  BY <1>6 DEF CloseRelay
<1>7. ASSUME NEW c \in Conn,
             TLSHandshake(c) \/ RealityReturn(c) \/ Peek(c) \/ H1Refuse(c)
             \/ H1Request(c) \/ H1HeadRefuse(c) \/ H1TunnelEnd(c) \/ H2End(c)
      PROVE  TypeOK'
  BY <1>7 DEF TLSHandshake, RealityReturn, Peek, H1Refuse, H1Request, H1HeadRefuse, H1TunnelEnd,
              H2End, Go
<1>8. ASSUME NEW c \in Conn, H1Tunnel(c) \/ H2Tunnel(c)
      PROVE  TypeOK'
  BY <1>8 DEF H1Tunnel, H2Tunnel, CountTunnel, Go, Inc, Counters
<1>9. ASSUME NEW c \in Conn, CloseRaw(c) \/ ExitHandler(c)
      PROVE  TypeOK'
  BY <1>9 DEF CloseRaw, ExitHandler, Go
<1>10. QED
  BY <1>1, <1>2, <1>2a, <1>3, <1>3a, <1>4, <1>5, <1>6, <1>7, <1>8, <1>9, NextCases
     DEF Serve

(* Every reachable state of the frontend is well typed.                    *)
THEOREM TypeCorrect == Spec => []TypeOK
<1>1. QED
  BY TypeInit, TypeNext, PTL DEF Spec

-----------------------------------------------------------------------------
(* Sets that gain or lose one member.                                      *)

(* The handlers are finitely many ...                                      *)
LEMMA HandlersFinite == IsFiniteSet(Handlers) /\ Cardinality(Handlers) \in Nat
BY FS_Subset, FS_CardinalityType DEF Handlers

(* ... and so are those that hold a slot.                                  *)
LEMMA HoldersFinite == IsFiniteSet(SlotHolders) /\ Cardinality(SlotHolders) \in Nat
BY FS_Subset, FS_CardinalityType DEF SlotHolders

(* The count of a set with one more element.                               *)
LEMMA AddOne ==
  ASSUME NEW S, IsFiniteSet(S), NEW x, x \notin S, NEW T, T = S \cup {x}
  PROVE  Cardinality(T) = Cardinality(S) + 1
BY FS_AddElement

(* A set that grew by at most one element.                                 *)
LEMMA AtMostOneMore ==
  ASSUME NEW S, IsFiniteSet(S), NEW x
  PROVE  IsFiniteSet(S \cup {x}) /\ Cardinality(S \cup {x}) <= Cardinality(S) + 1
<1>1. Cardinality(S) \in Nat
  BY FS_CardinalityType
<1>2. CASE x \in S
  <2>1. S \cup {x} = S
    BY <1>2
  <2>2. QED
    BY <1>1, <2>1
<1>3. CASE x \notin S
  <2>1. Cardinality(S \cup {x}) = Cardinality(S) + 1
    BY <1>3, AddOne, Zenon
  <2>2. IsFiniteSet(S \cup {x})
    BY FS_AddElement, Zenon
  <2>3. QED
    BY <1>1, <2>1, <2>2
<1>4. QED
  BY <1>2, <1>3

(* The count of a set with one element less.                               *)
LEMMA RemoveOne ==
  ASSUME NEW S, IsFiniteSet(S), NEW x, x \in S, NEW T, T = S \ {x}
  PROVE  Cardinality(T) = Cardinality(S) - 1
BY FS_RemoveElement

-----------------------------------------------------------------------------
(* What each action does to the two pools, as an action of BoundedPool or  *)
(* a stutter.                                                              *)

(* Spawn adds a handler, ExitHandler removes one, nothing else does.       *)
LEMMA HandlersStep ==
  ASSUME TypeOK, AcceptInv, [Next]_vars
  PROVE  \/ \E c \in Conn : /\ Spawn(c) /\ c \notin Handlers
                            /\ Handlers' = Handlers \cup {c}
                            /\ active' = active + 1
         \/ \E c \in Conn : /\ ExitHandler(c) /\ c \in Handlers
                            /\ Handlers' = Handlers \ {c}
                            /\ active' = active - 1
         \/ Handlers' = Handlers /\ active' = active
<1> USE DEF TypeOK, Handlers, Live, PreAuth, Serving, loopVars, relayVars, countVars
<1>1. CASE UNCHANGED vars
  BY <1>1 DEF vars
<1>2. CASE Signal \/ CloseListener \/ AcceptError \/ SleepOver
  BY <1>2 DEF Signal, CloseListener, AcceptError, SleepOver
<1>3. ASSUME NEW c \in Conn, Spawn(c)
      PROVE  /\ c \notin Handlers
             /\ Handlers' = Handlers \cup {c}
             /\ active' = active + 1
  BY <1>3 DEF Spawn, AcceptInv
<1>4. ASSUME NEW c \in Conn, ExitHandler(c)
      PROVE  /\ c \in Handlers
             /\ Handlers' = Handlers \ {c}
             /\ active' = active - 1
  BY <1>4 DEF ExitHandler, Go
<1>5. ASSUME NEW c \in Conn, AcceptConn(c) \/ Reject(c) \/ Admit(c) \/ ClientGone(c)
      PROVE  Handlers' = Handlers /\ active' = active
  BY <1>5 DEF AcceptConn, Reject, Admit, ClientGone, AcceptInv
<1>6. ASSUME NEW c \in Conn,
             StartHandler(c) \/ TLSHandshake(c) \/ DialRefused(c) \/ DialSlot(c)
             \/ DialOk(c) \/ DialError(c) \/ ReleaseSlot(c)
      PROVE  Handlers' = Handlers /\ active' = active
  BY <1>6 DEF StartHandler, TLSHandshake, DialRefused, DialSlot, DialOk, DialError,
              ReleaseSlot, Go
<1>7. ASSUME NEW c \in Conn,
             CloseRelay(c) \/ RealityReturn(c) \/ CountRelay(c) \/ CountAuthed(c)
             \/ Peek(c) \/ CloseRaw(c)
      PROVE  Handlers' = Handlers /\ active' = active
  BY <1>7 DEF CloseRelay, RealityReturn, CountRelay, CountAuthed, Peek, CloseRaw, Go
<1>8. ASSUME NEW c \in Conn,
             Serve(c)
      PROVE  Handlers' = Handlers /\ active' = active
  BY <1>8 DEF Serve, H1Refuse, H1Request, H1HeadRefuse, H1Tunnel, H1TunnelEnd,
              H2Tunnel, H2End, CountTunnel, Go
<1>9. QED
  BY <1>1, <1>2, <1>3, <1>4, <1>5, <1>6, <1>7, <1>8, NextCases

(* DialSlot takes a slot, a failed dial or the first Close gives it back.  *)
LEMMA HoldersStep ==
  ASSUME TypeOK, AcceptInv, RelayInv, [Next]_vars
  PROVE  \/ \E c \in Conn : /\ DialSlot(c) /\ c \notin SlotHolders
                            /\ SlotHolders' = SlotHolders \cup {c}
                            /\ relaySlots' = relaySlots + 1
         \/ \E c \in Conn : /\ ReleaseSlot(c) \/ CloseRelay(c)
                            /\ c \in SlotHolders
                            /\ SlotHolders' = SlotHolders \ {c}
                            /\ relaySlots' = relaySlots - 1
         \/ SlotHolders' = SlotHolders /\ relaySlots' = relaySlots
<1> USE DEF TypeOK, SlotHolders, loopVars, relayVars, countVars
<1>1. CASE UNCHANGED vars
  BY <1>1 DEF vars
<1>2. CASE Signal \/ CloseListener \/ AcceptError \/ SleepOver
  BY <1>2 DEF Signal, CloseListener, AcceptError, SleepOver
<1>3. ASSUME NEW c \in Conn, DialSlot(c)
      PROVE  /\ c \notin SlotHolders
             /\ SlotHolders' = SlotHolders \cup {c}
             /\ relaySlots' = relaySlots + 1
  BY <1>3 DEF DialSlot, Go, RelayInv
<1>4. ASSUME NEW c \in Conn, ReleaseSlot(c)
      PROVE  /\ c \in SlotHolders
             /\ SlotHolders' = SlotHolders \ {c}
             /\ relaySlots' = relaySlots - 1
  BY <1>4 DEF ReleaseSlot, Go, RelayInv
<1>5. ASSUME NEW c \in Conn, CloseRelay(c), closes[c] = 0
      PROVE  /\ c \in SlotHolders
             /\ SlotHolders' = SlotHolders \ {c}
             /\ relaySlots' = relaySlots - 1
  BY <1>5 DEF CloseRelay, RelayInv
<1>6. ASSUME NEW c \in Conn, CloseRelay(c), closes[c] # 0
      PROVE  SlotHolders' = SlotHolders /\ relaySlots' = relaySlots
  BY <1>6 DEF CloseRelay, RelayInv
<1>7. ASSUME NEW c \in Conn,
             AcceptConn(c) \/ Reject(c) \/ Admit(c) \/ Spawn(c) \/ ClientGone(c)
      PROVE  SlotHolders' = SlotHolders /\ relaySlots' = relaySlots
  BY <1>7 DEF AcceptConn, Reject, Admit, Spawn, ClientGone, AcceptInv
<1>8. ASSUME NEW c \in Conn,
             StartHandler(c) \/ TLSHandshake(c) \/ DialRefused(c) \/ DialOk(c)
             \/ DialError(c)
      PROVE  SlotHolders' = SlotHolders /\ relaySlots' = relaySlots
  BY <1>8 DEF StartHandler, TLSHandshake, DialRefused, DialOk, DialError, Go
<1>9. ASSUME NEW c \in Conn,
             RealityReturn(c) \/ CountRelay(c) \/ CountAuthed(c) \/ Peek(c)
             \/ CloseRaw(c) \/ ExitHandler(c)
      PROVE  SlotHolders' = SlotHolders /\ relaySlots' = relaySlots
  BY <1>9 DEF RealityReturn, CountRelay, CountAuthed, Peek, CloseRaw, ExitHandler, Go
<1>10. ASSUME NEW c \in Conn,
              Serve(c)
       PROVE  SlotHolders' = SlotHolders /\ relaySlots' = relaySlots
  BY <1>10 DEF Serve, H1Refuse, H1Request, H1HeadRefuse, H1Tunnel, H1TunnelEnd,
              H2Tunnel, H2End, CountTunnel, Go
<1>11. QED
  BY <1>1, <1>2, <1>3, <1>4, <1>5, <1>6, <1>7, <1>8, <1>9, <1>10, NextCases

-----------------------------------------------------------------------------
(* The parts of the inductive invariant.                                   *)

(* The active count follows the handlers in every step.                    *)
LEMMA ActiveNext ==
  ASSUME IInv, [Next]_vars
  PROVE  ActiveExact'
<1>1. CASE \E c \in Conn : /\ Spawn(c) /\ c \notin Handlers
                           /\ Handlers' = Handlers \cup {c}
                           /\ active' = active + 1
  <2>1. PICK c \in Conn : /\ Spawn(c) /\ c \notin Handlers
                          /\ Handlers' = Handlers \cup {c}
                          /\ active' = active + 1
    BY <1>1
  <2>2. Cardinality(Handlers') = Cardinality(Handlers) + 1
    BY <2>1, HandlersFinite, AddOne, Zenon
  <2>3. active < MaxConnections
    BY <2>1 DEF IInv, AcceptInv, Spawn
  <2>4. QED
    BY <2>1, <2>2, <2>3, HandlersFinite DEF IInv, ActiveExact
<1>2. CASE \E c \in Conn : /\ ExitHandler(c) /\ c \in Handlers
                           /\ Handlers' = Handlers \ {c}
                           /\ active' = active - 1
  <2>1. PICK c \in Conn : /\ c \in Handlers
                          /\ Handlers' = Handlers \ {c}
                          /\ active' = active - 1
    BY <1>2
  <2>2. Cardinality(Handlers') = Cardinality(Handlers) - 1
    BY <2>1, HandlersFinite, RemoveOne, Zenon
  <2>3. QED
    BY <2>1, <2>2, HandlersFinite DEF IInv, ActiveExact
<1>3. CASE Handlers' = Handlers /\ active' = active
  BY <1>3 DEF IInv, ActiveExact
<1>4. QED
  BY <1>1, <1>2, <1>3, HandlersStep DEF IInv

(* The slots follow their holders in every step.                           *)
LEMMA SlotsNext ==
  ASSUME IInv, [Next]_vars
  PROVE  SlotsExact'
<1>1. CASE \E c \in Conn : /\ DialSlot(c) /\ c \notin SlotHolders
                           /\ SlotHolders' = SlotHolders \cup {c}
                           /\ relaySlots' = relaySlots + 1
  <2>1. PICK c \in Conn : /\ DialSlot(c) /\ c \notin SlotHolders
                          /\ SlotHolders' = SlotHolders \cup {c}
                          /\ relaySlots' = relaySlots + 1
    BY <1>1
  <2>2. Cardinality(SlotHolders') = Cardinality(SlotHolders) + 1
    BY <2>1, HoldersFinite, AddOne, Zenon
  <2>3. relaySlots < MaxRelays
    BY <2>1 DEF DialSlot
  <2>4. QED
    BY <2>1, <2>2, <2>3, HoldersFinite DEF IInv, SlotsExact
<1>2. CASE \E c \in Conn : /\ ReleaseSlot(c) \/ CloseRelay(c)
                           /\ c \in SlotHolders
                           /\ SlotHolders' = SlotHolders \ {c}
                           /\ relaySlots' = relaySlots - 1
  <2>1. PICK c \in Conn : /\ c \in SlotHolders
                          /\ SlotHolders' = SlotHolders \ {c}
                          /\ relaySlots' = relaySlots - 1
    BY <1>2
  <2>2. Cardinality(SlotHolders') = Cardinality(SlotHolders) - 1
    BY <2>1, HoldersFinite, RemoveOne, Zenon
  <2>3. QED
    BY <2>1, <2>2, HoldersFinite DEF IInv, SlotsExact
<1>3. CASE SlotHolders' = SlotHolders /\ relaySlots' = relaySlots
  BY <1>3 DEF IInv, SlotsExact
<1>4. QED
  BY <1>1, <1>2, <1>3, HoldersStep DEF IInv

(* The accept loop's obligations: its connection has no handler yet, and   *)
(* between test and increment handlers only leave.                         *)
LEMMA AcceptNext ==
  ASSUME IInv, [Next]_vars
  PROVE  AcceptInv'
<1> USE DEF TypeOK, loopVars, relayVars, countVars
<1>0. TypeOK /\ AcceptInv
  BY DEF IInv
<1>1. CASE UNCHANGED vars
  BY <1>0, <1>1 DEF vars, AcceptInv
<1>2. CASE Signal \/ CloseListener \/ AcceptError \/ SleepOver
  <2>1. loop' = loop \/ loop' \notin {"check", "spawn"}
    BY <1>2, Zenon DEF Signal, CloseListener, AcceptError, SleepOver
  <2>2. UNCHANGED <<accepted, handler, active>>
    BY <1>2 DEF Signal, CloseListener, AcceptError, SleepOver
  <2>3. QED
    BY <1>0, <2>1, <2>2 DEF AcceptInv
<1>3. ASSUME NEW c \in Conn, AcceptConn(c) \/ Reject(c) \/ Admit(c) \/ Spawn(c)
      PROVE  AcceptInv'
  BY <1>0, <1>3 DEF AcceptInv, AcceptConn, Reject, Admit, Spawn
<1>4. ASSUME NEW c \in Conn, ClientGone(c) \/ CloseRelay(c)
      PROVE  AcceptInv'
  BY <1>0, <1>4 DEF AcceptInv, ClientGone, CloseRelay
<1>5. ASSUME NEW c \in Conn,
             StartHandler(c) \/ TLSHandshake(c) \/ DialRefused(c) \/ DialSlot(c)
             \/ DialOk(c) \/ DialError(c) \/ ReleaseSlot(c)
      PROVE  AcceptInv'
  BY <1>0, <1>5 DEF AcceptInv, StartHandler, TLSHandshake, DialRefused, DialSlot,
                    DialOk, DialError, ReleaseSlot, Go
<1>6. ASSUME NEW c \in Conn,
             RealityReturn(c) \/ CountRelay(c) \/ CountAuthed(c) \/ Peek(c)
             \/ CloseRaw(c) \/ ExitHandler(c)
      PROVE  AcceptInv'
  BY <1>0, <1>6 DEF AcceptInv, RealityReturn, CountRelay, CountAuthed, Peek,
                    CloseRaw, ExitHandler, Go
<1>7. ASSUME NEW c \in Conn,
             Serve(c)
      PROVE  AcceptInv'
  BY <1>0, <1>7 DEF AcceptInv, Serve, H1Refuse, H1Request, H1HeadRefuse, H1Tunnel,
                      H1TunnelEnd, H2Tunnel, H2End,
                    CountTunnel, Go
<1>8. QED
  BY <1>1, <1>2, <1>3, <1>4, <1>5, <1>6, <1>7, NextCases

(* The relays follow their handlers in every step.                         *)
LEMMA RelayNext ==
  ASSUME IInv, [Next]_vars
  PROVE  RelayInv'
<1> USE DEF TypeOK, loopVars, relayVars, countVars
<1>0. TypeOK /\ AcceptInv /\ RelayInv
  BY DEF IInv
<1>1. CASE UNCHANGED vars
  BY <1>0, <1>1 DEF vars, RelayInv
<1>2. CASE Signal \/ CloseListener \/ AcceptError \/ SleepOver
  BY <1>0, <1>2 DEF Signal, CloseListener, AcceptError, SleepOver, RelayInv
<1>3. ASSUME NEW c \in Conn,
             AcceptConn(c) \/ Reject(c) \/ Admit(c) \/ Spawn(c) \/ ClientGone(c)
      PROVE  RelayInv'
  BY <1>0, <1>3 DEF RelayInv, AcceptInv, AcceptConn, Reject, Admit, Spawn, ClientGone
<1>4. ASSUME NEW c \in Conn, CloseRelay(c)
      PROVE  RelayInv'
  BY <1>0, <1>4 DEF RelayInv, CloseRelay
<1>5. ASSUME NEW c \in Conn,
             StartHandler(c) \/ TLSHandshake(c) \/ DialRefused(c) \/ DialSlot(c)
             \/ DialOk(c) \/ DialError(c) \/ ReleaseSlot(c)
      PROVE  RelayInv'
  BY <1>0, <1>5 DEF RelayInv, StartHandler, TLSHandshake, DialRefused, DialSlot,
                    DialOk, DialError, ReleaseSlot, Go
<1>6. ASSUME NEW c \in Conn,
             RealityReturn(c) \/ CountRelay(c) \/ CountAuthed(c) \/ Peek(c)
             \/ CloseRaw(c) \/ ExitHandler(c)
      PROVE  RelayInv'
  BY <1>0, <1>6 DEF RelayInv, RealityReturn, CountRelay, CountAuthed, Peek,
                    CloseRaw, ExitHandler, Go
<1>7. ASSUME NEW c \in Conn,
             Serve(c)
      PROVE  RelayInv'
  BY <1>0, <1>7 DEF RelayInv, Serve, H1Refuse, H1Request, H1HeadRefuse, H1Tunnel,
                      H1TunnelEnd, H2Tunnel, H2End,
                    CountTunnel, Go
<1>8. QED
  BY <1>1, <1>2, <1>3, <1>4, <1>5, <1>6, <1>7, NextCases

(* A handler that leaves has closed its socket.                            *)
LEMMA SocketNext ==
  ASSUME IInv, [Next]_vars
  PROVE  SocketInv'
<1> USE DEF TypeOK, SocketInv, Handlers, Live, PreAuth, Serving, loopVars, relayVars,
            countVars
<1>0. TypeOK /\ AcceptInv /\ SocketInv
  BY DEF IInv
<1>1. CASE UNCHANGED vars
  BY <1>0, <1>1 DEF vars
<1>2. CASE Signal \/ CloseListener \/ AcceptError \/ SleepOver
  BY <1>0, <1>2 DEF Signal, CloseListener, AcceptError, SleepOver
<1>3. ASSUME NEW c \in Conn,
             AcceptConn(c) \/ Reject(c) \/ Admit(c) \/ Spawn(c) \/ ClientGone(c)
      PROVE  SocketInv'
  BY <1>0, <1>3 DEF AcceptInv, AcceptConn, Reject, Admit, Spawn, ClientGone
<1>4. ASSUME NEW c \in Conn, CloseRelay(c)
      PROVE  SocketInv'
  BY <1>0, <1>4 DEF CloseRelay
<1>5. ASSUME NEW c \in Conn,
             StartHandler(c) \/ TLSHandshake(c) \/ DialRefused(c) \/ DialSlot(c)
             \/ DialOk(c) \/ DialError(c) \/ ReleaseSlot(c)
      PROVE  SocketInv'
  BY <1>0, <1>5 DEF StartHandler, TLSHandshake, DialRefused, DialSlot,
                    DialOk, DialError, ReleaseSlot, Go
<1>6. ASSUME NEW c \in Conn,
             RealityReturn(c) \/ CountRelay(c) \/ CountAuthed(c) \/ Peek(c)
             \/ CloseRaw(c) \/ ExitHandler(c)
      PROVE  SocketInv'
  BY <1>0, <1>6 DEF RealityReturn, CountRelay, CountAuthed, Peek,
                    CloseRaw, ExitHandler, Go
<1>7. ASSUME NEW c \in Conn,
             Serve(c)
      PROVE  SocketInv'
  BY <1>0, <1>7 DEF Serve, H1Refuse, H1Request, H1HeadRefuse, H1Tunnel, H1TunnelEnd,
              H2Tunnel, H2End,
                    CountTunnel, Go
<1>8. QED
  BY <1>1, <1>2, <1>3, <1>4, <1>5, <1>6, <1>7, NextCases

-----------------------------------------------------------------------------
(* The theorems.                                                           *)

(* The inductive invariant holds initially ...                             *)
LEMMA IInvInit == Init => IInv
<1> SUFFICES ASSUME Init PROVE IInv
  OBVIOUS
<1>1. TypeOK
  BY TypeInit
<1>2. AcceptInv /\ RelayInv /\ SocketInv
  BY DEF Init, NewTunnelServer, AcceptInv, RelayInv, SocketInv, Handlers, None
<1>3. Handlers = {} /\ SlotHolders = {}
  BY DEF Init, NewTunnelServer, Handlers, SlotHolders, Live, PreAuth, Serving, None
<1>4. ActiveExact /\ SlotsExact
  BY <1>3, FS_EmptySet DEF Init, NewTunnelServer, ActiveExact, SlotsExact
<1>5. QED
  BY <1>1, <1>2, <1>4 DEF IInv

(* ... and every step keeps it.                                            *)
LEMMA IInvNext == IInv /\ [Next]_vars => IInv'
BY TypeNext, ActiveNext, SlotsNext, AcceptNext, RelayNext, SocketNext DEF IInv

(* The inductive invariant holds in every reachable state.                 *)
THEOREM Invariance == Spec => []IInv
<1>1. QED
  BY IInvInit, IInvNext, PTL DEF Spec

(* The active counter is the number of handlers and stays within           *)
(* max_connections.                                                        *)
THEOREM ActiveCorrect == Spec => []ActiveExact
<1>1. IInv => ActiveExact
  BY DEF IInv
<1>2. QED
  BY <1>1, Invariance, PTL

(* relaySlots holds one token per target connection, at most max_relays.   *)
THEOREM SlotsCorrect == Spec => []SlotsExact
<1>1. IInv => SlotsExact
  BY DEF IInv
<1>2. QED
  BY <1>1, Invariance, PTL

(* The open client sockets number at most max_connections, plus the one in *)
(* the accept loop's hand.                                                 *)
THEOREM SocketsCorrect == Spec => []SocketsBounded
<1>1. ASSUME IInv PROVE SocketsBounded
  <2>1. Cardinality(Handlers) <= MaxConnections
    BY <1>1 DEF IInv, ActiveExact
  <2>2. CASE loop \in {"check", "spawn"}
    <3>1. OpenSockets \subseteq Handlers \cup {accepted}
      BY <1>1 DEF IInv, SocketInv, OpenSockets
    <3>2. /\ IsFiniteSet(Handlers \cup {accepted})
          /\ Cardinality(Handlers \cup {accepted}) <= Cardinality(Handlers) + 1
      BY HandlersFinite, AtMostOneMore, Zenon
    <3>3. /\ Cardinality(OpenSockets) <= Cardinality(Handlers \cup {accepted})
          /\ IsFiniteSet(OpenSockets)
      BY <3>1, <3>2, FS_Subset
    <3>4. /\ Cardinality(OpenSockets) \in Nat
          /\ Cardinality(Handlers \cup {accepted}) \in Nat
      BY <3>2, <3>3, FS_CardinalityType
    <3>5. QED
      BY <2>1, <2>2, <3>2, <3>3, <3>4, HandlersFinite, SMT DEF SocketsBounded, InHand
  <2>3. CASE loop \notin {"check", "spawn"}
    <3>1. OpenSockets \subseteq Handlers
      BY <1>1, <2>3 DEF IInv, SocketInv, OpenSockets
    <3>2. Cardinality(OpenSockets) <= Cardinality(Handlers) /\ IsFiniteSet(OpenSockets)
      BY <3>1, HandlersFinite, FS_Subset
    <3>3. Cardinality(OpenSockets) \in Nat
      BY <3>2, FS_CardinalityType
    <3>4. QED
      BY <2>1, <2>3, <3>2, <3>3, HandlersFinite, SMT DEF SocketsBounded, InHand
  <2>4. QED
    BY <2>2, <2>3
<1>2. QED
  BY <1>1, Invariance, PTL

(* The accept loop and the handlers implement a pool of max_connections.   *)
THEOREM ConnPoolRefinement == Spec => ConnPoolSpec
<1>1. Init => ConnPool!Init
  BY DEF Init, ConnPool!Init, Handlers, Live, PreAuth, Serving
<1>2. ASSUME IInv, [Next]_vars
      PROVE  [ConnPool!Next]_Handlers
  <2>1. ASSUME NEW c \in Conn, Spawn(c), c \notin Handlers,
               Handlers' = Handlers \cup {c}
        PROVE  ConnPool!Acquire(c)
    <3>1. Cardinality(Handlers) < MaxConnections
      BY <1>2, <2>1 DEF IInv, AcceptInv, ActiveExact, Spawn
    <3>2. QED
      BY <2>1, <3>1, Zenon DEF ConnPool!Acquire, ConnPool!Cardinality, Cardinality
  <2>2. ASSUME NEW c \in Conn, c \in Handlers, Handlers' = Handlers \ {c}
        PROVE  ConnPool!Release(c)
    BY <2>2 DEF ConnPool!Release
  <2>3. TypeOK /\ AcceptInv
    BY <1>2 DEF IInv
  <2>4. ConnPool!Next \/ Handlers' = Handlers
    BY <1>2, <2>1, <2>2, <2>3, HandlersStep, Zenon DEF ConnPool!Next
  <2>5. QED
    BY <2>4
<1>3. QED
  BY <1>1, <1>2, Invariance, PTL DEF Spec, ConnPoolSpec, ConnPool!Spec

(* dialContext and relayConn.Close implement a pool of max_relays.         *)
THEOREM RelayPoolRefinement == Spec => RelayPool!Spec
<1>1. Init => RelayPool!Init
  BY DEF Init, NewTunnelServer, RelayPool!Init, SlotHolders, None
<1>2. ASSUME IInv, [Next]_vars
      PROVE  [RelayPool!Next]_SlotHolders
  <2>1. ASSUME NEW c \in Conn, DialSlot(c), c \notin SlotHolders,
               SlotHolders' = SlotHolders \cup {c}
        PROVE  RelayPool!Acquire(c)
    <3>1. Cardinality(SlotHolders) < MaxRelays
      BY <1>2, <2>1 DEF IInv, SlotsExact, DialSlot
    <3>2. QED
      BY <2>1, <3>1, Zenon DEF RelayPool!Acquire, RelayPool!Cardinality, Cardinality
  <2>2. ASSUME NEW c \in Conn, c \in SlotHolders, SlotHolders' = SlotHolders \ {c}
        PROVE  RelayPool!Release(c)
    BY <2>2 DEF RelayPool!Release
  <2>3. TypeOK /\ AcceptInv /\ RelayInv
    BY <1>2 DEF IInv
  <2>4. RelayPool!Next \/ SlotHolders' = SlotHolders
    BY <1>2, <2>1, <2>2, <2>3, HoldersStep, Zenon DEF RelayPool!Next
  <2>5. QED
    BY <2>4
<1>3. QED
  BY <1>1, <1>2, Invariance, PTL DEF Spec, RelayPool!Spec

=============================================================================
