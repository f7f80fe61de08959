--------------------------- MODULE SessionProofs ---------------------------
(***************************************************************************)
(* Proofs about Session, for any clients, graphs, vertices and bounds: the *)
(* invariants of SessionSafety, and that a session acts as graphs of one's *)
(* own.                                                                    *)
(***************************************************************************)
EXTENDS SessionSafety, UndoLogProofs

(* What a call asks for itself, after the flush.                           *)
Asked == [kind : {"connect"}, graph : Graph]
         \cup [kind : Pattern, parses : BOOLEAN]
         \cup [kind : {"commit", "apply", "find", "rollback"}]

Message == {Nothing, Closed} \cup Request \cup Response

Typed ==
    /\ buffer \in [Client -> Seq(Change(Vertex))]
    /\ call \in [Client -> Call \cup {"none"}]
    /\ requests \in [Client -> Seq(Request)]
    /\ wire \in [Client -> Message]
    /\ alive \in [Client -> BOOLEAN]
    /\ envs \in [Client -> [Graph -> Env]]
    /\ current \in [Client -> Graph \cup {NoGraph}]
    /\ issued \in [Client -> Seq(Change(Vertex))]
    /\ received \in [Client -> Seq(Change(Vertex))]

(* A call first sends the buffer, if it flushes and there is something in  *)
(* it, and then what it is about.                                          *)
Flushing(c) == [kind |-> "apply_updates", updates |-> buffer[c]]

InCall(c) ==
    \/ call[c] = "none" /\ requests[c] = <<>>
    \/ \E request \in Asked :
          /\ call[c] = request.kind
          /\ request.kind = "connect" /\ ~SwitchAnytime => buffer[c] = <<>>
          /\ \/ requests[c] = <<request>> /\ (request.kind \in Flushed => buffer[c] = <<>>)
             \/ /\ requests[c] = <<Flushing(c), request>>
                /\ request.kind \in Flushed

(* What is on the wire belongs to the first request.                       *)
OnWire(c) ==
    \/ wire[c] = Nothing
    \/ requests[c] # <<>> /\ \/ wire[c] = Closed
                             \/ wire[c] = Head(requests[c])
                             \/ /\ wire[c] \in Response
                                /\ wire[c].answer = Head(requests[c]).kind

Connected(c) == current[c] # NoGraph => envs[c][current[c]].made

Delivered(c) == ~Answered(c, "rollback") => issued[c] = received[c] \o Unsent(c)

ClientInv(c) == InCall(c) /\ OnWire(c) /\ Connected(c) /\ Delivered(c)

SessionInv == Typed /\ \A c \in Client : ClientInv(c)

-----------------------------------------------------------------------------
(* Messages of different kinds are different.                              *)
LEMMA MessagesDiffer ==
  /\ ~IsRequest(Nothing) /\ ~IsResponse(Nothing)
  /\ ~IsRequest(Closed) /\ ~IsResponse(Closed) /\ Nothing # Closed
  /\ \A m \in Request : IsRequest(m) /\ ~IsResponse(m)
  /\ \A m \in Response : IsResponse(m) /\ ~IsRequest(m)
<1>1. /\ ~IsRequest(Nothing) /\ ~IsResponse(Nothing)
      /\ ~IsRequest(Closed) /\ ~IsResponse(Closed) /\ Nothing # Closed
  BY DEF IsRequest, IsResponse, Nothing, Closed
<1>2. \A m \in Request : IsRequest(m) /\ ~IsResponse(m)
  BY DEF IsRequest, IsResponse, Request
<1>3. \A m \in Response : IsResponse(m) /\ ~IsRequest(m)
  BY DEF IsRequest, IsResponse, Response
<1>. QED
  BY <1>1, <1>2, <1>3

LEMMA RequestsOfCalls ==
  /\ Asked \subseteq Request
  /\ \A request \in Asked : request.kind \in Call /\ request.kind # "none"
                            /\ request.kind # "apply_updates"
  /\ \A us \in Seq(Change(Vertex)) : [kind |-> "apply_updates", updates |-> us] \in Request
  /\ \A request \in Request : \/ request \in Asked
                              \/ request.kind = "apply_updates" /\ request.updates \in Seq(Change(Vertex))
  BY DEF Asked, Request, Call, Flushed, Pattern

(* What a call sends, one after the other.                                 *)
LEMMA OneRequest ==
  ASSUME NEW a
  PROVE  /\ <<a>> # <<>> /\ Head(<<a>>) = a /\ Len(<<a>>) = 1
         /\ Append(<<>>, a) = <<a>>
         /\ \A S : a \in S => <<a>> \in Seq(S)
  OBVIOUS

LEMMA TwoRequests ==
  ASSUME NEW a, NEW b
  PROVE  /\ <<a, b>> # <<>> /\ Head(<<a, b>>) = a /\ Len(<<a, b>>) = 2
         /\ Append(<<a>>, b) = <<a, b>> /\ Tail(<<a, b>>) = <<b>>
         /\ \A S : a \in S /\ b \in S => <<a, b>> \in Seq(S)
<1> DEFINE S2 == {a, b}
<1>1. /\ <<a, b>> # <<>> /\ Head(<<a, b>>) = a /\ Len(<<a, b>>) = 2
      /\ <<a, b>>[1] = a /\ <<a, b>>[2] = b /\ <<a, b>> \in Seq(S2)
  OBVIOUS
<1>2. /\ <<a>> \in Seq(S2) /\ <<b>> \in Seq(S2) /\ b \in S2
      /\ Len(<<a>>) = 1 /\ <<a>>[1] = a /\ Len(<<b>>) = 1 /\ <<b>>[1] = b
  OBVIOUS
<1>. HIDE DEF S2
<1>3. Append(<<a>>, b) = <<a, b>>
  <2>1. /\ Append(<<a>>, b) \in Seq(S2) /\ Len(Append(<<a>>, b)) = 2
        /\ Append(<<a>>, b)[1] = a /\ Append(<<a>>, b)[2] = b
    BY <1>2, AppendProperties
  <2>2. \A i \in 1..2 : Append(<<a>>, b)[i] = <<a, b>>[i]
    <3>1. 1..2 = {1, 2}
      OBVIOUS
    <3>. QED
      BY <1>1, <2>1, <3>1, Zenon
  <2>. QED
    BY <1>1, <2>1, <2>2, SeqEqual, Zenon
<1>4. Tail(<<a, b>>) = <<b>>
  <2>1. /\ Tail(<<a, b>>) \in Seq(S2) /\ Len(Tail(<<a, b>>)) = 1
        /\ Tail(<<a, b>>)[1] = b
    BY <1>1, HeadTailProperties
  <2>. QED
    BY <1>2, <2>1, SeqEqual
<1>5. ASSUME NEW S, a \in S, b \in S PROVE <<a, b>> \in Seq(S)
  <2>1. S2 \subseteq S
    BY <1>5 DEF S2
  <2>. QED
    BY <1>1, <2>1, SeqMonotonic
<1>. QED
  BY <1>1, <1>3, <1>4, <1>5

(* What the wire says about the call.                                      *)
LEMMA WireFacts ==
  ASSUME SessionInv, NEW c \in Client
  PROVE  /\ IsRequest(wire[c]) => wire[c] \in Request /\ wire[c] = Head(requests[c]) /\ requests[c] # <<>>
         /\ IsResponse(wire[c]) => /\ wire[c] \in Response /\ requests[c] # <<>>
                                   /\ wire[c].answer = Head(requests[c]).kind
  BY MessagesDiffer DEF SessionInv, Typed, Message, ClientInv, OnWire

LEMMA FirstOfFlush ==
  ASSUME SessionInv, NEW c \in Client, requests[c] # <<>>, Head(requests[c]).kind = "apply_updates"
  PROVE  \E request \in Asked : /\ requests[c] = <<Flushing(c), request>>
                                /\ call[c] = request.kind /\ request.kind \in Flushed
<1>1. InCall(c)
  BY DEF SessionInv, ClientInv
<1>2. PICK request \in Asked :
          /\ call[c] = request.kind
          /\ \/ requests[c] = <<request>>
             \/ requests[c] = <<Flushing(c), request>> /\ request.kind \in Flushed
  BY <1>1 DEF InCall
<1>3. requests[c] # <<request>>
  BY RequestsOfCalls, OneRequest
<1>. QED
  BY <1>2, <1>3

LEMMA FirstOfCall ==
  ASSUME SessionInv, NEW c \in Client, requests[c] # <<>>, Head(requests[c]).kind # "apply_updates"
  PROVE  \E request \in Asked : /\ requests[c] = <<request>> /\ call[c] = request.kind
                                /\ request.kind \in Flushed => buffer[c] = <<>>
                                /\ request.kind = "connect" /\ ~SwitchAnytime => buffer[c] = <<>>
<1>1. InCall(c)
  BY DEF SessionInv, ClientInv
<1>2. PICK request \in Asked :
          /\ call[c] = request.kind
          /\ request.kind = "connect" /\ ~SwitchAnytime => buffer[c] = <<>>
          /\ \/ requests[c] = <<request>> /\ (request.kind \in Flushed => buffer[c] = <<>>)
             \/ requests[c] = <<Flushing(c), request>>
  BY <1>1 DEF InCall
<1>3. Flushing(c).kind = "apply_updates"
  BY DEF Flushing
<1>4. requests[c] # <<Flushing(c), request>>
  BY <1>3, TwoRequests
<1>. QED
  BY <1>2, <1>4

-----------------------------------------------------------------------------
(* Clients have nothing to do with each other.                             *)
Same(c) ==
    /\ buffer'[c] = buffer[c] /\ call'[c] = call[c] /\ requests'[c] = requests[c]
    /\ wire'[c] = wire[c] /\ envs'[c] = envs[c] /\ current'[c] = current[c]
    /\ issued'[c] = issued[c] /\ received'[c] = received[c]

LEMMA SameKeeps ==
  ASSUME NEW c \in Client, ClientInv(c), Same(c)
  PROVE  ClientInv(c)'
<1>1. InCall(c)'
  BY DEF Same, ClientInv, InCall, Flushing
<1>2. OnWire(c)' /\ Connected(c)'
  BY DEF Same, ClientInv, OnWire, Connected
<1>3. Delivered(c)'
  BY DEF Same, ClientInv, Delivered, Answered, Unsent
<1>. QED
  BY <1>1, <1>2, <1>3 DEF ClientInv

(* The buffer is as good as empty once updates or a rollback are answered. *)
LEMMA UnsentIs ==
  ASSUME NEW c \in Client
  PROVE  /\ ~IsResponse(wire[c]) => Unsent(c) = buffer[c] /\ ~Answered(c, "rollback")
         /\ IsResponse(wire[c]) /\ (wire[c].status = "NOT_CONNECTED"
                                      \/ wire[c].answer \notin {"apply_updates", "rollback"})
               => Unsent(c) = buffer[c] /\ ~Answered(c, "rollback")
         /\ IsResponse(wire[c]) /\ wire[c].status # "NOT_CONNECTED"
              /\ wire[c].answer \in {"apply_updates", "rollback"}
               => Unsent(c) = <<>>
         /\ IsResponse(wire[c]) /\ wire[c].answer = "apply_updates" => ~Answered(c, "rollback")
         /\ Answered(c, "rollback") <=> IsResponse(wire[c]) /\ wire[c].answer = "rollback"
                                          /\ wire[c].status # "NOT_CONNECTED"
  BY DEF Unsent, Answered

LEMMA UpdateKeeps ==
  ASSUME SessionInv, NEW c \in Client, NEW change \in Change(Vertex), Update(c, change)
  PROVE  SessionInv' /\ \A d \in Client \ {c} : Same(d)
<1>. USE DEF SessionInv, Typed
<1>1. /\ call[c] = "none"
      /\ buffer' = [buffer EXCEPT ![c] = Append(@, change)]
      /\ issued' = [issued EXCEPT ![c] = Append(@, change)]
      /\ UNCHANGED <<call, requests, wire, workerVars>>
  BY DEF Update
<1>2. \A d \in Client \ {c} : Same(d)
  BY <1>1 DEF Same, workerVars
<1>3. Typed'
  BY <1>1 DEF workerVars
<1>4. ClientInv(c)'
  <2>1. requests[c] = <<>> /\ wire[c] = Nothing
    BY <1>1, RequestsOfCalls DEF ClientInv, InCall, OnWire
  <2>2. InCall(c)' /\ OnWire(c)' /\ Connected(c)'
    BY <1>1, <2>1 DEF InCall, OnWire, ClientInv, Connected, workerVars
  <2>3. issued[c] = received[c] \o buffer[c]
    BY <2>1, UnsentIs, MessagesDiffer DEF ClientInv, Delivered
  <2>4. issued'[c] = received[c] \o Append(buffer[c], change)
    <3>1. issued'[c] = Append(issued[c], change)
      BY <1>1
    <3> DEFINE T == Change(Vertex)
               s == received[c]
               t == buffer[c]
    <3>2. s \in Seq(T) /\ t \in Seq(T) /\ change \in T
      OBVIOUS
    <3>. HIDE DEF T, s, t
    <3>3. Append(s \o t, change) = s \o Append(t, change)
      <4>1. s \o t \in Seq(T) /\ <<change>> \in Seq(T)
        BY ONLY <3>2, ConcatProperties
      <4>2. Append(s \o t, change) = (s \o t) \o <<change>> /\ Append(t, change) = t \o <<change>>
        BY ONLY <3>2, <4>1, AppendIsConcat
      <4>. QED
        BY ONLY <3>2, <4>1, <4>2, ConcatAssociative
    <3>. QED
      BY <2>3, <3>1, <3>3 DEF s, t
  <2>5. Delivered(c)'
    <3>1. Unsent(c)' = buffer'[c]
      BY <1>1, <2>1, MessagesDiffer DEF Unsent, Answered
    <3>. QED
      BY <1>1, <2>4, <3>1 DEF Delivered, workerVars
  <2>. QED
    BY <2>2, <2>5 DEF ClientInv
<1>. QED
  BY <1>2, <1>3, <1>4, SameKeeps

LEMMA BeginKeeps ==
  ASSUME SessionInv, NEW c \in Client, NEW request \in Asked, Begin(c, request)
  PROVE  SessionInv' /\ \A d \in Client \ {c} : Same(d)
<1>. USE DEF SessionInv, Typed
<1>1. /\ call[c] = "none"
      /\ request.kind = "connect" /\ ~SwitchAnytime => buffer[c] = <<>>
      /\ call' = [call EXCEPT ![c] = request.kind]
      /\ requests' = [requests EXCEPT ![c] = Append(Flush(c, request.kind), request)]
      /\ UNCHANGED <<buffer, wire, issued, workerVars>>
  BY DEF Begin
<1>2. \A d \in Client \ {c} : Same(d)
  BY <1>1 DEF Same, workerVars
<1>3. \/ /\ requests'[c] = <<request>>
         /\ request.kind \in Flushed => buffer[c] = <<>>
      \/ requests'[c] = <<Flushing(c), request>> /\ request.kind \in Flushed
  <2>1. CASE request.kind \in Flushed /\ buffer[c] # <<>>
    BY <1>1, <2>1, TwoRequests DEF Flush, Flushing
  <2>2. CASE ~(request.kind \in Flushed /\ buffer[c] # <<>>)
    BY <1>1, <2>2, OneRequest DEF Flush
  <2>. QED
    BY <2>1, <2>2
<1>4. Flushing(c) \in Request /\ request \in Request /\ request.kind \in Call
  BY RequestsOfCalls DEF Flushing
<1>5. requests'[c] \in Seq(Request)
  <2>1. <<request>> \in Seq(Request)
    BY <1>4, OneRequest
  <2>2. <<Flushing(c), request>> \in Seq(Request)
    BY <1>4, TwoRequests
  <2>. QED
    BY <1>3, <2>1, <2>2
<1>6. Typed'
  BY <1>1, <1>4, <1>5 DEF workerVars
<1>7. wire[c] = Nothing
  BY <1>1, RequestsOfCalls DEF ClientInv, InCall, OnWire
<1>8. ClientInv(c)'
  <2>1. InCall(c)'
    BY <1>1, <1>3 DEF InCall, Flushing
  <2>2. OnWire(c)' /\ Connected(c)' /\ Delivered(c)'
    BY <1>1, <1>7 DEF ClientInv, OnWire, Connected, Delivered, Unsent, Answered, workerVars
  <2>. QED
    BY <2>1, <2>2 DEF ClientInv
<1>. QED
  BY <1>2, <1>6, <1>8, SameKeeps

LEMMA SendKeeps ==
  ASSUME SessionInv, NEW c \in Client, Send(c)
  PROVE  SessionInv' /\ \A d \in Client \ {c} : Same(d)
<1>. USE DEF SessionInv, Typed
<1>1. /\ requests[c] # <<>> /\ wire[c] = Nothing
      /\ wire' = [wire EXCEPT ![c] = IF alive[c] THEN Head(requests[c]) ELSE Closed]
      /\ UNCHANGED <<clientVars, workerVars>>
  BY DEF Send
<1>2. \A d \in Client \ {c} : Same(d)
  BY <1>1 DEF Same, workerVars, clientVars
<1>3. Head(requests[c]) \in Request
  BY <1>1
<1>4. wire'[c] \in Message /\ ~IsResponse(wire'[c])
  BY <1>1, <1>3, MessagesDiffer DEF Message
<1>5. Typed'
  BY <1>1, <1>4 DEF workerVars, clientVars
<1>6. ClientInv(c)'
  <2>1. InCall(c)' /\ OnWire(c)' /\ Connected(c)'
    BY <1>1 DEF InCall, OnWire, ClientInv, Connected, Flushing, workerVars, clientVars
  <2>2. issued[c] = received[c] \o buffer[c]
    BY <1>1, UnsentIs, MessagesDiffer DEF ClientInv, Delivered
  <2>3. Unsent(c)' = buffer'[c]
    BY <1>4 DEF Unsent, Answered
  <2>. QED
    BY <1>1, <2>1, <2>2, <2>3 DEF ClientInv, Delivered, workerVars, clientVars
<1>. QED
  BY <1>2, <1>5, <1>6, SameKeeps

LEMMA AdvanceKeeps ==
  ASSUME SessionInv, NEW c \in Client, Advance(c)
  PROVE  SessionInv' /\ \A d \in Client \ {c} : Same(d)
<1>. USE DEF SessionInv, Typed
<1>1. /\ IsResponse(wire[c]) /\ wire[c].status # "NOT_CONNECTED"
      /\ wire' = [wire EXCEPT ![c] = Nothing]
      /\ buffer' = [buffer EXCEPT ![c] =
                      IF wire[c].answer \in {"apply_updates", "rollback"} THEN <<>> ELSE @]
      /\ issued' = [issued EXCEPT ![c] = IF wire[c].answer = "rollback" THEN received[c] ELSE @]
      /\ IF Len(requests[c]) = 1
         THEN /\ call' = [call EXCEPT ![c] = "none"]
              /\ requests' = [requests EXCEPT ![c] = <<>>]
         ELSE requests' = [requests EXCEPT ![c] = Tail(@)] /\ UNCHANGED call
      /\ UNCHANGED workerVars
  BY DEF Advance, End
<1>2. \A d \in Client \ {c} : Same(d)
  BY <1>1 DEF Same, workerVars
<1>3. /\ wire[c] \in Response /\ requests[c] # <<>>
      /\ wire[c].answer = Head(requests[c]).kind
  BY <1>1, WireFacts
<1>4. \/ call'[c] = "none" /\ requests'[c] = <<>>
      \/ \E request \in Asked : /\ call'[c] = request.kind /\ request.kind \in Flushed
                                /\ requests'[c] = <<request>> /\ wire[c].answer = "apply_updates"
  <2>1. CASE wire[c].answer = "apply_updates"
    <3>1. PICK request \in Asked : /\ requests[c] = <<Flushing(c), request>>
                                   /\ call[c] = request.kind /\ request.kind \in Flushed
      BY <1>3, <2>1, FirstOfFlush
    <3>2. Len(requests[c]) # 1 /\ Tail(requests[c]) = <<request>>
      BY <3>1, TwoRequests
    <3>. QED
      BY <1>1, <2>1, <3>1, <3>2
  <2>2. CASE wire[c].answer # "apply_updates"
    <3>1. \E request \in Asked : requests[c] = <<request>>
      BY <1>3, <2>2, FirstOfCall
    <3>2. Len(requests[c]) = 1
      BY <3>1, OneRequest
    <3>. QED
      BY <1>1, <3>2
  <2>. QED
    BY <2>1, <2>2
<1>5. buffer'[c] \in Seq(Change(Vertex)) /\ issued'[c] \in Seq(Change(Vertex))
  BY <1>1, EmptySeq
<1>6. requests'[c] \in Seq(Request)
  BY <1>4, OneRequest, RequestsOfCalls, EmptySeq
<1>7. Typed'
  <2>1. Nothing \in Message
    BY DEF Message
  <2>. QED
    BY <1>1, <1>5, <1>6, <2>1 DEF workerVars
<1>8. ClientInv(c)'
  <2>1. InCall(c)'
    <3>1. CASE call'[c] = "none" /\ requests'[c] = <<>>
      BY <3>1 DEF InCall
    <3>2. CASE wire[c].answer = "apply_updates"
      <4>1. buffer'[c] = <<>>
        BY <1>1, <3>2
      <4>. QED
        BY <1>4, <4>1 DEF InCall
    <3>. QED
      BY <1>4, <3>1, <3>2
  <2>2. wire'[c] = Nothing
    BY <1>1
  <2>3. OnWire(c)' /\ Connected(c)'
    BY <1>1, <2>2 DEF OnWire, ClientInv, Connected, workerVars
  <2>4. issued'[c] = received'[c] \o buffer'[c]
    <3>1. UNCHANGED received
      BY <1>1 DEF workerVars
    <3>2. CASE wire[c].answer = "rollback"
      <4>1. issued'[c] = received[c] /\ buffer'[c] = <<>> /\ received[c] \in Seq(Change(Vertex))
        BY <1>1, <3>2
      <4>. QED
        BY <3>1, <4>1, ConcatEmptySeq
    <3>3. CASE wire[c].answer # "rollback"
      <4>1. issued[c] = received[c] \o Unsent(c)
        BY <3>3, UnsentIs DEF ClientInv, Delivered
      <4>2. Unsent(c) = buffer'[c]
        BY <1>1, <3>3, UnsentIs
      <4>. QED
        BY <1>1, <3>1, <3>3, <4>1, <4>2
    <3>. QED
      BY <3>2, <3>3
  <2>5. Delivered(c)'
    <3>1. Unsent(c)' = buffer'[c]
      BY <2>2, MessagesDiffer DEF Unsent, Answered
    <3>. QED
      BY <2>4, <3>1 DEF Delivered
  <2>. QED
    BY <2>1, <2>3, <2>5 DEF ClientInv
<1>. QED
  BY <1>2, <1>7, <1>8, SameKeeps

LEMMA RaiseKeeps ==
  ASSUME SessionInv, NEW c \in Client, Raise(c)
  PROVE  SessionInv' /\ \A d \in Client \ {c} : Same(d)
<1>. USE DEF SessionInv, Typed
<1>1. /\ wire[c] = Closed \/ (IsResponse(wire[c]) /\ wire[c].status = "NOT_CONNECTED")
      /\ wire' = [wire EXCEPT ![c] = Nothing]
      /\ call' = [call EXCEPT ![c] = "none"]
      /\ requests' = [requests EXCEPT ![c] = <<>>]
      /\ UNCHANGED <<buffer, issued, workerVars>>
  BY DEF Raise, End
<1>2. \A d \in Client \ {c} : Same(d)
  BY <1>1 DEF Same, workerVars
<1>3. Typed'
  <2>1. Nothing \in Message /\ <<>> \in Seq(Request)
    BY EmptySeq DEF Message
  <2>. QED
    BY <1>1, <2>1 DEF workerVars
<1>4. ClientInv(c)'
  <2>1. InCall(c)' /\ OnWire(c)' /\ Connected(c)'
    BY <1>1 DEF InCall, OnWire, ClientInv, Connected, workerVars
  <2>2. issued[c] = received[c] \o buffer[c]
    BY <1>1, UnsentIs, MessagesDiffer DEF ClientInv, Delivered
  <2>3. Unsent(c)' = buffer'[c]
    BY <1>1, MessagesDiffer DEF Unsent, Answered
  <2>. QED
    BY <1>1, <2>1, <2>2, <2>3 DEF ClientInv, Delivered, workerVars
<1>. QED
  BY <1>2, <1>3, <1>4, SameKeeps

-----------------------------------------------------------------------------
(* A handler answers the request, whatever it does to the graphs.          *)
LEMMA RespondsWith ==
  ASSUME SessionInv, NEW c \in Client, IsRequest(wire[c]),
         NEW status \in {"OK", "NOT_CONNECTED", "AGAIN"}, NEW found \in SUBSET Vertex,
         NEW created \in BOOLEAN, RespondWith(c, status, found, created)
  PROVE  /\ wire' \in [Client -> Message] /\ wire'[c] \in Response
         /\ wire'[c].answer = wire[c].kind /\ wire'[c].status = status /\ wire'[c].found = found
         /\ \A d \in Client \ {c} : wire'[d] = wire[d]
<1> DEFINE response == [answer |-> wire[c].kind, status |-> status, found |-> found, created |-> created]
<1>1. wire[c] \in Request
  BY WireFacts
<1>2. wire[c].kind \in Call \cup {"apply_updates"}
  BY <1>1, RequestsOfCalls
<1>3. response \in Response /\ response.answer = wire[c].kind
      /\ response.status = status /\ response.found = found
  BY <1>2 DEF Response
<1>4. wire \in [Client -> Message] /\ wire' = [wire EXCEPT ![c] = response]
  BY DEF SessionInv, Typed, RespondWith
<1>. HIDE DEF response
<1>5. response \in Message
  BY <1>3 DEF Message
<1>. QED
  BY <1>3, <1>4, <1>5

(* What the worker may do to a client, as far as the invariant goes.       *)
LEMMA HandlerKeeps ==
  ASSUME SessionInv, NEW c \in Client, IsRequest(wire[c]),
         wire' \in [Client -> Message], wire'[c] \in Response,
         wire'[c].answer = wire[c].kind,
         UNCHANGED <<clientVars, alive>>,
         envs' \in [Client -> [Graph -> Env]], current' \in [Client -> Graph \cup {NoGraph}],
         received' \in [Client -> Seq(Change(Vertex))],
         current'[c] # NoGraph => envs'[c][current'[c]].made,
         \/ /\ received'[c] = received[c]
            /\ wire[c].kind # "apply_updates" \/ wire'[c].status = "NOT_CONNECTED"
         \/ /\ received'[c] = received[c] \o buffer[c]
            /\ wire[c].kind = "apply_updates" /\ wire'[c].status # "NOT_CONNECTED",
         \A d \in Client \ {c} : /\ wire'[d] = wire[d] /\ envs'[d] = envs[d]
                                  /\ current'[d] = current[d] /\ received'[d] = received[d]
  PROVE  SessionInv' /\ \A d \in Client \ {c} : Same(d)
<1>. USE DEF SessionInv, Typed, clientVars
<1>1. \A d \in Client \ {c} : Same(d)
  BY DEF Same
<1>3. Typed'
  OBVIOUS
<1>4. IsResponse(wire'[c]) /\ requests[c] # <<>> /\ wire[c] = Head(requests[c])
  BY MessagesDiffer, WireFacts
<1>5. InCall(c)'
  BY DEF ClientInv, InCall, Flushing
<1>6. OnWire(c)' /\ Connected(c)'
  BY <1>4 DEF OnWire, Connected
<1>7. Delivered(c)'
  <2>1. issued[c] = received[c] \o buffer[c] /\ issued' = issued /\ buffer' = buffer
    <3>1. ~IsResponse(wire[c])
      <4>1. wire[c] \in Request
        BY WireFacts
      <4> QED BY <4>1, MessagesDiffer
    <3>2. Unsent(c) = buffer[c] /\ ~Answered(c, "rollback")
      BY <3>1, UnsentIs
    <3>3. Delivered(c)
      BY DEF ClientInv
    <3>4. issued[c] = received[c] \o buffer[c]
      BY <3>2, <3>3, Zenon DEF Delivered
    <3> QED BY <3>4
  <2>2. CASE wire[c].kind # "apply_updates" \/ wire'[c].status = "NOT_CONNECTED"
    <3>1. received'[c] = received[c]
      BY <2>2
    <3>2. ~(Answered(c, "rollback"))' => (Unsent(c))' = buffer'[c]
      BY <1>4, <2>2 DEF Unsent, Answered
    <3>. QED
      BY <2>1, <3>1, <3>2 DEF Delivered
  <2>3. CASE wire[c].kind = "apply_updates" /\ wire'[c].status # "NOT_CONNECTED"
    <3>1. received'[c] = received[c] \o buffer[c]
      BY <2>3
    <3>2. (Unsent(c))' = <<>>
      BY <1>4, <2>3 DEF Unsent, Answered
    <3>3. received'[c] \in Seq(Change(Vertex))
      BY <1>3
    <3>4. received'[c] \o <<>> = received'[c]
      BY <3>3, ConcatEmptySeq
    <3>. QED
      BY <2>1, <3>1, <3>2, <3>4 DEF Delivered
  <2>. QED
    BY <2>2, <2>3
<1>. QED
  BY <1>1, <1>3, <1>5, <1>6, <1>7, SameKeeps DEF ClientInv

LEMMA PutFacts ==
  ASSUME SessionInv, NEW c \in Client, current[c] # NoGraph, NEW env \in Env, env.made, Put(c, env)
  PROVE  /\ envs' \in [Client -> [Graph -> Env]]
         /\ envs'[c] = [envs[c] EXCEPT ![current[c]] = env]
         /\ envs'[c][current[c]] = env /\ envs'[c][current[c]].made
         /\ \A d \in Client \ {c} : envs'[d] = envs[d]
  BY DEF SessionInv, Typed, Put

LEMMA HereFacts ==
  ASSUME SessionInv, NEW c \in Client, current[c] # NoGraph
  PROVE  /\ here(c) \in Env /\ here(c).made /\ current[c] \in Graph
         /\ here(c).present \in SUBSET Vertex /\ here(c).committed \in SUBSET Vertex
<1>1. envs[c] \in [Graph -> Env] /\ current[c] \in Graph
  BY DEF SessionInv, Typed
<1>2. here(c) \in Env /\ here(c).made
  BY <1>1 DEF here, SessionInv, ClientInv, Connected
<1>. QED
  BY <1>1, <1>2 DEF Env

LEMMA ConnectKeeps ==
  ASSUME SessionInv, NEW c \in Client, Connect(c)
  PROVE  SessionInv' /\ \A d \in Client \ {c} : Same(d)
<1> DEFINE g == wire[c].graph
<1>1. /\ IsRequest(wire[c]) /\ wire[c].kind = "connect"
      /\ current' = [current EXCEPT ![c] = g]
      /\ envs' = [envs EXCEPT ![c][g].made = TRUE]
      /\ RespondWith(c, "OK", {}, ~envs[c][g].made)
      /\ UNCHANGED <<clientVars, alive, received>>
  BY DEF Connect
<1>2. wire[c] \in Request
  BY <1>1, WireFacts
<1>3. g \in Graph
  BY <1>1, <1>2 DEF Request, Pattern
<1>. HIDE DEF g
<1>4. envs[c] \in [Graph -> Env] /\ (~envs[c][g].made) \in BOOLEAN
  BY DEF SessionInv, Typed
<1>5. /\ wire' \in [Client -> Message] /\ wire'[c] \in Response
      /\ wire'[c].answer = wire[c].kind /\ \A d \in Client \ {c} : wire'[d] = wire[d]
  BY <1>1, <1>4, RespondsWith
<1>6. /\ envs' \in [Client -> [Graph -> Env]] /\ envs'[c][g].made
      /\ \A d \in Client \ {c} : envs'[d] = envs[d]
  <2>1. [envs[c][g] EXCEPT !.made = TRUE] \in Env /\ [envs[c][g] EXCEPT !.made = TRUE].made
    BY <1>3, <1>4 DEF Env
  <2>2. envs' = [envs EXCEPT ![c] = [envs[c] EXCEPT ![g] = [envs[c][g] EXCEPT !.made = TRUE]]]
    BY <1>1
  <2>. QED
    BY <1>3, <1>4, <2>1, <2>2 DEF SessionInv, Typed
<1>7. /\ current' \in [Client -> Graph \cup {NoGraph}] /\ current'[c] = g
      /\ \A d \in Client \ {c} : current'[d] = current[d]
  BY <1>1, <1>3 DEF SessionInv, Typed
<1>8. received' = received /\ received \in [Client -> Seq(Change(Vertex))]
  BY <1>1 DEF SessionInv, Typed
<1>. QED
  BY <1>1, <1>5, <1>6, <1>7, <1>8, HandlerKeeps

(* A handler that leaves the graphs alone.                                 *)
LEMMA AnswerKeeps ==
  ASSUME SessionInv, NEW c \in Client, IsRequest(wire[c]),
         NEW status \in {"OK", "NOT_CONNECTED", "AGAIN"}, NEW found \in SUBSET Vertex,
         NEW created \in BOOLEAN, RespondWith(c, status, found, created),
         wire[c].kind # "apply_updates" \/ status = "NOT_CONNECTED",
         UNCHANGED <<clientVars, workerVars>>
  PROVE  SessionInv' /\ \A d \in Client \ {c} : Same(d)
<1>1. /\ wire' \in [Client -> Message] /\ wire'[c] \in Response /\ wire'[c].status = status
      /\ wire'[c].answer = wire[c].kind /\ \A d \in Client \ {c} : wire'[d] = wire[d]
  BY RespondsWith
<1>2. /\ envs \in [Client -> [Graph -> Env]] /\ current \in [Client -> Graph \cup {NoGraph}]
      /\ received \in [Client -> Seq(Change(Vertex))]
      /\ current[c] # NoGraph => envs[c][current[c]].made
      /\ UNCHANGED <<envs, current, received, alive>>
  BY DEF SessionInv, Typed, ClientInv, Connected, workerVars
<1>. QED
  BY <1>1, <1>2, HandlerKeeps

(* A handler that changes the graph that the client is connected to.       *)
LEMMA PutKeeps ==
  ASSUME SessionInv, NEW c \in Client, IsRequest(wire[c]), wire[c].kind # "apply_updates",
         current[c] # NoGraph, NEW env \in Env, env.made, Put(c, env),
         NEW status \in {"OK", "AGAIN"}, Respond(c, status),
         UNCHANGED <<clientVars, alive, current, received>>
  PROVE  SessionInv' /\ \A d \in Client \ {c} : Same(d)
<1>1. /\ wire' \in [Client -> Message] /\ wire'[c] \in Response
      /\ wire'[c].answer = wire[c].kind /\ \A d \in Client \ {c} : wire'[d] = wire[d]
  <2>1. RespondWith(c, status, {}, FALSE)
    BY DEF Respond
  <2>. QED
    BY <2>1, RespondsWith
<1>2. /\ envs' \in [Client -> [Graph -> Env]] /\ envs'[c][current[c]].made
      /\ \A d \in Client \ {c} : envs'[d] = envs[d]
  BY PutFacts
<1>3. /\ current \in [Client -> Graph \cup {NoGraph}]
      /\ received \in [Client -> Seq(Change(Vertex))]
  BY DEF SessionInv, Typed
<1>. QED
  BY <1>1, <1>2, <1>3, HandlerKeeps

LEMMA ApplyUpdatesFacts ==
  ASSUME SessionInv, NEW c \in Client, ApplyUpdates(c)
  PROVE  /\ IsRequest(wire[c]) /\ wire[c].kind = "apply_updates" /\ current[c] # NoGraph
         /\ wire[c].updates = buffer[c]
         /\ Put(c, [here(c) EXCEPT !.present = Updated(@, buffer[c])])
         /\ received' = [received EXCEPT ![c] = @ \o buffer[c]]
         /\ Respond(c, "OK")
         /\ UNCHANGED <<clientVars, alive, current>>
<1>1. IsRequest(wire[c]) /\ wire[c].kind = "apply_updates" /\ current[c] # NoGraph
  BY DEF ApplyUpdates, Receives
<1>2. wire[c] = Head(requests[c]) /\ requests[c] # <<>>
  BY <1>1, WireFacts
<1>3. \E request \in Asked : requests[c] = <<Flushing(c), request>>
  BY <1>1, <1>2, FirstOfFlush
<1>4. wire[c].updates = buffer[c]
  BY <1>2, <1>3, TwoRequests DEF Flushing
<1>. QED
  BY <1>1, <1>4 DEF ApplyUpdates

LEMMA ApplyUpdatesKeeps ==
  ASSUME SessionInv, NEW c \in Client, ApplyUpdates(c)
  PROVE  SessionInv' /\ \A d \in Client \ {c} : Same(d)
<1> DEFINE env == [here(c) EXCEPT !.present = Updated(@, buffer[c])]
<1>1. /\ IsRequest(wire[c]) /\ wire[c].kind = "apply_updates" /\ current[c] # NoGraph
      /\ Put(c, env) /\ received' = [received EXCEPT ![c] = @ \o buffer[c]]
      /\ RespondWith(c, "OK", {}, FALSE)
      /\ UNCHANGED <<clientVars, alive, current>>
  BY ApplyUpdatesFacts DEF Respond
<1>2. env \in Env /\ env.made
  <2>1. here(c) \in Env /\ here(c).made /\ here(c).present \in SUBSET Vertex
    BY <1>1, HereFacts
  <2>2. Updated(here(c).present, buffer[c]) \in SUBSET Vertex
    BY <2>1, UpdatedType DEF SessionInv, Typed
  <2>. QED
    BY <2>1, <2>2 DEF Env
<1>. HIDE DEF env
<1>3. /\ wire' \in [Client -> Message] /\ wire'[c] \in Response /\ wire'[c].status = "OK"
      /\ wire'[c].answer = wire[c].kind /\ \A d \in Client \ {c} : wire'[d] = wire[d]
  BY <1>1, RespondsWith
<1>4. /\ envs' \in [Client -> [Graph -> Env]] /\ envs'[c][current[c]].made
      /\ \A d \in Client \ {c} : envs'[d] = envs[d]
  BY <1>1, <1>2, PutFacts
<1>5. /\ received' \in [Client -> Seq(Change(Vertex))]
      /\ received'[c] = received[c] \o buffer[c]
      /\ \A d \in Client \ {c} : received'[d] = received[d]
  <2> DEFINE T == Change(Vertex)
  <2>1. received \in [Client -> Seq(T)] /\ buffer[c] \in Seq(T)
    BY DEF SessionInv, Typed
  <2>. HIDE DEF T
  <2>2. received[c] \o buffer[c] \in Seq(T)
    BY <2>1, ConcatProperties
  <2>. QED
    BY <1>1, <2>1, <2>2 DEF T
<1>6. current \in [Client -> Graph \cup {NoGraph}] /\ UNCHANGED <<clientVars, alive, current>>
  BY <1>1 DEF SessionInv, Typed
<1>. QED
  BY <1>1, <1>3, <1>4, <1>5, <1>6, HandlerKeeps

LEMMA CommitKeeps ==
  ASSUME SessionInv, NEW c \in Client, Commit(c)
  PROVE  SessionInv' /\ \A d \in Client \ {c} : Same(d)
<1>1. /\ IsRequest(wire[c]) /\ wire[c].kind = "commit" /\ current[c] # NoGraph
      /\ UNCHANGED <<clientVars, alive, current, received>>
  BY DEF Commit, Receives
<1>2. PICK observation \in BOOLEAN :
         /\ Put(c, [here(c) EXCEPT !.applied = here(c).present,
                                   !.committed = IF observation THEN @ ELSE here(c).present])
         /\ Respond(c, IF observation THEN "AGAIN" ELSE "OK")
  <2>1. here(c).observed \in BOOLEAN
    BY <1>1, HereFacts DEF Env
  <2>. QED
    BY <2>1 DEF Commit
<1> DEFINE env == [here(c) EXCEPT !.applied = here(c).present,
                                  !.committed = IF observation THEN @ ELSE here(c).present]
           status == IF observation THEN "AGAIN" ELSE "OK"
<1>3. env \in Env /\ env.made /\ status \in {"OK", "AGAIN"}
  BY <1>1, HereFacts DEF Env
<1>4. Put(c, env) /\ Respond(c, status)
  BY <1>2
<1>. HIDE DEF env, status
<1>. QED
  BY <1>1, <1>3, <1>4, PutKeeps

LEMMA ApplyKeeps ==
  ASSUME SessionInv, NEW c \in Client, Apply(c)
  PROVE  SessionInv' /\ \A d \in Client \ {c} : Same(d)
<1> DEFINE env == [here(c) EXCEPT !.applied = here(c).present]
<1>1. /\ IsRequest(wire[c]) /\ wire[c].kind = "apply" /\ current[c] # NoGraph
      /\ Put(c, env) /\ Respond(c, "OK")
      /\ UNCHANGED <<clientVars, alive, current, received>>
  BY DEF Apply, Receives
<1>2. env \in Env /\ env.made
  BY <1>1, HereFacts DEF Env
<1>. HIDE DEF env
<1>. QED
  BY <1>1, <1>2, PutKeeps

LEMMA RollbackKeeps ==
  ASSUME SessionInv, NEW c \in Client, Rollback(c)
  PROVE  SessionInv' /\ \A d \in Client \ {c} : Same(d)
<1> DEFINE env == [here(c) EXCEPT !.present = here(c).committed, !.applied = here(c).committed]
<1>1. /\ IsRequest(wire[c]) /\ wire[c].kind = "rollback" /\ current[c] # NoGraph
      /\ Put(c, env) /\ Respond(c, "OK")
      /\ UNCHANGED <<clientVars, alive, current, received>>
  BY DEF Rollback, Receives
<1>2. env \in Env /\ env.made
  BY <1>1, HereFacts DEF Env
<1>. HIDE DEF env
<1>. QED
  BY <1>1, <1>2, PutKeeps

LEMMA ObserveKeeps ==
  ASSUME SessionInv, NEW c \in Client, Observe(c)
  PROVE  SessionInv' /\ \A d \in Client \ {c} : Same(d)
<1> DEFINE env == [here(c) EXCEPT !.observed = TRUE]
<1>1. /\ IsRequest(wire[c]) /\ wire[c].kind = "observe" /\ current[c] # NoGraph
      /\ Put(c, env) /\ Respond(c, "OK")
      /\ UNCHANGED <<clientVars, alive, current, received>>
  BY DEF Observe, Receives
<1>2. env \in Env /\ env.made
  BY <1>1, HereFacts DEF Env
<1>. HIDE DEF env
<1>. QED
  BY <1>1, <1>2, PutKeeps

LEMMA QueryKeeps ==
  ASSUME SessionInv, NEW c \in Client, Find(c) \/ Match(c)
  PROVE  SessionInv' /\ \A d \in Client \ {c} : Same(d)
<1>1. /\ IsRequest(wire[c]) /\ wire[c].kind # "apply_updates" /\ current[c] # NoGraph
      /\ RespondWith(c, "OK", here(c).present, FALSE)
      /\ UNCHANGED <<clientVars, workerVars>>
  BY DEF Find, Match, Receives
<1>2. here(c).present \in SUBSET Vertex
  BY <1>1, HereFacts
<1>. QED
  BY <1>1, <1>2, AnswerKeeps

LEMMA NotConnectedKeeps ==
  ASSUME SessionInv, NEW c \in Client, NotConnected(c)
  PROVE  SessionInv' /\ \A d \in Client \ {c} : Same(d)
<1>1. /\ IsRequest(wire[c]) /\ RespondWith(c, "NOT_CONNECTED", {}, FALSE)
      /\ UNCHANGED <<clientVars, workerVars>>
  BY DEF NotConnected, Respond
<1>. QED
  BY <1>1, AnswerKeeps

LEMMA DieKeeps ==
  ASSUME SessionInv, NEW c \in Client, Die(c)
  PROVE  SessionInv' /\ \A d \in Client \ {c} : Same(d)
<1>. USE DEF SessionInv, Typed
<1>1. /\ IsRequest(wire[c])
      /\ alive' = [alive EXCEPT ![c] = FALSE]
      /\ envs' = [envs EXCEPT ![c] = [g \in Graph |-> NoEnv]]
      /\ current' = [current EXCEPT ![c] = NoGraph]
      /\ received' = [received EXCEPT ![c] = <<>>]
      /\ issued' = [issued EXCEPT ![c] = buffer[c]]
      /\ wire' = [wire EXCEPT ![c] = Closed]
      /\ UNCHANGED <<buffer, call, requests>>
  BY DEF Die, Receives
<1>2. \A d \in Client \ {c} : Same(d)
  BY <1>1 DEF Same
<1>3. Typed'
  <2>1. Closed \in Message /\ <<>> \in Seq(Change(Vertex)) /\ buffer[c] \in Seq(Change(Vertex))
    BY EmptySeq DEF Message
  <2>2. [g \in Graph |-> NoEnv] \in [Graph -> Env]
    BY DEF NoEnv, Env
  <2>. QED
    BY <1>1, <2>1, <2>2
<1>4. ClientInv(c)'
  <2>1. requests[c] # <<>>
    BY <1>1, WireFacts
  <2>2. InCall(c)' /\ OnWire(c)' /\ Connected(c)'
    BY <1>1, <2>1 DEF InCall, OnWire, ClientInv, Connected, Flushing
  <2>3. (Unsent(c))' = buffer'[c]
    BY <1>1, MessagesDiffer DEF Unsent, Answered
  <2>4. <<>> \o buffer[c] = buffer[c]
    <3> DEFINE T == Change(Vertex)
    <3>1. buffer[c] \in Seq(T)
      OBVIOUS
    <3>. HIDE DEF T
    <3>. QED
      BY <3>1, ConcatEmptySeq
  <2>5. issued'[c] = buffer[c] /\ received'[c] = <<>> /\ buffer'[c] = buffer[c]
    BY <1>1
  <2>. QED
    BY <2>2, <2>3, <2>4, <2>5 DEF ClientInv, Delivered
<1>. QED
  BY <1>2, <1>3, <1>4, SameKeeps

-----------------------------------------------------------------------------
LEMMA InitHolds ==
  Init => SessionInv
<1>. SUFFICES ASSUME Init PROVE SessionInv
  OBVIOUS
<1>1. Typed
  <2>1. /\ <<>> \in Seq(Change(Vertex)) /\ <<>> \in Seq(Request) /\ Nothing \in Message
        /\ [g \in Graph |-> NoEnv] \in [Graph -> Env]
    BY EmptySeq DEF Message, NoEnv, Env
  <2>. QED
    BY <2>1 DEF Init, Typed
<1>2. ASSUME NEW c \in Client PROVE ClientInv(c)
  <2>1. Unsent(c) = <<>>
    BY DEF Init, Unsent
  <2>2. <<>> \o <<>> = <<>>
    BY EmptySeq, ConcatEmptySeq
  <2>3. issued[c] = <<>> /\ received[c] = <<>>
    BY DEF Init
  <2>. QED
    BY <2>1, <2>2, <2>3 DEF Init, ClientInv, InCall, OnWire, Connected, Delivered
<1>. QED
  BY <1>1, <1>2 DEF SessionInv

LEMMA StepKeeps ==
  ASSUME SessionInv, NEW c \in Client, Proceed(c)
  PROVE  SessionInv' /\ \A d \in Client \ {c} : Same(d)
  BY SendKeeps, AdvanceKeeps, RaiseKeeps, ConnectKeeps, NotConnectedKeeps, ApplyUpdatesKeeps,
     CommitKeeps, ApplyKeeps, RollbackKeeps, QueryKeeps, ObserveKeeps, DieKeeps
  DEF Proceed, Handle

(* Every step is one of a client, which other clients do not notice.       *)
LEMMA NextHolds ==
  ASSUME SessionInv, [Next]_vars
  PROVE  SessionInv'
<1>1. CASE UNCHANGED vars
  <2>1. \A c \in Client : Same(c)
    BY <1>1 DEF vars, Same
  <2>2. Typed'
    BY <1>1 DEF vars, SessionInv, Typed
  <2>. QED
    BY <2>1, <2>2, SameKeeps DEF SessionInv
<1>2. ASSUME NEW c \in Client, NEW change \in Change(Vertex), Update(c, change) PROVE SessionInv'
  BY <1>2, UpdateKeeps
<1>3. ASSUME NEW c \in Client, NEW request \in Asked, Begin(c, request) PROVE SessionInv'
  BY <1>3, BeginKeeps
<1>4. ASSUME NEW c \in Client, Proceed(c) PROVE SessionInv'
  BY <1>4, StepKeeps
<1>. QED
  BY <1>1, <1>2, <1>3, <1>4 DEF Next, Asked

(* The inductive invariant holds in every reachable state of the clients   *)
(* and their workers.                                                      *)
THEOREM Invariance == Spec => []SessionInv
  BY InitHolds, NextHolds, PTL DEF Spec

(* Calls, requests and responses have their types, and each response       *)
(* answers the request its client waits for (SaengraClient._send_request,  *)
(* Worker::run).                                                           *)
THEOREM TypeCorrect == Spec => []TypeOK
<1>1. ASSUME SessionInv PROVE TypeOK
  <2>. SUFFICES ASSUME NEW c \in Client
                PROVE  /\ buffer[c] \in Seq(Change(Vertex))
                       /\ call[c] \in Call \cup {"none"}
                       /\ requests[c] \in Seq(Request) /\ Len(requests[c]) <= 2
                       /\ requests[c] = <<>> <=> call[c] = "none"
                       /\ \/ wire[c] \in {Nothing, Closed}
                          \/ wire[c] \in Request /\ wire[c] = Head(requests[c])
                          \/ wire[c] \in Response /\ wire[c].answer = Head(requests[c]).kind
                       /\ alive[c] \in BOOLEAN
                       /\ envs[c] \in [Graph -> Env]
                       /\ current[c] \in Graph \cup {NoGraph}
                       /\ current[c] # NoGraph => here(c).made
    BY DEF TypeOK
  <2>1. Len(requests[c]) <= 2 /\ (requests[c] = <<>> <=> call[c] = "none")
    <3>1. CASE call[c] = "none" /\ requests[c] = <<>>
      BY <3>1, EmptySeq
    <3>2. ASSUME NEW request \in Asked, call[c] = request.kind,
                 requests[c] = <<request>> \/ requests[c] = <<Flushing(c), request>>
          PROVE  Len(requests[c]) <= 2 /\ requests[c] # <<>> /\ call[c] # "none"
      <4>1. call[c] # "none"
        BY <3>2, RequestsOfCalls
      <4>2. CASE requests[c] = <<request>>
        BY <4>1, <4>2, OneRequest
      <4>3. CASE requests[c] = <<Flushing(c), request>>
        BY <4>1, <4>3, TwoRequests
      <4>. QED
        BY <3>2, <4>2, <4>3
    <3>. QED
      BY <1>1, <3>1, <3>2 DEF SessionInv, ClientInv, InCall
  <2>2. \/ wire[c] \in {Nothing, Closed}
        \/ wire[c] \in Request /\ wire[c] = Head(requests[c])
        \/ wire[c] \in Response /\ wire[c].answer = Head(requests[c]).kind
    BY <1>1 DEF SessionInv, Typed, ClientInv, OnWire
  <2>3. current[c] # NoGraph => here(c).made
    BY <1>1 DEF SessionInv, ClientInv, Connected, here
  <2>. QED
    BY <1>1, <2>1, <2>2, <2>3 DEF SessionInv, Typed
<1>. QED
  BY <1>1, Invariance, PTL

(* Every update reaches the worker once and in order, or is in the buffer, *)
(* whatever fails in between (SocketAdapter.flush).                        *)
THEOREM DeliveredExactlyOnce == Spec => []ExactlyOnce
<1>1. ASSUME SessionInv PROVE ExactlyOnce
  <2>. SUFFICES ASSUME NEW c \in Client, call[c] # "rollback"
                PROVE  issued[c] = received[c] \o Unsent(c)
    BY DEF ExactlyOnce
  <2>1. ~Answered(c, "rollback")
    <3>. SUFFICES ASSUME Answered(c, "rollback") PROVE FALSE
      OBVIOUS
    <3>1. requests[c] # <<>> /\ Head(requests[c]).kind = "rollback"
      BY <1>1, WireFacts DEF Answered
    <3>2. PICK request \in Asked : requests[c] = <<request>> /\ call[c] = request.kind
      BY <1>1, <3>1, FirstOfCall
    <3>. QED
      BY <3>1, <3>2, OneRequest
  <2>. QED
    BY <1>1, <2>1 DEF SessionInv, ClientInv, Delivered
<1>. QED
  BY <1>1, Invariance, PTL

-----------------------------------------------------------------------------
(* A session is graphs of one's own.                                       *)
LEMMA AnswersDiffer ==
  /\ Promise!Failed # Promise!None
  /\ \A status, found : Promise!Answer(status, found) # Promise!None
  BY DEF Promise!Failed, Promise!None, Promise!Answer

(* What the abstract state is in each state of the wire.                   *)
LEMMA ResultIs ==
  ASSUME NEW c \in Client, wire[c] \in Message
  PROVE  /\ wire[c] = Nothing \/ IsRequest(wire[c]) => Result(c) = Promise!None
         /\ wire[c] = Closed => Result(c) = Promise!Failed
         /\ IsResponse(wire[c]) =>
              Result(c) = IF wire[c].status = "NOT_CONNECTED" THEN Promise!Failed
                          ELSE IF Len(requests[c]) = 1
                          THEN Promise!Answer(wire[c].status, wire[c].found)
                          ELSE Promise!None
<1>1. \/ wire[c] = Nothing /\ ~IsResponse(wire[c]) /\ ~IsRequest(wire[c]) /\ wire[c] # Closed
      \/ wire[c] = Closed /\ ~IsResponse(wire[c]) /\ ~IsRequest(wire[c]) /\ wire[c] # Nothing
      \/ IsRequest(wire[c]) /\ ~IsResponse(wire[c]) /\ wire[c] \notin {Nothing, Closed}
      \/ IsResponse(wire[c]) /\ ~IsRequest(wire[c]) /\ wire[c] \notin {Nothing, Closed}
  BY MessagesDiffer DEF Message
<1>. QED
  BY <1>1 DEF Result, Promise!Failed, Promise!None, Promise!Answer

LEMMA ResultWillBe ==
  ASSUME NEW c \in Client, wire'[c] \in Message
  PROVE  /\ wire'[c] = Nothing \/ IsRequest(wire'[c]) => (Result(c))' = Promise!None
         /\ wire'[c] = Closed => (Result(c))' = Promise!Failed
         /\ IsResponse(wire'[c]) =>
              (Result(c))' = IF wire'[c].status = "NOT_CONNECTED" THEN Promise!Failed
                             ELSE IF Len(requests'[c]) = 1
                             THEN Promise!Answer(wire'[c].status, wire'[c].found)
                             ELSE Promise!None
<1>1. \/ wire'[c] = Nothing /\ ~IsResponse(wire'[c]) /\ ~IsRequest(wire'[c]) /\ wire'[c] # Closed
      \/ wire'[c] = Closed /\ ~IsResponse(wire'[c]) /\ ~IsRequest(wire'[c]) /\ wire'[c] # Nothing
      \/ IsRequest(wire'[c]) /\ ~IsResponse(wire'[c]) /\ wire'[c] \notin {Nothing, Closed}
      \/ IsResponse(wire'[c]) /\ ~IsRequest(wire'[c]) /\ wire'[c] \notin {Nothing, Closed}
  BY MessagesDiffer DEF Message
<1>. QED
  BY <1>1 DEF Result, Promise!Failed, Promise!None, Promise!Answer

LEMMA UnsentWillBe ==
  ASSUME NEW c \in Client
  PROVE  /\ ~IsResponse(wire'[c]) => (Unsent(c))' = buffer'[c]
         /\ IsResponse(wire'[c]) /\ (wire'[c].status = "NOT_CONNECTED"
                                       \/ wire'[c].answer \notin {"apply_updates", "rollback"})
               => (Unsent(c))' = buffer'[c]
         /\ IsResponse(wire'[c]) /\ wire'[c].status # "NOT_CONNECTED"
              /\ wire'[c].answer \in {"apply_updates", "rollback"}
               => (Unsent(c))' = <<>>
  BY DEF Unsent, Answered

Durable(c) == [g \in Graph |-> envs[c][g].committed]

LEMMA WorkingIs ==
  ASSUME SessionInv, NEW c \in Client, current[c] # NoGraph
  PROVE  /\ current[c] \in Graph
         /\ Working(c)[current[c]] = Updated(here(c).present, Unsent(c))
  BY HereFacts DEF Working, here

(* The view of a client stays the same if what it is made of does.         *)
LEMMA WorkingStays ==
  ASSUME SessionInv, NEW c \in Client,
         current'[c] = current[c], envs'[c] = envs[c], (Unsent(c))' = Unsent(c)
  PROVE  (Working(c))' = Working(c) /\ (Durable(c))' = Durable(c)
  BY DEF Working, Durable

LEMMA SameIsStutter ==
  ASSUME NEW c \in Client, c = AnyClient, Same(c), AnyClient' = AnyClient
  PROVE  UNCHANGED Promise!promiseVars
  BY DEF Same, Promise!promiseVars, Working, Result, Unsent, Answered

Promised == [Promise!Next]_(Promise!promiseVars)

LEMMA UpdatePromised ==
  ASSUME SessionInv, NEW c \in Client, c = AnyClient,
         NEW change \in Change(Vertex), Update(c, change)
  PROVE  Promised
<1>1. /\ call[c] = "none"
      /\ buffer'[c] = Append(buffer[c], change)
      /\ UNCHANGED <<call, requests, wire, envs, current>>
  BY DEF Update, workerVars, SessionInv, Typed
<1>2. wire[c] = Nothing
  BY <1>1, RequestsOfCalls DEF SessionInv, ClientInv, InCall, OnWire
<1>3. Result(c) = Promise!None /\ (Result(c))' = Promise!None
  BY <1>1, <1>2, ResultIs, ResultWillBe DEF Message
<1>4. Unsent(c) = buffer[c] /\ (Unsent(c))' = buffer'[c]
  BY <1>1, <1>2, UnsentIs, UnsentWillBe, MessagesDiffer
<1>5. (Durable(c))' = Durable(c)
  BY <1>1 DEF Durable
<1>6. CASE current[c] = NoGraph
  <2>1. (Working(c))' = Working(c)
    BY <1>1, <1>6, SessionAssumption DEF Working
  <2>. QED
    BY <1>1, <1>3, <1>5, <2>1 DEF Promised, Promise!promiseVars, Durable
<1>7. CASE current[c] # NoGraph
  <2> DEFINE g == current[c]
             vs == UpdatedOnce(Working(c)[g], change)
  <2>1. g \in Graph /\ Working(c)[g] = Updated(here(c).present, buffer[c])
    BY <1>4, <1>7, WorkingIs
  <2>2. Updated(here(c).present, Append(buffer[c], change))
          = UpdatedOnce(Updated(here(c).present, buffer[c]), change)
    <3>1. buffer[c] \in Seq(Change(Vertex))
      BY DEF SessionInv, Typed
    <3>. QED
      BY <3>1, UpdatedByOneMore
  <2>3. vs = Updated(envs[c][g].present, buffer'[c])
    BY <1>1, <2>1, <2>2 DEF here
  <2>. HIDE DEF vs
  <2>4. (Working(c))' = [Working(c) EXCEPT ![g] = vs]
    BY <1>1, <1>4, <2>1, <2>3 DEF Working
  <2>5. change.item \in Vertex /\ vs \in {Working(c)[g] \cup {change.item}, Working(c)[g] \ {change.item}}
    BY DEF vs, UpdatedOnce, Change
  <2>6. Promise!Edit(change.item)
    BY <1>1, <1>3, <1>5, <1>7, <2>4, <2>5 DEF Promise!Edit, Durable
  <2>. QED
    BY <2>5, <2>6 DEF Promised, Promise!Next
<1>. QED
  BY <1>6, <1>7

LEMMA BeginPromised ==
  ASSUME SessionInv, NEW c \in Client, c = AnyClient, NEW request \in Asked, Begin(c, request)
  PROVE  Promised
<1>1. /\ call[c] = "none" /\ call'[c] = request.kind
      /\ UNCHANGED <<buffer, wire, envs, current>>
  BY DEF Begin, workerVars, SessionInv, Typed
<1>2. wire[c] = Nothing
  BY <1>1, RequestsOfCalls DEF SessionInv, ClientInv, InCall, OnWire
<1>3. Result(c) = Promise!None /\ (Result(c))' = Promise!None
  BY <1>1, <1>2, ResultIs, ResultWillBe DEF Message
<1>4. Unsent(c) = buffer[c] /\ (Unsent(c))' = buffer'[c]
  BY <1>1, <1>2, UnsentIs, UnsentWillBe, MessagesDiffer
<1>5. (Working(c))' = Working(c) /\ (Durable(c))' = Durable(c)
  BY <1>1, <1>4, WorkingStays
<1>6. request.kind \in {"connect", "commit", "apply", "rollback", "find", "observe", "match"}
  BY DEF Asked, Pattern
<1>7. Promise!Call(request.kind)
  BY <1>1, <1>3, <1>5 DEF Promise!Call, Durable
<1>. QED
  BY <1>6, <1>7 DEF Promised, Promise!Next

LEMMA SendPromised ==
  ASSUME SessionInv, NEW c \in Client, c = AnyClient, Send(c)
  PROVE  Promised
<1>1. /\ requests[c] # <<>> /\ wire[c] = Nothing
      /\ wire'[c] = IF alive[c] THEN Head(requests[c]) ELSE Closed
      /\ UNCHANGED <<buffer, call, requests, envs, current>>
  BY DEF Send, workerVars, clientVars, SessionInv, Typed
<1>2. Head(requests[c]) \in Request
  BY <1>1 DEF SessionInv, Typed
<1>3. \/ wire'[c] = Closed
      \/ IsRequest(wire'[c])
  BY <1>1, <1>2, MessagesDiffer
<1>4. wire'[c] \in Message /\ wire[c] \in Message /\ ~IsResponse(wire'[c])
  BY <1>1, <1>2, MessagesDiffer DEF Message
<1>5. Unsent(c) = buffer[c] /\ (Unsent(c))' = buffer'[c]
  BY <1>1, <1>4, UnsentIs, UnsentWillBe, MessagesDiffer
<1>6. (Working(c))' = Working(c) /\ (Durable(c))' = Durable(c)
  BY <1>1, <1>5, WorkingStays
<1>7. Result(c) = Promise!None
  BY <1>1, <1>4, ResultIs
<1>8. CASE IsRequest(wire'[c])
  <2>1. (Result(c))' = Promise!None
    BY <1>4, <1>8, ResultWillBe
  <2>. QED
    BY <1>1, <1>6, <1>7, <2>1 DEF Promised, Promise!promiseVars, Durable
<1>9. CASE wire'[c] = Closed
  <2>1. (Result(c))' = Promise!Failed
    BY <1>4, <1>9, ResultWillBe
  <2>2. call[c] # "none"
    BY <1>1, RequestsOfCalls DEF SessionInv, ClientInv, InCall
  <2>3. Promise!Fail
    BY <1>1, <1>6, <1>7, <2>1, <2>2 DEF Promise!Fail, Durable
  <2>. QED
    BY <2>3 DEF Promised, Promise!Next
<1>. QED
  BY <1>3, <1>8, <1>9

LEMMA AdvancePromised ==
  ASSUME SessionInv, NEW c \in Client, c = AnyClient, Advance(c)
  PROVE  Promised
<1>1. /\ IsResponse(wire[c]) /\ wire[c].status # "NOT_CONNECTED"
      /\ wire'[c] = Nothing
      /\ buffer'[c] = IF wire[c].answer \in {"apply_updates", "rollback"} THEN <<>> ELSE buffer[c]
      /\ IF Len(requests[c]) = 1 THEN call'[c] = "none" ELSE UNCHANGED call
      /\ UNCHANGED <<envs, current>> /\ wire[c] \in Message
  BY DEF Advance, End, workerVars, SessionInv, Typed
<1>2. (Result(c))' = Promise!None
  BY <1>1, ResultWillBe DEF Message
<1>3. (Unsent(c))' = Unsent(c)
  BY <1>1, UnsentIs, UnsentWillBe, MessagesDiffer
<1>4. (Working(c))' = Working(c) /\ (Durable(c))' = Durable(c)
  BY <1>1, <1>3, WorkingStays
<1>5. CASE Len(requests[c]) = 1
  <2>1. Result(c) # Promise!None
    BY <1>1, <1>5, ResultIs, AnswersDiffer
  <2>2. Promise!Return
    BY <1>1, <1>2, <1>4, <1>5, <2>1 DEF Promise!Return, Durable
  <2>. QED
    BY <2>2 DEF Promised, Promise!Next
<1>6. CASE Len(requests[c]) # 1
  <2>1. Result(c) = Promise!None
    BY <1>1, <1>6, ResultIs
  <2>. QED
    BY <1>1, <1>2, <1>4, <1>6, <2>1 DEF Promised, Promise!promiseVars, Durable
<1>. QED
  BY <1>5, <1>6

LEMMA RaisePromised ==
  ASSUME SessionInv, NEW c \in Client, c = AnyClient, Raise(c)
  PROVE  Promised
<1>1. /\ wire[c] = Closed \/ (IsResponse(wire[c]) /\ wire[c].status = "NOT_CONNECTED")
      /\ wire'[c] = Nothing /\ call'[c] = "none"
      /\ UNCHANGED <<buffer, envs, current>> /\ wire[c] \in Message
  BY DEF Raise, End, workerVars, SessionInv, Typed
<1>2. Result(c) = Promise!Failed /\ (Result(c))' = Promise!None
  BY <1>1, ResultIs, ResultWillBe DEF Message
<1>3. Unsent(c) = buffer[c] /\ (Unsent(c))' = buffer'[c]
  BY <1>1, UnsentIs, UnsentWillBe, MessagesDiffer
<1>4. (Working(c))' = Working(c) /\ (Durable(c))' = Durable(c)
  BY <1>1, <1>3, WorkingStays
<1>5. Promise!Return
  BY <1>1, <1>2, <1>4, AnswersDiffer DEF Promise!Return, Durable
<1>. QED
  BY <1>5 DEF Promised, Promise!Next

(* A request that is not the flush is the last of its call, and comes with *)
(* an empty buffer, unless it is about connecting or rolling back.         *)
LEMMA CallAnswered ==
  ASSUME SessionInv, NEW c \in Client, IsRequest(wire[c]), wire[c].kind # "apply_updates",
         wire'[c] \in Response, wire'[c].answer = wire[c].kind, UNCHANGED requests
  PROVE  /\ call[c] = wire[c].kind /\ call[c] # "none"
         /\ Result(c) = Promise!None /\ Unsent(c) = buffer[c]
         /\ (Result(c))' = IF wire'[c].status = "NOT_CONNECTED" THEN Promise!Failed
                           ELSE Promise!Answer(wire'[c].status, wire'[c].found)
         /\ call[c] \in Flushed => buffer[c] = <<>>
         /\ call[c] = "connect" /\ ~SwitchAnytime => buffer[c] = <<>>
<1>1. wire[c] = Head(requests[c]) /\ requests[c] # <<>> /\ wire[c] \in Message
  BY WireFacts DEF Message
<1>2. PICK request \in Asked : /\ requests[c] = <<request>> /\ call[c] = request.kind
                               /\ request.kind \in Flushed => buffer[c] = <<>>
                               /\ request.kind = "connect" /\ ~SwitchAnytime => buffer[c] = <<>>
  BY <1>1, FirstOfCall
<1>3. wire[c] = request /\ Len(requests[c]) = 1
  BY <1>1, <1>2, OneRequest
<1>4. wire'[c] \in Message /\ IsResponse(wire'[c]) /\ ~IsResponse(wire[c])
  BY MessagesDiffer, WireFacts DEF Message
<1>5. Result(c) = Promise!None /\ Unsent(c) = buffer[c]
  BY <1>1, <1>4, ResultIs, UnsentIs
<1>6. (Result(c))' = IF wire'[c].status = "NOT_CONNECTED" THEN Promise!Failed
                     ELSE Promise!Answer(wire'[c].status, wire'[c].found)
  BY <1>3, <1>4, ResultWillBe
<1>. QED
  BY <1>2, <1>3, <1>5, <1>6, RequestsOfCalls

LEMMA ConnectPromised ==
  ASSUME ~SwitchAnytime, SessionInv, NEW c \in Client, c = AnyClient, Connect(c)
  PROVE  Promised
<1> DEFINE g == wire[c].graph
<1>1. /\ IsRequest(wire[c]) /\ wire[c].kind = "connect"
      /\ current'[c] = g
      /\ envs' = [envs EXCEPT ![c][g].made = TRUE]
      /\ RespondWith(c, "OK", {}, ~envs[c][g].made)
      /\ UNCHANGED <<buffer, call, requests>>
  BY DEF Connect, clientVars, SessionInv, Typed
<1>2. wire[c] \in Request
  BY <1>1, WireFacts
<1>3. g \in Graph
  BY <1>1, <1>2 DEF Request, Pattern
<1>. HIDE DEF g
<1>4. envs \in [Client -> [Graph -> Env]] /\ (~envs[c][g].made) \in BOOLEAN
  BY DEF SessionInv, Typed
<1>5. /\ wire'[c] \in Response /\ wire'[c].answer = wire[c].kind
      /\ wire'[c].status = "OK" /\ wire'[c].found = {}
  BY <1>1, <1>4, RespondsWith
<1>6. /\ call[c] = "connect" /\ Result(c) = Promise!None /\ Unsent(c) = <<>>
      /\ (Result(c))' = Promise!Answer("OK", {})
  BY <1>1, <1>5, CallAnswered
<1>7. (Unsent(c))' = <<>>
  BY <1>1, <1>5, <1>6, CallAnswered, UnsentWillBe, MessagesDiffer
<1>8. \A h \in Graph : /\ envs'[c][h].present = envs[c][h].present
                       /\ envs'[c][h].committed = envs[c][h].committed
  BY <1>1, <1>3, <1>4 DEF Env
<1>9. (Working(c))' = Working(c)
  BY <1>6, <1>7, <1>8, UpdatedByNothing DEF Working
<1>10. (Durable(c))' = Durable(c)
  BY <1>8 DEF Durable
<1>11. Promise!Open(g)
  BY <1>1, <1>6, <1>9, <1>10 DEF Promise!Open, Promise!Pending, Durable
<1>. QED
  BY <1>3, <1>11 DEF Promised, Promise!Next

LEMMA NotConnectedPromised ==
  ASSUME SessionInv, NEW c \in Client, c = AnyClient, NotConnected(c)
  PROVE  Promised
<1>1. /\ IsRequest(wire[c]) /\ RespondWith(c, "NOT_CONNECTED", {}, FALSE)
      /\ UNCHANGED <<buffer, call, requests, envs, current>>
  BY DEF NotConnected, Respond, clientVars, workerVars
<1>2. wire'[c] \in Response /\ wire'[c].status = "NOT_CONNECTED" /\ wire[c] \in Message
  BY <1>1, RespondsWith DEF SessionInv, Typed
<1>3. wire'[c] \in Message /\ IsResponse(wire'[c]) /\ ~IsResponse(wire[c]) /\ requests[c] # <<>>
  BY <1>1, <1>2, MessagesDiffer, WireFacts DEF Message
<1>4. Result(c) = Promise!None /\ (Result(c))' = Promise!Failed
  BY <1>1, <1>2, <1>3, ResultIs, ResultWillBe
<1>5. (Unsent(c))' = Unsent(c)
  BY <1>1, <1>2, <1>3, UnsentIs, UnsentWillBe
<1>6. (Working(c))' = Working(c) /\ (Durable(c))' = Durable(c)
  BY <1>1, <1>5, WorkingStays
<1>7. call[c] # "none"
  BY <1>3, RequestsOfCalls DEF SessionInv, ClientInv, InCall
<1>8. Promise!Fail
  BY <1>1, <1>4, <1>6, <1>7 DEF Promise!Fail, Durable
<1>. QED
  BY <1>8 DEF Promised, Promise!Next

(* The updates were due from the beginning of the call.                    *)
LEMMA ApplyUpdatesPromised ==
  ASSUME SessionInv, NEW c \in Client, c = AnyClient, ApplyUpdates(c)
  PROVE  Promised
<1> DEFINE g == current[c]
           env == [here(c) EXCEPT !.present = Updated(@, buffer[c])]
<1>1. /\ IsRequest(wire[c]) /\ wire[c].kind = "apply_updates" /\ g # NoGraph
      /\ Put(c, env) /\ RespondWith(c, "OK", {}, FALSE)
      /\ UNCHANGED <<buffer, call, requests, current>>
  BY ApplyUpdatesFacts DEF Respond, clientVars
<1>2. here(c) \in Env /\ here(c).made /\ here(c).present \in SUBSET Vertex /\ g \in Graph
  BY <1>1, HereFacts
<1>3. /\ env \in Env /\ env.made /\ env.present = Updated(here(c).present, buffer[c])
      /\ env.committed = here(c).committed
  <2>1. Updated(here(c).present, buffer[c]) \in SUBSET Vertex
    BY <1>2, UpdatedType DEF SessionInv, Typed
  <2>. QED
    BY <1>2, <2>1 DEF Env
<1>. HIDE DEF env
<1>4. /\ envs'[c] = [envs[c] EXCEPT ![g] = env] /\ envs[c] \in [Graph -> Env]
  BY <1>1, <1>3, PutFacts DEF SessionInv, Typed
<1>5. /\ wire'[c] \in Response /\ wire'[c].answer = "apply_updates" /\ wire'[c].status = "OK"
      /\ wire[c] \in Message
  BY <1>1, RespondsWith DEF SessionInv, Typed
<1>6. /\ wire'[c] \in Message /\ IsResponse(wire'[c]) /\ ~IsResponse(wire[c])
      /\ requests[c] # <<>> /\ Head(requests[c]).kind = "apply_updates"
  BY <1>1, <1>5, MessagesDiffer, WireFacts DEF Message
<1>7. Len(requests[c]) = 2
  BY <1>6, FirstOfFlush, TwoRequests
<1>8. Result(c) = Promise!None /\ (Result(c))' = Promise!None
  BY <1>1, <1>5, <1>6, <1>7, ResultIs, ResultWillBe
<1>9. Unsent(c) = buffer[c] /\ (Unsent(c))' = <<>>
  BY <1>5, <1>6, UnsentIs, UnsentWillBe
<1>10. (Working(c))' = Working(c)
  BY <1>1, <1>2, <1>3, <1>4, <1>9, UpdatedByNothing DEF Working, here
<1>11. (Durable(c))' = Durable(c)
  BY <1>2, <1>3, <1>4 DEF Durable, here
<1>. QED
  BY <1>1, <1>8, <1>10, <1>11 DEF Promised, Promise!promiseVars, Durable

(* What a handler that changes the graph makes of the client's view.       *)
LEMMA PutView ==
  ASSUME SessionInv, NEW c \in Client, IsRequest(wire[c]), wire[c].kind # "apply_updates",
         current[c] # NoGraph, NEW env \in Env, env.made, Put(c, env),
         NEW status \in {"OK", "AGAIN"}, Respond(c, status),
         UNCHANGED <<clientVars, alive, current, received>>
  PROVE  /\ current[c] \in Graph /\ UNCHANGED <<buffer, call, requests, current>>
         /\ call[c] = wire[c].kind /\ Result(c) = Promise!None
         /\ (Result(c))' = Promise!Answer(status, {})
         /\ call[c] \in Flushed => buffer[c] = <<>>
         /\ Unsent(c) = buffer[c]
         /\ (Unsent(c))' = IF call[c] = "rollback" THEN <<>> ELSE buffer[c]
         /\ Working(c)[current[c]] = Updated(here(c).present, buffer[c])
         /\ (Working(c))' = [Working(c) EXCEPT ![current[c]] = Updated(env.present, (Unsent(c))')]
         /\ (Durable(c))' = [Durable(c) EXCEPT ![current[c]] = env.committed]
         /\ Durable(c)[current[c]] = here(c).committed
<1>1. RespondWith(c, status, {}, FALSE) /\ UNCHANGED <<buffer, call, requests, current>>
  BY DEF Respond, clientVars
<1>2. /\ wire'[c] \in Response /\ wire'[c].answer = wire[c].kind
      /\ wire'[c].status = status /\ wire'[c].found = {}
  BY <1>1, RespondsWith
<1>3. /\ call[c] = wire[c].kind /\ Result(c) = Promise!None /\ Unsent(c) = buffer[c]
      /\ (Result(c))' = Promise!Answer(status, {})
      /\ call[c] \in Flushed => buffer[c] = <<>>
  BY <1>1, <1>2, CallAnswered
<1>4. (Unsent(c))' = IF call[c] = "rollback" THEN <<>> ELSE buffer[c]
  BY <1>1, <1>2, <1>3, UnsentWillBe, MessagesDiffer
<1>5. /\ envs'[c] = [envs[c] EXCEPT ![current[c]] = env] /\ envs[c] \in [Graph -> Env]
      /\ current[c] \in Graph
  BY PutFacts, HereFacts DEF SessionInv, Typed
<1>6. Working(c)[current[c]] = Updated(here(c).present, buffer[c])
  BY <1>3, WorkingIs
<1>7. (Working(c))' = [Working(c) EXCEPT ![current[c]] = Updated(env.present, (Unsent(c))')]
  BY <1>1, <1>5 DEF Working
<1>8. /\ (Durable(c))' = [Durable(c) EXCEPT ![current[c]] = env.committed]
      /\ Durable(c)[current[c]] = here(c).committed
  BY <1>5 DEF Durable, here
<1>. QED
  BY <1>1, <1>3, <1>4, <1>5, <1>6, <1>7, <1>8

LEMMA CommitPromised ==
  ASSUME SessionInv, NEW c \in Client, c = AnyClient, Commit(c)
  PROVE  Promised
<1>1. /\ IsRequest(wire[c]) /\ wire[c].kind = "commit" /\ current[c] # NoGraph
      /\ UNCHANGED <<clientVars, alive, current, received>>
  BY DEF Commit, Receives
<1>2. PICK observation \in BOOLEAN :
         /\ Put(c, [here(c) EXCEPT !.applied = here(c).present,
                                   !.committed = IF observation THEN @ ELSE here(c).present])
         /\ Respond(c, IF observation THEN "AGAIN" ELSE "OK")
  <2>1. here(c).observed \in BOOLEAN
    BY <1>1, HereFacts DEF Env
  <2>. QED
    BY <2>1 DEF Commit
<1> DEFINE env == [here(c) EXCEPT !.applied = here(c).present,
                                  !.committed = IF observation THEN @ ELSE here(c).present]
           status == IF observation THEN "AGAIN" ELSE "OK"
           g == current[c]
<1>3. /\ env \in Env /\ env.made /\ env.present = here(c).present
      /\ env.committed = IF observation THEN here(c).committed ELSE here(c).present
  BY <1>1, HereFacts DEF Env
<1>4. Put(c, env) /\ Respond(c, status) /\ status \in {"OK", "AGAIN"}
  BY <1>2
<1>5. status = IF observation THEN "AGAIN" ELSE "OK"
  OBVIOUS
<1>. HIDE DEF env, status
<1>6. /\ g \in Graph /\ UNCHANGED <<buffer, call, requests, current>>
      /\ call[c] = "commit" /\ Result(c) = Promise!None /\ (Result(c))' = Promise!Answer(status, {})
      /\ buffer[c] = <<>> /\ (Unsent(c))' = <<>>
      /\ Working(c)[g] = Updated(here(c).present, <<>>)
      /\ (Working(c))' = [Working(c) EXCEPT ![g] = Updated(env.present, <<>>)]
      /\ (Durable(c))' = [Durable(c) EXCEPT ![g] = env.committed]
      /\ Durable(c)[g] = here(c).committed
  BY <1>1, <1>3, <1>4, PutView DEF Flushed
<1>7. (Working(c))' = Working(c) /\ Working(c)[g] = here(c).present
  BY <1>3, <1>6, UpdatedByNothing DEF Working
<1>8. CASE observation
  <2>1. (Durable(c))' = Durable(c)
    BY <1>3, <1>6, <1>8 DEF Durable
  <2>2. Promise!Apply
    BY <1>1, <1>5, <1>6, <1>7, <1>8, <2>1 DEF Promise!Apply, Promise!Pending, Durable
  <2>. QED
    BY <2>2 DEF Promised, Promise!Next
<1>9. CASE ~observation
  <2>1. (Durable(c))' = [Durable(c) EXCEPT ![g] = Working(c)[g]]
    BY <1>3, <1>6, <1>7, <1>9
  <2>2. Promise!Commit
    BY <1>1, <1>5, <1>6, <1>7, <1>9, <2>1 DEF Promise!Commit, Promise!Pending, Durable
  <2>. QED
    BY <2>2 DEF Promised, Promise!Next
<1>. QED
  BY <1>8, <1>9

LEMMA ApplyPromised ==
  ASSUME SessionInv, NEW c \in Client, c = AnyClient, Apply(c) \/ Observe(c)
  PROVE  Promised
<1> DEFINE g == current[c]
<1>1. PICK env \in {[here(c) EXCEPT !.applied = here(c).present], [here(c) EXCEPT !.observed = TRUE]} :
         Put(c, env)
  BY DEF Apply, Observe
<1>2. /\ IsRequest(wire[c]) /\ wire[c].kind \in {"apply", "observe"} /\ g # NoGraph
      /\ Respond(c, "OK") /\ UNCHANGED <<clientVars, alive, current, received>>
  BY DEF Apply, Observe, Receives
<1>3. /\ env \in Env /\ env.made /\ env.present = here(c).present
      /\ env.committed = here(c).committed
  BY <1>1, <1>2, HereFacts DEF Env
<1>4. /\ g \in Graph /\ UNCHANGED <<buffer, call, requests, current>>
      /\ call[c] = wire[c].kind /\ Result(c) = Promise!None /\ (Result(c))' = Promise!Answer("OK", {})
      /\ (Unsent(c))' = buffer[c]
      /\ Working(c)[g] = Updated(here(c).present, buffer[c])
      /\ (Working(c))' = [Working(c) EXCEPT ![g] = Updated(env.present, (Unsent(c))')]
      /\ (Durable(c))' = [Durable(c) EXCEPT ![g] = env.committed]
      /\ Durable(c)[g] = here(c).committed
  BY <1>1, <1>2, <1>3, PutView
<1>5. (Working(c))' = Working(c) /\ (Durable(c))' = Durable(c)
  BY <1>3, <1>4 DEF Working, Durable
<1>6. Promise!Apply
  BY <1>2, <1>4, <1>5 DEF Promise!Apply, Promise!Pending, Durable
<1>. QED
  BY <1>6 DEF Promised, Promise!Next

LEMMA RollbackPromised ==
  ASSUME SessionInv, NEW c \in Client, c = AnyClient, Rollback(c)
  PROVE  Promised
<1> DEFINE env == [here(c) EXCEPT !.present = here(c).committed, !.applied = here(c).committed]
           g == current[c]
<1>1. /\ IsRequest(wire[c]) /\ wire[c].kind = "rollback" /\ g # NoGraph
      /\ Put(c, env) /\ Respond(c, "OK")
      /\ UNCHANGED <<clientVars, alive, current, received>>
  BY DEF Rollback, Receives
<1>2. /\ env \in Env /\ env.made /\ env.present = here(c).committed
      /\ env.committed = here(c).committed
  BY <1>1, HereFacts DEF Env
<1>. HIDE DEF env
<1>3. /\ g \in Graph /\ UNCHANGED <<buffer, call, requests, current>>
      /\ call[c] = "rollback" /\ Result(c) = Promise!None /\ (Result(c))' = Promise!Answer("OK", {})
      /\ (Unsent(c))' = <<>>
      /\ (Working(c))' = [Working(c) EXCEPT ![g] = Updated(env.present, <<>>)]
      /\ (Durable(c))' = [Durable(c) EXCEPT ![g] = env.committed]
      /\ Durable(c)[g] = here(c).committed
  BY <1>1, <1>2, PutView
<1>4. (Working(c))' = [Working(c) EXCEPT ![g] = Durable(c)[g]]
  <2>1. Updated(env.present, <<>>) = env.present
    BY UpdatedByNothing
  <2>. QED
    BY <1>2, <1>3, <2>1
<1>5. (Durable(c))' = Durable(c)
  BY <1>2, <1>3 DEF Durable
<1>6. Promise!Rollback
  BY <1>1, <1>3, <1>4, <1>5 DEF Promise!Rollback, Promise!Pending, Durable
<1>. QED
  BY <1>6 DEF Promised, Promise!Next

LEMMA QueryPromised ==
  ASSUME SessionInv, NEW c \in Client, c = AnyClient, Find(c) \/ Match(c)
  PROVE  Promised
<1> DEFINE g == current[c]
<1>1. /\ IsRequest(wire[c]) /\ wire[c].kind \in {"find", "match"} /\ g # NoGraph
      /\ RespondWith(c, "OK", here(c).present, FALSE)
      /\ UNCHANGED <<buffer, call, requests, envs, current>>
  BY DEF Find, Match, Receives, clientVars, workerVars
<1>2. /\ wire'[c] \in Response /\ wire'[c].answer = wire[c].kind
      /\ wire'[c].status = "OK" /\ wire'[c].found = here(c).present
  BY <1>1, HereFacts, RespondsWith
<1>3. /\ call[c] = wire[c].kind /\ Result(c) = Promise!None /\ Unsent(c) = <<>> /\ buffer[c] = <<>>
      /\ (Result(c))' = Promise!Answer("OK", here(c).present)
  BY <1>1, <1>2, CallAnswered DEF Flushed, Pattern
<1>4. (Unsent(c))' = <<>>
  BY <1>1, <1>2, <1>3, UnsentWillBe, MessagesDiffer
<1>5. (Working(c))' = Working(c) /\ (Durable(c))' = Durable(c)
  BY <1>1, <1>3, <1>4, WorkingStays
<1>6. Working(c)[g] = here(c).present
  BY <1>1, <1>3, WorkingIs, UpdatedByNothing
<1>7. Promise!Find
  BY <1>1, <1>3, <1>5, <1>6 DEF Promise!Find, Promise!Pending, Durable
<1>. QED
  BY <1>7 DEF Promised, Promise!Next

LEMMA DiePromised ==
  ASSUME SessionInv, NEW c \in Client, c = AnyClient, Die(c)
  PROVE  Promised
<1>1. /\ IsRequest(wire[c]) /\ wire[c].kind \in Pattern
      /\ envs'[c] = [g \in Graph |-> NoEnv]
      /\ current'[c] = NoGraph /\ wire'[c] = Closed
      /\ UNCHANGED <<buffer, call, requests>>
  BY DEF Die, Receives, SessionInv, Typed
<1>2. wire[c] = Head(requests[c]) /\ requests[c] # <<>> /\ wire[c] \in Message
  BY <1>1, WireFacts DEF Message
<1>3. call[c] \in {"observe", "match"}
  <2>1. wire[c].kind # "apply_updates"
    BY <1>1 DEF Pattern
  <2>2. PICK request \in Asked : requests[c] = <<request>> /\ call[c] = request.kind
    BY <1>2, <2>1, FirstOfCall
  <2>. QED
    BY <1>1, <1>2, <2>2, OneRequest DEF Pattern
<1>4. Result(c) = Promise!None /\ (Result(c))' = Promise!Failed
  BY <1>1, <1>2, ResultIs, ResultWillBe DEF Message
<1>5. (Working(c))' = [g \in Graph |-> {}] /\ (Durable(c))' = [g \in Graph |-> {}]
  BY <1>1, SessionAssumption DEF Working, Durable, NoEnv
<1>6. Promise!Lose
  BY <1>1, <1>3, <1>4, <1>5 DEF Promise!Lose, Promise!Pending, Durable
<1>. QED
  BY <1>6 DEF Promised, Promise!Next

LEMMA ProceedPromised ==
  ASSUME ~SwitchAnytime, SessionInv, NEW c \in Client, c = AnyClient, Proceed(c)
  PROVE  Promised
  BY SendPromised, AdvancePromised, RaisePromised, ConnectPromised, NotConnectedPromised,
     ApplyUpdatesPromised, CommitPromised, ApplyPromised, RollbackPromised, QueryPromised,
     DiePromised
  DEF Proceed, Handle

LEMMA NextPromised ==
  ASSUME ~SwitchAnytime, AnyClient \in Client, SessionInv, [Next]_vars
  PROVE  Promised
<1>1. ASSUME Same(AnyClient) PROVE Promised
  BY <1>1, SameIsStutter DEF Promised, AnyClient
<1>2. CASE UNCHANGED vars
  BY <1>1, <1>2 DEF vars, Same
<1>3. ASSUME NEW c \in Client, NEW change \in Change(Vertex), Update(c, change) PROVE Promised
  BY <1>1, <1>3, UpdateKeeps, UpdatePromised
<1>4. ASSUME NEW c \in Client, NEW request \in Asked, Begin(c, request) PROVE Promised
  BY <1>1, <1>4, BeginKeeps, BeginPromised
<1>5. ASSUME NEW c \in Client, Proceed(c) PROVE Promised
  BY <1>1, <1>5, StepKeeps, ProceedPromised
<1>. QED
  BY <1>2, <1>3, <1>4, <1>5 DEF Next, Asked

LEMMA InitPromised ==
  ASSUME AnyClient \in Client, Init
  PROVE  Promise!Init
<1> DEFINE c == AnyClient
<1>1. /\ wire[c] = Nothing /\ current[c] = NoGraph /\ call[c] = "none"
      /\ \A g \in Graph : envs[c][g].present = {} /\ envs[c][g].committed = {}
  BY DEF Init, NoEnv
<1>. HIDE DEF c
<1>2. c \in Client
  BY DEF c
<1>3. Result(c) = Promise!None
  BY <1>1, <1>2, ResultIs DEF Message
<1>4. Working(c) = [g \in Graph |-> {}] /\ Durable(c) = [g \in Graph |-> {}]
  BY <1>1, SessionAssumption DEF Working, Durable
<1>. QED
  BY <1>1, <1>3, <1>4 DEF Promise!Init, c, Durable

(* A client that does not switch graphs with updates in its buffer sees    *)
(* graphs of its own, whose calls take effect at one moment or fail        *)
(* (SocketAdapter, SaengraClient, the handlers of Worker).                 *)
THEOREM GraphsArePrivate ==
  ASSUME ~SwitchAnytime, Client # {}
  PROVE  Spec => ActsAsPrivateGraphs
<1>1. AnyClient \in Client
  BY DEF AnyClient
<1>2. Init => Promise!Init
  BY <1>1, InitPromised
<1>3. SessionInv /\ [Next]_vars => [Promise!Next]_(Promise!promiseVars)
  BY <1>1, NextPromised DEF Promised
<1>. QED
  BY <1>2, <1>3, Invariance, PTL DEF Spec, ActsAsPrivateGraphs, Promise!Spec

=============================================================================
