-------------------------- MODULE ServerQueueProofs --------------------------
(***************************************************************************)
(* Proofs about ServerQueue, for any number of servers and requests.        *)
(***************************************************************************)
EXTENDS ServerQueue, ListFacts

\* The state has its type.
Typed ==
  /\ status \in [Server -> Stage]
  /\ queue \in [Server -> Seq(Request) \cup {Absent}]
  /\ command \in Request \cup {Absent}
  /\ asked \subseteq Request /\ quit \subseteq Server
  /\ sent \in Seq(Request)
  /\ reader \in [Server -> {Idle, Reporting} \cup
                   [at : {"walking"}, stage : Stage, next : Nat \ {0}]]

\* A reader that walks reports the stage its server is in: the stage does not
\* change before the walk is over.
WalksItsStage ==
  \A s \in Server : reader[s].at = "walking" => reader[s].stage = status[s]

\* A server that was quit has no list and gets none.
QuitHasNoList ==
  /\ \A s \in quit : queue[s] = Absent
  /\ command # Absent => command.server \notin quit

\* A list holds requests for its own server, none twice.
OwnRequests ==
  \A s \in Server : queue[s] # Absent =>
    /\ IsInjective(queue[s])
    /\ \A r \in ToSet(queue[s]) : r.server = s /\ r \in asked

\* A request is in one place at most.
OnePlace ==
  /\ IsInjective(sent)
  /\ command # Absent => /\ command \in asked
                         /\ command \notin ToSet(sent) /\ ~Queued(command)
  /\ \A r \in ToSet(sent) : r \in asked /\ ~Queued(r)

\* A request that was entered is in one place at least.
SomePlace ==
  \A r \in asked : r \in ToSet(sent) \/ r.server \in quit \/ Queued(r) \/ command = r

IInv == /\ Typed /\ WalksItsStage /\ QuitHasNoList
        /\ OwnRequests /\ OnePlace /\ SomePlace

\* Each request names a server of the client, and is not the absent value.
LEMMA RequestFacts ==
  /\ \A r \in Request : r.server \in Server /\ r # Absent
  /\ \A q \in Seq(Request) : q # Absent
  BY RequestAssumption

\* The invariant holds before anything is asked.
LEMMA InitIInv == Init => IInv
<1> SUFFICES ASSUME Init PROVE IInv
  OBVIOUS
<1>1. <<>> \in Seq(Request) /\ IsInjective(<<>>) /\ ToSet(<<>>) = {}
  BY EmptySeq DEF IsInjective, ToSet
<1>2. Typed
  BY <1>1 DEF Init, Typed, Stage
<1>3. \A s \in Server : reader[s].at # "walking"
  BY DEF Init, Idle
<1> QED
  BY <1>1, <1>2, <1>3 DEF Init, IInv, WalksItsStage, QuitHasNoList, OwnRequests,
     OnePlace, SomePlace

\* What Call does when the request is called: it leaves the queue for `sent`.
LEMMA CallSends ==
  ASSUME IInv, NEW s \in Server, Call(s), reader[s].stage = "ready"
  PROVE  /\ \E r \in Request :
              /\ r.server = s /\ Queued(r) /\ sent' = Append(sent, r)
              /\ r \notin ToSet(sent) /\ sent' \in Seq(Request)
              /\ IsInjective(sent') /\ ToSet(sent') = ToSet(sent) \cup {r}
              /\ Last(sent') = r
              /\ queue'[s] \in Seq(Request) /\ IsInjective(queue'[s])
              /\ ToSet(queue'[s]) = ToSet(queue[s]) \ {r}
         /\ queue[s] # Absent
         /\ \A z \in Server \ {s} : queue'[z] = queue[z]
         /\ queue' \in [Server -> Seq(Request) \cup {Absent}]
<1> DEFINE q == queue[s]
           n == reader[s].next
           r == q[n]
<1>1. reader[s].at = "walking" /\ q # Absent /\ n <= Len(q)
  BY DEF Call, AtRequest
<1>2. q \in Seq(Request) /\ IsInjective(q)
  BY <1>1 DEF IInv, Typed, OwnRequests
<1>3. n \in Nat \ {0}
  BY <1>1 DEF IInv, Typed, Idle, Reporting
<1>4. Len(q) \in Nat /\ DOMAIN q = 1..Len(q)
  BY <1>2, LenProperties
<1>5. n \in 1..Len(q)
  BY <1>1, <1>3, <1>4
<1>6. r \in Request /\ r \in ToSet(q)
  BY <1>2, <1>4, <1>5, ElementOfSeq DEF ToSet
<1>7. r.server = s /\ Queued(r)
  BY <1>1, <1>6 DEF IInv, OwnRequests, Queued
<1>8. r \notin ToSet(sent)
  BY <1>7 DEF IInv, OnePlace
<1>9. sent' = Append(sent, r) /\ queue' = [queue EXCEPT ![s] = RemoveAt(@, n)]
  BY DEF Call
<1>10. /\ queue'[s] = RemoveAt(q, n)
       /\ \A z \in Server \ {s} : queue'[z] = queue[z]
  BY <1>9 DEF IInv, Typed
<1>11. RemoveAt(q, n) \in Seq(Request)
  BY <1>2, <1>5, RemoveAtElements
<1>12. IsInjective(RemoveAt(q, n)) /\ ToSet(RemoveAt(q, n)) = ToSet(q) \ {r}
  BY <1>2, <1>5, RemoveAtInjective
<1>13. queue' \in [Server -> Seq(Request) \cup {Absent}]
  BY <1>9, <1>11 DEF IInv, Typed
<1>14. /\ sent' \in Seq(Request) /\ IsInjective(sent')
       /\ ToSet(sent') = ToSet(sent) \cup {r} /\ Last(sent') = r
  BY <1>6, <1>8, <1>9, AppendNew DEF IInv, Typed, OnePlace
<1> HIDE DEF q, n, r
<1>15. queue'[s] \in Seq(Request) /\ IsInjective(queue'[s])
  BY <1>10, <1>11, <1>12
<1>16. ToSet(queue'[s]) = ToSet(queue[s]) \ {r}
  BY <1>10, <1>12 DEF q
<1> QED
  BY <1>1, <1>6, <1>7, <1>8, <1>9, <1>10, <1>13, <1>14, <1>15, <1>16 DEF q

\* The terminal's thread.
LEMMA AskStep ==
  ASSUME IInv, NEW r \in Request, Ask(r)
  PROVE  IInv'
<1>1. r \notin asked /\ r.server \notin quit /\ command = Absent
      /\ asked' = asked \cup {r}
  BY DEF Ask
<1>2. r \notin ToSet(sent) /\ ~Queued(r)
  BY <1>1, RequestFacts DEF IInv, OnePlace, OwnRequests, Queued
<1>3. UNCHANGED <<status, queue, reader, quit>>
  BY DEF Ask
<1>4. CASE status[r.server] = "ready"
  <2>1. sent' = Append(sent, r) /\ command' = command
    BY <1>4 DEF Ask
  <2>2. /\ sent' \in Seq(Request) /\ IsInjective(sent')
        /\ ToSet(sent') = ToSet(sent) \cup {r}
    BY <1>2, <2>1, AppendNew DEF IInv, Typed, OnePlace
  <2> QED
    BY <1>1, <1>2, <1>3, <2>1, <2>2 DEF IInv, Typed, WalksItsStage,
       QuitHasNoList, OwnRequests, OnePlace, SomePlace, Queued
<1>5. CASE status[r.server] # "ready"
  <2>1. command' = r /\ sent' = sent
    BY <1>5 DEF Ask
  <2>2. Typed' /\ WalksItsStage'
    BY <1>1, <1>3, <2>1 DEF IInv, Typed, WalksItsStage
  <2>3. QuitHasNoList' /\ OwnRequests'
    BY <1>1, <1>3, <2>1 DEF IInv, QuitHasNoList, OwnRequests
  <2>4. \A p : Queued(p)' = Queued(p)
    BY <1>3 DEF Queued
  <2>5. OnePlace'
    BY <1>1, <1>2, <2>1, <2>4 DEF IInv, OnePlace
  <2>6. SomePlace'
    BY <1>1, <1>3, <2>1, <2>4, RequestFacts DEF IInv, Typed, SomePlace
  <2> QED
    BY <2>2, <2>3, <2>5, <2>6 DEF IInv
<1> QED
  BY <1>4, <1>5

\* waitForServer pushes a request that is nowhere else.
LEMMA PushStep ==
  ASSUME IInv, Push
  PROVE  IInv'
<1> DEFINE r == command
           s == command.server
<1>1. r \in Request /\ s \in Server /\ command' = Absent /\ r # Absent
  BY RequestFacts DEF Push, IInv, Typed
<1>2. UNCHANGED <<status, reader, asked, sent, quit>>
  BY DEF Push
<1>3. /\ queue'[s] = IF queue[s] = Absent THEN <<r>> ELSE Append(queue[s], r)
      /\ \A z \in Server \ {s} : queue'[z] = queue[z]
      /\ DOMAIN queue' = Server
  BY <1>1 DEF Push, IInv, Typed
<1>4. /\ queue'[s] \in Seq(Request) /\ IsInjective(queue'[s])
      /\ ToSet(queue'[s]) = (IF queue[s] = Absent THEN {} ELSE ToSet(queue[s])) \cup {r}
  <2>1. CASE queue[s] = Absent
    <3>1. /\ <<>> \in Seq(Request) /\ IsInjective(<<>>) /\ ToSet(<<>>) = {}
          /\ <<r>> = Append(<<>>, r)
      BY EmptySeq DEF IsInjective, ToSet
    <3>2. queue'[s] = Append(<<>>, r)
      BY <1>3, <2>1, <3>1
    <3> HIDE DEF r, s
    <3>3. /\ Append(<<>>, r) \in Seq(Request) /\ IsInjective(Append(<<>>, r))
          /\ ToSet(Append(<<>>, r)) = ToSet(<<>>) \cup {r}
      <4> DEFINE e == <<>>
      <4>1. e \in Seq(Request) /\ IsInjective(e) /\ r \notin ToSet(e)
        BY <3>1
      <4> HIDE DEF e
      <4>2. /\ Append(e, r) \in Seq(Request) /\ IsInjective(Append(e, r))
            /\ ToSet(Append(e, r)) = ToSet(e) \cup {r}
        BY <1>1, <4>1, AppendNew
      <4> QED
        BY <4>2 DEF e
    <3> QED
      BY <2>1, <3>1, <3>2, <3>3
  <2>2. CASE queue[s] # Absent
    <3>1. queue[s] \in Seq(Request) /\ IsInjective(queue[s]) /\ r \notin ToSet(queue[s])
      BY <1>1, <2>2 DEF IInv, Typed, OwnRequests, OnePlace, Queued
    <3> HIDE DEF r, s
    <3> QED
      BY <1>1, <1>3, <2>2, <3>1, AppendNew
  <2> QED
    BY <2>1, <2>2
<1>5. queue'[s] # Absent
  BY <1>4, RequestFacts
<1>6. queue' \in [Server -> Seq(Request) \cup {Absent}]
  <2>1. queue = [z \in Server |-> queue[z]]
    BY DEF IInv, Typed
  <2>2. queue' = [z \in Server |-> queue'[z]]
    BY <1>1, <2>1 DEF Push
  <2>3. \A z \in Server : queue'[z] \in Seq(Request) \cup {Absent}
    BY <1>3, <1>4 DEF IInv, Typed
  <2> QED
    BY <2>2, <2>3
<1>7. \A p \in Request : Queued(p)' = (Queued(p) \/ p = r)
  <2> SUFFICES ASSUME NEW p \in Request
               PROVE  Queued(p)' = (Queued(p) \/ p = r)
    OBVIOUS
  <2>1. p.server \in Server
    BY RequestFacts
  <2> QED
    BY <1>1, <1>3, <1>4, <1>5, <2>1 DEF Queued
<1>8. Typed'
  BY <1>1, <1>2, <1>6 DEF IInv, Typed
<1>9. s \notin quit /\ r \in asked
  BY <1>1 DEF IInv, QuitHasNoList, OnePlace
<1> HIDE DEF r, s
<1>10. WalksItsStage' /\ QuitHasNoList'
  BY <1>1, <1>2, <1>3, <1>9 DEF IInv, Typed, WalksItsStage, QuitHasNoList
<1>11. OwnRequests'
  BY <1>1, <1>2, <1>3, <1>4, <1>9 DEF IInv, OwnRequests, r, s
<1>12. OnePlace' /\ SomePlace'
  <2>1. r \notin ToSet(sent) /\ r = command
    BY <1>1 DEF IInv, OnePlace, r
  <2>2. \A p \in ToSet(sent) \cup asked : p \in Request
    BY DEF IInv, OnePlace, Typed
  <2> QED
    BY <1>1, <1>2, <1>7, <2>1, <2>2 DEF IInv, OnePlace, SomePlace
<1> QED
  BY <1>8, <1>10, <1>11, <1>12 DEF IInv

\* serverRemoved frees the list of a server, with all that waits in it.
LEMMA QuitStep ==
  ASSUME IInv, NEW s \in Server, Quit(s)
  PROVE  IInv'
<1>1. /\ command = Absent /\ quit' = quit \cup {s}
      /\ queue' = [queue EXCEPT ![s] = Absent]
      /\ UNCHANGED <<status, command, reader, asked, sent>>
  BY DEF Quit
<1>2. queue'[s] = Absent /\ \A z \in Server \ {s} : queue'[z] = queue[z]
  BY <1>1 DEF IInv, Typed
<1>3. \A p \in Request : Queued(p)' = (Queued(p) /\ p.server # s)
  <2> SUFFICES ASSUME NEW p \in Request
               PROVE  Queued(p)' = (Queued(p) /\ p.server # s)
    OBVIOUS
  <2>1. p.server \in Server
    BY RequestFacts
  <2> QED
    BY <1>2, <2>1 DEF Queued
<1>4. Typed'
  BY <1>1 DEF IInv, Typed
<1>5. WalksItsStage' /\ QuitHasNoList' /\ OwnRequests'
  BY <1>1, <1>2 DEF IInv, Typed, WalksItsStage, QuitHasNoList, OwnRequests
<1>6. OnePlace' /\ SomePlace'
  <2>1. \A p \in ToSet(sent) \cup asked : p \in Request
    BY DEF IInv, OnePlace, Typed
  <2> QED
    BY <1>1, <1>3, <2>1 DEF IInv, OnePlace, SomePlace
<1> QED
  BY <1>4, <1>5, <1>6 DEF IInv

-----------------------------------------------------------------------------
(* The reader of a server.                                                  *)

\* A server that reaches a stage has its reader report it.
LEMMA AdvanceStep ==
  ASSUME IInv, NEW s \in Server, Advance(s)
  PROVE  IInv'
<1>1. PICK stage \in {"ready", "dead"} : status' = [status EXCEPT ![s] = stage]
  BY DEF Advance
<1>2. /\ reader' = [reader EXCEPT ![s] = Reporting] /\ reader[s] = Idle
      /\ UNCHANGED <<queue, command, asked, sent, quit>>
  BY DEF Advance
<1>3. Typed'
  BY <1>1, <1>2 DEF IInv, Typed, Stage
<1>4. WalksItsStage'
  BY <1>1, <1>2 DEF IInv, Typed, WalksItsStage, Reporting
<1> QED
  BY <1>2, <1>3, <1>4
     DEF IInv, QuitHasNoList, OwnRequests, OnePlace, SomePlace, Queued

\* Steps that only move the reader.
LEMMA ReaderMoves ==
  ASSUME IInv, UNCHANGED <<status, queue, command, asked, sent, quit>>,
         Typed', WalksItsStage'
  PROVE  IInv'
  BY DEF IInv, QuitHasNoList, OwnRequests, OnePlace, SomePlace, Queued

\* A turn of callInQueue sends one request and erases it, or goes on.
LEMMA CallStep ==
  ASSUME IInv, NEW s \in Server, Call(s)
  PROVE  IInv'
<1>1. reader[s].at = "walking" /\ UNCHANGED <<status, command, asked, quit>>
  BY DEF Call
<1>2. CASE reader[s].stage # "ready"
  <2>1. reader' = [reader EXCEPT ![s].next = @ + 1] /\ UNCHANGED <<sent, queue>>
    BY <1>2 DEF Call
  <2>2. reader[s] \in [at : {"walking"}, stage : Stage, next : Nat \ {0}]
    BY <1>1 DEF IInv, Typed, Idle, Reporting
  <2>3. reader'[s] = [reader[s] EXCEPT !.next = @ + 1]
        /\ \A z \in Server \ {s} : reader'[z] = reader[z]
    BY <2>1 DEF IInv, Typed
  <2>4. reader'[s] \in [at : {"walking"}, stage : Stage, next : Nat \ {0}]
        /\ reader'[s].stage = reader[s].stage
    BY <2>2, <2>3
  <2>5. Typed'
    BY <1>1, <2>1, <2>4 DEF IInv, Typed
  <2>6. WalksItsStage'
    BY <1>1, <2>3, <2>4 DEF IInv, WalksItsStage
  <2> QED
    BY <1>1, <2>1, <2>5, <2>6, ReaderMoves
<1>3. CASE reader[s].stage = "ready"
  <2>1. /\ queue[s] # Absent
        /\ \A z \in Server \ {s} : queue'[z] = queue[z]
        /\ queue' \in [Server -> Seq(Request) \cup {Absent}]
    BY <1>3, CallSends
  <2>2. PICK r \in Request :
          /\ r.server = s /\ Queued(r) /\ sent' = Append(sent, r)
          /\ r \notin ToSet(sent) /\ sent' \in Seq(Request)
          /\ IsInjective(sent') /\ ToSet(sent') = ToSet(sent) \cup {r}
          /\ queue'[s] \in Seq(Request) /\ IsInjective(queue'[s])
          /\ ToSet(queue'[s]) = ToSet(queue[s]) \ {r}
    BY <1>3, CallSends
  <2>3. reader' = reader
    BY <1>3 DEF Call
  <2>4. queue'[s] # Absent
    BY <2>2, RequestFacts
  <2>5. \A p \in Request : Queued(p)' = (Queued(p) /\ p # r)
    <3> SUFFICES ASSUME NEW p \in Request
                 PROVE  Queued(p)' = (Queued(p) /\ p # r)
      OBVIOUS
    <3>1. p.server \in Server
      BY RequestFacts
    <3> QED
      BY <2>1, <2>2, <2>4, <3>1 DEF Queued
  <2>6. Typed' /\ WalksItsStage'
    BY <1>1, <2>1, <2>2, <2>3 DEF IInv, Typed, WalksItsStage
  <2>7. QuitHasNoList' /\ OwnRequests'
    <3>1. s \notin quit
      BY <2>1 DEF IInv, QuitHasNoList
    <3> QED
      BY <1>1, <2>1, <2>2, <3>1 DEF IInv, Typed, QuitHasNoList, OwnRequests
  <2>8. OnePlace' /\ SomePlace'
    <3>1. r \in asked /\ r # command
      BY <2>1, <2>2, RequestFacts DEF IInv, OwnRequests, OnePlace, Queued
    <3>2. \A p \in ToSet(sent) \cup asked : p \in Request
      BY DEF IInv, OnePlace, Typed
    <3>3. command # Absent => command \in Request
      BY DEF IInv, Typed
    <3> QED
      BY <1>1, <2>2, <2>5, <3>1, <3>2, <3>3 DEF IInv, OnePlace, SomePlace
  <2> QED
    BY <2>6, <2>7, <2>8 DEF IInv
<1> QED
  BY <1>2, <1>3

\* Every step of every thread keeps the invariant.
LEMMA StepIInv == IInv /\ [Next]_vars => IInv'
<1> SUFFICES ASSUME IInv, [Next]_vars PROVE IInv'
  OBVIOUS
<1>1. ASSUME NEW r \in Request, Ask(r) PROVE IInv'
  BY <1>1, AskStep
<1>2. CASE Push
  BY <1>2, PushStep
<1>3. ASSUME NEW s \in Server, Quit(s) PROVE IInv'
  BY <1>3, QuitStep
<1>4. ASSUME NEW s \in Server, Advance(s) PROVE IInv'
  BY <1>4, AdvanceStep
<1>5. ASSUME NEW s \in Server, StartWalk(s) PROVE IInv'
  <2>1. /\ UNCHANGED <<status, queue, command, asked, sent, quit>>
        /\ reader' = [reader EXCEPT ![s] =
             IF queue[s] = Absent THEN Idle ELSE Walking(status[s], 1)]
    BY <1>5 DEF StartWalk
  <2>2. Typed'
    BY <2>1 DEF IInv, Typed, Walking
  <2>3. WalksItsStage'
    BY <2>1 DEF IInv, Typed, WalksItsStage, Idle, Walking
  <2> QED
    BY <2>1, <2>2, <2>3, ReaderMoves
<1>6. ASSUME NEW s \in Server, EndWalk(s) PROVE IInv'
  <2>1. /\ UNCHANGED <<status, queue, command, asked, sent, quit>>
        /\ reader' = [reader EXCEPT ![s] = Idle]
    BY <1>6 DEF EndWalk
  <2>2. Typed'
    BY <2>1 DEF IInv, Typed
  <2>3. WalksItsStage'
    BY <2>1 DEF IInv, Typed, WalksItsStage, Idle
  <2> QED
    BY <2>1, <2>2, <2>3, ReaderMoves
<1>7. ASSUME NEW s \in Server, Call(s) PROVE IInv'
  BY <1>7, CallStep
<1>8. CASE UNCHANGED vars
  BY <1>8 DEF vars, IInv, Typed, WalksItsStage, QuitHasNoList, OwnRequests,
     OnePlace, SomePlace, Queued
<1> QED
  BY <1>1, <1>2, <1>3, <1>4, <1>5, <1>6, <1>7, <1>8 DEF Next, Terminal, Reader

\* Whatever is asked for, on whichever thread, and whatever the servers report.
THEOREM QueueInvariant == Spec => []IInv
  BY InitIInv, StepIInv, PTL DEF Spec

\* A request that was entered is sent, or in the queue, or about to be pushed,
\* and only one of these, and it is sent once, until its server is quit.
THEOREM NoRequestLostOrRepeated == Spec => []NoneLostNoneTwice
<1>1. IInv => NoneLostNoneTwice
  <2> SUFFICES ASSUME IInv PROVE NoneLostNoneTwice
    OBVIOUS
  <2>1. \A r \in asked \ ToSet(sent) :
          r.server \in quit \/ (Queued(r) # (command = r))
    <3> SUFFICES ASSUME NEW r \in asked \ ToSet(sent), r.server \notin quit
                 PROVE  Queued(r) # (command = r)
      OBVIOUS
    <3>1. Queued(r) \/ command = r
      BY DEF IInv, SomePlace
    <3>2. ~(Queued(r) /\ command = r)
      BY RequestFacts DEF IInv, Typed, OnePlace
    <3> QED
      BY <3>1, <3>2, Zenon DEF Queued
  <2>2. \A r \in ToSet(sent) : r \in asked /\ ~Queued(r) /\ command # r
    BY RequestFacts DEF IInv, Typed, OnePlace
  <2> QED
    BY <2>1, <2>2 DEF IInv, OnePlace, NoneLostNoneTwice
<1> QED
  BY <1>1, QueueInvariant, PTL

\* A JOIN goes out only while its server is ready, and never to one that was
\* quit, although the reader looks at neither when it calls the function.
THEOREM SentOnlyToReady == Spec => OnlyToReady
<1>1. IInv /\ [Next]_vars =>
        [sent' # sent =>
           LET server == Last(sent').server
           IN status[server] = "ready" /\ server \notin quit]_vars
  <2> SUFFICES ASSUME IInv, Next, sent' # sent
               PROVE  /\ status[Last(sent').server] = "ready"
                      /\ Last(sent').server \notin quit
    OBVIOUS
  <2>1. ASSUME NEW r \in Request, Ask(r)
        PROVE  /\ status[Last(sent').server] = "ready"
               /\ Last(sent').server \notin quit
    <3>1. sent' = Append(sent, r) /\ status[r.server] = "ready" /\ r.server \notin quit
      BY <2>1 DEF Ask
    <3>2. r \notin ToSet(sent)
      BY <2>1 DEF Ask, IInv, OnePlace
    <3>3. Last(sent') = r
      BY <3>1, <3>2, AppendNew DEF IInv, Typed, OnePlace
    <3> QED
      BY <3>1, <3>3
  <2>2. ASSUME NEW s \in Server, Call(s)
        PROVE  /\ status[Last(sent').server] = "ready"
               /\ Last(sent').server \notin quit
    <3>1. reader[s].stage = "ready" /\ reader[s].at = "walking"
      BY <2>2 DEF Call
    <3>2. queue[s] # Absent /\ Last(sent').server = s
      BY <2>2, <3>1, CallSends
    <3>3. status[s] = "ready" /\ s \notin quit
      BY <3>1, <3>2 DEF IInv, WalksItsStage, QuitHasNoList
    <3> QED
      BY <3>2, <3>3
  <2> QED
    BY <2>1, <2>2 DEF Next, Terminal, Reader, Push, Quit, Advance, StartWalk, EndWalk
<1> QED
  BY <1>1, QueueInvariant, PTL DEF Spec, OnlyToReady
=============================================================================
