----------------------------- MODULE ServerQueue -----------------------------
(***************************************************************************)
(* What waits for a server to become ready: Client::waitForServer,          *)
(* Client::callInQueue and the queue's part of Client::serverRemoved.       *)
(*                                                                          *)
(* /join asks for a channel on the thread of the terminal; the reader       *)
(* thread of the server reports each new stage and then walks the queue.    *)
(* No lock is held, so the two are interleaved between every look at the    *)
(* status, the map and the list.  The terminal enters one command at a time.*)
(***************************************************************************)
EXTENDS Naturals, SequencesExt

CONSTANTS
  Server,
  Request,     \* the /join commands of a run; each is entered once
  Absent       \* the value of a key that is not in the map

ASSUME RequestAssumption ==
  /\ Request \subseteq [server : Server, number : Nat]
  /\ Absent \notin Request \cup Seq(Request)

\* The stages of a server that the client tells apart, in the order in which
\* the library reaches them.
Stage == {"setup", "ready", "dead"}

VARIABLES
  status,    \* the stage of each server, as getStatus returns it
  queue,     \* serverStatusQueue: the list of a server, or Absent
  command,   \* the request waitForServer is about to push, or Absent
  reader,    \* what the reader thread of each server is doing
  asked,     \* the requests entered so far
  sent,      \* the JOIN commands sent so far, in order
  quit,      \* the servers that have been quit
  fault      \* whether a thread has followed a pointer into a freed list

vars == <<status, queue, command, reader, asked, sent, quit, fault>>

Idle == [at |-> "idle"]
Reporting == [at |-> "reporting"]
Walking(stage, next) == [at |-> "walking", stage |-> stage, next |-> next]

Init ==
  /\ status = [s \in Server |-> "setup"]
  /\ queue = [s \in Server |-> Absent]
  /\ command = Absent
  /\ reader = [s \in Server |-> Idle]
  /\ asked = {}
  /\ sent = <<>>
  /\ quit = {}
  /\ fault = FALSE

-----------------------------------------------------------------------------
(* The thread of the terminal.                                              *)

\* waitForServer, as /join calls it: a server that is ready is asked at once.
Ask(r) ==
  /\ ~fault /\ command = Absent
  /\ r \notin asked /\ r.server \notin quit
  /\ asked' = asked \cup {r}
  /\ IF status[r.server] = "ready"
     THEN sent' = Append(sent, r) /\ UNCHANGED command
     ELSE command' = r /\ UNCHANGED sent
  /\ UNCHANGED <<status, queue, reader, quit, fault>>

\* The push at the end of waitForServer; operator[] makes the list.
Push ==
  /\ ~fault /\ command # Absent
  /\ queue' = [queue EXCEPT ![command.server] =
                 IF @ = Absent THEN <<command>> ELSE Append(@, command)]
  /\ command' = Absent
  /\ UNCHANGED <<status, reader, asked, sent, quit, fault>>

\* Whether the reader stands at a request; its iterator may also be the end of
\* the list, which it compares with but never follows.
AtRequest(s) == queue[s] # Absent /\ reader[s].next <= Len(queue[s])

\* serverRemoved: nothing waits for the stage Dead, so callInQueue calls
\* nothing, and the list is freed even while the reader stands in it.
Quit(s) ==
  /\ ~fault /\ command = Absent
  /\ s \notin quit
  /\ quit' = quit \cup {s}
  /\ queue' = [queue EXCEPT ![s] = Absent]
  /\ fault' = (reader[s].at = "walking" /\ AtRequest(s))
  /\ UNCHANGED <<status, command, reader, asked, sent>>

-----------------------------------------------------------------------------
(* The reader thread of a server.                                           *)

\* The library sets the status and raises ServerStatusEvent.
Advance(s) ==
  /\ ~fault /\ reader[s] = Idle
  /\ status[s] # "dead"
  /\ \E stage \in {"ready", "dead"} \ {status[s]} :
       status' = [status EXCEPT ![s] = stage]
  /\ reader' = [reader EXCEPT ![s] = Reporting]
  /\ UNCHANGED <<queue, command, asked, sent, quit, fault>>

\* callInQueue returns when the server has no list, else starts the walk.
StartWalk(s) ==
  /\ ~fault /\ reader[s] = Reporting
  /\ reader' = [reader EXCEPT ![s] =
                  IF queue[s] = Absent THEN Idle ELSE Walking(status[s], 1)]
  /\ UNCHANGED <<status, queue, command, asked, sent, quit, fault>>

EndWalk(s) ==
  /\ ~fault /\ reader[s].at = "walking" /\ ~AtRequest(s)
  /\ reader' = [reader EXCEPT ![s] = Idle]
  /\ UNCHANGED <<status, queue, command, asked, sent, quit, fault>>

\* Variant: whatever the stage, every request is called.
CallAnything(s) ==
  /\ ~fault /\ reader[s].at = "walking" /\ AtRequest(s)
  /\ sent' = Append(sent, queue[s][reader[s].next])
  /\ queue' = [queue EXCEPT ![s] = RemoveAt(@, reader[s].next)]
  /\ UNCHANGED <<status, command, reader, asked, quit, fault>>

\* Variant: the walk ends with the first request that is called.
CallOne(s) ==
  /\ ~fault /\ reader[s].at = "walking" /\ AtRequest(s)
  /\ sent' = Append(sent, queue[s][reader[s].next])
  /\ queue' = [queue EXCEPT ![s] = RemoveAt(@, reader[s].next)]
  /\ reader' = [reader EXCEPT ![s] = Idle]
  /\ UNCHANGED <<status, command, asked, quit, fault>>

\* Variant: a request that was called stays in the list.
CallAndKeep(s) ==
  /\ ~fault /\ reader[s].at = "walking" /\ AtRequest(s)
  /\ sent' = Append(sent, queue[s][reader[s].next])
  /\ reader' = [reader EXCEPT ![s].next = @ + 1]
  /\ UNCHANGED <<status, queue, command, asked, quit, fault>>

\* One turn of the loop: a request for this stage (each /join waits for Ready)
\* is called and erased, another is passed over.
Call(s) ==
  /\ ~fault /\ reader[s].at = "walking" /\ AtRequest(s)
  /\ IF reader[s].stage = "ready"
     THEN /\ sent' = Append(sent, queue[s][reader[s].next])
          /\ queue' = [queue EXCEPT ![s] = RemoveAt(@, reader[s].next)]
          /\ UNCHANGED reader
     ELSE /\ reader' = [reader EXCEPT ![s].next = @ + 1]
          /\ UNCHANGED <<sent, queue>>
  /\ UNCHANGED <<status, command, asked, quit, fault>>

Terminal ==
  \/ \E r \in Request : Ask(r)
  \/ Push
  \/ \E s \in Server : Quit(s)

Reader(s) == Advance(s) \/ StartWalk(s) \/ EndWalk(s) \/ Call(s)

Next == Terminal \/ \E s \in Server : Reader(s)

Spec == Init /\ [][Next]_vars

\* The threads run: a command that was entered is finished, and a reader that
\* has begun a report ends it.  Nothing makes a server reach a stage.
ThreadsRun ==
  /\ WF_vars(Push)
  /\ \A s \in Server : WF_vars(StartWalk(s) \/ EndWalk(s) \/ Call(s))

FairSpec == Spec /\ ThreadsRun
-----------------------------------------------------------------------------
(* Properties.                                                              *)

Queued(r) == queue[r.server] # Absent /\ r \in ToSet(queue[r.server])

\* The type of the state; an iterator never passes the end of its list.
TypeOK ==
  /\ status \in [Server -> Stage]
  /\ queue \in [Server -> Seq(Request) \cup {Absent}]
  /\ command \in Request \cup {Absent}
  /\ asked \subseteq Request /\ quit \subseteq Server
  /\ sent \in Seq(Request) /\ fault \in BOOLEAN
  /\ \A s \in Server :
       \/ reader[s] \in {Idle, Reporting}
       \/ /\ reader[s] \in [at : {"walking"}, stage : Stage, next : Nat \ {0}]
          /\ queue[s] # Absent => reader[s].next \in 1..(Len(queue[s]) + 1)

\* waitForServer and callInQueue between them neither lose nor repeat a
\* request: each is sent, or waits, or is on its way to the queue, and never
\* two of these, until its server is quit.
NoneLostNoneTwice ==
  /\ IsInjective(sent)
  /\ \A r \in asked \ ToSet(sent) :
       r.server \in quit \/ (Queued(r) # (command = r))
  /\ \A r \in ToSet(sent) : r \in asked /\ ~Queued(r) /\ command # r

\* JOIN is sent only to a server that is ready and has not been quit, on
\* whichever thread the function of the queue is called.
OnlyToReady ==
  [][sent' # sent =>
       LET server == Last(sent').server
       IN status[server] = "ready" /\ server \notin quit]_vars

\* "Calls and removes all functions in the server status queue waiting for a
\* given server and status" (Client.h): what is in the queue when a server
\* reports that it is ready is sent, unless the server dies or is quit.
QueuedInTimeIsSent ==
  \A r \in Request :
    Queued(r) /\ status[r.server] = "ready" /\ reader[r.server] = Reporting
      ~> \/ r \in ToSet(sent) \/ status[r.server] = "dead"
         \/ r.server \in quit \/ fault

\* "Adds a function to a queue to be called when a server reaches a given
\* stage" (Client.h): a request for a server that is ready is sent.  The code
\* does not keep this: the server may become ready, and its reader find the
\* queue empty, after waitForServer has looked at the status and before it has
\* pushed the request.
AskedIsSent ==
  \A r \in Request :
    r \in asked /\ status[r.server] = "ready"
      ~> \/ r \in ToSet(sent) \/ status[r.server] = "dead"
         \/ r.server \in quit \/ fault
=============================================================================
