---------------------------- MODULE DaemonClient ----------------------------
(***************************************************************************)
(* The extension's JSON-RPC client and the daemon processes it starts: the *)
(* requests that wait for a response, the response frames on each daemon's *)
(* stdout, and the one buffer in which the client reassembles them.        *)
(*                                                                         *)
(* A handler of the client (an event of a process, a request, a restart)   *)
(* is one step, as JavaScript runs it.  A frame is a header of four units  *)
(* and a body of one to MaxBody units; a chunk on stdout may end after any *)
(* unit, and so within the header too.  What a request asks and what its   *)
(* response says are left out.                                             *)
(***************************************************************************)
EXTENDS Integers, Sequences

CONSTANTS
  MaxStarts,    \* bound: daemon processes started
  MaxRequests,  \* bound: requests made
  MaxBody       \* bound: units of a response's body

ASSUME BoundsAssumption == {MaxStarts, MaxRequests, MaxBody} \subseteq Nat \ {0}

Ids == 1..MaxRequests

Procs == 1..MaxStarts

\* this.process is undefined.
NoProcess == 0

VARIABLES
  process,    \* this.process
  started,    \* processes started so far
  status,     \* of each process
  stdin,      \* the requests written to each process and not read by it
  inbox,      \* the requests each process has read and not answered
  writing,    \* what each process has still to write, under its stdout lock
  pipe,       \* what each process has written and the client has not read
  buffer,     \* this.buffer
  requests,   \* requestIdCounter
  outcome,    \* of each request; "pending" ones are in this.pendingRequests
  unread,     \* requests written to a pipe that nobody reads any more
  sentTo,     \* history: the process each request was sent to
  delivered,  \* history: requests whose response was written to its end
  lost,       \* history: responses the client read and did not understand
  cut         \* history: a frame was cut short, or two daemons' bytes met

daemonVars == <<status, stdin, inbox, writing, pipe>>

vars == <<process, started, daemonVars, buffer, requests, outcome, unread,
          sentTo, delivered, lost, cut>>

\* The units of a header: "Content-", "Length: n", a newline, and a newline.
HeaderSize == 4

\* One unit of the frame that answers "id", a response of `length` units.
Unit == [id : Ids, part : 1..HeaderSize + MaxBody, length : 1..MaxBody]

Body(id, length) ==
  [i \in 1..length |-> [id |-> id, part |-> HeaderSize + i, length |-> length]]

Frame(id, length) ==
  [i \in 1..HeaderSize + length |-> [id |-> id, part |-> i, length |-> length]]

Init ==
  /\ process = NoProcess /\ started = 0
  /\ status = [p \in Procs |-> "unborn"]
  /\ stdin = [p \in Procs |-> << >>]
  /\ inbox = [p \in Procs |-> {}]
  /\ writing = [p \in Procs |-> << >>]
  /\ pipe = [p \in Procs |-> << >>]
  /\ buffer = << >>
  /\ requests = 0
  /\ outcome = [i \in Ids |-> "unsent"]
  /\ unread = {}
  /\ sentTo = [i \in Ids |-> NoProcess]
  /\ delivered = {} /\ lost = {} /\ cut = FALSE

-----------------------------------------------------------------------------
(* The daemon: one thread that reads requests, a task per request, one      *)
(* response at a time on stdout.                                           *)

\* run: a frame is read to its end, and its task started.
ReadRequest(p) ==
  /\ status[p] = "running" /\ stdin[p] # << >>
  /\ stdin' = [stdin EXCEPT ![p] = Tail(@)]
  /\ inbox' = [inbox EXCEPT ![p] = @ \cup {Head(stdin[p])}]
  /\ UNCHANGED <<process, started, status, writing, pipe, buffer, requests, outcome,
                 unread, sentTo, delivered, lost, cut>>

Answer(p) ==
  /\ status[p] = "running" /\ writing[p] = << >>
  /\ \E i \in inbox[p], length \in 1..MaxBody :
       /\ inbox' = [inbox EXCEPT ![p] = @ \ {i}]
       /\ writing' = [writing EXCEPT ![p] = Frame(i, length)]
  /\ UNCHANGED <<process, started, status, stdin, pipe, buffer, requests, outcome,
                 unread, sentTo, delivered, lost, cut>>

WriteResponse(p) ==
  /\ status[p] = "running" /\ writing[p] # << >>
  /\ writing' = [writing EXCEPT ![p] = Tail(@)]
  /\ pipe' = [pipe EXCEPT ![p] = Append(@, Head(writing[p]))]
  /\ delivered' = IF Head(writing[p]).part = HeaderSize + Head(writing[p]).length
                  THEN delivered \cup {Head(writing[p]).id} ELSE delivered
  /\ UNCHANGED <<process, started, status, stdin, inbox, buffer, requests, outcome,
                 unread, sentTo, lost, cut>>

\* The process crashes, or the signal that kill() sent takes effect.
Exit(p) ==
  /\ status[p] = "running"
  /\ status' = [status EXCEPT ![p] = "dead"]
  /\ stdin' = [stdin EXCEPT ![p] = << >>]
  /\ inbox' = [inbox EXCEPT ![p] = {}]
  /\ writing' = [writing EXCEPT ![p] = << >>]
  /\ cut' = (cut \/ (writing[p] # << >> /\ Head(writing[p]).part > 1))
  /\ UNCHANGED <<process, started, pipe, buffer, requests, outcome, unread, sentTo,
                 delivered, lost>>

-----------------------------------------------------------------------------
(* processBuffer and processResponseFrame.                                 *)

IsNewline(unit) == unit.part \in {3, 4}

\* /^Content-Length:/ matches, whichever frames the two units are of.
StartsHeader(bytes) == Len(bytes) >= 2 /\ bytes[1].part = 1 /\ bytes[2].part = 2

\* /^Content-Length:\s*(\d+)\r?\n\r?\n/ matches; the second unit has the length.
HasHeader(bytes) ==
  /\ Len(bytes) >= HeaderSize /\ StartsHeader(bytes)
  /\ IsNewline(bytes[3]) /\ IsNewline(bytes[4])

\* Where the first newline is; only headers have them.
LineEnd(bytes) ==
  LET newlines == {i \in DOMAIN bytes : IsNewline(bytes[i])}
  IN  IF newlines = {} THEN 0 ELSE CHOOSE i \in newlines : \A j \in newlines : i <= j

\* A faulty form of FrameEnd: it takes the first line of half a header for a line.
FrameEndByLine(bytes) ==
  IF HasHeader(bytes)
  THEN IF Len(bytes) >= HeaderSize + bytes[2].length THEN HeaderSize + bytes[2].length ELSE 0
  ELSE LineEnd(bytes)

\* The units processBuffer takes off the front at once: a header and the units it
\* announces, whatever they are, or else a line; none if it must wait for more of a
\* frame, of a header that has begun, or of a line.
FrameEnd(bytes) ==
  IF HasHeader(bytes)
  THEN IF Len(bytes) >= HeaderSize + bytes[2].length THEN HeaderSize + bytes[2].length ELSE 0
  ELSE IF StartsHeader(bytes) THEN 0 ELSE LineEnd(bytes)

\* A faulty form of ProcessBuffer: one frame per event, the rest waits for more data.
ProcessOnce(bytes) ==
  LET end == FrameEnd(bytes)
  IN  [frames |-> IF end = 0 THEN {} ELSE {SubSeq(bytes, 1, end)},
       rest |-> SubSeq(bytes, end + 1, Len(bytes))]

\* The frames found in "bytes", and what is left, once m units have been taken off.
ProcessBuffer(bytes) ==
  LET after[m \in 0..Len(bytes)] ==
        LET left == SubSeq(bytes, m + 1, Len(bytes))
            end == FrameEnd(left)
        IN  IF end = 0 THEN [frames |-> {}, rest |-> left]
            ELSE [after[m + end] EXCEPT !.frames = @ \cup {SubSeq(left, 1, end)}]
  IN  after[0]

\* What is parsed of the units taken off: what follows the header, or the line
\* without its newline.
Text(frame) ==
  IF HasHeader(frame) THEN SubSeq(frame, HeaderSize + 1, Len(frame))
  ELSE SubSeq(frame, 1, Len(frame) - 1)

\* JSON.parse accepts one whole body, and nothing else.
Parses(text) == text # << >> /\ text = Body(text[1].id, text[1].length)

\* An empty line is skipped; anything else that does not parse is lost.
Garbled(frame) == Text(frame) # << >> /\ ~Parses(Text(frame))

-----------------------------------------------------------------------------
(* The client.                                                             *)

\* A chunk arrives on a process's stdout, that of the current one or of one
\* that has been stopped.
Data(p) ==
  \E k \in 1..Len(pipe[p]) :
  \E got \in {ProcessBuffer(buffer \o SubSeq(pipe[p], 1, k))} :
    LET answered == {Text(f)[1].id : f \in {g \in got.frames : Parses(Text(g))}}
        garbled == UNION {{f[i].id : i \in DOMAIN f} : f \in {g \in got.frames : Garbled(g)}}
    IN  /\ pipe' = [pipe EXCEPT ![p] = SubSeq(@, k + 1, Len(@))]
        /\ buffer' = got.rest
        /\ outcome' = [i \in Ids |-> IF i \in answered /\ outcome[i] = "pending"
                                     THEN "resolved" ELSE outcome[i]]
        /\ lost' = lost \cup garbled
        /\ cut' = (cut \/ (buffer # << >> /\ sentTo[buffer[Len(buffer)].id] # p))
        /\ UNCHANGED <<process, started, status, stdin, inbox, writing, requests,
                       unread, sentTo, delivered>>

\* A faulty form of Close: requests are forgotten without an answer.
CloseSilently(p) ==
  /\ status[p] = "dead" /\ pipe[p] = << >>
  /\ status' = [status EXCEPT ![p] = "closed"]
  /\ process' = IF process = p THEN NoProcess ELSE process
  /\ UNCHANGED <<started, stdin, inbox, writing, pipe, buffer, requests, outcome,
                 unread, sentTo, delivered, lost, cut>>

\* "close" comes after the last chunk.  Only that of the current process
\* rejects what is pending.
Close(p) ==
  /\ status[p] = "dead" /\ pipe[p] = << >>
  /\ status' = [status EXCEPT ![p] = "closed"]
  /\ IF process = p
     THEN /\ process' = NoProcess
          /\ outcome' = [i \in Ids |-> IF outcome[i] = "pending" THEN "rejected"
                                       ELSE outcome[i]]
     ELSE UNCHANGED <<process, outcome>>
  /\ UNCHANGED <<started, stdin, inbox, writing, pipe, buffer, requests, unread,
                 sentTo, delivered, lost, cut>>

\* sendRequest; a process that is dead receives nothing any more.
SendRequest ==
  LET i == requests + 1
  IN  /\ process # NoProcess /\ i \in Ids
      /\ requests' = i
      /\ outcome' = [outcome EXCEPT ![i] = "pending"]
      /\ sentTo' = [sentTo EXCEPT ![i] = process]
      /\ stdin' = IF status[process] = "running"
                  THEN [stdin EXCEPT ![process] = Append(@, i)] ELSE stdin
      /\ unread' = IF status[process] = "running" THEN unread ELSE unread \cup {i}
      /\ UNCHANGED <<process, started, status, inbox, writing, pipe, buffer,
                     delivered, lost, cut>>

\* The callback of write() is called with an error.
WriteFails(i) ==
  /\ i \in unread
  /\ unread' = unread \ {i}
  /\ outcome' = [outcome EXCEPT ![i] = IF @ = "pending" THEN "rejected" ELSE @]
  /\ UNCHANGED <<process, started, daemonVars, buffer, requests, sentTo,
                 delivered, lost, cut>>

\* activate, and every change of the configuration: stop(), then start().
\* Neither touches the buffer or the pending requests.
Restart ==
  /\ started < MaxStarts
  /\ started' = started + 1
  /\ process' = started'
  /\ status' = [status EXCEPT ![started'] = "running"]
  /\ UNCHANGED <<stdin, inbox, writing, pipe, buffer, requests, outcome, unread,
                 sentTo, delivered, lost, cut>>

-----------------------------------------------------------------------------
(* Specification.                                                          *)

Next ==
  \/ \E p \in Procs : \/ ReadRequest(p) \/ Answer(p) \/ WriteResponse(p) \/ Exit(p)
                      \/ Data(p) \/ Close(p)
  \/ SendRequest \/ Restart
  \/ \E i \in Ids : WriteFails(i)

Spec == Init /\ [][Next]_vars

\* The event loop delivers the chunks and the end of every process's stdout.
\* Nothing makes a daemon answer or exit, or a user act.
FairSpec == Spec /\ \A p \in Procs : WF_vars(Data(p)) /\ WF_vars(Close(p))

-----------------------------------------------------------------------------
(* What the client promises.                                               *)

\* However the responses of a daemon are ordered and cut into chunks, within a
\* header too, the client reads every one of them: only a response that a daemon
\* could not finish, or the bytes of two daemons in one buffer, upset the framing.
FramingKept == lost # {} => cut

\* A response that was written whole is read, without waiting for more bytes
\* to come, and settles its request.
ResponsesRead ==
  \A i \in Ids : i \in delivered ~> outcome[i] # "pending" \/ cut

\* A daemon that exits by itself leaves no request unsettled: all of them are
\* rejected, unless another daemon is started before the exit is noticed.
CrashRejects ==
  \A p \in Procs, i \in Ids :
    (process = p /\ status[p] = "dead" /\ outcome[i] = "pending")
      ~> (outcome[i] # "pending" \/ process \notin {p, NoProcess})
=============================================================================
