-------------------------------- MODULE Stream --------------------------------
(***************************************************************************)
(* Firestore's Stream: the life of one connection to the backend, which    *)
(* the write stream and the watch stream share. A method that changes the  *)
(* stream is an operator from state to state; the modules that extend this *)
(* one compose them. The state is a record:                                *)
(*                                                                         *)
(*   state           "Initial", "Starting", "Open", "Error" or "Backoff".  *)
(*                   Open stands for Open and Healthy, which nothing tells *)
(*                   apart here                                            *)
(*   close_count     how often the stream was closed                       *)
(*   tokens          the close counts of the outstanding requests for      *)
(*                   credentials                                           *)
(*   idleness_timer  whether the timer is running                          *)
(*   up, down        what is on the wire of the connection                 *)
(*   failed          the HARD_ASSERTs that failed                          *)
(***************************************************************************)
EXTENDS Integers, Sequences

IsOpen(s)    == s.state = "Open"
IsStarted(s) == s.state \in {"Starting", "Backoff", "Open"}

HardAssert(s, cond, name) == IF cond THEN s ELSE [s EXCEPT !.failed = s.failed \cup {name}]

\* Start: an error is waited out first; otherwise credentials are asked for.
Start(s) ==
    IF s.state = "Error" THEN [s EXCEPT !.state = "Backoff"]
    ELSE LET a == HardAssert(s, s.state = "Initial", "AlreadyStarted")
         IN  [a EXCEPT !.state = "Starting", !.tokens = a.tokens \cup {a.close_count}]

\* The backoff is over.
BackoffOver(s) == Start([s EXCEPT !.state = "Initial"])

InhibitBackoff(s) ==
    LET a == HardAssert(s, ~IsStarted(s), "InhibitBackoff")
    IN  [a EXCEPT !.state = "Initial"]

MarkIdle(s) == IF IsOpen(s) THEN [s EXCEPT !.idleness_timer = TRUE] ELSE s

\* Write, for a sequence of messages: the idle timer is cancelled.
WriteAll(s, ms) ==
    LET a == HardAssert(s, IsOpen(s), "WriteNotOpen")
    IN  IF ms = <<>> THEN s
        ELSE [a EXCEPT !.up = a.up \o ms, !.idleness_timer = FALSE]

\* (mutant) Credentials are used without looking at the close count.
UpToDateAlways(s, c) == TRUE

\* The stream was not closed since these credentials were asked for.
UpToDate(s, c) == c = s.close_count

\* An answer to the request for credentials c, which the stream waits for still
\* if they are up to date.
Credentials(s, c) ==
    LET got == [s EXCEPT !.tokens = s.tokens \ {c}]
    IN  IF UpToDate(s, c) THEN HardAssert(got, got.state = "Starting", "NotStarting") ELSE got

\* ResumeStartWithCredentials, OnStreamStart: the connection is there.
Opened(s) == [s EXCEPT !.state = "Open"]

\* Close, up to the notification: timers and connection are gone, outstanding
\* requests for credentials are out of date.
Closed(s, state) ==
    LET a == HardAssert(s, IsStarted(s), "CloseNotStarted")
    IN  [a EXCEPT !.idleness_timer = FALSE, !.close_count = a.close_count + 1,
                  !.up = <<>>, !.down = <<>>, !.state = state]

\* The next message from the server is taken off the wire.
Read(s) == [s EXCEPT !.down = Tail(s.down)]
===============================================================================
