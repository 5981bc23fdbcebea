------------------------------ MODULE CodeIntel ------------------------------
(***************************************************************************)
(* The code_intel tool: one query at a time, each with a language server   *)
(* of its own (code-intel/service.ts and client.ts).  A query fingerprints *)
(* the workspace file by file, asks the server, fingerprints it again and  *)
(* stops the server.  Files are edited at any time; the server answers     *)
(* late, wrongly or not at all, and may neither exit nor be killed.        *)
(***************************************************************************)
EXTENDS Integers, FiniteSets

CONSTANTS Files, MaxEdits

VARIABLES
  disk,       \* the version of each file, the configuration among them
  op,         \* how far service.active is, or "none"
  before, after,  \* the two snapshots, Unread where a file is not read yet
  seen,       \* the versions the server read for its answer
  pending,    \* the client's pending request, or "none"
  asked,      \* the requests the server has not answered
  server,     \* the language server's process
  failed,     \* client.failure
  aborted, timedOut,
  verdict,    \* what the query returns if the server is stopped
  result,     \* what the last query returned
  shut        \* session_shutdown has called close

vars == <<disk, op, before, after, seen, pending, asked, server, failed, aborted, timedOut, verdict, result, shut>>
connection == <<pending, asked, server, failed>>
signals == <<aborted, timedOut>>

Unread == -1
Nothing == [f \in Files |-> Unread]
Complete(snapshot) == \A f \in Files : snapshot[f] # Unread

Init ==
  /\ disk = [f \in Files |-> 0] /\ op = "none" /\ before = Nothing /\ after = Nothing /\ seen = Nothing
  /\ pending = "none" /\ asked = {} /\ server = "none" /\ failed = FALSE
  /\ aborted = FALSE /\ timedOut = FALSE /\ verdict = "none" /\ result = "none" /\ shut = FALSE

Edit(f) ==
  /\ disk[f] < MaxEdits /\ disk' = [disk EXCEPT ![f] = @ + 1]
  /\ UNCHANGED <<op, before, after, seen, connection, signals, verdict, result, shut>>

\* request: one is pending at a time, though a server may still answer earlier ones.
Ask(r, unanswered) == pending' = r /\ asked' = unanswered \union {r}

\* The query ends as r says once the server is stopped: client.close in run's finally.
\* A connection in order is closed with the shutdown request.
EndsAs(r) ==
  /\ verdict' = r
  /\ IF server = "none" THEN op' = "closed" /\ UNCHANGED <<pending, asked>>
     ELSE /\ op' = "closing"
          /\ IF failed' \/ server' # "running" THEN pending' = "none" /\ asked' = asked
             ELSE Ask("shutdown", asked)

-----------------------------------------------------------------------------
\* run: refused as busy while another query is active.
Call ==
  /\ op = "none" /\ ~shut /\ op' = "config"
  /\ before' = Nothing /\ after' = Nothing /\ seen' = Nothing
  /\ pending' = "none" /\ asked' = {} /\ server' = "none" /\ failed' = FALSE
  /\ aborted' \in BOOLEAN /\ timedOut' = FALSE /\ verdict' = "none" /\ result' = "none"
  /\ UNCHANGED <<disk, shut>>

\* loadConfig, with the status query answered from it.
Configured ==
  /\ op = "config"
  /\ \/ op' = "closed" /\ verdict' \in (IF aborted THEN {} ELSE {"status"}) \union {"error"}
     \/ ~aborted /\ op' = "before" /\ verdict' = verdict
  /\ UNCHANGED <<disk, before, after, seen, connection, signals, result, shut>>

\* snapshot: a file at a time; it may fail, and fails when the query is aborted.
ReadBefore(f) ==
  /\ op = "before" /\ before[f] = Unread /\ ~aborted
  /\ before' = [before EXCEPT ![f] = disk[f]]
  /\ UNCHANGED <<disk, op, after, seen, connection, signals, verdict, result, shut>>

ReadAfter(f) ==
  /\ op = "after" /\ after[f] = Unread /\ ~aborted
  /\ after' = [after EXCEPT ![f] = disk[f]]
  /\ UNCHANGED <<disk, op, before, seen, connection, signals, verdict, result, shut>>

SnapshotFails ==
  /\ op \in {"before", "after"} /\ failed' = failed /\ server' = server /\ EndsAs("error")
  /\ UNCHANGED <<disk, before, after, seen, signals, result, shut>>

\* The server is started, and asked to initialize.
Start ==
  /\ op = "before" /\ Complete(before) /\ ~aborted
  /\ op' = "asking" /\ server' = "running" /\ Ask("initialize", {})
  /\ UNCHANGED <<disk, before, after, seen, failed, signals, verdict, result, shut>>

-----------------------------------------------------------------------------
\* The server reads a file, for the answer it will give.
ServerReads(f) ==
  /\ server = "running" /\ op = "asking" /\ seen[f] = Unread /\ seen' = [seen EXCEPT ![f] = disk[f]]
  /\ UNCHANGED <<disk, op, before, after, connection, signals, verdict, result, shut>>

\* receive: only the answer to a pending request is of use; after initialize the document
\* is opened and the query sent.
Answered(r) ==
  /\ server = "running" /\ r \in asked /\ ~failed
  /\ r = "query" => Complete(seen)
  /\ CASE r # pending -> pending' = pending /\ asked' = asked \ {r} /\ op' = op
       [] r = "initialize" /\ r = pending ->
            Ask("query", asked \ {r}) /\ op' = op
       [] r = "query" /\ r = pending -> pending' = "none" /\ asked' = asked \ {r} /\ op' = "after"
       [] r = "shutdown" /\ r = pending -> pending' = "none" /\ asked' = asked \ {r} /\ op' = op
  /\ UNCHANGED <<disk, before, after, seen, server, failed, signals, verdict, result, shut>>

\* An error for an answer, or an answer that is refused.
AnsweredBadly ==
  /\ server = "running" /\ pending \in asked /\ failed' = failed /\ server' = server
  /\ IF op = "asking" THEN EndsAs("error") ELSE pending' = "none" /\ UNCHANGED <<op, asked, verdict>>
  /\ UNCHANGED <<disk, before, after, seen, signals, result, shut>>

\* fail: the server exits, closes a pipe, or breaks the protocol.
ConnectionFails ==
  /\ server = "running" /\ ~failed /\ failed' = TRUE /\ server' \in {"running", "exited"}
  /\ IF op = "asking" THEN EndsAs("error") ELSE pending' = "none" /\ UNCHANGED <<op, asked, verdict>>
  /\ UNCHANGED <<disk, before, after, seen, signals, result, shut>>

\* The operation's controller: a pending request is canceled, with what it belongs to.
Aborts ==
  /\ aborted' = TRUE /\ UNCHANGED <<server, failed>>
  /\ IF op = "asking" THEN EndsAs("error") ELSE UNCHANGED <<op, pending, asked, verdict>>

\* The caller's signal, the query's deadline, and close at the session's shutdown.
CallerAborts ==
  /\ op # "none" /\ ~aborted /\ Aborts
  /\ UNCHANGED <<disk, before, after, seen, timedOut, result, shut>>

Deadline ==
  /\ op \in {"before", "asking", "after"} /\ ~timedOut /\ timedOut' = TRUE /\ Aborts
  /\ UNCHANGED <<disk, before, after, seen, result, shut>>

Shutdown ==
  /\ ~shut /\ shut' = TRUE
  /\ IF op = "none" THEN UNCHANGED <<op, aborted, connection, verdict>> ELSE Aborts
  /\ UNCHANGED <<disk, before, after, seen, timedOut, result>>

-----------------------------------------------------------------------------
\* Mutant of Compare: the second snapshot is that of the requested file only.
CompareOne ==
  /\ op = "after" /\ (\E f \in Files : after[f] # Unread) /\ failed' = failed /\ server' = server
  /\ EndsAs(IF aborted \/ \A f \in Files : after[f] # before[f] THEN "error" ELSE "ok")
  /\ UNCHANGED <<disk, before, after, seen, signals, result, shut>>

\* The answer counts when both snapshots agree.
Compare ==
  /\ op = "after" /\ Complete(after) /\ failed' = failed /\ server' = server
  /\ EndsAs(IF aborted \/ before # after THEN "error" ELSE "ok")
  /\ UNCHANGED <<disk, before, after, seen, signals, result, shut>>

\* LspClient.shutdown: the request's 500 ms, then the signals.
ShutdownUnanswered ==
  /\ op = "closing" /\ pending = "shutdown" /\ pending' = "none"
  /\ UNCHANGED <<disk, op, before, after, seen, asked, server, failed, signals, verdict, result, shut>>

ServerExits ==
  /\ server \in {"running", "killed"} /\ op = "closing" /\ server' = "exited"
  /\ failed' = TRUE /\ pending' = "none"
  /\ UNCHANGED <<disk, op, before, after, seen, asked, signals, verdict, result, shut>>

Kills ==
  /\ op = "closing" /\ pending = "none" /\ server = "running" /\ server' = "killed"
  /\ UNCHANGED <<disk, op, before, after, seen, pending, asked, failed, signals, verdict, result, shut>>

\* close has resolved, with the exit of the server confirmed or not.
Closed ==
  /\ op = "closing" /\ pending = "none" /\ server \in {"killed", "exited"} /\ op' = "closed"
  /\ verdict' = IF verdict = "ok" /\ (aborted \/ server # "exited") THEN "error" ELSE verdict
  /\ UNCHANGED <<disk, before, after, seen, connection, signals, result, shut>>

Returns ==
  /\ op = "closed" /\ op' = "none" /\ result' = IF verdict = "error" /\ timedOut THEN "timeout" ELSE verdict
  /\ UNCHANGED <<disk, before, after, seen, connection, signals, verdict, shut>>

\* What the code does by itself, its timers included.
Own ==
  \/ Configured \/ Start \/ Compare \/ Kills \/ Closed \/ Returns
  \/ SnapshotFails \/ ShutdownUnanswered \/ Deadline
  \/ \E f \in Files : ReadBefore(f) \/ ReadAfter(f)

Next ==
  \/ Call \/ Own \/ CallerAborts \/ Shutdown \/ AnsweredBadly \/ ConnectionFails \/ ServerExits
  \/ \E f \in Files : Edit(f) \/ ServerReads(f)
  \/ \E r \in asked : Answered(r)

Fairness == WF_vars(Own)
Spec == Init /\ [][Next]_vars /\ Fairness

-----------------------------------------------------------------------------
\* The values the variables take.
TypeOK ==
  /\ disk \in [Files -> 0 .. MaxEdits] /\ {before, after, seen} \subseteq [Files -> Unread .. MaxEdits]
  /\ op \in {"none", "config", "before", "asking", "after", "closing", "closed"}
  /\ pending \in {"none", "initialize", "query", "shutdown"} /\ asked \subseteq {"initialize", "query", "shutdown"}
  /\ server \in {"none", "running", "killed", "exited"}
  /\ {failed, aborted, timedOut, shut} \subseteq BOOLEAN
  /\ verdict \in {"none", "status", "ok", "error"} /\ result \in {"none", "status", "ok", "error", "timeout"}

\* run in service.ts: an answer that is returned was made from the files of the first
\* snapshot, although neither snapshot is taken at one instant.
AnswerFresh == result = "ok" => seen = before

\* run and close: after an abort, or close at the session's end, no server is started or
\* asked anything more; between queries none is left that was not told to end, and after
\* a query that succeeded none is left at all.
ServersStopped ==
  /\ aborted \/ shut => op # "asking"
  /\ op = "none" => server # "running"
  /\ result = "ok" => server = "exited"

Sound == AnswerFresh /\ ServersStopped

\* Every query returns, whatever the server does.
QueryReturns == op # "none" ~> op = "none"
==============================================================================
