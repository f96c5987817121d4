---------------------------- MODULE OrbitSession ----------------------------
(* One bounded call of an `orbit` child process (plugin/adapter.rs): either  *)
(* `orbit tool run`, whose whole output is read and decoded, or a short      *)
(* JSON-RPC session with `orbit mcp serve`.  The child leads a process       *)
(* group; a helper it starts may hold its pipes, and may have left the       *)
(* group.  Time passes only when the caller has nothing to do: polling is    *)
(* fine compared with the timeout and with the grace after SIGTERM.  Writes  *)
(* to the server are smaller than a pipe, so they never wait.                *)
EXTENDS Integers, Sequences, Procedure

CONSTANTS
    SessionCalls,   \* [kind : {"tool", "mcp"}, helper : {"none", "group", "escaped"}, waitFails : BOOLEAN]
    Timeout,        \* the call's timeout
    Grace,          \* TERMINATION_GRACE
    OutputLimit,    \* ORBIT_OUTPUT_LIMIT, in lines
    QueueLimit,     \* MCP_LINE_QUEUE
    PipeRoom,       \* lines a pipe holds
    MaxLines        \* bound of the model: lines a server writes

ASSUME SessionAssumption ==
    /\ SessionCalls \subseteq
           [kind : {"tool", "mcp"}, helper : {"none", "group", "escaped"}, waitFails : BOOLEAN]
    /\ Timeout \in Nat /\ Grace \in Nat /\ OutputLimit \in Nat

Lines == {"noise", "init", "answer", "error", "bad"}

SessionInit ==
    /\ call \in SessionCalls
    /\ at = "spawned"
    /\ acc = [clock |-> 0, leader |-> "running", helper |-> call.helper, foreign |-> "absent",
              pipe |-> <<>>, written |-> 0, read |-> <<>>, reader |-> "reading", queue |-> <<>>,
              sent |-> TRUE, result |-> "none", until |-> 0]

\* Nobody is left who could write to the child's stdout.
PipeClosed(s) == s.leader # "running" /\ s.helper \notin {"group", "escaped"}
Disconnected(s) == s.reader = "done" /\ s.queue = <<>>

Go(next, s) == at' = next /\ acc' = s /\ UNCHANGED call
Env(s) == acc' = s /\ UNCHANGED <<call, at>>
InSession == at \in {"spawned", "polling", "joining", "init", "call", "explaining", "explained", "finishing",
                     "terminating", "returned"}

---------------------------------------------------------------------------
(* The process group                                                         *)

\* The kernel signals whatever group has the child's number by now.  SIGTERM
\* forces nothing: whoever obeys it takes ServerExits or HelperExits.
killpg(signal, s) ==
    IF s.foreign = "alive" THEN [s EXCEPT !.foreign = "signalled"]
    ELSE IF signal = "KILL" THEN [s EXCEPT !.leader = IF @ = "running" THEN "zombie" ELSE @,
                                           !.helper = IF @ = "group" THEN "dead" ELSE @]
    ELSE s

\* Seeded bug: the group is signalled even after its leader was reaped.
SignalUnchecked(signal, s) == killpg(signal, s)
\* A signal to the whole group, while its leader is unreaped.
signal_group(signal, s) == IF s.leader = "reaped" THEN s ELSE killpg(signal, s)

\* The group is swept before its leader is waited for, once.
reap(s) == IF s.leader = "reaped" THEN s ELSE [signal_group("KILL", s) EXCEPT !.leader = "reaped"]

has_exited(s) == s.leader # "running"

\* SIGTERM, which the leader may ignore, then wait until the grace is over.
Terminate(s) == Go("terminating", [signal_group("TERM", s) EXCEPT !.until = s.clock + Grace])
EndOfGrace ==
    /\ at = "terminating"
    /\ has_exited(acc) \/ call.waitFails \/ acc.clock >= acc.until
    /\ Go("returned", reap(acc))

---------------------------------------------------------------------------
(* orbit tool run                                                            *)

Spawn == at = "spawned" /\ Go(IF call.kind = "tool" THEN "polling" ELSE "init", acc)

PollChild ==
    /\ at = "polling"
    /\ \/ call.waitFails /\ Terminate([acc EXCEPT !.result = "io"])
       \/ ~call.waitFails /\ has_exited(acc) /\ Go("joining", reap(acc))
       \/ ~call.waitFails /\ ~has_exited(acc) /\ acc.clock >= Timeout
          /\ Terminate([acc EXCEPT !.result = "timeout"])

\* join_by: the reader has finished, or the deadline has passed.
join_by == acc.reader = "done" \/ acc.clock >= Timeout

\* The captured output, or why there is none.
Decode(s) ==
    CASE s.reader # "done" /\ s.clock >= Timeout -> {"timeout"}
      [] Len(s.read) > OutputLimit -> {"overflow"}
      [] OTHER -> {"ok", "refused", "bad"}
join_capture ==
    /\ at = "joining"
    /\ join_by
    /\ \E r \in Decode(acc) : Go("returned", [acc EXCEPT !.result = r])

---------------------------------------------------------------------------
(* orbit mcp serve                                                           *)

\* A request reaches the server unless nobody holds the other end of stdin.
Send(s) == IF PipeClosed(s) THEN {FALSE} ELSE IF has_exited(s) THEN BOOLEAN ELSE {TRUE}

\* Whether a line is the response to request id.
IsResponse(id, line) == line = (IF id = 1 THEN "init" ELSE "answer")

\* settle: a response counts only when its request could be written.
Settle(id, s) ==
    IF ~s.sent THEN Go("finishing", [s EXCEPT !.result = "io"])
    ELSE IF id = 1 THEN \E sent \in Send(s) : Go("call", [s EXCEPT !.sent = sent])
    ELSE Go("finishing", [s EXCEPT !.result = "ok"])

\* One turn of the loop of `response`: a queued line is taken even when the
\* deadline has passed.
response(id) ==
    \/ /\ acc.queue # <<>>
       /\ \E line \in {Head(acc.queue)}, s \in {[acc EXCEPT !.queue = Tail(@)]} :
              \/ IsResponse(id, line) /\ Settle(id, s)
              \/ line = "error" /\ id = 2 /\ Go("finishing", [s EXCEPT !.result = "refused"])
              \/ line \in {"bad", "exceeded"} /\ Go("finishing", [s EXCEPT !.result = line])
              \/ ~IsResponse(id, line) /\ line \notin {"bad", "exceeded"} /\ (line # "error" \/ id # 2) /\ Go(at, s)
    \/ Disconnected(acc) /\ Go("explaining", [acc EXCEPT !.result = "closed"])
    \/ acc.queue = <<>> /\ ~Disconnected(acc) /\ acc.clock >= Timeout
       /\ Go("finishing", [acc EXCEPT !.result = "timeout"])

AwaitInitialize == at = "init" /\ response(1)
AwaitAnswer == at = "call" /\ response(2)

\* exit_detail: wait for the exit that explains a closed stdout, reap, and
\* wait for its stderr.
ExplainExit ==
    /\ at = "explaining"
    /\ \/ ~call.waitFails /\ has_exited(acc) /\ Go("explained", reap(acc))
       \/ call.waitFails /\ Go("finishing", acc)
       \/ ~has_exited(acc) /\ acc.clock >= Timeout /\ Go("finishing", acc)
CaptureStderr ==
    /\ at = "explained"
    /\ PipeClosed(acc) \/ acc.clock >= Timeout
    /\ Go("finishing", acc)

\* finish: after an answer, wait for the exit until the deadline; otherwise,
\* and then, terminate.
Finish ==
    /\ at = "finishing"
    /\ \/ acc.result = "ok" /\ acc.clock < Timeout /\ ~call.waitFails /\ has_exited(acc) /\ Go("returned", reap(acc))
       \/ (acc.result # "ok" \/ acc.clock >= Timeout \/ call.waitFails) /\ Terminate(acc)

---------------------------------------------------------------------------
(* The reader thread, the server and the clock                               *)

\* read_bounded and spawn_line_reader: the bytes are counted as they are read.
ReaderReads ==
    /\ InSession /\ acc.reader = "reading" /\ acc.pipe # <<>>
    /\ call.kind = "tool" \/ Len(acc.queue) < QueueLimit
    /\ \E s \in {[acc EXCEPT !.pipe = Tail(@), !.read = Append(@, Head(acc.pipe))]} :
           \/ call.kind = "tool" /\ Env([s EXCEPT !.reader = IF Len(s.read) > OutputLimit THEN "done" ELSE @])
           \/ /\ call.kind = "mcp"
              /\ Env([s EXCEPT !.reader = IF Len(s.read) > OutputLimit THEN "done" ELSE @,
                               !.queue = Append(@, IF Len(s.read) > OutputLimit THEN "exceeded" ELSE Head(acc.pipe))])
ReaderEnds ==
    /\ InSession /\ acc.reader = "reading" /\ acc.pipe = <<>> /\ PipeClosed(acc)
    /\ Env([acc EXCEPT !.reader = "done"])

ServerWrites ==
    /\ InSession /\ acc.leader = "running" /\ acc.reader = "reading"
    /\ Len(acc.pipe) < PipeRoom /\ acc.written < MaxLines
    /\ \E line \in IF call.kind = "tool" THEN {"noise"} ELSE Lines :
           Env([acc EXCEPT !.pipe = Append(@, line), !.written = @ + 1])
ServerExits == InSession /\ acc.leader = "running" /\ Env([acc EXCEPT !.leader = "zombie"])
HelperExits == InSession /\ acc.helper \in {"group", "escaped"} /\ Env([acc EXCEPT !.helper = "dead"])
\* Once the leader is reaped and no member of its group is left, the system may
\* give its number to a new group.
PidReused ==
    /\ InSession /\ acc.leader = "reaped" /\ acc.helper # "group" /\ acc.foreign = "absent"
    /\ Env([acc EXCEPT !.foreign = "alive"])

\* The caller has a step to take.
Ready ==
    CASE at = "spawned" -> TRUE
      [] at = "polling" -> call.waitFails \/ has_exited(acc) \/ acc.clock >= Timeout
      [] at = "joining" -> join_by
      [] at \in {"init", "call"} -> acc.queue # <<>> \/ Disconnected(acc) \/ acc.clock >= Timeout
      [] at = "explaining" -> call.waitFails \/ has_exited(acc) \/ acc.clock >= Timeout
      [] at = "explained" -> PipeClosed(acc) \/ acc.clock >= Timeout
      [] at = "finishing" -> acc.result # "ok" \/ acc.clock >= Timeout \/ call.waitFails \/ has_exited(acc)
      [] at = "terminating" -> has_exited(acc) \/ call.waitFails \/ acc.clock >= acc.until
      [] OTHER -> TRUE
Tick ==
    /\ InSession /\ ~Ready /\ acc.clock <= Timeout + Grace
    /\ Env([acc EXCEPT !.clock = @ + 1])

SessionNext ==
    \/ Spawn \/ PollChild \/ join_capture \/ AwaitInitialize \/ AwaitAnswer \/ ExplainExit \/ CaptureStderr
    \/ Finish \/ EndOfGrace
    \/ ReaderReads \/ ReaderEnds \/ ServerWrites \/ ServerExits \/ HelperExits \/ PidReused \/ Tick

---------------------------------------------------------------------------
(* Properties                                                                *)

\* No call outlives its timeout by more than the grace of SIGTERM, whoever
\* ignores signals, floods stdout, or keeps a pipe open after the child has
\* gone (orbit_json, McpSession, join_by, terminate).
CallsEndInTime == InSession => acc.clock <= Timeout + Grace

\* When a call has returned, its child is reaped and no member of the child's
\* process group runs on; a helper that left the group is out of reach.
GroupIsGone == at = "returned" => acc.leader = "reaped" /\ acc.helper # "group"

\* A process group that was given the reaped child's number is never signalled,
\* however many of the clean-up paths run one after another.
ForeignGroupsUntouched == InSession => acc.foreign # "signalled"

\* A decoded answer of `orbit tool run` is all the child wrote, within the
\* output limit: nothing is decoded while a reader still runs.
OutputIsWhole ==
    at = "returned" /\ call.kind = "tool" /\ acc.result = "ok"
        => acc.pipe = <<>> /\ Len(acc.read) = acc.written /\ acc.written <= OutputLimit

\* An answer taken from `orbit mcp serve` is a response to the call itself and
\* follows the response to initialize; a line of an earlier request, or the
\* server's notifications, are never taken for it.
AnswerIsAsked ==
    InSession /\ call.kind = "mcp" /\ acc.result = "ok"
        => \E i, j \in DOMAIN acc.read : i < j /\ acc.read[i] = "init" /\ acc.read[j] = "answer"

\* A call of Orbit is over in time, leaves no process and touches no foreign
\* one, and what it answers is whole and the answer to the call.
CallsAreContained ==
    CallsEndInTime /\ GroupIsGone /\ ForeignGroupsUntouched /\ OutputIsWhole /\ AnswerIsAsked
=============================================================================
