--------------------------- MODULE ProcedureProofs ---------------------------
(* Proofs about the procedures that share Procedure's state: each for every  *)
(* call and every value of its constants, by an invariant of its own.        *)
EXTENDS OrbitSession, ReadPolicy, TargetSymbolCache, PluginTools, Snapshots, WellFoundedInduction,
        FiniteSetTheorems, TLAPS

---------------------------------------------------------------------------
(* OrbitSession                                                              *)

Places == {"spawned", "polling", "joining", "init", "call", "explaining", "explained", "finishing",
           "terminating", "returned"}

SessionState ==
    [clock : Nat, leader : {"running", "zombie", "reaped"},
     helper : {"none", "group", "escaped", "dead"}, foreign : {"absent", "alive", "signalled"},
     pipe : Seq(Lines), written : Nat, read : Seq(Lines), reader : {"reading", "done"},
     queue : Seq(Lines \cup {"exceeded"}), sent : BOOLEAN,
     result : {"none", "io", "timeout", "overflow", "ok", "refused", "bad", "exceeded", "closed"}, until : Nat]

SessionTypeOK == call \in SessionCalls /\ at \in Places /\ acc \in SessionState

\* Time passes only where the caller waits, and it waits until its deadline.
ClockInv ==
    /\ at \notin {"terminating", "returned"} => acc.clock <= Timeout
    /\ at = "terminating" => acc.clock <= acc.until /\ acc.until <= Timeout + Grace
    /\ acc.clock <= Timeout + Grace

\* A reaped leader leaves no group, only its number is given away, and the
\* places after a reap.
ReapInv ==
    /\ acc.foreign # "absent" => acc.leader = "reaped"
    /\ ForeignGroupsUntouched
    /\ acc.leader = "reaped" => acc.helper # "group"
    /\ at \in {"joining", "explained", "returned"} => acc.leader = "reaped"

\* What the reader has and what is still in the pipe is what was written; it
\* ends at the limit or at the end of the output.
ReaderInv ==
    /\ acc.written = Len(acc.read) + Len(acc.pipe)
    /\ acc.reader = "done" => Len(acc.read) > OutputLimit \/ (acc.pipe = <<>> /\ acc.leader # "running")

\* Each kind of call has its own places, and only a whole output is decoded.
KindInv ==
    /\ call.kind = "mcp" => at \notin {"polling", "joining"}
    /\ call.kind = "tool" => at \in {"spawned", "polling", "joining", "terminating", "returned"}
    /\ call.kind = "tool" /\ acc.result = "ok" =>
           at = "returned" /\ acc.reader = "done" /\ Len(acc.read) <= OutputLimit

\* The lines that were taken from the queue.
Taken == Len(acc.read) - Len(acc.queue)

\* The queue is the end of what was read, and whoever waits for the answer has
\* taken the response to initialize.
QueueInv ==
    call.kind = "mcp" =>
        /\ Len(acc.queue) <= Len(acc.read)
        /\ \A k \in 1..Len(acc.queue) :
               acc.queue[k] = acc.read[Taken + k] \/ acc.queue[k] = "exceeded"
        /\ at = "call" => \E i \in 1..Taken : acc.read[i] = "init"

SessionInv ==
    SessionTypeOK /\ ClockInv /\ ReapInv /\ ReaderInv /\ KindInv /\ QueueInv /\ AnswerIsAsked

\* A step that moves the caller and may reap: the reader's side is as it was.
Still(s, t) ==
    /\ t \in SessionState
    /\ t.clock = s.clock /\ t.foreign = s.foreign
    /\ t.pipe = s.pipe /\ t.written = s.written /\ t.read = s.read /\ t.reader = s.reader

\* Reaping takes the group along, and only once.
LEMMA ReapEffect ==
    ASSUME NEW s \in SessionState, s.leader = "reaped" => s.helper # "group",
           s.foreign # "absent" => s.leader = "reaped"
    PROVE  /\ reap(s) \in SessionState /\ Still(s, reap(s))
           /\ reap(s).queue = s.queue /\ reap(s).result = s.result
           /\ reap(s).leader = "reaped" /\ reap(s).helper # "group"
  <1>1. CASE s.leader = "reaped"
    BY <1>1 DEF reap, SessionState, Still
  <1>2. CASE s.leader # "reaped"
    BY <1>2 DEF reap, signal_group, killpg, SessionState, Still
  <1> QED  BY <1>1, <1>2

LEMMA SessionInitInv ==
    ASSUME SessionInit
    PROVE  SessionInv
  <1> USE SessionAssumption DEF SessionInit
  <1>1. SessionTypeOK
    BY DEF SessionTypeOK, SessionState, Places
  <1>2. ClockInv /\ ReapInv /\ ReaderInv /\ KindInv
    BY DEF ClockInv, ReapInv, ForeignGroupsUntouched, InSession, ReaderInv, KindInv
  <1>3. QueueInv /\ AnswerIsAsked
    BY DEF QueueInv, AnswerIsAsked, Taken
  <1> QED  BY <1>1, <1>2, <1>3 DEF SessionInv

\* What a caller's step that takes no line from the queue has to show.
LEMMA CallerInv ==
    ASSUME SessionInv, Still(acc, acc'), call' = call, at' \in Places, acc'.queue = acc.queue,
           at' \notin {"terminating", "returned"} => acc.clock <= Timeout,
           at' = "terminating" => acc.clock <= acc'.until /\ acc'.until <= Timeout + Grace,
           acc'.leader = "reaped" => acc'.helper # "group",
           acc.leader # "running" => acc'.leader # "running",
           acc.leader = "reaped" => acc'.leader = "reaped",
           at' \in {"joining", "explained", "returned"} => acc'.leader = "reaped",
           KindInv', at' = "call" => at = "call",
           call.kind = "mcp" /\ acc'.result = "ok" => acc.result = "ok"
    PROVE  SessionInv'
  <1> USE DEF SessionInv, Still
  <1>1. SessionTypeOK' /\ ClockInv' /\ ReapInv'
    BY DEF SessionTypeOK, ClockInv, ReapInv, ForeignGroupsUntouched, InSession, Places
  <1>2. ReaderInv'
    BY DEF ReaderInv
  <1>3. QueueInv'
    BY DEF QueueInv, Taken
  <1>4. AnswerIsAsked'
    BY DEF AnswerIsAsked, SessionTypeOK, InSession, Places
  <1> QED  BY <1>1, <1>2, <1>3, <1>4

\* SIGTERM goes to the child's own group, which may ignore it.
LEMMA TerminateEffect ==
    ASSUME NEW s \in SessionState, Terminate(s), s.clock <= Timeout,
           s.foreign # "absent" => s.leader = "reaped"
    PROVE  /\ call' = call /\ at' = "terminating" /\ Still(s, acc')
           /\ acc'.queue = s.queue /\ acc'.result = s.result /\ acc'.leader = s.leader /\ acc'.helper = s.helper
           /\ acc'.clock <= acc'.until /\ acc'.until <= Timeout + Grace
  <1>1. signal_group("TERM", s) = s
    BY DEF signal_group, killpg
  <1> QED  BY <1>1, SMTT(30), SessionAssumption DEF Terminate, Go, SessionState, Still

\* The steps of orbit tool run.
LEMMA ToolInv ==
    ASSUME SessionInv, PollChild \/ join_capture
    PROVE  SessionInv'
  <1>1. /\ at \in {"polling", "joining"} /\ call \in SessionCalls /\ call' = call
        /\ acc \in SessionState /\ acc.clock <= Timeout /\ call.kind = "tool"
    BY SessionAssumption DEF SessionInv, SessionTypeOK, PollChild, join_capture, Terminate, Go, ClockInv, KindInv
  <1>2. acc.result # "ok" /\ acc.clock \in Nat /\ (acc.leader = "reaped" => acc.helper # "group")
       /\ (acc.foreign # "absent" => acc.leader = "reaped")
    BY <1>1 DEF SessionInv, KindInv, ReapInv, SessionState
  <1>3. CASE at = "polling" /\ has_exited(acc) /\ Go("joining", reap(acc))
    <2>1. /\ Still(acc, acc') /\ acc'.queue = acc.queue /\ acc'.result = acc.result
          /\ acc'.leader = "reaped" /\ acc'.helper # "group" /\ at' = "joining"
      BY <1>1, <1>2, <1>3, ReapEffect DEF Go
    <2>2. KindInv'
      BY <1>1, <1>2, <2>1 DEF KindInv
    <2> QED  BY <1>1, <2>1, <2>2, CallerInv DEF Places
  <1>4. ASSUME at = "polling", NEW r \in {"io", "timeout"}, Terminate([acc EXCEPT !.result = r])
        PROVE  SessionInv'
    <2>1. PICK s : s = [acc EXCEPT !.result = r]
      OBVIOUS
    <2>2. s \in SessionState /\ s.clock <= Timeout /\ s.result = r /\ Still(acc, s) /\ s.queue = acc.queue
          /\ s.leader = acc.leader /\ s.helper = acc.helper
      BY <1>1, <2>1 DEF SessionState, Still
    <2>3. /\ at' = "terminating" /\ Still(acc, acc') /\ acc'.queue = acc.queue /\ acc'.result = r
          /\ acc'.leader = acc.leader /\ acc'.helper = acc.helper
          /\ acc.clock <= acc'.until /\ acc'.until <= Timeout + Grace
      BY <1>2, <1>4, <2>1, <2>2, TerminateEffect DEF Still
    <2>4. KindInv'
      BY <1>1, <2>3 DEF KindInv
    <2> QED  BY <1>1, <1>2, <2>3, <2>4, CallerInv DEF Places
  <1>5. ASSUME at = "joining", join_by, NEW r \in Decode(acc), Go("returned", [acc EXCEPT !.result = r])
        PROVE  SessionInv'
    <2>1. r \in {"timeout", "overflow", "ok", "refused", "bad"}
          /\ (r = "ok" => acc.reader = "done" /\ Len(acc.read) <= OutputLimit)
      BY <1>1, <1>5, SessionAssumption DEF Decode, join_by, SessionState
    <2>2. /\ at' = "returned" /\ Still(acc, acc') /\ acc'.queue = acc.queue /\ acc'.result = r
          /\ acc'.leader = acc.leader /\ acc'.helper = acc.helper
      BY SMTT(30), <1>1, <1>5, <2>1 DEF Go, SessionState, Still
    <2>3. KindInv'
      BY <1>1, <2>1, <2>2 DEF KindInv, Still
    <2>4. acc.leader = "reaped"
      BY <1>5 DEF SessionInv, ReapInv
    <2> QED  BY <1>1, <1>2, <2>2, <2>3, <2>4, CallerInv DEF Places
  <1> QED  BY <1>3, <1>4, <1>5 DEF PollChild, join_capture

\* The steps of both kinds of call that take no line.
LEMMA EndingInv ==
    ASSUME SessionInv, Spawn \/ ExplainExit \/ CaptureStderr \/ Finish \/ EndOfGrace
    PROVE  SessionInv'
  <1>1. /\ call \in SessionCalls /\ call' = call /\ call.kind \in {"tool", "mcp"}
        /\ acc \in SessionState /\ acc.clock \in Nat /\ (acc.leader = "reaped" => acc.helper # "group")
        /\ (acc.foreign # "absent" => acc.leader = "reaped")
    BY SessionAssumption DEF SessionInv, SessionTypeOK, Spawn, ExplainExit, CaptureStderr, Finish, EndOfGrace,
       Terminate, Go, ReapInv, SessionState
  <1>2. Still(acc, acc)
    BY <1>1 DEF Still
  <1>3. CASE Spawn
    <2>1. acc' = acc /\ at = "spawned" /\ at' = IF call.kind = "tool" THEN "polling" ELSE "init"
      BY <1>3 DEF Spawn, Go
    <2>2. acc.clock <= Timeout /\ KindInv'
      BY <1>1, <2>1 DEF SessionInv, ClockInv, KindInv
    <2> QED  BY <1>1, <1>2, <2>1, <2>2, CallerInv DEF Places
  <1>4. ASSUME NEW from \in {"explaining", "explained"}, at = from, Go("finishing", acc)
        PROVE  SessionInv'
    <2>1. acc' = acc /\ at' = "finishing" /\ acc.clock <= Timeout /\ call.kind = "mcp"
      BY <1>1, <1>4 DEF Go, SessionInv, ClockInv, KindInv
    <2>2. KindInv'
      BY <1>1, <2>1 DEF KindInv
    <2> QED  BY <1>1, <1>2, <1>4, <2>1, <2>2, CallerInv DEF Places
  <1>5. ASSUME NEW to, Go(to, reap(acc)),
               \/ at = "explaining" /\ to = "explained"
               \/ at \in {"finishing", "terminating"} /\ to = "returned"
        PROVE  SessionInv'
    <2>1. /\ Still(acc, acc') /\ acc'.queue = acc.queue /\ acc'.result = acc.result
          /\ acc'.leader = "reaped" /\ acc'.helper # "group" /\ at' = to
      BY <1>1, <1>5, ReapEffect DEF Go
    <2>2. KindInv' /\ (to = "explained" => acc.clock <= Timeout)
      BY <1>1, <1>5, <2>1 DEF SessionInv, KindInv, ClockInv, Still
    <2> QED  BY <1>1, <1>5, <2>1, <2>2, CallerInv DEF Places
  <1>6. CASE at = "finishing" /\ Terminate(acc)
    <2>1. acc.clock <= Timeout /\ call.kind = "mcp"
      BY <1>1, <1>6 DEF SessionInv, ClockInv, KindInv
    <2>2. /\ at' = "terminating" /\ Still(acc, acc') /\ acc'.queue = acc.queue /\ acc'.result = acc.result
          /\ acc'.leader = acc.leader /\ acc'.helper = acc.helper
          /\ acc.clock <= acc'.until /\ acc'.until <= Timeout + Grace
      BY <1>1, <1>6, <2>1, TerminateEffect DEF Still
    <2>3. KindInv'
      BY <1>1, <2>1, <2>2 DEF KindInv
    <2> QED  BY <1>1, <1>6, <2>1, <2>2, <2>3, CallerInv DEF Places
  <1> QED  BY <1>3, <1>4, <1>5, <1>6 DEF ExplainExit, CaptureStderr, Finish, EndOfGrace

\* A line is taken from the queue: what stays is still the end of what was read.
LEMMA TakeLine ==
    ASSUME SessionInv, call.kind = "mcp", acc.queue # <<>>,
           NEW s, s = [acc EXCEPT !.queue = Tail(@)]
    PROVE  /\ Still(acc, s) /\ s.result = acc.result /\ s.leader = acc.leader /\ s.helper = acc.helper
           /\ Len(s.queue) = Len(acc.queue) - 1 /\ Len(acc.queue) \in Nat /\ Len(acc.read) \in Nat
           /\ Len(s.queue) <= Len(acc.read)
           /\ \A k \in 1..Len(s.queue) :
                  s.queue[k] = acc.read[Taken + 1 + k] \/ s.queue[k] = "exceeded"
           /\ Taken + 1 \in 1..Len(acc.read)
           /\ Head(acc.queue) = acc.read[Taken + 1] \/ Head(acc.queue) = "exceeded"
  <1>1. acc \in SessionState /\ acc.queue \in Seq(Lines \cup {"exceeded"}) /\ acc.read \in Seq(Lines)
    BY DEF SessionInv, SessionTypeOK, SessionState
  <1>2. /\ s.queue = Tail(acc.queue) /\ Still(acc, s) /\ s.result = acc.result /\ s.leader = acc.leader
        /\ s.helper = acc.helper
    <2>1. Tail(acc.queue) \in Seq(Lines \cup {"exceeded"})
      BY <1>1
    <2> QED  BY <1>1, <2>1 DEF SessionState, Still
  <1>3. /\ Len(acc.queue) \in Nat /\ Len(acc.read) \in Nat /\ Len(acc.queue) >= 1
        /\ Len(s.queue) = Len(acc.queue) - 1 /\ Head(acc.queue) = acc.queue[1]
        /\ \A k \in 1..Len(s.queue) : s.queue[k] = acc.queue[k + 1]
    BY <1>1, <1>2
  <1>4. /\ Len(acc.queue) <= Len(acc.read)
        /\ \A k \in 1..Len(acc.queue) : acc.queue[k] = acc.read[Taken + k] \/ acc.queue[k] = "exceeded"
    BY DEF SessionInv, QueueInv
  <1>5. /\ Taken \in Int /\ Taken + 1 \in 1..Len(acc.read)
    <2>1. \A r, q \in Nat : q >= 1 /\ q <= r => r - q \in Int /\ (r - q) + 1 \in 1..r
      OBVIOUS
    <2> QED  BY <1>3, <1>4, <2>1 DEF Taken
  <1>6. \A k \in 1..Len(s.queue) : s.queue[k] = acc.read[Taken + 1 + k] \/ s.queue[k] = "exceeded"
    <2> TAKE k \in 1..Len(s.queue)
    <2>1. k + 1 \in 1..Len(acc.queue) /\ s.queue[k] = acc.queue[k + 1]
      BY <1>3
    <2>2. Taken + (k + 1) = Taken + 1 + k
      BY <1>3, <1>5
    <2> QED  BY <1>4, <2>1, <2>2
  <1> QED  BY <1>2, <1>3, <1>4, <1>5, <1>6

\* What a step that takes a line has to show.
LEMMA TakenInv ==
    ASSUME SessionInv, call' = call, at \in {"init", "call"}, acc.queue # <<>>,
           NEW s, s = [acc EXCEPT !.queue = Tail(@)], Still(s, acc'), acc'.queue = s.queue,
           at' \in {"init", "call", "finishing"}, acc'.leader = acc.leader, acc'.helper = acc.helper,
           at' = "call" => at = "call" \/ Head(acc.queue) = "init",
           acc'.result = "ok" => acc.result = "ok" \/ (at = "call" /\ Head(acc.queue) = "answer")
    PROVE  SessionInv'
  <1>1. /\ call \in SessionCalls /\ call.kind = "mcp" /\ acc.clock <= Timeout
    BY SessionAssumption DEF SessionInv, SessionTypeOK, ClockInv, KindInv
  <1>2. /\ acc'.clock = acc.clock /\ acc'.pipe = acc.pipe /\ acc'.written = acc.written /\ acc'.read = acc.read
        /\ acc'.reader = acc.reader /\ acc'.foreign = acc.foreign /\ acc' \in SessionState
    BY <1>1, TakeLine DEF Still
  <1>3. /\ Len(acc'.queue) = Len(acc.queue) - 1 /\ Len(acc.queue) \in Nat /\ Len(acc.read) \in Nat
        /\ Len(acc'.queue) <= Len(acc.read)
        /\ \A k \in 1..Len(acc'.queue) :
               acc'.queue[k] = acc.read[Taken + 1 + k] \/ acc'.queue[k] = "exceeded"
        /\ Taken + 1 \in 1..Len(acc.read)
        /\ Head(acc.queue) = acc.read[Taken + 1] \/ Head(acc.queue) = "exceeded"
    <2>1. PICK q : q = s.queue
      OBVIOUS
    <2>2. /\ Len(q) = Len(acc.queue) - 1 /\ Len(acc.queue) \in Nat /\ Len(acc.read) \in Nat
          /\ Len(q) <= Len(acc.read)
          /\ \A k \in 1..Len(q) : q[k] = acc.read[Taken + 1 + k] \/ q[k] = "exceeded"
          /\ Taken + 1 \in 1..Len(acc.read)
          /\ Head(acc.queue) = acc.read[Taken + 1] \/ Head(acc.queue) = "exceeded"
      BY <1>1, <2>1, TakeLine, Zenon
    <2>3. acc'.queue = q
      BY <2>1
    <2> QED  BY ONLY <2>2, <2>3
  <1>4. Taken' = Taken + 1 /\ Taken \in Int
    <2>1. \A r, q \in Nat : r - (q - 1) = (r - q) + 1 /\ r - q \in Int
      OBVIOUS
    <2> QED  BY <1>2, <1>3, <2>1 DEF Taken
  <1>5. SessionTypeOK' /\ ClockInv' /\ ReapInv' /\ ReaderInv' /\ KindInv'
    BY <1>1, <1>2 DEF SessionInv, SessionTypeOK, Places, ClockInv, ReapInv, ForeignGroupsUntouched, InSession,
       ReaderInv, KindInv
  <1>6. at = "call" => \E i \in 1..Taken : acc.read[i] = "init"
    BY <1>1 DEF SessionInv, QueueInv
  <1>7. QueueInv'
    <2>1. at' = "call" => \E i \in 1..(Taken + 1) : acc.read[i] = "init"
      <3>1. CASE at = "call"
        BY <1>4, <1>6, <3>1
      <3>2. CASE Head(acc.queue) = "init"
        BY <1>3, <1>4, <3>2
      <3> QED  BY <3>1, <3>2
    <2> QED  BY <1>1, <1>2, <1>3, <1>4, <2>1 DEF QueueInv
  <1>8. AnswerIsAsked'
    <2>1. CASE acc.result = "ok"
      BY <1>1, <1>2, <2>1 DEF SessionInv, AnswerIsAsked, InSession
    <2>2. CASE at = "call" /\ Head(acc.queue) = "answer"
      <3>1. PICK i \in 1..Taken : acc.read[i] = "init"
        BY <1>6, <2>2
      <3>2. acc.read[Taken + 1] = "answer" /\ i < Taken + 1
        BY <1>3, <1>4, <2>2
      <3>3. i \in DOMAIN acc.read /\ Taken + 1 \in DOMAIN acc.read
        <4>1. acc.read \in Seq(Lines)
          BY DEF SessionInv, SessionTypeOK, SessionState
        <4>2. DOMAIN acc.read = 1..Len(acc.read)
          BY <4>1
        <4> QED  BY <1>3, <1>4, <4>2
      <3> QED  BY <1>2, <3>1, <3>2, <3>3 DEF AnswerIsAsked
    <2>3. CASE acc'.result # "ok"
      BY <2>3 DEF AnswerIsAsked
    <2> QED  BY <2>1, <2>2, <2>3
  <1> QED  BY <1>5, <1>7, <1>8 DEF SessionInv

\* The steps that wait for a response.
LEMMA ResponseInv ==
    ASSUME SessionInv, AwaitInitialize \/ AwaitAnswer
    PROVE  SessionInv'
  <1>1. PICK id \in {1, 2} : response(id) /\ at = (IF id = 1 THEN "init" ELSE "call")
    BY DEF AwaitInitialize, AwaitAnswer
  <1>2. /\ call \in SessionCalls /\ call.kind = "mcp" /\ acc.clock <= Timeout /\ acc \in SessionState
    BY <1>1, SessionAssumption DEF SessionInv, SessionTypeOK, ClockInv, KindInv
  <1>3. ASSUME NEW to \in {"explaining", "finishing"}, NEW r \in {"closed", "timeout"},
               Go(to, [acc EXCEPT !.result = r])
        PROVE  SessionInv'
    <2>1. /\ call' = call /\ at' = to /\ Still(acc, acc') /\ acc'.queue = acc.queue /\ acc'.result = r
          /\ acc'.leader = acc.leader /\ acc'.helper = acc.helper
      BY <1>2, <1>3 DEF Go, SessionState, Still
    <2>2. KindInv' /\ (acc.leader = "reaped" => acc.helper # "group")
      BY <1>2, <2>1 DEF KindInv, SessionInv, ReapInv
    <2> QED  BY <1>2, <2>1, <2>2, CallerInv DEF Places
  <1>4. CASE acc.queue # <<>>
    <2>1. PICK s : s = [acc EXCEPT !.queue = Tail(@)]
      OBVIOUS
    <2>2. s \in SessionState /\ Still(acc, s) /\ s.result = acc.result /\ s.leader = acc.leader /\ s.helper = acc.helper
      BY <1>2, <1>4, <2>1, TakeLine DEF Still
    <2>3. ASSUME NEW r \in {"io", "ok", "refused", "bad", "exceeded"}, Go("finishing", [s EXCEPT !.result = r]),
                 r = "ok" => id = 2 /\ Head(acc.queue) = "answer"
          PROVE  SessionInv'
      <3>1. /\ call' = call /\ at' = "finishing" /\ Still(s, acc') /\ acc'.queue = s.queue /\ acc'.result = r
            /\ acc'.leader = acc.leader /\ acc'.helper = acc.helper
        BY <2>2, <2>3 DEF Go, SessionState, Still
      <3>2. acc'.result = "ok" => acc.result = "ok" \/ (at = "call" /\ Head(acc.queue) = "answer")
        BY <1>1, <2>3, <3>1
      <3>3. at \in {"init", "call"}
        BY <1>1
      <3> QED  BY <1>4, <2>1, <3>1, <3>2, <3>3, TakenInv
    <2>4. ASSUME NEW b \in BOOLEAN, Go("call", [s EXCEPT !.sent = b]), Head(acc.queue) = "init"
          PROVE  SessionInv'
      <3>1. /\ call' = call /\ at' = "call" /\ Still(s, acc') /\ acc'.queue = s.queue /\ acc'.result = acc.result
            /\ acc'.leader = acc.leader /\ acc'.helper = acc.helper
        BY <2>2, <2>4 DEF Go, SessionState, Still
      <3> QED  BY <1>1, <1>4, <2>1, <2>4, <3>1, TakenInv
    <2>5. CASE Go(at, s)
      <3>1. call' = call /\ at' = at /\ acc' = s /\ Still(s, s)
        BY <2>2, <2>5 DEF Go, Still
      <3> QED  BY <1>1, <1>4, <2>1, <2>2, <3>1, TakenInv
    <2>6. PICK line : line = Head(acc.queue) /\
              \/ IsResponse(id, line) /\ Settle(id, s)
              \/ line = "error" /\ id = 2 /\ Go("finishing", [s EXCEPT !.result = "refused"])
              \/ line \in {"bad", "exceeded"} /\ Go("finishing", [s EXCEPT !.result = line])
              \/ Go(at, s)
      BY <1>1, <1>4, <2>1 DEF response, Disconnected
    <2>7. CASE IsResponse(id, line) /\ Settle(id, s)
      <3>1. line = IF id = 1 THEN "init" ELSE "answer"
        BY <2>7 DEF IsResponse
      <3>2. \A b \in Send(s) : b \in BOOLEAN
        BY DEF Send
      <3>3. CASE ~s.sent
        BY <2>3, <2>7, <3>3 DEF Settle
      <3>4. CASE s.sent /\ id = 1
        BY <2>4, <2>6, <2>7, <3>1, <3>2, <3>4 DEF Settle
      <3>5. CASE s.sent /\ id # 1
        <4>1. Go("finishing", [s EXCEPT !.result = "ok"])
          BY <2>7, <3>5 DEF Settle
        <4> QED  BY <2>3, <2>6, <3>1, <3>5, <4>1
      <3> QED  BY <3>3, <3>4, <3>5
    <2> QED  BY <2>3, <2>5, <2>6, <2>7
  <1> QED  BY <1>1, <1>3, <1>4 DEF response

\* The reader moves a line from the pipe to what it has read, and to the queue.
LEMMA ReadsInv ==
    ASSUME SessionInv, ReaderReads
    PROVE  SessionInv'
  <1>1. /\ call \in SessionCalls /\ call' = call /\ at' = at /\ at \in Places /\ acc \in SessionState
        /\ acc.reader = "reading" /\ acc.pipe # <<>> /\ call.kind \in {"tool", "mcp"}
    BY SessionAssumption DEF SessionInv, SessionTypeOK, ReaderReads, Env
  <1>2. /\ acc.pipe \in Seq(Lines) /\ acc.read \in Seq(Lines) /\ acc.queue \in Seq(Lines \cup {"exceeded"})
        /\ acc.written \in Nat
    BY <1>1 DEF SessionState
  <1>3. PICK h, p, r : h = Head(acc.pipe) /\ p = Tail(acc.pipe) /\ r = Append(acc.read, h)
    OBVIOUS
  <1>4. /\ h \in Lines /\ p \in Seq(Lines) /\ r \in Seq(Lines) /\ Len(p) = Len(acc.pipe) - 1
        /\ Len(r) = Len(acc.read) + 1 /\ Len(acc.pipe) \in Nat /\ Len(acc.read) \in Nat /\ Len(acc.queue) \in Nat
        /\ r[Len(acc.read) + 1] = h /\ \A i \in 1..Len(acc.read) : r[i] = acc.read[i]
    BY <1>1, <1>2, <1>3
  <1>5. PICK s : s = [acc EXCEPT !.pipe = Tail(@), !.read = Append(@, Head(acc.pipe))]
    OBVIOUS
  <1>6. /\ s \in SessionState /\ s.clock = acc.clock /\ s.leader = acc.leader /\ s.helper = acc.helper
        /\ s.pipe = p /\ s.read = r /\ s.written = acc.written /\ s.result = acc.result /\ s.until = acc.until
        /\ s.queue = acc.queue /\ s.reader = "reading" /\ s.foreign = acc.foreign
    BY <1>1, <1>3, <1>4, <1>5 DEF SessionState
  <1>7. PICK e, q :
            /\ e \in {"reading", "done"} /\ (e = "done" => Len(r) > OutputLimit)
            /\ \/ call.kind = "tool" /\ q = acc.queue
               \/ call.kind = "mcp" /\ \E x \in {h, "exceeded"} : q = Append(acc.queue, x)
            /\ acc' = [s EXCEPT !.reader = e, !.queue = q]
    <2>1. \/ call.kind = "tool" /\ acc' = [s EXCEPT !.reader = IF Len(r) > OutputLimit THEN "done" ELSE "reading"]
          \/ /\ call.kind = "mcp"
             /\ acc' = [s EXCEPT !.reader = IF Len(r) > OutputLimit THEN "done" ELSE "reading",
                                 !.queue = Append(acc.queue, IF Len(r) > OutputLimit THEN "exceeded" ELSE h)]
      <3>1. \/ call.kind = "tool" /\ acc' = [s EXCEPT !.reader = IF Len(s.read) > OutputLimit THEN "done" ELSE s.reader]
            \/ /\ call.kind = "mcp"
               /\ acc' = [s EXCEPT !.reader = IF Len(s.read) > OutputLimit THEN "done" ELSE s.reader,
                      !.queue = Append(s.queue, IF Len(s.read) > OutputLimit THEN "exceeded" ELSE Head(acc.pipe))]
        BY <1>5 DEF ReaderReads, Env
      <3>2. s.read = r /\ s.reader = "reading" /\ s.queue = acc.queue /\ Head(acc.pipe) = h
        BY <1>3, <1>6
      <3> HIDE DEF SessionState
      <3> QED  BY ONLY <3>1, <3>2
    <2>2. CASE /\ call.kind = "tool"
               /\ acc' = [s EXCEPT !.reader = IF Len(r) > OutputLimit THEN "done" ELSE "reading"]
      <3>1. acc' = [s EXCEPT !.reader = IF Len(r) > OutputLimit THEN "done" ELSE "reading", !.queue = acc.queue]
        BY <1>6, <2>2 DEF SessionState
      <3> QED  BY <2>2, <3>1
    <2> QED  BY <2>1, <2>2
  <1>8. q \in Seq(Lines \cup {"exceeded"})
    <2>1. CASE q = acc.queue
      BY <1>2, <2>1
    <2>2. ASSUME NEW x \in {h, "exceeded"}, q = Append(acc.queue, x)
          PROVE  q \in Seq(Lines \cup {"exceeded"})
      <3>1. x \in Lines \cup {"exceeded"}
        BY <1>4
      <3> QED  BY <1>2, <2>2, <3>1
    <2> QED  BY <1>7, <2>1, <2>2
  <1>9. /\ acc' \in SessionState /\ acc'.clock = acc.clock /\ acc'.leader = acc.leader /\ acc'.helper = acc.helper
        /\ acc'.pipe = p /\ acc'.read = r /\ acc'.written = acc.written /\ acc'.result = acc.result
        /\ acc'.until = acc.until /\ acc'.queue = q /\ acc'.reader = e /\ acc'.foreign = acc.foreign
    BY <1>6, <1>7, <1>8 DEF SessionState
  <1>10. SessionTypeOK' /\ ClockInv' /\ ReapInv'
    BY <1>1, <1>9 DEF SessionInv, SessionTypeOK, ClockInv, ReapInv, ForeignGroupsUntouched, InSession
  <1>11. ReaderInv'
    <2>1. acc.written = Len(acc.read) + Len(acc.pipe)
      BY DEF SessionInv, ReaderInv
    <2>2. acc.written = Len(r) + Len(p)
      <3>1. \A a, b \in Nat : a + b = (a + 1) + (b - 1)
        OBVIOUS
      <3> QED  BY <1>4, <2>1, <3>1
    <2> QED  BY <1>7, <1>9, <2>2 DEF ReaderInv
  <1>12. KindInv'
    BY <1>1, <1>9 DEF SessionInv, KindInv
  <1>13. ASSUME call.kind = "mcp"
         PROVE  QueueInv'
    <2>1. PICK x \in {h, "exceeded"} : q = Append(acc.queue, x)
      BY <1>7, <1>13
    <2>2. /\ Len(q) = Len(acc.queue) + 1 /\ q[Len(acc.queue) + 1] = x
          /\ \A k \in 1..Len(acc.queue) : q[k] = acc.queue[k]
      BY <1>2, <1>4, <2>1
    <2>3. /\ Len(acc.queue) <= Len(acc.read)
          /\ \A k \in 1..Len(acc.queue) : acc.queue[k] = acc.read[Taken + k] \/ acc.queue[k] = "exceeded"
          /\ at = "call" => \E i \in 1..Taken : acc.read[i] = "init"
      BY <1>13 DEF SessionInv, QueueInv
    <2>4. Taken' = Taken /\ Taken \in 0..Len(acc.read) /\ Taken + (Len(acc.queue) + 1) = Len(acc.read) + 1
      <3>1. \A a, b \in Nat : b <= a => /\ (a + 1) - (b + 1) = a - b /\ a - b \in 0..a
                                        /\ (a - b) + (b + 1) = a + 1
        OBVIOUS
      <3>2. Len(acc.read) \in Nat /\ Len(acc.queue) \in Nat /\ Len(acc.queue) <= Len(acc.read)
        BY <1>4, <2>2, <2>3
      <3>3. Taken' = (Len(acc.read) + 1) - (Len(acc.queue) + 1)
        BY <1>4, <1>9, <2>2 DEF Taken
      <3>4. /\ (Len(acc.read) + 1) - (Len(acc.queue) + 1) = Taken /\ Taken \in 0..Len(acc.read)
            /\ Taken + (Len(acc.queue) + 1) = Len(acc.read) + 1
        BY <3>1, <3>2 DEF Taken
      <3> QED  BY <3>3, <3>4
    <2>5. \A k \in 1..Len(q) : q[k] = r[Taken + k] \/ q[k] = "exceeded"
      <3> TAKE k \in 1..Len(q)
      <3>1. CASE k = Len(acc.queue) + 1
        BY <1>4, <2>1, <2>2, <2>4, <3>1
      <3>2. CASE k \in 1..Len(acc.queue)
        <4>1. Taken + k \in 1..Len(acc.read)
          <5>1. \A a, b, j \in Nat : b <= a /\ j \in 1..b => (a - b) + j \in 1..a
            OBVIOUS
          <5>2. k \in Nat /\ Taken = Len(acc.read) - Len(acc.queue)
            BY <3>2 DEF Taken
          <5> QED  BY <1>4, <2>3, <3>2, <5>1, <5>2
        <4> QED  BY <1>4, <2>2, <2>3, <3>2, <4>1
      <3>3. k = Len(acc.queue) + 1 \/ k \in 1..Len(acc.queue)
        BY <1>4, <2>2
      <3> QED  BY <3>1, <3>2, <3>3
    <2>6. ASSUME at = "call"
          PROVE  \E i \in 1..Taken : r[i] = "init"
      <3>1. PICK i \in 1..Taken : acc.read[i] = "init"
        BY <2>3, <2>6
      <3>2. i \in 1..Len(acc.read)
        BY <1>4, <2>4
      <3> QED  BY <1>4, <3>1, <3>2
    <2> QED  BY <1>1, <1>4, <1>9, <2>2, <2>3, <2>4, <2>5, <2>6 DEF QueueInv
  <1>14. QueueInv'
    BY <1>1, <1>13 DEF QueueInv
  <1>15. AnswerIsAsked'
    <2>1. DOMAIN acc.read = 1..Len(acc.read) /\ DOMAIN r = 1..(Len(acc.read) + 1)
      BY <1>2, <1>4
    <2>2. \A i \in DOMAIN acc.read : i \in DOMAIN r /\ r[i] = acc.read[i]
      BY <1>4, <2>1
    <2> QED  BY <1>1, <1>9, <2>2 DEF SessionInv, AnswerIsAsked, InSession
  <1> QED  BY <1>10, <1>11, <1>12, <1>14, <1>15 DEF SessionInv

\* The other steps of the child, its helper, the reader and the clock.
LEMMA AroundInv ==
    ASSUME SessionInv,
           ReaderEnds \/ ServerWrites \/ ServerExits \/ HelperExits \/ PidReused \/ Tick
    PROVE  SessionInv'
  <1>1. /\ call \in SessionCalls /\ call' = call /\ at' = at /\ at \in Places /\ acc \in SessionState
    BY DEF SessionInv, SessionTypeOK, ReaderEnds, ServerWrites, ServerExits, HelperExits, PidReused, Tick, Env
  <1>2. /\ acc'.read = acc.read /\ acc'.queue = acc.queue /\ acc'.result = acc.result /\ acc'.until = acc.until
        /\ acc'.clock = acc.clock \/ (Tick /\ acc'.clock = acc.clock + 1)
    BY <1>1 DEF ReaderEnds, ServerWrites, ServerExits, HelperExits, PidReused, Tick, Env, SessionState
  <1>3. acc' \in SessionState
    <2>1. CASE ServerWrites
      <3>1. PICK line \in Lines : acc' = [acc EXCEPT !.pipe = Append(@, line), !.written = @ + 1]
        BY <2>1 DEF ServerWrites, Env, Lines
      <3>2. Append(acc.pipe, line) \in Seq(Lines) /\ acc.written + 1 \in Nat
        BY <1>1, <3>1 DEF SessionState
      <3> QED  BY <1>1, <3>1, <3>2 DEF SessionState
    <2>2. CASE Tick
      <3>1. acc.clock + 1 \in Nat
        BY <1>1 DEF SessionState
      <3> QED  BY <1>1, <2>2, <3>1 DEF Tick, Env, SessionState
    <2>3. CASE ReaderEnds
      BY <1>1, <2>3 DEF ReaderEnds, Env, SessionState
    <2>4. CASE ServerExits
      BY <1>1, <2>4 DEF ServerExits, Env, SessionState
    <2>5. CASE HelperExits
      BY <1>1, <2>5 DEF HelperExits, Env, SessionState
    <2>6. CASE PidReused
      BY <1>1, <2>6 DEF PidReused, Env, SessionState
    <2> QED  BY <2>1, <2>2, <2>3, <2>4, <2>5, <2>6
  <1>4. SessionTypeOK' /\ QueueInv' /\ AnswerIsAsked'
    BY <1>1, <1>2, <1>3 DEF SessionInv, SessionTypeOK, QueueInv, Taken, AnswerIsAsked, InSession
  <1>5. ClockInv'
    <2>1. acc.clock \in Nat /\ acc.until \in Nat
      BY <1>1 DEF SessionState
    <2>2. CASE acc'.clock = acc.clock
      BY <1>1, <1>2, <2>2 DEF SessionInv, ClockInv
    <2>3. CASE Tick /\ acc'.clock = acc.clock + 1
      <3>1. /\ ~Ready /\ at # "returned" /\ at # "spawned"
            /\ at = "terminating" => ~(acc.clock >= acc.until)
            /\ at # "terminating" => ~(acc.clock >= Timeout)
        BY <1>1, <2>3 DEF Tick, Ready, Places, join_by
      <3> QED  BY <1>1, <1>2, <2>1, <2>3, <3>1, SessionAssumption DEF SessionInv, ClockInv
    <2> QED  BY <1>2, <2>2, <2>3
  <1>6. ReapInv' /\ KindInv' /\ ReaderInv'
    <2> USE DEF ForeignGroupsUntouched, InSession
    <2>1. CASE ReaderEnds
      BY <1>1, <1>2, <2>1 DEF ReaderEnds, Env, SessionState, SessionInv, ReapInv, KindInv, ReaderInv, PipeClosed
    <2>2. CASE ServerWrites
      <3>1. PICK line : acc' = [acc EXCEPT !.pipe = Append(@, line), !.written = @ + 1] /\ line \in Lines
        BY <2>2 DEF ServerWrites, Env, Lines
      <3>2. /\ acc'.pipe = Append(acc.pipe, line) /\ acc'.written = acc.written + 1 /\ acc'.leader = acc.leader
            /\ acc'.helper = acc.helper /\ acc'.foreign = acc.foreign
            /\ acc'.reader = acc.reader /\ acc.reader = "reading"
        BY <1>1, <2>2, <3>1 DEF SessionState, ServerWrites
      <3>3. Len(Append(acc.pipe, line)) = Len(acc.pipe) + 1 /\ Len(acc.pipe) \in Nat /\ Len(acc.read) \in Nat
        BY <1>1, <3>1 DEF SessionState
      <3>4. acc.written = Len(acc.read) + Len(acc.pipe)
        BY DEF SessionInv, ReaderInv
      <3>5. acc'.written = Len(acc'.read) + Len(acc'.pipe)
        <4>1. \A a, b \in Nat : (a + b) + 1 = a + (b + 1)
          OBVIOUS
        <4> QED  BY <1>2, <3>2, <3>3, <3>4, <4>1
      <3> QED  BY <1>1, <1>2, <3>2, <3>5 DEF SessionInv, ReapInv, KindInv, ReaderInv
    <2>3. CASE ServerExits \/ HelperExits \/ PidReused \/ Tick
      <3>1. /\ acc'.pipe = acc.pipe /\ acc'.written = acc.written /\ acc'.reader = acc.reader
            /\ acc'.leader = acc.leader \/ (acc.leader = "running" /\ acc'.leader = "zombie")
            /\ acc'.helper = acc.helper \/ acc'.helper = "dead"
            /\ acc'.foreign = acc.foreign \/ (acc.leader = "reaped" /\ acc'.foreign = "alive")
        BY <1>1, <2>3 DEF ServerExits, HelperExits, PidReused, Tick, Env, SessionState
      <3> QED  BY <1>1, <1>2, <3>1 DEF SessionInv, ReapInv, KindInv, ReaderInv
    <2> QED  BY <2>1, <2>2, <2>3
  <1> QED  BY <1>4, <1>5, <1>6 DEF SessionInv

LEMMA SessionStep ==
    ASSUME SessionInv, [SessionNext]_vars
    PROVE  SessionInv'
  <1>1. CASE UNCHANGED vars
    <2>1. UNCHANGED <<call, at, acc>>
      BY <1>1 DEF vars
    <2>2. SessionTypeOK' /\ ClockInv'
      BY <2>1 DEF SessionInv, SessionTypeOK, ClockInv
    <2>3. ReapInv' /\ ReaderInv' /\ KindInv'
      BY <2>1 DEF SessionInv, ReapInv, ForeignGroupsUntouched, InSession, ReaderInv, KindInv
    <2>4. QueueInv' /\ AnswerIsAsked'
      BY <2>1 DEF SessionInv, QueueInv, Taken, AnswerIsAsked, InSession
    <2> QED  BY <2>2, <2>3, <2>4 DEF SessionInv
  <1> QED  BY <1>1, ToolInv, EndingInv, ResponseInv, ReadsInv, AroundInv DEF SessionNext

LEMMA SessionInvSafe ==
    ASSUME SessionInv
    PROVE  CallsAreContained
  <1>1. CallsEndInTime /\ GroupIsGone /\ ForeignGroupsUntouched
    BY DEF SessionInv, SessionTypeOK, SessionState, ClockInv, ReapInv, CallsEndInTime, GroupIsGone,
       ForeignGroupsUntouched
  <1>2. OutputIsWhole
    <2> SUFFICES ASSUME at = "returned", call.kind = "tool", acc.result = "ok"
                 PROVE  acc.pipe = <<>> /\ Len(acc.read) = acc.written /\ acc.written <= OutputLimit
      BY DEF OutputIsWhole
    <2>1. acc.reader = "done" /\ Len(acc.read) <= OutputLimit /\ acc.written = Len(acc.read) + Len(acc.pipe)
      BY DEF SessionInv, KindInv, ReaderInv
    <2>2. Len(acc.read) \in Nat
      BY DEF SessionInv, SessionTypeOK, SessionState
    <2>3. acc.pipe = <<>>
      BY <2>1, <2>2, SessionAssumption DEF SessionInv, ReaderInv
    <2> QED  BY <2>1, <2>2, <2>3
  <1> QED  BY <1>1, <1>2 DEF SessionInv, CallsAreContained

\* A call of Orbit ends within its timeout and the grace of SIGTERM, with its
\* child reaped, its process group gone and no foreign group touched, and what
\* it answers is whole and the answer to the call: for every timeout, grace,
\* output limit, queue and pipe size (plugin/adapter.rs: orbit_json,
\* McpSession, join_by, terminate).
THEOREM SessionIsContained == SessionInit /\ [][SessionNext]_vars => []CallsAreContained
  <1> QED  BY SessionInitInv, SessionStep, SessionInvSafe, PTL

---------------------------------------------------------------------------
(* ReadPolicy                                                                *)

PolicyState ==
    [real : Nat, wall : Int, back : Nat, last : Int, scanned : Int, asked : Nat, started : Nat, took : Nat,
     answer : {"none", "data", "error"}]

\* The wall clock is behind by what it was set back; what is recorded as the
\* last synchronization is no later than its scan and what it took.
PolicyInv ==
    /\ call \in PolicyCalls /\ at \in {"policyIdle", "policySync"} /\ acc \in PolicyState
    /\ acc.wall = acc.real - acc.back
    /\ acc.last <= acc.scanned + acc.took
    /\ at = "policySync" => acc.asked = acc.started /\ acc.started <= acc.real /\ acc.answer = "none"
    /\ AnswersAreRecent

LEMMA PolicyInitInv ==
    ASSUME PolicyInit
    PROVE  PolicyInv
  BY PolicyAssumption DEF PolicyInit, PolicyInv, PolicyState, AnswersAreRecent

LEMMA PolicyStep ==
    ASSUME PolicyInv, [PolicyNext]_vars
    PROVE  PolicyInv'
  <1> USE PolicyAssumption
  <1>1. CASE UNCHANGED vars
    BY <1>1 DEF vars, PolicyInv, AnswersAreRecent
  <1>2. CASE at = "policyIdle" /\ Read
    <2>1. CASE Sync
      <3>1. /\ acc' \in PolicyState /\ acc'.wall = acc.wall /\ acc'.real = acc.real /\ acc'.back = acc.back
            /\ acc'.last = acc.last /\ acc'.scanned = acc.scanned /\ acc'.took = acc.took
            /\ acc'.asked = acc.real /\ acc'.started = acc.real /\ acc'.answer = "none"
            /\ at' = "policySync" /\ call' = call
        BY <2>1 DEF Sync, PolicyGoto, PolicyInv, PolicyState
      <3>2. acc.real <= acc.real
        BY DEF PolicyInv, PolicyState
      <3> QED  BY <3>1, <3>2 DEF PolicyInv, AnswersAreRecent
    <2>2. CASE AnswerRead("error")
      BY <1>2, <2>2 DEF AnswerRead, PolicyGoto, PolicyInv, PolicyState, AnswersAreRecent
    <2>3. CASE call.policy \in {"manual", "watch"} /\ AnswerRead("data")
      BY <1>2, <2>3 DEF AnswerRead, PolicyGoto, PolicyInv, PolicyState, AnswersAreRecent
    <2>4. CASE call.policy = "windowed" /\ WindowElapsed = "no" /\ AnswerRead("data")
      <3>1. acc.wall >= acc.last /\ acc.wall - acc.last <= Window
        BY <2>4 DEF WindowElapsed, PolicyInv, PolicyState
      <3>2. acc.real - acc.scanned <= Window + acc.took + acc.back
        BY <3>1 DEF PolicyInv, PolicyState
      <3> QED  BY <1>2, <2>4, <3>2 DEF AnswerRead, PolicyGoto, PolicyInv, PolicyState, AnswersAreRecent
    <2> QED  BY <1>2, <2>1, <2>2, <2>3, <2>4 DEF Read
  <1>3. CASE TimePasses \/ (at = "policyIdle" /\ SetClockBack)
    <2>1. acc.real \in Nat /\ acc.wall \in Int /\ acc.back \in Nat /\ acc.started \in Nat
      BY DEF PolicyInv, PolicyState
    <2>2. /\ acc' \in PolicyState /\ acc'.last = acc.last /\ acc'.scanned = acc.scanned /\ acc'.took = acc.took
          /\ acc'.asked = acc.asked /\ acc'.started = acc.started /\ acc'.answer = "none"
          /\ at' = at /\ call' = call
          /\ \/ acc'.real = acc.real + 1 /\ acc'.wall = acc.wall + 1 /\ acc'.back = acc.back
             \/ \E b \in 1..2 : /\ acc.back = 0 /\ at = "policyIdle" /\ acc'.real = acc.real
                                /\ acc'.wall = acc.wall - b /\ acc'.back = b
      <3>1. acc \in PolicyState /\ call' = call
        BY <1>3 DEF PolicyInv, TimePasses, SetClockBack, PolicyGoto
      <3>2. CASE TimePasses
        <4>1. acc.real + 1 \in Nat /\ acc.wall + 1 \in Int
          BY <2>1
        <4>2. at' = at /\ acc' = [acc EXCEPT !.real = acc.real + 1, !.wall = acc.wall + 1, !.answer = "none"]
          BY <3>2 DEF TimePasses, PolicyGoto
        <4> QED  BY <3>1, <4>1, <4>2 DEF PolicyState
      <3>3. CASE at = "policyIdle" /\ SetClockBack
        <4>1. PICK b \in 1..2 : /\ acc.back = 0 /\ at' = at
                                /\ acc' = [acc EXCEPT !.wall = acc.wall - b, !.back = b, !.answer = "none"]
          BY <3>3 DEF SetClockBack, PolicyGoto
        <4>2. acc.wall - b \in Int /\ b \in Nat
          BY <2>1
        <4> QED  BY <3>1, <3>3, <4>1, <4>2 DEF PolicyState
      <3> QED  BY <1>3, <3>2, <3>3
    <2>3. acc'.wall = acc'.real - acc'.back /\ acc'.real >= acc.real
      <3>1. acc.wall = acc.real - acc.back
        BY DEF PolicyInv
      <3>2. \A r, b, c \in Int : (r - b) + 1 = (r + 1) - b /\ r + 1 >= r /\ r >= r /\ (b = 0 => (r - b) - c = r - c)
        OBVIOUS
      <3>3. CASE acc'.real = acc.real + 1 /\ acc'.wall = acc.wall + 1 /\ acc'.back = acc.back
        BY <2>1, <3>1, <3>2, <3>3
      <3>4. ASSUME NEW b \in 1..2, acc.back = 0, acc'.real = acc.real, acc'.wall = acc.wall - b, acc'.back = b
            PROVE  acc'.wall = acc'.real - acc'.back /\ acc'.real >= acc.real
        BY <2>1, <3>1, <3>2, <3>4
      <3> QED  BY <2>2, <3>3, <3>4
    <2>4. at = "policySync" => acc'.started <= acc'.real
      BY <2>1, <2>2, <2>3 DEF PolicyInv, PolicyState
    <2> QED  BY <2>2, <2>3, <2>4 DEF PolicyInv, AnswersAreRecent
  <1>4. CASE at = "policySync" /\ SyncFails
    BY <1>4 DEF SyncFails, PolicyGoto, PolicyInv, PolicyState, AnswersAreRecent
  <1>5. CASE at = "policySync" /\ SyncEnds
    <2>1. /\ acc.real \in Nat /\ acc.wall \in Int /\ acc.back \in Nat /\ acc.started \in Nat /\ acc.took \in Nat
          /\ acc.started <= acc.real /\ acc.asked = acc.started /\ acc.wall = acc.real - acc.back
      BY <1>5 DEF PolicyInv, PolicyState
    <2>2. PICK took \in Nat : /\ took = IF acc.real - acc.started > acc.took THEN acc.real - acc.started ELSE acc.took
                              /\ took >= acc.real - acc.started
      BY <2>1
    <2>3. /\ acc' \in PolicyState /\ acc'.real = acc.real /\ acc'.wall = acc.wall /\ acc'.back = acc.back
          /\ acc'.last = acc.wall /\ acc'.scanned = acc.started /\ acc'.took = took /\ acc'.asked = acc.asked
          /\ at' = "policyIdle" /\ call' = call
      <3>1. /\ acc' = [acc EXCEPT !.scanned = acc.started, !.last = acc.wall, !.answer = "data", !.took = took]
            /\ at' = "policyIdle" /\ call' = call /\ acc \in PolicyState
        BY <1>5, <2>2 DEF SyncEnds, PolicyGoto, PolicyInv
      <3>2. acc.started \in Int
        BY <2>1
      <3>3. acc' \in PolicyState
        BY <2>1, <2>2, <3>1, <3>2 DEF PolicyState
      <3> QED  BY <3>1, <3>3 DEF PolicyState
    <2>4. \A r, b, a, k, w \in Nat : k >= r - a =>
              r - b <= a + k /\ r - a <= w + k + b /\ a >= a
      OBVIOUS
    <2>5. acc'.last <= acc'.scanned + acc'.took
      BY <2>1, <2>2, <2>3, <2>4
    <2>6. acc'.real - acc'.scanned <= Window + acc'.took + acc'.back /\ acc'.scanned >= acc'.asked
      BY <2>1, <2>2, <2>3, <2>4
    <2> QED  BY <2>1, <2>3, <2>5, <2>6 DEF PolicyInv, AnswersAreRecent
  <1> QED  BY <1>1, <1>2, <1>3, <1>4, <1>5 DEF PolicyNext

---------------------------------------------------------------------------
(* DatabaseFamilies                                                          *)

HeadSet == [branch : Branches \cup {Detached}, commit : GitCommits \cup {NoCommit}]
FamilyTexts ==
    Branches \cup {LegacyStem[b] : b \in Branches} \cup {DetachedStem[c] : c \in GitCommits} \cup {Detached}
NameSet == [space : {"hashed", "plain"}, text : FamilyTexts, version : Int]
FileSet == [name : NameSet, branch : Branches \cup {Detached}, commit : GitCommits \cup {NoCommit}]

FamilyState ==
    [head : HeadSet, refs : [Branches -> GitCommits \cup {NoCommit}], commits : SUBSET GitCommits,
     files : SUBSET FileSet, ops : Int, op : {"none", "git", "other", "open", "revision", "pinned", "clean"},
     opened : SUBSET FileSet, refused : BOOLEAN, deleted : SUBSET FileSet]

FamilyTypeOK == call \in FamilyCalls /\ at = "families" /\ acc \in FamilyState

\* What a file holds follows from its name: a hashed one is the branch's it
\* spells, and of the plain ones those of detached commits spell the commit.
Proper(f) ==
    \/ f.name.space = "hashed" /\ f.name.text = f.branch /\ f.branch \in Branches
    \/ f.name.space = "plain" /\ f.branch \in Branches
    \/ /\ f.name.space = "plain" /\ f.branch = Detached
       /\ f.name.text = (IF f.commit = NoCommit THEN Detached ELSE DetachedStem[f.commit])
FilesInv ==
    /\ \A f \in acc.files : Proper(f)
    /\ \A f, g \in acc.files : f.name = g.name => f = g

\* Git keeps the ancestors of what it keeps, and its branches point at commits.
GitInv ==
    /\ \A c \in acc.commits : History(c) \subseteq acc.commits
    /\ \A b \in Branches : acc.refs[b] \in acc.commits \cup {NoCommit}

FamilyInv == FamilyTypeOK /\ FilesInv /\ GitInv /\ OpensItsOwn /\ BranchesDoNotCollide /\ CleanNeedsProof

LEMMA FamilyInitInv ==
    ASSUME FamilyInit
    PROVE  FamilyInv
  <1> USE FamilyAssumption DEF FamilyInit
  <1>1. FamilyTypeOK
    BY DEF FamilyTypeOK, FamilyState, HeadSet
  <1>2. FilesInv /\ OpensItsOwn /\ BranchesDoNotCollide /\ CleanNeedsProof
    BY DEF FilesInv, OpensItsOwn, BranchesDoNotCollide, CleanNeedsProof
  <1>3. GitInv
    BY DEF GitInv, History
  <1> QED  BY <1>1, <1>2, <1>3 DEF FamilyInv

LEMMA FamilyEffect ==
    ASSUME FamilyInv, NEW op \in {"none", "git", "other", "open", "revision", "pinned", "clean"},
           NEW new \in FamilyState, FamilyStep(op, new)
    PROVE  /\ acc' \in FamilyState /\ call' = call /\ at' = at /\ acc'.op = op /\ acc'.head = new.head
           /\ acc'.refs = new.refs /\ acc'.commits = new.commits /\ acc'.files = new.files
           /\ acc'.opened = new.opened /\ acc'.refused = new.refused /\ acc'.deleted = new.deleted
  <1>1. new.ops + 1 \in Int
    BY DEF FamilyState
  <1>2. acc' = [new EXCEPT !.ops = new.ops + 1, !.op = op] /\ call' = call /\ at' = at
    BY DEF FamilyStep
  <1> QED  BY <1>1, <1>2 DEF FamilyState

\* A step that opens nothing and cleans nothing has only the state of the files
\* and of Git to show.
LEMMA ElsewhereInv ==
    ASSUME FamilyInv, acc' \in FamilyState, call' = call, at' = at, acc'.op \notin {"open", "clean"},
           FilesInv', GitInv'
    PROVE  FamilyInv'
  BY DEF FamilyInv, FamilyTypeOK, OpensItsOwn, BranchesDoNotCollide, CleanNeedsProof

LEMMA HeadsAreHeads ==
    ASSUME FamilyInv, NEW head \in Heads
    PROVE  head \in HeadSet
  BY DEF Heads, FamilyInv, FamilyTypeOK, FamilyState, HeadSet

LEMMA HistoryCloses ==
    ASSUME call \in FamilyCalls, NEW d \in GitCommits \cup {NoCommit}, NEW c \in History(d)
    PROVE  c \in GitCommits /\ History(c) \subseteq History(d)
  BY FamilyAssumption DEF History

\* Git's own steps.
LEMMA GitStepInv ==
    ASSUME FamilyInv, CheckOut \/ MoveBranch \/ DropCommits
    PROVE  FamilyInv'
  <1>1. acc \in FamilyState /\ call \in FamilyCalls
    BY DEF FamilyInv, FamilyTypeOK
  <1>2. CASE CheckOut
    <2>1. PICK head \in Heads : FamilyStep("git", [acc EXCEPT !.head = head])
      BY <1>2 DEF CheckOut
    <2>2. [acc EXCEPT !.head = head] \in FamilyState
      BY <1>1, <2>1, HeadsAreHeads DEF FamilyState
    <2>3. /\ acc' \in FamilyState /\ call' = call /\ at' = at /\ acc'.op = "git" /\ acc'.refs = acc.refs
          /\ acc'.commits = acc.commits /\ acc'.files = acc.files
      BY <1>1, <2>1, <2>2, FamilyEffect DEF FamilyState
    <2>4. FilesInv' /\ GitInv'
      BY <2>3 DEF FamilyInv, FilesInv, GitInv, History
    <2> QED  BY <2>3, <2>4, ElsewhereInv
  <1>3. CASE MoveBranch
    <2>1. PICK b \in Branches, c \in acc.commits \cup {NoCommit} : FamilyStep("git", [acc EXCEPT !.refs[b] = c])
      BY <1>3 DEF MoveBranch
    <2>2. PICK r : r = [acc.refs EXCEPT ![b] = c]
      OBVIOUS
    <2>3. r \in [Branches -> GitCommits \cup {NoCommit}] /\ \A d \in Branches : r[d] = IF d = b THEN c ELSE acc.refs[d]
      BY <1>1, <2>1, <2>2 DEF FamilyState
    <2>4. [acc EXCEPT !.refs = r] \in FamilyState /\ [acc EXCEPT !.refs[b] = c] = [acc EXCEPT !.refs = r]
      BY <1>1, <2>2, <2>3 DEF FamilyState
    <2>5. /\ acc' \in FamilyState /\ call' = call /\ at' = at /\ acc'.op = "git" /\ acc'.refs = r
          /\ acc'.commits = acc.commits /\ acc'.files = acc.files
      BY <1>1, <2>1, <2>4, FamilyEffect DEF FamilyState
    <2>6. FilesInv' /\ GitInv'
      BY <2>1, <2>3, <2>5 DEF FamilyInv, FilesInv, GitInv, History
    <2> QED  BY <2>5, <2>6, ElsewhereInv
  <1>4. CASE DropCommits
    <2>1. PICK k : k = acc.commits \cap (Referenced(acc.refs) \cup History(acc.head.commit))
      OBVIOUS
    <2>2. FamilyStep("git", [acc EXCEPT !.commits = k])
      BY <1>4, <2>1 DEF DropCommits
    <2>3. [acc EXCEPT !.commits = k] \in FamilyState
      BY <1>1, <2>1 DEF FamilyState
    <2>4. /\ acc' \in FamilyState /\ call' = call /\ at' = at /\ acc'.op = "git" /\ acc'.refs = acc.refs
          /\ acc'.commits = k /\ acc'.files = acc.files
      BY <1>1, <2>2, <2>3, FamilyEffect DEF FamilyState
    <2>5. FilesInv'
      BY <2>4 DEF FamilyInv, FilesInv
    <2>6. \A c \in k : History(c) \subseteq k
      <3> TAKE c \in k
      <3>1. History(c) \subseteq acc.commits /\ acc.head.commit \in GitCommits \cup {NoCommit}
            /\ \A b \in Branches : acc.refs[b] \in GitCommits \cup {NoCommit}
        BY <1>1, <2>1 DEF FamilyInv, GitInv, FamilyState, HeadSet
      <3>2. PICK d \in GitCommits \cup {NoCommit} :
                /\ c \in History(d)
                /\ d = acc.head.commit \/ \E b \in Branches : d = acc.refs[b]
        BY <2>1, <3>1 DEF Referenced
      <3>3. History(c) \subseteq History(d)
        BY <1>1, <3>2, HistoryCloses
      <3>4. History(d) \subseteq Referenced(acc.refs) \cup History(acc.head.commit)
        BY <3>2 DEF Referenced
      <3> QED  BY <2>1, <3>1, <3>3, <3>4
    <2>7. \A b \in Branches : acc.refs[b] \in k \cup {NoCommit}
      <3> TAKE b \in Branches
      <3>1. acc.refs[b] \in acc.commits \cup {NoCommit} /\ acc.commits \subseteq GitCommits
        BY <1>1 DEF FamilyInv, GitInv, FamilyState
      <3>2. acc.refs[b] # NoCommit => acc.refs[b] \in History(acc.refs[b])
        BY <1>1, <3>1, FamilyAssumption DEF History
      <3> QED  BY <2>1, <3>1, <3>2 DEF Referenced
    <2>8. GitInv'
      BY <2>4, <2>6, <2>7 DEF GitInv, History
    <2> QED  BY <2>4, <2>5, <2>8, ElsewhereInv
  <1> QED  BY <1>2, <1>3, <1>4

\* What is selected for a checkout that has a file of its own is that file.
LEMMA SelectedIsOwn ==
    ASSUME FamilyInv, NEW head \in HeadSet, NEW file \in FileNamed(Selected(head))
    PROVE  /\ head.branch # Detached => file.branch = head.branch
           /\ head.branch = Detached /\ file.branch = Detached => file.commit = head.commit
  <1>1. /\ file \in acc.files /\ file.name = Selected(head) /\ Proper(file)
        /\ file.branch \in Branches \cup {Detached} /\ file.commit \in GitCommits \cup {NoCommit}
    BY DEF FileNamed, FamilyInv, FilesInv, FamilyTypeOK, FamilyState, FileSet
  <1>2. CASE Selected(head) = DbName(head)
    <2>1. CASE head.branch # Detached
      <3>1. file.name.space = "hashed" /\ file.name.text = head.branch
        BY <1>1, <1>2, <2>1 DEF DbName, BranchName
      <3> QED  BY <1>1, <2>1, <3>1 DEF Proper
    <2>2. CASE head.branch = Detached /\ file.branch = Detached
      <3>1. file.name.text = IF head.commit = NoCommit THEN Detached ELSE DetachedStem[head.commit]
        BY <1>1, <1>2, <2>2 DEF DbName, PlainName
      <3>2. file.name.text = IF file.commit = NoCommit THEN Detached ELSE DetachedStem[file.commit]
        BY <1>1, <2>2, FamilyAssumption DEF Proper
      <3>3. head.commit \in GitCommits \cup {NoCommit}
        BY DEF HeadSet
      <3> QED  BY <1>1, <2>2, <3>1, <3>2, <3>3, FamilyAssumption
    <2> QED  BY <2>1, <2>2
  <1>3. CASE Selected(head) # DbName(head)
    <2>1. Selected(head) \in ExistingLegacy(head)
      BY <1>3 DEF Selected
    <2>2. PICK other \in FileNamed(Selected(head)) : other.branch = head.branch
      BY <2>1 DEF ExistingLegacy
    <2>3. file = other
      BY <1>1, <2>2 DEF FileNamed, FamilyInv, FilesInv
    <2>4. head.branch # Detached
      BY <2>1, FamilyAssumption DEF ExistingLegacy
    <2> QED  BY <2>2, <2>3, <2>4
  <1> QED  BY <1>2, <1>3

\* A database that is created for a checkout says so in its name.
LEMMA CreatedIsOwn ==
    ASSUME FamilyInv, NEW head \in HeadSet, NEW name, name = DbName(head) \/ name = Selected(head),
           FileNamed(name) = {}, NEW file,
           file = [name |-> name, branch |-> head.branch, commit |-> head.commit]
    PROVE  file \in FileSet /\ Proper(file) /\ \A f \in acc.files : f.name # file.name
  <1>1. name = DbName(head)
    <2>1. CASE name # DbName(head)
      <3>1. name \in ExistingLegacy(head)
        BY <2>1 DEF Selected
      <3> QED  BY <3>1 DEF ExistingLegacy
    <2> QED  BY <2>1
  <1>2. name \in NameSet
    BY <1>1 DEF DbName, BranchName, PlainName, NameSet, FamilyTexts, HeadSet, ExtractorVersion
  <1>3. file \in FileSet
    BY <1>2 DEF FileSet, HeadSet
  <1>4. Proper(file)
    BY <1>1 DEF Proper, DbName, BranchName, PlainName, HeadSet
  <1> QED  BY <1>3, <1>4 DEF FileNamed

\* Files that are added under a name of their own, or removed.
LEMMA FilesStay ==
    ASSUME FamilyInv, NEW file, Proper(file), \A f \in acc.files : f.name # file.name,
           acc'.files \subseteq acc.files \cup {file}
    PROVE  FilesInv'
  BY DEF FamilyInv, FilesInv, Proper

LEMMA GitStays ==
    ASSUME FamilyInv, acc'.refs = acc.refs, acc'.commits = acc.commits, call' = call
    PROVE  GitInv'
  BY DEF FamilyInv, GitInv, History

\* Opening a checkout's own database for writing or for reading.
LEMMA OpenAtInv ==
    ASSUME FamilyInv, NEW op \in {"open", "revision"}, NEW head \in HeadSet, NEW name, OpenAt(op, name, head),
           \/ op = "open" /\ head = acc.head /\ name = Selected(head)
           \/ op = "revision" /\ name = DbName(head)
    PROVE  FamilyInv'
  <1>1. acc \in FamilyState
    BY DEF FamilyInv, FamilyTypeOK
  <1>2. CASE FileNamed(name) = {}
    <2>1. PICK file : file = [name |-> name, branch |-> head.branch, commit |-> head.commit]
      OBVIOUS
    <2>2. file \in FileSet /\ Proper(file) /\ \A f \in acc.files : f.name # file.name
      BY <1>2, <2>1, CreatedIsOwn
    <2>3. PICK new : new = [acc EXCEPT !.files = acc.files \cup {file}, !.opened = {file}, !.refused = FALSE]
      OBVIOUS
    <2>4. FamilyStep(op, new)
      BY <1>2, <2>1, <2>3 DEF OpenAt
    <2>5. /\ new \in FamilyState /\ new.files = acc.files \cup {file} /\ new.opened = {file} /\ ~new.refused
          /\ new.head = acc.head /\ new.refs = acc.refs /\ new.commits = acc.commits
      BY <1>1, <2>2, <2>3 DEF FamilyState
    <2>6. /\ acc' \in FamilyState /\ call' = call /\ at' = at /\ acc'.op = op /\ acc'.head = acc.head
          /\ acc'.refs = acc.refs /\ acc'.commits = acc.commits /\ acc'.files = acc.files \cup {file}
          /\ acc'.opened = {file} /\ ~acc'.refused
      BY <2>4, <2>5, FamilyEffect
    <2>7. FilesInv' /\ GitInv'
      BY <2>2, <2>6, FilesStay, GitStays
    <2>8. OpensItsOwn' /\ BranchesDoNotCollide' /\ CleanNeedsProof'
      BY <2>1, <2>6 DEF OpensItsOwn, BranchesDoNotCollide, CleanNeedsProof
    <2> QED  BY <2>6, <2>7, <2>8 DEF FamilyInv, FamilyTypeOK
  <1>3. CASE FileNamed(name) # {}
    <2>1. PICK file \in FileNamed(name) : file = CHOOSE f \in FileNamed(name) : TRUE
      BY <1>3
    <2>2. PICK new : new = IF IdentityHolds(file, head.branch)
                           THEN [acc EXCEPT !.opened = {file}, !.refused = FALSE]
                           ELSE [acc EXCEPT !.opened = {}, !.refused = TRUE]
      OBVIOUS
    <2>3. FamilyStep(op, new)
      BY <1>3, <2>1, <2>2 DEF OpenAt
    <2>4. file \in FileSet
      BY <1>1, <2>1 DEF FileNamed, FamilyState
    <2>5. /\ new \in FamilyState /\ new.files = acc.files /\ new.head = acc.head /\ new.refs = acc.refs
          /\ new.commits = acc.commits
          /\ \/ new.opened = {file} /\ ~new.refused /\ file.branch = head.branch
             \/ new.opened = {} /\ new.refused /\ file.branch # head.branch
      BY <1>1, <2>2, <2>4 DEF FamilyState, IdentityHolds
    <2>6. /\ acc' \in FamilyState /\ call' = call /\ at' = at /\ acc'.op = op /\ acc'.head = acc.head
          /\ acc'.refs = acc.refs /\ acc'.commits = acc.commits /\ acc'.files = acc.files
          /\ \/ acc'.opened = {file} /\ ~acc'.refused /\ file.branch = head.branch
             \/ acc'.opened = {} /\ acc'.refused /\ file.branch # head.branch
      BY <2>3, <2>5, FamilyEffect
    <2>7. FilesInv' /\ GitInv'
      BY <2>6, GitStays DEF FamilyInv, FilesInv
    <2>8. CASE op = "open"
      <3>1. /\ head.branch # Detached => file.branch = head.branch
            /\ head.branch = Detached /\ file.branch = Detached => file.commit = head.commit
        BY <2>1, <2>8, SelectedIsOwn
      <3>2. OpensItsOwn' /\ BranchesDoNotCollide' /\ CleanNeedsProof'
        BY <2>6, <2>8, <3>1 DEF OpensItsOwn, BranchesDoNotCollide, CleanNeedsProof
      <3> QED  BY <2>6, <2>7, <3>2 DEF FamilyInv, FamilyTypeOK
    <2>9. CASE op = "revision"
      BY <2>6, <2>7, <2>9, ElsewhereInv
    <2> QED  BY <2>8, <2>9
  <1> QED  BY <1>2, <1>3

LEMMA OpenInv ==
    ASSUME FamilyInv, OpenWriter \/ OpenRevision
    PROVE  FamilyInv'
  <1>1. CASE OpenWriter
    <2>1. acc.head \in HeadSet
      BY DEF FamilyInv, FamilyTypeOK, FamilyState
    <2> QED  BY <1>1, <2>1, OpenAtInv DEF OpenWriter
  <1>2. CASE OpenRevision
    <2>1. PICK c \in acc.commits : OpenAt("revision", DbName([branch |-> Detached, commit |-> c]),
                                          [branch |-> Detached, commit |-> c])
      BY <1>2 DEF OpenRevision
    <2>2. [branch |-> Detached, commit |-> c] \in HeadSet
      BY <2>1 DEF HeadSet, FamilyInv, FamilyTypeOK, FamilyState
    <2> QED  BY <2>1, <2>2, OpenAtInv
  <1> QED  BY <1>1, <1>2

LEMMA ReaderStepInv ==
    ASSUME FamilyInv, OpenReader
    PROVE  FamilyInv'
  <1>1. acc \in FamilyState
    BY DEF FamilyInv, FamilyTypeOK
  <1>a. PICK head \in Heads :
            /\ FileNamed(Selected(head)) # {}
            /\ LET file == CHOOSE file \in FileNamed(Selected(head)) : TRUE
                   own == IdentityHolds(file, head.branch)
               IN  FamilyStep(IF head = acc.head THEN "open" ELSE "pinned",
                        [acc EXCEPT !.opened = IF own THEN {file} ELSE {}, !.refused = ~own])
    BY DEF OpenReader
  <1>b. PICK file \in FileNamed(Selected(head)) : file = CHOOSE f \in FileNamed(Selected(head)) : TRUE
    BY <1>a
  <1>2. FamilyStep(IF head = acc.head THEN "open" ELSE "pinned",
            [acc EXCEPT !.opened = IF IdentityHolds(file, head.branch) THEN {file} ELSE {},
                        !.refused = ~IdentityHolds(file, head.branch)])
    BY <1>a, <1>b
  <1>3. head \in HeadSet
    BY HeadsAreHeads
  <1>4. file \in FileSet
    BY <1>1, <1>2 DEF FileNamed, FamilyState
  <1>5. PICK new : new = [acc EXCEPT !.opened = IF IdentityHolds(file, head.branch) THEN {file} ELSE {},
                                     !.refused = ~IdentityHolds(file, head.branch)]
    OBVIOUS
  <1>6. /\ new \in FamilyState /\ new.files = acc.files /\ new.head = acc.head /\ new.refs = acc.refs
        /\ new.commits = acc.commits
        /\ \/ new.opened = {file} /\ ~new.refused /\ file.branch = head.branch
           \/ new.opened = {} /\ new.refused /\ file.branch # head.branch
    BY <1>1, <1>4, <1>5 DEF FamilyState, IdentityHolds
  <1>7. PICK op \in {"open", "pinned"} : FamilyStep(op, new) /\ (op = "open" => head = acc.head)
    BY <1>2, <1>5
  <1>8. /\ acc' \in FamilyState /\ call' = call /\ at' = at /\ acc'.op = op /\ acc'.head = acc.head
        /\ acc'.refs = acc.refs /\ acc'.commits = acc.commits /\ acc'.files = acc.files
        /\ \/ acc'.opened = {file} /\ ~acc'.refused /\ file.branch = head.branch
           \/ acc'.opened = {} /\ acc'.refused /\ file.branch # head.branch
    BY <1>6, <1>7, FamilyEffect
  <1>9. FilesInv' /\ GitInv'
    BY <1>8, GitStays DEF FamilyInv, FilesInv
  <1>10. CASE op = "open"
    <2>1. /\ head.branch # Detached => file.branch = head.branch
          /\ head.branch = Detached /\ file.branch = Detached => file.commit = head.commit
      BY <1>2, <1>3, SelectedIsOwn
    <2>2. OpensItsOwn' /\ BranchesDoNotCollide' /\ CleanNeedsProof'
      BY <1>7, <1>8, <1>10, <2>1 DEF OpensItsOwn, BranchesDoNotCollide, CleanNeedsProof
    <2> QED  BY <1>8, <1>9, <2>2 DEF FamilyInv, FamilyTypeOK
  <1>11. CASE op = "pinned"
    BY <1>8, <1>9, <1>11, ElsewhereInv
  <1> QED  BY <1>10, <1>11

\* Another binary adds a file under a name that is free.
LEMMA OtherBinaryInv ==
    ASSUME FamilyInv, OtherBinary
    PROVE  FamilyInv'
  <1>1. acc \in FamilyState /\ acc.head \in HeadSet
    BY DEF FamilyInv, FamilyTypeOK, FamilyState
  <1>a. PICK version \in 1..3 : \E name :
            /\ name = IF acc.head.branch # Detached THEN PlainName(LegacyStem[acc.head.branch], version)
                      ELSE [DbName(acc.head) EXCEPT !.version = version]
            /\ \A file \in acc.files : file.name # name
            /\ FamilyStep("other", [acc EXCEPT !.files = @ \cup {[name |-> name, branch |-> acc.head.branch,
                                                                   commit |-> acc.head.commit]}])
    BY DEF OtherBinary
  <1>2. PICK name :
            /\ name = IF acc.head.branch # Detached THEN PlainName(LegacyStem[acc.head.branch], version)
                      ELSE [DbName(acc.head) EXCEPT !.version = version]
            /\ \A file \in acc.files : file.name # name
            /\ FamilyStep("other", [acc EXCEPT !.files = @ \cup {[name |-> name, branch |-> acc.head.branch,
                                                                   commit |-> acc.head.commit]}])
    BY <1>a
  <1>3. PICK file : file = [name |-> name, branch |-> acc.head.branch, commit |-> acc.head.commit]
    OBVIOUS
  <1>4. name \in NameSet /\ Proper(file)
    <2>1. CASE acc.head.branch # Detached
      BY <1>1, <1>2, <1>3, <2>1 DEF PlainName, NameSet, FamilyTexts, HeadSet, Proper
    <2>2. CASE acc.head.branch = Detached
      <3>1. /\ name = PlainName(IF acc.head.commit = NoCommit THEN Detached ELSE DetachedStem[acc.head.commit], version)
        BY <1>2, <2>2 DEF DbName, PlainName
      <3> QED  BY <1>1, <1>2, <1>3, <2>2, <3>1 DEF PlainName, NameSet, FamilyTexts, HeadSet, Proper
    <2> QED  BY <2>1, <2>2
  <1>5. file \in FileSet /\ \A f \in acc.files : f.name # file.name
    BY <1>1, <1>2, <1>3, <1>4 DEF FileSet, HeadSet
  <1>6. PICK new : new = [acc EXCEPT !.files = acc.files \cup {file}]
    OBVIOUS
  <1>7. FamilyStep("other", new)
    BY <1>2, <1>3, <1>6
  <1>8. /\ new \in FamilyState /\ new.files = acc.files \cup {file} /\ new.refs = acc.refs
        /\ new.commits = acc.commits
    BY <1>1, <1>5, <1>6 DEF FamilyState
  <1>9. /\ acc' \in FamilyState /\ call' = call /\ at' = at /\ acc'.op = "other" /\ acc'.refs = acc.refs
        /\ acc'.commits = acc.commits /\ acc'.files = acc.files \cup {file}
    BY <1>7, <1>8, FamilyEffect
  <1>10. FilesInv' /\ GitInv'
    BY <1>4, <1>5, <1>9, FilesStay, GitStays
  <1> QED  BY <1>9, <1>10, ElsewhereInv

\* What clean judges deletable is disowned by Git.
LEMMA DeletableIsDisowned ==
    ASSUME FamilyInv, NEW file \in acc.files, Deletable(file)
    PROVE  /\ file.name.version <= ExtractorVersion
           /\ file.name.version = ExtractorVersion =>
                  /\ file.branch = Detached /\ file.commit \notin Referenced(acc.refs)
                  /\ call.opaque => file.commit \notin acc.commits
  <1>1. file.name.version \in Int /\ ExtractorVersion \in Int
    BY DEF FamilyInv, FamilyTypeOK, FamilyState, FileSet, NameSet, ExtractorVersion
  <1>2. file.name.version <= ExtractorVersion
    BY <1>1 DEF Deletable
  <1>3. ASSUME file.name.version = ExtractorVersion
        PROVE  /\ file.branch = Detached /\ file.commit \in GitCommits
               /\ Reachability(file.commit) = {"unreachable"}
    BY <1>1, <1>3 DEF Deletable, DetachedMetaMatches, ClaimedCommit
  <1>4. ASSUME NEW c \in GitCommits, Reachability(c) = {"unreachable"}
        PROVE  c \notin Referenced(acc.refs) /\ (call.opaque => c \notin acc.commits)
    <2>1. CASE c \notin acc.commits
      <3>1. \A b \in Branches : History(acc.refs[b]) \subseteq acc.commits
        BY DEF FamilyInv, GitInv, History
      <3> QED  BY <2>1, <3>1 DEF Referenced
    <2>2. CASE c \in acc.commits
      <3>1. ~(\E b \in Branches : c \in History(acc.refs[b])) /\ ~call.opaque
        BY <1>4, <2>2 DEF Reachability
      <3> QED  BY <3>1 DEF Referenced
    <2> QED  BY <2>1, <2>2
  <1> QED  BY <1>2, <1>3, <1>4

LEMMA CleanInv ==
    ASSUME FamilyInv, Clean
    PROVE  FamilyInv'
  <1>1. acc \in FamilyState
    BY DEF FamilyInv, FamilyTypeOK
  <1>2. PICK gone : /\ gone \subseteq {file \in acc.files : file.name # Selected(acc.head) /\ Deletable(file)}
                    /\ FamilyStep("clean", [acc EXCEPT !.files = acc.files \ gone, !.deleted = gone])
    BY DEF Clean
  <1>3. PICK new : new = [acc EXCEPT !.files = acc.files \ gone, !.deleted = gone]
    OBVIOUS
  <1>4. /\ new \in FamilyState /\ new.files = acc.files \ gone /\ new.deleted = gone /\ new.refs = acc.refs
        /\ new.commits = acc.commits
    BY <1>1, <1>2, <1>3 DEF FamilyState
  <1>5. /\ acc' \in FamilyState /\ call' = call /\ at' = at /\ acc'.op = "clean" /\ acc'.refs = acc.refs
        /\ acc'.commits = acc.commits /\ acc'.files = acc.files \ gone /\ acc'.deleted = gone
    BY <1>2, <1>3, <1>4, FamilyEffect
  <1>6. FilesInv' /\ GitInv'
    BY <1>5, GitStays DEF FamilyInv, FilesInv
  <1>7. CleanNeedsProof'
    <2>1. \A file \in gone : file \in acc.files /\ Deletable(file)
      BY <1>2
    <2>2. Referenced(acc.refs)' = Referenced(acc.refs)
      BY <1>5 DEF Referenced, History
    <2> QED  BY <1>5, <2>1, <2>2, DeletableIsDisowned DEF CleanNeedsProof
  <1> QED  BY <1>5, <1>6, <1>7 DEF FamilyInv, FamilyTypeOK, OpensItsOwn, BranchesDoNotCollide

LEMMA FamilyStepInv ==
    ASSUME FamilyInv, [FamilyNext]_vars
    PROVE  FamilyInv'
  <1>1. CASE UNCHANGED vars
    BY <1>1 DEF vars, FamilyInv, FamilyTypeOK, FilesInv, GitInv, History, OpensItsOwn, BranchesDoNotCollide,
       CleanNeedsProof, Referenced
  <1> QED  BY <1>1, GitStepInv, OtherBinaryInv, OpenInv, ReaderStepInv, CleanInv DEF FamilyNext

\* A checkout reads its own database and as recent a one as its policy says,
\* and clean deletes only what Git has disowned: for any branches, commits and
\* histories, any names that older binaries gave, and any window
\* (store/mod.rs, db_path/mod.rs, clean.rs, graph/mod.rs).
THEOREM DatabasesAreOwned ==
    (FamilyInit \/ PolicyInit) /\ [][FamilyNext \/ PolicyNext]_vars => []DatabasesAreTheirOwn
  <1> DEFINE Inv == FamilyInv \/ PolicyInv
  <1>1. FamilyInit \/ PolicyInit => Inv
    BY FamilyInitInv, PolicyInitInv
  <1>2. Inv /\ [FamilyNext \/ PolicyNext]_vars => Inv'
    <2>1. ASSUME FamilyInv, [FamilyNext \/ PolicyNext]_vars
          PROVE  FamilyInv'
      <3>1. ~PolicyNext
        BY <2>1 DEF FamilyInv, FamilyTypeOK, PolicyNext
      <3> QED  BY <2>1, <3>1, FamilyStepInv
    <2>2. ASSUME PolicyInv, [FamilyNext \/ PolicyNext]_vars
          PROVE  PolicyInv'
      <3>1. ~FamilyNext
        BY <2>2 DEF PolicyInv, FamilyNext
      <3> QED  BY <2>2, <3>1, PolicyStep
    <2> QED  BY <2>1, <2>2
  <1>3. Inv => DatabasesAreTheirOwn
    BY DEF FamilyInv, FamilyTypeOK, PolicyInv, DatabasesAreTheirOwn, AnswersAreRecent, OpensItsOwn,
       BranchesDoNotCollide, CleanNeedsProof
  <1> QED  BY <1>1, <1>2, <1>3, PTL
---------------------------------------------------------------------------
(* StateDir                                                                  *)

LEMMA Smallest ==
    ASSUME NEW S, S \subseteq Nat, S # {}
    PROVE  \E n \in S : \A m \in S : n <= m
  <1>1. PICK n \in S : \A m \in S : ~(<<m, n>> \in OpToRel(<, Nat))
    BY WFMin, NatLessThanWellFounded
  <1>2. \A m \in S : ~(m < n)
    BY <1>1 DEF OpToRel
  <1> QED  BY <1>2

LEMMA Greatest ==
    ASSUME NEW S, NEW n \in Nat, S \subseteq 0..n, S # {}
    PROVE  \E x \in S : \A m \in S : m <= x
  <1>1. PICK T : T = {n - m : m \in S}
    OBVIOUS
  <1>2. T \subseteq Nat /\ T # {}
    <2>1. \A m \in S : n - m \in Nat
      OBVIOUS
    <2> QED  BY <1>1, <2>1
  <1>3. PICK t \in T : \A u \in T : t <= u
    BY <1>2, Smallest
  <1>4. PICK x \in S : t = n - x
    BY <1>1, <1>3
  <1>5. \A m \in S : m <= x
    BY <1>1, <1>3, <1>4
  <1> QED  BY <1>5

DirState ==
    [nodes : Seq(StateNodes), inside : BOOLEAN, root : BOOLEAN, i : Nat, first : Nat, owned : Nat,
     result : {"running", "refused", "absent", "dir", "killed"}, touched : SUBSET (Nat \X {"made", "mode"}),
     file : StateNodes, marker : {"none", "theirs", "whole"}, temp : {"none", "partial", "whole"}]

DirTypeOK == call \in StateCalls /\ InState /\ acc \in DirState /\ Len(acc.nodes) > 0

\* A component that was passed on the way: nobody takes it away.
Passed(j) ==
    /\ acc.nodes[j].what = "dir" /\ acc.nodes[j].mine
    /\ (call.access = "write" /\ j >= acc.owned) => ~acc.nodes[j].open

\* Where the walk is, what it has passed, and where a chosen directory begins.
WalkInv ==
    /\ at = "stateSplit" => call.kind = "chosen"
    /\ call.kind # "chosen" => acc.inside
    /\ at \in {"stateLook", "stateMake", "stateRelook"} =>
           /\ acc.i \in 1..Len(acc.nodes) /\ acc.first \in 1..acc.i
           /\ \A j \in acc.first..(acc.i - 1) : Passed(j)
           /\ call.kind = "chosen" => acc.owned = Len(acc.nodes)
    /\ at \in {"stateFile", "stateMark", "stateFill", "stateLink"} \/ (at = "stateDone" /\ acc.result = "dir") =>
           acc.first \in 1..Len(acc.nodes) /\ \A j \in acc.first..Len(acc.nodes) : Passed(j)

\* Nothing is touched before the tracked directories are refused, nor by a
\* reader; a component with a mode of ours stays ours.
TouchInv ==
    /\ at \in {"stateStart", "stateSplit"} \/ call.access = "read" => acc.touched = {}
    /\ at = "stateMake" => call.access = "write"
    /\ call.tracked /\ (call.kind = "scratch" \/ (call.kind = "chosen" /\ acc.inside)) =>
           acc.touched = {} /\ at \in {"stateStart", "stateSplit", "stateDone"}
    /\ \A j \in DOMAIN acc.nodes :
           <<j, "mode">> \in acc.touched =>
               acc.nodes[j].what = "dir" /\ acc.nodes[j].mine /\ (call.kind = "chosen" => j = Len(acc.nodes))

\* A call that nothing stands in the way of, among siblings.
Unhindered ==
    /\ call.rival \in {"none", "sibling"} /\ ~call.tracked /\ call.root /\ ~call.linked
    /\ \A j \in DOMAIN call.nodes : call.nodes[j].what \in {"missing", "dir"} /\ call.nodes[j].mine
    /\ call.file.what \in {"missing", "file"} /\ call.file.mine

SiblingInv ==
    Unhindered =>
        /\ \A j \in DOMAIN acc.nodes : acc.nodes[j].what \in {"missing", "dir"} /\ acc.nodes[j].mine
        /\ acc.file.what \in {"missing", "file"} /\ acc.file.mine
        /\ at = "stateRelook" => Node.what = "dir"
        /\ at = "stateDone" => acc.result # "refused"

\* The walk has not begun.
StartInv == at = "stateStart" => acc.i = 1 /\ acc.first = 1

MarkerInv ==
    /\ at = "stateLink" => acc.temp = "whole"
    /\ call.marker = "theirs" => acc.marker = "theirs"

DirInv == DirTypeOK /\ StartInv /\ WalkInv /\ TouchInv /\ SiblingInv /\ MarkerInv

LEMMA DirInvSuffices ==
    ASSUME DirInv
    PROVE  StateIsOurs /\ OnlyStateIsTouched /\ SiblingsBothSucceed /\ MarkerIsWhole
  <1>1. acc \in DirState /\ call \in StateCalls
    BY DEF DirInv, DirTypeOK
  <1>2. StateIsOurs
    BY <1>1 DEF DirInv, WalkInv, StateIsOurs, Passed, DirState
  <1>3. OnlyStateIsTouched
    BY <1>1 DEF DirInv, TouchInv, OnlyStateIsTouched
  <1>4. SiblingsBothSucceed
    <2>1. /\ call.file \in StateNodes
          /\ \A j \in DOMAIN call.nodes : call.nodes[j] \in StateNodes
      BY <1>1, StateAssumption
    <2>2. Unhindered => ~(at = "stateDone" /\ acc.result = "refused")
      BY DEF DirInv, SiblingInv
    <2> QED  BY <2>1, <2>2 DEF Unhindered, SiblingsBothSucceed, StateNodes
  <1>5. MarkerIsWhole
    BY <1>1 DEF DirInv, MarkerInv, MarkerIsWhole, DirState
  <1> QED  BY <1>2, <1>3, <1>4, <1>5

LEMMA DirInitInv ==
    ASSUME StateInit
    PROVE  DirInv
  <1> USE DEF StateInit
  <1>1. /\ call \in StateCalls /\ call.nodes \in Seq(StateNodes) /\ call.nodes # <<>> /\ call.file \in StateNodes
        /\ call.inside \in BOOLEAN /\ call.root \in BOOLEAN /\ call.marker \in {"none", "theirs"}
        /\ (call.kind # "chosen" => call.inside)
    BY StateAssumption
  <1>2. acc \in DirState
    BY <1>1 DEF DirState
  <1>3. Len(call.nodes) > 0
    BY <1>1
  <1> QED  BY <1>1, <1>2, <1>3 DEF DirInv, DirTypeOK, WalkInv, TouchInv, SiblingInv, MarkerInv, StartInv, InState,
       Unhindered

\* A step that leaves the nodes, what was touched and the walk as they are.
LEMMA DirEndInv ==
    ASSUME DirInv, NEW result \in {"refused", "absent", "killed"}, StateEnd(result, acc),
           result = "refused" => ~Unhindered
    PROVE  DirInv'
  <1>1. acc \in DirState
    BY DEF DirInv, DirTypeOK
  <1>2. /\ acc' \in DirState /\ acc'.result = result /\ acc'.nodes = acc.nodes /\ acc'.inside = acc.inside
        /\ acc'.touched = acc.touched /\ acc'.file = acc.file /\ acc'.marker = acc.marker
        /\ at' = "stateDone" /\ call' = call
    BY <1>1 DEF StateEnd, DirState
  <1>3. DirTypeOK' /\ WalkInv' /\ MarkerInv' /\ StartInv'
    BY <1>2 DEF DirInv, DirTypeOK, WalkInv, MarkerInv, StartInv, InState
  <1>4. TouchInv'
    BY <1>2 DEF DirInv, TouchInv
  <1>5. SiblingInv'
    BY <1>2 DEF DirInv, SiblingInv, Unhindered
  <1> QED  BY <1>3, <1>4, <1>5 DEF DirInv
\* The start: what Git tracks is refused before anything is touched.
LEMMA DirStartInv ==
    ASSUME DirInv, at = "stateStart", ScratchStart \/ PrivateStart
    PROVE  DirInv'
  <1>1. /\ acc \in DirState /\ acc.touched = {} /\ call \in StateCalls /\ Len(acc.nodes) \in Nat /\ Len(acc.nodes) > 0
        /\ acc.i = 1 /\ acc.first = 1
    BY DEF DirInv, DirTypeOK, TouchInv, StartInv, DirState
  <1>2. ASSUME StateEnd("refused", acc) \/ StateEnd("absent", acc), ~call.root \/ RefuseTracked
        PROVE  DirInv'
    BY <1>2, DirEndInv DEF Unhindered, RefuseTracked
  <1>3. ASSUME NEW new \in DirState, StateGoto("stateLook", new), new.nodes = acc.nodes, new.inside = acc.inside,
               new.file = acc.file, new.marker = acc.marker, new.i = acc.i, new.first = acc.first,
               call.kind # "chosen", call.kind = "scratch" => ~call.tracked,
               \/ new.touched = {}
               \/ new.touched = {<<0, "made">>} /\ call.access = "write"
        PROVE  DirInv'
    <2>1. acc' = new /\ call' = call /\ at' = "stateLook"
      BY <1>3 DEF StateGoto
    <2>2. DirTypeOK'
      BY <1>1, <1>3, <2>1 DEF DirInv, DirTypeOK, InState
    <2>3. WalkInv' /\ MarkerInv' /\ StartInv'
      BY <1>1, <1>3, <2>1 DEF DirInv, WalkInv, MarkerInv, StartInv
    <2>4. TouchInv'
      BY <1>1, <1>3, <2>1 DEF TouchInv
    <2>5. SiblingInv'
      BY <1>3, <2>1 DEF DirInv, SiblingInv, Unhindered
    <2> QED  BY <2>2, <2>3, <2>4, <2>5 DEF DirInv
  <1>4. CASE ScratchStart
    <2>1. acc.inside /\ call.kind = "scratch"
      BY <1>4 DEF ScratchStart, DirInv, WalkInv
    <2>2. CASE ~call.root \/ RefuseTracked
      BY <1>2, <1>4, <2>2 DEF ScratchStart
    <2>3. CASE ~(~call.root \/ RefuseTracked)
      BY <1>1, <1>3, <1>4, <2>1, <2>3 DEF ScratchStart, RefuseTracked
    <2> QED  BY <2>2, <2>3
  <1>5. CASE PrivateStart
    <2>1. CASE call.root /\ StateGoto("stateLook", acc)
      BY <1>1, <1>3, <1>5, <2>1 DEF PrivateStart
    <2>2. CASE ~call.root /\ StateEnd("absent", acc)
      BY <1>2, <2>2
    <2>3. CASE /\ call.access = "write"
               /\ StateGoto("stateLook", [acc EXCEPT !.root = TRUE, !.touched = @ \cup {<<0, "made">>}])
      <3>a. PICK t : t = acc.touched \cup {<<0, "made">>}
        OBVIOUS
      <3>b. t \subseteq Nat \X {"made", "mode"} /\ t = {<<0, "made">>}
        BY <1>1, <3>a
      <3>1. PICK new : new = [acc EXCEPT !.root = TRUE, !.touched = t]
        OBVIOUS
      <3>2. /\ new \in DirState /\ new.nodes = acc.nodes /\ new.inside = acc.inside /\ new.file = acc.file
            /\ new.marker = acc.marker /\ new.i = acc.i /\ new.first = acc.first /\ new.touched = {<<0, "made">>}
        BY <1>1, <3>b, <3>1 DEF DirState
      <3>3. StateGoto("stateLook", new)
        BY <2>3, <3>a, <3>1
      <3> QED  BY <1>3, <1>5, <2>3, <3>2, <3>3 DEF PrivateStart
    <2> QED  BY <1>5, <2>1, <2>2, <2>3 DEF PrivateStart
  <1> QED  BY <1>4, <1>5

\* Links are followed only where there are some.
LEMMA ChosenStartInv ==
    ASSUME DirInv, at = "stateStart", ChosenStart
    PROVE  DirInv'
  <1>1. /\ acc \in DirState /\ acc.touched = {} /\ call \in StateCalls /\ acc.nodes \in Seq(StateNodes)
        /\ Len(acc.nodes) \in Nat /\ Len(acc.nodes) > 0 /\ call.kind = "chosen"
    BY DEF DirInv, DirTypeOK, TouchInv, DirState, ChosenStart
  <1>2. Unhindered => Links = {} /\ ~Blocked
    <2>1. SUFFICES ASSUME Unhindered
                   PROVE  \A j \in DOMAIN acc.nodes : acc.nodes[j].what \in {"missing", "dir"}
      BY <1>1 DEF Links, Blocked
    <2> QED  BY <2>1 DEF DirInv, SiblingInv
  <1>3. CASE Blocked \/ \E i \in Links : acc.nodes[i].to = "nothing"
    BY <1>2, <1>3, DirEndInv DEF ChosenStart
  <1>4. CASE ~(Blocked \/ \E i \in Links : acc.nodes[i].to = "nothing")
    <2>1. PICK new \in DirState :
              /\ new = Physical /\ new.touched = acc.touched /\ new.file = acc.file /\ new.marker = acc.marker
              /\ new.i = acc.i /\ new.first = acc.first /\ new.result = acc.result
              /\ Len(new.nodes) > 0 /\ (Links = {} => new.nodes = acc.nodes)
      <3>1. CASE Links = {}
        BY <1>1, <3>1 DEF Physical
      <3>2. CASE Links # {}
        <4>1. Links \subseteq 0..Len(acc.nodes) /\ Links \subseteq DOMAIN acc.nodes
          BY <1>1 DEF Links
        <4>2. \E i \in Links : \A j \in Links : j <= i
          BY <1>1, <3>2, <4>1, Greatest
        <4>3. PICK l : l = LastLink
          OBVIOUS
        <4>4. l \in DOMAIN acc.nodes
          BY <4>1, <4>2, <4>3 DEF LastLink
        <4>5. PICK tail : tail = SubSeq(acc.nodes, l + 1, Len(acc.nodes))
          OBVIOUS
        <4>6. tail \in Seq(StateNodes)
          BY <1>1, <4>4, <4>5
        <4>7. PICK ns : ns = <<LinkTarget>> \o tail
          OBVIOUS
        <4>8. ns \in Seq(StateNodes) /\ Len(ns) > 0
          <5>1. LinkTarget \in StateNodes
            BY DEF LinkTarget, PrivateDir, Missing, StateNodes
          <5>2. <<LinkTarget>> \in Seq(StateNodes) /\ Len(<<LinkTarget>>) = 1
            BY <5>1
          <5> QED  BY <4>6, <4>7, <5>2
        <4>9. PICK inside \in BOOLEAN : inside = (acc.nodes[l].to = "inside")
          OBVIOUS
        <4>10. PICK new : new = [acc EXCEPT !.nodes = ns, !.inside = inside]
          OBVIOUS
        <4>11. new = Physical
          BY <1>1, <3>2, <4>3, <4>5, <4>7, <4>9, <4>10 DEF Physical
        <4>12. /\ new \in DirState /\ new.touched = acc.touched /\ new.file = acc.file /\ new.marker = acc.marker
               /\ new.i = acc.i /\ new.first = acc.first /\ new.result = acc.result /\ new.nodes = ns
          BY <1>1, <4>8, <4>9, <4>10 DEF DirState
        <4> QED  BY <3>2, <4>8, <4>11, <4>12
      <3> QED  BY <3>1, <3>2
    <2>2. acc' = new /\ call' = call /\ at' = "stateSplit"
      BY <1>4, <2>1 DEF ChosenStart, StateGoto
    <2>3. DirTypeOK' /\ WalkInv' /\ MarkerInv' /\ StartInv'
      BY <1>1, <2>1, <2>2 DEF DirInv, DirTypeOK, InState, WalkInv, MarkerInv, StartInv
    <2>4. TouchInv'
      BY <1>1, <2>1, <2>2 DEF TouchInv
    <2>5. SiblingInv'
      BY <1>2, <2>1, <2>2 DEF DirInv, SiblingInv, Unhindered
    <2> QED  BY <2>3, <2>4, <2>5 DEF DirInv
  <1> QED  BY <1>3, <1>4

LEMMA ChosenSplitInv ==
    ASSUME DirInv, at = "stateSplit", ChosenSplit
    PROVE  DirInv'
  <1>1. /\ acc \in DirState /\ acc.touched = {} /\ call \in StateCalls /\ acc.nodes \in Seq(StateNodes)
        /\ Len(acc.nodes) \in Nat /\ Len(acc.nodes) > 0 /\ call.kind = "chosen"
    BY DEF DirInv, DirTypeOK, TouchInv, WalkInv, DirState
  <1>2. CASE RefuseTracked
    BY <1>2, DirEndInv DEF ChosenSplit, RefuseTracked, Unhindered
  <1>3. CASE ~RefuseTracked
    <2>1. FirstMissing \in 1..Len(acc.nodes)
      <3>1. PICK absent : absent = {i \in DOMAIN acc.nodes : acc.nodes[i].what = "missing"}
        OBVIOUS
      <3>2. absent \subseteq 1..Len(acc.nodes)
        BY <1>1, <3>1
      <3>3. \E i \in absent \cup {Len(acc.nodes)} : \A j \in absent \cup {Len(acc.nodes)} : i <= j
        <4>1. PICK S : S = absent \cup {Len(acc.nodes)}
          OBVIOUS
        <4>2. S \subseteq Nat /\ S # {}
          <5>1. \A n \in Nat : 1..n \subseteq Nat
            OBVIOUS
          <5>2. absent \subseteq Nat
            BY <1>1, <3>2, <5>1
          <5> QED  BY <1>1, <4>1, <5>2
        <4> QED  BY <4>1, <4>2, Smallest
      <3>4. FirstMissing = CHOOSE i \in absent \cup {Len(acc.nodes)} : \A j \in absent : i <= j
        BY <3>1 DEF FirstMissing
      <3>5. FirstMissing \in absent \cup {Len(acc.nodes)}
        <4>1. PICK S : S = absent \cup {Len(acc.nodes)}
          OBVIOUS
        <4>2. \E i \in S : \A j \in absent : i <= j
          BY <3>3, <4>1
        <4>3. FirstMissing = CHOOSE i \in S : \A j \in absent : i <= j
          BY <3>4, <4>1, Zenon
        <4> QED  BY <4>1, <4>2, <4>3
      <3> QED  BY <1>1, <3>2, <3>5
    <2>2. PICK first \in 1..Len(acc.nodes) : first = IF acc.inside THEN 1 ELSE FirstMissing
      BY <1>1, <2>1
    <2>3. PICK new : new = [acc EXCEPT !.i = first, !.first = first, !.owned = Len(acc.nodes)]
      OBVIOUS
    <2>4. /\ new \in DirState /\ new.nodes = acc.nodes /\ new.inside = acc.inside /\ new.file = acc.file
          /\ new.marker = acc.marker /\ new.i = first /\ new.first = first /\ new.touched = {}
          /\ new.owned = Len(acc.nodes)
      <3>1. first \in Nat /\ Len(acc.nodes) \in Nat
        BY <1>1
      <3> QED  BY <1>1, <2>3, <3>1 DEF DirState
    <2>5. acc' = new /\ call' = call /\ at' = "stateLook"
      BY <1>3, <2>2, <2>3 DEF ChosenSplit, StateGoto
    <2>6. DirTypeOK' /\ WalkInv' /\ MarkerInv' /\ StartInv'
      BY <1>1, <2>2, <2>4, <2>5 DEF DirInv, DirTypeOK, InState, WalkInv, MarkerInv, StartInv
    <2>7. TouchInv'
      BY <1>1, <1>3, <2>4, <2>5 DEF TouchInv, RefuseTracked
    <2>8. SiblingInv'
      BY <2>4, <2>5 DEF DirInv, SiblingInv, Unhindered
    <2> QED  BY <2>6, <2>7, <2>8 DEF DirInv
  <1> QED  BY <1>2, <1>3

\* A component that was verified is passed, and its mode is repaired.
LEMMA VerifyDirInv ==
    ASSUME DirInv, at \in {"stateLook", "stateRelook"}, VerifyDir, Unhindered => Node.what = "dir"
    PROVE  DirInv'
  <1>1. /\ acc \in DirState /\ call \in StateCalls /\ acc.nodes \in Seq(StateNodes)
        /\ Len(acc.nodes) \in Nat /\ acc.i \in 1..Len(acc.nodes) /\ acc.first \in 1..acc.i /\ acc.owned \in Nat
        /\ Node \in StateNodes /\ Node = acc.nodes[acc.i]
    BY DEF DirInv, DirTypeOK, WalkInv, DirState, Node
  <1>2. CASE Node.what # "dir" \/ ~IsOurs(Node)
    <2>1. Unhindered => IsOurs(Node)
      BY <1>1 DEF DirInv, SiblingInv, IsOurs
    <2> QED  BY <1>2, <2>1, DirEndInv DEF VerifyDir
  <1>3. CASE Node.what = "dir" /\ IsOurs(Node)
    <2>1. PICK new \in DirState :
              /\ NextComponent(new)
              /\ new.inside = acc.inside /\ new.file = acc.file /\ new.marker = acc.marker /\ new.i = acc.i
              /\ new.first = acc.first /\ new.owned = acc.owned
              /\ Len(new.nodes) = Len(acc.nodes)
              /\ \A j \in 1..Len(acc.nodes) : j # acc.i => new.nodes[j] = acc.nodes[j]
              /\ new.nodes[acc.i].what = "dir" /\ new.nodes[acc.i].mine
              /\ (call.access = "write" /\ acc.i >= acc.owned) => ~new.nodes[acc.i].open
              /\ \/ new.touched = acc.touched
                 \/ /\ call.access = "write" /\ acc.i >= acc.owned
                    /\ new.touched = acc.touched \cup {<<acc.i, "mode">>}
      <3>1. CASE call.access = "write" /\ acc.i >= acc.owned /\ Node.open
        <4>1. PICK node : node = Repaired(Node)
          OBVIOUS
        <4>2. node \in StateNodes /\ node.what = "dir" /\ node.mine /\ ~node.open
          BY <1>1, <1>3, <4>1 DEF Repaired, StateNodes, IsOurs
        <4>3. PICK ns : ns = [acc.nodes EXCEPT ![acc.i] = node]
          OBVIOUS
        <4>4. /\ ns \in Seq(StateNodes) /\ Len(ns) = Len(acc.nodes) /\ ns[acc.i] = node
              /\ \A j \in 1..Len(acc.nodes) : j # acc.i => ns[j] = acc.nodes[j]
          BY <1>1, <4>2, <4>3
        <4>5. PICK t : t = acc.touched \cup {<<acc.i, "mode">>}
          OBVIOUS
        <4>6. t \subseteq Nat \X {"made", "mode"}
          BY <1>1, <4>5 DEF DirState
        <4>7. PICK new : new = [acc EXCEPT !.nodes = ns, !.touched = t]
          OBVIOUS
        <4>8. new = [acc EXCEPT !.nodes[acc.i] = Repaired(@), !.touched = @ \cup {<<acc.i, "mode">>}]
          BY <1>1, <4>1, <4>3, <4>5, <4>7 DEF DirState
        <4>9. NextComponent(new)
          BY <1>3, <3>1, <4>8 DEF VerifyDir
        <4>10. /\ new \in DirState /\ new.nodes = ns /\ new.touched = t /\ new.inside = acc.inside
               /\ new.file = acc.file /\ new.marker = acc.marker /\ new.i = acc.i
               /\ new.first = acc.first /\ new.owned = acc.owned
          BY <1>1, <4>4, <4>6, <4>7 DEF DirState
        <4> QED  BY <3>1, <4>2, <4>4, <4>5, <4>9, <4>10
      <3>2. CASE ~(call.access = "write" /\ acc.i >= acc.owned /\ Node.open)
        <4>1. NextComponent(acc)
          BY <1>3, <3>2 DEF VerifyDir
        <4> QED  BY <1>1, <1>3, <3>2, <4>1 DEF IsOurs
      <3> QED  BY <3>1, <3>2
    <2>2. \A j \in acc.first..acc.i :
              /\ new.nodes[j].what = "dir" /\ new.nodes[j].mine
              /\ (call.access = "write" /\ j >= acc.owned) => ~new.nodes[j].open
      <3> TAKE j \in acc.first..acc.i
      <3>1. j \in 1..Len(acc.nodes)
        BY <1>1
      <3>2. CASE j = acc.i
        BY <2>1, <3>2
      <3>3. CASE j # acc.i
        <4>1. j \in acc.first..(acc.i - 1)
          BY <1>1, <3>3
        <4>2. Passed(j)
          BY <4>1 DEF DirInv, WalkInv
        <4> QED  BY <2>1, <3>1, <3>3, <4>2 DEF Passed
      <3> QED  BY <3>2, <3>3
    <2>3. \A j \in DOMAIN new.nodes :
              <<j, "mode">> \in new.touched =>
                  new.nodes[j].what = "dir" /\ new.nodes[j].mine /\ (call.kind = "chosen" => j = Len(acc.nodes))
      <3> SUFFICES ASSUME NEW j \in 1..Len(acc.nodes), <<j, "mode">> \in new.touched
                   PROVE  new.nodes[j].what = "dir" /\ new.nodes[j].mine /\ (call.kind = "chosen" => j = Len(acc.nodes))
        BY <2>1 DEF DirState
      <3>1. CASE j = acc.i /\ acc.i >= acc.owned
        BY <1>1, <2>1, <3>1 DEF DirInv, WalkInv
      <3>2. CASE <<j, "mode">> \in acc.touched
        BY <1>1, <2>1, <3>2 DEF DirInv, TouchInv
      <3> QED  BY <2>1, <3>1, <3>2
    <2>4. Unhindered => \A j \in DOMAIN new.nodes : new.nodes[j].what \in {"missing", "dir"} /\ new.nodes[j].mine
      <3> SUFFICES ASSUME Unhindered, NEW j \in 1..Len(acc.nodes)
                   PROVE  new.nodes[j].what \in {"missing", "dir"} /\ new.nodes[j].mine
        BY <2>1 DEF DirState
      <3> QED  BY <1>1, <2>1 DEF DirInv, SiblingInv
    <2>5. call.access = "read" => new.touched = {}
      BY <2>1 DEF DirInv, TouchInv
    <2>6. ~(call.tracked /\ (call.kind = "scratch" \/ (call.kind = "chosen" /\ acc.inside)))
      BY DEF DirInv, TouchInv
    <2>7. CASE LinkInScratch
      <3>1. ~Unhindered
        <4>1. Unhindered => \A j \in DOMAIN acc.nodes : acc.nodes[j].what # "link"
          BY DEF DirInv, SiblingInv
        <4> QED  BY <1>1, <2>7, <4>1 DEF LinkInScratch, Unhindered
      <3>2. StateEnd("refused", new)
        BY <2>1, <2>7 DEF NextComponent
      <3>3. /\ acc' \in DirState /\ acc'.result = "refused" /\ acc'.nodes = new.nodes /\ acc'.inside = acc.inside
            /\ acc'.touched = new.touched /\ acc'.file = acc.file /\ acc'.marker = acc.marker
            /\ at' = "stateDone" /\ call' = call
        BY <2>1, <3>2 DEF StateEnd, DirState
      <3>4. DirTypeOK' /\ WalkInv' /\ MarkerInv' /\ StartInv'
        BY <1>1, <2>1, <3>3 DEF DirInv, DirTypeOK, WalkInv, MarkerInv, InState, StartInv
      <3>5. TouchInv'
        BY <2>1, <2>3, <2>5, <2>6, <3>3 DEF TouchInv
      <3>6. SiblingInv'
        BY <3>1, <3>3 DEF SiblingInv, Unhindered
      <3> QED  BY <3>4, <3>5, <3>6 DEF DirInv
    <2>8. CASE ~LinkInScratch /\ acc.i < Len(acc.nodes)
      <3>1. StateGoto("stateLook", [new EXCEPT !.i = @ + 1])
        BY <2>1, <2>8 DEF NextComponent
      <3>2. /\ acc' \in DirState /\ acc'.i = acc.i + 1 /\ acc'.nodes = new.nodes /\ acc'.inside = acc.inside
            /\ acc'.touched = new.touched /\ acc'.file = acc.file /\ acc'.marker = acc.marker
            /\ acc'.first = acc.first /\ acc'.owned = acc.owned
            /\ at' = "stateLook" /\ call' = call
        BY SMTT(30), <2>1, <3>1 DEF StateGoto, DirState
      <3>3. DirTypeOK' /\ MarkerInv' /\ StartInv'
        BY <1>1, <2>1, <3>2 DEF DirInv, DirTypeOK, MarkerInv, InState, StartInv
      <3>4. WalkInv'
        <4>1. /\ acc'.i \in 1..Len(acc'.nodes) /\ acc'.first \in 1..acc'.i /\ acc'.i - 1 = acc.i
          BY <1>1, <2>1, <2>8, <3>2
        <4>2. \A j \in acc'.first..(acc'.i - 1) : Passed(j)'
          BY <2>2, <3>2, <4>1 DEF Passed
        <4>3. (call.kind = "chosen" => acc'.owned = Len(acc'.nodes)) /\ (call.kind # "chosen" => acc'.inside)
          BY <2>1, <3>2 DEF DirInv, WalkInv
        <4> QED  BY <3>2, <4>1, <4>2, <4>3 DEF WalkInv
      <3>5. TouchInv'
        BY <2>1, <2>3, <2>5, <2>6, <3>2 DEF TouchInv
      <3>6. SiblingInv'
        BY <2>4, <3>2 DEF DirInv, SiblingInv, Unhindered
      <3> QED  BY <3>3, <3>4, <3>5, <3>6 DEF DirInv
    <2>9. CASE ~LinkInScratch /\ ~(acc.i < Len(acc.nodes))
      <3>1. StateGoto("stateFile", new)
        BY <2>1, <2>9 DEF NextComponent
      <3>2. acc' = new /\ at' = "stateFile" /\ call' = call
        BY <3>1 DEF StateGoto
      <3>3. DirTypeOK' /\ MarkerInv' /\ StartInv'
        BY <1>1, <2>1, <3>2 DEF DirInv, DirTypeOK, MarkerInv, InState, StartInv
      <3>4. WalkInv'
        <4>1. acc.i = Len(acc'.nodes)
          BY <1>1, <2>1, <2>9, <3>2
        <4>2. \A j \in acc'.first..Len(acc'.nodes) : Passed(j)'
          BY <2>1, <2>2, <3>2, <4>1 DEF Passed
        <4>3. acc'.first \in 1..Len(acc'.nodes) /\ (call.kind # "chosen" => acc'.inside)
          BY <1>1, <2>1, <3>2, <4>1 DEF DirInv, WalkInv
        <4> QED  BY <3>2, <4>2, <4>3 DEF WalkInv
      <3>5. TouchInv'
        BY <2>1, <2>3, <2>5, <2>6, <3>2 DEF TouchInv
      <3>6. SiblingInv'
        BY <2>1, <2>4, <3>2 DEF DirInv, SiblingInv, Unhindered
      <3> QED  BY <3>3, <3>4, <3>5, <3>6 DEF DirInv
    <2> QED  BY <2>7, <2>8, <2>9
  <1> QED  BY <1>2, <1>3
LEMMA LookInv ==
    ASSUME DirInv, \/ at = "stateLook" /\ LookAtComponent
                   \/ at = "stateRelook" /\ LookAgain
    PROVE  DirInv'
  <1>1. CASE at = "stateRelook" /\ LookAgain
    <2>1. Unhindered => Node.what = "dir"
      BY <1>1 DEF DirInv, SiblingInv
    <2> QED  BY <1>1, <2>1, VerifyDirInv DEF LookAgain
  <1>2. CASE at = "stateLook" /\ LookAtComponent
    <2>1. acc.i \in DOMAIN acc.nodes /\ acc \in DirState
      BY <1>2 DEF DirInv, DirTypeOK, WalkInv, DirState
    <2>2. CASE Node.what # "missing" /\ VerifyDir
      <3>1. Unhindered => Node.what = "dir"
        BY <2>1, <2>2 DEF DirInv, SiblingInv, Node
      <3> QED  BY <1>2, <2>2, <3>1, VerifyDirInv
    <2>3. CASE StateEnd("absent", acc)
      BY <2>3, DirEndInv
    <2>4. CASE call.access = "write" /\ StateGoto("stateMake", acc)
      <3>1. acc' = acc /\ call' = call /\ at' = "stateMake"
        BY <2>4 DEF StateGoto
      <3>2. DirTypeOK' /\ StartInv' /\ WalkInv' /\ MarkerInv'
        BY <1>2, <3>1 DEF DirInv, DirTypeOK, InState, StartInv, WalkInv, MarkerInv, Passed
      <3>3. TouchInv'
        BY <1>2, <2>4, <3>1 DEF DirInv, TouchInv
      <3>4. SiblingInv'
        BY <3>1 DEF DirInv, SiblingInv, Unhindered
      <3> QED  BY <3>2, <3>3, <3>4 DEF DirInv
    <2> QED  BY <1>2, <2>2, <2>3, <2>4 DEF LookAtComponent
  <1> QED  BY <1>1, <1>2

\* Only a missing component changes, on the way or by a rival: what was passed
\* or has a mode of ours is as it was.
LEMMA NodeMadeInv ==
    ASSUME DirInv, NEW k \in DOMAIN acc.nodes, acc.nodes[k].what = "missing", NEW node \in StateNodes,
           NEW place, NEW t \in SUBSET (Nat \X {"made", "mode"}),
           StateGoto(place, [acc EXCEPT !.nodes = [acc.nodes EXCEPT ![k] = node], !.touched = t]),
           \/ /\ place = at /\ at \in {"stateSplit", "stateLook", "stateMake", "stateFile", "stateFill", "stateLink"}
              /\ t = acc.touched
           \/ /\ place = "stateRelook" /\ at = "stateMake" /\ k = acc.i /\ call.access = "write"
              /\ t = acc.touched \cup {<<k, "made">>},
           Unhindered => node = PrivateDir
    PROVE  DirInv'
  <1>1. /\ acc \in DirState /\ call \in StateCalls /\ acc.nodes \in Seq(StateNodes) /\ Len(acc.nodes) \in Nat
        /\ Len(acc.nodes) > 0 /\ DOMAIN acc.nodes = 1..Len(acc.nodes)
    BY DEF DirInv, DirTypeOK, DirState
  <1>2. PICK ns : ns = [acc.nodes EXCEPT ![k] = node]
    OBVIOUS
  <1>3. /\ ns \in Seq(StateNodes) /\ Len(ns) = Len(acc.nodes) /\ DOMAIN ns = DOMAIN acc.nodes /\ ns[k] = node
        /\ \A j \in DOMAIN acc.nodes : j # k => ns[j] = acc.nodes[j]
    BY <1>1, <1>2
  <1>4. /\ acc' \in DirState /\ acc'.nodes = ns /\ acc'.touched = t /\ acc'.inside = acc.inside
        /\ acc'.file = acc.file /\ acc'.marker = acc.marker /\ acc'.i = acc.i /\ acc'.first = acc.first
        /\ acc'.owned = acc.owned /\ acc'.temp = acc.temp /\ acc'.result = acc.result
        /\ at' = place /\ call' = call
    BY <1>1, <1>2, <1>3 DEF StateGoto, DirState
  <1>5. DirTypeOK' /\ StartInv' /\ MarkerInv'
    BY <1>1, <1>3, <1>4 DEF DirInv, DirTypeOK, InState, StartInv, MarkerInv
  <1>6. \A j \in DOMAIN acc.nodes : Passed(j) => Passed(j)'
    BY <1>3, <1>4 DEF Passed
  <1>7. WalkInv'
    <2>1. CASE at \in {"stateLook", "stateMake"}
      <3>1. /\ acc.i \in 1..Len(acc.nodes) /\ acc.first \in 1..acc.i
            /\ \A j \in acc.first..(acc.i - 1) : Passed(j)
            /\ call.kind = "chosen" => acc.owned = Len(acc.nodes)
            /\ call.kind # "chosen" => acc.inside
        BY <2>1 DEF DirInv, WalkInv
      <3>2. \A n \in Nat : \A i \in 1..n : \A f \in 1..i : \A j \in f..(i - 1) : j \in 1..n
        OBVIOUS
      <3>3. \A j \in acc.first..(acc.i - 1) : j \in DOMAIN acc.nodes
        BY <1>1, <3>1, <3>2
      <3>4. \A j \in acc'.first..(acc'.i - 1) : Passed(j)'
        BY <1>4, <1>6, <3>1, <3>3
      <3> QED  BY <1>3, <1>4, <2>1, <3>1, <3>4 DEF WalkInv
    <2>2. CASE at \in {"stateFile", "stateFill", "stateLink"}
      <3>1. /\ acc.first \in 1..Len(acc.nodes)
            /\ \A j \in acc.first..Len(acc.nodes) : Passed(j)
        BY <2>2 DEF DirInv, WalkInv
      <3>2. \A j \in acc.first..Len(acc.nodes) : Passed(j)'
        BY <1>1, <1>6, <3>1
      <3> QED  BY <1>3, <1>4, <2>2, <3>2 DEF DirInv, WalkInv
    <2>3. CASE at = "stateSplit"
      BY <1>4, <2>3 DEF DirInv, WalkInv
    <2> QED  BY <2>1, <2>2, <2>3
  <1>8. TouchInv'
    <2>1. \A j \in DOMAIN acc.nodes :
              <<j, "mode">> \in t =>
                  ns[j].what = "dir" /\ ns[j].mine /\ (call.kind = "chosen" => j = Len(ns))
      BY <1>3 DEF DirInv, TouchInv
    <2> QED  BY <1>3, <1>4, <2>1 DEF DirInv, TouchInv
  <1>9. SiblingInv'
    <2>1. PrivateDir.what = "dir" /\ PrivateDir.mine
      BY DEF PrivateDir, Missing
    <2> QED  BY <1>3, <1>4, <2>1 DEF DirInv, SiblingInv, Unhindered, Node
  <1> QED  BY <1>5, <1>7, <1>8, <1>9 DEF DirInv

LEMMA MakeInv ==
    ASSUME DirInv, at = "stateMake", MakeComponent
    PROVE  DirInv'
  <1>1. /\ acc \in DirState /\ call.access = "write" /\ acc.i \in DOMAIN acc.nodes /\ acc.i \in Nat
        /\ Node = acc.nodes[acc.i]
    BY DEF DirInv, DirTypeOK, WalkInv, TouchInv, DirState, Node
  <1>2. CASE Node.what = "missing"
    <2>1. PICK t : t = acc.touched \cup {<<acc.i, "made">>}
      OBVIOUS
    <2>2. t \in SUBSET (Nat \X {"made", "mode"})
      BY <1>1, <2>1 DEF DirState
    <2>3. StateGoto("stateRelook", [acc EXCEPT !.nodes = [acc.nodes EXCEPT ![acc.i] = PrivateDir], !.touched = t])
      <3>1. [acc EXCEPT !.nodes[acc.i] = PrivateDir, !.touched = @ \cup {<<acc.i, "made">>}]
            = [acc EXCEPT !.nodes = [acc.nodes EXCEPT ![acc.i] = PrivateDir], !.touched = t]
        BY <1>1, <2>1 DEF DirState
      <3> QED  BY <1>2, <3>1 DEF MakeComponent
    <2>4. PrivateDir \in StateNodes
      BY DEF PrivateDir, Missing, StateNodes
    <2> QED  BY <1>1, <1>2, <2>1, <2>2, <2>3, <2>4, NodeMadeInv
  <1>3. CASE Node.what # "missing"
    <2>1. acc' = acc /\ call' = call /\ at' = "stateRelook"
      BY <1>3 DEF MakeComponent, StateGoto
    <2>2. DirTypeOK' /\ StartInv' /\ WalkInv' /\ MarkerInv'
      BY <2>1 DEF DirInv, DirTypeOK, InState, StartInv, WalkInv, MarkerInv, Passed
    <2>3. TouchInv'
      BY <2>1 DEF DirInv, TouchInv
    <2>4. SiblingInv'
      BY <1>1, <1>3, <2>1 DEF DirInv, SiblingInv, Unhindered, Node
    <2> QED  BY <2>2, <2>3, <2>4 DEF DirInv
  <1> QED  BY <1>2, <1>3

\* From the last component on only the file, the marker and what was touched
\* beyond the components change.
LEMMA AfterWalkInv ==
    ASSUME DirInv, at \in {"stateFile", "stateMark", "stateFill", "stateLink"},
           acc' \in DirState, call' = call,
           at' \in {"stateMark", "stateFill", "stateLink"} \/ (at' = "stateDone" /\ acc'.result = "dir"),
           acc'.nodes = acc.nodes, acc'.inside = acc.inside, acc'.first = acc.first, acc'.owned = acc.owned,
           call.access = "read" => acc'.touched = acc.touched,
           \A j \in DOMAIN acc.nodes : <<j, "mode">> \in acc'.touched => <<j, "mode">> \in acc.touched,
           acc'.file = acc.file \/ (acc'.file.what = "file" /\ (acc.file.mine => acc'.file.mine)),
           at' = "stateLink" => acc'.temp = "whole",
           acc.marker = "theirs" => acc'.marker = "theirs"
    PROVE  DirInv'
  <1>1. DirTypeOK' /\ StartInv' /\ MarkerInv'
    BY DEF DirInv, DirTypeOK, InState, StartInv, MarkerInv
  <1>2. WalkInv'
    BY DEF DirInv, WalkInv, Passed
  <1>3. TouchInv'
    BY DEF DirInv, TouchInv
  <1>4. SiblingInv'
    BY DEF DirInv, SiblingInv, Unhindered
  <1> QED  BY <1>1, <1>2, <1>3, <1>4 DEF DirInv

LEMMA StateFileInv ==
    ASSUME DirInv, at = "stateFile", OpenStateFile
    PROVE  DirInv'
  <1>1. /\ acc \in DirState /\ acc.nodes \in Seq(StateNodes) /\ Len(acc.nodes) \in Nat /\ acc.file \in StateNodes
        /\ DOMAIN acc.nodes = 1..Len(acc.nodes)
    BY DEF DirInv, DirTypeOK, DirState
  <1>2. CASE StateGoto("stateMark", acc)
    <2>1. acc' = acc /\ call' = call /\ at' = "stateMark"
      BY <1>2 DEF StateGoto
    <2> QED  BY <1>1, <2>1, AfterWalkInv
  <1>3. ASSUME NEW file \in StateNodes, NEW what \in {"made", "mode"}, file.what = "file", acc.file.mine => file.mine,
               call.access = "write",
               StateGoto("stateMark", [acc EXCEPT !.file = file, !.touched = acc.touched \cup {<<Len(acc.nodes) + 1, what>>}])
        PROVE  DirInv'
    <2>1. PICK t : t = acc.touched \cup {<<Len(acc.nodes) + 1, what>>}
      OBVIOUS
    <2>2. t \subseteq Nat \X {"made", "mode"}
      BY <1>1, <2>1 DEF DirState
    <2>3. /\ acc' \in DirState /\ acc'.nodes = acc.nodes /\ acc'.inside = acc.inside /\ acc'.first = acc.first
          /\ acc'.owned = acc.owned /\ acc'.file = file /\ acc'.touched = t /\ acc'.marker = acc.marker
          /\ call' = call /\ at' = "stateMark"
      BY <1>1, <1>3, <2>1, <2>2 DEF StateGoto, DirState
    <2>4. \A j \in DOMAIN acc.nodes : <<j, "mode">> \in acc'.touched => <<j, "mode">> \in acc.touched
      <3>1. \A j \in DOMAIN acc.nodes : j # Len(acc.nodes) + 1
        BY <1>1
      <3> QED  BY <2>1, <2>3, <3>1
    <2> QED  BY <1>3, <2>3, <2>4, AfterWalkInv
  <1>4. CASE /\ acc.file.what = "missing" /\ call.access = "write"
             /\ StateGoto("stateMark", [acc EXCEPT !.file = PrivateFile, !.touched = @ \cup {<<Len(acc.nodes) + 1, "made">>}])
    <2>1. PrivateFile \in StateNodes /\ PrivateFile.what = "file" /\ PrivateFile.mine
      BY DEF PrivateFile, Missing, StateNodes
    <2> QED  BY <1>1, <1>3, <1>4, <2>1
  <1>5. CASE /\ acc.file.what # "missing" /\ (acc.file.what # "file" \/ ~IsOurs(acc.file))
             /\ StateEnd("refused", acc)
    <2>1. ~Unhindered
      BY <1>5 DEF DirInv, SiblingInv, IsOurs
    <2> QED  BY <1>5, <2>1, DirEndInv
  <1>6. CASE /\ acc.file.what = "file" /\ call.access = "write"
             /\ StateGoto("stateMark", [acc EXCEPT !.file = Repaired(@), !.touched = @ \cup {<<Len(acc.nodes) + 1, "mode">>}])
    <2>1. Repaired(acc.file) \in StateNodes /\ Repaired(acc.file).what = "file" /\ Repaired(acc.file).mine = acc.file.mine
      BY <1>1, <1>6 DEF Repaired, StateNodes
    <2> QED  BY <1>1, <1>3, <1>6, <2>1
  <1> QED  BY <1>2, <1>4, <1>5, <1>6 DEF OpenStateFile

LEMMA MarkInv ==
    ASSUME DirInv, \/ at = "stateMark" /\ StartMarker
                   \/ at = "stateFill" /\ FillMarker
                   \/ at = "stateLink" /\ LinkMarker
    PROVE  DirInv'
  <1>1. acc \in DirState
    BY DEF DirInv, DirTypeOK
  <1>2. at = "stateLink" => acc.temp = "whole"
    BY DEF DirInv, MarkerInv
  <1>3. PICK new, place :
            /\ acc' = new /\ call' = call /\ at' = place
            /\ \/ /\ at = "stateMark" /\ place = "stateDone" /\ new = [acc EXCEPT !.result = "dir"]
               \/ /\ at = "stateMark" /\ place = "stateFill" /\ new = [acc EXCEPT !.temp = "partial"]
               \/ /\ at = "stateFill" /\ place = "stateLink" /\ new = [acc EXCEPT !.temp = "whole"]
               \/ /\ at = "stateFill" /\ place = "stateDone" /\ new = [acc EXCEPT !.temp = "none", !.result = "dir"]
               \/ /\ at = "stateLink" /\ place = "stateDone"
                  /\ new = [acc EXCEPT !.temp = "none", !.result = "dir",
                                       !.marker = IF acc.marker = "none" THEN acc.temp ELSE acc.marker]
    BY <1>1 DEF StartMarker, FillMarker, LinkMarker, StateEnd, StateGoto
  <1>4. /\ new \in DirState /\ new.nodes = acc.nodes /\ new.inside = acc.inside /\ new.first = acc.first
        /\ new.owned = acc.owned /\ new.file = acc.file /\ new.touched = acc.touched
        /\ (acc.marker = "theirs" => new.marker = "theirs") /\ (place = "stateDone" => new.result = "dir")
        /\ (place = "stateLink" => new.temp = "whole")
    <2>1. CASE new = [acc EXCEPT !.result = "dir"] /\ place = "stateDone"
      BY <1>1, <2>1 DEF DirState
    <2>2. CASE new = [acc EXCEPT !.temp = "partial"] /\ place = "stateFill"
      BY <1>1, <2>2 DEF DirState
    <2>3. CASE new = [acc EXCEPT !.temp = "whole"] /\ place = "stateLink"
      BY <1>1, <2>3 DEF DirState
    <2>4. CASE new = [acc EXCEPT !.temp = "none", !.result = "dir"] /\ place = "stateDone"
      BY <1>1, <2>4 DEF DirState
    <2>5. CASE /\ at = "stateLink" /\ place = "stateDone"
               /\ new = [acc EXCEPT !.temp = "none", !.result = "dir",
                                    !.marker = IF acc.marker = "none" THEN acc.temp ELSE acc.marker]
      <3>1. acc.temp = "whole" /\ acc.marker \in {"none", "whole", "theirs"}
        BY <1>1, <1>2, <2>5 DEF DirState
      <3> QED  BY <1>1, <2>5, <3>1 DEF DirState
    <2> QED  BY <1>3, <2>1, <2>2, <2>3, <2>4, <2>5
  <1> QED  BY <1>3, <1>4, AfterWalkInv

LEMMA RivalInv ==
    ASSUME DirInv, at \in {"stateSplit", "stateLook", "stateMake", "stateFile", "stateFill", "stateLink"},
           RivalCreates
    PROVE  DirInv'
  <1>1. acc \in DirState /\ call \in StateCalls
    BY DEF DirInv, DirTypeOK
  <1>2. CASE \E i \in DOMAIN acc.nodes, node \in RivalNodes[call.rival] :
                 /\ acc.nodes[i].what = "missing"
                 /\ StateGoto(at, [acc EXCEPT !.nodes[i] = node])
    <2>1. PICK i \in DOMAIN acc.nodes, node \in RivalNodes[call.rival] :
                 /\ acc.nodes[i].what = "missing"
                 /\ StateGoto(at, [acc EXCEPT !.nodes[i] = node])
      BY <1>2
    <2>2. node \in StateNodes /\ (Unhindered => node = PrivateDir)
      BY <1>1, <2>1, StateAssumption DEF Unhindered
    <2>3. StateGoto(at, [acc EXCEPT !.nodes = [acc.nodes EXCEPT ![i] = node], !.touched = acc.touched])
      <3>1. [acc EXCEPT !.nodes[i] = node]
            = [acc EXCEPT !.nodes = [acc.nodes EXCEPT ![i] = node], !.touched = acc.touched]
        BY <1>1 DEF DirState
      <3> QED  BY <2>1, <3>1
    <2>4. acc.touched \in SUBSET (Nat \X {"made", "mode"})
      BY <1>1 DEF DirState
    <2> QED  BY <2>1, <2>2, <2>3, <2>4, NodeMadeInv
  <1>3. CASE /\ acc.marker = "none"
             /\ StateGoto(at, [acc EXCEPT !.marker = IF call.rival = "sibling" THEN "whole" ELSE "theirs"])
    <2>1. /\ acc' \in DirState /\ acc'.nodes = acc.nodes /\ acc'.touched = acc.touched /\ acc'.inside = acc.inside
          /\ acc'.file = acc.file /\ acc'.i = acc.i /\ acc'.first = acc.first /\ acc'.owned = acc.owned
          /\ acc'.temp = acc.temp /\ acc'.result = acc.result /\ at' = at /\ call' = call
      BY <1>1, <1>3 DEF StateGoto, DirState
    <2>2. DirTypeOK' /\ StartInv' /\ MarkerInv'
      BY <1>3, <2>1 DEF DirInv, DirTypeOK, InState, StartInv, MarkerInv
    <2>3. WalkInv'
      BY <2>1 DEF DirInv, WalkInv, Passed
    <2>4. TouchInv'
      BY <2>1 DEF DirInv, TouchInv
    <2>5. SiblingInv'
      BY <2>1 DEF DirInv, SiblingInv, Unhindered, Node
    <2> QED  BY <2>2, <2>3, <2>4, <2>5 DEF DirInv
  <1> QED  BY <1>2, <1>3 DEF RivalCreates

LEMMA DirStepInv ==
    ASSUME DirInv, [StateNext]_vars
    PROVE  DirInv'
  <1>1. CASE UNCHANGED vars
    <2>1. acc' = acc /\ call' = call /\ at' = at
      BY <1>1 DEF vars
    <2>2. DirTypeOK' /\ StartInv' /\ MarkerInv' /\ WalkInv'
      BY <2>1 DEF DirInv, DirTypeOK, InState, StartInv, MarkerInv, WalkInv, Passed
    <2>3. TouchInv' /\ SiblingInv'
      BY <2>1 DEF DirInv, TouchInv, SiblingInv, Unhindered, Node
    <2> QED  BY <2>2, <2>3 DEF DirInv
  <1>2. CASE KillState
    BY <1>2, DirEndInv DEF KillState
  <1> QED  BY <1>1, <1>2, DirStartInv, ChosenStartInv, ChosenSplitInv, LookInv, MakeInv, StateFileInv, MarkInv,
              RivalInv DEF StateNext
---------------------------------------------------------------------------
(* TargetSymbolCache                                                         *)

CachePlaces == {"read", "temp", "create", "write", "sync", "rename", "flush", "list", "prune", "done", "dead"}
CachedFile == [bytes : {"none", "partial", "whole"}, synced : BOOLEAN, time : Nat, made : Nat]
CacheItem == [name : CacheNames, made : Nat, remove : BOOLEAN]

CacheState ==
    [files : [CacheNames -> CachedFile], flushed : [CacheNames -> CachedFile], pc : [Writers -> CachePlaces],
     answer : [Writers -> {"none", "redacted"}], listed : [Writers -> SUBSET CacheItem],
     promised : SUBSET (CacheNames \X Nat), clock : Nat, made : Nat, restarts : Nat]

CacheTypeOK == call \in CacheCalls /\ at = "cache" /\ acc \in CacheState

\* What stands under a name, now or after a power loss: entries are whole and
\* on the disk.
GoodFile(n, f) ==
    f # NoFile =>
        /\ f.bytes \in {"partial", "whole"} /\ f.made \in 1..acc.made
        /\ n.pid = "none" => f.bytes = "whole" /\ f.synced

FileInv == \A n \in CacheNames : GoodFile(n, acc.files[n]) /\ GoodFile(n, acc.flushed[n])

\* The temporary file of a process that still writes it is no other file, nor
\* one that a prune listed under another name.
Writing(p) == acc.pc[p] \in {"write", "sync", "rename"} /\ acc.files[TempName(p)] # NoFile
TempInv ==
    \A p \in Writers : Writing(p) =>
        /\ acc.pc[p] \in {"sync", "rename"} => acc.files[TempName(p)].bytes = "whole"
        /\ acc.pc[p] = "rename" => acc.files[TempName(p)].synced
        /\ \A n \in CacheNames \ {TempName(p)} : acc.files[n].made # acc.files[TempName(p)].made
        /\ \A q \in Writers : \A item \in acc.listed[q] :
               item.name # TempName(p) => item.made # acc.files[TempName(p)].made

\* What is promised is an entry, now and after a power loss.
PromiseInv ==
    \A f \in acc.promised :
        f[1].pid = "none" /\ acc.files[f[1]] # NoFile /\ acc.flushed[f[1]] # NoFile

\* What a prune may leave as it was listed, and what it has left to do.
Surplus(p, item, K) ==
    (item.name.pid = "none" /\ item.name.version = call.version[p] /\ item.name \notin K) =>
        item.remove \/ acc.files[item.name].made # item.made
ListInv ==
    \A p \in Writers :
        /\ \A item \in acc.listed[p] : item.made \in 1..acc.made
        /\ \A item, other \in acc.listed[p] : item.name = other.name => item = other
        /\ acc.pc[p] = "prune" =>
               \E K \in SUBSET CacheNames :
                   /\ IsFiniteSet(K) /\ Cardinality(K) <= CacheKeep
                   /\ \A item \in acc.listed[p] : Surplus(p, item, K)

CacheInv == CacheTypeOK /\ FileInv /\ TempInv /\ PromiseInv /\ ListInv

LEMMA CacheNaming ==
    /\ \A p \in Writers :
           /\ EntryName(p) \in CacheNames /\ TempName(p) \in CacheNames
           /\ EntryName(p).pid = "none" /\ TempName(p).pid = p /\ TempName(p).pid # "none"
           /\ EntryName(p).version = call.version[p]
           /\ \A q \in Writers : TempName(p) # EntryName(q) /\ (p # q => TempName(p) # TempName(q))
    /\ \A n \in CacheNames : n.pid # "none" => \E p \in Writers : n = TempName(p)
  <1>1. \A p \in Writers : EntryName(p) \in CacheNames /\ TempName(p) \in CacheNames
    BY DEF CacheNames
  <1>2. \A p \in Writers :
            /\ EntryName(p).pid = "none" /\ TempName(p).pid = p /\ p # "none"
            /\ EntryName(p).version = call.version[p]
    BY CacheAssumption DEF EntryName, TempName
  <1>3. \A n \in CacheNames : n.pid # "none" => \E p \in Writers : n = TempName(p)
    BY <1>2 DEF CacheNames
  <1> QED  BY <1>1, <1>2, <1>3

LEMMA NamesAreFinite == IsFiniteSet(CacheNames)
  <1>1. PICK E, T : E = {EntryName(p) : p \in Writers} /\ T = {TempName(p) : p \in Writers}
    OBVIOUS
  <1>2. PICK e, t : e = [p \in Writers |-> EntryName(p)] /\ t = [p \in Writers |-> TempName(p)]
    OBVIOUS
  <1>3. e \in Surjection(Writers, E) /\ t \in Surjection(Writers, T)
    BY <1>1, <1>2 DEF Surjection
  <1>4. IsFiniteSet(E) /\ IsFiniteSet(T)
    BY <1>3, CacheAssumption, FS_Surjection
  <1>5. IsFiniteSet(E \cup T)
    BY <1>4, FS_Union
  <1> QED  BY <1>1, <1>5 DEF CacheNames

LEMMA NoFileIsNone == NoFile \in CachedFile /\ NoFile.made = 0 /\ NoFile.bytes = "none" /\ NoFile.synced
  BY DEF NoFile, CachedFile

LEMMA CacheInvSuffices ==
    ASSUME CacheInv
    PROVE  EntriesAreWhole /\ PublishedSurvives /\ AnswersAgree /\ PruneBounds
  <1>1. acc \in CacheState /\ call \in CacheCalls
    BY DEF CacheInv, CacheTypeOK
  <1>2. EntriesAreWhole
    BY DEF CacheInv, FileInv, GoodFile, EntriesAreWhole, Present, Whole
  <1>3. PublishedSurvives
    <2>1. \A f \in acc.promised : f[1] \in CacheNames
      BY <1>1 DEF CacheState
    <2> QED  BY <2>1 DEF CacheInv, PromiseInv, PublishedSurvives, Present
  <1>4. AnswersAgree
    BY <1>1 DEF AnswersAgree, CacheState
  <1>5. PruneBounds
    <2>1. SUFFICES ASSUME NEW p \in Writers, acc.pc[p] = "prune", PruneDone(p)
                   PROVE  Cardinality({item \in acc.listed[p] :
                              /\ item.name.pid = "none" /\ item.name.version = call.version[p]
                              /\ acc.files[item.name].made = item.made}) <= CacheKeep
      BY DEF PruneBounds
    <2>2. PICK S : S = {item \in acc.listed[p] :
                              /\ item.name.pid = "none" /\ item.name.version = call.version[p]
                              /\ acc.files[item.name].made = item.made}
      OBVIOUS
    <2>3. PICK K \in SUBSET CacheNames :
              /\ IsFiniteSet(K) /\ Cardinality(K) <= CacheKeep
              /\ \A item \in acc.listed[p] : Surplus(p, item, K)
      BY <2>1 DEF CacheInv, ListInv
    <2>4. \A item \in S : item.name \in K
      BY <2>1, <2>2, <2>3 DEF PruneDone, Surplus
    <2>5. PICK f : f = [item \in S |-> item.name]
      OBVIOUS
    <2>6. f \in Injection(S, K)
      <3>1. \A a, b \in S : a.name = b.name => a = b
        BY <2>2 DEF CacheInv, ListInv
      <3>2. f \in [S -> K] /\ \A a, b \in S : f[a] = f[b] => a = b
        BY <2>4, <2>5, <3>1
      <3> QED  BY <3>2 DEF Injection, IsInjective
    <2>7. IsFiniteSet(S) /\ Cardinality(S) <= Cardinality(K)
      BY <2>3, <2>6, FS_Injection
    <2>8. Cardinality(S) \in Nat /\ Cardinality(K) \in Nat /\ CacheKeep \in Nat
      BY <2>3, <2>7, FS_CardinalityType, CacheAssumption
    <2>9. Cardinality(S) <= CacheKeep
      BY <2>3, <2>7, <2>8
    <2> QED  BY <2>2, <2>9
  <1> QED  BY <1>2, <1>3, <1>4, <1>5

LEMMA CacheInitInv ==
    ASSUME CacheInit
    PROVE  CacheInv
  <1> USE DEF CacheInit
  <1>1. acc \in CacheState
    BY NoFileIsNone DEF CacheState, CachePlaces
  <1>2. FileInv /\ TempInv /\ PromiseInv /\ ListInv
    BY DEF FileInv, GoodFile, TempInv, Writing, PromiseInv, ListInv
  <1> QED  BY <1>1, <1>2 DEF CacheInv, CacheTypeOK
LEMMA CacheEffect ==
    ASSUME acc \in CacheState, at = "cache", NEW p \in Writers, NEW from, NEW to \in CachePlaces,
           NEW new \in CacheState, new.pc = acc.pc, CacheStep(p, from, to, new)
    PROVE  /\ acc' \in CacheState /\ call' = call /\ at' = "cache" /\ acc.pc[p] = from /\ acc'.pc[p] = to
           /\ \A q \in Writers : q # p => acc'.pc[q] = acc.pc[q]
           /\ acc'.files = new.files /\ acc'.flushed = new.flushed /\ acc'.listed = new.listed
           /\ acc'.promised = new.promised /\ acc'.made = new.made
  <1>1. PICK pc : pc = [acc.pc EXCEPT ![p] = to]
    OBVIOUS
  <1>2. pc \in [Writers -> CachePlaces] /\ pc[p] = to /\ \A q \in Writers : q # p => pc[q] = acc.pc[q]
    BY <1>1 DEF CacheState
  <1>3. acc' = [new EXCEPT !.pc = pc] /\ call' = call /\ at' = at /\ acc.pc[p] = from
    BY <1>1 DEF CacheStep, CacheState
  <1> QED  BY <1>2, <1>3 DEF CacheState

LEMMA NamesStay ==
    ASSUME call' = call
    PROVE  /\ CacheNames' = CacheNames /\ CacheState' = CacheState /\ CacheItem' = CacheItem
           /\ \A p \in Writers : EntryName(p)' = EntryName(p) /\ TempName(p)' = TempName(p)
  BY DEF CacheNames, EntryName, TempName, CacheState, CacheItem

\* A step of p that makes no file but its own temporary one, gives none a new
\* number, and leaves the others where they are.
Quiet(p) ==
    /\ acc' \in CacheState /\ call' = call /\ at' = "cache" /\ acc'.made = acc.made
    /\ \A n \in CacheNames :
           \/ acc'.files[n] = NoFile
           \/ /\ acc.files[n] # NoFile /\ acc'.files[n].made = acc.files[n].made
              /\ acc'.files[n].bytes \in {"partial", "whole"}
              /\ n.pid = "none" => acc'.files[n].bytes = "whole" /\ acc'.files[n].synced
    /\ \A q \in Writers \ {p} :
           /\ acc'.pc[q] = acc.pc[q]
           /\ acc'.files[TempName(q)] \in {acc.files[TempName(q)], NoFile}

\* What p needs of its own temporary file where it goes.
OwnTemp(p) ==
    acc'.pc[p] \in {"write", "sync", "rename"} =>
        /\ acc.pc[p] \in {"write", "sync", "rename"}
        /\ acc'.files[TempName(p)] # NoFile =>
               /\ acc'.pc[p] \in {"sync", "rename"} => acc'.files[TempName(p)].bytes = "whole"
               /\ acc'.pc[p] = "rename" => acc'.files[TempName(p)].synced

LEMMA QuietFiles ==
    ASSUME CacheInv, NEW p \in Writers, Quiet(p), acc'.flushed = acc.flushed \/ acc'.flushed = acc'.files
    PROVE  FileInv'
  <1>1. SUFFICES ASSUME NEW n \in CacheNames
                 PROVE  GoodFile(n, acc.files[n])' /\ GoodFile(n, acc.flushed[n])'
    BY NamesStay DEF FileInv, Quiet
  <1>2. GoodFile(n, acc.files[n]) /\ GoodFile(n, acc.flushed[n])
    BY DEF CacheInv, FileInv
  <1>3. acc.files[n] # NoFile => acc.files[n].made \in 1..acc.made
    BY <1>2 DEF GoodFile
  <1>4. GoodFile(n, acc.files[n])'
    BY <1>3 DEF GoodFile, Quiet, NoFile
  <1>5. GoodFile(n, acc.flushed[n])'
    <2>1. CASE acc'.flushed = acc.flushed
      BY <1>2, <2>1 DEF GoodFile, Quiet, NoFile
    <2>2. CASE acc'.flushed = acc'.files
      BY <1>4, <2>2 DEF GoodFile
    <2> QED  BY <2>1, <2>2
  <1> QED  BY <1>4, <1>5

LEMMA QuietTemp ==
    ASSUME CacheInv, NEW p \in Writers, Quiet(p), OwnTemp(p),
           \A q \in Writers : \A item \in acc'.listed[q] :
               \E old \in acc.listed[q] : item.name = old.name /\ item.made = old.made
    PROVE  TempInv'
  <1>1. call' = call /\ CacheNames' = CacheNames /\ \A q \in Writers : TempName(q)' = TempName(q)
    BY NamesStay DEF Quiet
  <1>2. SUFFICES ASSUME NEW w \in Writers, acc'.pc[w] \in {"write", "sync", "rename"},
                        acc'.files[TempName(w)] # NoFile
                 PROVE  /\ acc'.pc[w] \in {"sync", "rename"} => acc'.files[TempName(w)].bytes = "whole"
                        /\ acc'.pc[w] = "rename" => acc'.files[TempName(w)].synced
                        /\ \A n \in CacheNames \ {TempName(w)} : acc'.files[n].made # acc'.files[TempName(w)].made
                        /\ \A q \in Writers : \A item \in acc'.listed[q] :
                               item.name # TempName(w) => item.made # acc'.files[TempName(w)].made
    BY <1>1 DEF TempInv, Writing
  <1>3. TempName(w) \in CacheNames
    BY CacheNaming
  <1>4. /\ acc.files[TempName(w)] # NoFile /\ acc'.files[TempName(w)].made = acc.files[TempName(w)].made
        /\ acc.pc[w] \in {"write", "sync", "rename"}
    BY <1>2, <1>3 DEF Quiet, OwnTemp
  <1>5. /\ acc.pc[w] \in {"sync", "rename"} => acc.files[TempName(w)].bytes = "whole"
        /\ acc.pc[w] = "rename" => acc.files[TempName(w)].synced
        /\ \A n \in CacheNames \ {TempName(w)} : acc.files[n].made # acc.files[TempName(w)].made
        /\ \A q \in Writers : \A item \in acc.listed[q] :
               item.name # TempName(w) => item.made # acc.files[TempName(w)].made
    BY <1>4 DEF CacheInv, TempInv, Writing
  <1>6. /\ acc'.pc[w] \in {"sync", "rename"} => acc'.files[TempName(w)].bytes = "whole"
        /\ acc'.pc[w] = "rename" => acc'.files[TempName(w)].synced
    BY <1>2, <1>5 DEF Quiet, OwnTemp
  <1>7. \A n \in CacheNames \ {TempName(w)} : acc'.files[n].made # acc'.files[TempName(w)].made
    <2>1. acc.files[TempName(w)].made # 0
      BY <1>3, <1>4 DEF CacheInv, FileInv, GoodFile
    <2> QED  BY <1>4, <1>5, <2>1, NoFileIsNone DEF Quiet
  <1>8. \A q \in Writers : \A item \in acc'.listed[q] :
            item.name # TempName(w) => item.made # acc'.files[TempName(w)].made
    BY <1>4, <1>5
  <1> QED  BY <1>6, <1>7, <1>8

LEMMA QuietPromise ==
    ASSUME CacheInv, NEW p \in Writers, Quiet(p), acc'.promised \subseteq acc.promised, acc'.flushed = acc.flushed,
           \A f \in acc'.promised : acc'.files[f[1]] # NoFile
    PROVE  PromiseInv'
  BY DEF CacheInv, PromiseInv, NoFile

\* What was listed stays surplus when no entry gets another number.
LEMMA SurplusStays ==
    ASSUME CacheInv, NEW p \in Writers, Quiet(p), NEW q \in Writers, NEW K \in SUBSET CacheNames,
           NEW item \in acc.listed[q], Surplus(q, item, K)
    PROVE  Surplus(q, item, K)'
  <1>1. item.made \in 1..acc.made /\ item.name \in CacheNames
    BY DEF CacheInv, CacheTypeOK, ListInv, CacheState, CacheItem
  <1>2. acc'.files[item.name].made \in {0, acc.files[item.name].made}
    BY <1>1, NoFileIsNone DEF Quiet
  <1>3. item.made # 0
    BY <1>1
  <1> QED  BY <1>2, <1>3 DEF Surplus, Quiet

LEMMA QuietList ==
    ASSUME CacheInv, NEW p \in Writers, Quiet(p), acc'.pc[p] = "prune" => acc.pc[p] = "prune",
           \A q \in Writers : acc'.listed[q] = acc.listed[q] \/ (acc'.listed[q] = {} /\ acc'.pc[q] # "prune")
    PROVE  ListInv'
  <1>1. call' = call /\ CacheNames' = CacheNames /\ acc'.made = acc.made
    BY NamesStay DEF Quiet
  <1>2. SUFFICES ASSUME NEW q \in Writers
                 PROVE  /\ \A item \in acc'.listed[q] : item.made \in 1..acc'.made
                        /\ \A item, other \in acc'.listed[q] : item.name = other.name => item = other
                        /\ acc'.pc[q] = "prune" =>
                               \E K \in SUBSET CacheNames :
                                   /\ IsFiniteSet(K) /\ Cardinality(K) <= CacheKeep
                                   /\ \A item \in acc'.listed[q] : Surplus(q, item, K)'
    BY <1>1 DEF ListInv
  <1>3. \A item \in acc'.listed[q] : item.made \in 1..acc'.made
    BY <1>1 DEF CacheInv, ListInv
  <1>4. \A item, other \in acc'.listed[q] : item.name = other.name => item = other
    BY DEF CacheInv, ListInv
  <1>5. ASSUME acc'.pc[q] = "prune"
        PROVE  \E K \in SUBSET CacheNames :
                   /\ IsFiniteSet(K) /\ Cardinality(K) <= CacheKeep
                   /\ \A item \in acc'.listed[q] : Surplus(q, item, K)'
    <2>1. acc.pc[q] = "prune" /\ acc'.listed[q] = acc.listed[q]
      BY <1>5 DEF Quiet
    <2>2. PICK K \in SUBSET CacheNames :
              /\ IsFiniteSet(K) /\ Cardinality(K) <= CacheKeep
              /\ \A item \in acc.listed[q] : Surplus(q, item, K)
      BY <2>1 DEF CacheInv, ListInv
    <2>3. \A item \in acc.listed[q] : Surplus(q, item, K)'
      BY <2>2, SurplusStays
    <2> QED  BY <2>1, <2>2, <2>3
  <1> QED  BY <1>3, <1>4, <1>5
LEMMA QuietInv ==
    ASSUME CacheInv, NEW p \in Writers, Quiet(p), OwnTemp(p), acc'.flushed = acc.flushed,
           acc'.promised = acc.promised, acc'.pc[p] = "prune" => acc.pc[p] = "prune",
           \A n \in CacheNames : n.pid = "none" /\ acc.files[n] # NoFile => acc'.files[n] # NoFile,
           \A q \in Writers : acc'.listed[q] = acc.listed[q] \/ (acc'.listed[q] = {} /\ acc'.pc[q] # "prune")
    PROVE  CacheInv'
  <1>1. CacheTypeOK'
    BY NamesStay DEF CacheInv, CacheTypeOK, Quiet
  <1>2. FileInv'
    BY QuietFiles
  <1>3. TempInv'
    <2>1. \A q \in Writers : \A item \in acc'.listed[q] :
              \E old \in acc.listed[q] : item.name = old.name /\ item.made = old.made
      OBVIOUS
    <2> QED  BY <2>1, QuietTemp
  <1>4. PromiseInv'
    <2>1. \A f \in acc'.promised : f[1] \in CacheNames /\ f[1].pid = "none" /\ acc.files[f[1]] # NoFile
      BY DEF CacheInv, CacheTypeOK, CacheState, PromiseInv
    <2>2. \A f \in acc'.promised : acc'.files[f[1]] # NoFile
      BY <2>1
    <2> QED  BY <2>2, QuietPromise
  <1>5. ListInv'
    BY QuietList
  <1> QED  BY <1>1, <1>2, <1>3, <1>4, <1>5 DEF CacheInv

\* A step that changes no file.
LEMMA IdleInv ==
    ASSUME CacheInv, NEW p \in Writers, acc' \in CacheState, call' = call, at' = "cache",
           acc'.files = acc.files, acc'.flushed = acc.flushed, acc'.made = acc.made,
           acc'.promised = acc.promised, acc'.pc[p] \notin {"write", "sync", "rename", "prune"},
           \A q \in Writers : q # p => acc'.pc[q] = acc.pc[q] /\ acc'.listed[q] = acc.listed[q],
           acc'.listed[p] \in {acc.listed[p], {}}
    PROVE  CacheInv'
  <1>1. \A n \in CacheNames : GoodFile(n, acc.files[n])
    BY DEF CacheInv, FileInv
  <1>2. Quiet(p)
    BY <1>1 DEF Quiet, GoodFile
  <1>3. OwnTemp(p)
    BY DEF OwnTemp
  <1> QED  BY <1>2, <1>3, QuietInv

\* A step that rewrites p's own temporary file, or removes it.
LEMMA RewriteInv ==
    ASSUME CacheInv, NEW p \in Writers, NEW from \in CachePlaces \ {"prune"},
           NEW to \in {"sync", "rename", "done"}, NEW g \in CachedFile,
           CacheStep(p, from, to, [acc EXCEPT !.files = [acc.files EXCEPT ![TempName(p)] = g]]),
           to # "done" => from \in {"write", "sync", "rename"},
           \/ g = NoFile
           \/ /\ acc.files[TempName(p)] # NoFile /\ g.made = acc.files[TempName(p)].made /\ g.bytes = "whole"
              /\ to = "rename" => g.synced
    PROVE  CacheInv'
  <1>1. acc \in CacheState /\ at = "cache" /\ TempName(p) \in CacheNames /\ TempName(p).pid # "none"
    BY CacheNaming DEF CacheInv, CacheTypeOK
  <1>2. PICK fs : fs = [acc.files EXCEPT ![TempName(p)] = g]
    OBVIOUS
  <1>3. /\ fs \in [CacheNames -> CachedFile] /\ fs[TempName(p)] = g
        /\ \A n \in CacheNames : n # TempName(p) => fs[n] = acc.files[n]
    BY <1>1, <1>2 DEF CacheState
  <1>4. PICK new : new = [acc EXCEPT !.files = fs]
    OBVIOUS
  <1>5. /\ new \in CacheState /\ new.pc = acc.pc /\ new.files = fs /\ new.flushed = acc.flushed
        /\ new.listed = acc.listed /\ new.promised = acc.promised /\ new.made = acc.made
    BY <1>1, <1>3, <1>4 DEF CacheState
  <1>6. CacheStep(p, from, to, new) /\ to \in CachePlaces
    BY <1>2, <1>4 DEF CachePlaces
  <1>7. /\ acc' \in CacheState /\ call' = call /\ at' = "cache" /\ acc.pc[p] = from /\ acc'.pc[p] = to
        /\ \A q \in Writers : q # p => acc'.pc[q] = acc.pc[q]
        /\ acc'.files = fs /\ acc'.flushed = acc.flushed /\ acc'.listed = acc.listed
        /\ acc'.promised = acc.promised /\ acc'.made = acc.made
    BY <1>1, <1>5, <1>6, CacheEffect
  <1>8. \A n \in CacheNames : GoodFile(n, acc.files[n])
    BY DEF CacheInv, FileInv
  <1>9. \A q \in Writers \ {p} : TempName(q) \in CacheNames /\ TempName(q) # TempName(p)
    BY CacheNaming
  <1>10. Quiet(p)
    <2>1. \A n \in CacheNames :
              \/ fs[n] = NoFile
              \/ /\ acc.files[n] # NoFile /\ fs[n].made = acc.files[n].made
                 /\ fs[n].bytes \in {"partial", "whole"}
                 /\ n.pid = "none" => fs[n].bytes = "whole" /\ fs[n].synced
      BY <1>1, <1>3, <1>8 DEF GoodFile
    <2> QED  BY <1>3, <1>7, <1>9, <2>1 DEF Quiet
  <1>11. OwnTemp(p)
    BY <1>3, <1>7 DEF OwnTemp
  <1>12. \A n \in CacheNames : n.pid = "none" /\ acc.files[n] # NoFile => acc'.files[n] # NoFile
    BY <1>1, <1>3, <1>7
  <1> QED  BY <1>7, <1>10, <1>11, <1>12, QuietInv

LEMMA GiveUpInv ==
    ASSUME CacheInv, NEW p \in Writers, NEW from \in CachePlaces \ {"prune"}, GiveUp(p, from)
    PROVE  CacheInv'
  <1>1. CacheStep(p, from, "done", [acc EXCEPT !.files = [acc.files EXCEPT ![TempName(p)] = NoFile]])
    BY DEF GiveUp
  <1> QED  BY <1>1, NoFileIsNone, RewriteInv

LEMMA ReadEntryInv ==
    ASSUME CacheInv, NEW p \in Writers, ReadEntry(p)
    PROVE  CacheInv'
  <1>1. acc \in CacheState /\ at = "cache" /\ EntryName(p) \in CacheNames /\ EntryName(p).pid = "none"
    BY CacheNaming DEF CacheInv, CacheTypeOK
  <1>2. CASE CacheStep(p, "read", "temp", acc)
    <2>1. /\ acc' \in CacheState /\ call' = call /\ at' = "cache" /\ acc'.pc[p] = "temp"
          /\ \A q \in Writers : q # p => acc'.pc[q] = acc.pc[q]
          /\ acc'.files = acc.files /\ acc'.flushed = acc.flushed /\ acc'.listed = acc.listed
          /\ acc'.promised = acc.promised /\ acc'.made = acc.made
      <3>1. "temp" \in CachePlaces
        BY DEF CachePlaces
      <3> QED  BY <1>1, <1>2, <3>1, CacheEffect
    <2> QED  BY <2>1, IdleInv
  <1>3. CASE /\ Whole(EntryName(p))
             /\ CacheStep(p, "read", "done",
                    [acc EXCEPT !.answer[p] = "redacted", !.files[EntryName(p)].time = acc.clock])
    <2>1. PICK g : g = [acc.files[EntryName(p)] EXCEPT !.time = acc.clock]
      OBVIOUS
    <2>2. /\ g \in CachedFile /\ g.made = acc.files[EntryName(p)].made /\ g.bytes = "whole"
          /\ g.synced = acc.files[EntryName(p)].synced /\ acc.files[EntryName(p)] # NoFile
      <3>1. acc.files[EntryName(p)] \in CachedFile /\ acc.clock \in Nat /\ acc.files[EntryName(p)].bytes = "whole"
        BY <1>1, <1>3 DEF Whole, CacheState
      <3> QED  BY <2>1, <3>1, NoFileIsNone DEF CachedFile
    <2>3. PICK fs : fs = [acc.files EXCEPT ![EntryName(p)] = g]
      OBVIOUS
    <2>4. /\ fs \in [CacheNames -> CachedFile] /\ fs[EntryName(p)] = g
          /\ \A n \in CacheNames : n # EntryName(p) => fs[n] = acc.files[n]
      BY <1>1, <2>2, <2>3 DEF CacheState
    <2>5. PICK an : an = [acc.answer EXCEPT ![p] = "redacted"]
      OBVIOUS
    <2>6. an \in [Writers -> {"none", "redacted"}]
      BY <1>1, <2>5 DEF CacheState
    <2>7. PICK new : new = [acc EXCEPT !.answer = an, !.files = fs]
      OBVIOUS
    <2>8. new = [acc EXCEPT !.answer[p] = "redacted", !.files[EntryName(p)].time = acc.clock]
      BY <1>1, <2>1, <2>3, <2>5, <2>7 DEF CacheState
    <2>9. /\ new \in CacheState /\ new.pc = acc.pc /\ new.files = fs /\ new.flushed = acc.flushed
          /\ new.listed = acc.listed /\ new.promised = acc.promised /\ new.made = acc.made
      BY <1>1, <2>4, <2>6, <2>7 DEF CacheState
    <2>10. CacheStep(p, "read", "done", new)
      BY <1>3, <2>8
    <2>11. /\ acc' \in CacheState /\ call' = call /\ at' = "cache" /\ acc'.pc[p] = "done"
           /\ \A q \in Writers : q # p => acc'.pc[q] = acc.pc[q]
           /\ acc'.files = fs /\ acc'.flushed = acc.flushed /\ acc'.listed = acc.listed
           /\ acc'.promised = acc.promised /\ acc'.made = acc.made
      <3>1. "done" \in CachePlaces
        BY DEF CachePlaces
      <3> QED  BY <1>1, <2>9, <2>10, <3>1, CacheEffect
    <2>12. \A n \in CacheNames : GoodFile(n, acc.files[n])
      BY DEF CacheInv, FileInv
    <2>13. \A q \in Writers : TempName(q) \in CacheNames /\ TempName(q) # EntryName(p)
      BY CacheNaming
    <2>14. Quiet(p)
      <3>1. \A n \in CacheNames :
                \/ fs[n] = NoFile
                \/ /\ acc.files[n] # NoFile /\ fs[n].made = acc.files[n].made
                   /\ fs[n].bytes \in {"partial", "whole"}
                   /\ n.pid = "none" => fs[n].bytes = "whole" /\ fs[n].synced
        BY <1>1, <2>2, <2>4, <2>12 DEF GoodFile
      <3> QED  BY <2>4, <2>11, <2>13, <3>1 DEF Quiet
    <2>15. OwnTemp(p)
      BY <2>11 DEF OwnTemp
    <2>16. \A n \in CacheNames : n.pid = "none" /\ acc.files[n] # NoFile => acc'.files[n] # NoFile
      <3>1. g # NoFile
        BY <2>2, NoFileIsNone
      <3>2. \A n \in CacheNames : acc.files[n] # NoFile => fs[n] # NoFile
        BY <2>4, <3>1
      <3> QED  BY <2>11, <3>2
    <2> QED  BY <2>11, <2>14, <2>15, <2>16, QuietInv
  <1> QED  BY <1>2, <1>3 DEF ReadEntry

LEMMA WriteSyncInv ==
    ASSUME CacheInv, NEW p \in Writers, WriteTemp(p) \/ SyncTemp(p)
    PROVE  CacheInv'
  <1>1. acc \in CacheState /\ at = "cache" /\ TempName(p) \in CacheNames
    BY CacheNaming DEF CacheInv, CacheTypeOK
  <1>2. acc.files[TempName(p)] \in CachedFile
    BY <1>1 DEF CacheState
  <1>3. CASE GiveUp(p, "write") \/ GiveUp(p, "sync")
    BY <1>3, GiveUpInv DEF CachePlaces
  <1>4. CASE CacheStep(p, "write", "sync",
               IF acc.files[TempName(p)] = NoFile THEN acc
               ELSE [acc EXCEPT !.files[TempName(p)].bytes = "whole", !.files[TempName(p)].time = acc.clock])
    <2>1. PICK g : g = IF acc.files[TempName(p)] = NoFile THEN NoFile
                       ELSE [acc.files[TempName(p)] EXCEPT !.bytes = "whole", !.time = acc.clock]
      OBVIOUS
    <2>2. /\ g \in CachedFile
          /\ \/ g = NoFile
             \/ acc.files[TempName(p)] # NoFile /\ g.made = acc.files[TempName(p)].made /\ g.bytes = "whole"
      BY <1>1, <1>2, <2>1, NoFileIsNone DEF CacheState, CachedFile
    <2>3. CacheStep(p, "write", "sync", [acc EXCEPT !.files = [acc.files EXCEPT ![TempName(p)] = g]])
      <3>1. (IF acc.files[TempName(p)] = NoFile THEN acc
             ELSE [acc EXCEPT !.files[TempName(p)].bytes = "whole", !.files[TempName(p)].time = acc.clock])
            = [acc EXCEPT !.files = [acc.files EXCEPT ![TempName(p)] = g]]
        BY <1>1, <2>1 DEF CacheState
      <3> QED  BY <1>4, <3>1
    <2> QED  BY <2>2, <2>3, RewriteInv DEF CachePlaces
  <1>5. CASE CacheStep(p, "sync", "rename",
               IF acc.files[TempName(p)] = NoFile THEN acc ELSE [acc EXCEPT !.files[TempName(p)].synced = TRUE])
    <2>1. PICK g : g = IF acc.files[TempName(p)] = NoFile THEN NoFile
                       ELSE [acc.files[TempName(p)] EXCEPT !.synced = TRUE]
      OBVIOUS
    <2>2. acc.files[TempName(p)] # NoFile => acc.files[TempName(p)].bytes = "whole"
      BY <1>5 DEF CacheInv, TempInv, Writing, CacheStep
    <2>3. /\ g \in CachedFile
          /\ \/ g = NoFile
             \/ /\ acc.files[TempName(p)] # NoFile /\ g.made = acc.files[TempName(p)].made /\ g.bytes = "whole"
                /\ g.synced
      BY <1>1, <1>2, <2>1, <2>2, NoFileIsNone DEF CachedFile
    <2>4. CacheStep(p, "sync", "rename", [acc EXCEPT !.files = [acc.files EXCEPT ![TempName(p)] = g]])
      <3>1. (IF acc.files[TempName(p)] = NoFile THEN acc ELSE [acc EXCEPT !.files[TempName(p)].synced = TRUE])
            = [acc EXCEPT !.files = [acc.files EXCEPT ![TempName(p)] = g]]
        BY <1>1, <2>1 DEF CacheState
      <3> QED  BY <1>5, <3>1
    <2> QED  BY <2>3, <2>4, RewriteInv DEF CachePlaces
  <1> QED  BY <1>3, <1>4, <1>5 DEF WriteTemp, SyncTemp
LEMMA CreateTempInv ==
    ASSUME CacheInv, NEW p \in Writers, CreateTemp(p)
    PROVE  CacheInv'
  <1>1. acc \in CacheState /\ at = "cache" /\ TempName(p) \in CacheNames /\ TempName(p).pid # "none"
    BY CacheNaming DEF CacheInv, CacheTypeOK
  <1>2. CASE GiveUp(p, "create")
    BY <1>2, GiveUpInv DEF CachePlaces
  <1>3. CASE /\ acc.files[TempName(p)] = NoFile
             /\ CacheStep(p, "create", "write",
                    [acc EXCEPT !.files[TempName(p)] = [bytes |-> "partial", synced |-> FALSE, time |-> acc.clock,
                                                        made |-> acc.made + 1],
                                !.made = @ + 1])
    <2>1. PICK g : g = [bytes |-> "partial", synced |-> FALSE, time |-> acc.clock, made |-> acc.made + 1]
      OBVIOUS
    <2>2. g \in CachedFile /\ g.made = acc.made + 1 /\ g.bytes = "partial" /\ acc.made \in Nat
      BY <1>1, <2>1 DEF CachedFile, CacheState
    <2>3. PICK fs : fs = [acc.files EXCEPT ![TempName(p)] = g]
      OBVIOUS
    <2>4. /\ fs \in [CacheNames -> CachedFile] /\ fs[TempName(p)] = g
          /\ \A n \in CacheNames : n # TempName(p) => fs[n] = acc.files[n]
      BY <1>1, <2>2, <2>3 DEF CacheState
    <2>a. PICK m \in Nat : m = acc.made + 1
      BY <2>2
    <2>5. PICK new : new = [acc EXCEPT !.files = fs, !.made = m]
      OBVIOUS
    <2>6. CacheStep(p, "create", "write", new)
      BY <1>3, <2>1, <2>3, <2>a, <2>5
    <2>7. /\ new \in CacheState /\ new.pc = acc.pc /\ new.files = fs /\ new.flushed = acc.flushed
          /\ new.listed = acc.listed /\ new.promised = acc.promised /\ new.made = acc.made + 1
      BY <1>1, <2>4, <2>a, <2>5 DEF CacheState
    <2>8. /\ acc' \in CacheState /\ call' = call /\ at' = "cache" /\ acc'.pc[p] = "write"
          /\ \A q \in Writers : q # p => acc'.pc[q] = acc.pc[q]
          /\ acc'.files = fs /\ acc'.flushed = acc.flushed /\ acc'.listed = acc.listed
          /\ acc'.promised = acc.promised /\ acc'.made = acc.made + 1
      <3>1. "write" \in CachePlaces
        BY DEF CachePlaces
      <3> QED  BY <1>1, <2>6, <2>7, <3>1, CacheEffect
    <2>9. CacheNames' = CacheNames /\ CacheState' = CacheState /\ \A q \in Writers : TempName(q)' = TempName(q)
      BY <2>8, NamesStay
    <2>10. /\ \A n \in CacheNames : acc.files[n].made \in 0..acc.made
           /\ \A q \in Writers : \A item \in acc.listed[q] : item.made \in 1..acc.made
      BY <2>2, NoFileIsNone DEF CacheInv, FileInv, GoodFile, ListInv
    <2>11. CacheTypeOK'
      BY <2>8, <2>9 DEF CacheInv, CacheTypeOK
    <2>12. FileInv'
      <3>1. \A n \in CacheNames : GoodFile(n, acc.files[n])' /\ GoodFile(n, acc.flushed[n])'
        <4> TAKE n \in CacheNames
        <4>1. GoodFile(n, acc.files[n]) /\ GoodFile(n, acc.flushed[n])
          BY DEF CacheInv, FileInv
        <4>2. \A k \in 1..acc.made : k \in 1..(acc.made + 1)
          BY <2>2
        <4>3. acc.made + 1 \in 1..(acc.made + 1)
          BY <2>2
        <4>4. GoodFile(n, acc.flushed[n])'
          BY <2>8, <4>1, <4>2 DEF GoodFile, NoFile
        <4>5. CASE n # TempName(p)
          BY <2>4, <2>8, <4>1, <4>2, <4>4, <4>5 DEF GoodFile, NoFile
        <4>6. CASE n = TempName(p)
          BY <1>1, <2>2, <2>4, <2>8, <4>3, <4>4, <4>6 DEF GoodFile, NoFile
        <4> QED  BY <4>5, <4>6
      <3> QED  BY <2>9, <3>1 DEF FileInv
    <2>13. TempInv'
      <3>1. SUFFICES ASSUME NEW w \in Writers, acc'.pc[w] \in {"write", "sync", "rename"},
                            acc'.files[TempName(w)] # NoFile
                     PROVE  /\ acc'.pc[w] \in {"sync", "rename"} => acc'.files[TempName(w)].bytes = "whole"
                            /\ acc'.pc[w] = "rename" => acc'.files[TempName(w)].synced
                            /\ \A n \in CacheNames \ {TempName(w)} : acc'.files[n].made # acc'.files[TempName(w)].made
                            /\ \A q \in Writers : \A item \in acc'.listed[q] :
                                   item.name # TempName(w) => item.made # acc'.files[TempName(w)].made
        BY <2>9 DEF TempInv, Writing
      <3>2. CASE w = p
        BY <2>2, <2>4, <2>8, <2>10, <3>2
      <3>3. CASE w # p
        <4>1. TempName(w) \in CacheNames /\ TempName(w) # TempName(p)
          BY <3>3, CacheNaming
        <4>2. Writing(w) /\ acc'.files[TempName(w)] = acc.files[TempName(w)] /\ acc'.pc[w] = acc.pc[w]
          BY <2>4, <2>8, <3>1, <3>3, <4>1 DEF Writing
        <4> QED  BY <2>2, <2>4, <2>8, <2>10, <4>1, <4>2 DEF CacheInv, TempInv
      <3> QED  BY <3>2, <3>3
    <2>14. PromiseInv'
      <3>1. \A f \in acc.promised : f[1] \in CacheNames
        BY <1>1 DEF CacheState
      <3> QED  BY <1>1, <2>4, <2>8, <3>1 DEF CacheInv, PromiseInv, NoFile
    <2>15. ListInv'
      <3>1. SUFFICES ASSUME NEW q \in Writers
                     PROVE  /\ \A item \in acc.listed[q] : item.made \in 1..(acc.made + 1)
                            /\ \A item, other \in acc.listed[q] : item.name = other.name => item = other
                            /\ acc'.pc[q] = "prune" =>
                                   \E K \in SUBSET CacheNames :
                                       /\ IsFiniteSet(K) /\ Cardinality(K) <= CacheKeep
                                       /\ \A item \in acc.listed[q] : Surplus(q, item, K)'
        BY <2>8, <2>9 DEF ListInv
      <3>2. \A item \in acc.listed[q] : item.made \in 1..(acc.made + 1)
        BY <2>2, <2>10
      <3>3. \A item, other \in acc.listed[q] : item.name = other.name => item = other
        BY DEF CacheInv, ListInv
      <3>4. ASSUME acc'.pc[q] = "prune"
            PROVE  \E K \in SUBSET CacheNames :
                       /\ IsFiniteSet(K) /\ Cardinality(K) <= CacheKeep
                       /\ \A item \in acc.listed[q] : Surplus(q, item, K)'
        <4>1. acc.pc[q] = "prune"
          BY <2>8, <3>4
        <4>2. PICK K \in SUBSET CacheNames :
                  /\ IsFiniteSet(K) /\ Cardinality(K) <= CacheKeep
                  /\ \A item \in acc.listed[q] : Surplus(q, item, K)
          BY <4>1 DEF CacheInv, ListInv
        <4>3. \A item \in acc.listed[q] : item.name \in CacheNames
          BY <1>1 DEF CacheState, CacheItem
        <4>4. \A item \in acc.listed[q] : Surplus(q, item, K)'
          BY <1>1, <2>4, <2>8, <4>2, <4>3 DEF Surplus
        <4> QED  BY <4>2, <4>4
      <3> QED  BY <3>2, <3>3, <3>4
    <2> QED  BY <2>11, <2>12, <2>13, <2>14, <2>15 DEF CacheInv
  <1> QED  BY <1>2, <1>3 DEF CreateTemp

LEMMA RenameTempInv ==
    ASSUME CacheInv, NEW p \in Writers, RenameTemp(p)
    PROVE  CacheInv'
  <1>1. /\ acc \in CacheState /\ at = "cache" /\ TempName(p) \in CacheNames /\ EntryName(p) \in CacheNames
        /\ TempName(p).pid # "none" /\ EntryName(p).pid = "none" /\ EntryName(p) # TempName(p)
    BY CacheNaming DEF CacheInv, CacheTypeOK
  <1>2. CASE GiveUp(p, "rename")
    BY <1>2, GiveUpInv DEF CachePlaces
  <1>3. CASE /\ acc.files[TempName(p)] # NoFile
             /\ CacheStep(p, "rename", "flush",
                    [acc EXCEPT !.files[EntryName(p)] = acc.files[TempName(p)], !.files[TempName(p)] = NoFile,
                                !.promised = {f \in @ : f[1] # EntryName(p)}])
    <2>1. PICK g : g = acc.files[TempName(p)]
      OBVIOUS
    <2>2. Writing(p) /\ acc.pc[p] = "rename"
      BY <1>3 DEF CacheStep, Writing
    <2>3. /\ g \in CachedFile /\ g # NoFile /\ g.bytes = "whole" /\ g.synced /\ g.made \in 1..acc.made
          /\ \A n \in CacheNames \ {TempName(p)} : acc.files[n].made # g.made
          /\ \A q \in Writers : \A item \in acc.listed[q] : item.name # TempName(p) => item.made # g.made
      BY <1>1, <1>3, <2>1, <2>2 DEF CacheInv, TempInv, FileInv, GoodFile, CacheState
    <2>4. PICK fs : fs = [acc.files EXCEPT ![EntryName(p)] = g, ![TempName(p)] = NoFile]
      OBVIOUS
    <2>5. /\ fs \in [CacheNames -> CachedFile] /\ fs[EntryName(p)] = g /\ fs[TempName(p)] = NoFile
          /\ \A n \in CacheNames : n # TempName(p) /\ n # EntryName(p) => fs[n] = acc.files[n]
      BY <1>1, <2>3, <2>4, NoFileIsNone DEF CacheState
    <2>6. PICK kept : kept = {f \in acc.promised : f[1] # EntryName(p)}
      OBVIOUS
    <2>7. PICK new : new = [acc EXCEPT !.files = fs, !.promised = kept]
      OBVIOUS
    <2>8. CacheStep(p, "rename", "flush", new)
      <3>1. new = [acc EXCEPT !.files[EntryName(p)] = acc.files[TempName(p)], !.files[TempName(p)] = NoFile,
                              !.promised = {f \in @ : f[1] # EntryName(p)}]
        BY <1>1, <2>1, <2>4, <2>6, <2>7 DEF CacheState
      <3> QED  BY <1>3, <3>1
    <2>9. /\ new \in CacheState /\ new.pc = acc.pc /\ new.files = fs /\ new.flushed = acc.flushed
          /\ new.listed = acc.listed /\ new.promised = kept /\ new.made = acc.made
      BY <1>1, <2>5, <2>6, <2>7 DEF CacheState
    <2>10. /\ acc' \in CacheState /\ call' = call /\ at' = "cache" /\ acc'.pc[p] = "flush"
           /\ \A q \in Writers : q # p => acc'.pc[q] = acc.pc[q]
           /\ acc'.files = fs /\ acc'.flushed = acc.flushed /\ acc'.listed = acc.listed
           /\ acc'.promised = kept /\ acc'.made = acc.made
      <3>1. "flush" \in CachePlaces
        BY DEF CachePlaces
      <3> QED  BY <1>1, <2>8, <2>9, <3>1, CacheEffect
    <2>11. CacheNames' = CacheNames /\ CacheState' = CacheState /\ \A q \in Writers : TempName(q)' = TempName(q)
      BY <2>10, NamesStay
    <2>12. CacheTypeOK'
      BY <2>10, <2>11 DEF CacheInv, CacheTypeOK
    <2>13. FileInv'
      <3>1. \A n \in CacheNames : GoodFile(n, acc.files[n])' /\ GoodFile(n, acc.flushed[n])'
        <4> TAKE n \in CacheNames
        <4>1. GoodFile(n, acc.files[n]) /\ GoodFile(n, acc.flushed[n])
          BY DEF CacheInv, FileInv
        <4>2. GoodFile(n, acc.flushed[n])'
          BY <2>10, <4>1 DEF GoodFile, NoFile
        <4>3. GoodFile(n, acc.files[n])'
          BY <2>3, <2>5, <2>10, <4>1 DEF GoodFile, NoFile
        <4> QED  BY <4>2, <4>3
      <3> QED  BY <2>11, <3>1 DEF FileInv
    <2>14. TempInv'
      <3>1. SUFFICES ASSUME NEW w \in Writers, acc'.pc[w] \in {"write", "sync", "rename"},
                            acc'.files[TempName(w)] # NoFile
                     PROVE  /\ acc'.pc[w] \in {"sync", "rename"} => acc'.files[TempName(w)].bytes = "whole"
                            /\ acc'.pc[w] = "rename" => acc'.files[TempName(w)].synced
                            /\ \A n \in CacheNames \ {TempName(w)} : acc'.files[n].made # acc'.files[TempName(w)].made
                            /\ \A q \in Writers : \A item \in acc'.listed[q] :
                                   item.name # TempName(w) => item.made # acc'.files[TempName(w)].made
        BY <2>11 DEF TempInv, Writing
      <3>2. w # p
        BY <2>10, <3>1
      <3>3. TempName(w) \in CacheNames /\ TempName(w) # TempName(p) /\ TempName(w) # EntryName(p)
        BY <3>2, CacheNaming
      <3>4. /\ Writing(w) /\ acc'.files[TempName(w)] = acc.files[TempName(w)] /\ acc'.pc[w] = acc.pc[w]
            /\ acc.files[TempName(w)].made # 0
        BY <2>5, <2>10, <3>1, <3>2, <3>3 DEF Writing, CacheInv, FileInv, GoodFile
      <3> QED  BY <2>3, <2>5, <2>10, <3>3, <3>4, NoFileIsNone DEF CacheInv, TempInv
    <2>15. PromiseInv'
      <3>1. \A f \in acc.promised : f[1] \in CacheNames
        BY <1>1 DEF CacheState
      <3> QED  BY <1>1, <2>5, <2>6, <2>10, <3>1 DEF CacheInv, PromiseInv, NoFile
    <2>16. ListInv'
      <3>1. SUFFICES ASSUME NEW q \in Writers, acc'.pc[q] = "prune"
                     PROVE  \E K \in SUBSET CacheNames :
                                /\ IsFiniteSet(K) /\ Cardinality(K) <= CacheKeep
                                /\ \A item \in acc.listed[q] : Surplus(q, item, K)'
        BY <2>10, <2>11 DEF CacheInv, ListInv
      <3>2. acc.pc[q] = "prune"
        BY <2>10, <3>1
      <3>3. PICK K \in SUBSET CacheNames :
                /\ IsFiniteSet(K) /\ Cardinality(K) <= CacheKeep
                /\ \A item \in acc.listed[q] : Surplus(q, item, K)
        BY <3>2 DEF CacheInv, ListInv
      <3>4. \A item \in acc.listed[q] : item.name \in CacheNames
        BY <1>1 DEF CacheState, CacheItem
      <3>5. \A item \in acc.listed[q] : Surplus(q, item, K)'
        BY <1>1, <2>3, <2>5, <2>10, <3>3, <3>4 DEF Surplus
      <3> QED  BY <3>3, <3>5
    <2> QED  BY <2>12, <2>13, <2>14, <2>15, <2>16 DEF CacheInv
  <1> QED  BY <1>2, <1>3 DEF RenameTemp

LEMMA FlushDirInv ==
    ASSUME CacheInv, NEW p \in Writers, FlushDir(p)
    PROVE  CacheInv'
  <1>1. acc \in CacheState /\ at = "cache" /\ EntryName(p) \in CacheNames /\ EntryName(p).pid = "none"
    BY CacheNaming DEF CacheInv, CacheTypeOK
  <1>2. CASE GiveUp(p, "flush")
    BY <1>2, GiveUpInv DEF CachePlaces
  <1>3. CASE CacheStep(p, "flush", "list",
                 [acc EXCEPT !.flushed = acc.files,
                             !.promised = IF acc.files[EntryName(p)] = NoFile THEN @
                                          ELSE @ \cup {<<EntryName(p), acc.files[EntryName(p)].made>>}])
    <2>1. PICK promise : promise = IF acc.files[EntryName(p)] = NoFile THEN acc.promised
                                   ELSE acc.promised \cup {<<EntryName(p), acc.files[EntryName(p)].made>>}
      OBVIOUS
    <2>2. promise \subseteq CacheNames \X Nat
      <3>1. acc.files[EntryName(p)].made \in Nat /\ acc.promised \subseteq CacheNames \X Nat
        BY <1>1 DEF CacheState, CachedFile
      <3> QED  BY <1>1, <2>1, <3>1
    <2>3. PICK new : new = [acc EXCEPT !.flushed = acc.files, !.promised = promise]
      OBVIOUS
    <2>4. CacheStep(p, "flush", "list", new)
      BY <1>3, <2>1, <2>3
    <2>5. /\ new \in CacheState /\ new.pc = acc.pc /\ new.files = acc.files /\ new.flushed = acc.files
          /\ new.listed = acc.listed /\ new.promised = promise /\ new.made = acc.made
      BY <1>1, <2>2, <2>3 DEF CacheState
    <2>6. /\ acc' \in CacheState /\ call' = call /\ at' = "cache" /\ acc'.pc[p] = "list"
          /\ \A q \in Writers : q # p => acc'.pc[q] = acc.pc[q]
          /\ acc'.files = acc.files /\ acc'.flushed = acc.files /\ acc'.listed = acc.listed
          /\ acc'.promised = promise /\ acc'.made = acc.made
      <3>1. "list" \in CachePlaces
        BY DEF CachePlaces
      <3> QED  BY <1>1, <2>4, <2>5, <3>1, CacheEffect
    <2>7. \A n \in CacheNames : GoodFile(n, acc.files[n])
      BY DEF CacheInv, FileInv
    <2>8. Quiet(p)
      BY <2>6, <2>7 DEF Quiet, GoodFile
    <2>9. OwnTemp(p)
      BY <2>6 DEF OwnTemp
    <2>10. CacheTypeOK' /\ FileInv'
      BY <2>6, <2>8, NamesStay, QuietFiles DEF CacheInv, CacheTypeOK
    <2>11. TempInv' /\ ListInv'
      <3>1. \A q \in Writers : \A item \in acc'.listed[q] :
                \E old \in acc.listed[q] : item.name = old.name /\ item.made = old.made
        BY <2>6
      <3> QED  BY <2>6, <2>8, <2>9, <3>1, QuietTemp, QuietList
    <2>12. PromiseInv'
      <3>1. \A f \in promise : f[1].pid = "none" /\ acc.files[f[1]] # NoFile
        BY <1>1, <2>1 DEF CacheInv, PromiseInv
      <3> QED  BY <2>6, <3>1 DEF PromiseInv, NoFile
    <2> QED  BY <2>10, <2>11, <2>12 DEF CacheInv
  <1> QED  BY <1>2, <1>3 DEF FlushDir
LEMMA ListDirectoryInv ==
    ASSUME CacheInv, NEW p \in Writers, ListDirectory(p)
    PROVE  CacheInv'
  <1>1. /\ acc \in CacheState /\ at = "cache" /\ EntryName(p) \in CacheNames /\ EntryName(p).pid = "none"
        /\ EntryName(p).version = call.version[p]
    BY CacheNaming DEF CacheInv, CacheTypeOK
  <1>2. PICK keep \in Kept(p) :
            CacheStep(p, "list", "prune",
                 [acc EXCEPT !.listed[p] = {[name |-> n, made |-> acc.files[n].made, remove |-> n \in Removed(p, keep)] :
                                                n \in Present}])
    BY DEF ListDirectory
  <1>3. PICK items : items = {[name |-> n, made |-> acc.files[n].made, remove |-> n \in Removed(p, keep)] : n \in Present}
    OBVIOUS
  <1>4. \A n \in Present : n \in CacheNames /\ acc.files[n].made \in 1..acc.made /\ acc.files[n].made \in Nat
    <2>1. \A n \in Present : n \in CacheNames /\ acc.files[n] # NoFile
      BY DEF Present
    <2>2. \A n \in CacheNames : acc.files[n] \in CachedFile /\ GoodFile(n, acc.files[n])
      BY <1>1 DEF CacheInv, FileInv, CacheState
    <2>3. \A n \in CacheNames : acc.files[n] # NoFile => acc.files[n].made \in 1..acc.made
      BY <2>2 DEF GoodFile
    <2>4. \A n \in CacheNames : acc.files[n].made \in Nat
      BY <2>2 DEF CachedFile
    <2> QED  BY <2>1, <2>3, <2>4
  <1>5. items \subseteq CacheItem
    <2>1. \A n \in Present : \A b \in BOOLEAN :
              [name |-> n, made |-> acc.files[n].made, remove |-> b] \in CacheItem
      BY <1>4 DEF CacheItem
    <2>2. \A n : (n \in Removed(p, keep)) \in BOOLEAN
      OBVIOUS
    <2> QED  BY <1>3, <2>1, <2>2
  <1>6. \A item \in items :
            /\ item.name \in Present /\ item.made = acc.files[item.name].made
            /\ item.remove = (item.name \in Removed(p, keep))
    BY <1>3
  <1>7. \A item, other \in items : item.name = other.name => item = other
    BY <1>3
  <1>8. PICK list : list = [acc.listed EXCEPT ![p] = items]
    OBVIOUS
  <1>9. /\ list \in [Writers -> SUBSET CacheItem] /\ list[p] = items
        /\ \A q \in Writers : q # p => list[q] = acc.listed[q]
    BY <1>1, <1>5, <1>8 DEF CacheState
  <1>10. PICK new : new = [acc EXCEPT !.listed = list]
    OBVIOUS
  <1>11. CacheStep(p, "list", "prune", new)
    BY <1>2, <1>3, <1>8, <1>10
  <1>12. /\ new \in CacheState /\ new.pc = acc.pc /\ new.files = acc.files /\ new.flushed = acc.flushed
         /\ new.listed = list /\ new.promised = acc.promised /\ new.made = acc.made
    BY <1>1, <1>9, <1>10 DEF CacheState
  <1>13. /\ acc' \in CacheState /\ call' = call /\ at' = "cache" /\ acc'.pc[p] = "prune"
         /\ \A q \in Writers : q # p => acc'.pc[q] = acc.pc[q]
         /\ acc'.files = acc.files /\ acc'.flushed = acc.flushed /\ acc'.listed = list
         /\ acc'.promised = acc.promised /\ acc'.made = acc.made
    <2>1. "prune" \in CachePlaces
      BY DEF CachePlaces
    <2> QED  BY <1>1, <1>11, <1>12, <2>1, CacheEffect
  <1>14. \A n \in CacheNames : GoodFile(n, acc.files[n])
    BY DEF CacheInv, FileInv
  <1>15. Quiet(p)
    BY <1>13, <1>14 DEF Quiet, GoodFile
  <1>16. CacheTypeOK' /\ FileInv'
    BY <1>13, <1>15, NamesStay, QuietFiles DEF CacheInv, CacheTypeOK
  <1>17. CacheNames' = CacheNames /\ \A q \in Writers : TempName(q)' = TempName(q)
    BY <1>13, NamesStay
  <1>18. TempInv'
    <2>1. SUFFICES ASSUME NEW w \in Writers, acc'.pc[w] \in {"write", "sync", "rename"},
                          acc'.files[TempName(w)] # NoFile
                   PROVE  /\ acc'.pc[w] \in {"sync", "rename"} => acc'.files[TempName(w)].bytes = "whole"
                          /\ acc'.pc[w] = "rename" => acc'.files[TempName(w)].synced
                          /\ \A n \in CacheNames \ {TempName(w)} : acc'.files[n].made # acc'.files[TempName(w)].made
                          /\ \A q \in Writers : \A item \in acc'.listed[q] :
                                 item.name # TempName(w) => item.made # acc'.files[TempName(w)].made
      BY <1>17 DEF TempInv, Writing
    <2>2. w # p /\ acc'.pc[w] = acc.pc[w] /\ Writing(w)
      BY <1>13, <2>1 DEF Writing
    <2>3. \A item \in items : item.name # TempName(w) => item.made # acc.files[TempName(w)].made
      BY <1>4, <1>6, <2>2 DEF CacheInv, TempInv
    <2> QED  BY <1>9, <1>13, <2>2, <2>3 DEF CacheInv, TempInv
  <1>19. PromiseInv'
    <2>1. \A f \in acc'.promised : acc'.files[f[1]] # NoFile
      BY <1>13 DEF CacheInv, PromiseInv
    <2> QED  BY <1>13, <1>15, <2>1, QuietPromise
  <1>20. \E K \in SUBSET CacheNames :
             /\ IsFiniteSet(K) /\ Cardinality(K) <= CacheKeep
             /\ \A item \in items : Surplus(p, item, K)'
    <2>1. PICK others : others = {n \in Present : n.pid = "none" /\ n.version = call.version[p] /\ n # EntryName(p)}
      OBVIOUS
    <2>2. /\ keep \subseteq others
          /\ Cardinality(keep) = IF Cardinality(others) < CacheKeep THEN Cardinality(others) ELSE CacheKeep - 1
      BY <1>2, <2>1 DEF Kept
    <2>3. others \subseteq CacheNames
      BY <1>4, <2>1
    <2>4. IsFiniteSet(others)
      BY <2>3, NamesAreFinite, FS_Subset
    <2>5. IsFiniteSet(keep)
      BY <2>2, <2>4, FS_Subset
    <2>6. Cardinality(keep) \in Nat /\ Cardinality(others) \in Nat /\ CacheKeep \in Nat \ {0}
      BY <2>4, <2>5, FS_CardinalityType, CacheAssumption
    <2>7. Cardinality(keep) + 1 <= CacheKeep
      BY <2>2, <2>6
    <2>8. PICK K : K = keep \cup {EntryName(p)}
      OBVIOUS
    <2>9. IsFiniteSet(K) /\ Cardinality(K) \in {Cardinality(keep), Cardinality(keep) + 1}
      BY <2>5, <2>8, FS_AddElement
    <2>10. Cardinality(K) <= CacheKeep
      BY <2>6, <2>7, <2>9
    <2>11. K \in SUBSET CacheNames
      BY <1>1, <2>2, <2>3, <2>8
    <2>12. \A item \in items : Surplus(p, item, K)'
      BY <1>6, <1>13, <2>8 DEF Surplus, Removed
    <2> QED  BY <2>9, <2>10, <2>11, <2>12
  <1>21. ListInv'
    <2>1. SUFFICES ASSUME NEW q \in Writers
                   PROVE  /\ \A item \in list[q] : item.made \in 1..acc.made
                          /\ \A item, other \in list[q] : item.name = other.name => item = other
                          /\ acc'.pc[q] = "prune" =>
                                 \E K \in SUBSET CacheNames :
                                     /\ IsFiniteSet(K) /\ Cardinality(K) <= CacheKeep
                                     /\ \A item \in list[q] : Surplus(q, item, K)'
      BY <1>13, <1>17 DEF ListInv
    <2>2. CASE q = p
      BY <1>4, <1>6, <1>7, <1>9, <1>20, <2>2
    <2>3. CASE q # p
      <3>1. /\ \A item \in acc.listed[q] : item.made \in 1..acc.made
            /\ \A item, other \in acc.listed[q] : item.name = other.name => item = other
        BY DEF CacheInv, ListInv
      <3>2. ASSUME acc'.pc[q] = "prune"
            PROVE  \E K \in SUBSET CacheNames :
                       /\ IsFiniteSet(K) /\ Cardinality(K) <= CacheKeep
                       /\ \A item \in acc.listed[q] : Surplus(q, item, K)'
        <4>1. acc.pc[q] = "prune"
          BY <1>13, <2>3, <3>2
        <4>2. PICK K \in SUBSET CacheNames :
                  /\ IsFiniteSet(K) /\ Cardinality(K) <= CacheKeep
                  /\ \A item \in acc.listed[q] : Surplus(q, item, K)
          BY <4>1 DEF CacheInv, ListInv
        <4>3. \A item \in acc.listed[q] : Surplus(q, item, K)'
          BY <1>15, <4>2, SurplusStays
        <4> QED  BY <4>2, <4>3
      <3> QED  BY <1>9, <2>3, <3>1, <3>2
    <2> QED  BY <2>2, <2>3
  <1> QED  BY <1>16, <1>18, <1>19, <1>21 DEF CacheInv

LEMMA PruneOneInv ==
    ASSUME CacheInv, NEW p \in Writers, PruneOne(p)
    PROVE  CacheInv'
  <1>1. acc \in CacheState /\ at = "cache"
    BY DEF CacheInv, CacheTypeOK
  <1>2. PICK gone \in {item \in acc.listed[p] : item.remove} :
            CacheStep(p, "prune", "prune",
                 [acc EXCEPT !.files[gone.name] = NoFile,
                             !.promised = {f \in @ : f[1] # gone.name},
                             !.listed[p] = (@ \ {gone}) \cup {[gone EXCEPT !.remove = FALSE]}])
    BY DEF PruneOne
  <1>3. gone \in acc.listed[p] /\ gone \in CacheItem /\ gone.name \in CacheNames /\ gone.made \in 1..acc.made
    BY <1>1 DEF CacheState, CacheItem, CacheInv, ListInv
  <1>4. PICK item : item = [gone EXCEPT !.remove = FALSE]
    OBVIOUS
  <1>5. item \in CacheItem /\ item.name = gone.name /\ item.made = gone.made
    BY <1>3, <1>4 DEF CacheItem
  <1>6. PICK fs, kept, items, list :
            /\ fs = [acc.files EXCEPT ![gone.name] = NoFile]
            /\ kept = {f \in acc.promised : f[1] # gone.name}
            /\ items = (acc.listed[p] \ {gone}) \cup {item}
            /\ list = [acc.listed EXCEPT ![p] = items]
    OBVIOUS
  <1>7. /\ fs \in [CacheNames -> CachedFile] /\ fs[gone.name] = NoFile
        /\ \A n \in CacheNames : n # gone.name => fs[n] = acc.files[n]
    BY <1>1, <1>3, <1>6, NoFileIsNone DEF CacheState
  <1>8. /\ list \in [Writers -> SUBSET CacheItem] /\ list[p] = items
        /\ \A q \in Writers : q # p => list[q] = acc.listed[q]
    BY <1>1, <1>5, <1>6 DEF CacheState
  <1>9. PICK new : new = [acc EXCEPT !.files = fs, !.promised = kept, !.listed = list]
    OBVIOUS
  <1>10. CacheStep(p, "prune", "prune", new)
    <2>1. new = [acc EXCEPT !.files[gone.name] = NoFile,
                            !.promised = {f \in @ : f[1] # gone.name},
                            !.listed[p] = (@ \ {gone}) \cup {[gone EXCEPT !.remove = FALSE]}]
      BY <1>1, <1>4, <1>6, <1>9 DEF CacheState
    <2> QED  BY <1>2, <2>1
  <1>11. /\ new \in CacheState /\ new.pc = acc.pc /\ new.files = fs /\ new.flushed = acc.flushed
         /\ new.listed = list /\ new.promised = kept /\ new.made = acc.made
    BY <1>1, <1>6, <1>7, <1>8, <1>9 DEF CacheState
  <1>12. /\ acc' \in CacheState /\ call' = call /\ at' = "cache" /\ acc.pc[p] = "prune" /\ acc'.pc[p] = "prune"
         /\ \A q \in Writers : q # p => acc'.pc[q] = acc.pc[q]
         /\ acc'.files = fs /\ acc'.flushed = acc.flushed /\ acc'.listed = list
         /\ acc'.promised = kept /\ acc'.made = acc.made
    <2>1. "prune" \in CachePlaces
      BY DEF CachePlaces
    <2> QED  BY <1>1, <1>10, <1>11, <2>1, CacheEffect
  <1>13. \A n \in CacheNames : GoodFile(n, acc.files[n])
    BY DEF CacheInv, FileInv
  <1>14. \A q \in Writers : TempName(q) \in CacheNames
    BY CacheNaming
  <1>15. Quiet(p)
    <2>1. \A n \in CacheNames :
              \/ fs[n] = NoFile
              \/ /\ acc.files[n] # NoFile /\ fs[n].made = acc.files[n].made
                 /\ fs[n].bytes \in {"partial", "whole"}
                 /\ n.pid = "none" => fs[n].bytes = "whole" /\ fs[n].synced
      BY <1>7, <1>13 DEF GoodFile
    <2> QED  BY <1>7, <1>12, <1>14, <2>1 DEF Quiet
  <1>16. OwnTemp(p)
    BY <1>12 DEF OwnTemp
  <1>17. CacheTypeOK' /\ FileInv'
    BY <1>12, <1>15, NamesStay, QuietFiles DEF CacheInv, CacheTypeOK
  <1>18. TempInv'
    <2>1. \A q \in Writers : \A one \in acc'.listed[q] :
              \E old \in acc.listed[q] : one.name = old.name /\ one.made = old.made
      BY <1>3, <1>5, <1>6, <1>8, <1>12
    <2> QED  BY <1>15, <1>16, <2>1, QuietTemp
  <1>19. PromiseInv'
    <2>1. \A f \in acc'.promised : acc'.files[f[1]] # NoFile
      <3>1. \A f \in kept : f \in acc.promised /\ f[1] # gone.name /\ f[1] \in CacheNames /\ acc.files[f[1]] # NoFile
        BY <1>1, <1>6 DEF CacheInv, PromiseInv, CacheState
      <3> QED  BY <1>7, <1>12, <3>1
    <2>2. acc'.promised \subseteq acc.promised
      BY <1>6, <1>12
    <2> QED  BY <1>12, <1>15, <2>1, <2>2, QuietPromise
  <1>20. ListInv'
    <2>1. CacheNames' = CacheNames
      BY <1>12, NamesStay
    <2>2. SUFFICES ASSUME NEW q \in Writers
                   PROVE  /\ \A one \in list[q] : one.made \in 1..acc.made
                          /\ \A one, other \in list[q] : one.name = other.name => one = other
                          /\ acc'.pc[q] = "prune" =>
                                 \E K \in SUBSET CacheNames :
                                     /\ IsFiniteSet(K) /\ Cardinality(K) <= CacheKeep
                                     /\ \A one \in list[q] : Surplus(q, one, K)'
      BY <1>12, <2>1 DEF ListInv
    <2>3. /\ \A one \in acc.listed[q] : one.made \in 1..acc.made
          /\ \A one, other \in acc.listed[q] : one.name = other.name => one = other
      BY DEF CacheInv, ListInv
    <2>4. \A one \in list[q] : one.made \in 1..acc.made
      BY <1>3, <1>5, <1>6, <1>8, <2>3
    <2>5. \A one, other \in list[q] : one.name = other.name => one = other
      <3>1. CASE q = p
        BY <1>3, <1>5, <1>6, <1>8, <2>3, <3>1
      <3>2. CASE q # p
        BY <1>8, <2>3, <3>2
      <3> QED  BY <3>1, <3>2
    <2>6. ASSUME acc'.pc[q] = "prune"
          PROVE  \E K \in SUBSET CacheNames :
                     /\ IsFiniteSet(K) /\ Cardinality(K) <= CacheKeep
                     /\ \A one \in list[q] : Surplus(q, one, K)'
      <3>1. acc.pc[q] = "prune"
        BY <1>12, <2>6
      <3>2. PICK K \in SUBSET CacheNames :
                /\ IsFiniteSet(K) /\ Cardinality(K) <= CacheKeep
                /\ \A one \in acc.listed[q] : Surplus(q, one, K)
        BY <3>1 DEF CacheInv, ListInv
      <3>3. \A one \in acc.listed[q] : Surplus(q, one, K)'
        BY <1>15, <3>2, SurplusStays
      <3>4. Surplus(q, item, K)'
        <4>1. acc'.files[item.name].made # item.made
          BY <1>3, <1>5, <1>7, <1>12, NoFileIsNone
        <4> QED  BY <4>1 DEF Surplus
      <3>5. \A one \in list[q] : one \in acc.listed[q] \/ one = item
        BY <1>6, <1>8
      <3> QED  BY <3>2, <3>3, <3>4, <3>5
    <2> QED  BY <2>4, <2>5, <2>6
  <1> QED  BY <1>17, <1>18, <1>19, <1>20 DEF CacheInv
\* Extraction, the end of a prune, a kill and a new run touch no file.
LEMMA NoFileStepInv ==
    ASSUME CacheInv, NEW p \in Writers, ExtractSymbols(p) \/ EndPrune(p) \/ Kill(p) \/ Rerun(p)
    PROVE  CacheInv'
  <1>1. acc \in CacheState /\ at = "cache" /\ "create" \in CachePlaces /\ "done" \in CachePlaces
        /\ "dead" \in CachePlaces /\ "read" \in CachePlaces
    BY DEF CacheInv, CacheTypeOK, CachePlaces
  <1>2. PICK list : list = [acc.listed EXCEPT ![p] = {}]
    OBVIOUS
  <1>3. /\ list \in [Writers -> SUBSET CacheItem] /\ list[p] = {}
        /\ \A q \in Writers : q # p => list[q] = acc.listed[q]
    BY <1>1, <1>2 DEF CacheState
  <1>4. \A x \in {"none", "redacted"} : [acc.answer EXCEPT ![p] = x] \in [Writers -> {"none", "redacted"}]
    BY <1>1 DEF CacheState
  <1>5. acc.clock + 1 \in Nat /\ acc.restarts + 1 \in Nat
    BY <1>1 DEF CacheState
  <1>6. ASSUME NEW new \in CacheState, NEW from, NEW to \in {"create", "done", "dead", "read"},
               CacheStep(p, from, to, new), new.pc = acc.pc, new.files = acc.files, new.flushed = acc.flushed,
               new.promised = acc.promised, new.made = acc.made, new.listed \in {acc.listed, list}
        PROVE  CacheInv'
    <2>1. /\ acc' \in CacheState /\ call' = call /\ at' = "cache" /\ acc'.pc[p] = to
          /\ \A q \in Writers : q # p => acc'.pc[q] = acc.pc[q]
          /\ acc'.files = new.files /\ acc'.flushed = new.flushed /\ acc'.listed = new.listed
          /\ acc'.promised = new.promised /\ acc'.made = new.made
      BY <1>1, <1>6, CacheEffect
    <2> QED  BY <1>3, <1>6, <2>1, IdleInv
  <1>7. CASE ExtractSymbols(p)
    <2>1. PICK an : an = [acc.answer EXCEPT ![p] = "redacted"]
      OBVIOUS
    <2>2. PICK new : new = [acc EXCEPT !.answer = an]
      OBVIOUS
    <2>3. CacheStep(p, "temp", "create", new)
      BY <1>7, <2>1, <2>2 DEF ExtractSymbols
    <2>4. /\ new \in CacheState /\ new.pc = acc.pc /\ new.files = acc.files /\ new.flushed = acc.flushed
          /\ new.promised = acc.promised /\ new.made = acc.made /\ new.listed = acc.listed
      BY <1>1, <1>4, <2>1, <2>2 DEF CacheState
    <2> QED  BY <1>6, <2>3, <2>4
  <1>8. CASE EndPrune(p)
    <2>1. CacheStep(p, "prune", "done", acc)
      BY <1>8 DEF EndPrune
    <2> QED  BY <1>1, <1>6, <2>1
  <1>9. CASE Kill(p)
    <2>1. PICK new : new = [acc EXCEPT !.restarts = acc.restarts + 1, !.listed = list]
      OBVIOUS
    <2>2. CacheStep(p, acc.pc[p], "dead", new)
      BY <1>2, <1>9, <2>1 DEF Kill
    <2>3. /\ new \in CacheState /\ new.pc = acc.pc /\ new.files = acc.files /\ new.flushed = acc.flushed
          /\ new.promised = acc.promised /\ new.made = acc.made /\ new.listed = list
      BY <1>1, <1>3, <1>5, <2>1 DEF CacheState
    <2> QED  BY <1>6, <2>2, <2>3
  <1>10. CASE Rerun(p)
    <2>1. PICK from : CacheStep(p, from, "read",
                          [acc EXCEPT !.clock = @ + 1, !.answer[p] = "none", !.listed[p] = {}])
      BY <1>10 DEF Rerun
    <2>2. PICK an : an = [acc.answer EXCEPT ![p] = "none"]
      OBVIOUS
    <2>3. PICK new : new = [acc EXCEPT !.clock = acc.clock + 1, !.answer = an, !.listed = list]
      OBVIOUS
    <2>4. CacheStep(p, from, "read", new)
      BY <1>2, <2>1, <2>2, <2>3
    <2>5. /\ new \in CacheState /\ new.pc = acc.pc /\ new.files = acc.files /\ new.flushed = acc.flushed
          /\ new.promised = acc.promised /\ new.made = acc.made /\ new.listed = list
      BY <1>1, <1>3, <1>4, <1>5, <2>2, <2>3 DEF CacheState
    <2> QED  BY <1>6, <2>4, <2>5
  <1> QED  BY <1>7, <1>8, <1>9, <1>10

\* An entry survives as it was flushed or as it is, and both are whole.
LEMMA PowerLossInv ==
    ASSUME CacheInv, PowerLoss
    PROVE  CacheInv'
  <1>1. acc \in CacheState /\ at = "cache" /\ call \in CacheCalls
    BY DEF CacheInv, CacheTypeOK
  <1>2. PICK renamed \in SUBSET {n \in CacheNames : acc.files[n] # acc.flushed[n]} :
            /\ acc' = [acc EXCEPT !.files = [n \in CacheNames |-> Survives(IF n \in renamed THEN acc.files[n]
                                                                            ELSE acc.flushed[n])],
                                  !.flushed = [n \in CacheNames |-> Survives(IF n \in renamed THEN acc.files[n]
                                                                              ELSE acc.flushed[n])],
                                  !.restarts = acc.restarts + 1, !.pc = [p \in Writers |-> "dead"],
                                  !.listed = [p \in Writers |-> {}]]
            /\ call' = call /\ at' = at
    BY DEF PowerLoss
  <1>3. PICK left : left = [n \in CacheNames |-> Survives(IF n \in renamed THEN acc.files[n] ELSE acc.flushed[n])]
    OBVIOUS
  <1>4. \A n \in CacheNames : \E f \in {acc.files[n], acc.flushed[n]} : left[n] = Survives(f)
    BY <1>3
  <1>5. \A n \in CacheNames : \A f \in {acc.files[n], acc.flushed[n]} :
            /\ f \in CachedFile /\ GoodFile(n, f)
            /\ Survives(f) \in CachedFile /\ GoodFile(n, Survives(f)) /\ (f # NoFile => Survives(f) # NoFile)
    <2> TAKE n \in CacheNames
    <2> TAKE f \in {acc.files[n], acc.flushed[n]}
    <2>1. f \in CachedFile /\ GoodFile(n, f)
      BY <1>1 DEF CacheInv, FileInv, CacheState
    <2>2. CASE f # NoFile /\ ~f.synced
      <3>1. PICK g : g = [f EXCEPT !.bytes = "partial", !.synced = TRUE]
        OBVIOUS
      <3>2. g \in CachedFile /\ g.bytes = "partial" /\ g.made = f.made
        BY <2>1, <3>1 DEF CachedFile
      <3>3. Survives(f) = g
        BY <2>2, <3>1 DEF Survives
      <3>4. g # NoFile
        BY <3>2, NoFileIsNone
      <3>5. GoodFile(n, g)
        BY <2>1, <2>2, <3>2 DEF GoodFile
      <3> QED  BY <2>1, <3>2, <3>3, <3>4, <3>5
    <2>3. CASE ~(f # NoFile /\ ~f.synced)
      BY <2>1, <2>3 DEF Survives
    <2> QED  BY <2>2, <2>3
  <1>6. left \in [CacheNames -> CachedFile]
    <2>1. \A n \in CacheNames : left[n] \in CachedFile
      BY <1>4, <1>5
    <2> QED  BY <1>3, <2>1
  <1>7. PICK pc, list : pc = [p \in Writers |-> "dead"] /\ list = [p \in Writers |-> {}]
    OBVIOUS
  <1>8. pc \in [Writers -> CachePlaces] /\ list \in [Writers -> SUBSET CacheItem] /\ acc.restarts + 1 \in Nat
    BY <1>1, <1>7 DEF CachePlaces, CacheState
  <1>9. acc' = [acc EXCEPT !.files = left, !.flushed = left, !.restarts = acc.restarts + 1, !.pc = pc, !.listed = list]
    BY <1>2, <1>3, <1>7
  <1>10. /\ acc' \in CacheState /\ acc'.files = left /\ acc'.flushed = left /\ acc'.pc = pc /\ acc'.listed = list
         /\ acc'.promised = acc.promised /\ acc'.made = acc.made
    BY <1>1, <1>6, <1>8, <1>9 DEF CacheState
  <1>11. CacheNames' = CacheNames /\ CacheState' = CacheState
    BY <1>2, NamesStay
  <1>12. CacheTypeOK'
    BY <1>1, <1>2, <1>10, <1>11 DEF CacheTypeOK
  <1>13. FileInv'
    <2>1. \A n \in CacheNames : GoodFile(n, left[n])
      BY <1>4, <1>5
    <2> QED  BY <1>10, <1>11, <2>1 DEF FileInv, GoodFile, NoFile
  <1>14. TempInv'
    BY <1>7, <1>10 DEF TempInv, Writing
  <1>15. PromiseInv'
    <2>1. \A f \in acc.promised :
              /\ f[1] \in CacheNames /\ f[1].pid = "none" /\ acc.files[f[1]] # NoFile /\ acc.flushed[f[1]] # NoFile
      BY <1>1 DEF CacheInv, PromiseInv, CacheState
    <2>2. \A f \in acc.promised : left[f[1]] # NoFile
      BY <1>4, <1>5, <2>1
    <2> QED  BY <1>10, <2>1, <2>2 DEF PromiseInv, NoFile
  <1>16. ListInv'
    BY <1>7, <1>10 DEF ListInv
  <1> QED  BY <1>12, <1>13, <1>14, <1>15, <1>16 DEF CacheInv

LEMMA CacheStepInv ==
    ASSUME CacheInv, [CacheNext]_vars
    PROVE  CacheInv'
  <1>1. CASE UNCHANGED vars
    <2>1. acc' = acc /\ call' = call /\ at' = at
      BY <1>1 DEF vars
    <2>2. CacheNames' = CacheNames /\ CacheState' = CacheState /\ \A q \in Writers : TempName(q)' = TempName(q)
      BY <2>1, NamesStay
    <2>3. CacheTypeOK' /\ FileInv' /\ PromiseInv'
      BY <2>1, <2>2 DEF CacheInv, CacheTypeOK, FileInv, GoodFile, PromiseInv, NoFile
    <2>4. TempInv'
      BY <2>1, <2>2 DEF CacheInv, TempInv, Writing, NoFile
    <2>5. ListInv'
      BY <2>1, <2>2 DEF CacheInv, ListInv, Surplus
    <2> QED  BY <2>3, <2>4, <2>5 DEF CacheInv
  <1> QED  BY <1>1, ReadEntryInv, CreateTempInv, WriteSyncInv, RenameTempInv, FlushDirInv, ListDirectoryInv,
              PruneOneInv, NoFileStepInv, PowerLossInv DEF CacheNext

\* State on disk is ours, private and whole: for any path, any rival, any number
\* of writers of any versions and trees, any bound on the entries, and any kills
\* and power losses (state_dir.rs: walk, write_new_gitignore, atomic_write;
\* recommend.rs: prune_target_symbol_caches).
THEOREM StateIsSafe ==
    (StateInit \/ CacheInit) /\ [][StateNext \/ CacheNext]_vars => []StateFilesAreSafe
  <1> DEFINE Inv == (InState /\ DirInv) \/ CacheInv
  <1>1. StateInit \/ CacheInit => Inv
    BY DirInitInv, CacheInitInv DEF DirInv, DirTypeOK
  <1>2. Inv /\ [StateNext \/ CacheNext]_vars => Inv'
    <2>1. ASSUME InState, DirInv, [StateNext \/ CacheNext]_vars
          PROVE  (InState /\ DirInv)'
      <3>1. ~CacheNext
        BY <2>1 DEF InState, CacheNext
      <3> QED  BY <2>1, <3>1, DirStepInv DEF DirInv, DirTypeOK
    <2>2. ASSUME CacheInv, [StateNext \/ CacheNext]_vars
          PROVE  CacheInv'
      <3>1. ~StateNext
        BY <2>2 DEF CacheInv, CacheTypeOK, StateNext, KillState
      <3> QED  BY <2>2, <3>1, CacheStepInv
    <2> QED  BY <2>1, <2>2
  <1>3. Inv => StateFilesAreSafe
    <2>1. ASSUME InState, DirInv
          PROVE  StateFilesAreSafe
      <3>1. at # "cache"
        BY <2>1 DEF InState
      <3>2. EntriesAreWhole /\ PublishedSurvives /\ AnswersAgree /\ PruneBounds
        BY <3>1 DEF EntriesAreWhole, PublishedSurvives, AnswersAgree, PruneBounds
      <3> QED  BY <2>1, <3>2, DirInvSuffices DEF StateFilesAreSafe
    <2>2. ASSUME CacheInv
          PROVE  StateFilesAreSafe
      <3>1. at = "cache"
        BY <2>2 DEF CacheInv, CacheTypeOK
      <3>2. StateIsOurs /\ OnlyStateIsTouched /\ SiblingsBothSucceed /\ MarkerIsWhole
        BY <3>1 DEF StateIsOurs, OnlyStateIsTouched, SiblingsBothSucceed, MarkerIsWhole, InState
      <3> QED  BY <2>2, <3>2, CacheInvSuffices DEF StateFilesAreSafe
    <2> QED  BY <2>1, <2>2
  <1> QED  BY <1>1, <1>2, <1>3, PTL---------------------------------------------------------------------------
(* PluginTools: maintain and recommend                                       *)

MaintainFields == {"i", "code", "opened", "used", "stored", "callbacks"}

\* Until the operation starts there is only the index, and it is opened last.
MaintainInv ==
    /\ call \in MaintainCalls /\ at \in {"maintain", "maintained"} /\ DOMAIN acc = MaintainFields
    /\ acc.i \in 1..(Len(Checks) + 1)
    /\ \A k \in 1..(acc.i - 1) : Passes(Checks[k])
    /\ at = "maintain" => /\ acc.code = "none" /\ ~acc.callbacks /\ acc.stored = {}
                          /\ acc.opened => acc.i = Len(Checks) + 1
    /\ RefusedTouchesNothing /\ NothingIsIgnored /\ VerifiedByOrbit

LEMMA ChecksAreSeven ==
    /\ Len(Checks) = 7
    /\ Checks[3] = "fields" /\ Checks[7] = "open" /\ \A k \in 1..7 : Checks[k] = "open" => k = 7
    /\ \A k \in 1..7 : Checks[k] \in {"input", "schema", "fields", "bounds", "parts", "repository", "open"}
  BY DEF Checks

LEMMA MaintainInitInv ==
    ASSUME MaintainInit
    PROVE  MaintainInv
  BY ChecksAreSeven
     DEF MaintainInit, MaintainInv, MaintainFields, RefusedTouchesNothing, NothingIsIgnored, VerifiedByOrbit

\* One check more is passed, or the request is refused.
LEMMA CheckInv ==
    ASSUME MaintainInv, Check
    PROVE  MaintainInv'
  <1>1. /\ at = "maintain" /\ call \in MaintainCalls /\ call' = call /\ DOMAIN acc = MaintainFields
        /\ acc.i \in 1..7 /\ acc.code = "none" /\ ~acc.callbacks /\ acc.stored = {} /\ ~acc.opened
        /\ \A k \in 1..(acc.i - 1) : Passes(Checks[k])
    BY ChecksAreSeven DEF MaintainInv, Check, ToolGoto
  <1>2. \A k \in 1..8 : Passes(Checks[k])' = Passes(Checks[k])
    BY <1>1 DEF Passes, decode_input, validate_schema, Applicable, BoundsHold, PartsDecode
  <1>3. CASE Passes(Checks[acc.i])
    <2>1. /\ at' = "maintain"
          /\ acc' = [acc EXCEPT !.i = @ + 1,
                                !.opened = @ \/ (Checks[acc.i] = "open" /\ call.op # "graph_sync")]
      BY <1>3 DEF Check, ToolGoto
    <2>2. /\ DOMAIN acc' = MaintainFields /\ acc'.i = acc.i + 1 /\ acc'.code = acc.code
          /\ acc'.callbacks = acc.callbacks /\ acc'.stored = acc.stored
          /\ acc'.opened = (acc.opened \/ (Checks[acc.i] = "open" /\ call.op # "graph_sync"))
      BY <1>1, <2>1 DEF MaintainFields
    <2>3. acc'.opened => acc.i = 7
      BY <1>1, <2>2, ChecksAreSeven
    <2>4. \A k \in 1..(acc'.i - 1) : Passes(Checks[k])'
      BY <1>1, <1>2, <1>3, <2>2
    <2> QED  BY <1>1, <2>1, <2>2, <2>3, <2>4, ChecksAreSeven
             DEF MaintainInv, RefusedTouchesNothing, NothingIsIgnored, VerifiedByOrbit
  <1>4. CASE ~Passes(Checks[acc.i])
    <2>1. at' = "maintained" /\ acc' = [acc EXCEPT !.code = RefusalOf(Checks[acc.i])]
      BY <1>4 DEF Check, ToolGoto
    <2>2. /\ DOMAIN acc' = MaintainFields /\ acc'.i = acc.i /\ acc'.code = RefusalOf(Checks[acc.i])
          /\ acc'.callbacks = acc.callbacks /\ acc'.stored = acc.stored /\ acc'.opened = acc.opened
      BY <1>1, <2>1 DEF MaintainFields
    <2>3. acc'.code # "ok"
      BY <2>2 DEF RefusalOf
    <2>4. \A k \in 1..(acc'.i - 1) : Passes(Checks[k])'
      BY <1>1, <1>2, <2>2
    <2> QED  BY <1>1, <2>1, <2>2, <2>3, <2>4, ChecksAreSeven
             DEF MaintainInv, RefusedTouchesNothing, NothingIsIgnored, VerifiedByOrbit
  <1> QED  BY <1>3, <1>4

\* An operation runs after all the checks: what it reads is all there is.
LEMMA OperationInv ==
    ASSUME MaintainInv, at = "maintain", acc.i > Len(Checks),
           HistorySync \/ Import \/ SyncOrbit \/ SyncGraph \/ OperationFails
    PROVE  MaintainInv'
  <1>1. /\ call \in MaintainCalls /\ DOMAIN acc = MaintainFields /\ acc.i = 8
        /\ acc.code = "none" /\ ~acc.callbacks /\ acc.stored = {}
        /\ \A k \in 1..7 : Passes(Checks[k])
    BY ChecksAreSeven DEF MaintainInv
  <1>2. call.fields \subseteq reads(call.op)
    <2>1. Passes("fields")
      BY <1>1, ChecksAreSeven
    <2> QED  BY <2>1 DEF Passes, Applicable
  <1>3. /\ at' = "maintained" /\ call' = call
        /\ DOMAIN acc' = MaintainFields /\ acc'.i = acc.i
        /\ \/ acc'.code = "ok" /\ acc'.used = call.fields
           \/ acc'.code = "graph_error"
        /\ "verified_delivery" \in acc'.stored => acc'.callbacks
    <2>1. CASE HistorySync
      <3>1. acc' = Uses({"branch", "limit"}) /\ at' = "maintained" /\ call' = call
        BY <2>1 DEF HistorySync, ToolGoto
      <3>2. call.fields \cap {"branch", "limit"} = call.fields
        BY <1>2, <2>1 DEF HistorySync, reads
      <3> QED  BY <1>1, <3>1, <3>2 DEF Uses, MaintainFields
    <2>2. CASE Import
      <3>1. /\ at' = "maintained" /\ call' = call
            /\ acc' = [Uses({"branch", "delivery"}) EXCEPT
                          !.stored = {IF call.claim = "verified_delivery" THEN "caller_attested" ELSE call.claim}]
        BY <2>2 DEF Import, ToolGoto
      <3>2. call.fields \cap {"branch", "delivery"} = call.fields
        BY <1>2, <2>2 DEF Import, reads
      <3>3. "verified_delivery" \notin {IF call.claim = "verified_delivery" THEN "caller_attested" ELSE call.claim}
        OBVIOUS
      <3>4. /\ DOMAIN acc' = MaintainFields /\ acc'.i = acc.i
            /\ acc'.code = "ok" /\ acc'.used = call.fields
            /\ acc'.stored = {IF call.claim = "verified_delivery" THEN "caller_attested" ELSE call.claim}
        BY <1>1, <3>1, <3>2 DEF Uses, MaintainFields
      <3> QED  BY <3>1, <3>3, <3>4
    <2>3. CASE SyncOrbit
      <3>1. /\ at' = "maintained" /\ call' = call
            /\ acc' = [Uses({"branch", "limit", "workspace", "task_ids", "task_runs", "task_snapshots"}) EXCEPT
                          !.callbacks = TRUE, !.stored = {"verified_delivery"}]
        BY <2>3 DEF SyncOrbit, ToolGoto
      <3>2. call.fields \cap {"branch", "limit", "workspace", "task_ids", "task_runs", "task_snapshots"} = call.fields
        BY <1>2, <2>3 DEF SyncOrbit, reads
      <3> QED  BY <1>1, <3>1, <3>2 DEF Uses, MaintainFields
    <2>4. CASE SyncGraph
      <3>1. acc' = Uses({"full", "budget_ms"}) /\ at' = "maintained" /\ call' = call
        BY <2>4 DEF SyncGraph, ToolGoto
      <3>2. call.fields \cap {"full", "budget_ms"} = call.fields
        BY <1>2, <2>4 DEF SyncGraph, reads
      <3> QED  BY <1>1, <3>1, <3>2 DEF Uses, MaintainFields
    <2>5. CASE OperationFails
      <3>1. PICK stored \in SUBSET (IF call.op = "orbit_sync" THEN {"verified_delivery"} ELSE {}) :
                /\ at' = "maintained" /\ call' = call
                /\ acc' = [acc EXCEPT !.code = "graph_error", !.stored = stored,
                                      !.callbacks = call.op = "orbit_sync"]
        BY <2>5 DEF OperationFails, ToolGoto
      <3>2. "verified_delivery" \in stored => call.op = "orbit_sync"
        BY <3>1
      <3>3. /\ DOMAIN acc' = MaintainFields /\ acc'.i = acc.i /\ acc'.code = "graph_error"
            /\ acc'.stored = stored /\ acc'.callbacks = (call.op = "orbit_sync")
        BY <1>1, <3>1 DEF MaintainFields
      <3> QED  BY <3>1, <3>2, <3>3
    <2> QED  BY <2>1, <2>2, <2>3, <2>4, <2>5
  <1>4. \A k \in 1..7 : Passes(Checks[k])'
    BY <1>1, <1>3 DEF Passes, decode_input, validate_schema, Applicable, BoundsHold, PartsDecode
  <1> QED  BY <1>1, <1>3, <1>4, ChecksAreSeven
           DEF MaintainInv, RefusedTouchesNothing, NothingIsIgnored, VerifiedByOrbit

LEMMA MaintainStep ==
    ASSUME MaintainInv, [MaintainNext]_vars
    PROVE  MaintainInv'
  <1>1. CASE UNCHANGED vars
    BY <1>1 DEF vars, MaintainInv, Passes, decode_input, validate_schema, Applicable, BoundsHold, PartsDecode,
                RefusedTouchesNothing, NothingIsIgnored, VerifiedByOrbit
  <1> QED  BY <1>1, CheckInv, OperationInv DEF MaintainNext

\* A maintenance request that is refused has touched nothing, one that is
\* accepted was read to its last field, and what it stored as verified was
\* verified through Orbit: for any fields, whatever is wrong with them
\* (plugin.rs: maintain, MaintenanceOperation::reads).
THEOREM MaintenanceIsHonest ==
    MaintainInit /\ [][MaintainNext]_vars => [](RefusedTouchesNothing /\ NothingIsIgnored /\ VerifiedByOrbit)
  <1>1. MaintainInv => RefusedTouchesNothing /\ NothingIsIgnored /\ VerifiedByOrbit
    BY DEF MaintainInv
  <1> QED  BY <1>1, MaintainInitInv, MaintainStep, PTL

AskFields == {"code", "snapshot", "confirmed", "hits", "dropped", "source", "relevance"}

\* Past the observation the snapshot is Orbit's answer, unless there is a cutoff.
AskInv ==
    /\ at \in {"ask", "findTasks", "askEngine", "toolAnswered"} /\ DOMAIN acc = AskFields
    /\ call.observed # "none"
    /\ at = "ask" => acc.snapshot = call.snapshot
    /\ (at \in {"findTasks", "askEngine"} /\ call.task # "none") =>
           /\ acc.snapshot # "none"
           /\ ~call.cutoff => acc.confirmed /\ acc.snapshot = call.observed
    /\ TextIsOfTheTask

LEMMA AskStep ==
    ASSUME AskInv, [AskNext]_vars
    PROVE  AskInv'
  <1>1. CASE UNCHANGED vars
    BY <1>1 DEF vars, AskInv, TextIsOfTheTask
  <1>2. CASE ObserveTask
    <2>1. at = "ask" /\ call' = call /\ DOMAIN acc = AskFields /\ acc.snapshot = call.snapshot
      BY <1>2 DEF AskInv, ObserveTask, Refuse, ToolGoto
    <2>2. \/ \E code \in {"invalid_request", "repository_unavailable", "orbit_refused", "timeout", "graph_error"} :
                 at' = "toolAnswered" /\ acc' = [acc EXCEPT !.code = code]
          \/ (call.task = "none" \/ (call.cutoff /\ call.snapshot # "none")) /\ at' = "findTasks" /\ acc' = acc
          \/ at' = "findTasks" /\ acc' = [acc EXCEPT !.snapshot = call.observed, !.confirmed = TRUE]
      BY <1>2 DEF ObserveTask, Refuse, ToolGoto
    <2> QED  BY <2>1, <2>2 DEF AskInv, AskFields, TextIsOfTheTask
  <1>3. CASE SearchTasks
    <2>1. /\ at = "findTasks" /\ at' = "askEngine" /\ call' = call
          /\ DOMAIN acc' = DOMAIN acc /\ acc'.snapshot = acc.snapshot /\ acc'.confirmed = acc.confirmed
      BY <1>3 DEF AskInv, AskFields, SearchTasks, ToolGoto
    <2> QED  BY <2>1 DEF AskInv, TextIsOfTheTask
  <1>4. CASE AskEngine
    <2>1. at = "askEngine" /\ at' = "toolAnswered" /\ call' = call /\ DOMAIN acc = AskFields
      BY <1>4 DEF AskInv, AskEngine, Refuse, ToolGoto
    <2>2. \/ \E code \in {"index_missing", "invalid_request", "not_found"} : acc' = [acc EXCEPT !.code = code]
          \/ EngineAccepts /\ acc' = [acc EXCEPT !.code = "ok", !.relevance = normalized_hybrid_hits(acc.hits)]
      BY <1>4 DEF AskEngine, Refuse, ToolGoto
    <2> QED  BY <2>1, <2>2 DEF AskInv, AskFields, TextIsOfTheTask, EngineAccepts
  <1> QED  BY <1>1, <1>2, <1>3, <1>4 DEF AskNext

\* Recommendations for a task are ranked against its own text, which Orbit has
\* confirmed unless the request has a cutoff: for any text supplied, any answer
\* of Orbit and any result of its search (plugin.rs: recommend; recommend.rs:
\* validate_request).
THEOREM RankedTextIsTheTasks == AskInit /\ [][AskNext]_vars => []TextIsOfTheTask
  <1>1. AskInit => AskInv
    BY PluginAssumption DEF AskInit, AskInv, AskFields, TextIsOfTheTask
  <1>2. AskInv => TextIsOfTheTask
    BY DEF AskInv
  <1> QED  BY <1>1, <1>2, AskStep, PTL---------------------------------------------------------------------------
(* Snapshots: the uncommitted state, and both sides                          *)

IsChange(i) ==
    /\ call[i].flags \cap {ChangeOrder[j] : j \in DOMAIN ChangeOrder} # {}
    /\ ~IsGraphScratch(call[i].path)
ChangeWords ==
    {"none", "conflicted", "untracked", "added", "deleted", "renamed", "type_changed", "modified"}
SeenChanges == {i \in 1..(acc.next - 1) : IsChange(i)}
PathsOf(S) == {call[i].path : i \in S}
ChangeEntries == [path : PathsOf(DOMAIN call), change : ChangeWords]
Listed == {acc.state.entries[i].path : i \in DOMAIN acc.state.entries}

\* What the scan has said of the entries before the next.
StatusInv ==
    /\ call \in StatusCalls /\ at \in {"statusScan", "statusDone"}
    /\ DOMAIN acc = {"next", "state"} /\ acc.next \in 1..(Len(call) + 1)
    /\ DOMAIN acc.state = {"dirty", "entries", "truncated"}
    /\ acc.state.dirty \in BOOLEAN /\ acc.state.truncated \in BOOLEAN
    /\ acc.state.entries \in Seq(ChangeEntries)
    /\ acc.state.dirty <=> SeenChanges # {}
    /\ acc.state.truncated <=> \E p \in PathsOf(SeenChanges) : p \notin Listed
    /\ Listed \subseteq PathsOf(SeenChanges)
    /\ at = "statusDone" => acc.next = Len(call) + 1

LEMMA ClassifyKnows ==
    ASSUME NEW flags
    PROVE  /\ ClassifyStatus(flags) \in ChangeWords
           /\ ClassifyStatus(flags) = "none" <=> flags \cap {ChangeOrder[j] : j \in DOMAIN ChangeOrder} = {}
  <1> DEFINE set == {i \in DOMAIN ChangeOrder : ChangeOrder[i] \in flags}
  <1>1. DOMAIN ChangeOrder = 1..7 /\ \A i \in 1..7 : ChangeOrder[i] \in ChangeWords \ {"none"}
    BY DEF ChangeOrder, ChangeWords
  <1>2. ClassifyStatus(flags) = IF set = {} THEN "none" ELSE ChangeOrder[Min(set)]
    BY DEF ClassifyStatus
  <1>3. set = {} <=> flags \cap {ChangeOrder[j] : j \in DOMAIN ChangeOrder} = {}
    OBVIOUS
  <1>5. "none" \in ChangeWords
    BY DEF ChangeWords
  <1>4. ASSUME set # {}
        PROVE  Min(set) \in 1..7
    <2>1. set \subseteq Nat /\ set \subseteq 1..7
      BY <1>1
    <2>2. \E n \in set : \A m \in set : n <= m
      BY <1>4, <2>1, Smallest
    <2>3. Min(set) \in set
      BY <2>2 DEF Min
    <2> QED  BY <2>1, <2>3
  <1>6. CASE set = {}
    BY <1>2, <1>3, <1>5, <1>6
  <1>7. CASE set # {}
    <2>1. ClassifyStatus(flags) = ChangeOrder[Min(set)]
      BY <1>2, <1>7
    <2> QED  BY <1>1, <1>3, <1>4, <1>7, <2>1
  <1> QED  BY <1>6, <1>7

LEMMA StatusInitInv ==
    ASSUME StatusInit
    PROVE  StatusInv
  <1>1. /\ call \in StatusCalls /\ at = "statusScan" /\ Len(call) \in Nat
        /\ acc = [next |-> 1, state |-> [dirty |-> FALSE, entries |-> <<>>, truncated |-> FALSE]]
    BY SnapshotAssumption DEF StatusInit, NoState
  <1>2. /\ acc.next = 1 /\ acc.state.dirty = FALSE /\ acc.state.truncated = FALSE /\ acc.state.entries = <<>>
        /\ DOMAIN acc = {"next", "state"} /\ DOMAIN acc.state = {"dirty", "entries", "truncated"}
    BY <1>1
  <1>3. SeenChanges = {} /\ Listed = {} /\ PathsOf(SeenChanges) = {}
    BY <1>2 DEF SeenChanges, Listed, PathsOf
  <1>4. acc.state.entries \in Seq(ChangeEntries) /\ acc.next \in 1..(Len(call) + 1)
    <2>1. \A n \in Nat : 1 \in 1..(n + 1)
      OBVIOUS
    <2>2. <<>> \in Seq(ChangeEntries)
      OBVIOUS
    <2> QED  BY <1>1, <1>2, <2>1, <2>2
  <1> QED  BY <1>1, <1>2, <1>3, <1>4 DEF StatusInv

\* One entry more is looked at.
LEMMA ScanInv ==
    ASSUME StatusInv, ScanStatus
    PROVE  StatusInv'
  <1> DEFINE i == acc.next
             path == call[i].path
             change == ClassifyStatus(call[i].flags)
             entries == acc.state.entries
             full == Len(entries) >= DirtyCap
  <1>1. /\ at = "statusScan" /\ at' = at /\ call' = call /\ call \in StatusCalls
        /\ Len(call) \in Nat /\ DOMAIN call = 1..Len(call) /\ i \in 1..Len(call)
        /\ \A k, n \in DOMAIN call : call[k].path = call[n].path => k = n
    BY SnapshotAssumption DEF StatusInv, ScanStatus
  <1>2. acc' = [next |-> i + 1,
                state |-> IF change = "none" \/ IsGraphScratch(path) THEN acc.state
                          ELSE [dirty |-> TRUE, truncated |-> acc.state.truncated \/ full,
                                entries |-> IF full THEN entries
                                            ELSE Append(entries, [path |-> path, change |-> change])]]
    BY DEF ScanStatus
  <1>3. DOMAIN acc' = {"next", "state"} /\ acc'.next = i + 1 /\ acc'.next \in 1..(Len(call) + 1)
    BY <1>1, <1>2
  <1>4. \A k \in DOMAIN call : IsChange(k)' = IsChange(k)
    BY <1>1 DEF IsChange, IsGraphScratch
  <1>5. SeenChanges' = {k \in 1..i : IsChange(k)} /\ SeenChanges = {k \in 1..(i - 1) : IsChange(k)}
    BY <1>1, <1>3, <1>4 DEF SeenChanges
  <1>a. \A S : PathsOf(S)' = PathsOf(S)
    BY <1>1 DEF PathsOf
  <1>b. ChangeEntries' = ChangeEntries
    BY <1>1, <1>a DEF ChangeEntries
  <1>6. /\ entries \in Seq(ChangeEntries) /\ Listed \subseteq PathsOf(SeenChanges)
        /\ DOMAIN acc.state = {"dirty", "entries", "truncated"}
        /\ acc.state.dirty \in BOOLEAN /\ acc.state.truncated \in BOOLEAN
        /\ acc.state.dirty <=> SeenChanges # {}
        /\ acc.state.truncated <=> \E p \in PathsOf(SeenChanges) : p \notin Listed
    BY DEF StatusInv
  <1>7. change \in ChangeWords /\ (IsChange(i) <=> ~(change = "none" \/ IsGraphScratch(path)))
    BY ClassifyKnows DEF IsChange
  <1>8. CASE ~IsChange(i)
    <2>1. acc'.state = acc.state
      BY <1>2, <1>7, <1>8
    <2>2. SeenChanges' = SeenChanges /\ PathsOf(SeenChanges)' = PathsOf(SeenChanges)
      BY <1>1, <1>5, <1>8 DEF PathsOf
    <2>3. Listed' = Listed
      BY <2>1 DEF Listed
    <2> QED  BY <1>1, <1>3, <1>6, <1>b, <2>1, <2>2, <2>3 DEF StatusInv
  <1>9. CASE IsChange(i)
    <2>1. /\ acc'.state = [dirty |-> TRUE, truncated |-> acc.state.truncated \/ full,
                           entries |-> IF full THEN entries
                                       ELSE Append(entries, [path |-> path, change |-> change])]
      BY <1>2, <1>7, <1>9
    <2>2. /\ DOMAIN acc'.state = {"dirty", "entries", "truncated"} /\ acc'.state.dirty = TRUE
          /\ acc'.state.truncated = (acc.state.truncated \/ full)
          /\ acc'.state.entries = IF full THEN entries ELSE Append(entries, [path |-> path, change |-> change])
      BY <2>1
    <2>3. /\ SeenChanges' = SeenChanges \cup {i} /\ i \notin SeenChanges /\ SeenChanges \subseteq DOMAIN call
      BY <1>1, <1>5, <1>9
    <2>4. path \notin PathsOf(SeenChanges) /\ path \notin Listed
      <3>1. \A k \in SeenChanges : call[k].path # path
        BY <1>1, <2>3
      <3> QED  BY <1>6, <3>1 DEF PathsOf
    <2>7. PathsOf(SeenChanges)' = PathsOf(SeenChanges) \cup {path}
      BY <1>1, <2>3 DEF PathsOf
    <2>5. CASE full
      <3>1. acc'.state.entries = entries /\ acc'.state.truncated = TRUE /\ Listed' = Listed
        BY <1>6, <2>2, <2>5 DEF Listed
      <3>2. Listed' \subseteq PathsOf(SeenChanges)' /\ \E p \in PathsOf(SeenChanges)' : p \notin Listed'
        BY <1>6, <2>4, <2>7, <3>1
      <3>3. SeenChanges' # {}
        BY <2>3
      <3> QED  BY <1>1, <1>3, <1>6, <1>b, <2>2, <3>1, <3>2, <3>3 DEF StatusInv
    <2>6. CASE ~full
      <3>1. acc'.state.entries = Append(entries, [path |-> path, change |-> change])
            /\ acc'.state.truncated = acc.state.truncated
        BY <1>6, <2>2, <2>6
      <3>2. acc'.state.entries \in Seq(ChangeEntries)
        <4>1. path \in PathsOf(DOMAIN call)
          BY <1>1 DEF PathsOf
        <4>2. [path |-> path, change |-> change] \in ChangeEntries
          BY <1>7, <4>1 DEF ChangeEntries
        <4> QED  BY <1>6, <3>1, <4>2
      <3>3. Listed' = Listed \cup {path}
        <4>1. /\ DOMAIN acc'.state.entries = 1..(Len(entries) + 1) /\ DOMAIN entries = 1..Len(entries)
              /\ Len(entries) \in Nat
              /\ \A k \in 1..Len(entries) : acc'.state.entries[k] = entries[k]
              /\ acc'.state.entries[Len(entries) + 1] = [path |-> path, change |-> change]
          BY <1>6, <3>1
        <4>2. acc'.state.entries[Len(entries) + 1].path = path
          BY <4>1
        <4>4. ASSUME NEW p
              PROVE  p \in Listed' <=> p \in Listed \cup {path}
          <5>1. p \in Listed' <=> \E k \in 1..(Len(entries) + 1) : p = acc'.state.entries[k].path
            BY <4>1 DEF Listed
          <5>2. p \in Listed <=> \E k \in 1..Len(entries) : p = entries[k].path
            BY <4>1 DEF Listed
          <5>3. 1..(Len(entries) + 1) = 1..Len(entries) \cup {Len(entries) + 1}
            BY <4>1
          <5> QED  BY <4>1, <4>2, <5>1, <5>2, <5>3
        <4> QED  BY <4>4
      <3>4. /\ Listed' \subseteq PathsOf(SeenChanges)'
            /\ (\E p \in PathsOf(SeenChanges)' : p \notin Listed') <=> (\E p \in PathsOf(SeenChanges) : p \notin Listed)
        BY <1>6, <2>4, <2>7, <3>3
      <3>5. SeenChanges' # {}
        BY <2>3
      <3> QED  BY <1>1, <1>3, <1>6, <1>b, <2>2, <3>1, <3>2, <3>4, <3>5 DEF StatusInv
    <2> QED  BY <2>5, <2>6
  <1> QED  BY <1>8, <1>9

LEMMA StatusStep ==
    ASSUME StatusInv, [StatusNext]_vars
    PROVE  StatusInv'
  <1>3. ASSUME call' = call, acc' = acc
        PROVE  /\ SeenChanges' = SeenChanges /\ Listed' = Listed /\ ChangeEntries' = ChangeEntries
               /\ PathsOf(SeenChanges)' = PathsOf(SeenChanges)
    <2>1. SeenChanges' = SeenChanges
      BY <1>3 DEF SeenChanges, IsChange, IsGraphScratch
    <2>2. Listed' = Listed
      BY <1>3 DEF Listed
    <2> QED  BY <1>3, <2>1, <2>2 DEF PathsOf, ChangeEntries
  <1>1. CASE UNCHANGED vars
    BY <1>1, <1>3 DEF vars, StatusInv
  <1>2. CASE ScanEnds
    <2>1. /\ call' = call /\ acc' = acc /\ at' = "statusDone" /\ Len(call) \in Nat
          /\ acc.next \in 1..(Len(call) + 1) /\ acc.next > Len(call)
      BY <1>2, SnapshotAssumption DEF ScanEnds, StatusInv
    <2>2. acc.next = Len(call) + 1
      BY <2>1
    <2> QED  BY <1>3, <2>1, <2>2 DEF StatusInv
  <1> QED  BY <1>1, <1>2, ScanInv DEF StatusNext

\* The uncommitted state says that it is dirty exactly when something is, and
\* that it is cut exactly when something is not listed: for any list of entries
\* and flags and any cap (snapshot.rs: working_tree_state, classify_status).
THEOREM StatusIsDisclosed == StatusInit /\ [][StatusNext]_vars => []DirtyIsDisclosed
  <1>1. StatusInv => DirtyIsDisclosed
    <2> SUFFICES ASSUME StatusInv, at = "statusDone"
                 PROVE  DirtyIsDisclosed
      BY DEF DirtyIsDisclosed
    <2>1. acc.next - 1 = Len(call) /\ DOMAIN call = 1..Len(call)
      BY SnapshotAssumption DEF StatusInv
    <2>2. SeenChanges = {i \in DOMAIN call :
                            /\ call[i].flags \cap {ChangeOrder[j] : j \in DOMAIN ChangeOrder} # {}
                            /\ call[i].path \notin {".orbit-graph", ".orbit-graph/x"}}
      BY <2>1 DEF SeenChanges, IsChange, IsGraphScratch
    <2>3. /\ acc.state.dirty = (SeenChanges # {})
          /\ acc.state.truncated = (\E i \in SeenChanges : call[i].path \notin Listed)
          /\ Listed \subseteq {call[i].path : i \in SeenChanges}
      BY DEF StatusInv, PathsOf
    <2> QED  BY <2>2, <2>3 DEF DirtyIsDisclosed, Listed
  <1> QED  BY <1>1, StatusInitInv, StatusStep, PTL
Truth(x) == call.excluded[call[x]]
TrueCounts(x) == Counts(LabelsOf(StoredBuild(Truth(x))))
SideFields == {"pc", "counts", "store", "indexed", "report"}

\* What a side holds at each of its places.
SideOK(x, s) ==
    /\ DOMAIN s = SideFields
    /\ s.pc \in {"start", "stage", "temporary", "materialize", "materialized", "index", "publish",
                 "ready", "stopped", "failed"}
    /\ (s.pc = "stage" \/ s.store = "staged") => ~IsWorkingTree(x)
    /\ s.pc \in {"start", "stage", "temporary", "stopped", "failed"} => s.store = "none"
    /\ s.pc \in {"materialize", "materialized", "index"} => s.store \in {"staged", "temporary"}
    /\ s.pc \in {"materialized", "index", "publish", "ready"} => s.report = Truth(x)
    /\ s.pc = "publish" => s.store = "staged" /\ s.indexed
    /\ s.pc = "ready" => s.counts = TrueCounts(x)

\* A ready side has a tree until the comparison is dropped.
HasTree(x, s) ==
    s.pc = "ready" => s.store \in IF IsWorkingTree(x) THEN {"temporary"} ELSE {"temporary", "entry"}

\* An entry is whole and holds what its own commit leaves out.
EntryOK(c, entry) ==
    entry.state = "entry" => entry.whole /\ entry.build = StoredBuild(call.excluded[c])

SidesInv ==
    /\ call \in CompareCalls /\ SidesPart /\ DOMAIN acc = {"side", "cancelled", "outcome", "cache"}
    /\ DOMAIN acc.side = CompareSides /\ DOMAIN acc.cache = DOMAIN call.lookup
    /\ at = "sidesOpen" => \A x \in CompareSides : acc.side[x] = NewSide
    /\ \A c \in DOMAIN call.lookup : EntryOK(c, acc.cache[c])
    /\ \A x \in CompareSides : SideOK(x, acc.side[x])
    /\ at = "sides" => \A x \in CompareSides : HasTree(x, acc.side[x])
    /\ NothingIsLeft

\* A report comes back from an entry's metadata as it was.
LEMMA ReportsRoundTrip ==
    ASSUME call \in CompareCalls, NEW k \in DOMAIN call.excluded
    PROVE  LET r == call.excluded[k]
           IN  /\ FromStored(StoredBuild(r)) = r
               /\ Counts(LabelsOf(StoredBuild(r))) =
                      [ignored |-> Len(r),
                       unsupported |-> Cardinality({i \in DOMAIN r : r[i].why = "UnsupportedKind"})]
  <1> DEFINE r == call.excluded[k]
             S == [why : {"Symlink", "Submodule", "UnsafeName", "UnsupportedKind"}, bytes : {0}]
                  \cup [why : {"OversizeBlob"}, bytes : Nat]
             labels == LabelsOf(StoredBuild(r))
  <1>1. Len(r) \in Nat /\ r \in [1..Len(r) -> S]
    BY SnapshotAssumption
  <1>2. DOMAIN r = 1..Len(r) /\ \A i \in DOMAIN r : r[i] \in S
    BY <1>1
  <1>3. ASSUME NEW i \in DOMAIN r
        PROVE  FromLabel(StoredReason(r[i]).label, StoredReason(r[i]).bytes) = r[i]
    <2>1. r[i] \in S
      BY <1>2
    <2>2. CASE r[i] \in [why : {"OversizeBlob"}, bytes : Nat]
      <3>1. r[i] = [why |-> "OversizeBlob", bytes |-> r[i].bytes]
        BY <2>2
      <3>2. StoredReason(r[i]).label = "oversize_blob" /\ StoredReason(r[i]).bytes = <<r[i].bytes>>
        BY <2>2 DEF StoredReason
      <3>3. <<r[i].bytes>> # <<>> /\ <<r[i].bytes>>[1] = r[i].bytes
        OBVIOUS
      <3> QED  BY <3>1, <3>2, <3>3 DEF FromLabel, Reason
    <2>3. CASE r[i] \in [why : {"Symlink", "Submodule", "UnsafeName", "UnsupportedKind"}, bytes : {0}]
      <3>1. r[i] = [why |-> r[i].why, bytes |-> 0]
        BY <2>3
      <3> QED  BY <2>3, <3>1 DEF StoredReason, FromLabel, Reason
    <2> QED  BY <2>1, <2>2, <2>3
  <1>4. DOMAIN StoredBuild(r) = DOMAIN r /\ \A i \in DOMAIN r : StoredBuild(r)[i] = StoredReason(r[i])
    BY DEF StoredBuild
  <1>5. FromStored(StoredBuild(r)) = r
    <2>1. FromStored(StoredBuild(r)) = [i \in DOMAIN r |-> FromLabel(StoredReason(r[i]).label, StoredReason(r[i]).bytes)]
      BY <1>4 DEF FromStored
    <2>2. FromStored(StoredBuild(r)) = [i \in DOMAIN r |-> r[i]]
      BY <1>3, <2>1
    <2> QED  BY <1>1, <2>2
  <1>6. labels = [i \in 1..Len(r) |-> StoredReason(r[i]).label]
    BY <1>2, <1>4 DEF LabelsOf
  <1>7. Len(labels) = Len(r)
    <2> DEFINE W == {StoredReason(r[i]).label : i \in 1..Len(r)}
    <2>1. labels \in Seq(W) /\ DOMAIN labels = 1..Len(r)
      BY <1>1, <1>6
    <2> HIDE DEF labels, W
    <2> QED  BY <1>1, <2>1
  <1>8. {i \in DOMAIN labels : labels[i] = "unsupported_kind"} = {i \in DOMAIN r : r[i].why = "UnsupportedKind"}
    <2>1. \A i \in DOMAIN r : StoredReason(r[i]).label = "unsupported_kind" <=> r[i].why = "UnsupportedKind"
      BY <1>2 DEF StoredReason
    <2> QED  BY <1>2, <1>6, <2>1
  <1> QED  BY <1>5, <1>7, <1>8 DEF Counts

LEMMA SourcesAreKnown ==
    ASSUME call \in CompareCalls, NEW x \in CompareSides
    PROVE  /\ call[x] \in DOMAIN call.excluded
           /\ IsWorkingTree(x) \/ call[x] \in DOMAIN call.lookup
           /\ FromStored(StoredBuild(Truth(x))) = Truth(x)
  <1>1. call[x] \in {call.base, call.head}
    BY DEF CompareSides
  <1>2. call[x] \in DOMAIN call.excluded /\ call[x] \in DOMAIN call.lookup \cup {"worktree"}
    BY <1>1, SnapshotAssumption
  <1> QED  BY <1>2, ReportsRoundTrip DEF IsWorkingTree, Truth

\* One side steps, and nothing else changes.
LEMMA SetSideInv ==
    ASSUME SidesInv, at = "sides", NEW x \in CompareSides, NEW s, SetSide(x, s), SideOK(x, s), HasTree(x, s)
    PROVE  SidesInv'
  <1>1. /\ call' = call /\ at' = at /\ acc' = [acc EXCEPT !.side[x] = s]
        /\ DOMAIN acc = {"side", "cancelled", "outcome", "cache"}
    BY DEF SetSide, SidesInv
  <1>2. /\ DOMAIN acc' = {"side", "cancelled", "outcome", "cache"} /\ acc'.cache = acc.cache
        /\ acc'.side = [acc.side EXCEPT ![x] = s]
    BY <1>1
  <1>3. DOMAIN acc'.side = CompareSides /\ \A y \in CompareSides : acc'.side[y] = IF y = x THEN s ELSE acc.side[y]
    BY <1>2 DEF SidesInv
  <1>4. \A y \in CompareSides : SideOK(y, acc'.side[y]) /\ HasTree(y, acc'.side[y])
    BY <1>3 DEF SidesInv
  <1>5. \A y \in CompareSides : SideOK(y, acc.side[y])' /\ HasTree(y, acc.side[y])'
    BY <1>1, <1>4 DEF SideOK, HasTree, IsWorkingTree, Truth, TrueCounts
  <1>6. \A c \in DOMAIN call.lookup : EntryOK(c, acc.cache[c])'
    BY <1>1, <1>2 DEF SidesInv, EntryOK
  <1> QED  BY <1>1, <1>2, <1>3, <1>5, <1>6 DEF SidesInv, SidesPart, NothingIsLeft
LEMMA DropTreeInv ==
    ASSUME SidesInv, at = "sides", NEW x \in CompareSides, NEW pc \in {"failed", "stopped"}, DropTree(x, pc)
    PROVE  SidesInv'
  <1> DEFINE s == [acc.side[x] EXCEPT !.pc = pc, !.store = "none"]
  <1>1. SetSide(x, s)
    BY DEF DropTree
  <1>2. SideOK(x, acc.side[x])
    BY DEF SidesInv
  <1>3. DOMAIN s = SideFields /\ s.pc = pc /\ s.store = "none"
    BY <1>2 DEF SideOK, SideFields
  <1>4. SideOK(x, s) /\ HasTree(x, s)
    BY <1>3 DEF SideOK, HasTree
  <1> HIDE DEF s
  <1> QED  BY <1>1, <1>4, SetSideInv

\* An entry that was found, whoever published it.
LEMMA OpenEntryInv ==
    ASSUME SidesInv, at = "sides", NEW x \in CompareSides, ~IsWorkingTree(x),
           acc.cache[call[x]].state = "entry", OpenEntry(x, acc.cache[call[x]])
    PROVE  SidesInv'
  <1> DEFINE build == acc.cache[call[x]].build
             s == [acc.side[x] EXCEPT !.pc = "ready", !.store = "entry", !.report = FromStored(build),
                                      !.counts = Counts(LabelsOf(build))]
  <1>1. call \in CompareCalls /\ SideOK(x, acc.side[x])
    BY DEF SidesInv
  <1>2. build = StoredBuild(Truth(x)) /\ FromStored(build) = Truth(x)
    BY <1>1, SourcesAreKnown DEF SidesInv, EntryOK, Truth
  <1>3. CASE Fails(x)
    BY <1>3, DropTreeInv DEF Fails
  <1>4. CASE SetSide(x, s)
    <2>1. /\ DOMAIN s = SideFields /\ s.pc = "ready" /\ s.store = "entry" /\ s.report = Truth(x)
          /\ s.counts = TrueCounts(x)
      BY <1>1, <1>2 DEF SideOK, SideFields, TrueCounts
    <2>2. SideOK(x, s) /\ HasTree(x, s)
      BY <2>1 DEF SideOK, HasTree
    <2> HIDE DEF s
    <2> QED  BY <1>4, <2>2, SetSideInv
  <1> QED  BY <1>3, <1>4 DEF OpenEntry

\* Up to the index, a side's tree grows in one place.
LEMMA BuildInv ==
    ASSUME SidesInv, NEW x \in CompareSides,
           \/ SkipCache(x) \/ StageSide(x) \/ BeginTemporary(x) \/ MaterializeSide(x) \/ BeginIndex(x)
    PROVE  SidesInv'
  <1> DEFINE s == acc.side[x]
  <1>1. call \in CompareCalls /\ SideOK(x, s) /\ at = "sides"
    BY DEF SidesInv, SkipCache, StageSide, BeginTemporary, MaterializeSide, BeginIndex, SideAt
  <1>2. CASE Fails(x) \/ Stops(x)
    BY <1>1, <1>2, DropTreeInv DEF Fails, Stops
  <1>3. ASSUME NEW new, SetSide(x, new),
               \/ s.pc = "start" /\ new = [s EXCEPT !.pc = "temporary"]
               \/ s.pc = "stage" /\ new = [s EXCEPT !.pc = "materialize", !.store = "staged"]
               \/ s.pc = "temporary" /\ new = [s EXCEPT !.pc = "materialize", !.store = "temporary"]
               \/ s.pc = "materialize" /\ new = [s EXCEPT !.pc = "materialized", !.report = Truth(x)]
               \/ s.pc = "materialized" /\ new = [s EXCEPT !.pc = "index"]
        PROVE  SidesInv'
    <2>1. SideOK(x, new) /\ HasTree(x, new)
      <3>1. DOMAIN s = SideFields
        BY <1>1 DEF SideOK
      <3>2. CASE s.pc = "start" /\ new = [s EXCEPT !.pc = "temporary"]
        BY <1>1, <3>1, <3>2 DEF SideOK, HasTree, SideFields
      <3>3. CASE s.pc = "stage" /\ new = [s EXCEPT !.pc = "materialize", !.store = "staged"]
        BY <1>1, <3>1, <3>3 DEF SideOK, HasTree, SideFields
      <3>4. CASE s.pc = "temporary" /\ new = [s EXCEPT !.pc = "materialize", !.store = "temporary"]
        BY <1>1, <3>1, <3>4 DEF SideOK, HasTree, SideFields
      <3>5. CASE s.pc = "materialize" /\ new = [s EXCEPT !.pc = "materialized", !.report = Truth(x)]
        BY <1>1, <3>1, <3>5 DEF SideOK, HasTree, SideFields
      <3>6. CASE s.pc = "materialized" /\ new = [s EXCEPT !.pc = "index"]
        BY <1>1, <3>1, <3>6 DEF SideOK, HasTree, SideFields
      <3> QED  BY <1>3, <3>2, <3>3, <3>4, <3>5, <3>6
    <2> QED  BY <1>1, <1>3, <2>1, SetSideInv
  <1>4. CASE SkipCache(x)
    BY <1>3, <1>4 DEF SkipCache, SideAt
  <1>5. CASE StageSide(x)
    BY <1>2, <1>3, <1>5 DEF StageSide, SideAt
  <1>6. CASE BeginTemporary(x)
    BY <1>2, <1>3, <1>6 DEF BeginTemporary, SideAt
  <1>7. CASE MaterializeSide(x)
    BY <1>2, <1>3, <1>7 DEF MaterializeSide, SideAt, Truth
  <1>8. CASE BeginIndex(x)
    BY <1>2, <1>3, <1>8 DEF BeginIndex, SideAt
  <1> QED  BY <1>4, <1>5, <1>6, <1>7, <1>8

LEMMA LookUpSideInv ==
    ASSUME SidesInv, NEW x \in CompareSides, LookUpSide(x)
    PROVE  SidesInv'
  <1> DEFINE s == acc.side[x]
             found == acc.cache[call[x]]
  <1>1. call \in CompareCalls /\ SideOK(x, s) /\ at = "sides" /\ s.pc = "start" /\ ~IsWorkingTree(x)
    BY DEF SidesInv, LookUpSide, SideAt
  <1>2. CASE Fails(x) \/ Stops(x)
    BY <1>1, <1>2, DropTreeInv DEF Fails, Stops
  <1>3. CASE found.state = "entry" /\ OpenEntry(x, found)
    BY <1>1, <1>3, OpenEntryInv
  <1>4. ASSUME NEW pc \in {"temporary", "stage"}, SetSide(x, [s EXCEPT !.pc = pc])
        PROVE  SidesInv'
    <2>1. SideOK(x, [s EXCEPT !.pc = pc]) /\ HasTree(x, [s EXCEPT !.pc = pc])
      BY <1>1, <1>4 DEF SideOK, HasTree, SideFields
    <2> QED  BY <1>1, <1>4, <2>1, SetSideInv
  <1> QED  BY <1>2, <1>3, <1>4 DEF LookUpSide

LEMMA IndexSideInv ==
    ASSUME SidesInv, NEW x \in CompareSides, IndexSide(x)
    PROVE  SidesInv'
  <1> DEFINE s == acc.side[x]
             staged == [s EXCEPT !.pc = "publish", !.indexed = TRUE]
             done == [s EXCEPT !.pc = "ready", !.indexed = TRUE, !.counts = Counts(LabelsOf(StoredBuild(s.report)))]
  <1>1. call \in CompareCalls /\ SideOK(x, s) /\ at = "sides" /\ s.pc = "index"
    BY DEF SidesInv, IndexSide, SideAt
  <1>2. CASE Fails(x) \/ Stops(x)
    BY <1>1, <1>2, DropTreeInv DEF Fails, Stops
  <1>3. CASE s.store = "staged" /\ SetSide(x, staged)
    <2>1. SideOK(x, staged) /\ HasTree(x, staged)
      BY <1>1, <1>3 DEF SideOK, HasTree, SideFields
    <2> HIDE DEF staged
    <2> QED  BY <1>1, <1>3, <2>1, SetSideInv
  <1>4. CASE s.store # "staged" /\ SetSide(x, done)
    <2>1. s.report = Truth(x) /\ s.store = "temporary" /\ DOMAIN s = SideFields
      BY <1>1, <1>4 DEF SideOK
    <2>2. /\ DOMAIN done = SideFields /\ done.pc = "ready" /\ done.store = "temporary"
          /\ done.report = Truth(x) /\ done.counts = TrueCounts(x)
      BY <2>1 DEF SideFields, TrueCounts
    <2>3. SideOK(x, done) /\ HasTree(x, done)
      BY <2>2 DEF SideOK, HasTree
    <2> HIDE DEF done
    <2> QED  BY <1>1, <1>4, <2>3, SetSideInv
  <1> QED  BY <1>2, <1>3, <1>4 DEF IndexSide, SideIndexed

\* The first to publish puts a whole index under the commit's name.
LEMMA PublishSideInv ==
    ASSUME SidesInv, NEW x \in CompareSides, PublishSide(x)
    PROVE  SidesInv'
  <1> DEFINE s == acc.side[x]
             found == acc.cache[call[x]]
             new == [state |-> "entry", whole |-> s.indexed, build |-> StoredBuild(s.report)]
             ready == [s EXCEPT !.pc = "ready", !.store = "entry", !.report = FromStored(new.build),
                                !.counts = Counts(LabelsOf(new.build))]
             failed == [s EXCEPT !.pc = "failed", !.store = "none"]
  <1>1. /\ call \in CompareCalls /\ SideOK(x, s) /\ at = "sides" /\ s.pc = "publish"
        /\ ~IsWorkingTree(x) /\ s.report = Truth(x) /\ s.indexed /\ DOMAIN s = SideFields
    BY DEF SidesInv, PublishSide, SideAt, SideOK
  <1>2. CASE Fails(x)
    BY <1>1, <1>2, DropTreeInv DEF Fails
  <1>3. CASE found.state = "entry" /\ OpenEntry(x, found)
    BY <1>1, <1>3, OpenEntryInv
  <1>4. ASSUME NEW t \in {ready, failed},
               acc' = [acc EXCEPT !.cache[call[x]] = new, !.side[x] = t], UNCHANGED <<call, at>>
        PROVE  SidesInv'
    <2>1. /\ new.state = "entry" /\ new.whole = s.indexed /\ new.build = StoredBuild(Truth(x))
          /\ FromStored(new.build) = Truth(x)
      BY <1>1, SourcesAreKnown
    <2>2. EntryOK(call[x], new)
      BY <1>1, <2>1 DEF EntryOK, Truth
    <2>3. SideOK(x, t) /\ HasTree(x, t)
      <3>1. /\ DOMAIN ready = SideFields /\ ready.pc = "ready" /\ ready.store = "entry"
            /\ ready.report = Truth(x) /\ ready.counts = TrueCounts(x)
        BY <1>1, <2>1 DEF SideFields, TrueCounts
      <3>2. DOMAIN failed = SideFields /\ failed.pc = "failed" /\ failed.store = "none"
        BY <1>1 DEF SideFields
      <3>3. SideOK(x, ready) /\ HasTree(x, ready)
        BY <1>1, <3>1 DEF SideOK, HasTree
      <3>4. SideOK(x, failed) /\ HasTree(x, failed)
        BY <3>2 DEF SideOK, HasTree
      <3> QED  BY <1>4, <3>3, <3>4
    <2> HIDE DEF new, ready, failed
    <2>4. /\ DOMAIN acc = {"side", "cancelled", "outcome", "cache"} /\ DOMAIN acc.side = CompareSides
          /\ DOMAIN acc.cache = DOMAIN call.lookup
      BY DEF SidesInv
    <2>5. /\ DOMAIN acc' = {"side", "cancelled", "outcome", "cache"}
          /\ acc'.cache = [acc.cache EXCEPT ![call[x]] = new] /\ acc'.side = [acc.side EXCEPT ![x] = t]
      BY <1>4, <2>4
    <2>6. /\ DOMAIN acc'.side = CompareSides /\ DOMAIN acc'.cache = DOMAIN call.lookup
          /\ \A y \in CompareSides : acc'.side[y] = IF y = x THEN t ELSE acc.side[y]
          /\ \A c \in DOMAIN call.lookup : acc'.cache[c] = IF c = call[x] THEN new ELSE acc.cache[c]
      BY <2>4, <2>5
    <2>7. \A y \in CompareSides : SideOK(y, acc'.side[y]) /\ HasTree(y, acc'.side[y])
      BY <1>1, <2>3, <2>6 DEF SidesInv
    <2>8. \A c \in DOMAIN call.lookup : EntryOK(c, acc'.cache[c])
      BY <2>2, <2>6 DEF SidesInv
    <2>9. /\ \A y \in CompareSides : SideOK(y, acc.side[y])' /\ HasTree(y, acc.side[y])'
          /\ \A c \in DOMAIN call.lookup : EntryOK(c, acc.cache[c])'
      BY <1>4, <2>7, <2>8 DEF SideOK, HasTree, EntryOK, IsWorkingTree, Truth, TrueCounts
    <2> QED  BY <1>1, <1>4, <2>5, <2>6, <2>9 DEF SidesInv, SidesPart, NothingIsLeft
  <1> QED  BY <1>2, <1>3, <1>4 DEF PublishSide

\* Joined, a comparison keeps both trees or drops both.
LEMMA EndCompareInv ==
    ASSUME SidesInv, NEW outcome, EndCompare(outcome),
           outcome # "ready" => \A x \in CompareSides : acc.side[x].pc \in {"start", "ready", "stopped", "failed"},
           outcome = "ready" => at = "sides" /\ \A x \in CompareSides : acc.side[x].pc = "ready"
    PROVE  SidesInv'
  <1> DEFINE After(x) == IF outcome # "ready" /\ acc.side[x].pc = "ready"
                         THEN [acc.side[x] EXCEPT !.store = "none"] ELSE acc.side[x]
  <1>1. /\ DOMAIN acc = {"side", "cancelled", "outcome", "cache"} /\ call' = call /\ at' = "sidesJoined"
        /\ acc' = [acc EXCEPT !.outcome = outcome, !.side = [x \in CompareSides |-> After(x)]]
    BY DEF SidesInv, EndCompare
  <1>2. /\ DOMAIN acc' = {"side", "cancelled", "outcome", "cache"} /\ acc'.outcome = outcome
        /\ acc'.cache = acc.cache /\ acc'.side = [x \in CompareSides |-> After(x)]
    BY <1>1
  <1>3. ASSUME NEW x \in CompareSides
        PROVE  /\ SideOK(x, After(x))
               /\ IF outcome = "ready"
                  THEN After(x).store \in IF IsWorkingTree(x) THEN {"temporary"} ELSE {"temporary", "entry"}
                  ELSE After(x).store = "none"
    <2>1. SideOK(x, acc.side[x]) /\ DOMAIN acc.side[x] = SideFields
      BY DEF SidesInv, SideOK
    <2>2. CASE outcome = "ready"
      BY <2>1, <2>2 DEF SidesInv, HasTree
    <2>3. CASE outcome # "ready" /\ acc.side[x].pc # "ready"
      BY <2>1, <2>3 DEF SideOK
    <2>4. CASE outcome # "ready" /\ acc.side[x].pc = "ready"
      BY <2>1, <2>4 DEF SideOK, SideFields
    <2> QED  BY <2>2, <2>3, <2>4
  <1>4. \A x \in CompareSides : SideOK(x, acc.side[x])'
    BY <1>1, <1>2, <1>3 DEF SideOK, IsWorkingTree, Truth, TrueCounts
  <1>5. \A c \in DOMAIN call.lookup : EntryOK(c, acc.cache[c])'
    BY <1>1, <1>2 DEF SidesInv, EntryOK
  <1>6. NothingIsLeft'
    BY <1>1, <1>2, <1>3 DEF NothingIsLeft, IsWorkingTree
  <1>7. DOMAIN acc'.side = CompareSides /\ DOMAIN acc'.cache = DOMAIN call'.lookup /\ call' \in CompareCalls
    BY <1>1, <1>2 DEF SidesInv
  <1> QED  BY <1>1, <1>2, <1>4, <1>5, <1>6, <1>7 DEF SidesInv, SidesPart

LEMMA SidesStep ==
    ASSUME SidesInv, [SidesNext]_vars
    PROVE  SidesInv'
  <1>1. ASSUME call' = call, acc'.side = acc.side, acc'.cache = acc.cache, DOMAIN acc' = DOMAIN acc,
               \/ at' = at /\ at # "sidesJoined"
               \/ at' = "sides" /\ at = "sidesOpen"
               \/ at' = at /\ acc' = acc
        PROVE  SidesInv'
    <2>1. /\ \A x \in CompareSides : SideOK(x, acc.side[x])'
          /\ \A c \in DOMAIN call.lookup : EntryOK(c, acc.cache[c])'
      BY <1>1 DEF SidesInv, SideOK, EntryOK, IsWorkingTree, Truth, TrueCounts
    <2>2. at' = "sides" => \A x \in CompareSides : HasTree(x, acc.side[x])'
      BY <1>1 DEF SidesInv, HasTree, IsWorkingTree, NewSide
    <2>3. NothingIsLeft'
      BY <1>1 DEF SidesInv, NothingIsLeft, IsWorkingTree
    <2> QED  BY <1>1, <2>1, <2>2, <2>3 DEF SidesInv, SidesPart
  <1>2. CASE UNCHANGED vars
    BY <1>1, <1>2 DEF vars
  <1>3. CASE RequestCancel
    <2>1. /\ call' = call /\ at' = at /\ at # "sidesJoined" /\ acc' = [acc EXCEPT !.cancelled = TRUE]
          /\ DOMAIN acc = {"side", "cancelled", "outcome", "cache"}
      BY <1>3 DEF RequestCancel, SidesInv
    <2> QED  BY <1>1, <2>1
  <1>4. CASE SpawnSides
    <2>1. CASE EndCompare("cancelled")
      <3>1. \A x \in CompareSides : acc.side[x].pc = "start"
        BY <1>4 DEF SpawnSides, SidesInv, NewSide
      <3>2. \A x \in CompareSides : acc.side[x].pc \in {"start", "ready", "stopped", "failed"}
        BY <3>1
      <3> QED  BY <2>1, <3>2, EndCompareInv
    <2>2. CASE at' = "sides" /\ UNCHANGED <<call, acc>>
      BY <1>1, <1>4, <2>2 DEF SpawnSides
    <2> QED  BY <1>4, <2>1, <2>2 DEF SpawnSides
  <1>5. CASE JoinSides
    <2>1. PICK outcome \in {"failed", "cancelled", "ready"} :
              /\ EndCompare(outcome)
              /\ outcome = "ready" => \A x \in CompareSides : acc.side[x].pc \notin {"failed", "stopped"}
      BY <1>5 DEF JoinSides
    <2>2. at = "sides" /\ \A x \in CompareSides : acc.side[x].pc \in {"ready", "stopped", "failed"}
      BY <1>5 DEF JoinSides
    <2> QED  BY <2>1, <2>2, EndCompareInv
  <1> QED  BY <1>2, <1>3, <1>4, <1>5, BuildInv, LookUpSideInv, IndexSideInv, PublishSideInv DEF SidesNext

\* Nothing but a whole index is published under a commit's name, a ready side
\* reports its own source's exclusions and their counts however it became
\* ready, and a comparison that is not handed out leaves no tree: for any
\* revisions, exclusions and cached entries, with either side failing and a
\* cancellation at any moment (snapshot.rs: Comparison::open_inner,
\* Snapshot::build; cache.rs: publish).
THEOREM SidesAreWhole ==
    SidesInit /\ [][SidesNext]_vars => [](PublishedAreWhole /\ ReportsSurviveTheCache /\ NothingIsLeft)
  <1>1. SidesInit => SidesInv
    <2> SUFFICES ASSUME SidesInit
                 PROVE  SidesInv
      OBVIOUS
    <2>1. /\ call \in CompareCalls /\ at = "sidesOpen" /\ DOMAIN acc = {"side", "cancelled", "outcome", "cache"}
          /\ acc.side = [x \in CompareSides |-> NewSide]
          /\ acc.cache = [c \in DOMAIN call.lookup |->
                             [state |-> call.lookup[c], whole |-> TRUE,
                              build |-> IF call.lookup[c] = "entry" THEN StoredBuild(call.excluded[c]) ELSE <<>>]]
      BY DEF SidesInit
    <2>2. \A c \in DOMAIN call.lookup : EntryOK(c, acc.cache[c])
      BY <2>1 DEF EntryOK
    <2>3. \A x \in CompareSides : SideOK(x, acc.side[x])
      BY <2>1 DEF SideOK, NewSide, SideFields
    <2> QED  BY <2>1, <2>2, <2>3 DEF SidesInv, SidesPart, NothingIsLeft
  <1>2. SidesInv => PublishedAreWhole /\ ReportsSurviveTheCache /\ NothingIsLeft
    <2> SUFFICES ASSUME SidesInv
                 PROVE  PublishedAreWhole /\ ReportsSurviveTheCache /\ NothingIsLeft
      OBVIOUS
    <2>1. PublishedAreWhole /\ NothingIsLeft
      BY DEF SidesInv, PublishedAreWhole, EntryOK
    <2>2. ASSUME NEW x \in CompareSides, acc.side[x].pc = "ready"
          PROVE  /\ acc.side[x].report = Truth(x)
                 /\ acc.side[x].counts.unsupported =
                        Cardinality({i \in DOMAIN Truth(x) : Truth(x)[i].why = "UnsupportedKind"})
                 /\ acc.side[x].counts.ignored = Len(Truth(x))
      <3>1. acc.side[x].report = Truth(x) /\ acc.side[x].counts = TrueCounts(x) /\ call \in CompareCalls
        BY <2>2 DEF SidesInv, SideOK
      <3>2. TrueCounts(x) = [ignored |-> Len(Truth(x)),
                             unsupported |-> Cardinality({i \in DOMAIN Truth(x) : Truth(x)[i].why = "UnsupportedKind"})]
        BY <3>1, SourcesAreKnown, ReportsRoundTrip DEF TrueCounts, Truth
      <3> QED  BY <3>1, <3>2
    <2>3. ReportsSurviveTheCache
      BY <2>2 DEF ReportsSurviveTheCache, Truth
    <2> QED  BY <2>1, <2>3
  <1> QED  BY <1>1, <1>2, SidesStep, PTL
=============================================================================
