------------------------ MODULE BackgroundPoolProofs ------------------------
(***************************************************************************)
(* Proofs about BackgroundPool, for every set of tasks and every capacity: *)
(* its invariants, and that it implements TaskPool: the lock-free          *)
(* interleavings of the caller and the daemon threads take each task       *)
(* through the atomic life cycle.                                          *)
(***************************************************************************)
EXTENDS BackgroundPool, TLAPS, FiniteSetTheorems

\* Every value a container, a thread or a call takes has its declared type.
LEMMA TypeStep == TypeOK /\ [Next]_vars => TypeOK'
<1> SUFFICES ASSUME TypeOK, [Next]_vars PROVE TypeOK'
    OBVIOUS
<1> USE DEF TypeOK, pool
<1>1. CASE Begin
    <2>1. ASSUME NEW t \in Tasks, SpawnCall(t) PROVE TypeOK'
        BY <2>1 DEF SpawnCall, Enter, Calls, Answers, NoAnswer, Values
    <2>2. ASSUME NEW t \in Tasks, NEW op \in Queries, QueryCall(op, t) PROVE TypeOK'
        BY <2>2 DEF QueryCall, Enter, Calls, Answers, NoAnswer, Values, Queries
    <2>3. CASE ListCall
        BY <2>3 DEF ListCall, Enter, Calls, Answers, NoAnswer, Values
    <2> QED BY <1>1, <2>1, <2>2, <2>3 DEF Begin
<1>2. CASE Continue
    <2> USE DEF Goto, Return, NoCall, Calls, Answers, Values
    <2>1. ASSUME NEW t \in Tasks, SpawnAdmitted(t) \/ SpawnStart(t) PROVE TypeOK'
        BY <2>1 DEF SpawnAdmitted, SpawnStart, ThreadStates
    <2>2. ASSUME NEW t \in Tasks, QueryResults(t) \/ QueryActive(t) \/ QueryAlive(t)
          PROVE TypeOK'
        BY <2>2 DEF QueryResults, QueryActive, QueryAlive, Conclude
    <2>3. ASSUME NEW t \in Tasks, QueryIndex(t) PROVE TypeOK'
        BY <2>3 DEF QueryIndex
    <2>4. ASSUME NEW t \in Tasks,
                 ResultTake(t) \/ ResultUntrack(t) \/ CancelMark(t) \/ CancelUntrack(t) \/ CancelDrop(t)
          PROVE TypeOK'
        BY <2>4 DEF ResultTake, ResultUntrack, CancelMark, CancelUntrack, CancelDrop
    <2>5. CASE SpawnRefused
        BY <2>5 DEF SpawnRefused
    <2>6. CASE ListActive
        BY <2>6 DEF ListActive
    <2>7. CASE ListResults
        <3>1. CASE Cardinality(active) # Cardinality(call.tasks)
            BY <2>7, <3>1 DEF ListResults
        <3>2. CASE Cardinality(active) = Cardinality(call.tasks)
            <4>1. /\ call' = [call EXCEPT !.at = "listEnd", !.tasks = results,
                                         !.seen = call.seen \cup results]
                  /\ UNCHANGED <<pool, thread, answer, fetched>>
                BY <2>7, <3>2 DEF ListResults
            <4> QED BY <4>1
        <3> QED BY <3>1, <3>2
    <2>8. CASE ListEnd
        BY <2>8 DEF ListEnd
    <2> QED BY <1>2, <2>1, <2>2, <2>3, <2>4, <2>5, <2>6, <2>7, <2>8 DEF Continue
<1>3. ASSUME NEW t \in Tasks, Worker(t) PROVE TypeOK'
    BY <1>3 DEF Worker, WorkerFinish, WorkerStore, WorkerClear, WorkerExit, At, ThreadStates
<1>4. CASE UNCHANGED vars
    BY <1>4 DEF vars
<1> QED BY <1>1, <1>2, <1>3, <1>4 DEF Next

\* The declared types hold in every reachable state.
THEOREM TypeCorrect == Spec => []TypeOK
<1>1. Init => TypeOK
    BY DEF Init, TypeOK, ThreadStates, NoCall, Calls, NoAnswer, Answers, Values
<1> QED BY <1>1, TypeStep, PTL DEF Spec

-----------------------------------------------------------------------------
(* What the building blocks of the caller's steps do to "call". *)

\* Entering a method sets the whole call record and clears the answer.
LEMMA EnterEffect ==
    ASSUME NEW op, NEW ts, NEW at, NEW seen, Enter(op, ts, at, seen)
    PROVE  /\ call.op = "none"
           /\ call'.op = op /\ call'.at = at /\ call'.tasks = ts /\ call'.seen = seen
           /\ answer' = NoAnswer
BY DEF Enter

\* Going on within a method changes nothing but the place in it.
LEMMA GotoEffect ==
    ASSUME TypeOK, NEW from, NEW to, Goto(from, to)
    PROVE  /\ call.at = from /\ call'.at = to
           /\ call'.op = call.op /\ call'.tasks = call.tasks /\ call'.seen = call.seen
           /\ answer' = answer
BY DEF Goto, TypeOK, Calls

\* Returning leaves the method and records its call with the value.
LEMMA ReturnEffect ==
    ASSUME NEW value, Return(value)
    PROVE  /\ call'.op = "none" /\ call'.at = "idle" /\ call'.tasks = {} /\ call'.seen = {}
           /\ answer'.op = call.op /\ answer'.tasks = call.tasks
           /\ answer'.seen = call.seen /\ answer'.value = value
BY DEF Return, NoCall

\* The two ways of answering from a status: leave the method, or go on in it.
LEMMA ConcludeEffect ==
    ASSUME TypeOK, NEW t, NEW status, Conclude(t, status)
    PROVE  \/ /\ call.op \in Queries
              /\ Return(IF call.op = "status" THEN status
                        ELSE CASE status = "unknown" -> "TaskNotFoundError"
                               [] status = "running" -> "TaskNotCompleteError"
                               [] OTHER -> "False")
           \/ call.op = "result" /\ status = "done" /\ Goto(call.at, "take")
           \/ call.op = "cancel" /\ status = "running" /\ Goto(call.at, "mark")
BY DEF Conclude, Queries

-----------------------------------------------------------------------------
(* The parts of the inductive invariant, one lemma for each. *)

\* Every step leaves the caller at a place of the method it is in.
LEMMA CallShapeStep == TypeOK /\ CallShape /\ [Next]_vars => CallShape'
<1> SUFFICES ASSUME TypeOK, CallShape, [Next]_vars PROVE CallShape'
    OBVIOUS
<1> USE DEF CallShape, On, Queries
<1>1. ASSUME NEW t \in Tasks, SpawnCall(t) PROVE CallShape'
    <2>1. Enter("spawn", {t}, "admit", active)
        BY <1>1 DEF SpawnCall
    <2> QED BY <2>1, EnterEffect
<1>2. ASSUME NEW t \in Tasks, NEW op \in Queries, QueryCall(op, t) PROVE CallShape'
    <2>1. CASE t \in cancelled
        BY <1>2, <2>1 DEF QueryCall
    <2>2. CASE t \notin cancelled
        <3>1. Enter(op, {t}, "results", {})
            BY <1>2, <2>2 DEF QueryCall
        <3> QED BY <3>1, EnterEffect
    <2> QED BY <2>1, <2>2
<1>3. CASE ListCall
    <2>1. Enter("list", {}, "listActive", cancelled)
        BY <1>3 DEF ListCall
    <2> QED BY <2>1, EnterEffect
<1>4. ASSUME NEW value, Return(value) PROVE CallShape'
    BY <1>4, ReturnEffect
<1>5. ASSUME NEW t \in Tasks, SpawnAdmitted(t) PROVE CallShape'
    <2>1. Goto("admit", "start")
        BY <1>5 DEF SpawnAdmitted
    <2> QED BY <2>1, GotoEffect
<1>6. ASSUME NEW t \in Tasks, NEW status, Conclude(t, status), call.op \in Queries PROVE CallShape'
    BY <1>4, <1>6, ConcludeEffect, GotoEffect
<1>7. ASSUME NEW t \in Tasks, QueryResults(t) \/ QueryActive(t) \/ QueryIndex(t) \/ QueryAlive(t)
      PROVE CallShape'
    <2>1. call.op \in Queries
        BY <1>7 DEF QueryResults, QueryActive, QueryIndex, QueryAlive, TypeOK, Calls
    <2> QED BY <1>4, <1>6, <1>7, <2>1, GotoEffect DEF QueryResults, QueryActive, QueryIndex, QueryAlive
<1>8. ASSUME NEW t \in Tasks, ResultTake(t) \/ CancelMark(t) \/ CancelUntrack(t) PROVE CallShape'
    BY <1>8, GotoEffect DEF ResultTake, CancelMark, CancelUntrack
<1>9. ASSUME NEW t \in Tasks, SpawnStart(t) \/ ResultUntrack(t) \/ CancelDrop(t) PROVE CallShape'
    BY <1>4, <1>9 DEF SpawnStart, ResultUntrack, CancelDrop
<1>10. CASE SpawnRefused \/ ListEnd
    BY <1>4, <1>10 DEF SpawnRefused, ListEnd
<1>11. CASE ListActive
    BY <1>11 DEF ListActive, TypeOK, Calls
<1>12. CASE ListResults
    BY <1>4, <1>12 DEF ListResults, TypeOK, Calls
<1>13. CASE UNCHANGED <<call, answer>>
    BY <1>13
<1>14. ASSUME NEW t \in Tasks, Worker(t) PROVE CallShape'
    BY <1>13, <1>14 DEF Worker, WorkerFinish, WorkerStore, WorkerClear, WorkerExit, At
<1> QED
    BY <1>1, <1>2, <1>3, <1>5, <1>7, <1>8, <1>9, <1>10, <1>11, <1>12, <1>13, <1>14
    DEF Next, Begin, Continue, vars

\* The steps that touch only the caller's own variables.
CallerOnly == UNCHANGED <<active, results, cancelled, thread, fetched>>

\* Every step keeps the containers in accord with the threads.
LEMMA ThreadInvStep == IInv /\ [Next]_vars => ThreadInv'
<1> SUFFICES ASSUME IInv, [Next]_vars PROVE ThreadInv'
    OBVIOUS
<1> USE DEF IInv, TypeOK, ThreadInv, On
<1>1. ASSUME CallerOnly, call.at # "untrack" PROVE ThreadInv'
    BY <1>1 DEF CallerOnly
<1>2. ASSUME NEW t \in Tasks,
             SpawnCall(t) \/ QueryResults(t) \/ QueryActive(t) \/ QueryIndex(t) \/ QueryAlive(t)
      PROVE ThreadInv'
    BY <1>1, <1>2
    DEF SpawnCall, Enter, QueryResults, QueryActive, QueryIndex, QueryAlive, CallerOnly, pool, CallShape
<1>3. ASSUME NEW t \in Tasks, NEW op \in Queries, QueryCall(op, t) PROVE ThreadInv'
    BY <1>1, <1>3 DEF QueryCall, CallerOnly, pool, CallShape
<1>4. CASE ListCall \/ SpawnRefused \/ ListActive \/ ListResults \/ ListEnd
    BY <1>1, <1>4 DEF ListCall, Enter, SpawnRefused, ListActive, ListResults, ListEnd, CallerOnly, pool, CallShape
<1>5. ASSUME NEW t \in Tasks, SpawnAdmitted(t) PROVE ThreadInv'
    <2>1. thread[t] = "unborn" /\ call.at = "admit"
        BY <1>5, GotoEffect DEF SpawnAdmitted, CallInv
    <2> QED BY <1>5, <2>1 DEF SpawnAdmitted
<1>6. ASSUME NEW t \in Tasks, SpawnStart(t) PROVE ThreadInv'
    <2>1. thread[t] = "registered"
        BY <1>6 DEF SpawnStart, CallInv
    <2> QED BY <1>6, <2>1 DEF SpawnStart, pool
<1>7. ASSUME NEW t \in Tasks, ResultTake(t) PROVE ThreadInv'
    <2>1. t \in results /\ call.at = "take" /\ call.op = "result"
        BY <1>7, GotoEffect DEF ResultTake, CallInv, CallShape
    <2>2. call'.op = "result" /\ call'.at = "untrack" /\ call'.tasks = {t}
        BY <1>7, <2>1, GotoEffect DEF ResultTake
    <2> QED BY <1>7, <2>1, <2>2 DEF ResultTake
<1>8. ASSUME NEW t \in Tasks, ResultUntrack(t) PROVE ThreadInv'
    <2>1. t \in fetched
        BY <1>8 DEF ResultUntrack, CallInv
    <2> QED BY <1>8, <2>1 DEF ResultUntrack
<1>9. ASSUME NEW t \in Tasks, CancelMark(t) PROVE ThreadInv'
    <2>1. Spawned(t) /\ t \notin fetched /\ call.at = "mark"
        BY <1>9, GotoEffect DEF CancelMark, CallInv, CallShape
    <2> QED BY <1>9, <2>1 DEF CancelMark, Spawned
<1>10. ASSUME NEW t \in Tasks, CancelUntrack(t) \/ CancelDrop(t) PROVE ThreadInv'
    <2>1. t \in cancelled /\ call.op = "cancel"
        BY <1>10, GotoEffect DEF CancelUntrack, CancelDrop, CallInv, CallShape
    <2> QED BY <1>10, <2>1 DEF CancelUntrack, CancelDrop
<1>11. ASSUME NEW t \in Tasks, Worker(t) PROVE ThreadInv'
    <2>1. CASE WorkerFinish(t)
        BY <2>1 DEF WorkerFinish, At, pool
    <2>2. CASE WorkerStore(t)
        BY <2>2 DEF WorkerStore, At
    <2>3. CASE WorkerClear(t)
        BY <2>3 DEF WorkerClear, At
    <2>4. CASE WorkerExit(t)
        BY <2>4 DEF WorkerExit, At, pool
    <2> QED BY <1>11, <2>1, <2>2, <2>3, <2>4 DEF Worker
<1>12. CASE UNCHANGED vars
    BY <1>12 DEF vars
<1> QED
    BY <1>2, <1>3, <1>4, <1>5, <1>6, <1>7, <1>8, <1>9, <1>10, <1>11, <1>12
    DEF Next, Begin, Continue

\* Every step keeps true what the running method has learned so far.
LEMMA CallInvStep == IInv /\ [Next]_vars => CallInv'
<1> SUFFICES ASSUME IInv, [Next]_vars PROVE CallInv'
    OBVIOUS
<1> USE DEF IInv, CallInv, On
<1>0. TypeOK
    OBVIOUS
<1>1. ASSUME call'.op = "none", call'.tasks = {}, call'.at = "idle" PROVE CallInv'
    BY <1>1
<1>2. ASSUME NEW value, Return(value) PROVE CallInv'
    BY <1>1, <1>2, ReturnEffect
<1>3. ASSUME NEW t \in Tasks, SpawnCall(t) PROVE CallInv'
    <2>1. Enter("spawn", {t}, "admit", active) /\ thread[t] = "unborn"
        BY <1>3 DEF SpawnCall
    <2> QED BY <1>3, <2>1, EnterEffect DEF SpawnCall, pool
<1>4. ASSUME NEW t \in Tasks, NEW op \in Queries, QueryCall(op, t) PROVE CallInv'
    <2>1. CASE t \in cancelled
        BY <1>4, <2>1 DEF QueryCall, pool, Spawned
    <2>2. CASE t \notin cancelled
        <3>1. Enter(op, {t}, "results", {}) /\ UNCHANGED <<pool, thread, fetched>>
            BY <1>4, <2>2 DEF QueryCall
        <3> QED BY <2>2, <3>1, EnterEffect DEF pool
    <2> QED BY <2>1, <2>2
<1>5. CASE ListCall
    <2>1. Enter("list", {}, "listActive", cancelled)
        BY <1>5 DEF ListCall
    <2> QED BY <2>1, EnterEffect
<1>6. ASSUME NEW t \in Tasks, SpawnAdmitted(t) PROVE CallInv'
    <2>1. On(t) /\ Goto("admit", "start") /\ thread' = [thread EXCEPT ![t] = "registered"]
        BY <1>6 DEF SpawnAdmitted
    <2>2. call'.op = "spawn"
        BY <1>0, <2>1, GotoEffect DEF CallShape
    <2> QED BY <1>0, <2>1, <2>2, GotoEffect DEF TypeOK
<1>7. ASSUME NEW t \in Tasks, QueryResults(t) PROVE CallInv'
    <2>1. On(t) /\ UNCHANGED <<pool, thread, fetched>>
        BY <1>7 DEF QueryResults
    <2>2. CASE t \in results
        BY <1>0, <1>2, <1>7, <2>1, <2>2, ConcludeEffect, GotoEffect DEF QueryResults, pool
    <2>3. CASE t \notin results
        BY <1>0, <1>7, <2>1, <2>3, GotoEffect DEF QueryResults, pool
    <2> QED BY <2>2, <2>3
<1>8. ASSUME NEW t \in Tasks, QueryActive(t) PROVE CallInv'
    <2>1. On(t) /\ call.at = "active" /\ UNCHANGED <<pool, thread, fetched>>
        BY <1>8 DEF QueryActive
    <2>2. CASE t \in active
        <3>1. Spawned(t) /\ t \notin fetched
            BY <2>1, <2>2 DEF ThreadInv, Spawned
        <3>2. Goto("active", "index")
            BY <1>8, <2>2 DEF QueryActive
        <3> QED BY <1>0, <2>1, <3>1, <3>2, GotoEffect DEF pool, Spawned
    <2>3. CASE t \notin active
        BY <1>0, <1>2, <1>8, <2>1, <2>3, ConcludeEffect, GotoEffect DEF QueryActive, pool
    <2> QED BY <2>2, <2>3
<1>9. ASSUME NEW t \in Tasks, QueryIndex(t) PROVE CallInv'
    BY <1>0, <1>2, <1>9, GotoEffect DEF QueryIndex, pool, Spawned
<1>10. ASSUME NEW t \in Tasks, QueryAlive(t) PROVE CallInv'
    <2>1. On(t) /\ call.at = "alive" /\ UNCHANGED <<pool, thread, fetched>>
        BY <1>10 DEF QueryAlive
    <2> DEFINE status == IF Alive(t) THEN "running" ELSE "unknown"
    <2>2. Conclude(t, status) /\ status # "done"
        BY <1>10 DEF QueryAlive
    <2> HIDE DEF status
    <2> QED BY <1>0, <1>2, <2>1, <2>2, ConcludeEffect, GotoEffect DEF pool, Spawned
<1>11. ASSUME NEW t \in Tasks, ResultTake(t) PROVE CallInv'
    BY <1>0, <1>11, GotoEffect DEF ResultTake, CallShape
<1>12. ASSUME NEW t \in Tasks, ResultUntrack(t) \/ CancelDrop(t) \/ SpawnStart(t) PROVE CallInv'
    BY <1>2, <1>12 DEF ResultUntrack, CancelDrop, SpawnStart
<1>13. ASSUME NEW t \in Tasks, CancelMark(t) PROVE CallInv'
    BY <1>0, <1>13, GotoEffect DEF CancelMark, CallShape
<1>14. ASSUME NEW t \in Tasks, CancelUntrack(t) PROVE CallInv'
    BY <1>0, <1>14, GotoEffect DEF CancelUntrack
<1>15. CASE SpawnRefused \/ ListEnd
    BY <1>2, <1>15 DEF SpawnRefused, ListEnd
<1>16. CASE ListActive
    BY <1>0, <1>16 DEF ListActive, CallShape, TypeOK, Calls
<1>17. CASE ListResults
    BY <1>0, <1>2, <1>17 DEF ListResults, CallShape, TypeOK, Calls
<1>18. ASSUME NEW t \in Tasks, Worker(t) PROVE CallInv'
    <2>1. UNCHANGED <<call, fetched, cancelled>> /\ active' \subseteq active
          /\ thread[t] \notin {"unborn", "registered"}
          /\ \E st \in ThreadStates \ {"unborn", "registered"} : thread' = [thread EXCEPT ![t] = st]
        BY <1>18 DEF Worker, WorkerFinish, WorkerStore, WorkerClear, WorkerExit, At, pool, ThreadStates
    <2>2. results \subseteq results'
        BY <1>18 DEF Worker, WorkerFinish, WorkerStore, WorkerClear, WorkerExit, pool
    <2> QED BY <1>0, <2>1, <2>2 DEF TypeOK, Spawned
<1>19. CASE UNCHANGED vars
    BY <1>19 DEF vars, Spawned
<1> QED
    BY <1>3, <1>4, <1>5, <1>6, <1>7, <1>8, <1>9, <1>10, <1>11, <1>12, <1>13, <1>14, <1>15,
       <1>16, <1>17, <1>18, <1>19
    DEF Next, Begin, Continue

\* Outside the caller's own steps nothing a listing must show can appear or
\* leave both dicts, and a listed task stays listed until the next call.
LEMMA ListStep == IInv /\ [Next]_vars => ListInv' /\ ListComplete'
<1> SUFFICES ASSUME IInv, [Next]_vars PROVE ListInv' /\ ListComplete'
    OBVIOUS
<1> USE DEF IInv, ListInv, ListComplete
<1>0. TypeOK /\ CallShape /\ ThreadInv
    OBVIOUS
<1>1. ASSUME NEW value, Return(value), value # "listed" PROVE ListInv' /\ ListComplete'
    BY <1>1, ReturnEffect
<1>2. ASSUME NEW to, NEW from, Goto(from, to), call.op \notin {"list", "none"}
      PROVE ListInv' /\ ListComplete'
    <2>1. call'.op # "list" /\ answer' = NoAnswer /\ call'.op # "none"
        BY <1>0, <1>2, GotoEffect DEF CallShape
    <2>2. CallShape'
        BY <1>0, CallShapeStep
    <2> QED BY <2>1, <2>2 DEF CallShape, NoAnswer
<1>3. ASSUME NEW t \in Tasks, NEW st \in {"unknown", "running", "done"}, Conclude(t, st),
             call.op \in Queries
      PROVE ListInv' /\ ListComplete'
    <2>1. call.op \notin {"list", "none"}
        BY <1>3 DEF Queries
    <2>2. CASE \E to \in {"take", "mark"} : Goto(call.at, to)
        BY <1>2, <2>1, <2>2
    <2>3. CASE \E v \in {"unknown", "running", "done", "TaskNotFoundError", "TaskNotCompleteError", "False"} :
                  Return(v)
        BY <1>1, <2>3
    <2> QED BY <1>3, <2>2, <2>3 DEF Conclude
<1>4. ASSUME NEW t \in Tasks, SpawnCall(t) PROVE ListInv' /\ ListComplete'
    BY <1>4, EnterEffect DEF SpawnCall, NoAnswer
<1>5. ASSUME NEW t \in Tasks, NEW op \in Queries, QueryCall(op, t) PROVE ListInv' /\ ListComplete'
    <2>1. CASE t \in cancelled
        <3>1. call' = call /\ call.at = "idle" /\ call.op = "none"
            BY <1>0, <1>5, <2>1 DEF QueryCall, CallShape
        <3>2. CASE op = "status"
            BY <1>5, <2>1, <3>1, <3>2 DEF QueryCall
        <3>3. CASE op = "result"
            BY <1>5, <2>1, <3>1, <3>3 DEF QueryCall
        <3>4. CASE op = "cancel"
            BY <1>5, <2>1, <3>1, <3>4 DEF QueryCall
        <3> QED BY <3>2, <3>3, <3>4 DEF Queries
    <2>2. CASE t \notin cancelled
        <3>1. Enter(op, {t}, "results", {}) /\ op # "list"
            BY <1>5, <2>2 DEF QueryCall, Queries
        <3> QED BY <3>1, EnterEffect DEF NoAnswer
    <2> QED BY <2>1, <2>2
<1>6. CASE ListCall
    <2>1. Enter("list", {}, "listActive", cancelled) /\ UNCHANGED <<pool, thread, fetched>>
        BY <1>6 DEF ListCall
    <2>2. \A t \in Tasks : Spawned(t) /\ t \notin fetched => t \in cancelled \cup active \cup results
        BY <1>0 DEF ThreadInv, Spawned, TypeOK, ThreadStates
    <2> QED BY <2>1, <2>2, EnterEffect DEF pool, NoAnswer, Spawned
<1>7. CASE ListActive
    BY <1>0, <1>7 DEF ListActive, pool, CallShape, NoAnswer, Spawned, TypeOK, Calls
<1>8. CASE ListResults
    <2>1. CASE Cardinality(active) # Cardinality(call.tasks)
        BY <1>1, <1>8, <2>1 DEF ListResults
    <2>2. CASE Cardinality(active) = Cardinality(call.tasks)
        <3>1. /\ call' = [call EXCEPT !.at = "listEnd", !.tasks = results, !.seen = call.seen \cup results]
              /\ call.at = "listResults" /\ UNCHANGED <<pool, thread, fetched, answer>>
            BY <1>8, <2>2 DEF ListResults
        <3> QED BY <1>0, <3>1 DEF pool, CallShape, NoAnswer, Spawned, TypeOK, Calls
    <2> QED BY <2>1, <2>2
<1>9. CASE ListEnd
    <2>1. call.at = "listEnd" /\ UNCHANGED <<pool, thread, fetched>>
        BY <1>9 DEF ListEnd
    <2> DEFINE v == IF Cardinality(results) # Cardinality(call.tasks) THEN "RuntimeError" ELSE "listed"
    <2>2. Return(v)
        BY <1>9 DEF ListEnd
    <2> HIDE DEF v
    <2> QED BY <2>1, <2>2, ReturnEffect DEF Spawned
<1>10. CASE SpawnRefused
    BY <1>1, <1>10 DEF SpawnRefused
<1>11. ASSUME NEW t \in Tasks, SpawnAdmitted(t) PROVE ListInv' /\ ListComplete'
    BY <1>0, <1>2, <1>11, GotoEffect DEF SpawnAdmitted, Goto, CallShape
<1>12. ASSUME NEW t \in Tasks, SpawnStart(t) \/ ResultUntrack(t) \/ CancelDrop(t)
       PROVE ListInv' /\ ListComplete'
    BY <1>1, <1>12 DEF SpawnStart, ResultUntrack, CancelDrop
<1>13. ASSUME NEW t \in Tasks, ResultTake(t) \/ CancelMark(t) \/ CancelUntrack(t)
       PROVE ListInv' /\ ListComplete'
    BY <1>0, <1>2, <1>13 DEF ResultTake, CancelMark, CancelUntrack, Goto, CallShape
<1>14. ASSUME NEW t \in Tasks, QueryResults(t) \/ QueryActive(t) \/ QueryIndex(t) \/ QueryAlive(t)
       PROVE ListInv' /\ ListComplete'
    <2>1. call.op \in Queries
        BY <1>0, <1>14 DEF QueryResults, QueryActive, QueryIndex, QueryAlive, TypeOK, Calls, CallShape
    <2>2. call.op \notin {"list", "none"}
        BY <2>1 DEF Queries
    <2>3. CASE QueryResults(t)
        BY <1>2, <1>3, <2>1, <2>2, <2>3, <1>0 DEF QueryResults, CallShape
    <2>4. CASE QueryActive(t)
        BY <1>2, <1>3, <2>1, <2>2, <2>4, <1>0 DEF QueryActive, CallShape
    <2>5. CASE QueryIndex(t)
        BY <1>1, <1>2, <2>1, <2>2, <2>5, <1>0 DEF QueryIndex, CallShape
    <2>6. CASE QueryAlive(t)
        BY <1>3, <2>1, <2>6 DEF QueryAlive
    <2> QED BY <1>14, <2>3, <2>4, <2>5, <2>6
<1>15. ASSUME NEW t \in Tasks, Worker(t) PROVE ListInv' /\ ListComplete'
    <2>1. UNCHANGED <<call, answer, fetched, cancelled>> /\ results \subseteq results'
          /\ \A u \in Tasks : Spawned(u)' <=> Spawned(u)
        BY <1>0, <1>15
        DEF Worker, WorkerFinish, WorkerStore, WorkerClear, WorkerExit, At, pool, TypeOK, Spawned
    <2>2. ASSUME NEW u \in Tasks, Spawned(u), u \notin fetched, call.at = "listActive"
          PROVE  u \in call.seen \cup active' \cup results'
        <3>1. u \in call.seen \cup active \cup results /\ cancelled \subseteq call.seen
            BY <1>0, <2>2 DEF CallShape
        <3>2. CASE active' = active
            BY <2>1, <3>1, <3>2
        <3>3. CASE WorkerClear(t)
            <4>1. active' = active \ {t} /\ thread[t] \in {"clearing", "discarding"}
                BY <3>3 DEF WorkerClear, At
            <4> QED BY <1>0, <2>1, <2>2, <3>1, <4>1 DEF ThreadInv
        <3> QED BY <1>15, <3>2, <3>3 DEF Worker, WorkerFinish, WorkerStore, WorkerExit, pool
    <2> QED BY <2>1, <2>2
<1>16. CASE UNCHANGED vars
    BY <1>16 DEF vars, Spawned
<1> QED
    BY <1>4, <1>5, <1>6, <1>7, <1>8, <1>9, <1>10, <1>11, <1>12, <1>13, <1>14, <1>15, <1>16
    DEF Next, Begin, Continue

\* The two sizes that an admission adds bound the size of the union.
LEMMA UnionBound ==
    ASSUME NEW S, NEW T, IsFiniteSet(S), IsFiniteSet(T)
    PROVE  IsFiniteSet(S \cup T) /\ Cardinality(S \cup T) <= Cardinality(S) + Cardinality(T)
<1>1. IsFiniteSet(S \cap T)
    <2>1. S \cap T \in SUBSET T
        OBVIOUS
    <2> QED BY <2>1, FS_Subset
<1>2. Cardinality(S) \in Nat /\ Cardinality(T) \in Nat /\ Cardinality(S \cap T) \in Nat
    BY <1>1, FS_CardinalityType
<1>3. IsFiniteSet(S \cup T)
      /\ Cardinality(S \cup T) = Cardinality(S) + Cardinality(T) - Cardinality(S \cap T)
    BY FS_Union
<1> QED BY <1>2, <1>3

\* Fewer occupied tasks need no more room.
LEMMA FewerTasks ==
    ASSUME TypeOK, SlotBound,
           (active' \cup results') \ cancelled' \subseteq (active \cup results) \ cancelled
    PROVE  SlotBound'
<1>1. IsFiniteSet((active \cup results) \ cancelled)
    BY TasksFinite, FS_Subset DEF TypeOK
<1>2. IsFiniteSet((active' \cup results') \ cancelled')
    BY <1>1, FS_Subset
<1>3. Cardinality((active' \cup results') \ cancelled') <= Cardinality((active \cup results) \ cancelled)
    BY <1>1, FS_Subset
<1> QED BY <1>1, <1>2, <1>3, FS_CardinalityType, MaxBackgroundPos DEF SlotBound

\* Only an admission adds an occupied task; the size of _active_tasks it has
\* read before is not smaller than the present one.
LEMMA SlotBoundStep == IInv /\ [Next]_vars => SlotBound'
<1> SUFFICES ASSUME IInv, [Next]_vars PROVE SlotBound'
    OBVIOUS
<1>0. TypeOK /\ ThreadInv /\ CallInv /\ SlotBound
    BY DEF IInv
<1>1. ASSUME UNCHANGED pool PROVE SlotBound'
    BY <1>0, <1>1 DEF pool, SlotBound
<1>2. ASSUME NEW t \in Tasks, SpawnAdmitted(t) PROVE SlotBound'
    <2>1. /\ Cardinality(call.seen) + Cardinality(results) < MaxBackground
          /\ call.at = "admit" /\ active' = active \cup {t} /\ UNCHANGED <<results, cancelled>>
        BY <1>0, <1>2, GotoEffect DEF SpawnAdmitted
    <2>2. active \subseteq call.seen /\ call.seen \subseteq Tasks
        BY <1>0, <2>1 DEF CallInv, TypeOK, Calls
    <2>3. IsFiniteSet(call.seen) /\ IsFiniteSet(results)
        BY <1>0, <2>2, TasksFinite, FS_Subset DEF TypeOK
    <2>4. IsFiniteSet(call.seen \cup results)
          /\ Cardinality(call.seen \cup results) <= Cardinality(call.seen) + Cardinality(results)
        BY <2>3, UnionBound
    <2> DEFINE U == call.seen \cup results
    <2>5. IsFiniteSet(U \cup {t}) /\ Cardinality(U \cup {t}) <= Cardinality(U) + 1
        <3>1. IsFiniteSet(U)
            BY <2>4
        <3> HIDE DEF U
        <3> QED BY <3>1, FS_AddElement, FS_CardinalityType
    <2>6. (active' \cup results') \ cancelled' \subseteq U \cup {t}
        BY <2>1, <2>2
    <2>7. Cardinality((active' \cup results') \ cancelled') <= Cardinality(U \cup {t})
          /\ IsFiniteSet((active' \cup results') \ cancelled')
        <3>1. IsFiniteSet(U \cup {t})
            BY <2>5
        <3> HIDE DEF U
        <3> QED BY <2>6, <3>1, FS_Subset
    <2> HIDE DEF U
    <2>8. Cardinality(U) <= Cardinality(call.seen) + Cardinality(results) /\ Cardinality(U) \in Nat
        BY <2>4, FS_CardinalityType DEF U
    <2> QED BY <2>1, <2>3, <2>5, <2>7, <2>8, FS_CardinalityType, MaxBackgroundPos DEF SlotBound
<1>3. ASSUME NEW t \in Tasks, ResultTake(t) \/ ResultUntrack(t) \/ CancelMark(t) \/ CancelUntrack(t) \/ CancelDrop(t)
      PROVE SlotBound'
    <2>1. (active' \cup results') \ cancelled' \subseteq (active \cup results) \ cancelled
        BY <1>3 DEF ResultTake, ResultUntrack, CancelMark, CancelUntrack, CancelDrop
    <2> QED BY <1>0, <2>1, FewerTasks
<1>4. ASSUME NEW t \in Tasks, WorkerStore(t) \/ WorkerClear(t) PROVE SlotBound'
    <2>1. WorkerStore(t) => t \in active \cup cancelled
        BY <1>0 DEF WorkerStore, At, ThreadInv
    <2>2. (active' \cup results') \ cancelled' \subseteq (active \cup results) \ cancelled
        BY <1>4, <2>1 DEF WorkerStore, WorkerClear
    <2> QED BY <1>0, <2>2, FewerTasks
<1> QED
    BY <1>1, <1>2, <1>3, <1>4
    DEF Next, Begin, Continue, vars, pool, Worker, SpawnCall, QueryCall, ListCall, SpawnStart, QueryResults,
        QueryActive, QueryIndex, QueryAlive, SpawnRefused, ListActive, ListResults, ListEnd, WorkerFinish, WorkerExit

\* result() moves a task to "fetched" only after it has seen it uncancelled,
\* and cancel() marks one only after it has seen it unfetched.
LEMMA CancelledNeverFetchedStep == IInv /\ [Next]_vars => CancelledNeverFetched'
<1> SUFFICES ASSUME IInv, [Next]_vars PROVE CancelledNeverFetched'
    OBVIOUS
<1>0. TypeOK /\ CallShape /\ CallInv /\ CancelledNeverFetched
    BY DEF IInv
<1>1. ASSUME UNCHANGED <<cancelled, fetched>> PROVE CancelledNeverFetched'
    BY <1>0, <1>1 DEF CancelledNeverFetched
<1>2. ASSUME NEW t \in Tasks, ResultTake(t) PROVE CancelledNeverFetched'
    <2>1. t \notin cancelled
        BY <1>0, <1>2, GotoEffect DEF ResultTake, CallShape, CallInv, On
    <2> QED BY <1>0, <1>2, <2>1 DEF ResultTake, CancelledNeverFetched
<1>3. ASSUME NEW t \in Tasks, CancelMark(t) PROVE CancelledNeverFetched'
    <2>1. t \notin fetched
        BY <1>0, <1>3, GotoEffect DEF CancelMark, CallShape, CallInv, On
    <2> QED BY <1>0, <1>3, <2>1 DEF CancelMark, CancelledNeverFetched
<1> QED
    BY <1>1, <1>2, <1>3
    DEF Next, Begin, Continue, vars, pool, Worker, SpawnCall, QueryCall, ListCall, SpawnAdmitted, SpawnStart, QueryResults,
        QueryActive, QueryIndex, QueryAlive, SpawnRefused, ListActive, ListResults, ListEnd, WorkerFinish,
        WorkerStore, WorkerClear, WorkerExit, At, ResultUntrack, CancelUntrack, CancelDrop

\* cancel() answers False at the moment it sees the task in the cache or in
\* _cancelled; afterwards the caller is the only one who could remove it.
LEMMA RefusedCancelStep == IInv /\ [Next]_vars => RefusedCancelMeansDone'
<1> SUFFICES ASSUME IInv, [Next]_vars PROVE RefusedCancelMeansDone'
    OBVIOUS
<1>0. TypeOK /\ CallShape /\ ThreadInv /\ RefusedCancelMeansDone
    BY DEF IInv
<1>1. ASSUME NEW v, Return(v), v # "False" \/ call.op # "cancel" PROVE RefusedCancelMeansDone'
    BY <1>1, ReturnEffect DEF RefusedCancelMeansDone
<1>2. ASSUME answer' = NoAnswer PROVE RefusedCancelMeansDone'
    BY <1>2 DEF RefusedCancelMeansDone, NoAnswer
<1>3. ASSUME NEW from, NEW to, Goto(from, to), call.op # "none" PROVE RefusedCancelMeansDone'
    BY <1>0, <1>2, <1>3, GotoEffect DEF CallShape
<1>4. ASSUME UNCHANGED answer,
             results \cup fetched \cup cancelled \subseteq results' \cup fetched' \cup cancelled'
      PROVE RefusedCancelMeansDone'
    BY <1>0, <1>4 DEF RefusedCancelMeansDone
<1>5. ASSUME NEW t \in Tasks, SpawnCall(t) PROVE RefusedCancelMeansDone'
    BY <1>2, <1>5 DEF SpawnCall, Enter
<1>6. ASSUME NEW t \in Tasks, NEW op \in Queries, QueryCall(op, t) PROVE RefusedCancelMeansDone'
    <2>1. CASE t \in cancelled
        <3>1. answer'.tasks = {t} /\ cancelled' = cancelled
            BY <1>6, <2>1 DEF QueryCall, pool
        <3> QED BY <2>1, <3>1 DEF RefusedCancelMeansDone
    <2>2. CASE t \notin cancelled
        BY <1>2, <1>6, <2>2 DEF QueryCall, Enter
    <2> QED BY <2>1, <2>2
<1>7. CASE ListCall
    BY <1>2, <1>7 DEF ListCall, Enter
<1>8. ASSUME NEW t \in Tasks, QueryResults(t), t \in results PROVE RefusedCancelMeansDone'
    <2>1. Conclude(t, "done") /\ call.tasks = {t} /\ results' = results /\ call.op # "none"
        BY <1>0, <1>8 DEF QueryResults, pool, On, CallShape
    <2>2. CASE \E v : Return(v)
        BY <1>8, <2>1, <2>2, ReturnEffect DEF RefusedCancelMeansDone
    <2>3. CASE \E to : Goto(call.at, to)
        BY <1>3, <2>1, <2>3
    <2> QED BY <2>1, <2>2, <2>3 DEF Conclude
<1>9. ASSUME NEW t \in Tasks, NEW st \in {"unknown", "running"}, Conclude(t, st), call.op # "none"
      PROVE RefusedCancelMeansDone'
    <2>1. CASE call.op = "status" /\ Return(st)
        BY <1>1, <2>1
    <2>2. CASE Return("TaskNotFoundError") \/ Return("TaskNotCompleteError")
        BY <1>1, <2>2
    <2>3. CASE Goto(call.at, "mark")
        BY <1>3, <1>9, <2>3
    <2> QED BY <1>9, <2>1, <2>2, <2>3 DEF Conclude
<1>10. ASSUME NEW t \in Tasks, QueryResults(t), t \notin results PROVE RefusedCancelMeansDone'
    BY <1>0, <1>3, <1>10 DEF QueryResults, CallShape
<1>11. ASSUME NEW t \in Tasks, QueryActive(t) \/ QueryAlive(t) PROVE RefusedCancelMeansDone'
    <2>1. call.op # "none"
        BY <1>0, <1>11 DEF QueryActive, QueryAlive, CallShape
    <2> QED BY <1>3, <1>9, <1>11, <2>1 DEF QueryActive, QueryAlive
<1>12. ASSUME NEW t \in Tasks, QueryIndex(t) PROVE RefusedCancelMeansDone'
    BY <1>0, <1>1, <1>3, <1>12 DEF QueryIndex, CallShape
<1>13. ASSUME NEW t \in Tasks, SpawnAdmitted(t) \/ ResultTake(t) \/ CancelMark(t) \/ CancelUntrack(t)
       PROVE RefusedCancelMeansDone'
    <2>1. call.op # "none"
        BY <1>0, <1>13 DEF SpawnAdmitted, ResultTake, CancelMark, CancelUntrack, Goto, CallShape
    <2> QED BY <1>3, <1>13, <2>1 DEF SpawnAdmitted, ResultTake, CancelMark, CancelUntrack
<1>14. ASSUME NEW t \in Tasks, SpawnStart(t) \/ ResultUntrack(t) \/ CancelDrop(t) PROVE RefusedCancelMeansDone'
    BY <1>1, <1>14 DEF SpawnStart, ResultUntrack, CancelDrop
<1>15. CASE SpawnRefused
    BY <1>1, <1>15 DEF SpawnRefused
<1>16. CASE ListActive \/ ListResults \/ ListEnd
    <2>1. call.op = "list"
        BY <1>0, <1>16 DEF ListActive, ListResults, ListEnd, CallShape
    <2> QED BY <1>1, <1>4, <1>16, <2>1 DEF ListActive, ListResults, ListEnd, pool
<1>17. ASSUME NEW t \in Tasks, Worker(t) PROVE RefusedCancelMeansDone'
    BY <1>4, <1>17 DEF Worker, WorkerFinish, WorkerStore, WorkerClear, WorkerExit, At, pool
<1>18. CASE UNCHANGED vars
    BY <1>4, <1>18 DEF vars
<1> QED
    BY <1>5, <1>6, <1>7, <1>8, <1>10, <1>11, <1>12, <1>13, <1>14, <1>15, <1>16, <1>17, <1>18
    DEF Next, Begin, Continue

-----------------------------------------------------------------------------
(* The theorems. *)

\* The empty pool satisfies the inductive invariant.
LEMMA InitIInv == Init => IInv
<1> SUFFICES ASSUME Init PROVE IInv
    OBVIOUS
<1> USE DEF Init
<1>1. TypeOK
    BY DEF TypeOK, ThreadStates, NoCall, Calls, NoAnswer, Answers, Values
<1>2. ThreadInv
    BY DEF ThreadInv
<1>3. CallShape /\ CallInv /\ ListInv
    BY DEF CallShape, CallInv, ListInv, NoCall, Queries
<1>4. SlotBound
    <2>1. (active \cup results) \ cancelled = {}
        OBVIOUS
    <2> QED BY <2>1, FS_EmptySet, MaxBackgroundPos DEF SlotBound
<1>5. CancelledNeverFetched /\ ListComplete /\ RefusedCancelMeansDone
    BY DEF CancelledNeverFetched, ListComplete, RefusedCancelMeansDone, NoAnswer
<1> QED BY <1>1, <1>2, <1>3, <1>4, <1>5 DEF IInv

\* The inductive invariant holds in every reachable state.
THEOREM Invariant == Spec => []IInv
<1>1. IInv /\ [Next]_vars => IInv'
    BY TypeStep, ThreadInvStep, CallShapeStep, CallInvStep, ListStep, SlotBoundStep,
       CancelledNeverFetchedStep, RefusedCancelStep DEF IInv
<1> QED BY <1>1, InitIInv, PTL DEF Spec

\* No uncancelled task's result is ever lost between the two dicts.
THEOREM NoResultIsLost == Spec => []NoResultLost
<1>1. IInv => NoResultLost
    BY DEF IInv, TypeOK, ThreadInv, ThreadStates, NoResultLost, Spawned
<1> QED BY <1>1, Invariant, PTL

\* The capacity holds for the tasks that were not cancelled.
THEOREM SlotsAreBounded == Spec => []SlotBound
<1>1. IInv => SlotBound
    BY DEF IInv
<1> QED BY <1>1, Invariant, PTL

\* A listing that is answered shows every task still of interest.
THEOREM ListingIsComplete == Spec => []ListComplete
<1>1. IInv => ListComplete
    BY DEF IInv
<1> QED BY <1>1, Invariant, PTL

\* cancel() keeps its word: nothing it cancelled is handed over, and a refused
\* cancellation never means that the task is lost.
THEOREM CancellationKept == Spec => []CancellationIsHonest
<1>1. IInv => CancellationIsHonest
    BY DEF IInv, CancellationIsHonest
<1> QED BY <1>1, Invariant, PTL

-----------------------------------------------------------------------------
(* Refinement of TaskPool *)

\* The containers that hold a task determine its phase, before and after a step.
LEMMA PhaseFacts ==
    ASSUME NEW t
    PROVE  /\ t \in cancelled => Phase(t) = "cancelled"
           /\ t \notin cancelled /\ t \in fetched => Phase(t) = "fetched"
           /\ t \notin cancelled \cup fetched /\ t \in results => Phase(t) = "done"
           /\ t \notin cancelled \cup fetched \cup results /\ t \in active => Phase(t) = "running"
           /\ t \notin cancelled \cup fetched \cup results \cup active => Phase(t) = "idle"
           /\ t \in cancelled' => Phase(t)' = "cancelled"
           /\ t \notin cancelled' /\ t \in fetched' => Phase(t)' = "fetched"
           /\ t \notin cancelled' \cup fetched' /\ t \in results' => Phase(t)' = "done"
           /\ t \notin cancelled' \cup fetched' \cup results' /\ t \in active' => Phase(t)' = "running"
           /\ t \notin cancelled' \cup fetched' \cup results' \cup active' => Phase(t)' = "idle"
BY DEF Phase

phases == [t \in Tasks |-> Phase(t)]

\* A step that changes the phase of one task, or of none, seen as a function.
LEMMA OneTaskMoves ==
    ASSUME NEW t \in Tasks, \A u \in Tasks \ {t} : Phase(u)' = Phase(u)
    PROVE  phases' = [phases EXCEPT ![t] = Phase(t)']
BY DEF phases

\* A step that changes the phase of no task leaves the function as it is.
LEMMA NoTaskMoves ==
    ASSUME \A u \in Tasks : Phase(u)' = Phase(u)
    PROVE  phases' = phases
BY DEF phases

\* Every step of the pool is a step of TaskPool or moves no task.
LEMMA StepSimulation == IInv /\ [Next]_vars => [Abstract!Next]_phases
<1> SUFFICES ASSUME IInv, [Next]_vars PROVE [Abstract!Next]_phases
    OBVIOUS
<1> USE DEF On
<1>0. TypeOK /\ ThreadInv /\ CallShape /\ CallInv
    BY DEF IInv
<1>1. ASSUME UNCHANGED <<pool, fetched>> PROVE phases' = phases
    BY <1>1, PhaseFacts, NoTaskMoves DEF pool, Phase
<1>2. ASSUME NEW t \in Tasks, SpawnAdmitted(t) PROVE Abstract!Spawn(t)
    <2>1. /\ Cardinality(call.seen) + Cardinality(results) < MaxBackground
          /\ call.at = "admit" /\ active' = active \cup {t}
          /\ UNCHANGED <<results, cancelled, fetched>> /\ call.tasks = {t}
        BY <1>0, <1>2, GotoEffect DEF SpawnAdmitted
    <2>2. t \notin active \cup results \cup fetched \cup cancelled
        BY <1>0, <2>1 DEF CallInv, ThreadInv
    <2>3. Abstract!Move(t, {"idle"}, "running")
        <3>1. Phase(t) = "idle" /\ Phase(t)' = "running"
            BY <2>1, <2>2, PhaseFacts
        <3>2. \A u \in Tasks \ {t} : Phase(u)' = Phase(u)
            BY <2>1, PhaseFacts
        <3>3. phases' = [phases EXCEPT ![t] = "running"]
            BY <3>1, <3>2, OneTaskMoves
        <3> QED BY <3>1, <3>3 DEF Abstract!Move, phases
    <2>4. Cardinality(Abstract!Occupied) < MaxBackground
        <3>1. Abstract!Occupied \subseteq active \cup results
            BY PhaseFacts DEF Abstract!Occupied
        <3>2. active \cup results \subseteq call.seen \cup results /\ call.seen \subseteq Tasks
            BY <1>0, <2>1 DEF CallInv, TypeOK, Calls
        <3> DEFINE S == call.seen
        <3> HIDE DEF S
        <3>3. IsFiniteSet(S) /\ IsFiniteSet(results)
            BY <1>0, <3>2, TasksFinite, FS_Subset DEF TypeOK, S
        <3>4. Cardinality(S \cup results) <= Cardinality(S) + Cardinality(results) /\ IsFiniteSet(S \cup results)
            BY <3>3, UnionBound
        <3>5. Abstract!Occupied \in SUBSET (S \cup results)
            BY <3>1, <3>2 DEF S
        <3>6. Cardinality(Abstract!Occupied) <= Cardinality(S \cup results) /\ IsFiniteSet(Abstract!Occupied)
            BY <3>4, <3>5, FS_Subset
        <3>7. Cardinality(S) + Cardinality(results) < MaxBackground
            BY <2>1 DEF S
        <3>8. /\ Cardinality(S) \in Nat /\ Cardinality(results) \in Nat
              /\ Cardinality(S \cup results) \in Nat /\ Cardinality(Abstract!Occupied) \in Nat
            BY <3>3, <3>4, <3>6, FS_CardinalityType
        <3> QED BY <3>4, <3>6, <3>7, <3>8, MaxBackgroundPos
    <2> QED BY <2>3, <2>4 DEF Abstract!Spawn, Abstract!Cardinality, Cardinality
<1>3. ASSUME NEW t \in Tasks, ResultTake(t) PROVE Abstract!Fetch(t)
    <2>1. /\ t \in results /\ t \notin cancelled /\ t \notin fetched
          /\ results' = results \ {t} /\ fetched' = fetched \cup {t} /\ UNCHANGED <<active, cancelled>>
        BY <1>0, <1>3, GotoEffect DEF ResultTake, CallShape, CallInv, ThreadInv
    <2>2. Phase(t) = "done" /\ Phase(t)' = "fetched" /\ \A u \in Tasks \ {t} : Phase(u)' = Phase(u)
        BY <2>1, PhaseFacts
    <2>3. phases' = [phases EXCEPT ![t] = "fetched"]
        BY <2>2, OneTaskMoves
    <2> QED BY <2>2, <2>3 DEF Abstract!Fetch, Abstract!Move, phases
<1>4. ASSUME NEW t \in Tasks, ResultUntrack(t) PROVE phases' = phases
    <2>1. /\ t \in fetched /\ t \notin cancelled
          /\ active' = active \ {t} /\ UNCHANGED <<results, cancelled, fetched>>
        BY <1>0, <1>4 DEF ResultUntrack, CallInv
    <2> QED BY <2>1, PhaseFacts, NoTaskMoves
<1>5. ASSUME NEW t \in Tasks, CancelMark(t) PROVE Abstract!Cancel(t) \/ phases' = phases
    <2>1. /\ Spawned(t) /\ t \notin fetched
          /\ cancelled' = cancelled \cup {t} /\ UNCHANGED <<active, results, fetched>>
        BY <1>0, <1>5, GotoEffect DEF CancelMark, CallInv, CallShape
    <2>2. t \in active \cup results \cup cancelled
        BY <1>0, <2>1 DEF ThreadInv, TypeOK, ThreadStates, Spawned
    <2>3. Phase(t)' = "cancelled" /\ \A u \in Tasks \ {t} : Phase(u)' = Phase(u)
        BY <2>1, PhaseFacts
    <2>4. CASE t \in cancelled
        BY <2>1, <2>4, PhaseFacts, NoTaskMoves
    <2>5. CASE t \notin cancelled
        <3>1. Phase(t) \in {"running", "done"}
            BY <2>1, <2>2, <2>5, PhaseFacts
        <3>2. phases' = [phases EXCEPT ![t] = "cancelled"]
            BY <2>3, OneTaskMoves
        <3> QED BY <3>1, <3>2 DEF Abstract!Cancel, Abstract!Move, phases
    <2> QED BY <2>4, <2>5
<1>6. ASSUME NEW t \in Tasks, CancelUntrack(t) \/ CancelDrop(t) PROVE phases' = phases
    <2>1. t \in cancelled /\ UNCHANGED <<cancelled, fetched>>
          /\ \A u \in Tasks \ {t} : (u \in active' <=> u \in active) /\ (u \in results' <=> u \in results)
        BY <1>0, <1>6, GotoEffect DEF CancelUntrack, CancelDrop, CallShape, CallInv
    <2> QED BY <2>1, PhaseFacts, NoTaskMoves
<1>7. ASSUME NEW t \in Tasks, WorkerStore(t) PROVE Abstract!Finish(t) \/ phases' = phases
    <2>1. /\ t \in active \cup cancelled /\ t \notin results \cup fetched
          /\ results' = results \cup {t} /\ UNCHANGED <<active, cancelled, fetched>>
        BY <1>0, <1>7 DEF WorkerStore, At, ThreadInv
    <2>2. CASE t \in cancelled
        BY <2>1, <2>2, PhaseFacts, NoTaskMoves
    <2>3. CASE t \notin cancelled
        <3>1. Phase(t) = "running" /\ Phase(t)' = "done" /\ \A u \in Tasks \ {t} : Phase(u)' = Phase(u)
            BY <2>1, <2>3, PhaseFacts
        <3>2. phases' = [phases EXCEPT ![t] = "done"]
            BY <3>1, OneTaskMoves
        <3> QED BY <3>1, <3>2 DEF Abstract!Finish, Abstract!Move, phases
    <2> QED BY <2>2, <2>3
<1>8. ASSUME NEW t \in Tasks, WorkerClear(t) PROVE phases' = phases
    <2>1. /\ t \in results \cup fetched \cup cancelled
          /\ active' = active \ {t} /\ UNCHANGED <<results, cancelled, fetched>>
        BY <1>0, <1>8 DEF WorkerClear, At, ThreadInv
    <2> QED BY <2>1, PhaseFacts, NoTaskMoves
<1>9. \/ \E t \in Tasks : \/ SpawnAdmitted(t) \/ ResultTake(t) \/ ResultUntrack(t) \/ CancelMark(t)
                          \/ CancelUntrack(t) \/ CancelDrop(t) \/ WorkerStore(t) \/ WorkerClear(t)
      \/ UNCHANGED <<pool, fetched>>
    BY DEF Next, Begin, Continue, vars, pool, Worker, SpawnCall, QueryCall, ListCall, SpawnStart, QueryResults,
        QueryActive, QueryIndex, QueryAlive, SpawnRefused, ListActive, ListResults, ListEnd, WorkerFinish, WorkerExit, At
<1> QED
    BY <1>1, <1>2, <1>3, <1>4, <1>5, <1>6, <1>7, <1>8, <1>9 DEF Abstract!Next

\* Every behaviour of the pool is a behaviour of the atomic life cycle.
THEOREM Refinement == Spec => ImplementsTaskPool
<1>1. Init => Abstract!Init
    BY DEF Init, Abstract!Init, Phase
<1>2. IInv /\ [Next]_vars => [Abstract!Next]_[t \in Tasks |-> Phase(t)]
    BY StepSimulation DEF phases
<1> QED BY <1>1, <1>2, Invariant, PTL DEF Spec, Abstract!Spec, ImplementsTaskPool
=============================================================================
