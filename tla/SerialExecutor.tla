---------------------------- MODULE SerialExecutor ----------------------------
(***************************************************************************)
(* What an EventLoop promises to the threads that hand it work: a queue    *)
(* from which one thread takes tasks one at a time, in the order in which  *)
(* they were submitted, each exactly once, and only while the executor is  *)
(* open.  Tasks left in the queue when it closes stay there for the next   *)
(* time it opens.  Nothing is said of threads, batches, file descriptors   *)
(* or wakeups: those belong to the implementation (EventLoop.tla).         *)
(***************************************************************************)
EXTENDS Sequences

CONSTANTS Task,     \* the tasks that can be submitted
          NoTask    \* not a task: the value of running between two tasks

VARIABLES open,     \* the executor takes tasks from the queue
          queue,    \* tasks submitted and not started, oldest first
          running   \* the task being executed, or NoTask

vars == <<open, queue, running>>

Init == /\ open = FALSE
        /\ queue = <<>>
        /\ running = NoTask

Open == /\ ~open
        /\ open' = TRUE
        /\ UNCHANGED <<queue, running>>

Close == /\ open /\ running = NoTask
         /\ open' = FALSE
         /\ UNCHANGED <<queue, running>>

Submit(t) == /\ queue' = Append(queue, t)
             /\ UNCHANGED <<open, running>>

Start == /\ open /\ running = NoTask /\ queue # <<>>
         /\ running' = Head(queue)
         /\ queue' = Tail(queue)
         /\ UNCHANGED open

Finish == /\ running # NoTask
          /\ running' = NoTask
          /\ UNCHANGED <<open, queue>>

Next == Open \/ Close \/ Start \/ Finish \/ \E t \in Task : Submit(t)

(***************************************************************************)
(* Safety promises nothing about progress; Spec adds that an open executor *)
(* with work starts it and that what was started ends.                     *)
(***************************************************************************)
Safety == Init /\ [][Next]_vars

Fairness == WF_vars(Start) /\ WF_vars(Finish)

Spec == Safety /\ Fairness
===============================================================================
