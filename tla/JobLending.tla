------------------------------ MODULE JobLending ------------------------------
(***************************************************************************)
(* What a pool of threads promises its callers, however it manages its    *)
(* threads: a job is lent one thread, which has no other; jobs that wait  *)
(* get theirs in the order in which they came; a caller is answered once. *)
(***************************************************************************)
EXTENDS Sequences

CONSTANTS Jobs, Threads, None

VARIABLES
    accepted,  \* the jobs that were handed in
    queue,     \* those that wait their turn
    called,    \* those that wait for a thread that was called for them
    lent,      \* the job of each thread
    settled    \* the jobs whose callers have been answered

vars == <<accepted, queue, called, lent, settled>>

Init ==
    /\ accepted = {} /\ queue = <<>> /\ called = {} /\ settled = {}
    /\ lent = [t \in Threads |-> None]

Lend(j, t) == lent[t] = None /\ lent' = [lent EXCEPT ![t] = j]

(* A job is handed in once.                                                *)
HandIn(j) == j \notin accepted /\ accepted' = accepted \cup {j}

Refuse(j)  == HandIn(j) /\ settled' = settled \cup {j} /\ UNCHANGED <<queue, called, lent>>
Enqueue(j) == HandIn(j) /\ queue' = Append(queue, j) /\ UNCHANGED <<called, lent, settled>>
Call(j)    == HandIn(j) /\ called' = called \cup {j} /\ UNCHANGED <<queue, lent, settled>>
Start(j, t) == HandIn(j) /\ Lend(j, t) /\ UNCHANGED <<queue, called, settled>>

(* A caller may wait in vain: the pool fails in the middle of handing over *)
(* a thread, or the thread that was called never comes.                    *)
Forget(j)  == HandIn(j) /\ UNCHANGED <<queue, called, lent, settled>>
Abandon(j) ==
    /\ j \in called /\ called' = called \ {j}
    /\ UNCHANGED <<accepted, queue, lent, settled>>

(* A thread that comes is for one that waits for a thread.                 *)
Arrive(j, t) ==
    /\ j \in called /\ called' = called \ {j}
    /\ Lend(j, t)
    /\ UNCHANGED <<accepted, queue, settled>>

(* The first of the queue has a thread called for it.                      *)
CallFirst ==
    /\ queue # <<>> /\ queue' = Tail(queue)
    /\ called' = called \cup {Head(queue)}
    /\ UNCHANGED <<accepted, lent, settled>>

(* A job ends, and its caller is answered; the first of the queue takes    *)
(* the thread over, or nobody does.                                        *)
Settle(t) ==
    /\ lent[t] # None /\ lent[t] \notin settled
    /\ settled' = settled \cup {lent[t]}
    /\ \/ UNCHANGED queue /\ lent' = [lent EXCEPT ![t] = None]
       \/ queue # <<>> /\ queue' = Tail(queue) /\ lent' = [lent EXCEPT ![t] = Head(queue)]
    /\ UNCHANGED <<accepted, called>>

Next ==
    \/ \E j \in Jobs : Refuse(j) \/ Enqueue(j) \/ Call(j) \/ Forget(j) \/ Abandon(j)
    \/ \E j \in Jobs, t \in Threads : Start(j, t) \/ Arrive(j, t)
    \/ CallFirst
    \/ \E t \in Threads : Settle(t)

Spec == Init /\ [][Next]_vars
=============================================================================
