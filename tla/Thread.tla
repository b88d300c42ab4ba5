------------------------------- MODULE Thread -------------------------------
(***************************************************************************)
(* base/thread.cpp: Thread objects, each of which may be started, joined   *)
(* and destroyed by its owner, and the threads that they start.  A thread  *)
(* writes its id through a pointer to tid_ of the object, which may be     *)
(* gone by then, as the destructor lets go of a thread that nobody joined. *)
(***************************************************************************)
EXTENDS Naturals, FiniteSets

CONSTANT ThreadObject

VARIABLES
    object,         \* started_, joined_, tid_ and name_ of each object
    life,           \* what the owner does with it: "none" yet, "made",
                    \* "join" while join() waits, "joined", or "gone"
    num_,           \* num_ of the class
    body,           \* the thread of each object: "none", "new", "running" its
                    \* function, or "ended"
    t_cachedTid,    \* t_cachedTid of that thread
    strayed,        \* the threads that have written to an object that is gone
    process         \* "runs", or why it was terminated

threadObjectVars == <<object, life, num_, body, t_cachedTid, strayed, process>>

ThreadInit ==
    /\ object = [t \in ThreadObject |->
                    [started_ |-> FALSE, joined_ |-> FALSE, tid_ |-> 0, name_ |-> <<>>]]
    /\ life = [t \in ThreadObject |-> "none"]
    /\ num_ = 0
    /\ body = [t \in ThreadObject |-> "none"]
    /\ t_cachedTid = [t \in ThreadObject |-> 0]
    /\ strayed = {}
    /\ process = "runs"

----------------------------------------------------------------------------
(* The owner.                                                              *)

(* setDefaultName() counts all objects, and those without a name, which is *)
(* <<>>, get one that has the number.                                      *)
setDefaultName(name) == IF name = <<>> THEN <<"Thread", num_ + 1>> ELSE name

Construct(t) ==
    /\ life[t] = "none"
    /\ life' = [life EXCEPT ![t] = "made"]
    /\ num_' = num_ + 1
    /\ \E name \in {<<>>, <<"given">>} : object' = [object EXCEPT ![t].name_ = setDefaultName(name)]
    /\ UNCHANGED <<body, t_cachedTid, strayed, process>>

(* start(), once: if there is no thread to be had the constructor of       *)
(* std::thread throws, after started_ was set.                             *)
StartThread(t) ==
    /\ life[t] = "made" /\ ~object[t].started_
    /\ object' = [object EXCEPT ![t].started_ = TRUE]
    /\ \E began \in {"new", "none"} : body' = [body EXCEPT ![t] = began]
    /\ UNCHANGED <<life, num_, t_cachedTid, strayed, process>>

(* join(), which throws if there is no thread.                             *)
JoinThread(t) ==
    /\ life[t] = "made" /\ object[t].started_ /\ ~object[t].joined_
    /\ object' = [object EXCEPT ![t].joined_ = TRUE]
    /\ life' = [life EXCEPT ![t] = IF body[t] = "none" THEN @ ELSE "join"]
    /\ UNCHANGED <<num_, body, t_cachedTid, strayed, process>>

JoinEnds(t) ==
    /\ life[t] = "join" /\ body[t] = "ended"
    /\ life' = [life EXCEPT ![t] = "joined"]
    /\ UNCHANGED <<object, num_, body, t_cachedTid, strayed, process>>

(* The destructor; detach() of no thread throws, which a destructor must   *)
(* not do.                                                                 *)
Detaches(t) == object[t].started_ /\ ~object[t].joined_

DestroyThread(t) ==
    /\ life[t] \in {"made", "joined"}
    /\ life' = [life EXCEPT ![t] = "gone"]
    /\ process' = IF Detaches(t) /\ body[t] = "none" THEN "detached nothing" ELSE process
    /\ UNCHANGED <<object, num_, body, t_cachedTid, strayed>>

----------------------------------------------------------------------------
(* The thread; it is its own id.                                           *)
cacheTid(t) == IF t_cachedTid[t] = 0 THEN t ELSE t_cachedTid[t]

RunInThread(t) ==
    /\ body[t] = "new"
    /\ body' = [body EXCEPT ![t] = "running"]
    /\ t_cachedTid' = [t_cachedTid EXCEPT ![t] = cacheTid(t)]
    /\ IF life[t] = "gone"
       THEN strayed' = strayed \cup {t} /\ UNCHANGED object
       ELSE object' = [object EXCEPT ![t].tid_ = t_cachedTid'[t]] /\ UNCHANGED strayed
    /\ UNCHANGED <<life, num_, process>>

(* Exceptions of the function are caught if they are std::exceptions.      *)
FunctionEnds(t) ==
    /\ body[t] = "running"
    /\ body' = [body EXCEPT ![t] = "ended"]
    /\ \E thrown \in {"nothing", "std::exception", "another"} :
           process' = IF thrown = "another" THEN "unknown exception" ELSE process
    /\ UNCHANGED <<object, life, num_, t_cachedTid, strayed>>

ThreadNext ==
    /\ process = "runs"
    /\ \E t \in ThreadObject :
           \/ Construct(t) \/ StartThread(t) \/ JoinThread(t) \/ JoinEnds(t)
           \/ DestroyThread(t)
           \/ RunInThread(t) \/ FunctionEnds(t)

----------------------------------------------------------------------------
(* When join() has returned the function has ended, and tid() is that of   *)
(* the thread; only a thread that was let go by the destructor writes to   *)
(* an object that is gone; default names differ; and the process ends only *)
(* by an unknown exception or when an object that could not be started is  *)
(* destroyed (thread.cpp:11-33 and 42-74).                                 *)
ThreadsAccounted ==
    /\ life \in [ThreadObject -> {"none", "made", "join", "joined", "gone"}]
    /\ body \in [ThreadObject -> {"none", "new", "running", "ended"}]
    /\ \A t \in ThreadObject :
          /\ life[t] = "joined" => body[t] = "ended" /\ object[t].tid_ = t
          /\ t \in strayed => life[t] = "gone" /\ Detaches(t)
          /\ \A u \in ThreadObject \ {t} :
                object[t].name_ = object[u].name_ => object[t].name_ \in {<<>>, <<"given">>}
    /\ process = "detached nothing" =>
          \E t \in ThreadObject : life[t] = "gone" /\ Detaches(t) /\ body[t] = "none"
=============================================================================
