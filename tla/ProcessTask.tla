---------------------------- MODULE ProcessTask ----------------------------
(***************************************************************************)
(* Coroutines::ProcessTask of include/process.h: tasks that own the frame  *)
(* of a coroutine, are moved, resumed and destroyed, and the frames        *)
(* themselves.  initial_suspend and final_suspend are both suspend_never:  *)
(* a coroutine runs at once, up to its first co_await or to its end, and   *)
(* at its end the language frees its frame.                                *)
(*                                                                         *)
(* A frame is a piece of memory.  Once it is freed the next call may be    *)
(* given it again, while a task of the coroutine that was there still has  *)
(* its address.  Coroutines bounds the calls: each is one call.            *)
(***************************************************************************)
CONSTANTS Tasks,       \* places in memory where a task may live
          Frames,      \* memory for frames
          Coroutines,  \* the calls of coroutines
          NoHandle,    \* handle = nullptr
          Vacant       \* memory that holds no frame

TaskAssumption == NoHandle \notin Frames /\ Vacant \notin Coroutines

VARIABLES
    living,     \* tasks whose lifetime has begun and not ended
    handle,
    frame,      \* the coroutine suspended in a piece of memory, or Vacant
    made_for,   \* ghost: the coroutine whose call made the task's handle
    started,    \* ghost: the coroutines that have been called
    ended,      \* ghost: the coroutines that have run to their end
    undefined   \* whether memory that holds no frame was run or freed

vars == <<living, handle, frame, made_for, started, ended, undefined>>

Init ==
    /\ living = {}
    /\ handle = [t \in Tasks |-> NoHandle]
    /\ frame = [f \in Frames |-> Vacant]
    /\ made_for = [t \in Tasks |-> Vacant]
    /\ started = {}
    /\ ended = {}
    /\ undefined = FALSE

\* co_await of a YieldAwaitable, or of a SleepAwaitable that is not zero.
Suspend(f, c) ==
    /\ frame' = [frame EXCEPT ![f] = c]
    /\ UNCHANGED ended

\* final_suspend does not suspend: the frame is freed.
RunToEnd(f, c) ==
    /\ frame' = [frame EXCEPT ![f] = Vacant]
    /\ ended' = ended \cup {c}

\* A call of the coroutine: get_return_object, then its body.
Start(t, f, c) ==
    /\ t \notin living /\ frame[f] = Vacant /\ c \notin started
    /\ living' = living \cup {t}
    /\ handle' = [handle EXCEPT ![t] = f]
    /\ made_for' = [made_for EXCEPT ![t] = c]
    /\ started' = started \cup {c}
    /\ Suspend(f, c) \/ RunToEnd(f, c)
    /\ UNCHANGED undefined

-----------------------------------------------------------------------------
\* if (handle) handle.destroy(): whatever coroutine is there now.
Discard(t) ==
    IF handle[t] = NoHandle
      THEN UNCHANGED <<frame, undefined>>
      ELSE /\ frame' = [frame EXCEPT ![handle[t]] = Vacant]
           /\ undefined' = (frame[handle[t]] = Vacant)

Destroy(t) ==
    /\ t \in living
    /\ living' = living \ {t}
    /\ Discard(t)
    /\ UNCHANGED <<handle, made_for, started, ended>>

\* Mutant: the task moved from keeps its handle.
MoveConstructCopies(t, other) ==
    /\ t \notin living /\ other \in living
    /\ living' = living \cup {t}
    /\ handle' = [handle EXCEPT ![t] = handle[other]]
    /\ made_for' = [made_for EXCEPT ![t] = made_for[other]]
    /\ UNCHANGED <<frame, started, ended, undefined>>

\* What both moves do to the handles.
TakeOver(t, other) ==
    /\ handle' = [handle EXCEPT ![t] = handle[other], ![other] = NoHandle]
    /\ made_for' = [made_for EXCEPT ![t] = made_for[other]]

MoveConstruct(t, other) ==
    /\ t \notin living /\ other \in living
    /\ living' = living \cup {t}
    /\ TakeOver(t, other)
    /\ UNCHANGED <<frame, started, ended, undefined>>

MoveAssign(t, other) ==
    /\ t \in living /\ other \in living
    /\ IF t = other
         THEN UNCHANGED vars
         ELSE /\ Discard(t)
              /\ TakeOver(t, other)
              /\ UNCHANGED <<living, started, ended>>

\* resume: the coroutine that is there now is suspended, so not done, and runs
\* on.  In freed memory done() may say anything, and then garbage is run.
Resume(t) ==
    /\ t \in living /\ handle[t] # NoHandle
    /\ IF frame[handle[t]] = Vacant
         THEN undefined' = TRUE /\ UNCHANGED <<frame, ended>>
         ELSE /\ \/ Suspend(handle[t], frame[handle[t]])
                 \/ RunToEnd(handle[t], frame[handle[t]])
              /\ UNCHANGED undefined
    /\ UNCHANGED <<living, handle, made_for, started>>

\* done and get_result only read the frame.  Behaviours are followed until
\* memory without a frame is run or freed; after that anything may happen.
Next ==
    /\ ~undefined
    /\ \E t \in Tasks :
         \/ \E f \in Frames, c \in Coroutines : Start(t, f, c)
         \/ \E other \in Tasks : MoveConstruct(t, other) \/ MoveAssign(t, other)
         \/ Destroy(t) \/ Resume(t)

Spec == Init /\ [][Next]_vars

-----------------------------------------------------------------------------
TypeOK ==
    /\ living \in SUBSET Tasks
    /\ handle \in [Tasks -> Frames \cup {NoHandle}]
    /\ frame \in [Frames -> Coroutines \cup {Vacant}]
    /\ made_for \in [Tasks -> Coroutines \cup {Vacant}]
    /\ started \in SUBSET Coroutines
    /\ ended \in SUBSET Coroutines
    /\ undefined \in BOOLEAN

\* Task t answers for coroutine c, and refers to its frame or to what was it.
AnswersFor(t, c) == t \in living /\ handle[t] # NoHandle /\ made_for[t] = c

\* Its memory was freed under it, and may hold another coroutine by now.
Dangling(t) ==
    t \in living /\ handle[t] # NoHandle /\ frame[handle[t]] # made_for[t]

(***************************************************************************)
(* Every suspended coroutine has one task that answers for it, whose       *)
(* handle leads to its frame, however tasks are moved, resumed and         *)
(* destroyed and memory is used again: none is leaked, none destroyed by   *)
(* two tasks of its own.                                                   *)
(***************************************************************************)
OneTask ==
    \A f \in Frames : frame[f] # Vacant =>
        \E t \in Tasks : /\ AnswersFor(t, frame[f]) /\ handle[t] = f
                         /\ \A u \in Tasks : AnswersFor(u, frame[f]) => u = t

(***************************************************************************)
(* Moves, assignments and destructors never leave a task with the address  *)
(* of a frame that is gone: while no coroutine has run to its end, every   *)
(* handle leads to its own coroutine.                                      *)
(***************************************************************************)
DanglesOnlyAfterEnd == (\E t \in Tasks : Dangling(t)) => ended # {}

TasksOwned == OneTask /\ DanglesOnlyAfterEnd

(***************************************************************************)
(* get_result "if (handle && handle.done())": a task can be asked once its *)
(* coroutine is done, so its handle never dangles.  Violated: final_       *)
(* suspend does not suspend, the frame of a coroutine that has ended is    *)
(* gone, and done, get_result, resume and the destructor still go to it,   *)
(* or to the coroutine that was given its memory.                          *)
(***************************************************************************)
NoUseAfterFree == \A t \in Tasks : ~Dangling(t)
=============================================================================
