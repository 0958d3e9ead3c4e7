------------------------------ MODULE RWLatch ------------------------------
(***************************************************************************)
(* The reader-writer latch of a page (rwlatch.h).  A call runs under       *)
(* mutex_ except while it sleeps on a condition variable, so a step is a   *)
(* stretch between two such points.  A thread sleeps until it is notified; *)
(* it may also wake by itself, and both loops test again.  The number of   *)
(* readers stays below MAX_READERS, which is UINT_MAX.                     *)
(***************************************************************************)
EXTENDS Integers, FiniteSets

CONSTANT Threads

ASSUME ThreadsAssumption == IsFiniteSet(Threads)

VARIABLES
  pc,             \* where each thread is
  readerCount,    \* reader_count_
  writerEntered,  \* writer_entered_
  readerCv,       \* threads asleep on reader_
  writerCv        \* threads asleep on writer_

vars == <<pc, readerCount, writerEntered, readerCv, writerCv>>

\* "enter": in the first loop of WLock; "drain": in its second; "await": in the
\* loop of RLock.
Places == {"idle", "enter", "drain", "writing", "await", "reading"}

Init ==
  /\ pc = [t \in Threads |-> "idle"]
  /\ readerCount = 0
  /\ writerEntered = FALSE
  /\ readerCv = {}
  /\ writerCv = {}

Goto(t, place) == pc' = [pc EXCEPT ![t] = place]

-----------------------------------------------------------------------------
\* WLock, up to where it sleeps or returns.
WLock(t) ==
  /\ pc[t] = "idle" \/ (pc[t] = "enter" /\ t \notin readerCv)
  /\ IF writerEntered
     THEN Goto(t, "enter") /\ readerCv' = readerCv \cup {t} /\ UNCHANGED <<writerEntered, writerCv>>
     ELSE /\ writerEntered' = TRUE
          /\ IF readerCount > 0
             THEN Goto(t, "drain") /\ writerCv' = writerCv \cup {t}
             ELSE Goto(t, "writing") /\ UNCHANGED writerCv
          /\ UNCHANGED readerCv
  /\ UNCHANGED readerCount

WLockDrain(t) ==
  /\ pc[t] = "drain" /\ t \notin writerCv
  /\ IF readerCount > 0 THEN writerCv' = writerCv \cup {t} /\ UNCHANGED pc
     ELSE Goto(t, "writing") /\ UNCHANGED writerCv
  /\ UNCHANGED <<readerCount, writerEntered, readerCv>>

WUnlockSilent(t) ==
  /\ pc[t] = "writing"
  /\ writerEntered' = FALSE
  /\ Goto(t, "idle")
  /\ UNCHANGED <<readerCv, readerCount, writerCv>>
WUnlock(t) ==
  /\ pc[t] = "writing"
  /\ writerEntered' = FALSE
  /\ readerCv' = {}
  /\ Goto(t, "idle")
  /\ UNCHANGED <<readerCount, writerCv>>

RLockBarges(t) ==
  /\ pc[t] = "idle" \/ (pc[t] = "await" /\ t \notin readerCv)
  /\ Goto(t, "reading") /\ readerCount' = readerCount + 1
  /\ UNCHANGED <<readerCv, writerEntered, writerCv>>
RLockJoins(t) ==
  /\ pc[t] = "idle" \/ (pc[t] = "await" /\ t \notin readerCv)
  /\ IF writerEntered /\ readerCount = 0
     THEN Goto(t, "await") /\ readerCv' = readerCv \cup {t} /\ UNCHANGED readerCount
     ELSE Goto(t, "reading") /\ readerCount' = readerCount + 1 /\ UNCHANGED readerCv
  /\ UNCHANGED <<writerEntered, writerCv>>
RLock(t) ==
  /\ pc[t] = "idle" \/ (pc[t] = "await" /\ t \notin readerCv)
  /\ IF writerEntered
     THEN Goto(t, "await") /\ readerCv' = readerCv \cup {t} /\ UNCHANGED readerCount
     ELSE Goto(t, "reading") /\ readerCount' = readerCount + 1 /\ UNCHANGED readerCv
  /\ UNCHANGED <<writerEntered, writerCv>>

\* notify_one: a thread asleep on writer_, if there is one.
NotifyWriter == IF writerCv = {} THEN UNCHANGED writerCv
                ELSE \E w \in writerCv : writerCv' = writerCv \ {w}

RUnlock(t) ==
  /\ pc[t] = "reading"
  /\ Goto(t, "idle")
  /\ readerCount' = readerCount - 1
  /\ IF writerEntered /\ readerCount = 1 THEN NotifyWriter ELSE UNCHANGED writerCv
  /\ UNCHANGED <<writerEntered, readerCv>>

Spurious(t) ==
  /\ t \in readerCv \cup writerCv
  /\ readerCv' = readerCv \ {t}
  /\ writerCv' = writerCv \ {t}
  /\ UNCHANGED <<pc, readerCount, writerEntered>>

\* A thread calls WLock or RLock, not both at once; one that is in a loop goes on.
Next ==
  \E t \in Threads : WLock(t) \/ WLockDrain(t) \/ WUnlock(t) \/ RLock(t) \/ RUnlock(t) \/ Spurious(t)

\* A thread that holds the latch lets go of it, and one that is awake gets the
\* mutex and the processor.
Fairness ==
  \A t \in Threads : WF_vars(WUnlock(t)) /\ WF_vars(RUnlock(t)) /\ WF_vars(WLockDrain(t))

Spec == Init /\ [][Next]_vars
FairSpec == Spec /\ Fairness

-----------------------------------------------------------------------------
At(place) == {t \in Threads : pc[t] = place}

\* Every variable has its type.
TypeOK ==
  /\ pc \in [Threads -> Places]
  /\ readerCount \in Nat
  /\ writerEntered \in BOOLEAN
  /\ readerCv \subseteq Threads
  /\ writerCv \subseteq Threads

\* A thread that has the write latch has it alone: no other writer, no reader.
Exclusion ==
  \A t \in At("writing") : At("writing") = {t} /\ At("reading") = {}

\* A thread sleeps only while someone is there to wake it: on reader_ a writer that
\* has entered, on writer_ a reader that has not left.
NobodyForgotten ==
  /\ readerCv # {} => \E t \in Threads : pc[t] \in {"drain", "writing"}
  /\ writerCv # {} => At("reading") # {}

\* A writer that has entered keeps new readers out, so the readers inside drain
\* away and it gets the latch.
WriterGetsIn == \A t \in Threads : pc[t] = "drain" ~> pc[t] = "writing"

=============================================================================
