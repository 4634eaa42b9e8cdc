------------------------------ MODULE EvTimer ------------------------------
(***************************************************************************)
(* The timers of the event loop: a wheel of slots, each a stack of timer   *)
(* entries, and the slot the loop is at.                                   *)
(*                                                                         *)
(* The wheel is not tied to the clock.  A timer that is due in d seconds   *)
(* goes d slots ahead of where the loop is, and the loop moves on one slot *)
(* in every turn that leaves the slot empty, and waits at a slot whose     *)
(* first entry is not due yet; everything behind that entry waits too.     *)
(* Callbacks run inside the loop over a slot and may add timers to it.     *)
(***************************************************************************)
EXTENDS Integers, Sequences, FiniteSets

CONSTANTS
    Timers,      \* timer entries, used over and over
    Size,        \* EV_TIMER_SIZE: 3600
    CurMod,      \* timer_current_task is a uint32_t: 2^32
    AddDelays,   \* delays of timers that file handlers add: {10} in mspc
    CbDelays,    \* delays of timers that callbacks add: {30} in mspc
    MaxLate      \* where the lateness of a timer saturates, less one

ASSUME WheelAssumption ==
    /\ Size \in Nat \ {0}
    /\ CurMod \in Nat /\ CurMod >= Size
    /\ AddDelays \subseteq 0..Size
    /\ CbDelays \subseteq 0..Size
    /\ MaxLate \in Nat

VARIABLES
    wheel,   \* timer_task_list: the entries of each slot, first one first
    cur,     \* timer_current_task
    st,      \* "free", "armed" (in ev->table), or "deleted" (the flag is set)
    due,     \* seconds until an armed timer is due
    pc,      \* "timers": in the loop over a slot; "files": at file events
    turned,  \* a turn has been made in this second
    wrapped  \* timer_current_task has wrapped (history)

vars == <<wheel, cur, st, due, pc, turned, wrapped>>

Slots == 0..(Size - 1)

Init ==
    /\ wheel = [s \in Slots |-> <<>>]
    /\ cur = 0
    /\ st = [t \in Timers |-> "free"]
    /\ due = [t \in Timers |-> 0]
    /\ pc = "timers"
    /\ turned = FALSE
    /\ wrapped = FALSE

-----------------------------------------------------------------------------
(* The wheel.                                                              *)

Here == cur % Size
Head1 == wheel[Here][1]

\* ev_time_item_ctl(EV_CTL_ADD): the slot that is d ahead, pushed on top.
SlotAhead(d) == (cur + d) % Size
Pushed(t, d) == [wheel EXCEPT ![SlotAhead(d)] = <<t>> \o @]

\* What is left of a slot once its first entry is done with: tii->next.
PoppedWhole == <<>>                  \* mutant: the slot is cleared
Popped == Tail(wheel[Here])

\* A file handler adds a timer (pxy_agent_new).
AddTimer(t, d) ==
    /\ pc = "files"
    /\ st[t] = "free"
    /\ wheel' = Pushed(t, d)
    /\ st' = [st EXCEPT ![t] = "armed"]
    /\ due' = [due EXCEPT ![t] = d]
    /\ UNCHANGED <<cur, pc, turned, wrapped>>

\* ev_time_item_ctl(EV_CTL_DEL) on a timer that has not run (pxy_agent_close):
\* out of the table, and flagged for the loop to drop.
DelTimer(t) ==
    /\ pc = "files"
    /\ st[t] = "armed"
    /\ st' = [st EXCEPT ![t] = "deleted"]
    /\ UNCHANGED <<wheel, cur, due, pc, turned, wrapped>>

-----------------------------------------------------------------------------
(* ev_main.                                                                *)

AtEntry == pc = "timers" /\ wheel[Here] # <<>>

\* A deleted entry on top is freed.
DropDeleted ==
    /\ AtEntry
    /\ st[Head1] = "deleted"
    /\ wheel' = [wheel EXCEPT ![Here] = Popped]
    /\ st' = [st EXCEPT ![Head1] = "free"]
    /\ due' = [due EXCEPT ![Head1] = 0]
    /\ UNCHANGED <<cur, pc, turned, wrapped>>

Due(t) == st[t] = "armed" /\ due[t] <= 0

\* A due entry on top runs and is freed; its callback adds no timer.
RunLast ==
    /\ AtEntry
    /\ Due(Head1)
    /\ wheel' = [wheel EXCEPT ![Here] = Popped]
    /\ st' = [st EXCEPT ![Head1] = "free"]
    /\ due' = [due EXCEPT ![Head1] = 0]
    /\ UNCHANGED <<cur, pc, turned, wrapped>>

\* A due entry on top runs, and its callback adds timer t in d seconds
\* (close_idle_agent).  The loop then sets the slot to what followed the entry
\* before the callback ran.
RunRearm(t, d) ==
    /\ AtEntry
    /\ Due(Head1)
    /\ st[t] = "free"
    /\ wheel' = [Pushed(t, d) EXCEPT ![Here] = Popped]
    /\ st' = [st EXCEPT ![Head1] = "free", ![t] = "armed"]
    /\ due' = [due EXCEPT ![Head1] = 0, ![t] = d]
    /\ UNCHANGED <<cur, pc, turned, wrapped>>

\* The entry on top is not due: break.
Wait ==
    /\ AtEntry
    /\ st[Head1] = "armed" /\ due[Head1] > 0
    /\ pc' = "files"
    /\ turned' = TRUE
    /\ UNCHANGED <<wheel, cur, st, due, wrapped>>

\* The slot is empty: the next turn looks at the next one.
NextSlotStay == cur            \* mutant: never moves on
NextSlotSigned ==              \* mutant: a signed counter, which overflows
    IF cur + 1 < CurMod THEN cur + 1 ELSE -CurMod
NextSlot == (cur + 1) % CurMod

MoveOn ==
    /\ pc = "timers"
    /\ wheel[Here] = <<>>
    /\ cur' = NextSlot
    /\ wrapped' = (wrapped \/ NextSlot < cur)
    /\ pc' = "files"
    /\ turned' = TRUE
    /\ UNCHANGED <<wheel, st, due>>

\* File events have been handled; the next turn begins.
EndTurn ==
    /\ pc = "files"
    /\ pc' = "timers"
    /\ UNCHANGED <<wheel, cur, st, due, turned, wrapped>>

\* A second passes.  A turn takes less than that: epoll_wait waits for 100 ms at
\* most.
Tick ==
    /\ turned
    /\ turned' = FALSE
    /\ due' = [t \in Timers |-> IF st[t] = "armed" /\ due[t] >= -MaxLate THEN due[t] - 1
                                ELSE due[t]]
    /\ UNCHANGED <<wheel, cur, st, pc, wrapped>>

\* The part of a turn that looks at the timers.
TimerStep ==
    \/ DropDeleted
    \/ RunLast
    \/ \E t \in Timers, d \in CbDelays : RunRearm(t, d)
    \/ Wait
    \/ MoveOn

Next ==
    \/ \E t \in Timers, d \in AddDelays : AddTimer(t, d)
    \/ \E t \in Timers : DelTimer(t)
    \/ TimerStep
    \/ EndTurn
    \/ Tick

Spec == Init /\ [][Next]_vars

\* The loop keeps turning and the clock runs.
Fairness ==
    /\ WF_vars(TimerStep)
    /\ WF_vars(EndTurn)
    /\ WF_vars(Tick)

FairSpec == Spec /\ Fairness

-----------------------------------------------------------------------------
(* Properties.                                                             *)

TypeOK ==
    /\ wheel \in [Slots -> Seq(Timers)]
    /\ cur \in 0..(CurMod - 1)
    /\ st \in [Timers -> {"free", "armed", "deleted"}]
    /\ due \in [Timers -> Int]
    /\ pc \in {"timers", "files"}
    /\ turned \in BOOLEAN
    /\ wrapped \in BOOLEAN

\* Each timer that is armed, or deleted and not yet dropped, is in the wheel
\* exactly once, and no freed one is: none is lost, run twice or run after free.
Places(t) == UNION {{<<s, i>> : i \in {j \in DOMAIN wheel[s] : wheel[s][j] = t}} : s \in Slots}

Linked ==
    \A t \in Timers : Cardinality(Places(t)) = IF st[t] = "free" THEN 0 ELSE 1

\* Head-of-line waiting makes a timer late by no more than the longest delay.
\* The loop keeps up although it moves no more than one slot in a turn: until the
\* counter of turns wraps and the loop jumps to another slot.
LateBounded ==
    ~wrapped => \A t \in Timers : st[t] = "armed" => due[t] >= -MaxLate

\* Every timer that is due runs, or is deleted first, even when the counter of
\* turns wraps and the loop jumps to another slot.
Fires == \A t \in Timers : st[t] = "armed" /\ due[t] <= 0 ~> ~Due(t)
=============================================================================
