--------------------------- MODULE SubagentWait ---------------------------
(***************************************************************************)
(* What `wait_for_subagents` promises its lead, without saying how.  A     *)
(* wait returns only when nobody is left queued or running, or with an     *)
(* excuse (a pending interjection, its cap of ten minutes); once nobody is *)
(* left it does return; and whenever it returns, every run that had        *)
(* finished has been reported.  Subagents implements this.                 *)
(***************************************************************************)
EXTENDS FiniteSets

CONSTANT Ids             \* run ids

VARIABLES
    live,                \* run ids queued or running
    done,                \* run ids with an answer or an error
    told,                \* run ids marked as reported to the lead
    waiting,             \* a wait is in progress
    excused              \* a wait need not wait for everybody

vars == <<live, done, told, waiting, excused>>

Init == live = {} /\ done = {} /\ told = {} /\ ~waiting /\ ~excused

Track(i) ==
    /\ i \notin live \cup done
    /\ live' = live \cup {i}
    /\ UNCHANGED <<done, told, waiting, excused>>

Finish(i) ==
    /\ i \in live
    /\ live' = live \ {i}
    /\ done' = done \cup {i}
    /\ UNCHANGED <<told, waiting, excused>>

Check(i) ==
    /\ i \in done
    /\ told' = told \cup {i}
    /\ UNCHANGED <<live, done, waiting, excused>>

Wait ==
    /\ ~waiting /\ waiting' = TRUE
    /\ UNCHANGED <<live, done, told, excused>>

\* Somebody steers, the cap passes, the loop drains what was steered.
Excuse ==
    /\ excused' = ~excused
    /\ UNCHANGED <<live, done, told, waiting>>

Return ==
    /\ waiting /\ waiting' = FALSE
    /\ live = {} \/ excused
    /\ told' = told \cup done
    /\ excused' \in BOOLEAN
    /\ UNCHANGED <<live, done>>

\* The run is cancelled under the wait.
Abandon ==
    /\ waiting /\ waiting' = FALSE
    /\ excused' \in BOOLEAN
    /\ UNCHANGED <<live, done, told>>

\* The daemon went; a resumed run knows again what its log kept.
Restart ==
    /\ live' = {} /\ told' = {} /\ ~waiting' /\ ~excused'
    /\ done' \in SUBSET Ids

Next ==
    \/ \E i \in Ids : Track(i) \/ Finish(i) \/ Check(i)
    \/ Wait \/ Excuse \/ Return \/ Abandon \/ Restart

\* Once nobody is left to wait for, a wait returns (or is cancelled).
Spec == Init /\ [][Next]_vars /\ WF_vars(live = {} /\ (Return \/ Abandon))
============================================================================
