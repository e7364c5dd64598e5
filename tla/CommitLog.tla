------------------------------ MODULE CommitLog ------------------------------
(***************************************************************************)
(* What the background DB writer promises, without its channel, its batch  *)
(* and its timers: an accepted write joins a bounded backlog, the backlog  *)
(* is executed one write at a time in the order of acceptance, a refused   *)
(* write never executes, and only a process death drops the backlog.       *)
(* WriteQueue.tla implements this specification.                           *)
(***************************************************************************)
EXTENDS Naturals, Sequences, FiniteSets

CONSTANTS
    Tasks,      \* the write operations the handlers hand over
    MaxBacklog  \* how many accepted writes may await execution

VARIABLES
    offered,    \* the tasks accepted, refused or abandoned so far
    backlog,    \* accepted and not yet executed, oldest first
    executed    \* every task that ran, in the order it ran

vars == <<offered, backlog, executed>>

Init ==
    /\ offered = {}
    /\ backlog = <<>>
    /\ executed = <<>>

Accept(t) ==
    /\ t \notin offered
    /\ Len(backlog) < MaxBacklog
    /\ offered' = offered \cup {t}
    /\ backlog' = Append(backlog, t)
    /\ UNCHANGED executed

Refuse(t) ==
    /\ t \notin offered
    /\ offered' = offered \cup {t}
    /\ UNCHANGED <<backlog, executed>>

Execute ==
    /\ backlog # <<>>
    /\ executed' = Append(executed, Head(backlog))
    /\ backlog' = Tail(backlog)
    /\ UNCHANGED offered

\* A process death forgets the backlog and the calls being served.
Die(S) ==
    /\ S \cap offered = {}
    /\ offered' = offered \cup S
    /\ backlog' = <<>>
    /\ UNCHANGED executed

Next ==
    \/ \E t \in Tasks : Accept(t) \/ Refuse(t)
    \/ \E S \in SUBSET Tasks : Die(S)
    \/ Execute

Spec == Init /\ [][Next]_vars
=============================================================================
