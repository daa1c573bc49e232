----------------------------- MODULE RunLedger ------------------------------
(***************************************************************************)
(* What a Session promises about its Agent Requests, whatever happens to   *)
(* the sandbox: they are taken up one at a time, in the order they were    *)
(* made, each at most once.  None is passed over: those behind the current *)
(* one are given up only all together, when it is over or when the Session *)
(* closes, and a closed Session takes up no more.                          *)
(***************************************************************************)
EXTENDS Naturals, Sequences

CONSTANTS Runs, NoRun

VARIABLES
    log,      \* the requests, oldest first
    taken,    \* how many of them have left the queue
    current,  \* the one being worked on, or NoRun
    open      \* the Session goes on

vars == <<log, taken, current, open>>

Init == log = <<>> /\ taken = 0 /\ current = NoRun /\ open = TRUE

\* A request waits, or, with nothing else going on, the oldest one is taken up.
Request(r) ==
    /\ \A i \in DOMAIN log : log[i] # r
    /\ log' = Append(log, r)
    /\ \/ UNCHANGED <<taken, current>>
       \/ open /\ current = NoRun /\ taken' = taken + 1 /\ current' = log'[taken + 1]
    /\ UNCHANGED open

TakeNext ==
    /\ open /\ taken < Len(log)
    /\ taken' = taken + 1 /\ current' = log[taken + 1]
    /\ UNCHANGED <<log, open>>

\* The current run is over and nothing follows it, either because nothing waits
\* or because everything that waits is given up.
Settle ==
    /\ current # NoRun
    /\ current' = NoRun /\ taken' = Len(log)
    /\ UNCHANGED <<log, open>>

\* The Session ends, with what waits left waiting or given up.
Close ==
    /\ open /\ open' = FALSE
    /\ taken' \in {taken, Len(log)}
    /\ UNCHANGED <<log, current>>

Next == (\E r \in Runs : Request(r)) \/ TakeNext \/ Settle \/ Close

Spec == Init /\ [][Next]_vars
=============================================================================
