---------------------------- MODULE PromptService ----------------------------
(***************************************************************************)
(* What the prompter promises the agents that use it, without its queues,  *)
(* workers and connections.  A prompt is shown at most once, and what      *)
(* leaves the screen has its one answer; a dismissal acts once, on the     *)
(* prompt it names, or for want of a name on one that has none; an agent   *)
(* sweeps the screen once, after it was started; the platform's            *)
(* confirmation dialogs are out of reach of both.  Module Prompter         *)
(* implements this one.                                                    *)
(***************************************************************************)
EXTENDS Naturals

CONSTANT Prompts

VARIABLES
    fate,           \* fate[p]: how far the prompt p is
    named,          \* the prompts with an id
    dismissal,      \* dismissal[p]: whether p is called off, and whether that was acted on
    agent,          \* the number of the agent that was started last
    sweeps          \* the agents that have yet to sweep the screen

vars == <<fate, named, dismissal, agent, sweeps>>

Shown == {p \in Prompts : fate[p] = "shown"}

Init ==
    /\ fate = [p \in Prompts |-> "new"]
    /\ named = {}
    /\ dismissal = [p \in Prompts |-> "none"]
    /\ agent = 1 /\ sweeps = {}

Move(p, from, to) ==
    /\ fate[p] = from
    /\ fate' = [fate EXCEPT ![p] = to]

End(S) == fate' = [p \in Prompts |-> IF p \in S THEN "over" ELSE fate[p]]

\* With an id or without.
Ask(p) ==
    /\ Move(p, "new", "open")
    /\ named' \in {named \ {p}, named \cup {p}}
    /\ UNCHANGED <<dismissal, agent, sweeps>>

\* A panel of the prompter's own, or the platform's dialog.
Show(p) ==
    /\ Move(p, "open", "shown") \/ Move(p, "open", "confirming")
    /\ UNCHANGED <<named, dismissal, agent, sweeps>>

\* An answer, a deadline, or an error before anything was shown.
Answer(p) ==
    /\ fate[p] \in {"open", "shown", "confirming"}
    /\ End({p})
    /\ UNCHANGED <<named, dismissal, agent, sweeps>>

\* One prompt is called off, or all of an agent that is about to stop.
CallOff(S) ==
    /\ \A p \in S : fate[p] # "new" /\ dismissal[p] = "none"
    /\ dismissal' = [p \in Prompts |-> IF p \in S THEN "called" ELSE dismissal[p]]
    /\ UNCHANGED <<fate, named, agent, sweeps>>

\* A name reaches its prompt and those that have none; no name, one of these.
Reach(p, S) ==
    IF p \in named THEN S = {q \in Shown : q = p \/ q \notin named}
                   ELSE S \subseteq Shown \ named /\ \A q, r \in S : q = r

Dismiss(p) ==
    /\ dismissal[p] = "called"
    /\ dismissal' = [dismissal EXCEPT ![p] = "done"]
    /\ \E S \in SUBSET Shown : Reach(p, S) /\ End(S)
    /\ UNCHANGED <<named, agent, sweeps>>

StartAgent ==
    /\ agent' = agent + 1
    /\ sweeps' = sweeps \cup {agent + 1}
    /\ UNCHANGED <<fate, named, dismissal>>

Sweep(g) ==
    /\ g \in sweeps
    /\ sweeps' = sweeps \ {g}
    /\ End(Shown)
    /\ UNCHANGED <<named, dismissal, agent>>

\* The prompter dies: what was asked is over, what was on its way is gone.
Die ==
    /\ End({p \in Prompts : fate[p] # "new"})
    /\ dismissal' = [p \in Prompts |-> IF dismissal[p] = "called" THEN "done" ELSE dismissal[p]]
    /\ sweeps' = {}
    /\ UNCHANGED <<named, agent>>

Next ==
    \/ \E p \in Prompts : Ask(p) \/ Show(p) \/ Answer(p) \/ Dismiss(p)
    \/ \E S \in SUBSET Prompts : CallOff(S)
    \/ \E g \in sweeps : Sweep(g)
    \/ StartAgent \/ Die

Spec == Init /\ [][Next]_vars
=============================================================================
