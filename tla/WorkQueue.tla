------------------------------ MODULE WorkQueue ------------------------------
(***************************************************************************)
(* What the job table promises its users, with no clock, row or            *)
(* transaction: a key is submitted at most once, is in the hands of at     *)
(* most one worker, and when it has ended it never comes back.             *)
(***************************************************************************)
CONSTANTS Key, Worker

VARIABLES
    waiting,    \* submitted keys nobody works on
    owner,      \* worker -> the key it works on
    finished,   \* keys whose work was done
    exhausted   \* keys that were given up

wqVars == <<waiting, owner, finished, exhausted>>

Taken == {owner[w] : w \in DOMAIN owner}
Known == waiting \cup Taken \cup finished \cup exhausted

Release(w) == owner' = [v \in DOMAIN owner \ {w} |-> owner[v]]

WQInit ==
    /\ waiting = {}
    /\ owner = [w \in {} |-> w]
    /\ finished = {}
    /\ exhausted = {}

\* The keys a step adds are fresh ones: no key is submitted twice.
AddsFreshKeys ==
    /\ waiting \subseteq waiting'
    /\ waiting' \ waiting \subseteq Key
    /\ (waiting' \ waiting) \cap Known = {}

Submit ==
    /\ AddsFreshKeys
    /\ UNCHANGED <<owner, finished, exhausted>>

Take(w, k) ==
    /\ w \notin DOMAIN owner
    /\ k \in waiting
    /\ waiting' = waiting \ {k}
    /\ owner' = [v \in DOMAIN owner \cup {w} |-> IF v = w THEN k ELSE owner[v]]
    /\ UNCHANGED <<finished, exhausted>>

\* Finishing a key may submit the keys that follow from it.
Done(w) ==
    /\ w \in DOMAIN owner
    /\ AddsFreshKeys
    /\ finished' = finished \cup {owner[w]}
    /\ Release(w)
    /\ UNCHANGED exhausted

\* A failed try, a database error or the death of the worker.
GiveBack(w) ==
    /\ w \in DOMAIN owner
    /\ waiting' = waiting \cup {owner[w]}
    /\ Release(w)
    /\ UNCHANGED <<finished, exhausted>>

GiveUp(w) ==
    /\ w \in DOMAIN owner
    /\ exhausted' = exhausted \cup {owner[w]}
    /\ Release(w)
    /\ UNCHANGED <<waiting, finished>>

WQNext ==
    \/ Submit
    \/ \E w \in Worker : \/ \E k \in waiting : Take(w, k)
                         \/ Done(w)
                         \/ GiveBack(w)
                         \/ GiveUp(w)

WQSpec == WQInit /\ [][WQNext]_wqVars
=============================================================================
