------------------------------ MODULE AppendLog ------------------------------
(***************************************************************************)
(* What the loop ledger promises (internal/db/loop.go: "Append-only         *)
(* work-state for multi-iteration agent loops"): one log per loop that only *)
(* grows.  A session asks for an entry to be appended; it is appended at    *)
(* most once, at the next position, and the session is told this position  *)
(* or that the call failed.  A call that failed may have appended its      *)
(* entry.                                                                  *)
(***************************************************************************)
EXTENDS Naturals, Sequences

CONSTANTS Sessions, Loops, Entries

VARIABLES
    log,    \* log[l]: the entries of loop l
    todo,   \* todo[s]: the calls of s in progress, none or one, as a set
    pos,    \* pos[s]: where the entry of s was appended; 0: not yet
    reply   \* reply[s]: what the last call of s was told; 0: that it failed

vars == <<log, todo, pos, reply>>

Init ==
    /\ log = [l \in Loops |-> <<>>]
    /\ todo = [s \in Sessions |-> {}]
    /\ pos = [s \in Sessions |-> 0]
    /\ reply = [s \in Sessions |-> 0]

Ask(s, l, e) ==
    /\ todo[s] = {}
    /\ todo' = [todo EXCEPT ![s] = {[loop |-> l, entry |-> e]}]
    /\ reply' = [reply EXCEPT ![s] = 0]
    /\ UNCHANGED <<log, pos>>

AppendEntry(s) ==
    /\ pos[s] = 0
    /\ \E t \in todo[s] :
          /\ log' = [log EXCEPT ![t.loop] = Append(@, t.entry)]
          /\ pos' = [pos EXCEPT ![s] = Len(log[t.loop]) + 1]
    /\ UNCHANGED <<todo, reply>>

\* The call ends, with the position or with an error.
Return(s) ==
    /\ todo[s] # {}
    /\ todo' = [todo EXCEPT ![s] = {}]
    /\ pos' = [pos EXCEPT ![s] = 0]
    /\ \E n \in {0, pos[s]} : reply' = [reply EXCEPT ![s] = n]
    /\ UNCHANGED log

Next == \E s \in Sessions : \/ \E l \in Loops, e \in Entries : Ask(s, l, e)
                            \/ AppendEntry(s)
                            \/ Return(s)

Spec == Init /\ [][Next]_vars
=============================================================================
