------------------------------ MODULE AtMostOnce ------------------------------
(***************************************************************************)
(* What the guard of Idempotency-Key promises, as if a request and all it  *)
(* does to its key were one step: a request is executed only while its key *)
(* is free, and takes the key for good unless its client is told of a      *)
(* server error; the others with that key are told what it was told, or    *)
(* are refused and do nothing.  Who was told an answer from memory can     *)
(* rely on it: from then on the key gives it for ever.                     *)
(* Idempotency implements this; see Promise there.                         *)
(***************************************************************************)
CONSTANTS Keys, NoKey, Requests

VARIABLES
    memory,   \* [Keys -> "free", the answer that is remembered, or "spent"]
    asked,    \* [Requests -> the key of the request]
    told,     \* [Requests -> what its client was told]
    replayed, \* the requests answered from memory
    effects   \* the requests that have committed something

vars == <<memory, asked, told, replayed, effects>>

Answers == {"ok", "rejected"}

Init ==
    /\ memory = [k \in Keys |-> "free"]
    /\ asked = [r \in Requests |-> NoKey]
    /\ told = [r \in Requests |-> "none"]
    /\ replayed = {}
    /\ effects = {}

Ask(r, k) ==
    /\ asked[r] = NoKey
    /\ asked' = [asked EXCEPT ![r] = k]
    /\ UNCHANGED <<memory, told, replayed, effects>>

Waits(r) == asked[r] \in Keys /\ told[r] = "none" /\ r \notin effects

Remember(k, m) == memory' = [memory EXCEPT ![k] = m]

Tell(r, code) == told' = [told EXCEPT ![r] = code]

\* The request takes effect, or not, and its client learns about it; it fails,
\* and nobody knows whether it took effect; or nobody hears of it again.
Execute(r) ==
    /\ Waits(r)
    /\ memory[asked[r]] = "free"
    /\ \/ Tell(r, "ok") /\ Remember(asked[r], "ok") /\ effects' = effects \cup {r}
       \/ Tell(r, "rejected") /\ Remember(asked[r], "rejected") /\ UNCHANGED effects
       \/ /\ \/ Tell(r, "error") /\ UNCHANGED memory
             \/ UNCHANGED told /\ Remember(asked[r], "spent")
          /\ effects' \in {effects, effects \cup {r}}
    /\ UNCHANGED <<asked, replayed>>

Replay(r) ==
    /\ Waits(r)
    /\ memory[asked[r]] \in Answers
    /\ Tell(r, memory[asked[r]])
    /\ replayed' = replayed \cup {r}
    /\ UNCHANGED <<memory, asked, effects>>

\* The request is turned away, and may cost a free key.
Refuse(r) ==
    /\ Waits(r)
    /\ Tell(r, "conflict") \/ Tell(r, "error")
    /\ \/ UNCHANGED memory
       \/ memory[asked[r]] = "free" /\ Remember(asked[r], "spent")
    /\ UNCHANGED <<asked, replayed, effects>>

\* A key, with what it remembered, is lost to everyone, unless somebody has
\* been told from memory.
Lose(k) ==
    /\ \A r \in replayed : asked[r] # k
    /\ Remember(k, "spent")
    /\ UNCHANGED <<asked, told, replayed, effects>>

Next ==
    \/ \E r \in Requests :
          (\E k \in Keys : Ask(r, k)) \/ Execute(r) \/ Replay(r) \/ Refuse(r)
    \/ \E k \in Keys : Lose(k)

Spec == Init /\ [][Next]_vars

=============================================================================
