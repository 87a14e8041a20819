----------------------------- MODULE Idempotency -----------------------------
(***************************************************************************)
(* idempotencyKeyGuard, the middleware in front of the routes that change  *)
(* something.  It looks a key up, inserts it, lets the handler run, and    *)
(* hooks into res.json: the answer goes out, and an update of the key is   *)
(* sent to the database that nobody waits for.                             *)
(*                                                                         *)
(* A key stands for the hash of a user, a method, a path and the header.   *)
(* All requests here carry one; a client may repeat a request at any time. *)
(***************************************************************************)
EXTENDS Naturals

CONSTANTS
    Keys,          \* key_hash
    NoKey,         \* of a request that has not been sent
    MaxRequests,   \* bound: how many requests there are
    AccidentKinds, \* what may go wrong, a subset of the kinds below
    MaxAccidents   \* bound: how often it does

ASSUME IdempotencyAssumption ==
    /\ NoKey \notin Keys
    /\ MaxRequests \in Nat
    /\ AccidentKinds \subseteq {"crash", "db_error", "ack_lost"}
    /\ MaxAccidents \in Nat

VARIABLES
    idempotency_keys, \* [Keys -> row]
    requests,         \* [Requests -> state of the request]
    effects,          \* the requests whose handler has committed something
    accidents         \* how many there have been

vars == <<idempotency_keys, requests, effects, accidents>>

Requests == 1..MaxRequests

\* 2xx; 4xx from the handler; 5xx; 409 from the guard.
Codes == {"ok", "rejected", "error", "conflict"}

\* What a request does next; "complete" and "clear" are the updates of the key
\* that res.json has sent.
Stages == {"look_up", "insert", "handle", "complete", "clear"}

Request == [ stage  : Stages \cup {"new", "over", "lost"},
             key    : Keys \cup {NoKey},
             answer : Codes \cup {"none"},
             cached : BOOLEAN ]

InFlight(r) == requests[r].stage \in Stages

AbsentKey == [status |-> "ABSENT", response |-> "none"]

NoRequest == [stage |-> "new", key |-> NoKey, answer |-> "none", cached |-> FALSE]

TypeOK ==
    /\ idempotency_keys \in
          [Keys -> [ status   : {"ABSENT", "PROCESSING", "COMPLETED"},
                     response : {"none", "ok", "rejected"} ]]
    /\ requests \in [Requests -> Request]
    /\ effects \subseteq Requests
    /\ accidents \in 0..MaxAccidents

Init ==
    /\ idempotency_keys = [k \in Keys |-> AbsentKey]
    /\ requests = [r \in Requests |-> NoRequest]
    /\ effects = {}
    /\ accidents = 0

Accident(kind) ==
    /\ kind \in AccidentKinds
    /\ accidents < MaxAccidents
    /\ accidents' = accidents + 1

Goto(r, stage) == requests' = [requests EXCEPT ![r].stage = stage]

\* The request is answered and goes on, or is over.
Answer(r, code, stage) ==
    requests' = [requests EXCEPT ![r].answer = code, ![r].stage = stage]

-----------------------------------------------------------------------------
(* The guard, before the handler. *)

Send(r, k) ==
    /\ requests[r].stage = "new"
    /\ \A s \in Requests : s < r => requests[s].stage # "new"
    /\ requests' = [requests EXCEPT ![r].key = k, ![r].stage = "look_up"]
    /\ UNCHANGED <<idempotency_keys, effects, accidents>>

LookUp(r) ==
    LET row == idempotency_keys[requests[r].key]
    IN  /\ requests[r].stage = "look_up"
        /\ \/ row.status = "ABSENT" /\ Goto(r, "insert")
           \/ row.status = "PROCESSING" /\ Answer(r, "conflict", "over")
           \/ /\ row.status = "COMPLETED"
              /\ requests' = [requests EXCEPT ![r] =
                    [@ EXCEPT !.answer = row.response, !.cached = TRUE, !.stage = "over"]]
        /\ UNCHANGED <<idempotency_keys, effects, accidents>>

\* Mutant: ON CONFLICT DO UPDATE, the key is taken from whoever has it.
UpsertKey(r) ==
    /\ requests[r].stage = "insert"
    /\ idempotency_keys' = [idempotency_keys EXCEPT
            ![requests[r].key] = [status |-> "PROCESSING", response |-> "none"]]
    /\ Goto(r, "handle")
    /\ UNCHANGED <<effects, accidents>>

\* Mutant: the row is stored as the one of an answer already given.
InsertCompletedKey(r) ==
    /\ requests[r].stage = "insert"
    /\ idempotency_keys[requests[r].key].status = "ABSENT"
    /\ idempotency_keys' = [idempotency_keys EXCEPT
            ![requests[r].key] = [status |-> "COMPLETED", response |-> "ok"]]
    /\ Goto(r, "handle")
    /\ UNCHANGED <<effects, accidents>>

\* The INSERT.  The primary key lets only one of several requests pass; the
\* error handler makes a 409 of the others' error.  If the answer to the INSERT
\* is lost, the request ends with a 500, and the key stays.
InsertKey(r) ==
    LET k == requests[r].key
    IN  /\ requests[r].stage = "insert"
        /\ \/ /\ idempotency_keys[k].status = "ABSENT"
              /\ idempotency_keys' = [idempotency_keys EXCEPT ![k].status = "PROCESSING"]
              /\ \/ Goto(r, "handle") /\ UNCHANGED accidents
                 \/ Answer(r, "error", "over") /\ Accident("ack_lost")
           \/ /\ idempotency_keys[k].status # "ABSENT"
              /\ Answer(r, "conflict", "over")
              /\ UNCHANGED <<idempotency_keys, accidents>>
        /\ UNCHANGED effects

-----------------------------------------------------------------------------
(* The handler, and what follows res.json. *)

\* Mutants: every answer is stored; every answer clears the key; answers like
\* 409 and 422 leave it.
RespondAndStore(r, code) == Answer(r, code, "complete")

RespondAndClear(r, code) == Answer(r, code, "clear")

RespondToSuccess(r, code) ==
    Answer(r, code, CASE code = "ok" -> "complete" [] code = "error" -> "clear" [] OTHER -> "over")

\* res.json, hooked by the guard.
Respond(r, code) == Answer(r, code, IF code = "error" THEN "clear" ELSE "complete")

\* The handler commits its transaction and says so; or it refuses; or the
\* transaction fails; or it commits and the handler sees an error.
Handle(r) ==
    /\ requests[r].stage = "handle"
    /\ \/ Respond(r, "ok") /\ effects' = effects \cup {r} /\ UNCHANGED accidents
       \/ Respond(r, "rejected") /\ UNCHANGED <<effects, accidents>>
       \/ Respond(r, "error") /\ Accident("db_error") /\ UNCHANGED effects
       \/ Respond(r, "error") /\ Accident("ack_lost") /\ effects' = effects \cup {r}
    /\ UNCHANGED idempotency_keys

\* The UPDATE, or the DELETE.
WriteKey(r) ==
    LET k == requests[r].key
    IN  /\ requests[r].stage \in {"complete", "clear"}
        /\ idempotency_keys' = [idempotency_keys EXCEPT ![k] =
              IF requests[r].stage = "clear" THEN AbsentKey
              ELSE [status |-> "COMPLETED", response |-> requests[r].answer]]
        /\ Goto(r, "over")
        /\ UNCHANGED <<effects, accidents>>

\* A statement of the guard fails: before the handler that is a 500, after it
\* the error is only logged.
GuardFails(r) ==
    /\ \/ requests[r].stage \in {"look_up", "insert"} /\ Answer(r, "error", "over")
       \/ requests[r].stage \in {"complete", "clear"} /\ Goto(r, "over")
    /\ Accident("db_error")
    /\ UNCHANGED <<idempotency_keys, effects>>

\* The server dies; its transaction may have been committed.
Crash(r) ==
    /\ InFlight(r)
    /\ Accident("crash")
    /\ Goto(r, "lost")
    /\ \/ UNCHANGED effects
       \/ requests[r].stage = "handle" /\ effects' = effects \cup {r}
    /\ UNCHANGED idempotency_keys

Serve(r) == LookUp(r) \/ InsertKey(r) \/ Handle(r) \/ WriteKey(r)

Next ==
    \E r \in Requests :
        \/ \E k \in Keys : Send(r, k)
        \/ Serve(r)
        \/ GuardFails(r)
        \/ Crash(r)

Spec == Init /\ [][Next]_vars

\* Handlers and the database answer.  Nobody has to send anything.
FairSpec == Spec /\ \A r \in Requests : WF_vars(Serve(r))

-----------------------------------------------------------------------------
(* Properties. *)

SameKey(r, s) == requests[r].key = requests[s].key

\* However requests with a key overlap: if two of them took effect, one of them
\* had been answered with a server error.  The guard clears the key then, and
\* cannot know that the transaction was committed.
EffectsOnce ==
    \A r, s \in effects : SameKey(r, s) /\ r # s =>
        "error" \in {requests[r].answer, requests[s].answer}

\* Between its INSERT and the last write a request has its key for itself: no
\* late write of one request touches the key of another one.
OneOwner ==
    \A r, s \in Requests :
        /\ requests[r].stage \in {"handle", "complete", "clear"}
        /\ requests[s].stage \in {"handle", "complete", "clear"}
        /\ SameKey(r, s)
        => r = s

\* An answer from the cache is the answer that the handler gave to some request
\* with that key, and it tells whether that one took effect.
ReplaysAreTrue ==
    \A r \in Requests : requests[r].cached =>
        \E s \in Requests :
            /\ SameKey(r, s) /\ ~requests[s].cached
            /\ requests[s].answer = requests[r].answer
            /\ requests[r].answer = "ok" <=> s \in effects

\* Once an answer is stored, the key gives this answer for ever.
StoredAnswersStay ==
    [][\A k \in Keys : idempotency_keys[k].status = "COMPLETED" =>
          idempotency_keys'[k] = idempotency_keys[k]]_vars

Owned(k, stages) ==
    {r \in Requests : requests[r].key = k /\ requests[r].stage \in stages}

\* What a key remembers.  It remembers the answer before the UPDATE is there to
\* store it, and is free as long as no answer has been given; a key that is
\* PROCESSING and has no owner is lost.
Remembered(k) ==
    CASE idempotency_keys[k].status = "ABSENT" -> "free"
      [] idempotency_keys[k].status = "COMPLETED" -> idempotency_keys[k].response
      [] OTHER ->
            IF Owned(k, {"handle", "clear"}) # {} THEN "free"
            ELSE IF \E r \in Owned(k, {"complete"}) : requests[r].answer = "ok" THEN "ok"
            ELSE IF Owned(k, {"complete"}) # {} THEN "rejected"
            ELSE "spent"

\* The statements of the guard, its handler and the update that nobody waits for
\* amount to one step, however requests overlap and whatever goes wrong.
Once == INSTANCE AtMostOnce WITH
    memory <- [k \in Keys |-> Remembered(k)],
    asked <- [r \in Requests |-> requests[r].key],
    told <- [r \in Requests |-> requests[r].answer],
    replayed <- {r \in Requests : requests[r].cached}

Promise == Once!Spec

\* Unless something goes wrong, no key stays PROCESSING: whatever the answer,
\* its client can learn it, or try again.
KeysSettle ==
    \A k \in Keys :
        idempotency_keys[k].status = "PROCESSING"
            ~> (idempotency_keys[k].status # "PROCESSING" \/ accidents > 0)

=============================================================================
