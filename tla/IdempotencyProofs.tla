--------------------------- MODULE IdempotencyProofs ---------------------------
(***************************************************************************)
(* Proofs about Idempotency, for all keys and accidents and any number of  *)
(* requests.                                                               *)
(***************************************************************************)
EXTENDS Idempotency, TLAPS

\* From the INSERT to the last write.
Owning(r) == requests[r].stage \in {"handle", "complete", "clear"}

\* A request is new until it has a key, has no answer before its handler has
\* come to an end, and what it is told about its effect is right.
Honest ==
    \A r \in Requests : LET q == requests[r] IN
        /\ IF q.stage = "new" THEN q.key = NoKey ELSE q.key \in Keys
        /\ q.stage \in {"new", "look_up", "insert", "handle"} =>
              q.answer = "none" /\ ~q.cached /\ r \notin effects
        /\ q.stage = "complete" =>
              /\ q.answer \in {"ok", "rejected"} /\ ~q.cached
              /\ q.answer = "ok" <=> r \in effects
        /\ q.stage = "clear" => q.answer = "error"

\* The key of a request that owns it is PROCESSING.
OwnedProcessing ==
    \A r \in Requests : Owning(r) => idempotency_keys[requests[r].key].status = "PROCESSING"

\* As long as a request that took effect has not failed, its key is in the
\* table, and nobody else owns it.
EffectsHoldKeys ==
    \A r \in effects : requests[r].answer # "error" =>
        /\ idempotency_keys[requests[r].key].status # "ABSENT"
        /\ \A s \in Requests : Owning(s) /\ SameKey(r, s) => s = r

\* The request with key k whose handler gave the answer that is stored.
Answered(s, k, code) ==
    /\ requests[s].key = k /\ ~requests[s].cached
    /\ requests[s].answer = code
    /\ code = "ok" <=> s \in effects

StoredAnswersAreTrue ==
    \A k \in Keys : idempotency_keys[k].status = "COMPLETED" =>
        /\ idempotency_keys[k].response \in {"ok", "rejected"}
        /\ \E s \in Requests : Answered(s, k, idempotency_keys[k].response)

\* What was replayed is what somebody was told.
Replayed ==
    \A r \in Requests : requests[r].cached =>
        /\ requests[r].answer \in {"ok", "rejected"}
        /\ \E s \in Requests : Answered(s, requests[r].key, requests[r].answer)

IInv ==
    /\ TypeOK
    /\ Honest
    /\ OneOwner
    /\ OwnedProcessing
    /\ EffectsHoldKeys
    /\ EffectsOnce
    /\ StoredAnswersAreTrue
    /\ Replayed

-----------------------------------------------------------------------------
(* What all steps have in common. *)

LEMMA InitIInv == Init => IInv
<1> SUFFICES ASSUME Init PROVE IInv
  OBVIOUS
<1> USE IdempotencyAssumption DEF Init, AbsentKey, NoRequest
<1>1. TypeOK
  BY DEF TypeOK, Request, Stages, Codes
<1>2. Honest /\ OwnedProcessing /\ Replayed
  BY DEF Honest, OwnedProcessing, Owning, Replayed
<1>3. OneOwner /\ EffectsHoldKeys /\ EffectsOnce /\ StoredAnswersAreTrue
  BY DEF OneOwner, EffectsHoldKeys, EffectsOnce, StoredAnswersAreTrue
<1> QED
  BY <1>1, <1>2, <1>3 DEF IInv

\* A step of request r: nothing else changes of the requests, and nothing of
\* what r has been told.
StepOf(r) ==
    /\ \A s \in Requests \ {r} :
          requests'[s] = requests[s] /\ (s \in effects' <=> s \in effects)
    /\ requests[r].key # NoKey => requests'[r].key = requests[r].key
    /\ requests[r].answer # "none" \/ r \in effects =>
          /\ requests'[r].answer = requests[r].answer
          /\ requests'[r].cached = requests[r].cached
          /\ r \in effects' <=> r \in effects

\* An answer that was given stays what it was.
LEMMA AnswersStay ==
  ASSUME IInv, NEW r \in Requests, StepOf(r),
         NEW s \in Requests, NEW k \in Keys, NEW code \in {"ok", "rejected"},
         Answered(s, k, code)
  PROVE  Answered(s, k, code)'
BY IdempotencyAssumption DEF StepOf, Answered

\* As long as no row is stored as COMPLETED, what is stored stays true.
LEMMA StoredStay ==
  ASSUME IInv, NEW r \in Requests, StepOf(r),
         \A k \in Keys : idempotency_keys'[k].status = "COMPLETED" =>
            idempotency_keys'[k] = idempotency_keys[k]
  PROVE  StoredAnswersAreTrue'
<1> SUFFICES ASSUME NEW k \in Keys, idempotency_keys'[k].status = "COMPLETED"
             PROVE  /\ idempotency_keys'[k].response \in {"ok", "rejected"}
                    /\ \E s \in Requests : Answered(s, k, idempotency_keys[k].response)'
  BY DEF StoredAnswersAreTrue
<1>1. PICK s \in Requests : Answered(s, k, idempotency_keys[k].response)
  BY DEF IInv, StoredAnswersAreTrue
<1>2. idempotency_keys'[k] = idempotency_keys[k]
      /\ idempotency_keys[k].response \in {"ok", "rejected"}
  BY DEF IInv, StoredAnswersAreTrue
<1>3. Answered(s, k, idempotency_keys[k].response)'
  BY <1>1, <1>2, AnswersStay DEF Answered
<1> QED
  BY <1>2, <1>3

\* As long as nothing is replayed, what was replayed stays true.
LEMMA ReplayedStay ==
  ASSUME IInv, NEW r \in Requests, StepOf(r),
         requests'[r].cached => requests[r].cached
  PROVE  Replayed'
<1> SUFFICES ASSUME NEW q \in Requests, requests'[q].cached
             PROVE  /\ requests'[q].answer \in {"ok", "rejected"}
                    /\ \E s \in Requests : Answered(s, requests[q].key, requests[q].answer)'
  BY DEF Replayed
<1>1. requests[q].cached
  BY DEF StepOf
<1>2. PICK s \in Requests : Answered(s, requests[q].key, requests[q].answer)
  BY <1>1 DEF IInv, Replayed
<1>3. requests[q].answer \in {"ok", "rejected"} /\ requests[q].stage # "new"
  BY <1>1 DEF IInv, Replayed, Honest
<1>4. requests[q].key \in Keys
  BY <1>3 DEF IInv, Honest
<1>5. requests'[q].key = requests[q].key /\ requests'[q].answer = requests[q].answer
  BY <1>3, <1>4, IdempotencyAssumption DEF StepOf
<1>6. Answered(s, requests[q].key, requests[q].answer)'
  BY <1>2, <1>3, <1>4, <1>5, AnswersStay DEF Answered
<1> QED
  BY <1>3, <1>5, <1>6

\* A step that leaves the table and the effects alone and after which r owns
\* nothing.
LEMMA QuietStep ==
  ASSUME IInv, NEW r \in Requests, StepOf(r),
         UNCHANGED <<idempotency_keys, effects>>,
         ~Owning(r)'
  PROVE  /\ OneOwner' /\ OwnedProcessing' /\ EffectsHoldKeys' /\ EffectsOnce'
         /\ StoredAnswersAreTrue'
<1>1. \A s \in Requests : Owning(s)' => s # r /\ Owning(s) /\ requests'[s] = requests[s]
  BY DEF StepOf, Owning
<1>2. \A s \in effects : /\ s \in Requests
                         /\ requests'[s].key = requests[s].key
                         /\ requests'[s].answer = requests[s].answer
  BY IdempotencyAssumption DEF StepOf, IInv, TypeOK, Honest
<1>3. OneOwner'
  BY <1>1 DEF OneOwner, Owning, SameKey, IInv
<1>4. OwnedProcessing'
  BY <1>1 DEF OwnedProcessing, IInv
<1>5. EffectsHoldKeys'
  BY <1>1, <1>2 DEF EffectsHoldKeys, SameKey, IInv
<1>6. EffectsOnce'
  BY <1>2 DEF EffectsOnce, SameKey, IInv
<1>7. StoredAnswersAreTrue'
  BY StoredStay
<1> QED
  BY <1>3, <1>4, <1>5, <1>6, <1>7

-----------------------------------------------------------------------------
(* The actions. *)

LEMMA AccidentTyped ==
  ASSUME TypeOK, NEW kind, Accident(kind) \/ UNCHANGED accidents
  PROVE  accidents' \in 0..MaxAccidents
BY IdempotencyAssumption DEF TypeOK, Accident

\* What Goto and Answer do.
LEMMA GotoFacts ==
  ASSUME TypeOK, NEW r \in Requests, NEW stage \in Stages \cup {"over", "lost"},
         Goto(r, stage)
  PROVE  /\ requests' \in [Requests -> Request]
         /\ \A s \in Requests \ {r} : requests'[s] = requests[s]
         /\ requests'[r].stage = stage
         /\ requests'[r].key = requests[r].key
         /\ requests'[r].answer = requests[r].answer
         /\ requests'[r].cached = requests[r].cached
BY DEF Goto, TypeOK, Request

LEMMA AnswerFacts ==
  ASSUME TypeOK, NEW r \in Requests, NEW stage \in Stages \cup {"over", "lost"},
         NEW code \in Codes, Answer(r, code, stage)
  PROVE  /\ requests' \in [Requests -> Request]
         /\ \A s \in Requests \ {r} : requests'[s] = requests[s]
         /\ requests'[r].stage = stage
         /\ requests'[r].key = requests[r].key
         /\ requests'[r].answer = code
         /\ requests'[r].cached = requests[r].cached
BY DEF Answer, TypeOK, Request

LEMMA SendStep ==
  ASSUME IInv, NEW r \in Requests, NEW k \in Keys, Send(r, k)
  PROVE  IInv'
<1>1. /\ requests[r].stage = "new" /\ r \notin effects /\ requests[r].answer = "none"
      /\ ~requests[r].cached /\ requests[r].key = NoKey
      /\ UNCHANGED <<idempotency_keys, effects, accidents>>
  BY DEF Send, IInv, Honest
<1>2. /\ requests' \in [Requests -> Request]
      /\ \A s \in Requests \ {r} : requests'[s] = requests[s]
      /\ requests'[r].stage = "look_up" /\ requests'[r].key = k
      /\ requests'[r].answer = "none" /\ requests'[r].cached = requests[r].cached
  BY <1>1 DEF Send, IInv, TypeOK, Request, Stages
<1>3. TypeOK'
  BY <1>1, <1>2 DEF IInv, TypeOK
<1>4. StepOf(r)
  BY <1>1, <1>2 DEF StepOf
<1>5. Honest'
  BY <1>1, <1>2 DEF IInv, Honest
<1>6. ~Owning(r)' /\ ~requests'[r].cached
  BY <1>1, <1>2 DEF Owning
<1> QED
  BY <1>1, <1>3, <1>4, <1>5, <1>6, QuietStep, ReplayedStay DEF IInv

LEMMA LookUpStep ==
  ASSUME IInv, NEW r \in Requests, LookUp(r)
  PROVE  IInv'
<1> DEFINE k == requests[r].key
           row == idempotency_keys[k]
<1>1. /\ requests[r].stage = "look_up" /\ r \notin effects /\ requests[r].answer = "none"
      /\ ~requests[r].cached /\ k \in Keys
      /\ UNCHANGED <<idempotency_keys, effects, accidents>>
  BY DEF LookUp, IInv, Honest
<1>2. row.status = "COMPLETED" =>
        /\ row.response \in {"ok", "rejected"}
        /\ \E s \in Requests : Answered(s, k, row.response)
  BY <1>1 DEF IInv, StoredAnswersAreTrue
<1>3. /\ requests' \in [Requests -> Request]
      /\ \A s \in Requests \ {r} : requests'[s] = requests[s]
      /\ requests'[r].key = k
      /\ \/ /\ requests'[r].stage = "insert" /\ requests'[r].answer = "none"
            /\ ~requests'[r].cached
         \/ requests'[r].stage = "over" /\ ~requests'[r].cached
         \/ /\ requests'[r].stage = "over" /\ requests'[r].answer = row.response
            /\ row.status = "COMPLETED"
  <2>1. CASE row.status = "ABSENT" /\ Goto(r, "insert")
    BY <1>1, <2>1, GotoFacts DEF IInv, Stages
  <2>2. CASE row.status = "PROCESSING" /\ Answer(r, "conflict", "over")
    BY <1>1, <2>2, AnswerFacts DEF IInv, Codes
  <2>3. CASE /\ row.status = "COMPLETED"
             /\ requests' = [requests EXCEPT ![r] =
                   [@ EXCEPT !.answer = row.response, !.cached = TRUE, !.stage = "over"]]
    BY <1>1, <1>2, <2>3 DEF IInv, TypeOK, Request, Codes
  <2> QED
    BY <2>1, <2>2, <2>3 DEF LookUp
<1>4. TypeOK'
  BY <1>1, <1>3 DEF IInv, TypeOK
<1>5. StepOf(r)
  BY <1>1, <1>3 DEF StepOf
<1>6. Honest'
  BY <1>1, <1>3 DEF IInv, Honest
<1>7. ~Owning(r)'
  BY <1>3 DEF Owning
<1>8. Replayed'
  <2>1. CASE ~requests'[r].cached
    BY <1>5, <2>1, ReplayedStay
  <2>2. CASE requests'[r].cached
    <3> SUFFICES ASSUME NEW q \in Requests, requests'[q].cached
                 PROVE  /\ requests'[q].answer \in {"ok", "rejected"}
                        /\ \E s \in Requests : Answered(s, requests[q].key, requests[q].answer)'
      BY DEF Replayed
    <3>1. /\ requests'[q].answer \in {"ok", "rejected"} /\ requests'[q].key \in Keys
          /\ \E s \in Requests : Answered(s, requests'[q].key, requests'[q].answer)
      <4>1. CASE q = r
        BY <1>1, <1>2, <1>3, <2>2, <4>1
      <4>2. CASE q # r
        <5>1. requests[q].cached /\ requests'[q] = requests[q]
          BY <1>3, <4>2
        <5>2. requests[q].key \in Keys
          BY <5>1 DEF IInv, Honest
        <5> QED
          BY <5>1, <5>2 DEF IInv, Replayed
      <4> QED
        BY <4>1, <4>2
    <3>2. PICK s \in Requests : Answered(s, requests'[q].key, requests'[q].answer)
      BY <3>1
    <3>3. Answered(s, requests[q].key, requests[q].answer)'
      BY <1>5, <3>1, <3>2, AnswersStay DEF Answered
    <3> QED
      BY <3>1, <3>3
  <2> QED
    BY <2>1, <2>2
<1> QED
  BY <1>1, <1>4, <1>5, <1>6, <1>7, <1>8, QuietStep DEF IInv

LEMMA InsertKeyStep ==
  ASSUME IInv, NEW r \in Requests, InsertKey(r)
  PROVE  IInv'
<1> DEFINE k == requests[r].key
<1>1. /\ requests[r].stage = "insert" /\ r \notin effects /\ requests[r].answer = "none"
      /\ ~requests[r].cached /\ k \in Keys
      /\ UNCHANGED effects
  BY DEF InsertKey, IInv, Honest
<1>2. PICK kind : Accident(kind) \/ UNCHANGED accidents
  BY DEF InsertKey
<1>3. /\ requests' \in [Requests -> Request]
      /\ \A s \in Requests \ {r} : requests'[s] = requests[s]
      /\ requests'[r].key = k /\ ~requests'[r].cached
      /\ \/ requests'[r].stage = "handle" /\ requests'[r].answer = "none"
         \/ requests'[r].stage = "over"
  BY <1>1, GotoFacts, AnswerFacts DEF InsertKey, IInv, Stages, Codes
<1>4. idempotency_keys' \in [Keys -> [ status   : {"ABSENT", "PROCESSING", "COMPLETED"},
                                       response : {"none", "ok", "rejected"} ]]
  BY <1>1 DEF InsertKey, IInv, TypeOK
<1>5. TypeOK'
  BY <1>1, <1>2, <1>3, <1>4, AccidentTyped DEF IInv, TypeOK
<1>6. StepOf(r)
  BY <1>1, <1>3 DEF StepOf
<1>7. Honest'
  BY <1>1, <1>3 DEF IInv, Honest
<1>8. Replayed'
  BY <1>3, <1>6, ReplayedStay
<1>9. CASE idempotency_keys[k].status # "ABSENT"
  <2>1. UNCHANGED idempotency_keys /\ Answer(r, "conflict", "over")
    BY <1>9 DEF InsertKey
  <2>2. requests'[r].stage = "over"
    BY <2>1, AnswerFacts DEF IInv, Codes
  <2> QED
    BY <1>1, <1>5, <1>6, <1>7, <1>8, <2>1, <2>2, QuietStep DEF IInv, Owning
<1>10. CASE idempotency_keys[k].status = "ABSENT"
  <2>1. \A j \in Keys : /\ j # k => idempotency_keys'[j] = idempotency_keys[j]
                        /\ j = k => idempotency_keys'[j].status = "PROCESSING"
    BY <1>1, <1>10 DEF InsertKey, IInv, TypeOK
  <2>2. \A s \in Requests : Owning(s) => requests[s].key \in Keys /\ requests[s].key # k
    BY <1>10 DEF IInv, OwnedProcessing, Honest, Owning
  <2>3. \A s \in effects : s \in Requests /\ s # r /\ requests[s].key \in Keys
    BY <1>1 DEF IInv, TypeOK, Honest
  <2>4. \A s \in effects : requests[s].answer # "error" => requests[s].key # k
    BY <1>10 DEF IInv, EffectsHoldKeys
  <2>5. OneOwner'
    BY <1>3, <2>2 DEF OneOwner, Owning, SameKey, IInv
  <2>6. OwnedProcessing'
    BY <1>1, <1>3, <2>1, <2>2 DEF OwnedProcessing, Owning, IInv
  <2>7. EffectsHoldKeys'
    BY <1>1, <1>3, <2>1, <2>3, <2>4 DEF EffectsHoldKeys, Owning, SameKey, IInv
  <2>8. EffectsOnce'
    BY <1>1, <1>3, <2>3 DEF EffectsOnce, SameKey, IInv
  <2>9. StoredAnswersAreTrue'
    BY <1>6, <2>1, StoredStay
  <2> QED
    BY <1>5, <1>7, <1>8, <2>5, <2>6, <2>7, <2>8, <2>9 DEF IInv
<1> QED
  BY <1>9, <1>10

\* A request that takes effect owns its key, so whoever took effect before it
\* with that key has failed.
LEMMA EffectStep ==
  ASSUME IInv, NEW r \in Requests, requests[r].stage = "handle", StepOf(r),
         requests'[r].key = requests[r].key,
         UNCHANGED idempotency_keys, effects' = effects \cup {r}
  PROVE  /\ EffectsOnce'
         /\ ((\A s \in Requests : Owning(s)' => Owning(s)) => EffectsHoldKeys')
<1>1. Owning(r) /\ requests[r].key \in Keys
  BY DEF Owning, IInv, Honest
<1>2. \A s \in effects : /\ s \in Requests /\ s # r
                         /\ requests'[s] = requests[s]
  BY DEF StepOf, IInv, TypeOK, Honest
<1>3. \A s \in effects : requests[s].answer # "error" => ~SameKey(r, s)
  BY <1>1, <1>2 DEF IInv, EffectsHoldKeys, SameKey
<1>4. EffectsOnce'
  BY <1>2, <1>3 DEF IInv, EffectsOnce, SameKey
<1>5. ASSUME \A s \in Requests : Owning(s)' => Owning(s)
      PROVE  EffectsHoldKeys'
  <2>1. \A s \in Requests : Owning(s)' => requests'[s].key = requests[s].key
    BY DEF StepOf
  <2>2. \A s \in Requests : Owning(s) /\ SameKey(r, s) => s = r
    BY <1>1 DEF IInv, OneOwner, Owning, SameKey
  <2>3. idempotency_keys[requests[r].key].status # "ABSENT"
    BY <1>1 DEF IInv, OwnedProcessing
  <2> QED
    BY <1>2, <1>5, <2>1, <2>2, <2>3 DEF IInv, EffectsHoldKeys, SameKey
<1> QED
  BY <1>4, <1>5

LEMMA HandleStep ==
  ASSUME IInv, NEW r \in Requests, Handle(r)
  PROVE  IInv'
<1>1. /\ requests[r].stage = "handle" /\ r \notin effects /\ requests[r].answer = "none"
      /\ ~requests[r].cached /\ requests[r].key \in Keys
      /\ UNCHANGED idempotency_keys
  BY DEF Handle, IInv, Honest
<1>2. PICK kind : Accident(kind) \/ UNCHANGED accidents
  BY DEF Handle
<1>3. /\ requests' \in [Requests -> Request]
      /\ \A s \in Requests \ {r} : requests'[s] = requests[s]
      /\ requests'[r].key = requests[r].key /\ ~requests'[r].cached
      /\ \/ /\ requests'[r].stage = "complete"
            /\ \/ requests'[r].answer = "ok" /\ effects' = effects \cup {r}
               \/ requests'[r].answer = "rejected" /\ effects' = effects
         \/ /\ requests'[r].stage = "clear" /\ requests'[r].answer = "error"
            /\ effects' = effects \cup {r} \/ effects' = effects
  BY <1>1, AnswerFacts DEF Handle, Respond, IInv, Stages, Codes
<1>4. TypeOK'
  BY <1>1, <1>2, <1>3, AccidentTyped DEF IInv, TypeOK
<1>5. StepOf(r)
  BY <1>1, <1>3 DEF StepOf
<1>6. Honest'
  BY <1>1, <1>3 DEF IInv, Honest
<1>7. \A s \in Requests : /\ Owning(s)' <=> Owning(s)
                          /\ requests'[s].key = requests[s].key
  BY <1>1, <1>3 DEF Owning
<1>8. OneOwner' /\ OwnedProcessing'
  <2>1. OwnedProcessing'
    BY <1>1, <1>7 DEF IInv, OwnedProcessing
  <2>2. \A p, q \in Requests : Owning(p)' /\ Owning(q)' /\ SameKey(p, q)' => p = q
    BY <1>7 DEF IInv, OneOwner, Owning, SameKey
  <2>3. OneOwner'
    BY <2>2 DEF OneOwner, Owning
  <2> QED
    BY <2>1, <2>3
<1>9. EffectsHoldKeys' /\ EffectsOnce'
  <2>1. CASE effects' = effects \cup {r}
    BY <1>1, <1>3, <1>5, <1>7, <2>1, EffectStep
  <2>2. CASE effects' = effects
    <3>1. \A s \in effects : s \in Requests /\ s # r /\ requests'[s] = requests[s]
      BY <1>1, <1>3 DEF IInv, TypeOK
    <3> QED
      BY <1>1, <1>7, <2>2, <3>1 DEF IInv, EffectsHoldKeys, EffectsOnce, SameKey
  <2> QED
    BY <1>3, <2>1, <2>2
<1>10. StoredAnswersAreTrue' /\ Replayed'
  BY <1>1, <1>3, <1>5, StoredStay, ReplayedStay
<1> QED
  BY <1>4, <1>6, <1>8, <1>9, <1>10 DEF IInv

LEMMA WriteKeyStep ==
  ASSUME IInv, NEW r \in Requests, WriteKey(r)
  PROVE  IInv'
<1> DEFINE k == requests[r].key
<1>1. /\ requests[r].stage \in {"complete", "clear"} /\ k \in Keys
      /\ requests[r].answer # "none"
      /\ UNCHANGED <<effects, accidents>>
  BY DEF WriteKey, IInv, Honest
<1>2. /\ requests' \in [Requests -> Request]
      /\ \A s \in Requests \ {r} : requests'[s] = requests[s]
      /\ requests'[r].stage = "over" /\ requests'[r].key = k
      /\ requests'[r].answer = requests[r].answer
      /\ requests'[r].cached = requests[r].cached
  BY GotoFacts DEF WriteKey, IInv
<1>3. /\ \A j \in Keys \ {k} : idempotency_keys'[j] = idempotency_keys[j]
      /\ \/ requests[r].stage = "clear" /\ idempotency_keys'[k] = AbsentKey
         \/ /\ requests[r].stage = "complete"
            /\ idempotency_keys'[k] = [status |-> "COMPLETED", response |-> requests[r].answer]
  BY <1>1 DEF WriteKey, IInv, TypeOK
<1>4. TypeOK'
  <2>1. requests[r].stage = "complete" => requests[r].answer \in {"ok", "rejected"}
    BY DEF IInv, Honest
  <2> QED
    BY <1>1, <1>2, <2>1 DEF WriteKey, AbsentKey, IInv, TypeOK
<1>5. StepOf(r)
  BY <1>1, <1>2 DEF StepOf
<1>6. Honest'
  BY <1>1, <1>2 DEF IInv, Honest
<1>7. \A s \in Requests : Owning(s)' => /\ s # r /\ Owning(s) /\ requests'[s] = requests[s]
                                        /\ requests[s].key # k /\ requests[s].key \in Keys
  BY <1>1, <1>2 DEF Owning, IInv, OneOwner, SameKey, Honest
<1>8. OneOwner' /\ OwnedProcessing'
  BY <1>3, <1>7 DEF OneOwner, OwnedProcessing, Owning, SameKey, IInv
<1>9. \A s \in effects : requests[s].answer # "error" /\ requests[s].key = k =>
          s = r /\ requests[r].stage = "complete"
  BY <1>1 DEF IInv, EffectsHoldKeys, Owning, SameKey, Honest
<1>10. EffectsHoldKeys'
  <2> SUFFICES ASSUME NEW s \in effects, requests[s].answer # "error"
               PROVE  /\ idempotency_keys'[requests[s].key].status # "ABSENT"
                      /\ \A q \in Requests : Owning(q)' /\ SameKey(s, q) => q = s
    BY <1>1, <1>2 DEF EffectsHoldKeys, SameKey, IInv, TypeOK
  <2>1. s \in Requests /\ requests[s].key \in Keys
    BY DEF IInv, TypeOK, Honest
  <2>2. idempotency_keys'[requests[s].key].status # "ABSENT"
    BY <1>3, <1>9, <2>1 DEF IInv, EffectsHoldKeys
  <2> QED
    BY <1>7, <2>2 DEF IInv, EffectsHoldKeys
<1>11. EffectsOnce'
  BY <1>1, <1>2 DEF IInv, TypeOK, EffectsOnce, SameKey
<1>12. StoredAnswersAreTrue'
  <2>1. CASE requests[r].stage = "clear"
    BY <1>3, <1>5, <2>1, StoredStay DEF AbsentKey
  <2>2. CASE requests[r].stage = "complete"
    <3> SUFFICES ASSUME NEW j \in Keys, idempotency_keys'[j].status = "COMPLETED"
                 PROVE  /\ idempotency_keys'[j].response \in {"ok", "rejected"}
                        /\ \E s \in Requests : Answered(s, j, idempotency_keys[j].response)'
      BY DEF StoredAnswersAreTrue
    <3>1. CASE j = k
      <4>1. Answered(r, k, requests[r].answer) /\ requests[r].answer \in {"ok", "rejected"}
        BY <2>2 DEF Answered, IInv, Honest
      <4>2. Answered(r, k, requests[r].answer)'
        BY <1>1, <1>2, <4>1 DEF Answered
      <4> QED
        BY <1>2, <1>3, <2>2, <3>1, <4>1, <4>2 DEF Answered
    <3>2. CASE j # k
      <4>1. idempotency_keys'[j] = idempotency_keys[j]
            /\ idempotency_keys[j].response \in {"ok", "rejected"}
        BY <1>3, <3>2 DEF IInv, StoredAnswersAreTrue
      <4>2. PICK s \in Requests : Answered(s, j, idempotency_keys[j].response)
        BY <4>1 DEF IInv, StoredAnswersAreTrue
      <4>3. Answered(s, j, idempotency_keys[j].response)'
        BY <1>5, <4>1, <4>2, AnswersStay DEF Answered
      <4> QED
        BY <4>1, <4>3
    <3> QED
      BY <3>1, <3>2
  <2> QED
    BY <1>1, <2>1, <2>2
<1>13. Replayed'
  BY <1>2, <1>5, ReplayedStay
<1> QED
  BY <1>4, <1>6, <1>8, <1>10, <1>11, <1>12, <1>13 DEF IInv

LEMMA GuardFailsStep ==
  ASSUME IInv, NEW r \in Requests, GuardFails(r)
  PROVE  IInv'
<1>1. /\ requests[r].stage \in {"look_up", "insert", "complete", "clear"}
      /\ Accident("db_error")
      /\ UNCHANGED <<idempotency_keys, effects>>
  BY DEF GuardFails
<1>2. /\ requests' \in [Requests -> Request]
      /\ \A s \in Requests \ {r} : requests'[s] = requests[s]
      /\ requests'[r].stage = "over" /\ requests'[r].key = requests[r].key
      /\ requests'[r].cached = requests[r].cached
      /\ \/ requests[r].stage \in {"look_up", "insert"}
         \/ requests'[r].answer = requests[r].answer
  BY GotoFacts, AnswerFacts DEF GuardFails, IInv, Codes
<1>3. TypeOK'
  BY <1>1, <1>2, AccidentTyped DEF IInv, TypeOK
<1>4. StepOf(r)
  BY <1>1, <1>2 DEF StepOf, IInv, Honest
<1>5. Honest'
  BY <1>1, <1>2 DEF IInv, Honest
<1>6. ~Owning(r)'
  BY <1>2 DEF Owning
<1> QED
  BY <1>1, <1>2, <1>3, <1>4, <1>5, <1>6, QuietStep, ReplayedStay DEF IInv

LEMMA CrashStep ==
  ASSUME IInv, NEW r \in Requests, Crash(r)
  PROVE  IInv'
<1>1. /\ requests[r].stage \in Stages /\ Accident("crash") /\ UNCHANGED idempotency_keys
      /\ \/ effects' = effects
         \/ requests[r].stage = "handle" /\ effects' = effects \cup {r}
  BY DEF Crash, InFlight
<1>2. /\ requests' \in [Requests -> Request]
      /\ \A s \in Requests \ {r} : requests'[s] = requests[s]
      /\ requests'[r].stage = "lost" /\ requests'[r].key = requests[r].key
      /\ requests'[r].answer = requests[r].answer
      /\ requests'[r].cached = requests[r].cached
  BY GotoFacts DEF Crash, IInv
<1>3. TypeOK'
  BY <1>1, <1>2, AccidentTyped DEF IInv, TypeOK
<1>4. StepOf(r)
  BY <1>1, <1>2 DEF StepOf, IInv, Honest
<1>5. Honest'
  BY <1>1, <1>2 DEF IInv, Honest, Stages
<1>6. ~Owning(r)' /\ Replayed'
  BY <1>2, <1>4, ReplayedStay DEF Owning
<1>7. CASE effects' = effects
  BY <1>1, <1>3, <1>4, <1>5, <1>6, <1>7, QuietStep DEF IInv
<1>8. CASE requests[r].stage = "handle" /\ effects' = effects \cup {r}
  <2>1. \A s \in Requests : Owning(s)' => s # r /\ Owning(s) /\ requests'[s] = requests[s]
    BY <1>2 DEF Owning
  <2>2. EffectsHoldKeys' /\ EffectsOnce'
    BY <1>1, <1>2, <1>4, <1>8, <2>1, EffectStep
  <2>3. OneOwner' /\ OwnedProcessing'
    BY <1>1, <2>1 DEF OneOwner, OwnedProcessing, Owning, SameKey, IInv
  <2>4. StoredAnswersAreTrue'
    BY <1>1, <1>4, StoredStay
  <2> QED
    BY <1>3, <1>5, <1>6, <2>2, <2>3, <2>4 DEF IInv
<1> QED
  BY <1>1, <1>7, <1>8

LEMMA NextIInv == IInv /\ [Next]_vars => IInv'
<1> SUFFICES ASSUME IInv, [Next]_vars PROVE IInv'
  OBVIOUS
<1>1. CASE UNCHANGED vars
  BY <1>1 DEF vars, IInv, TypeOK, Honest, OneOwner, OwnedProcessing, Owning, EffectsHoldKeys,
              EffectsOnce, SameKey, StoredAnswersAreTrue, Replayed, Answered
<1>2. CASE Next
  BY <1>2, SendStep, LookUpStep, InsertKeyStep, HandleStep, WriteKeyStep, GuardFailsStep,
     CrashStep DEF Next, Serve
<1> QED
  BY <1>1, <1>2

-----------------------------------------------------------------------------
(* The theorems. *)

\* The inductive invariant holds in every reachable state.
THEOREM Invariance == Spec => []IInv
BY InitIInv, NextIInv, PTL DEF Spec

\* Every variable of the guard keeps its type.
THEOREM TypeCorrect == Spec => []TypeOK
BY Invariance, PTL DEF IInv

\* However often and however concurrently a request is repeated, it takes effect
\* a second time only if it was answered with a server error.
THEOREM RepeatsTakeEffectOnce == Spec => []EffectsOnce
BY Invariance, PTL DEF IInv

\* The primary key gives every key to one request at a time, from its INSERT to
\* the write that nobody waits for.
THEOREM KeysHaveOneOwner == Spec => []OneOwner
BY Invariance, PTL DEF IInv

\* What the guard answers from the table is what a handler has answered, and it
\* is right about the effect.
THEOREM ReplaysAreHonest == Spec => []ReplaysAreTrue
<1>1. Replayed => ReplaysAreTrue
  BY DEF Replayed, ReplaysAreTrue, Answered, SameKey
<1> QED
  BY <1>1, Invariance, PTL DEF IInv

\* A step leaves the answers that are stored.
LEMMA NextStored ==
  ASSUME IInv, [Next]_vars
  PROVE  [\A k \in Keys : idempotency_keys[k].status = "COMPLETED" =>
             idempotency_keys'[k] = idempotency_keys[k]]_vars
<1> SUFFICES ASSUME Next, NEW k \in Keys, idempotency_keys[k].status = "COMPLETED"
             PROVE  idempotency_keys'[k] = idempotency_keys[k]
  OBVIOUS
<1>1. PICK r \in Requests : (\E j \in Keys : Send(r, j)) \/ Serve(r) \/ GuardFails(r) \/ Crash(r)
  BY DEF Next
<1>2. CASE InsertKey(r)
  <2>1. requests[r].key \in Keys
    BY <1>2 DEF InsertKey, IInv, Honest
  <2> QED
    BY <1>2, <2>1 DEF InsertKey, IInv, TypeOK
<1>3. CASE WriteKey(r)
  <2>1. requests[r].key \in Keys /\ requests[r].key # k
    BY <1>3 DEF WriteKey, IInv, Honest, OwnedProcessing, Owning
  <2> QED
    BY <1>3, <2>1 DEF WriteKey, IInv, TypeOK
<1>4. CASE (\E j \in Keys : Send(r, j)) \/ LookUp(r) \/ Handle(r) \/ GuardFails(r) \/ Crash(r)
  BY <1>4 DEF Send, LookUp, Handle, GuardFails, Crash
<1> QED
  BY <1>1, <1>2, <1>3, <1>4 DEF Serve

\* An answer that is stored is never replaced or cleared.
THEOREM AnswersAreFinal == Spec => StoredAnswersStay
BY NextStored, Invariance, PTL DEF Spec, StoredAnswersStay

-----------------------------------------------------------------------------
(* Overlapping requests are executed one at a time.                        *)

\* What AtMostOnce sees of this module.
MemoryOf == [k \in Keys |-> Remembered(k)]
AskedOf == [r \in Requests |-> requests[r].key]
ToldOf == [r \in Requests |-> requests[r].answer]
ReplayedOf == {r \in Requests : requests[r].cached}
Seen == <<MemoryOf, AskedOf, ToldOf, ReplayedOf, effects>>

\* A key that somebody was told from stays COMPLETED.
ReplaysRelied ==
    \A r \in Requests : requests[r].cached =>
        idempotency_keys[requests[r].key].status = "COMPLETED"

Unowned(k) == \A r \in Requests : requests[r].key = k => ~Owning(r)

\* What a key remembers, as its only owner decides it.
Recalled ==
    \A k \in Keys :
        /\ idempotency_keys[k].status = "ABSENT" => Remembered(k) = "free"
        /\ idempotency_keys[k].status = "COMPLETED" =>
              Remembered(k) = idempotency_keys[k].response
        /\ idempotency_keys[k].status = "PROCESSING" =>
              /\ \A r \in Requests : requests[r].key = k =>
                    /\ requests[r].stage \in {"handle", "clear"} => Remembered(k) = "free"
                    /\ requests[r].stage = "complete" => Remembered(k) = requests[r].answer
              /\ Unowned(k) => Remembered(k) = "spent"

LEMMA KeysRecall == IInv => Recalled
<1> SUFFICES ASSUME IInv, NEW k \in Keys
             PROVE  /\ idempotency_keys[k].status = "ABSENT" => Remembered(k) = "free"
                    /\ idempotency_keys[k].status = "COMPLETED" =>
                          Remembered(k) = idempotency_keys[k].response
                    /\ idempotency_keys[k].status = "PROCESSING" =>
                          /\ \A r \in Requests : requests[r].key = k =>
                                /\ requests[r].stage \in {"handle", "clear"} =>
                                      Remembered(k) = "free"
                                /\ requests[r].stage = "complete" =>
                                      Remembered(k) = requests[r].answer
                          /\ Unowned(k) => Remembered(k) = "spent"
  BY DEF Recalled
<1>1. CASE idempotency_keys[k].status \in {"ABSENT", "COMPLETED"}
  BY <1>1 DEF Remembered
<1>2. ASSUME idempotency_keys[k].status = "PROCESSING",
             NEW r \in Requests, requests[r].key = k,
             requests[r].stage \in {"handle", "clear"}
      PROVE  Remembered(k) = "free"
  <2>1. r \in Owned(k, {"handle", "clear"})
    BY <1>2 DEF Owned
  <2> QED
    BY <1>2, <2>1 DEF Remembered
<1>3. ASSUME idempotency_keys[k].status = "PROCESSING",
             NEW r \in Requests, requests[r].key = k, requests[r].stage = "complete"
      PROVE  Remembered(k) = requests[r].answer
  <2>1. \A s \in Requests : requests[s].key = k /\ Owning(s) => s = r
    BY <1>3 DEF IInv, OneOwner, Owning, SameKey
  <2>2. Owned(k, {"handle", "clear"}) = {}
    BY <1>3, <2>1 DEF Owned, Owning
  <2>3. Owned(k, {"complete"}) = {r}
    BY <1>3, <2>1 DEF Owned, Owning
  <2>4. requests[r].answer \in {"ok", "rejected"}
    BY <1>3 DEF IInv, Honest
  <2> QED
    BY <1>3, <2>2, <2>3, <2>4 DEF Remembered
<1>4. ASSUME idempotency_keys[k].status = "PROCESSING", Unowned(k)
      PROVE  Remembered(k) = "spent"
  <2>1. Owned(k, {"handle", "clear"}) = {} /\ Owned(k, {"complete"}) = {}
    BY <1>4 DEF Owned, Unowned, Owning
  <2> QED
    BY <1>4, <2>1 DEF Remembered
<1> QED
  BY <1>1, <1>2, <1>3, <1>4 DEF IInv, TypeOK

LEMMA NextKeysRecall == IInv' => Recalled'
  BY KeysRecall, PTL

\* Who is told something by a step of request r, which keeps its key.
Changes(r, answer) ==
    /\ r \in Requests
    /\ requests[r].key \in Keys
    /\ \A s \in Requests \ {r} : requests'[s] = requests[s]
    /\ requests'[r].key = requests[r].key
    /\ requests'[r].answer = answer

LEMMA ChangesSeen ==
  ASSUME NEW r, NEW answer, Changes(r, answer)
  PROVE  /\ AskedOf' = AskedOf
         /\ ToldOf' = [ToldOf EXCEPT ![r] = answer]
         /\ requests'[r].cached = requests[r].cached => ReplayedOf' = ReplayedOf
BY DEF Changes, AskedOf, ToldOf, ReplayedOf

\* Nobody is told anything.
LEMMA NothingTold ==
  ASSUME NEW r, Changes(r, requests[r].answer),
         requests'[r].cached = requests[r].cached
  PROVE  AskedOf' = AskedOf /\ ToldOf' = ToldOf /\ ReplayedOf' = ReplayedOf
<1>1. \A s \in Requests : requests'[s].answer = requests[s].answer
  BY DEF Changes
<1> QED
  BY <1>1, ChangesSeen DEF ToldOf

\* A key other than that of r remembers what it did.
LEMMA OthersRemember ==
  ASSUME NEW r, NEW answer, Changes(r, answer),
         NEW k \in Keys, k # requests[r].key,
         idempotency_keys'[k] = idempotency_keys[k]
  PROVE  Remembered(k)' = Remembered(k)
<1>1. \A stages : Owned(k, stages)' = Owned(k, stages)
  BY DEF Changes, Owned
<1>2. \A s \in Owned(k, {"complete"}) : requests'[s] = requests[s]
  BY DEF Changes, Owned
<1> QED
  BY <1>1, <1>2 DEF Remembered

\* What the key of r remembers after the step, and so what is remembered.
LEMMA MemoryChanges ==
  ASSUME NEW r, NEW answer, Changes(r, answer), NEW m,
         \A k \in Keys \ {requests[r].key} : idempotency_keys'[k] = idempotency_keys[k],
         Remembered(requests[r].key)' = m
  PROVE  MemoryOf' = [MemoryOf EXCEPT ![requests[r].key] = m]
<1>1. \A k \in Keys : Remembered(k)' = IF k = requests[r].key THEN m ELSE Remembered(k)
  BY OthersRemember DEF Changes
<1> QED
  BY <1>1 DEF MemoryOf

LEMMA MemoryStays ==
  ASSUME NEW r, NEW answer, Changes(r, answer),
         \A k \in Keys \ {requests[r].key} : idempotency_keys'[k] = idempotency_keys[k],
         Remembered(requests[r].key)' = Remembered(requests[r].key)
  PROVE  MemoryOf' = MemoryOf
<1>1. \A k \in Keys : Remembered(k)' = Remembered(k)
  BY OthersRemember DEF Changes
<1> QED
  BY <1>1 DEF MemoryOf

\* A request that has not been told anything waits, in the abstract too.
LEMMA Waiting ==
  ASSUME IInv, NEW r \in Requests, requests[r].stage \in {"look_up", "insert", "handle"}
  PROVE  /\ requests[r].key \in Keys /\ Once!Waits(r)
         /\ requests[r].answer = "none" /\ ~requests[r].cached
BY DEF IInv, Honest, Once!Waits

\* A key whose row and whose owners stay remembers what it did.
LEMMA SameOwners ==
  ASSUME UNCHANGED idempotency_keys,
         \A s \in Requests : requests'[s] = requests[s] \/ (~Owning(s) /\ ~Owning(s)')
  PROVE  MemoryOf' = MemoryOf
<1> SUFFICES ASSUME NEW k \in Keys PROVE Remembered(k)' = Remembered(k)
  BY DEF MemoryOf
<1>1. /\ Owned(k, {"handle", "clear"})' = Owned(k, {"handle", "clear"})
      /\ Owned(k, {"complete"})' = Owned(k, {"complete"})
  BY DEF Owned, Owning
<1>2. \A s \in Owned(k, {"complete"}) : requests'[s] = requests[s]
  BY DEF Owned, Owning
<1> QED
  BY <1>1, <1>2 DEF Remembered

LEMMA SendOnce ==
  ASSUME IInv, NEW r \in Requests, NEW k \in Keys, Send(r, k)
  PROVE  Once!Ask(r, k)
<1>1. /\ requests[r].stage = "new" /\ requests[r].key = NoKey
      /\ \A s \in Requests \ {r} : requests'[s] = requests[s]
      /\ requests'[r].stage = "look_up" /\ requests'[r].key = k
      /\ requests'[r].answer = requests[r].answer /\ requests'[r].cached = requests[r].cached
      /\ UNCHANGED <<idempotency_keys, effects>>
  BY DEF Send, IInv, TypeOK, Honest, Request
<1>2. MemoryOf' = MemoryOf
  BY <1>1, SameOwners DEF Owning
<1>3. MemoryOf' = MemoryOf /\ ToldOf' = ToldOf /\ ReplayedOf' = ReplayedOf
  BY <1>1, <1>2 DEF ToldOf, ReplayedOf
<1>4. AskedOf' = [AskedOf EXCEPT ![r] = k]
  BY <1>1 DEF AskedOf
<1> QED
  BY <1>1, <1>3, <1>4 DEF Once!Ask, MemoryOf, AskedOf, ToldOf, ReplayedOf

\* A request that is turned away, whatever becomes of its key.
LEMMA RefusedOnce ==
  ASSUME IInv, NEW r \in Requests, requests[r].stage \in {"look_up", "insert"},
         NEW code \in {"conflict", "error"}, Changes(r, code),
         requests'[r].cached = requests[r].cached, UNCHANGED effects,
         \/ MemoryOf' = MemoryOf
         \/ /\ Remembered(requests[r].key) = "free"
            /\ MemoryOf' = [MemoryOf EXCEPT ![requests[r].key] = "spent"]
  PROVE  Once!Refuse(r)
<1>1. Once!Waits(r) /\ requests[r].key \in Keys
  BY Waiting
<1>2. /\ AskedOf' = AskedOf /\ ToldOf' = [ToldOf EXCEPT ![r] = code]
      /\ ReplayedOf' = ReplayedOf
  BY ChangesSeen
<1>3. MemoryOf[requests[r].key] = Remembered(requests[r].key)
      /\ AskedOf[r] = requests[r].key
  BY <1>1 DEF MemoryOf, AskedOf
<1>4. Once!Tell(r, "conflict") \/ Once!Tell(r, "error")
  BY <1>2 DEF Once!Tell, ToldOf
<1>5. \/ MemoryOf' = MemoryOf
      \/ MemoryOf[AskedOf[r]] = "free" /\ Once!Remember(AskedOf[r], "spent")
  BY <1>3 DEF Once!Remember, MemoryOf
<1> QED
  BY <1>1, <1>2, <1>4, <1>5 DEF Once!Refuse, MemoryOf, AskedOf, ReplayedOf

LEMMA LookUpOnce ==
  ASSUME IInv, Recalled, Recalled', NEW r \in Requests, LookUp(r)
  PROVE  Once!Replay(r) \/ Once!Refuse(r) \/ UNCHANGED Seen
<1> DEFINE k == requests[r].key
           row == idempotency_keys[k]
<1>1. /\ requests[r].stage = "look_up" /\ UNCHANGED <<idempotency_keys, effects>>
      /\ k \in Keys /\ Once!Waits(r) /\ requests[r].answer = "none"
  BY Waiting DEF LookUp
<1>2. ASSUME requests'[r].stage \in {"insert", "over"},
             \A s \in Requests \ {r} : requests'[s] = requests[s]
      PROVE  MemoryOf' = MemoryOf
  BY <1>1, <1>2, SameOwners DEF Owning
<1>3. CASE Goto(r, "insert")
  <2>1. Changes(r, requests[r].answer) /\ requests'[r].stage = "insert"
        /\ requests'[r].cached = requests[r].cached
    BY <1>1, <1>3, GotoFacts DEF Changes, IInv, Stages
  <2>2. AskedOf' = AskedOf /\ ReplayedOf' = ReplayedOf /\ ToldOf' = ToldOf
    BY <2>1, NothingTold
  <2> QED
    BY <1>1, <1>2, <2>1, <2>2 DEF Seen, Changes
<1>4. CASE Answer(r, "conflict", "over")
  <2>1. Changes(r, "conflict") /\ requests'[r].stage = "over"
        /\ requests'[r].cached = requests[r].cached
    BY <1>1, <1>4, AnswerFacts DEF Changes, IInv, Codes
  <2> QED
    BY <1>1, <1>2, <2>1, RefusedOnce DEF Changes
<1>5. CASE /\ row.status = "COMPLETED"
           /\ requests' = [requests EXCEPT ![r] =
                 [@ EXCEPT !.answer = row.response, !.cached = TRUE, !.stage = "over"]]
  <2>1. Changes(r, row.response) /\ requests'[r].stage = "over" /\ requests'[r].cached
    BY <1>1, <1>5 DEF Changes, IInv, TypeOK, Request
  <2>2. AskedOf' = AskedOf /\ ToldOf' = [ToldOf EXCEPT ![r] = row.response]
    BY <2>1, ChangesSeen
  <2>3. ReplayedOf' = ReplayedOf \cup {r}
    BY <2>1 DEF ReplayedOf, Changes
  <2>4. AskedOf[r] = k /\ MemoryOf[k] = row.response /\ row.response \in Once!Answers
    BY <1>1, <1>5 DEF AskedOf, MemoryOf, Recalled, IInv, StoredAnswersAreTrue, Once!Answers
  <2>5. MemoryOf' = MemoryOf
    BY <1>2, <2>1 DEF Changes
  <2>6. Once!Tell(r, MemoryOf[AskedOf[r]])
    BY <2>2, <2>4 DEF Once!Tell, ToldOf
  <2> QED
    BY <1>1, <2>2, <2>3, <2>4, <2>5, <2>6
    DEF Once!Replay, MemoryOf, AskedOf, ToldOf, ReplayedOf
<1> QED
  BY <1>3, <1>4, <1>5 DEF LookUp

LEMMA InsertKeyOnce ==
  ASSUME IInv, Recalled, Recalled', NEW r \in Requests, InsertKey(r)
  PROVE  Once!Refuse(r) \/ UNCHANGED Seen
<1> DEFINE k == requests[r].key
<1>1. /\ requests[r].stage = "insert" /\ UNCHANGED effects /\ k \in Keys
      /\ ~Owning(r)
  BY Waiting DEF InsertKey, Owning
<1>2. CASE idempotency_keys[k].status # "ABSENT"
  <2>1. Answer(r, "conflict", "over") /\ UNCHANGED idempotency_keys
    BY <1>2 DEF InsertKey
  <2>2. Changes(r, "conflict") /\ requests'[r].stage = "over"
        /\ requests'[r].cached = requests[r].cached
    BY <1>1, <2>1, AnswerFacts DEF Changes, IInv, Codes
  <2>3. MemoryOf' = MemoryOf
    BY <1>1, <2>1, <2>2, SameOwners DEF Changes, Owning
  <2> QED
    BY <1>1, <2>2, <2>3, RefusedOnce
<1>3. CASE idempotency_keys[k].status = "ABSENT"
  <2>1. /\ idempotency_keys' = [idempotency_keys EXCEPT ![k].status = "PROCESSING"]
        /\ Goto(r, "handle") \/ Answer(r, "error", "over")
    BY <1>3 DEF InsertKey
  <2>2. /\ idempotency_keys'[k].status = "PROCESSING"
        /\ \A j \in Keys \ {k} : idempotency_keys'[j] = idempotency_keys[j]
    BY <1>1, <2>1 DEF IInv, TypeOK
  <2>3. Remembered(k) = "free"
    BY <1>1, <1>3 DEF Recalled
  <2>4. CASE Goto(r, "handle")
    <3>1. Changes(r, requests[r].answer) /\ requests'[r].stage = "handle"
          /\ requests'[r].cached = requests[r].cached
      BY <1>1, <2>4, GotoFacts DEF Changes, IInv, Stages
    <3>2. Remembered(k)' = "free"
      BY <1>1, <2>2, <3>1 DEF Recalled, Changes
    <3>3. MemoryOf' = MemoryOf
      BY <2>2, <2>3, <3>1, <3>2, MemoryStays
    <3> QED
      BY <1>1, <3>1, <3>3, NothingTold DEF Seen
  <2>5. CASE Answer(r, "error", "over")
    <3>1. Changes(r, "error") /\ requests'[r].stage = "over"
          /\ requests'[r].cached = requests[r].cached
      BY <1>1, <2>5, AnswerFacts DEF Changes, IInv, Codes
    <3>2. Unowned(k)'
      <4>1. \A s \in Requests : requests[s].key = k => ~Owning(s)
        BY <1>3 DEF IInv, OwnedProcessing
      <4> QED
        BY <3>1, <4>1 DEF Unowned, Owning, Changes
    <3>3. Remembered(k)' = "spent"
      BY <1>1, <2>2, <3>1, <3>2 DEF Recalled, Changes
    <3>4. MemoryOf' = [MemoryOf EXCEPT ![k] = "spent"]
      BY <2>2, <3>1, <3>3, MemoryChanges
    <3> QED
      BY <1>1, <2>3, <3>1, <3>4, RefusedOnce
  <2> QED
    BY <2>1, <2>4, <2>5
<1> QED
  BY <1>2, <1>3

\* The key of a request that is being handled is free, for it alone.
LEMMA HandledIsFree ==
  ASSUME IInv, Recalled, NEW r \in Requests, requests[r].stage = "handle"
  PROVE  /\ idempotency_keys[requests[r].key].status = "PROCESSING"
         /\ MemoryOf[AskedOf[r]] = "free" /\ AskedOf[r] = requests[r].key
<1>1. idempotency_keys[requests[r].key].status = "PROCESSING" /\ requests[r].key \in Keys
  BY Waiting DEF IInv, OwnedProcessing, Owning
<1> QED
  BY <1>1 DEF Recalled, MemoryOf, AskedOf

LEMMA HandleOnce ==
  ASSUME IInv, Recalled, Recalled', NEW r \in Requests, Handle(r)
  PROVE  Once!Execute(r)
<1> DEFINE k == requests[r].key
<1>1. /\ requests[r].stage = "handle" /\ UNCHANGED idempotency_keys
      /\ k \in Keys /\ Once!Waits(r)
  BY Waiting DEF Handle
<1>2. /\ idempotency_keys'[k].status = "PROCESSING"
      /\ MemoryOf[AskedOf[r]] = "free" /\ AskedOf[r] = k
  BY <1>1, HandledIsFree
<1>3. ASSUME NEW code \in {"ok", "rejected"}, Respond(r, code)
      PROVE  /\ AskedOf' = AskedOf /\ ReplayedOf' = ReplayedOf
             /\ Once!Tell(r, code) /\ Once!Remember(AskedOf[r], code)
  <2>1. Changes(r, code) /\ requests'[r].stage = "complete"
        /\ requests'[r].cached = requests[r].cached
    BY <1>1, <1>3, AnswerFacts DEF Respond, Changes, IInv, Stages, Codes
  <2>2. Remembered(k)' = code
    BY <1>1, <1>2, <2>1 DEF Recalled, Changes
  <2>3. MemoryOf' = [MemoryOf EXCEPT ![k] = code]
    BY <1>1, <2>1, <2>2, MemoryChanges
  <2>4. Once!Tell(r, code)
    BY <2>1, ChangesSeen DEF Once!Tell, ToldOf
  <2>5. Once!Remember(AskedOf[r], code)
    BY <1>2, <2>3 DEF Once!Remember, MemoryOf
  <2> QED
    BY <2>1, <2>4, <2>5, ChangesSeen
<1>4. ASSUME Respond(r, "error")
      PROVE  /\ AskedOf' = AskedOf /\ ReplayedOf' = ReplayedOf
             /\ Once!Tell(r, "error") /\ MemoryOf' = MemoryOf
  <2>1. Changes(r, "error") /\ requests'[r].stage = "clear"
        /\ requests'[r].cached = requests[r].cached
    BY <1>1, <1>4, AnswerFacts DEF Respond, Changes, IInv, Stages, Codes
  <2>2. Remembered(k)' = Remembered(k)
    BY <1>1, <1>2, <2>1 DEF Recalled, Changes, MemoryOf
  <2>3. MemoryOf' = MemoryOf
    BY <1>1, <2>1, <2>2, MemoryStays
  <2>4. Once!Tell(r, "error")
    BY <2>1, ChangesSeen DEF Once!Tell, ToldOf
  <2> QED
    BY <2>1, <2>3, <2>4, ChangesSeen
<1>5. \/ Respond(r, "ok") /\ effects' = effects \cup {r}
      \/ Respond(r, "rejected") /\ UNCHANGED effects
      \/ Respond(r, "error") /\ effects' \in {effects, effects \cup {r}}
  BY DEF Handle
<1> QED
  BY <1>1, <1>2, <1>3, <1>4, <1>5 DEF Once!Execute, MemoryOf, AskedOf, ToldOf, ReplayedOf

LEMMA WriteKeyOnce ==
  ASSUME IInv, Recalled, Recalled', NEW r \in Requests, WriteKey(r)
  PROVE  UNCHANGED Seen
<1> DEFINE k == requests[r].key
<1>1. /\ requests[r].stage \in {"complete", "clear"} /\ k \in Keys
      /\ UNCHANGED effects /\ Goto(r, "over")
  BY DEF WriteKey, IInv, Honest
<1>2. Changes(r, requests[r].answer) /\ requests'[r].cached = requests[r].cached
  BY <1>1, GotoFacts DEF Changes, IInv
<1>3. idempotency_keys[k].status = "PROCESSING"
  BY <1>1 DEF IInv, OwnedProcessing, Owning
<1>4. /\ \A j \in Keys \ {k} : idempotency_keys'[j] = idempotency_keys[j]
      /\ idempotency_keys'[k] =
            IF requests[r].stage = "clear" THEN AbsentKey
            ELSE [status |-> "COMPLETED", response |-> requests[r].answer]
  BY <1>1 DEF WriteKey, IInv, TypeOK
<1>5. Remembered(k)' = Remembered(k)
  BY <1>1, <1>2, <1>3, <1>4 DEF Recalled, AbsentKey, Changes
<1>6. MemoryOf' = MemoryOf
  BY <1>2, <1>4, <1>5, MemoryStays
<1> QED
  BY <1>1, <1>2, <1>6, NothingTold DEF Seen

\* A request that owned its key is over, and the row stays: the key is spent.
LEMMA KeySpent ==
  ASSUME IInv, Recalled', NEW r \in Requests, Owning(r), ~Owning(r)',
         Changes(r, requests[r].answer), UNCHANGED idempotency_keys
  PROVE  MemoryOf' = [MemoryOf EXCEPT ![requests[r].key] = "spent"]
<1> DEFINE k == requests[r].key
<1>1. idempotency_keys'[k].status = "PROCESSING" /\ k \in Keys
  BY DEF IInv, OwnedProcessing, Changes
<1>2. \A s \in Requests : requests[s].key = k /\ Owning(s) => s = r
  BY DEF IInv, OneOwner, Owning, SameKey
<1>3. Unowned(k)'
  BY <1>2 DEF Unowned, Owning, Changes
<1>4. Remembered(k)' = "spent"
  BY <1>1, <1>3 DEF Recalled, Changes
<1> QED
  BY <1>4, MemoryChanges

\* The last write of a request is lost: nobody has been told from its key yet.
LEMMA LostOnce ==
  ASSUME IInv, ReplaysRelied, Recalled', NEW r \in Requests,
         requests[r].stage \in {"complete", "clear"}, ~Owning(r)',
         Changes(r, requests[r].answer), requests'[r].cached = requests[r].cached,
         UNCHANGED <<idempotency_keys, effects>>
  PROVE  Once!Lose(requests[r].key)
<1>1. Owning(r) /\ idempotency_keys[requests[r].key].status = "PROCESSING"
  BY DEF Owning, IInv, OwnedProcessing
<1>2. MemoryOf' = [MemoryOf EXCEPT ![requests[r].key] = "spent"]
  BY <1>1, KeySpent
<1>3. \A s \in ReplayedOf : AskedOf[s] # requests[r].key
  BY <1>1 DEF ReplayedOf, AskedOf, ReplaysRelied
<1>4. AskedOf' = AskedOf /\ ToldOf' = ToldOf /\ ReplayedOf' = ReplayedOf
  BY NothingTold
<1> QED
  BY <1>2, <1>3, <1>4
  DEF Once!Lose, Once!Remember, MemoryOf, AskedOf, ToldOf, ReplayedOf

LEMMA GuardFailsOnce ==
  ASSUME IInv, ReplaysRelied, Recalled', NEW r \in Requests, GuardFails(r)
  PROVE  Once!Refuse(r) \/ Once!Lose(requests[r].key)
<1>1. UNCHANGED <<idempotency_keys, effects>>
  BY DEF GuardFails
<1>2. CASE requests[r].stage \in {"look_up", "insert"} /\ Answer(r, "error", "over")
  <2>1. Changes(r, "error") /\ requests'[r].stage = "over"
        /\ requests'[r].cached = requests[r].cached
    BY <1>2, Waiting, AnswerFacts DEF Changes, IInv, Codes
  <2>2. MemoryOf' = MemoryOf
    BY <1>1, <1>2, <2>1, SameOwners DEF Changes, Owning
  <2> QED
    BY <1>1, <1>2, <2>1, <2>2, RefusedOnce
<1>3. CASE requests[r].stage \in {"complete", "clear"} /\ Goto(r, "over")
  <2>1. /\ Changes(r, requests[r].answer) /\ requests'[r].stage = "over"
        /\ requests'[r].cached = requests[r].cached
    BY <1>3, GotoFacts DEF Changes, IInv, Honest
  <2> QED
    BY <1>1, <1>3, <2>1, LostOnce DEF Owning
<1> QED
  BY <1>2, <1>3 DEF GuardFails

LEMMA CrashOnce ==
  ASSUME IInv, ReplaysRelied, Recalled, Recalled', NEW r \in Requests, Crash(r)
  PROVE  Once!Execute(r) \/ Once!Lose(requests[r].key) \/ UNCHANGED Seen
<1>1. /\ requests[r].stage \in Stages /\ UNCHANGED idempotency_keys
      /\ \/ UNCHANGED effects
         \/ requests[r].stage = "handle" /\ effects' = effects \cup {r}
  BY DEF Crash, InFlight
<1>2. /\ Changes(r, requests[r].answer) /\ requests'[r].stage = "lost"
      /\ requests'[r].cached = requests[r].cached
  BY <1>1, GotoFacts DEF Crash, Changes, IInv, Honest, Stages
<1>3. AskedOf' = AskedOf /\ ToldOf' = ToldOf /\ ReplayedOf' = ReplayedOf
  BY <1>2, NothingTold
<1>4. CASE requests[r].stage \in {"look_up", "insert"}
  <2>1. MemoryOf' = MemoryOf
    BY <1>1, <1>2, <1>4, SameOwners DEF Changes, Owning
  <2> QED
    BY <1>1, <1>3, <1>4, <2>1 DEF Seen
<1>5. CASE requests[r].stage \in {"complete", "clear"}
  BY <1>1, <1>2, <1>5, LostOnce DEF Owning
<1>6. CASE requests[r].stage = "handle"
  <2>1. Once!Waits(r) /\ MemoryOf[AskedOf[r]] = "free" /\ AskedOf[r] = requests[r].key
    BY <1>6, Waiting, HandledIsFree
  <2>2. MemoryOf' = [MemoryOf EXCEPT ![requests[r].key] = "spent"]
    BY <1>1, <1>2, <1>6, KeySpent DEF Owning
  <2>3. Once!Remember(AskedOf[r], "spent") /\ effects' \in {effects, effects \cup {r}}
    BY <1>1, <2>1, <2>2 DEF Once!Remember, MemoryOf
  <2> QED
    BY <1>3, <2>1, <2>3 DEF Once!Execute, MemoryOf, AskedOf, ToldOf, ReplayedOf
<1> QED
  BY <1>1, <1>4, <1>5, <1>6 DEF Stages

LEMMA NextOnce ==
  ASSUME IInv, ReplaysRelied, Recalled, Recalled', [Next]_vars
  PROVE  Once!Next \/ UNCHANGED Seen
<1>1. CASE UNCHANGED vars
  <2>1. UNCHANGED <<idempotency_keys, requests, effects>>
    BY <1>1 DEF vars
  <2>2. MemoryOf' = MemoryOf
    BY <2>1, SameOwners
  <2> QED
    BY <2>1, <2>2 DEF Seen, AskedOf, ToldOf, ReplayedOf
<1>2. ASSUME NEW r \in Requests, NEW k \in Keys, Send(r, k)
      PROVE  Once!Next
  BY <1>2, SendOnce DEF Once!Next
<1>3. ASSUME NEW r \in Requests, Serve(r)
      PROVE  Once!Next \/ UNCHANGED Seen
  BY <1>3, LookUpOnce, InsertKeyOnce, HandleOnce, WriteKeyOnce DEF Serve, Once!Next
<1>4. ASSUME NEW r \in Requests, GuardFails(r) \/ Crash(r)
      PROVE  Once!Next \/ UNCHANGED Seen
  <2>1. Once!Lose(requests[r].key) => requests[r].key \in Keys
    <3>1. requests[r].stage # "new"
      BY <1>4 DEF GuardFails, Crash, InFlight, Stages
    <3> QED
      BY <3>1 DEF IInv, Honest
  <2> QED
    BY <1>4, <2>1, GuardFailsOnce, CrashOnce DEF Once!Next
<1> QED
  BY <1>1, <1>2, <1>3, <1>4 DEF Next

\* Who is answered from the table finds a COMPLETED key, and that one stays.
LEMMA NextRelied ==
  ASSUME IInv, ReplaysRelied, [Next]_vars,
         [\A k \in Keys : idempotency_keys[k].status = "COMPLETED" =>
             idempotency_keys'[k] = idempotency_keys[k]]_vars
  PROVE  ReplaysRelied'
<1>1. \A r \in Requests : requests[r].cached => requests[r].key \in Keys
  BY DEF IInv, Honest
<1>2. \A k \in Keys : idempotency_keys[k].status = "COMPLETED" =>
          idempotency_keys'[k].status = "COMPLETED"
  BY DEF vars
<1>3. \A s \in Requests : requests'[s].cached =>
          /\ requests'[s].key \in Keys
          /\ idempotency_keys[requests'[s].key].status = "COMPLETED"
  <2> SUFFICES ASSUME NEW r \in Requests,
                      (\E k \in Keys : Send(r, k)) \/ Serve(r) \/ GuardFails(r) \/ Crash(r)
               PROVE  \A s \in Requests : requests'[s].cached =>
                          /\ requests'[s].key \in Keys
                          /\ idempotency_keys[requests'[s].key].status = "COMPLETED"
    BY <1>1 DEF Next, vars, ReplaysRelied
  <2>1. /\ \A s \in Requests \ {r} : requests'[s] = requests[s]
        /\ \/ requests[r].stage = "new" /\ ~requests'[r].cached
           \/ /\ requests[r].stage # "new" /\ requests'[r].key = requests[r].key
              /\ \/ requests'[r].cached = requests[r].cached
                 \/ LookUp(r) /\ idempotency_keys[requests[r].key].status = "COMPLETED"
    <3>1. CASE \E k \in Keys : Send(r, k)
      <4>1. PICK k \in Keys : Send(r, k)
        BY <3>1
      <4>2. requests[r].stage = "new" /\ ~requests[r].cached
        BY <4>1 DEF Send, IInv, Honest
      <4>3. requests' = [requests EXCEPT ![r].key = k, ![r].stage = "look_up"]
        BY <4>1 DEF Send
      <4>4. requests'[r].cached = requests[r].cached
        BY <4>3 DEF IInv, TypeOK, Request
      <4> QED
        BY <4>2, <4>3, <4>4 DEF IInv, TypeOK
    <3>2. ASSUME requests[r].stage # "new",
                 \/ \E stage \in Stages \cup {"over", "lost"} : Goto(r, stage)
                 \/ \E code \in Codes, stage \in Stages \cup {"over"} : Answer(r, code, stage)
          PROVE  /\ \A s \in Requests \ {r} : requests'[s] = requests[s]
                 /\ requests'[r].key = requests[r].key
                 /\ requests'[r].cached = requests[r].cached
      BY <3>2, GotoFacts, AnswerFacts DEF IInv
    <3>3. CASE InsertKey(r) \/ Handle(r) \/ WriteKey(r) \/ GuardFails(r) \/ Crash(r)
      <4>1. requests[r].stage # "new"
        BY <3>3 DEF InsertKey, Handle, WriteKey, GuardFails, Crash, InFlight, Stages
      <4>2. \/ \E stage \in Stages \cup {"over", "lost"} : Goto(r, stage)
            \/ \E code \in Codes, stage \in Stages \cup {"over"} : Answer(r, code, stage)
        BY <3>3 DEF InsertKey, Handle, Respond, WriteKey, GuardFails, Crash, Stages, Codes
      <4> QED
        BY <3>2, <4>1, <4>2
    <3>4. CASE LookUp(r)
      <4>1. CASE Goto(r, "insert") \/ Answer(r, "conflict", "over")
        BY <3>2, <3>4, <4>1 DEF LookUp, Stages, Codes
      <4>2. CASE /\ idempotency_keys[requests[r].key].status = "COMPLETED"
                 /\ requests' = [requests EXCEPT ![r] =
                       [@ EXCEPT !.answer = idempotency_keys[requests[r].key].response,
                                 !.cached = TRUE, !.stage = "over"]]
        BY <3>4, <4>2 DEF LookUp, IInv, TypeOK, Request
      <4> QED
        BY <3>4, <4>1, <4>2 DEF LookUp
    <3> QED
      BY <3>1, <3>3, <3>4 DEF Serve
  <2>2. requests[r].stage # "new" => requests[r].key \in Keys
    BY DEF IInv, Honest
  <2> QED
    BY <1>1, <2>1, <2>2 DEF ReplaysRelied
<1> QED
  BY <1>2, <1>3 DEF ReplaysRelied

\* Whatever overlaps, is lost or fails, the requests with a key are executed as if
\* one step did all of it: once, unless a server error was the answer; the others
\* get the answer of that one or are refused without an effect; and what one of
\* them was told from the table every later one is told.
THEOREM GuardKeepsPromise == Spec => Promise
<1>1. Init => ReplaysRelied
  BY DEF Init, ReplaysRelied, NoRequest
<1>2. Init => Once!Init
  BY DEF Init, AbsentKey, NoRequest, Remembered, Once!Init
<1>3. IInv /\ ReplaysRelied /\ [Next]_vars => ReplaysRelied'
  BY NextStored, NextRelied
<1>4. IInv /\ IInv' /\ ReplaysRelied /\ [Next]_vars => [Once!Next]_(Once!vars)
  BY KeysRecall, NextKeysRecall, NextOnce
  DEF Seen, MemoryOf, AskedOf, ToldOf, ReplayedOf, Once!vars
<1> QED
  BY <1>1, <1>2, <1>3, <1>4, Invariance, PTL DEF Spec, Promise, Once!Spec

=============================================================================
