---------------------------- MODULE Idempotency ----------------------------
(***************************************************************************)
(* idempotency.js: requests with the same X-Request-ID, on any pod, share  *)
(* one Redis key.  A request looks at the key, claims it, runs its handler *)
(* and leaves the answer behind; an error of Redis lets it pass.  A pod's  *)
(* commands reach Redis in order, the last two of a request (SET on the    *)
(* answer, DEL on an answer of 5xx) with nobody waiting for them.          *)
(***************************************************************************)
EXTENDS Naturals

CONSTANTS Request,      \* requests with the same id
          MaxWrongs   \* bound on what Redis and the pods do wrong

ASSUME IdempotencyAssumption == MaxWrongs \in Nat

VARIABLES key,       \* the Redis key
          stage,     \* how far each request is
          answer,    \* what its client got
          served,    \* requests whose handler ran to a final (not 5xx) answer
          failOpen,  \* a claim that Redis did not take was let pass
          expired,   \* the key outlived its TTL
          wrongs

idempotencyVars == <<key, stage, answer, served, failOpen, expired, wrongs>>

NoKey == [status |-> "none", code |-> "none"]
InFlight == [status |-> "in_flight", code |-> "none"]
Kept(code) == [status |-> "completed", code |-> code]
Code == {"2xx", "4xx", "5xx"}

IdempotencyInit ==
  /\ key = NoKey
  /\ stage = [r \in Request |-> "new"] /\ answer = [r \in Request |-> "none"]
  /\ served = {} /\ failOpen = FALSE /\ expired = FALSE /\ wrongs = 0

Wrong == wrongs < MaxWrongs /\ wrongs' = wrongs + 1
(* A Redis call works, or its error is swallowed. *)
RedisCall(ok) == IF ok THEN UNCHANGED wrongs ELSE Wrong
Goes(r, to) == stage' = [stage EXCEPT ![r] = to]
Answers(r, code) == answer' = [answer EXCEPT ![r] = code]
-----------------------------------------------------------------------------
(* get: refused while another one is in flight, its answer when it has one. *)
Get(r, ok) ==
  /\ stage[r] = "new" /\ RedisCall(ok)
  /\ LET seen == IF ok THEN key.status ELSE "none"
     IN  \/ /\ seen = "none"
            /\ Goes(r, "looked") /\ UNCHANGED answer
         \/ /\ seen = "in_flight"
            /\ Goes(r, "over") /\ Answers(r, "409")
         \/ /\ seen = "completed"
            /\ Goes(r, "over") /\ Answers(r, key.code)
  /\ UNCHANGED <<key, served, failOpen, expired>>

ClaimBySet(r, ok) ==                                             \* mutant
  /\ stage[r] = "looked" /\ RedisCall(ok)
  /\ Goes(r, "running")
  /\ key' = IF ok THEN InFlight ELSE key
  /\ failOpen' = (failOpen \/ ~ok)
  /\ UNCHANGED <<answer, served, expired>>
(* markInFlight: SET NX. *)
Claim(r, ok) ==
  /\ stage[r] = "looked" /\ RedisCall(ok)
  /\ LET refused == ok /\ key # NoKey
     IN  /\ Goes(r, IF refused THEN "over" ELSE "running")
         /\ answer' = IF refused THEN [answer EXCEPT ![r] = "409"] ELSE answer
         /\ key' = IF ok /\ ~refused THEN InFlight ELSE key
  /\ failOpen' = (failOpen \/ ~ok)
  /\ UNCHANGED <<served, expired>>

(* The handler answers: res.json and the res.send under it both keep the answer,
   whatever its code. *)
Respond(r, code, ok) ==
  /\ stage[r] = "running" /\ RedisCall(ok)
  /\ Goes(r, "answered") /\ Answers(r, code)
  /\ key' = IF ok THEN Kept(code) ELSE key
  /\ served' = IF code = "5xx" THEN served ELSE served \union {r}
  /\ UNCHANGED <<failOpen, expired>>

(* 'finish': an answer of 5xx is forgotten, so that the client may try again. *)
Finish(r, ok) ==
  /\ stage[r] = "answered"
  /\ Goes(r, "over")
  /\ IF answer[r] = "5xx"
     THEN RedisCall(ok) /\ key' = IF ok THEN NoKey ELSE key
     ELSE ok /\ UNCHANGED <<key, wrongs>>
  /\ UNCHANGED <<answer, served, failOpen, expired>>

(* The pod dies: the key stays, and blocks the id until it expires. *)
PodDies(r) ==
  /\ stage[r] \notin {"new", "over"} /\ Wrong
  /\ Goes(r, "over")
  /\ UNCHANGED <<key, answer, served, failOpen, expired>>
Expire ==
  /\ key # NoKey /\ Wrong
  /\ key' = NoKey /\ expired' = TRUE
  /\ UNCHANGED <<stage, answer, served, failOpen>>

IdempotencyNext ==
  \/ Expire
  \/ \E r \in Request :
       \/ PodDies(r)
       \/ \E ok \in BOOLEAN :
            \/ Get(r, ok) \/ Claim(r, ok) \/ Finish(r, ok)
            \/ \E code \in Code : Respond(r, code, ok)

IdempotencySpec == IdempotencyInit /\ [][IdempotencyNext]_idempotencyVars
-----------------------------------------------------------------------------
(* Type invariant. *)
IdempotencyTypeOK ==
  /\ key \in {NoKey, InFlight} \union {Kept(code) : code \in Code}
  /\ stage \in [Request -> {"new", "looked", "running", "answered", "over"}]
  /\ answer \in [Request -> Code \union {"none", "409"}]
  /\ served \subseteq Request /\ failOpen \in BOOLEAN /\ expired \in BOOLEAN
  /\ wrongs \in 0..MaxWrongs

(* Retries of a request run its handler once: no two run at the same time, none runs
   after one has given a final answer, and what a retry gets instead is that answer.
   Pods that die in the middle and other errors of Redis do not change that, only a
   claim that fails open or an expired key does. *)
RunsOnce ==
  ~failOpen /\ ~expired =>
    /\ \A r, s \in Request : stage[r] = "running" /\ stage[s] = "running" => r = s
    /\ served # {} => \A r \in Request :
         /\ stage[r] # "running"
         /\ answer[r] \in {"2xx", "4xx"} => \E s \in served : answer[r] = answer[s]
=============================================================================
